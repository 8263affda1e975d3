---------------------------- MODULE MCKeyboard ----------------------------
(* Set-1 scancodes.  30 is the letter a, 42 and 54 are the shift keys;     *)
(* 224 55 is what PrintScreen sends behind a shift code of its own.        *)
EXTENDS Keyboard

Plain   == [sc \in 0 .. 127 |-> CASE sc = 30 -> "a" [] sc = 28 -> "nl"
                                 [] sc = 15 -> "tab" [] sc = 55 -> "star"
                                 [] OTHER -> "NUL"]
Shifted == [Plain EXCEPT ![30] = "A"]

(* A letter, a shift key, and PrintScreen with shift codes of its own. *)
TypedKeys == {"a", "rshift", "printscreen"}
Shifting  == {"rshift", "printscreen"}
AllChars  == {"a", "A", "nl", "tab", "star", "bs"}

MakeOf(key) ==
  CASE key = "a" -> <<30>> [] key = "rshift" -> <<54>>
    [] key = "printscreen" -> <<224, 42, 224, 55>>
BreakOf(key) ==
  CASE key = "a" -> <<158>> [] key = "rshift" -> <<182>>
    [] key = "printscreen" -> <<224, 183, 224, 170>>

MakeCodes  == [key \in Keys |-> MakeOf(key)]
BreakCodes == [key \in Keys |-> BreakOf(key)]
=============================================================================
