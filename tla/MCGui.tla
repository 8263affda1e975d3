------------------------------- MODULE MCGui -------------------------------
(* The desktop's pointer and the display's pixels share no state: a        *)
(* behaviour is one of the one or of the other, which rests meanwhile.     *)
EXTENDS Desktop, Display

CONSTANTS a1, a2, o1, o2

(* Two places whose icons overlap, near the driver's first position; two   *)
(* movements that change both coordinates, one that changes only a button. *)
MCPlaces == { << 199, 199 >>, << 200, 200 >> }
MCMoves == { << 1, -1 >>, << -1, 0 >>, << 0, 0 >> }

(* Rows with and without words that are not seen; the buffer of four       *)
(* pixels holds one row, two, or a part of an area.                        *)
MCFramebuffers == { [width |-> 3, height |-> 3, pitch |-> 16],
                    [width |-> 2, height |-> 4, pitch |-> 8] }

VARIABLE part

guiVars == <<part, vars, displayVars>>

InDesktop(A) == part = "desktop" /\ A /\ UNCHANGED <<part, displayVars>>
InDisplay(A) == part = "display" /\ A /\ UNCHANGED <<part, vars>>

(* The display rests with one of its first pictures. *)
OnePicture == mbi.pitch = 8 /\ \A p \in Pixels : picture[p] = CHOOSE c \in Colors : TRUE

GuiInit ==
  /\ part \in {"desktop", "display"} /\ Init /\ DisplayInit
  /\ part = "desktop" => OnePicture

GuiSpec ==
  /\ GuiInit
  /\ [][InDesktop(Next) \/ InDisplay(DisplayNext)]_guiVars
  /\ WF_guiVars(InDesktop(MainStep))

(* mouse.c:62-66: the driver is given the size of the screen; the pointer  *)
(* does not keep to it.  The first position is the corner here.            *)
PointerStaysOnScreen == mouse_x <= 200 /\ mouse_y <= 200
=============================================================================
