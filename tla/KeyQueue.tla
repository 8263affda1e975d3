----------------------------- MODULE KeyQueue -----------------------------
(***************************************************************************)
(* What the keyboard path promises to LVGL: the keys come out in the order *)
(* they were typed, each once, each pressed and then released, and one is  *)
(* dropped only while Capacity of them wait.  What was typed before the     *)
(* driver was initialised is forgotten then.                               *)
(***************************************************************************)
EXTENDS Naturals, Sequences

CONSTANTS
  Capacity,   \* keys that may wait
  Keys,       \* keys that can be typed
  NoKey       \* nothing is pressed

VARIABLES
  queue,      \* keys typed and not yet taken, oldest first
  pressed,    \* the key taken last while it is down, or NoKey
  dropped,    \* TRUE once a key was dropped
  begun       \* TRUE once the driver is initialised

vars == <<queue, pressed, dropped, begun>>

Init == /\ queue = << >>
        /\ pressed = NoKey
        /\ dropped = FALSE
        /\ begun = FALSE

Type(k) == /\ Len(queue) < Capacity
           /\ queue' = Append(queue, k)
           /\ UNCHANGED <<pressed, dropped, begun>>

Drop == /\ Len(queue) = Capacity
        /\ dropped' = TRUE
        /\ UNCHANGED <<queue, pressed, begun>>

Take == /\ begun
        /\ queue # << >>
        /\ pressed = NoKey
        /\ pressed' = Head(queue)
        /\ queue' = Tail(queue)
        /\ UNCHANGED <<dropped, begun>>

Release == /\ pressed # NoKey
           /\ pressed' = NoKey
           /\ UNCHANGED <<queue, dropped, begun>>

(* The driver is initialised, once and before the first key is taken: what *)
(* was typed until then is forgotten.  Nothing else empties the queue.     *)
Forget == /\ ~ begun
          /\ begun' = TRUE
          /\ queue' = << >>
          /\ UNCHANGED <<pressed, dropped>>

Next == (\E k \in Keys : Type(k)) \/ Drop \/ Take \/ Release \/ Forget

Spec == Init /\ [][Next]_vars

=============================================================================
