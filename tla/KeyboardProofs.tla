-------------------------- MODULE KeyboardProofs --------------------------
(***************************************************************************)
(* Proofs about the keyboard path, for a ring of any size and any tables.  *)
(***************************************************************************)
EXTENDS Keyboard, SequenceTheorems, TLAPS

(* The callback is between a press and its release only in the main loop,  *)
(* and nothing is taken off the ring before keyboard_init is done.         *)
CallbackOK ==
  /\ ~ key_consumed => current_key # NUL /\ pc = "loop"
  /\ pc \in {"boot", "init"} => kb_tail = 0

IInv == TypeOK /\ PopSlotIsSafe /\ CallbackOK

-----------------------------------------------------------------------------
(* Stepping once round the ring. *)
LEMMA NextSlotIs ==
  ASSUME NEW i \in Slots
  PROVE  /\ NextSlot(i) \in Slots
         /\ NextSlot(i) = IF i + 1 = KB_BUF_SIZE THEN 0 ELSE i + 1
BY RingAssumption DEF Slots, NextSlot

(* The slot j places behind slot i. *)
LEMMA SlotAt ==
  ASSUME NEW i \in Slots, NEW j \in Slots
  PROVE  /\ (i + j) % KB_BUF_SIZE \in Slots
         /\ (i + j) % KB_BUF_SIZE =
              IF i + j < KB_BUF_SIZE THEN i + j ELSE i + j - KB_BUF_SIZE
BY RingAssumption DEF Slots

(* No character becomes the code LVGL is never sent. *)
LEMMA KeyCodeIsNotNul ==
  ASSUME NEW ch \in Chars
  PROVE  lv_key(ch) # NUL
BY TableAssumption DEF lv_key

(* A printable scancode yields a character. *)
LEMMA CharacterIsChar ==
  ASSUME NEW sc \in 0 .. 255, Character(sc) # NUL
  PROVE  Character(sc) \in Chars
BY TableAssumption DEF Character, Released

(* keyboard_handler's push keeps the ring in order and the slot that       *)
(* kb_buf_pop works on untouched.                                          *)
LEMMA PushKeepsInv ==
  ASSUME IInv, NEW ch \in Chars, kb_buf_push(ch),
         kb_tail' = kb_tail, pc' = pc, slot' = slot, c' = c
  PROVE  /\ kb_buf' \in [Slots -> Chars \cup {NUL}]
         /\ kb_head' \in Slots
         /\ dropped' \in BOOLEAN
         /\ PopSlotIsSafe'
<1> USE RingAssumption DEF IInv, TypeOK
<1>1. kb_head \in Slots /\ kb_tail \in Slots /\ slot \in Slots
  OBVIOUS
<1>2. CASE NextSlot(kb_head) # kb_tail
  <2>1. /\ kb_buf' = [kb_buf EXCEPT ![kb_head] = ch]
        /\ kb_head' = NextSlot(kb_head)
        /\ dropped' = dropped
    BY <1>2 DEF kb_buf_push
  <2>2. kb_buf' \in [Slots -> Chars \cup {NUL}] /\ kb_head' \in Slots
    BY <2>1, NextSlotIs
  <2>3. kb_head' # kb_tail'
    BY <1>2, <2>1
  <2>4. pc \in {"pop", "loaded", "stored"} => kb_head # slot
    BY <1>2 DEF PopSlotIsSafe
  <2>5. ASSUME kb_head # slot PROVE kb_buf'[slot] = kb_buf[slot]
    BY <2>1, <2>5
  <2>6. \A j \in Slots : Waiting(j)' => kb_buf'[j] \in Chars
    <3> SUFFICES ASSUME NEW j \in Slots, Waiting(j)', j # kb_head
                 PROVE  Waiting(j)
      BY <2>1 DEF PopSlotIsSafe
    <3>1. kb_head' = IF kb_head + 1 = KB_BUF_SIZE THEN 0 ELSE kb_head + 1
      BY <2>1, NextSlotIs
    <3> QED BY <3>1, <2>3 DEF Waiting, Slots
  <2> QED BY <2>1, <2>2, <2>3, <2>4, <2>5, <2>6 DEF PopSlotIsSafe
<1>3. CASE NextSlot(kb_head) = kb_tail
  BY <1>3 DEF kb_buf_push, PopSlotIsSafe, Waiting
<1> QED BY <1>2, <1>3

-----------------------------------------------------------------------------
LEMMA InitInv == Init => IInv
<1> SUFFICES ASSUME Init PROVE IInv
  OBVIOUS
<1> USE RingAssumption DEF Init
<1>1. 0 \in Slots
  BY DEF Slots
<1>2. wire \in Seq(0 .. 255)
  BY EmptySeq
<1>3. TypeOK
  BY <1>1, <1>2 DEF TypeOK
<1>4. PopSlotIsSafe /\ CallbackOK
  BY DEF PopSlotIsSafe, CallbackOK, Slots, Waiting
<1> QED BY <1>3, <1>4 DEF IInv

LEMMA NextInv == IInv /\ [Next]_vars => IInv'
<1> SUFFICES ASSUME IInv, [Next]_vars PROVE IInv'
  OBVIOUS
<1> USE RingAssumption DEF IInv
<1>1. ASSUME NEW key \in Keys, PressKey(key) \/ ReleaseKey(key) PROVE IInv'
  BY <1>1, DeviceAssumption
     DEF PressKey, ReleaseKey, TypeOK, PopSlotIsSafe, CallbackOK, Waiting,
         driverVars, inputVars
<1>2. ASSUME NEW sc \in 0 .. 255, keyboard_handler(sc) PROVE IInv'
  <2>1. wire' \in Seq(0 .. 255)
    BY <1>2, HeadTailProperties DEF keyboard_handler, TypeOK
  <2>2. CASE UNCHANGED <<kb_buf, kb_head, dropped>>
    <3>1. TypeOK'
      BY <1>2, <2>1, <2>2 DEF keyboard_handler, TypeOK, inputVars
    <3>2. PopSlotIsSafe' /\ CallbackOK'
      BY <1>2, <2>2
         DEF keyboard_handler, PopSlotIsSafe, CallbackOK, Waiting, NextSlot, inputVars
    <3> QED BY <3>1, <3>2
  <2>3. CASE Character(sc) # NUL /\ kb_buf_push(Character(sc))
    <3>1. /\ kb_buf' \in [Slots -> Chars \cup {NUL}]
          /\ kb_head' \in Slots
          /\ dropped' \in BOOLEAN
          /\ PopSlotIsSafe'
      BY <1>2, <2>3, CharacterIsChar, PushKeepsInv DEF keyboard_handler
    <3> QED BY <1>2, <2>1, <3>1 DEF keyboard_handler, TypeOK, CallbackOK, inputVars
  <2> QED BY <1>2, <2>2, <2>3 DEF keyboard_handler
<1>3. CASE keyboard_init_head
  BY <1>3 DEF keyboard_init_head, TypeOK, PopSlotIsSafe, CallbackOK, Waiting,
              Slots, deviceVars, inputVars
<1>4. CASE keyboard_init_tail
  BY <1>4 DEF keyboard_init_tail, TypeOK, PopSlotIsSafe, CallbackOK, Waiting,
              Slots, deviceVars, inputVars
<1>5. CASE read_release
  BY <1>5 DEF read_release, TypeOK, PopSlotIsSafe, CallbackOK, Waiting,
              deviceVars, driverVars
<1>6. CASE read_nothing
  BY <1>6 DEF read_nothing, TypeOK, PopSlotIsSafe, CallbackOK, Waiting,
              deviceVars, driverVars
<1>7. CASE kb_buf_pop_begin
  BY <1>7 DEF kb_buf_pop_begin, TypeOK, PopSlotIsSafe, CallbackOK, Waiting,
              deviceVars, driverVars, inputVars
<1>8. CASE kb_buf_pop_load
  <2>1. kb_buf[slot] \in Chars
    BY <1>8 DEF kb_buf_pop_load, TypeOK, PopSlotIsSafe, Waiting, Slots
  <2> QED BY <1>8, <2>1
             DEF kb_buf_pop_load, TypeOK, PopSlotIsSafe, CallbackOK, Waiting,
                 deviceVars, driverVars, inputVars
<1>9. CASE kb_buf_pop_store
  <2>1. slot \in Slots /\ slot = kb_tail /\ kb_head # kb_tail
    BY <1>9 DEF kb_buf_pop_store, TypeOK, PopSlotIsSafe
  <2>2. /\ kb_tail' \in Slots
        /\ kb_tail' = IF slot + 1 = KB_BUF_SIZE THEN 0 ELSE slot + 1
    BY <1>9, <2>1, NextSlotIs DEF kb_buf_pop_store
  <2>3. \A j \in Slots : Waiting(j)' => Waiting(j)
    BY <1>9, <2>1, <2>2 DEF kb_buf_pop_store, Waiting, Slots, TypeOK
  <2>4. Waiting(slot)
    BY <2>1 DEF Waiting, Slots, TypeOK
  <2>5. kb_buf[slot] \in Chars
    BY <2>1, <2>4 DEF PopSlotIsSafe
  <2> QED BY <1>9, <2>1, <2>2, <2>3, <2>5
             DEF kb_buf_pop_store, TypeOK, PopSlotIsSafe, CallbackOK,
                 deviceVars, inputVars
<1>10. CASE read_press
  <2>1. c \in Chars
    BY <1>10 DEF read_press, PopSlotIsSafe
  <2>2. lv_key(c) # NUL /\ c # NUL
    BY <2>1, KeyCodeIsNotNul, TableAssumption
  <2>3. report'.state \in {"PRESSED", "RELEASED"} /\ key_consumed' = FALSE
    BY <1>10, <2>2 DEF read_press
  <2>4. TypeOK'
    <3>1. UNCHANGED <<kb_buf, kb_head, kb_tail, shift_pressed, held, wire, dropped>>
      BY <1>10 DEF read_press, deviceVars, driverVars
    <3>2. slot' \in Slots /\ c' = NUL /\ pc' = "loop"
      BY <1>10 DEF read_press, Slots
    <3> QED BY <2>3, <3>1, <3>2 DEF TypeOK
  <2>5. PopSlotIsSafe' /\ CallbackOK'
    BY <1>10, <2>2
       DEF read_press, PopSlotIsSafe, CallbackOK, Waiting, deviceVars, driverVars
  <2> QED BY <2>4, <2>5
<1>11. CASE UNCHANGED vars
  BY <1>11 DEF vars, TypeOK, PopSlotIsSafe, CallbackOK, Waiting
<1> QED
  BY <1>1, <1>2, <1>3, <1>4, <1>5, <1>6, <1>7, <1>8, <1>9, <1>10, <1>11
     DEF Next, KernelStep, lvgl_keyboard_read

LEMMA Invariance == Spec => []IInv
BY InitInv, NextInv, PTL DEF Spec

(* Indices stay inside kb_buf and the variables keep their types.          *)
THEOREM TypeCorrect == Spec => []TypeOK
BY Invariance, PTL DEF IInv

(* The handler never touches the slot kb_buf_pop works on, whichever order *)
(* its two memory accesses come in.                                        *)
THEOREM PopIsSafe == Spec => []PopSlotIsSafe
BY Invariance, PTL DEF IInv

-----------------------------------------------------------------------------
(* The refinement.  KeyCodes are the keys of the abstract queue.           *)
KeyCodes == { lv_key(ch) : ch \in Chars }

At(i) == (kb_tail + i - 1) % KB_BUF_SIZE

(* keyboard_init has emptied the ring. *)
Begun == pc # "boot"

LEMMA CountRange ==
  ASSUME IInv
  PROVE  Count \in 0 .. KB_BUF_SIZE - 1
BY RingAssumption DEF IInv, TypeOK, Count, Slots

(* The i-th waiting key is in the slot i - 1 places behind kb_tail. *)
LEMMA AtIs ==
  ASSUME IInv, NEW i \in 1 .. Count
  PROVE  /\ At(i) \in Slots
         /\ At(i) = IF kb_tail + i - 1 < KB_BUF_SIZE
                      THEN kb_tail + i - 1 ELSE kb_tail + i - 1 - KB_BUF_SIZE
         /\ Waiting(At(i))
<1> USE RingAssumption
<1>1. i - 1 \in Slots /\ kb_tail \in Slots /\ kb_head \in Slots
  BY CountRange DEF Slots, IInv, TypeOK
<1>2. At(i) = (kb_tail + (i - 1)) % KB_BUF_SIZE
  BY <1>1 DEF At, Slots
<1>3. /\ At(i) \in Slots
      /\ At(i) = IF kb_tail + (i - 1) < KB_BUF_SIZE
                   THEN kb_tail + (i - 1) ELSE kb_tail + (i - 1) - KB_BUF_SIZE
  BY <1>1, <1>2, SlotAt
<1> QED BY <1>1, <1>3 DEF Waiting, Slots, Count

BufferedShape ==
  /\ Buffered \in Seq(KeyCodes)
  /\ Len(Buffered) = Count
  /\ \A i \in 1 .. Count : Buffered[i] = lv_key(kb_buf[At(i)])

LEMMA BufferedIsSeq == IInv => BufferedShape
<1> SUFFICES ASSUME IInv PROVE BufferedShape
  OBVIOUS
<1>1. Count \in Nat
  BY CountRange, RingAssumption
<1>2. \A i \in 1 .. Count : lv_key(kb_buf[At(i)]) \in KeyCodes
  BY AtIs DEF IInv, PopSlotIsSafe, KeyCodes
<1>3. Buffered = [i \in 1 .. Count |-> lv_key(kb_buf[At(i)])]
  BY DEF Buffered, At
<1>4. Buffered \in [1 .. Count -> KeyCodes]
  BY <1>2, <1>3
<1> QED BY <1>1, <1>3, <1>4 DEF BufferedShape

(* A push that finds room appends the key. *)
LEMMA PushAppends ==
  ASSUME IInv, IInv', NEW ch \in Chars, kb_buf_push(ch), kb_tail' = kb_tail,
         NextSlot(kb_head) # kb_tail
  PROVE  /\ Count < KB_BUF_SIZE - 1
         /\ Buffered' = Append(Buffered, lv_key(ch))
<1> USE RingAssumption
<1>1. kb_head \in Slots /\ kb_tail \in Slots
  BY DEF IInv, TypeOK
<1>2. /\ kb_head' = IF kb_head + 1 = KB_BUF_SIZE THEN 0 ELSE kb_head + 1
      /\ kb_buf' = [kb_buf EXCEPT ![kb_head] = ch]
      /\ kb_buf \in [Slots -> Chars \cup {NUL}]
  BY <1>1, NextSlotIs DEF kb_buf_push, IInv, TypeOK
<1>3. kb_head' # kb_tail
  BY DEF kb_buf_push
<1>4. Count < KB_BUF_SIZE - 1 /\ Count' = Count + 1 /\ Count \in Nat
  BY <1>1, <1>2, <1>3 DEF Count, Slots
<1>5. \A i \in 1 .. Count : At(i)' = At(i) /\ kb_buf'[At(i)] = kb_buf[At(i)]
  <2> SUFFICES ASSUME NEW i \in 1 .. Count
               PROVE  At(i)' = At(i) /\ kb_buf'[At(i)] = kb_buf[At(i)]
    OBVIOUS
  <2>1. At(i) \in Slots /\ Waiting(At(i))
    BY AtIs
  <2>2. At(i) # kb_head
    BY <1>1, <2>1 DEF Waiting, Slots
  <2>3. kb_buf'[At(i)] = kb_buf[At(i)]
    BY <1>2, <2>1, <2>2
  <2> QED BY <2>3 DEF At
<1>6. \A i \in 1 .. Count + 1 :
         i = Count + 1 => At(i)' = kb_head /\ kb_buf'[kb_head] = ch
  <2> DEFINE n == Count
  <2>1. n \in Slots /\ n = IF kb_head >= kb_tail THEN kb_head - kb_tail
                                 ELSE kb_head - kb_tail + KB_BUF_SIZE
    BY <1>4, CountRange DEF Slots, Count
  <2> HIDE DEF n
  <2>2. (kb_tail + n) % KB_BUF_SIZE = kb_head
    <3>1. (kb_tail + n) % KB_BUF_SIZE =
            IF kb_tail + n < KB_BUF_SIZE THEN kb_tail + n
                                         ELSE kb_tail + n - KB_BUF_SIZE
      BY <1>1, <2>1, SlotAt
    <3> QED BY <1>1, <2>1, <3>1 DEF Slots
  <2>3. ASSUME NEW i \in 1 .. n + 1, i = n + 1
        PROVE  At(i)' = (kb_tail + n) % KB_BUF_SIZE
    <3>1. kb_tail + i - 1 = kb_tail + n
      BY <1>1, <2>1, <2>3 DEF Slots
    <3> QED BY <3>1 DEF At
  <2>4. \A i \in 1 .. n + 1 : i = n + 1 => At(i)' = kb_head
    BY <2>2, <2>3
  <2>5. kb_buf'[kb_head] = ch
    BY <1>1, <1>2
  <2> QED BY <2>4, <2>5 DEF n
<1> DEFINE new == Append(Buffered, lv_key(ch))
<1>7. /\ new \in Seq(KeyCodes)
      /\ Len(new) = Count + 1
      /\ \A i \in 1 .. Count : new[i] = Buffered[i]
      /\ new[Count + 1] = lv_key(ch)
  BY <1>4, BufferedIsSeq, AppendProperties DEF KeyCodes, BufferedShape
<1>8a. BufferedShape'
  BY BufferedIsSeq, PTL
<1>8. /\ Buffered' \in Seq(KeyCodes)
      /\ Len(Buffered') = Count + 1
      /\ \A i \in 1 .. Count + 1 : Buffered'[i] = lv_key(kb_buf'[At(i)'])
  BY <1>4, <1>8a DEF BufferedShape
<1>9. \A i \in 1 .. Count + 1 : Buffered'[i] = new[i]
  BY <1>4, <1>5, <1>6, <1>7, <1>8, BufferedIsSeq DEF BufferedShape
<1>10. Buffered' = new
  BY <1>7, <1>8, <1>9, SeqEqual
<1> QED BY <1>4, <1>10

(* Moving kb_tail one slot takes the oldest key off. *)
LEMMA PopTakesHead ==
  ASSUME IInv, IInv', kb_head # kb_tail, kb_tail' = NextSlot(kb_tail),
         UNCHANGED <<kb_head, kb_buf>>
  PROVE  /\ Buffered # << >>
         /\ Head(Buffered) = lv_key(kb_buf[kb_tail])
         /\ Buffered' = Tail(Buffered)
<1> USE RingAssumption
<1>1. kb_head \in Slots /\ kb_tail \in Slots
  BY DEF IInv, TypeOK
<1>2. kb_tail' = IF kb_tail + 1 = KB_BUF_SIZE THEN 0 ELSE kb_tail + 1
  BY <1>1, NextSlotIs
<1>3. Count \in Nat /\ Count > 0 /\ Count' = Count - 1
  BY <1>1, <1>2 DEF Count, Slots
<1>4. BufferedShape /\ BufferedShape'
  <2>1. BufferedShape
    BY BufferedIsSeq
  <2>2. BufferedShape'
    BY BufferedIsSeq, PTL
  <2> QED BY <2>1, <2>2
<1>5. Buffered # << >> /\ Head(Buffered) = Buffered[1]
  BY <1>3, <1>4 DEF BufferedShape
<1>6. At(1) = kb_tail
  <2>1. kb_tail + 1 - 1 = kb_tail /\ 0 \in Slots /\ kb_tail + 0 = kb_tail
    BY <1>1 DEF Slots
  <2>2. kb_tail % KB_BUF_SIZE = kb_tail
    BY <1>1 DEF Slots
  <2> QED BY <2>1, <2>2 DEF At
<1>7. Head(Buffered) = lv_key(kb_buf[kb_tail])
  BY <1>3, <1>4, <1>5, <1>6 DEF BufferedShape
<1>8. \A i \in 1 .. Count - 1 : At(i)' = At(i + 1)
  <2> SUFFICES ASSUME NEW i \in 1 .. Count - 1 PROVE At(i)' = At(i + 1)
    OBVIOUS
  <2>1. i \in Slots /\ i - 1 \in Slots /\ kb_tail' \in Slots
    BY <1>1, <1>2, <1>3, CountRange DEF Slots
  <2>2. (kb_tail + i) % KB_BUF_SIZE =
          IF kb_tail + i < KB_BUF_SIZE THEN kb_tail + i
                                       ELSE kb_tail + i - KB_BUF_SIZE
    BY <1>1, <2>1, SlotAt
  <2>3. (kb_tail' + (i - 1)) % KB_BUF_SIZE =
          IF kb_tail' + (i - 1) < KB_BUF_SIZE THEN kb_tail' + (i - 1)
                                       ELSE kb_tail' + (i - 1) - KB_BUF_SIZE
    BY <2>1, SlotAt
  <2>4. kb_tail + (i + 1) - 1 = kb_tail + i
        /\ kb_tail' + i - 1 = kb_tail' + (i - 1)
    BY <1>1, <2>1 DEF Slots
  <2>5. (kb_tail + i) % KB_BUF_SIZE = (kb_tail' + (i - 1)) % KB_BUF_SIZE
    BY <1>1, <1>2, <2>1, <2>2, <2>3 DEF Slots
  <2> QED BY <2>4, <2>5 DEF At
<1>9. /\ Tail(Buffered) \in Seq(KeyCodes)
      /\ Len(Tail(Buffered)) = Count - 1
      /\ \A i \in 1 .. Count - 1 : Tail(Buffered)[i] = Buffered[i + 1]
  BY <1>3, <1>4, <1>5, HeadTailProperties DEF BufferedShape
<1>10. \A i \in 1 .. Count - 1 : Buffered'[i] = Tail(Buffered)[i]
  <2> SUFFICES ASSUME NEW i \in 1 .. Count - 1
               PROVE  Buffered'[i] = Tail(Buffered)[i]
    OBVIOUS
  <2>1. Buffered'[i] = lv_key(kb_buf[At(i)'])
    BY <1>3, <1>4 DEF BufferedShape
  <2>2. Buffered[i + 1] = lv_key(kb_buf[At(i + 1)])
    <3>1. i + 1 \in 1 .. Count
      BY <1>3
    <3> QED BY <1>4, <3>1 DEF BufferedShape
  <2> QED BY <1>8, <1>9, <2>1, <2>2
<1>11. Buffered' \in Seq(KeyCodes) /\ Len(Buffered') = Count - 1
  BY <1>3, <1>4 DEF BufferedShape
<1>12. Buffered' = Tail(Buffered)
  BY <1>3, <1>9, <1>10, <1>11, SeqEqual
<1> QED BY <1>5, <1>7, <1>12

LEMMA InitQueue == Init => Queue!Init
<1> SUFFICES ASSUME Init PROVE Queue!Init
  OBVIOUS
<1>1. IInv /\ Count = 0
  BY InitInv DEF Init, Count
<1>2. Buffered = << >>
  BY <1>1 DEF Buffered
<1>3. Taken = NUL /\ dropped = FALSE
  BY DEF Init, Taken
<1>4. ~ Begun
  BY DEF Init, Begun
<1> QED BY <1>2, <1>3, <1>4 DEF Queue!Init, Begun

(* Buffered and Taken change only when what they are made of does. *)
LEMMA QueueStutters ==
  ASSUME UNCHANGED <<kb_buf, kb_head, kb_tail, dropped, Taken, Begun>>
  PROVE  UNCHANGED Queue!vars
BY DEF Queue!vars, Buffered, Count, Begun

LEMMA HandlerStep ==
  ASSUME IInv, IInv', NEW sc \in 0 .. 255, keyboard_handler(sc)
  PROVE  [Queue!Next]_(Queue!vars)
<1>1. CASE UNCHANGED <<kb_buf, kb_head, dropped>>
  <2>1. UNCHANGED <<kb_tail, pc, slot, c, current_key, key_consumed>>
    BY DEF keyboard_handler, inputVars
  <2>2. Taken' = Taken /\ Begun' = Begun
    BY <1>1, <2>1 DEF Taken, Begun
  <2> QED BY <1>1, <2>1, <2>2, QueueStutters
<1>2. CASE Character(sc) # NUL /\ kb_buf_push(Character(sc))
  <2>1. UNCHANGED <<kb_tail, pc, slot, c, current_key, key_consumed>>
    BY DEF keyboard_handler, inputVars
  <2>2. Character(sc) \in Chars
    BY <1>2, CharacterIsChar
  <2>3. CASE NextSlot(kb_head) # kb_tail
    <3>1. /\ Count < KB_BUF_SIZE - 1
          /\ Buffered' = Append(Buffered, lv_key(Character(sc)))
      BY <1>2, <2>1, <2>2, <2>3, PushAppends
    <3>2. pc = "stored" => kb_buf'[slot] = kb_buf[slot]
      BY <1>2, <2>3 DEF kb_buf_push, PopSlotIsSafe, IInv, TypeOK
    <3>3. Taken' = Taken
      BY <2>1, <3>2 DEF Taken
    <3>4. dropped' = dropped
      BY <1>2, <2>3 DEF kb_buf_push
    <3>5. Len(Buffered) = Count
      BY BufferedIsSeq DEF BufferedShape
    <3>6. Queue!Type(lv_key(Character(sc)))
      BY <2>1, <3>1, <3>3, <3>4, <3>5 DEF Queue!Type
    <3> QED BY <2>2, <3>6 DEF Queue!Next
  <2>4. CASE NextSlot(kb_head) = kb_tail
    <3>1. dropped' = TRUE /\ UNCHANGED <<kb_buf, kb_head>>
      BY <1>2, <2>4 DEF kb_buf_push
    <3>2. Taken' = Taken /\ Buffered' = Buffered
      BY <2>1, <3>1 DEF Taken, Buffered, Count
    <3>3. Count = KB_BUF_SIZE - 1
      <4>1. /\ kb_head \in Slots /\ kb_tail \in Slots
            /\ kb_tail = IF kb_head + 1 = KB_BUF_SIZE THEN 0 ELSE kb_head + 1
        BY <2>4, NextSlotIs DEF IInv, TypeOK
      <4> QED BY <4>1, RingAssumption DEF Count, Slots
    <3>4. Len(Buffered) = KB_BUF_SIZE - 1
      BY <3>3, BufferedIsSeq DEF BufferedShape
    <3>5. Queue!Drop
      BY <2>1, <3>1, <3>2, <3>4 DEF Queue!Drop
    <3> QED BY <3>5 DEF Queue!Next
  <2> QED BY <2>3, <2>4
<1> QED BY <1>1, <1>2 DEF keyboard_handler

LEMMA StepQueue == IInv /\ IInv' /\ [Next]_vars => [Queue!Next]_(Queue!vars)
<1> SUFFICES ASSUME IInv, IInv', [Next]_vars
             PROVE  [Queue!Next]_(Queue!vars)
  OBVIOUS
<1>1. ASSUME NEW key \in Keys, PressKey(key) \/ ReleaseKey(key)
      PROVE  UNCHANGED Queue!vars
  <2>1. UNCHANGED <<kb_buf, kb_head, kb_tail, dropped, pc, slot, c,
                    current_key, key_consumed>>
    BY <1>1 DEF PressKey, ReleaseKey, driverVars, inputVars
  <2> QED BY <2>1, QueueStutters DEF Taken, Begun
<1>2. ASSUME NEW sc \in 0 .. 255, keyboard_handler(sc)
      PROVE  [Queue!Next]_(Queue!vars)
  BY <1>2, HandlerStep
<1>3. CASE keyboard_init_head
  <2>1. /\ kb_head' = 0 /\ kb_tail' = 0 /\ pc = "boot" /\ pc' = "init"
        /\ UNCHANGED <<dropped, current_key, key_consumed>>
    BY <1>3 DEF keyboard_init_head, IInv, CallbackOK, deviceVars, inputVars
  <2>2. Buffered' = << >>
    <3>1. Count' = 0
      BY <2>1 DEF Count
    <3> QED BY <3>1 DEF Buffered
  <2>3. Taken' = Taken
    BY <2>1 DEF Taken
  <2>4. Queue!Forget
    BY <2>1, <2>2, <2>3 DEF Queue!Forget
  <2> QED BY <2>4 DEF Queue!Next
<1>4. CASE keyboard_init_tail
  <2>1. /\ pc = "init" /\ pc' = "loop"
        /\ UNCHANGED <<kb_buf, kb_head, kb_tail, dropped, current_key, key_consumed>>
    BY <1>4 DEF keyboard_init_tail, IInv, CallbackOK, deviceVars, inputVars
  <2>2. Taken' = Taken /\ Begun' = Begun
    BY <2>1 DEF Taken, Begun
  <2> QED BY <2>1, <2>2, QueueStutters
<1>5. CASE read_release
  <2>1. /\ pc = "loop" /\ ~ key_consumed /\ key_consumed' = TRUE
        /\ current_key # NUL
        /\ UNCHANGED <<kb_buf, kb_head, kb_tail, dropped, pc>>
    BY <1>5 DEF read_release, IInv, CallbackOK, driverVars, deviceVars
  <2>2. Taken # NUL /\ Taken' = NUL
    BY <2>1 DEF Taken
  <2>3. Buffered' = Buffered
    BY <2>1 DEF Buffered, Count
  <2>4. Queue!Release
    BY <2>1, <2>2, <2>3 DEF Queue!Release
  <2> QED BY <2>4 DEF Queue!Next
<1>6. CASE read_nothing
  <2>1. UNCHANGED <<kb_buf, kb_head, kb_tail, dropped, pc, slot, c,
                    current_key, key_consumed>>
    BY <1>6 DEF read_nothing, driverVars, deviceVars
  <2> QED BY <2>1, QueueStutters DEF Taken, Begun
<1>7. CASE kb_buf_pop_begin
  <2>1. /\ pc = "loop" /\ pc' = "pop"
        /\ UNCHANGED <<kb_buf, kb_head, kb_tail, dropped, current_key, key_consumed>>
    BY <1>7 DEF kb_buf_pop_begin, driverVars, deviceVars, inputVars
  <2>2. Taken' = Taken /\ Begun' = Begun
    BY <2>1 DEF Taken, Begun
  <2> QED BY <2>1, <2>2, QueueStutters
<1>8. CASE kb_buf_pop_load
  <2>1. /\ pc \in {"pop", "stored"}
        /\ pc' = IF pc = "pop" THEN "loaded" ELSE "got"
        /\ c' = kb_buf[slot]
        /\ UNCHANGED <<kb_buf, kb_head, kb_tail, dropped, current_key, key_consumed>>
    BY <1>8 DEF kb_buf_pop_load, driverVars, deviceVars, inputVars
  <2>2. Taken' = Taken /\ Begun' = Begun
    BY <2>1 DEF Taken, Begun
  <2> QED BY <2>1, <2>2, QueueStutters
<1>9. CASE kb_buf_pop_store
  <2>1. /\ pc \in {"pop", "loaded"}
        /\ pc' = IF pc = "pop" THEN "stored" ELSE "got"
        /\ kb_tail' = NextSlot(kb_tail) /\ kb_head # kb_tail
        /\ slot = kb_tail /\ key_consumed
        /\ pc = "loaded" => c = kb_buf[slot]
        /\ UNCHANGED <<kb_buf, kb_head, dropped, slot, c, current_key, key_consumed>>
    BY <1>9 DEF kb_buf_pop_store, IInv, TypeOK, PopSlotIsSafe, CallbackOK,
                deviceVars, inputVars
  <2>2. /\ Buffered # << >>
        /\ Head(Buffered) = lv_key(kb_buf[kb_tail])
        /\ Buffered' = Tail(Buffered)
    BY <2>1, PopTakesHead
  <2>3. Taken = NUL /\ Taken' = lv_key(kb_buf[kb_tail])
    BY <2>1 DEF Taken
  <2>4. Queue!Take
    BY <2>1, <2>2, <2>3 DEF Queue!Take
  <2> QED BY <2>4 DEF Queue!Next
<1>10. CASE read_press
  <2>1. c \in Chars /\ c # NUL
    BY <1>10, TableAssumption DEF read_press, IInv, PopSlotIsSafe
  <2>2. /\ pc = "got" /\ pc' = "loop"
        /\ current_key' = lv_key(c) /\ key_consumed' = FALSE
        /\ UNCHANGED <<kb_buf, kb_head, kb_tail, dropped>>
    BY <1>10, <2>1 DEF read_press, driverVars, deviceVars
  <2>3. Taken' = Taken /\ Begun' = Begun
    BY <2>2 DEF Taken, Begun
  <2> QED BY <2>2, <2>3, QueueStutters
<1>11. CASE UNCHANGED vars
  BY <1>11, QueueStutters DEF vars, Taken, Begun
<1> QED
  BY <1>1, <1>2, <1>3, <1>4, <1>5, <1>6, <1>7, <1>8, <1>9, <1>10, <1>11
     DEF Next, KernelStep, lvgl_keyboard_read

(* The interrupt handler, the ring and the LVGL callback implement the     *)
(* queue of keys: in order, each once, dropped only when full, whatever    *)
(* the size of kb_buf and wherever the handler cuts in.                    *)
THEOREM RingImplementsQueue == Spec => ImplementsKeyQueue
<1>1. Queue!Init /\ [][Queue!Next]_(Queue!vars) => ImplementsKeyQueue
  BY DEF ImplementsKeyQueue, Queue!Spec
<1> QED BY <1>1, Invariance, InitQueue, StepQueue, PTL DEF Spec

-----------------------------------------------------------------------------
(* While a press is what LVGL saw last, its release is due. *)
ReleaseIsDue ==
  report.state = "PRESSED" =>
    report = [key |-> current_key, state |-> "PRESSED"] /\ ~ key_consumed

(* After each press LVGL sees the release of the same key, whatever the    *)
(* handler does in between.                                                *)
THEOREM ReleaseFollowsPress == Spec => PressThenRelease
<1> DEFINE Good == report.state = "PRESSED" /\ report' # report =>
                     report' = [report EXCEPT !.state = "RELEASED"]
<1>1. Init => ReleaseIsDue
  BY DEF Init, ReleaseIsDue
<1>2. IInv /\ ReleaseIsDue /\ [Next]_vars => ReleaseIsDue' /\ [Good]_vars
  <2> SUFFICES ASSUME IInv, ReleaseIsDue, [Next]_vars
               PROVE  ReleaseIsDue' /\ Good
    OBVIOUS
  <2>1. CASE UNCHANGED <<report, current_key, key_consumed>>
    BY <2>1 DEF ReleaseIsDue
  <2>2. CASE read_release
    <3>1. /\ report' = [key |-> current_key, state |-> "RELEASED"]
          /\ report'.state = "RELEASED"
      BY <2>2 DEF read_release
    <3> QED BY <3>1 DEF ReleaseIsDue
  <2>3. CASE read_nothing
    BY <2>3 DEF read_nothing, ReleaseIsDue
  <2>4. CASE read_press
    <3>1. key_consumed /\ c \in Chars /\ c # NUL
      BY <2>4, TableAssumption
         DEF read_press, IInv, CallbackOK, PopSlotIsSafe
    <3>2. /\ report' = [key |-> lv_key(c), state |-> "PRESSED"]
          /\ current_key' = lv_key(c)
          /\ key_consumed' = FALSE
      BY <2>4, <3>1 DEF read_press
    <3> QED BY <3>1, <3>2 DEF ReleaseIsDue
  <2> QED
    BY <2>1, <2>2, <2>3, <2>4
       DEF Next, KernelStep, lvgl_keyboard_read, PressKey, ReleaseKey, keyboard_handler,
           keyboard_init_head, keyboard_init_tail, kb_buf_pop_begin,
           kb_buf_pop_load, kb_buf_pop_store, inputVars, vars
<1> QED BY <1>1, <1>2, Invariance, PTL DEF Spec, PressThenRelease

-----------------------------------------------------------------------------
(* Codes that leave shift up, once handled: no shift code goes down, or    *)
(* one comes up behind the last that does.                                 *)
NoneDown(codes) == \A i \in DOMAIN codes : ~ Shift(codes[i])
LastUp(codes) ==
  \E i \in DOMAIN codes :
    Unshift(codes[i]) /\ \A j \in DOMAIN codes : j > i => ~ Shift(codes[j])

(* With the shift keys up, shift is up already or the wire sees to it.     *)
ShiftComesUp ==
  held \cap ShiftKeys = {} => LastUp(wire) \/ (~ shift_pressed /\ NoneDown(wire))

LEMMA HandledCode ==
  ASSUME NEW codes \in Seq(0 .. 255), codes # << >>
  PROVE  /\ NoneDown(codes) => ~ Shift(Head(codes)) /\ NoneDown(Tail(codes))
         /\ LastUp(codes) => LastUp(Tail(codes)) \/ (Unshift(Head(codes)) /\ NoneDown(Tail(codes)))
<1> DEFINE rest == Tail(codes)
<1>1. /\ Len(codes) \in Nat /\ Len(codes) > 0 /\ Len(rest) = Len(codes) - 1
      /\ DOMAIN codes = 1 .. Len(codes) /\ DOMAIN rest = 1 .. Len(codes) - 1
      /\ Head(codes) = codes[1]
      /\ \A i \in 1 .. Len(codes) - 1 : rest[i] = codes[i + 1]
  BY HeadTailProperties
<1> HIDE DEF rest
<1>2. ASSUME NoneDown(codes) PROVE ~ Shift(codes[1]) /\ NoneDown(rest)
  BY <1>1, <1>2 DEF NoneDown
<1>3. ASSUME LastUp(codes) PROVE LastUp(rest) \/ (Unshift(codes[1]) /\ NoneDown(rest))
  <2>1. PICK i \in 1 .. Len(codes) :
          /\ Unshift(codes[i])
          /\ \A j \in 1 .. Len(codes) : j > i => ~ Shift(codes[j])
    BY <1>1, <1>3 DEF LastUp
  <2>2. CASE i = 1
    BY <1>1, <2>1, <2>2 DEF NoneDown
  <2>3. CASE i > 1
    <3>1. /\ i - 1 \in DOMAIN rest /\ Unshift(rest[i - 1])
          /\ \A j \in DOMAIN rest : j > i - 1 => ~ Shift(rest[j])
      <4>1. i - 1 \in 1 .. Len(codes) - 1 /\ rest[i - 1] = codes[i]
        <5>1. i - 1 \in 1 .. Len(codes) - 1 /\ (i - 1) + 1 = i
          BY <1>1, <2>3
        <5> QED BY <1>1, <5>1
      <4>2. ASSUME NEW j \in DOMAIN rest, j > i - 1 PROVE ~ Shift(rest[j])
        <5>1. j + 1 \in 1 .. Len(codes) /\ j + 1 > i
          BY <1>1, <4>2
        <5> QED BY <1>1, <2>1, <5>1
      <4> QED BY <1>1, <2>1, <4>1, <4>2
    <3> QED BY <3>1 DEF LastUp
  <2> QED BY <2>1, <2>2, <2>3
<1> QED BY <1>1, <1>2, <1>3 DEF rest

(* For every keyboard whose shift keys come up behind going down, shift    *)
(* does not stick: keyboard.c:93-102 counts either key's release, and a    *)
(* release is handled behind every press.                                  *)
THEOREM ShiftLetsGo == Spec => []ShiftDoesNotStick
<1>1. Init => ShiftComesUp
  BY DEF Init, ShiftComesUp, NoneDown
<1>2. IInv /\ ShiftComesUp /\ [Next]_vars => ShiftComesUp'
  <2> SUFFICES ASSUME IInv, ShiftComesUp, [Next]_vars PROVE ShiftComesUp'
    OBVIOUS
  <2>1. CASE UNCHANGED <<held, wire, shift_pressed>>
    BY <2>1 DEF ShiftComesUp
  <2>2. ASSUME NEW key \in Keys, PressKey(key) PROVE ShiftComesUp'
    <3>1. /\ wire = << >> /\ wire' = Make[key] /\ held' = held \cup {key}
          /\ shift_pressed' = shift_pressed
      BY <2>2 DEF PressKey, driverVars
    <3>2. CASE key \in ShiftKeys
      BY <3>1, <3>2 DEF ShiftComesUp
    <3>3. CASE key \notin ShiftKeys
      <4>1. NoneDown(wire')
        BY <3>1, <3>3, ShiftKeysAssumption DEF NoneDown, Shift
      <4>2. held' \cap ShiftKeys = {} => ~ shift_pressed
        BY <3>1 DEF ShiftComesUp, LastUp
      <4> QED BY <3>1, <4>1, <4>2 DEF ShiftComesUp
    <3> QED BY <3>2, <3>3
  <2>3. ASSUME NEW key \in Keys, ReleaseKey(key) PROVE ShiftComesUp'
    <3>1. /\ wire = << >> /\ wire' = Break[key] /\ held' = held \ {key}
          /\ shift_pressed' = shift_pressed
      BY <2>3 DEF ReleaseKey, driverVars
    <3>2. CASE key \in ShiftKeys
      <4>1. LastUp(wire')
        BY <3>1, <3>2, ShiftKeysAssumption DEF LastUp, Shift, Unshift
      <4> QED BY <4>1 DEF ShiftComesUp
    <3>3. CASE key \notin ShiftKeys
      <4>1. NoneDown(wire')
        BY <3>1, <3>3, ShiftKeysAssumption DEF NoneDown, Shift
      <4>2. held' \cap ShiftKeys = {} => ~ shift_pressed
        BY <3>1, <3>3 DEF ShiftComesUp, LastUp
      <4> QED BY <3>1, <4>1, <4>2 DEF ShiftComesUp
    <3> QED BY <3>2, <3>3
  <2>4. ASSUME NEW sc \in 0 .. 255, keyboard_handler(sc) PROVE ShiftComesUp'
    <3>1. /\ wire \in Seq(0 .. 255) /\ wire # << >> /\ sc = Head(wire) /\ wire' = Tail(wire)
          /\ UNCHANGED held
          /\ \/ Shift(sc)
             \/ Unshift(sc) /\ shift_pressed' = FALSE
             \/ ~ Shift(sc) /\ ~ Unshift(sc) /\ shift_pressed' = shift_pressed
      BY <2>4 DEF keyboard_handler, IInv, TypeOK
    <3>2. ~ (Shift(sc) /\ Unshift(sc))
      BY DEF Shift, Unshift
    <3>3. /\ NoneDown(wire) => ~ Shift(sc) /\ NoneDown(wire')
          /\ LastUp(wire) => LastUp(wire') \/ (Unshift(sc) /\ NoneDown(wire'))
      BY <3>1, HandledCode
    <3> QED BY <3>1, <3>2, <3>3 DEF ShiftComesUp
  <2> QED
    BY <2>1, <2>2, <2>3, <2>4
       DEF Next, KernelStep, lvgl_keyboard_read, keyboard_init_head, keyboard_init_tail, read_release, read_nothing,
           kb_buf_pop_begin, kb_buf_pop_load, kb_buf_pop_store, read_press,
           driverVars, deviceVars, vars
<1>3. ShiftComesUp => ShiftDoesNotStick
  BY DEF ShiftComesUp, ShiftDoesNotStick, LastUp
<1> QED BY <1>1, <1>2, <1>3, Invariance, PTL DEF Spec

=============================================================================
