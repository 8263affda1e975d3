------------------------- MODULE ClocksConsoleProofs -------------------------
(***************************************************************************)
(* What a sleep and the label's clock promise, for every width of the      *)
(* counter's halves, every duration and every time of day; and what        *)
(* kprintf promises, for every message, every number and every length of   *)
(* the UART's FIFO.                                                        *)
(***************************************************************************)
EXTENDS Clocks, Console, SequenceTheorems, WellFoundedInduction, TLAPS


(* A number and its two halves. *)
LEMMA Halves ==
  ASSUME NEW n \in Nat, n > 0, NEW t \in Nat
  PROVE  /\ t \div n \in Nat /\ t % n \in 0 .. n - 1
         /\ t = (t \div n) * n + (t % n)
<1>1. t \div n \in Nat
  OBVIOUS
<1>2. t % n \in 0 .. n - 1
  OBVIOUS
<1>3. t = (t \div n) * n + (t % n)
  OBVIOUS
<1> QED BY <1>1, <1>2, <1>3

LEMMA Product ==
  ASSUME NEW n \in Nat, NEW a \in Nat
  PROVE  a * n \in Nat
OBVIOUS

LEMMA Above ==
  ASSUME NEW n \in Nat, n > 0, NEW a \in Nat, NEW b \in Nat, a > b
  PROVE  a * n >= b * n + n
<1>1. a - b - 1 \in Nat
  OBVIOUS
<1>2. (a - b - 1) * n >= 0
  BY <1>1
<1> QED BY <1>2

(* Only one pair of halves makes a number. *)
LEMMA HalvesAreUnique ==
  ASSUME NEW n \in Nat, n > 0, NEW a \in Nat, NEW b \in Nat,
         NEW r \in 0 .. n - 1, NEW s \in 0 .. n - 1,
         a * n + r = b * n + s
  PROVE  a = b
<1>1. a * n \in Nat /\ b * n \in Nat
  BY Product
<1>2. ~ (a > b)
  BY <1>1, Above
<1>3. ~ (b > a)
  BY <1>1, Above
<1> QED BY <1>2, <1>3

(* A tick that does not wrap the low half leaves the high one. *)
LEMMA NoCarry ==
  ASSUME NEW n \in Nat, n > 0, NEW t \in Nat, (t + 1) % n # 0
  PROVE  (t + 1) \div n = t \div n
<1>1. PICK s \in 0 .. n - 1 : s = (t + 1) % n
  BY Halves, t + 1 \in Nat
<1>2. PICK r \in 0 .. n - 1 : r = t % n
  BY Halves
<1>3. PICK a \in Nat : a = (t + 1) \div n
  BY Halves, t + 1 \in Nat
<1>4. PICK b \in Nat : b = t \div n
  BY Halves
<1>5. a * n + s = t + 1 /\ b * n + r = t
  BY <1>1, <1>2, <1>3, <1>4, Halves, t + 1 \in Nat
<1>6. s - 1 \in 0 .. n - 1
  BY <1>1
<1>7. a * n \in Nat /\ b * n \in Nat
  BY Product
<1>8. a * n + (s - 1) = b * n + r
  BY <1>5, <1>7
<1>9. a = b
  BY <1>6, <1>8, HalvesAreUnique
<1> QED BY <1>3, <1>4, <1>9
-----------------------------------------------------------------------------
Asleep == {"sleep_ms", "while", "hlt"}

(* Types of the sleep's variables; halves are held while loading only. *)
SleepTypes ==
  /\ timer_ticks \in Nat /\ end \in Nat /\ slept \in [from : Nat, ms : Nat]
  /\ low \in (0 .. HALF - 1) \cup {None} /\ high \in Nat \cup {None}
  /\ low # None \/ high # None => pc \in {"sleep_ms", "while"}

(* The value the loads make up lies between the start of the sleep and     *)
(* now: with the low half only, it is made up with the high half of now.   *)
LoadsAgree ==
  /\ pc \in Asleep => slept.from <= timer_ticks
  /\ low # None /\ high = None =>
       LET value == (timer_ticks \div HALF) * HALF + low
       IN  slept.from <= value /\ value <= timer_ticks
  /\ low = None /\ high # None => high = timer_ticks \div HALF
  /\ Loaded => slept.from <= Value /\ Value <= timer_ticks
  /\ pc \in {"while", "hlt"} => end >= slept.from + slept.ms

SleepInv == SleepTypes /\ (~ wrapped => LoadsAgree)

LEMMA HalfAssumption == HALF \in Nat /\ HALF > 0
BY SizesAssumption

LEMMA SleepInit == Init => SleepInv
<1> SUFFICES ASSUME Init PROVE SleepInv
  OBVIOUS
<1>1. timer_ticks \in Nat
  BY SizesAssumption DEF Init
<1> QED BY <1>1 DEF Init, SleepInv, SleepTypes, LoadsAgree, NoSleep, None, Loaded, Asleep

(* IRQ0 between any two steps of the sleep. *)
LEMMA TickStep ==
  ASSUME SleepInv, pit_handler
  PROVE  SleepInv'
<1>1. SleepTypes'
  BY DEF SleepInv, SleepTypes, pit_handler, None
<1>2. ASSUME ~ wrapped' PROVE LoadsAgree'
  <2>1. LoadsAgree /\ timer_ticks \in Nat /\ timer_ticks' = timer_ticks + 1
    BY <1>2 DEF pit_handler, SleepInv, SleepTypes
  <2>2. /\ UNCHANGED <<low, high, end, slept>>
        /\ pc \in Asleep <=> pc' \in Asleep
        /\ pc' \in {"while", "hlt"} <=> pc \in {"while", "hlt"}
    BY DEF pit_handler, Asleep
  <2>3. ASSUME (low = None) # (high = None)
        PROVE  timer_ticks' \div HALF = timer_ticks \div HALF
    <3>1. (timer_ticks + 1) % HALF # 0
      BY <1>2, <2>1, <2>3 DEF pit_handler
    <3> QED BY <2>1, <3>1, NoCarry, HalfAssumption
  <2>4. slept.from \in Nat
    BY DEF SleepInv, SleepTypes
  <2>5. pc' \in Asleep => slept'.from <= timer_ticks'
    BY <2>1, <2>2, <2>4 DEF LoadsAgree
  <2>6. low' # None /\ high' = None =>
          LET value == (timer_ticks' \div HALF) * HALF + low'
          IN  slept'.from <= value /\ value <= timer_ticks'
    <3> SUFFICES ASSUME low # None, high = None
                 PROVE  LET value == (timer_ticks \div HALF) * HALF + low
                        IN  slept.from <= value /\ value <= timer_ticks + 1
      BY <2>1, <2>2, <2>3
    <3>1. (timer_ticks \div HALF) * HALF \in Nat /\ low \in Nat
      BY <2>1, Halves, Product, HalfAssumption DEF SleepInv, SleepTypes
    <3> QED BY <2>1, <3>1 DEF LoadsAgree
  <2>7. low' = None /\ high' # None => high' = timer_ticks' \div HALF
    BY <2>1, <2>2, <2>3 DEF LoadsAgree
  <2>8. Loaded' => slept'.from <= Value' /\ Value' <= timer_ticks'
    <3> SUFFICES ASSUME Loaded PROVE slept.from <= Value /\ Value <= timer_ticks + 1
      BY <2>1, <2>2 DEF Loaded, Value
    <3>1. Value \in Nat
      BY Product, HalfAssumption DEF SleepInv, SleepTypes, Loaded, Value
    <3> QED BY <2>1, <3>1 DEF LoadsAgree
  <2>9. pc' \in {"while", "hlt"} => end' >= slept'.from + slept'.ms
    BY <2>1, <2>2 DEF LoadsAgree
  <2> QED BY <2>5, <2>6, <2>7, <2>8, <2>9 DEF LoadsAgree
<1> QED BY <1>1, <1>2 DEF SleepInv

(* The two loads, in either order. *)
LEMMA LoadStep ==
  ASSUME SleepInv, sleep_ms_load
  PROVE  SleepInv'
<1> DEFINE q == timer_ticks \div HALF
           r == timer_ticks % HALF
<1>1. /\ timer_ticks \in Nat /\ q \in Nat /\ r \in 0 .. HALF - 1 /\ q * HALF \in Nat
      /\ timer_ticks = q * HALF + r
  BY Halves, Product, HalfAssumption DEF SleepInv, SleepTypes
<1>2. UNCHANGED <<timer_ticks, end, slept, wrapped, pc>> /\ pc \in {"sleep_ms", "while"}
  BY DEF sleep_ms_load, load_low, load_high
<1>3. CASE load_low
  <2>1. low = None /\ low' = r /\ high' = high
    BY <1>3 DEF load_low
  <2> HIDE DEF q, r
  <2>2. SleepTypes'
    BY <1>1, <1>2, <2>1 DEF SleepInv, SleepTypes, None
  <2>3. ASSUME ~ wrapped PROVE LoadsAgree'
    <3>1. LoadsAgree /\ slept.from <= timer_ticks
      BY <1>2, <2>3 DEF SleepInv, LoadsAgree, Asleep
    <3>2. high # None => high = q
      BY <2>1, <3>1 DEF LoadsAgree, q
    <3>3. low' # None
      BY <1>1, <2>1 DEF None
    <3>4. Loaded' => Value' = timer_ticks
      BY <1>1, <2>1, <3>2 DEF Loaded, Value
    <3>5. (timer_ticks' \div HALF) * HALF + low' = timer_ticks
      BY <1>1, <1>2, <2>1 DEF q
    <3> QED BY <1>1, <1>2, <3>1, <3>3, <3>4, <3>5 DEF LoadsAgree
  <2> QED BY <1>2, <2>2, <2>3 DEF SleepInv
<1>4. CASE load_high
  <2>1. high = None /\ high' = q /\ low' = low
    BY <1>4 DEF load_high
  <2> HIDE DEF q, r
  <2>2. SleepTypes'
    BY <1>1, <1>2, <2>1 DEF SleepInv, SleepTypes, None
  <2>3. ASSUME ~ wrapped PROVE LoadsAgree'
    <3>1. LoadsAgree
      BY <2>3 DEF SleepInv
    <3>2. high' # None
      BY <1>1, <2>1 DEF None
    <3>3. high' = timer_ticks' \div HALF
      BY <1>2, <2>1 DEF q
    <3>4. Loaded' => slept.from <= Value' /\ Value' <= timer_ticks
      BY <2>1, <3>1 DEF Loaded, Value, LoadsAgree, q
    <3> QED BY <1>2, <3>1, <3>2, <3>3, <3>4 DEF LoadsAgree
  <2> QED BY <1>2, <2>2, <2>3 DEF SleepInv
<1> QED BY <1>3, <1>4 DEF sleep_ms_load

LEMMA SleepStep == SleepInv /\ [Next]_vars => SleepInv'
<1> SUFFICES ASSUME SleepInv, [Next]_vars PROVE SleepInv'
  OBVIOUS
<1>1. ASSUME NEW ms \in Sleeps, sleep_ms_call(ms) PROVE SleepInv'
  <2>1. ms \in Nat
    BY SizesAssumption
  <2>2. low = None /\ high = None /\ timer_ticks \in Nat
    BY <1>1 DEF sleep_ms_call, SleepInv, SleepTypes
  <2> QED BY <1>1, <2>1, <2>2
          DEF sleep_ms_call, SleepInv, SleepTypes, LoadsAgree, Loaded, Asleep
<1>2. CASE sleep_ms_end
  <2>1. Value \in Nat
    BY <1>2, Product, HalfAssumption DEF sleep_ms_end, SleepInv, SleepTypes, Loaded, Value
  <2>2. slept.ms \in Nat /\ slept.from \in Nat
    BY DEF SleepInv, SleepTypes
  <2> QED BY <1>2, <2>1, <2>2
          DEF sleep_ms_end, SleepInv, SleepTypes, LoadsAgree, Loaded, Asleep, None
<1>3. CASE sleep_ms_while
  BY <1>3 DEF sleep_ms_while, SleepInv, SleepTypes, LoadsAgree, Loaded, Asleep, None, NoSleep
<1>4. CASE Update
  BY <1>4 DEF Update, cmos_get_rtc, Load, clock_update_cb, ticksVars,
              SleepInv, SleepTypes, LoadsAgree, Loaded, Value, Asleep
<1>5. CASE other_interrupt
  BY <1>5 DEF other_interrupt, ticksVars,
              SleepInv, SleepTypes, LoadsAgree, Loaded, Value, Asleep
<1>6. CASE UNCHANGED <<pc, ticksVars>>
  BY <1>6 DEF ticksVars, SleepInv, SleepTypes, LoadsAgree, Loaded, Value, Asleep
<1>7. minute_passes \/ update_ends \/ UNCHANGED vars => UNCHANGED <<pc, ticksVars>>
  BY DEF minute_passes, update_ends, vars, ticksVars
<1> QED BY <1>1, <1>2, <1>3, <1>4, <1>5, <1>6, <1>7, TickStep, LoadStep DEF Next, Sleep

(* pit.c:29-35: no sleep whose loads meet no wrap ends early, for every    *)
(* width of the counter and every duration.                                *)
THEOREM SleepsAreLongEnough == Spec => SleepsLongEnough
<1>1. ASSUME SleepInv, [Next]_vars, pc = "while", pc' = "loop"
      PROVE  wrapped \/ timer_ticks - slept.from >= slept.ms
  <2> SUFFICES ASSUME ~ wrapped PROVE timer_ticks - slept.from >= slept.ms
    OBVIOUS
  <2>1. sleep_ms_while
    BY <1>1 DEF Next, Sleep, sleep_ms_load, load_low, load_high, sleep_ms_end, Update,
                cmos_get_rtc, Load, clock_update_cb, other_interrupt, pit_handler,
                sleep_ms_call, minute_passes, update_ends, vars
  <2>2. Loaded /\ ~ (Value < end)
    BY <1>1, <2>1 DEF sleep_ms_while, StillWaiting
  <2>3. Value \in Nat
    BY <1>1, <2>2, Product, HalfAssumption DEF SleepInv, SleepTypes, Loaded, Value
  <2> HIDE DEF Value
  <2> QED BY <1>1, <2>2, <2>3 DEF SleepInv, SleepTypes, LoadsAgree
<1>2. SleepInv /\ [Next]_vars =>
        [pc = "while" /\ pc' = "loop" => wrapped \/ timer_ticks - slept.from >= slept.ms]_vars
  BY <1>1
<1> QED BY <1>2, SleepInit, SleepStep, PTL DEF Spec, SleepsLongEnough
-----------------------------------------------------------------------------
(* The minute of the day in which the read under way began. *)
FirstMinute == (now - (passed - began)) % 1440

Reading == {"cmos_get_rtc", "clock_update_cb"}

(* At most one minute passes during a read, and what was loaded is of its  *)
(* first minute or, for the hour, of the present one.                      *)
LabelInv ==
  /\ now \in 0 .. 1439 /\ passed \in Nat /\ began \in Nat
  /\ garbled \in BOOLEAN /\ fresh \in BOOLEAN
  /\ pc \in Reading =>
       /\ passed = began \/ (passed = began + 1 /\ ~ fresh)
       /\ ~ garbled => minute = FirstMinute % 60
  /\ pc = "clock_update_cb" /\ ~ garbled =>
       hour \in { FirstMinute \div 60, now \div 60 }

(* Two digits of BCD hold a number below 100. *)
LEMMA BcdRoundTrip ==
  ASSUME NEW n \in 0 .. 99
  PROVE  bcd_to_dec(BCD(n)) = n
BY DEF bcd_to_dec, BCD

(* A chip that is set to BCD gives minute and hour unless it updates. *)
LEMMA GoodReads ==
  ASSUME Format = "BCD", ~ updating, now \in 0 .. 1439
  PROVE  /\ \A byte \in cmos_read("MIN") : bcd_to_dec(byte) = now % 60
         /\ \A byte \in cmos_read("HOUR") : bcd_to_dec(byte) = now \div 60
<1>1. now % 60 \in 0 .. 99 /\ now \div 60 \in 0 .. 99
  OBVIOUS
<1>2. cmos_read("MIN") = { BCD(now % 60) } /\ cmos_read("HOUR") = { BCD(now \div 60) }
  BY DEF cmos_read, MinuteRegister, HourRegister
<1> QED BY <1>1, <1>2, BcdRoundTrip

LEMMA LabelInit == Init => LabelInv
<1> SUFFICES ASSUME Init PROVE LabelInv
  OBVIOUS
<1>1. now \in 0 .. 1439
  BY SizesAssumption DEF Init
<1>2. pc = "loop" /\ passed = 0 /\ began = 0
  BY DEF Init
<1>3. garbled \in BOOLEAN /\ fresh \in BOOLEAN
  BY Zenon DEF Init
<1> QED BY <1>1, <1>2, <1>3 DEF LabelInv, Reading

LEMMA LabelStep ==
  ASSUME Format = "BCD", LabelInv, [Next]_vars
  PROVE  LabelInv'
<1> USE DEF Reading
<1>1. CASE Load("MIN", "loop", "cmos_get_rtc")
  <2>1. /\ pc' = "cmos_get_rtc" /\ began' = passed /\ garbled' = (garbled \/ updating)
        /\ UNCHANGED <<now, passed, fresh>>
        /\ \E byte \in cmos_read("MIN") : minute' = bcd_to_dec(byte)
    BY <1>1 DEF Load, chipVars
  <2>2. FirstMinute' = now
    BY <2>1 DEF FirstMinute, LabelInv
  <2>3. ~ garbled' => minute' = now % 60
    BY <2>1, GoodReads DEF LabelInv
  <2>4. garbled' \in BOOLEAN
    BY Zenon, <2>1
  <2> QED BY <2>1, <2>2, <2>3, <2>4 DEF LabelInv
<1>2. CASE Load("HOUR", "cmos_get_rtc", "clock_update_cb")
  <2>1. /\ pc = "cmos_get_rtc" /\ pc' = "clock_update_cb" /\ garbled' = (garbled \/ updating)
        /\ UNCHANGED <<now, passed, fresh, minute, began>>
        /\ \E byte \in cmos_read("HOUR") : hour' = bcd_to_dec(byte)
    BY <1>2 DEF Load, chipVars
  <2>2. FirstMinute' = FirstMinute
    BY <2>1 DEF FirstMinute
  <2>3. ~ garbled' => hour' = now \div 60
    BY <2>1, GoodReads DEF LabelInv
  <2>4. garbled' \in BOOLEAN
    BY Zenon, <2>1
  <2> QED BY <2>1, <2>2, <2>3, <2>4 DEF LabelInv
<1>3. CASE clock_update_cb
  <2>1. /\ pc' = "loop" /\ UNCHANGED <<now, passed>> /\ began' = 0 /\ garbled' = FALSE
    BY <1>3 DEF clock_update_cb, chipVars
  <2>2. fresh' \in BOOLEAN
    BY Zenon, <1>3 DEF clock_update_cb
  <2> QED BY <2>1, <2>2 DEF LabelInv
<1>4. CASE minute_passes
  <2>1. /\ fresh /\ fresh' = FALSE /\ passed' = passed + 1 /\ now' = (now + 1) % 1440
        /\ UNCHANGED <<pc, minute, hour, began, garbled>>
    BY <1>4 DEF minute_passes
  <2>2. ASSUME pc \in Reading
        PROVE  /\ passed = began /\ FirstMinute = now /\ FirstMinute' = now
    <3>1. passed = began
      BY <2>1, <2>2 DEF LabelInv
    <3>2. FirstMinute = now
      BY <3>1 DEF LabelInv, FirstMinute
    <3>3. (((now + 1) % 1440) - 1) % 1440 = now
      BY DEF LabelInv
    <3> QED BY <2>1, <3>1, <3>2, <3>3 DEF LabelInv, FirstMinute
  <2>3. now' \in 0 .. 1439
    BY <2>1 DEF LabelInv
  <2>4. fresh' \in BOOLEAN /\ garbled' \in BOOLEAN
    BY Zenon, <2>1 DEF LabelInv
  <2>5. passed' \in Nat /\ began' \in Nat
    BY <2>1 DEF LabelInv
  <2>6. pc' \in Reading =>
          /\ passed' = began' \/ (passed' = began' + 1 /\ ~ fresh')
          /\ ~ garbled' => minute' = FirstMinute' % 60
    BY <2>1, <2>2 DEF LabelInv
  <2>7. pc' = "clock_update_cb" /\ ~ garbled' =>
          hour' \in { FirstMinute' \div 60, now' \div 60 }
    BY <2>1, <2>2 DEF LabelInv
  <2> QED BY ONLY <2>3, <2>4, <2>5, <2>6, <2>7, Zenon DEF LabelInv
<1>5. CASE UNCHANGED <<now, passed, labelVars>> /\ (pc' \in Reading => pc' = pc)
  BY <1>5 DEF LabelInv, FirstMinute, labelVars
<1>6. pit_handler \/ other_interrupt \/ update_ends
        => UNCHANGED <<now, passed, labelVars>> /\ (pc' \in Reading => pc' = pc)
  BY DEF pit_handler, other_interrupt, update_ends, chipVars
<1>7. Sleep => UNCHANGED <<now, passed, labelVars>> /\ (pc' \in Reading => pc' = pc)
  BY DEF Sleep, sleep_ms_load, load_low, load_high, sleep_ms_end, sleep_ms_while, chipVars
<1>8. ASSUME NEW ms \in Sleeps, sleep_ms_call(ms)
      PROVE  UNCHANGED <<now, passed, labelVars>> /\ (pc' \in Reading => pc' = pc)
  BY <1>8 DEF sleep_ms_call, chipVars
<1>9. UNCHANGED vars => UNCHANGED <<now, passed, labelVars>> /\ (pc' \in Reading => pc' = pc)
  BY DEF vars, labelVars
<1> QED
  BY <1>1, <1>2, <1>3, <1>4, <1>5, <1>6, <1>7, <1>8, <1>9 DEF Next, Update, cmos_get_rtc

(* taskbar.c:12-33: with a chip in BCD, at every time of day and wherever  *)
(* minutes and updates fall among the reads, the label shows the time of   *)
(* the read's first or last minute, or is ahead by less than an hour.      *)
THEOREM LabelStaysNear ==
  ASSUME Format = "BCD"
  PROVE  Spec => LabelIsNearTheTime
<1>1. ASSUME LabelInv, clock_update_cb, ~ garbled PROVE NearTheTime
  <2>1. /\ now \in 0 .. 1439 /\ passed \in Nat /\ began \in Nat
        /\ passed = began \/ passed = began + 1
        /\ minute = FirstMinute % 60 /\ hour \in { FirstMinute \div 60, now \div 60 }
    BY <1>1 DEF LabelInv, Reading, clock_update_cb
  <2>2. label' = Digits((hour + 3) % 24, minute)
    BY <1>1 DEF clock_update_cb, LocalHour, TIMEZONE_OFFSET
  <2>3. CASE hour = FirstMinute \div 60
    BY <2>1, <2>2, <2>3 DEF NearTheTime, Shown, FirstMinute
  <2>4. CASE hour = now \div 60 /\ hour # FirstMinute \div 60
    <3>1. passed = began + 1
      BY <2>1, <2>4 DEF FirstMinute
    <3>2. FirstMinute = (now - 1) % 1440
      BY <2>1, <3>1 DEF FirstMinute
    <3>3. now % 60 = 0 /\ FirstMinute # now /\ minute = 59
      BY <2>1, <2>4, <3>2
    <3>4. /\ ((now + 59) % 1440) \div 60 = now \div 60
          /\ ((now + 59) % 1440) % 60 = 59
      BY <2>1, <3>3
    <3>5. label' = Shown((now + 59) % 1440)
      BY <2>2, <2>4, <3>3, <3>4 DEF Shown
    <3> QED BY <3>3, <3>5 DEF NearTheTime, FirstMinute
  <2> QED BY <2>1, <2>3, <2>4
<1>2. LabelInv /\ [Next]_vars => [clock_update_cb => garbled \/ NearTheTime]_vars
  BY <1>1
<1>3. LabelInv /\ [Next]_vars => LabelInv'
  BY LabelStep
<1> QED BY <1>2, <1>3, LabelInit, PTL DEF Spec, LabelIsNearTheTime

-----------------------------------------------------------------------------
(* Induction over the naturals by a set of them. *)
LEMMA SetInduction ==
  ASSUME NEW S, 0 \in S, \A n \in Nat : n \in S => n + 1 \in S
  PROVE  Nat \subseteq S
<1> DEFINE T == Nat \ S
<1> SUFFICES ASSUME T # {} PROVE FALSE
  OBVIOUS
<1>1. \E x \in T : \A y \in T : ~ (<<y, x>> \in OpToRel(<, Nat))
  <2>1. T \subseteq Nat
    OBVIOUS
  <2> HIDE DEF T
  <2>2. \E x \in T : \A y \in T : ~ (<<y, x>> \in OpToRel(<, Nat))
    BY <2>1, NatLessThanWellFounded, WFMin, Zenon
  <2> QED BY <2>2
<1>2. PICK x \in T : \A y \in T : ~ (<<y, x>> \in OpToRel(<, Nat))
  BY <1>1, Zenon
<1>3. \A y \in T : ~ (y < x)
  <2> SUFFICES ASSUME NEW y \in T, y < x PROVE FALSE
    BY Zenon
  <2>1. <<y, x>> \in Nat \X Nat /\ <<y, x>>[1] = y /\ <<y, x>>[2] = x
    OBVIOUS
  <2>2. <<y, x>> \in OpToRel(<, Nat)
    BY <2>1, Zenon DEF OpToRel
  <2> QED BY <2>2, <1>2, Zenon
<1>4. x # 0 /\ x - 1 \in Nat
  OBVIOUS
<1>5. x - 1 \in S
  BY <1>3, <1>4
<1> QED BY <1>4, <1>5, x - 1 + 1 = x

-----------------------------------------------------------------------------
(* Recursion over 0 .. N: each value from those before it, by G. *)
Rule(G, N, V) == \A n \in 0 .. N : \A f \in [0 .. n - 1 -> V] : G[n][f] \in V

Follows(g, G, N) == \A n \in 0 .. N : g[n] = G[n][[m \in 0 .. n - 1 |-> g[m]]]

LEMMA CourseOfValues ==
  ASSUME NEW N \in Nat, NEW V, NEW G, Rule(G, N, V)
  PROVE  \E g \in [0 .. N -> V] : Follows(g, G, N)
<1> USE DEF Rule, Follows
<1> DEFINE Built(g, k) == \A n \in 0 .. k : g[n] = G[n][[m \in 0 .. n - 1 |-> g[m]]]
           P(k) == \E g \in [0 .. k -> V] : Built(g, k)
           S == { k \in Nat : k <= N => P(k) }
<1>1. 0 \in S
  <2> DEFINE none == [m \in 0 .. 0 - 1 |-> 0]
             g == [n \in 0 .. 0 |-> G[0][none]]
  <2>1. none \in [0 .. 0 - 1 -> V]
    OBVIOUS
  <2>2. G[0][none] \in V
    <3>1. 0 \in 0 .. N
      OBVIOUS
    <3> HIDE DEF none
    <3>2. \A f \in [0 .. 0 - 1 -> V] : G[0][f] \in V
      BY <3>1, Zenon
    <3> QED BY <2>1, <3>2, Zenon
  <2>3. g \in [0 .. 0 -> V]
    BY <2>2
  <2>4. Built(g, 0)
    <3> SUFFICES ASSUME NEW n \in 0 .. 0
                 PROVE  g[n] = G[n][[m \in 0 .. n - 1 |-> g[m]]]
      OBVIOUS
    <3>1. n = 0 /\ g[0] = G[0][none]
      OBVIOUS
    <3> HIDE DEF g
    <3>2. [m \in 0 .. 0 - 1 |-> g[m]] = none
      OBVIOUS
    <3> QED BY <3>1, <3>2
  <2> QED BY <2>3, <2>4
<1>2. ASSUME NEW k \in Nat, k \in S PROVE k + 1 \in S
  <2> SUFFICES ASSUME k + 1 <= N PROVE P(k + 1)
    <3> HIDE DEF P
    <3> QED OBVIOUS
  <2>1. P(k)
    <3> HIDE DEF P
    <3> QED BY <1>2
  <2>2. PICK g \in [0 .. k -> V] : Built(g, k)
    BY <2>1, Zenon
  <2> DEFINE next == G[k + 1][g]
             longer == [n \in 0 .. k + 1 |-> IF n = k + 1 THEN next ELSE g[n]]
  <2>3. next \in V
    <3>1. k + 1 \in 0 .. N /\ (k + 1) - 1 = k
      OBVIOUS
    <3> QED BY <3>1
  <2>4. longer \in [0 .. k + 1 -> V]
    BY <2>3
  <2>5. longer[k + 1] = next /\ \A n \in 0 .. k : longer[n] = g[n]
    OBVIOUS
  <2> HIDE DEF next, longer
  <2>6. Built(longer, k + 1)
    <3> SUFFICES ASSUME NEW n \in 0 .. k + 1
                 PROVE  longer[n] = G[n][[m \in 0 .. n - 1 |-> longer[m]]]
      OBVIOUS
    <3>1. CASE n = k + 1
      <4>1. 0 .. n - 1 = 0 .. k
        BY <3>1
      <4>2. [m \in 0 .. n - 1 |-> longer[m]] = g
        BY <2>5, <4>1
      <4> QED BY <2>5, <3>1, <4>2 DEF next
    <3>2. CASE n \in 0 .. k
      <4>1. \A m \in 0 .. n - 1 : longer[m] = g[m]
        BY <2>5, <3>2
      <4>2. [m \in 0 .. n - 1 |-> longer[m]] = [m \in 0 .. n - 1 |-> g[m]]
        BY <4>1
      <4>3. g[n] = G[n][[m \in 0 .. n - 1 |-> g[m]]]
        BY <2>2, <3>2
      <4> QED BY <2>5, <3>2, <4>2, <4>3
    <3> QED BY <3>1, <3>2
  <2> QED BY <2>4, <2>6
<1>3. Nat \subseteq S
  <2> HIDE DEF S
  <2> QED BY <1>1, <1>2, SetInduction
<1>4. P(N)
  <2> HIDE DEF P
  <2> QED BY <1>3
<1> QED BY <1>4

-----------------------------------------------------------------------------
Text == Seq(Chars)

LEMMA DigitsDiffer ==
  ASSUME NEW d \in 0 .. 15
  PROVE  Digit(d) \in Chars /\ Digit(d) # "%" /\ DigitOf(Digit(d)) = d
<1>0. /\ Digit(0) = "0" /\ Digit(1) = "1" /\ Digit(2) = "2" /\ Digit(3) = "3"
      /\ Digit(4) = "4" /\ Digit(5) = "5" /\ Digit(6) = "6" /\ Digit(7) = "7"
      /\ Digit(8) = "8" /\ Digit(9) = "9" /\ Digit(10) = "a" /\ Digit(11) = "b"
      /\ Digit(12) = "c" /\ Digit(13) = "d" /\ Digit(14) = "e" /\ Digit(15) = "f"
  BY DEF Digit
<1>1. \A e \in 0 .. 15 : Digit(e) \in Chars /\ Digit(e) # "%"
  BY <1>0, CharsAssumption
<1>2. \A e \in 0 .. 15 : Digit(e) = Digit(d) => e = d
  BY <1>0
<1>3. \E e \in 0 .. 15 : Digit(e) = Digit(d)
  OBVIOUS
<1>4. DigitOf(Digit(d)) \in 0 .. 15 /\ Digit(DigitOf(Digit(d))) = Digit(d)
  BY <1>3, Zenon DEF DigitOf
<1> QED BY <1>1, <1>2, <1>4

(* The worth of a number's first n digits. *)
LEMMA WorthIs ==
  ASSUME NEW text \in Text, NEW base \in Nat,
         \A n \in 1 .. Len(text) : DigitOf(text[n]) \in Nat
  PROVE  /\ Worth(text, base)[0] = 0
         /\ \A n \in 1 .. Len(text) :
              Worth(text, base)[n] = base * Worth(text, base)[n - 1] + DigitOf(text[n])
         /\ \A n \in 0 .. Len(text) : Worth(text, base)[n] \in Nat
<1> DEFINE N == Len(text)
           G == [n \in 0 .. N |-> [f \in [0 .. n - 1 -> Nat] |->
                   IF n = 0 THEN 0 ELSE base * f[n - 1] + DigitOf(text[n])]]
           Eq(f) == f = [n \in 0 .. N |->
                           IF n = 0 THEN 0 ELSE base * f[n - 1] + DigitOf(text[n])]
<1>0. N \in Nat
  BY DEF Text
<1>1. ASSUME NEW n \in 0 .. N, NEW f \in [0 .. n - 1 -> Nat]
      PROVE  G[n][f] = IF n = 0 THEN 0 ELSE base * f[n - 1] + DigitOf(text[n])
  OBVIOUS
<1>2. Rule(G, N, Nat)
  <2> SUFFICES ASSUME NEW n \in 0 .. N, NEW f \in [0 .. n - 1 -> Nat]
               PROVE  G[n][f] \in Nat
    BY DEF Rule
  <2>1. CASE n = 0
    BY <1>1, <2>1
  <2>2. CASE n # 0
    <3>1. f[n - 1] \in Nat /\ DigitOf(text[n]) \in Nat
      BY <2>2
    <3>2. \A a, b, c \in Nat : a * b + c \in Nat
      BY Z3
    <3>3. base * f[n - 1] + DigitOf(text[n]) \in Nat
      BY <3>1, <3>2
    <3>4. G[n][f] = base * f[n - 1] + DigitOf(text[n])
      BY <1>1, <2>2
    <3> QED BY <3>3, <3>4
  <2> QED BY <2>1, <2>2
<1> HIDE DEF G, N
<1>3. PICK g \in [0 .. N -> Nat] : Follows(g, G, N)
  BY <1>0, <1>2, CourseOfValues
<1>4. ASSUME NEW n \in 0 .. N
      PROVE  g[n] = IF n = 0 THEN 0 ELSE base * g[n - 1] + DigitOf(text[n])
  <2> DEFINE f == [m \in 0 .. n - 1 |-> g[m]]
  <2>1. f \in [0 .. n - 1 -> Nat] /\ (n # 0 => f[n - 1] = g[n - 1])
    BY <1>0
  <2>2. g[n] = G[n][f]
    BY <1>3 DEF Follows
  <2> HIDE DEF f
  <2>3. G[n][f] = IF n = 0 THEN 0 ELSE base * f[n - 1] + DigitOf(text[n])
    BY <1>1, <2>1
  <2> QED BY <2>1, <2>2, <2>3
<1>5. Eq(g)
  BY <1>4
<1>6. Worth(text, base) = CHOOSE f : Eq(f)
  BY Zenon DEF Worth, N
<1>7. Eq(Worth(text, base))
  <2> HIDE DEF Eq
  <2> QED BY <1>5, <1>6, Zenon
<1> DEFINE worth == Worth(text, base)
<1> HIDE DEF worth
<1>8. \A n \in 0 .. N : worth[n] = IF n = 0 THEN 0 ELSE base * worth[n - 1] + DigitOf(text[n])
  <2>1. Eq(worth)
    BY <1>7 DEF worth
  <2> QED BY <2>1, Zenon
<1> DEFINE S == { n \in Nat : n <= N => worth[n] \in Nat }
<1>9. 0 \in S
  BY <1>0, <1>8
<1>10. ASSUME NEW n \in Nat, n \in S PROVE n + 1 \in S
  <2> SUFFICES ASSUME n + 1 <= N PROVE worth[n + 1] \in Nat
    OBVIOUS
  <2>1. n + 1 \in 0 .. N /\ n + 1 # 0 /\ (n + 1) - 1 = n /\ worth[n] \in Nat
    BY <1>0, <1>10
  <2>2. worth[n + 1] = base * worth[n] + DigitOf(text[n + 1])
    BY <1>8, <2>1
  <2>3. DigitOf(text[n + 1]) \in Nat
    BY <1>0, <2>1 DEF N
  <2>4. \A a, b, c \in Nat : a * b + c \in Nat
    BY Z3
  <2> QED BY <2>1, <2>2, <2>3, <2>4
<1>11. Nat \subseteq S
  <2> HIDE DEF S
  <2> QED BY <1>9, <1>10, SetInduction
<1>12. \A n \in 0 .. N : worth[n] \in Nat
  BY <1>0, <1>11
<1>13. worth[0] = 0 /\ \A n \in 1 .. N : worth[n] = base * worth[n - 1] + DigitOf(text[n])
  <2>1. 0 \in 0 .. N /\ \A n \in 1 .. N : n \in 0 .. N /\ n # 0
    BY <1>0
  <2> QED BY <1>8, <2>1, Zenon
<1> QED BY <1>12, <1>13 DEF worth, N

(* The loop of %x takes one digit after another from val. *)
LEMMA LeftIs ==
  ASSUME NEW val \in Nat
  PROVE  /\ Left(val)[DIGITS] = val
         /\ \A j \in 1 .. DIGITS - 1 : Left(val)[j] = Left(val)[j + 1] \div 16
         /\ \A j \in 1 .. DIGITS : Left(val)[j] \in Nat
<1> DEFINE N == DIGITS - 1
           G == [n \in 0 .. N |-> [f \in [0 .. n - 1 -> Nat] |->
                   IF n = 0 THEN val ELSE f[n - 1] \div 16]]
           Eq(f) == f = [j \in 1 .. DIGITS |->
                           IF j = DIGITS THEN val ELSE f[j + 1] \div 16]
<1>0. DIGITS \in Nat /\ N \in Nat
  BY UartAssumption
<1>d. \A n \in Nat : n \div 16 \in Nat
  BY Z3
<1>1. ASSUME NEW n \in 0 .. N, NEW f \in [0 .. n - 1 -> Nat]
      PROVE  G[n][f] = IF n = 0 THEN val ELSE f[n - 1] \div 16
  OBVIOUS
<1>2. Rule(G, N, Nat)
  <2> SUFFICES ASSUME NEW n \in 0 .. N, NEW f \in [0 .. n - 1 -> Nat]
               PROVE  G[n][f] \in Nat
    BY DEF Rule
  <2>1. n # 0 => f[n - 1] \in Nat
    BY <1>0
  <2> HIDE DEF G
  <2> QED BY <1>1, <1>d, <2>1
<1> HIDE DEF G
<1>3. PICK g \in [0 .. N -> Nat] : Follows(g, G, N)
  BY <1>0, <1>2, CourseOfValues
<1>4. ASSUME NEW n \in 0 .. N
      PROVE  g[n] = IF n = 0 THEN val ELSE g[n - 1] \div 16
  <2> DEFINE f == [m \in 0 .. n - 1 |-> g[m]]
  <2>1. f \in [0 .. n - 1 -> Nat] /\ (n # 0 => f[n - 1] = g[n - 1])
    BY <1>0
  <2>2. g[n] = G[n][f]
    BY <1>3 DEF Follows
  <2> HIDE DEF f
  <2>3. G[n][f] = IF n = 0 THEN val ELSE f[n - 1] \div 16
    BY <1>1, <2>1
  <2> QED BY <2>1, <2>2, <2>3
<1> DEFINE made == [j \in 1 .. DIGITS |-> g[DIGITS - j]]
<1>5. ASSUME NEW j \in 1 .. DIGITS
      PROVE  made[j] = IF j = DIGITS THEN val ELSE made[j + 1] \div 16
  <2>1. /\ DIGITS - j \in 0 .. N /\ (DIGITS - j = 0 <=> j = DIGITS)
        /\ made[j] = g[DIGITS - j]
    BY <1>0
  <2>2. j # DIGITS => made[j + 1] = g[DIGITS - j - 1]
    BY <1>0
  <2> HIDE DEF made
  <2> QED BY <1>4, <2>1, <2>2
<1>6. Eq(made)
  <2>1. made = [j \in 1 .. DIGITS |-> made[j]]
    OBVIOUS
  <2> HIDE DEF made
  <2> QED BY <1>5, <2>1
<1>7. Eq(Left(val))
  <2>1. Left(val) = CHOOSE f : Eq(f)
    BY Zenon DEF Left
  <2> HIDE DEF Eq
  <2> QED BY <1>6, <2>1, Zenon
<1> DEFINE left == Left(val)
<1> HIDE DEF left
<1>8. \A j \in 1 .. DIGITS : left[j] = IF j = DIGITS THEN val ELSE left[j + 1] \div 16
  <2>1. Eq(left)
    BY <1>7 DEF left
  <2> QED BY <2>1, Zenon
<1> DEFINE S == { n \in Nat : n <= N => left[DIGITS - n] \in Nat }
<1>9. 0 \in S
  BY <1>0, <1>8, UartAssumption
<1>10. ASSUME NEW n \in Nat, n \in S PROVE n + 1 \in S
  <2> SUFFICES ASSUME n + 1 <= N PROVE left[DIGITS - (n + 1)] \in Nat
    OBVIOUS
  <2> DEFINE j == DIGITS - (n + 1)
  <2>1. j \in 1 .. DIGITS /\ j # DIGITS /\ j + 1 = DIGITS - n
    BY <1>0
  <2>2. left[DIGITS - n] \in Nat
    BY <1>0, <1>10
  <2> HIDE DEF j
  <2>3. left[j] = left[DIGITS - n] \div 16
    BY <1>8, <2>1
  <2> QED BY <1>d, <2>2, <2>3 DEF j
<1>11. Nat \subseteq S
  <2> HIDE DEF S
  <2> QED BY <1>9, <1>10, SetInduction
<1>12. \A j \in 1 .. DIGITS : left[j] \in Nat
  <2> SUFFICES ASSUME NEW j \in 1 .. DIGITS PROVE left[j] \in Nat
    OBVIOUS
  <2>1. DIGITS - j \in S /\ DIGITS - j <= N /\ DIGITS - (DIGITS - j) = j
    <3>1. DIGITS - j \in Nat
      BY <1>0
    <3> HIDE DEF S
    <3> QED BY <1>0, <1>11, <3>1
  <2> QED BY <2>1
<1>13. left[DIGITS] = val /\ \A j \in 1 .. DIGITS - 1 : left[j] = left[j + 1] \div 16
  BY <1>8, UartAssumption
<1> QED BY <1>12, <1>13 DEF left

(* %x shows a number whose highest digit is 0. *)
LEMMA HexShows ==
  ASSUME NEW val \in Nat
  PROVE  /\ hex(val) \in Text
         /\ Left(val)[1] = 0 => Shows(hex(val), "x", val)
<1> DEFINE text == hex(val)
           left == Left(val)
           tail == SubSeq(text, 3, Len(text))
<1>0. DIGITS \in Nat /\ DIGITS > 1
  BY UartAssumption
<1>1. /\ left[DIGITS] = val /\ \A j \in 1 .. DIGITS : left[j] \in Nat
      /\ \A j \in 1 .. DIGITS - 1 : left[j] = left[j + 1] \div 16
  BY LeftIs
<1> HIDE DEF left
<1>2. text = [n \in 1 .. DIGITS + 1 |-> CASE n = 1 -> "0" [] n = 2 -> "x"
                                          [] OTHER -> Digit(left[n - 1] % 16)]
  BY DEF hex, left
<1>3. \A n \in 3 .. DIGITS + 1 : left[n - 1] % 16 \in 0 .. 15
  <2>1. \A n \in Nat : n % 16 \in 0 .. 15
    BY Z3
  <2> QED BY <1>0, <1>1, <2>1
<1> HIDE DEF text
<1>4. /\ text[1] = "0" /\ text[2] = "x"
      /\ \A n \in 3 .. DIGITS + 1 : text[n] = Digit(left[n - 1] % 16)
  BY <1>0, <1>2
<1>5. text \in Text /\ Len(text) = DIGITS + 1
  <2>1. \A n \in 1 .. DIGITS + 1 : text[n] \in Chars
    <3> SUFFICES ASSUME NEW n \in 1 .. DIGITS + 1 PROVE text[n] \in Chars
      OBVIOUS
    <3>1. CASE n = 1 \/ n = 2
      BY <1>4, <3>1, CharsAssumption
    <3>2. CASE n \in 3 .. DIGITS + 1
      BY <1>3, <1>4, <3>2, DigitsDiffer
    <3> QED BY <1>0, <3>1, <3>2
  <2>2. text = [n \in 1 .. DIGITS + 1 |-> text[n]]
    BY <1>2
  <2>3. text \in [1 .. DIGITS + 1 -> Chars]
    BY <2>1, <2>2
  <2> QED BY <1>0, <2>3 DEF Text
<1>6. /\ tail \in Text /\ Len(tail) = DIGITS - 1
      /\ \A n \in 1 .. DIGITS - 1 : tail[n] = Digit(left[n + 1] % 16)
  <2>1. \A i \in 3 .. Len(text) : text[i] \in Chars
    BY <1>0, <1>5 DEF Text
  <2>2. /\ tail \in Seq(Chars)
        /\ Len(tail) = IF 3 <= Len(text) THEN Len(text) - 3 + 1 ELSE 0
        /\ \A i \in 1 .. Len(text) - 3 + 1 : tail[i] = text[3 + i - 1]
    <3>1. Len(text) \in Int
      BY <1>0, <1>5
    <3> QED BY <2>1, <3>1, SubSeqProperties
  <2>3. \A i \in 1 .. DIGITS - 1 : 3 + i - 1 \in 3 .. DIGITS + 1 /\ (3 + i - 1) - 1 = i + 1
    BY <1>0
  <2> HIDE DEF tail
  <2> QED BY <1>0, <1>4, <1>5, <2>2, <2>3 DEF Text
<1> HIDE DEF tail
<1>7. \A n \in 1 .. DIGITS - 1 : /\ DigitOf(tail[n]) = left[n + 1] % 16
                                 /\ left[n + 1] % 16 \in 0 .. 15
  <2> SUFFICES ASSUME NEW n \in 1 .. DIGITS - 1
               PROVE  DigitOf(tail[n]) = left[n + 1] % 16 /\ left[n + 1] % 16 \in 0 .. 15
    OBVIOUS
  <2>1. n + 2 \in 3 .. DIGITS + 1 /\ (n + 2) - 1 = n + 1
    BY <1>0
  <2>2. left[n + 1] % 16 \in 0 .. 15
    BY <1>3, <2>1
  <2> QED BY <1>6, <2>2, DigitsDiffer
<1> DEFINE worth == Worth(tail, 16)
<1>8. /\ worth[0] = 0
      /\ \A n \in 1 .. DIGITS - 1 : worth[n] = 16 * worth[n - 1] + (left[n + 1] % 16)
  <2>1. \A n \in 1 .. Len(tail) : DigitOf(tail[n]) \in Nat
    BY <1>6, <1>7
  <2>2. /\ worth[0] = 0
        /\ \A n \in 1 .. Len(tail) : worth[n] = 16 * worth[n - 1] + DigitOf(tail[n])
    BY <1>6, <2>1, WorthIs
  <2> HIDE DEF worth
  <2> QED BY <1>6, <1>7, <2>2
<1> HIDE DEF worth
<1> DEFINE topDigit == Left(val)[1]
           S == { n \in Nat : n <= DIGITS - 1 /\ topDigit = 0 => worth[n] = left[n + 1] }
<1>9. 0 \in S
  BY <1>8 DEF left
<1> HIDE DEF topDigit
<1>10. ASSUME NEW n \in Nat, n \in S PROVE n + 1 \in S
  <2> SUFFICES ASSUME n + 1 <= DIGITS - 1, topDigit = 0 PROVE worth[n + 1] = left[n + 2]
    OBVIOUS
  <2>1. /\ n + 1 \in 1 .. DIGITS - 1 /\ n + 2 \in 1 .. DIGITS
        /\ (n + 1) - 1 = n /\ (n + 1) + 1 = n + 2
    BY <1>0
  <2>2. worth[n] = left[n + 1]
    BY <1>0, <1>10
  <2>3. left[n + 1] = left[n + 2] \div 16 /\ left[n + 2] \in Nat
    BY <1>1, <2>1
  <2>4. worth[n + 1] = 16 * (left[n + 2] \div 16) + (left[n + 2] % 16)
    BY <1>8, <2>1, <2>2, <2>3
  <2>5. \A m \in Nat : 16 * (m \div 16) + (m % 16) = m
    BY Z3
  <2> QED BY <2>3, <2>4, <2>5
<1>11. Nat \subseteq S
  <2> HIDE DEF S
  <2> QED BY <1>9, <1>10, SetInduction
<1>12. topDigit = 0 => worth[DIGITS - 1] = val
  BY <1>0, <1>1, <1>11
<1>13. ASSUME topDigit = 0 PROVE Reads(tail, 16, val)
  <2>1. tail # <<>>
    BY <1>0, <1>6
  <2>2. \A n \in DOMAIN tail : \E d \in 0 .. 16 - 1 : Digit(d) = tail[n]
    <3>1. DOMAIN tail = 1 .. DIGITS - 1
      BY <1>6 DEF Text
    <3> SUFFICES ASSUME NEW n \in 1 .. DIGITS - 1
                 PROVE  \E d \in 0 .. 16 - 1 : Digit(d) = tail[n]
      BY <3>1
    <3>2. left[n + 1] % 16 \in 0 .. 16 - 1 /\ Digit(left[n + 1] % 16) = tail[n]
      BY <1>6, <1>7
    <3> HIDE DEF left
    <3> QED BY <3>2, Zenon
  <2>3. Worth(tail, 16)[Len(tail)] = val
    BY <1>6, <1>12, <1>13 DEF worth
  <2> QED BY <2>1, <2>2, <2>3 DEF Reads
<1> QED BY <1>0, <1>4, <1>5, <1>13 DEF Shows, text, tail, topDigit

-----------------------------------------------------------------------------
(* The digits of a number, one after another from the lowest. *)
LEMMA LowestFirstIs ==
  ASSUME NEW number \in Nat
  PROVE  /\ LowestFirst(number)[0] = <<>>
         /\ \A v \in 1 .. number :
              LowestFirst(number)[v]
                = << Digit(v % 10) >> \o LowestFirst(number)[v \div 10]
         /\ \A v \in 0 .. number : LowestFirst(number)[v] \in Text
<1> DEFINE N == number
           G == [n \in 0 .. N |-> [f \in [0 .. n - 1 -> Text] |->
                   IF n > 0 THEN << Digit(n % 10) >> \o f[n \div 10] ELSE <<>>]]
           Eq(f) == f = [n \in 0 .. N |->
                           IF n > 0 THEN << Digit(n % 10) >> \o f[n \div 10] ELSE <<>>]
<1>0. \A n \in Nat : /\ n % 10 \in 0 .. 9 /\ n \div 10 \in Nat
                     /\ n > 0 => n \div 10 \in 0 .. n - 1
  BY Z3
<1>d. \A n \in Nat : << Digit(n % 10) >> \in Text
  <2> SUFFICES ASSUME NEW n \in Nat PROVE << Digit(n % 10) >> \in Text
    OBVIOUS
  <2>1. n % 10 \in 0 .. 15
    BY <1>0
  <2>2. Digit(n % 10) \in Chars
    BY <2>1, DigitsDiffer
  <2> QED BY <2>2 DEF Text
<1>e. <<>> \in Text
  BY DEF Text
<1>1. ASSUME NEW n \in 0 .. N, NEW f \in [0 .. n - 1 -> Text]
      PROVE  G[n][f] = IF n > 0 THEN << Digit(n % 10) >> \o f[n \div 10] ELSE <<>>
  OBVIOUS
<1>2. Rule(G, N, Text)
  <2> SUFFICES ASSUME NEW n \in 0 .. N, NEW f \in [0 .. n - 1 -> Text]
               PROVE  G[n][f] \in Text
    BY DEF Rule
  <2> HIDE DEF G
  <2>1. CASE n = 0
    <3>0. ~ (n > 0)
      BY <2>1
    <3>1. G[n][f] = <<>>
      BY <1>1, <3>0, Zenon
    <3> QED BY <1>e, <3>1
  <2>2. CASE n > 0
    <3>1. f[n \div 10] \in Text /\ << Digit(n % 10) >> \in Text
      BY <1>0, <1>d, <2>2
    <3>2. << Digit(n % 10) >> \o f[n \div 10] \in Text
      BY <3>1 DEF Text
    <3> QED BY <1>1, <2>2, <3>2
  <2> QED BY <2>1, <2>2
<1> HIDE DEF G
<1>3. PICK g \in [0 .. N -> Text] : Follows(g, G, N)
  BY <1>2, CourseOfValues
<1>4. ASSUME NEW n \in 0 .. N
      PROVE  g[n] = IF n > 0 THEN << Digit(n % 10) >> \o g[n \div 10] ELSE <<>>
  <2> DEFINE f == [m \in 0 .. n - 1 |-> g[m]]
  <2>1. f \in [0 .. n - 1 -> Text]
    <3>1. \A m \in 0 .. n - 1 : g[m] \in Text
      OBVIOUS
    <3> QED BY <3>1
  <2>2. n > 0 => f[n \div 10] = g[n \div 10]
    BY <1>0
  <2>3. g[n] = G[n][f]
    BY <1>3 DEF Follows
  <2> HIDE DEF f
  <2>4. G[n][f] = IF n > 0 THEN << Digit(n % 10) >> \o f[n \div 10] ELSE <<>>
    BY <1>1, <2>1
  <2> QED BY <2>2, <2>3, <2>4
<1>5. Eq(g)
  BY <1>4
<1>6. LowestFirst(number) = CHOOSE f : Eq(f)
  BY Zenon DEF LowestFirst
<1>7. Eq(LowestFirst(number))
  <2> HIDE DEF Eq
  <2> QED BY <1>5, <1>6, Zenon
<1> DEFINE digits == LowestFirst(number)
<1> HIDE DEF digits
<1>8. \A n \in 0 .. N :
        digits[n] = IF n > 0 THEN << Digit(n % 10) >> \o digits[n \div 10] ELSE <<>>
  <2>1. Eq(digits)
    BY <1>7 DEF digits
  <2> QED BY <2>1, Zenon
<1> DEFINE S == { n \in Nat : \A v \in 0 .. n : v <= N => digits[v] \in Text }
<1>9. 0 \in S
  <2>1. 0 \in 0 .. N /\ ~ (0 > 0)
    OBVIOUS
  <2>2. digits[0] = <<>>
    BY <1>8, <2>1, Zenon
  <2>3. \A v \in 0 .. 0 : v = 0
    OBVIOUS
  <2> QED BY <1>e, <2>2, <2>3
<1>10. ASSUME NEW n \in Nat, n \in S PROVE n + 1 \in S
  <2> SUFFICES ASSUME n + 1 <= N PROVE digits[n + 1] \in Text
    BY <1>10
  <2>1. n + 1 > 0 /\ n + 1 \in Nat /\ (n + 1) \div 10 \in 0 .. n
    <3>1. (n + 1) \div 10 \in 0 .. (n + 1) - 1
      BY <1>0
    <3> QED BY <3>1
  <2>2. digits[(n + 1) \div 10] \in Text
    BY <1>10, <2>1
  <2>3. digits[n + 1] = << Digit((n + 1) % 10) >> \o digits[(n + 1) \div 10]
    <3>1. n + 1 \in 0 .. N
      OBVIOUS
    <3> QED BY <1>8, <2>1, <3>1, Zenon
  <2>4. << Digit((n + 1) % 10) >> \in Text
    BY <1>d, <2>1
  <2> QED BY <2>2, <2>3, <2>4 DEF Text
<1>11. Nat \subseteq S
  <2> HIDE DEF S
  <2> QED BY <1>9, <1>10, SetInduction
<1>12. \A v \in 0 .. N : digits[v] \in Text
  BY <1>11
<1>13. /\ digits[0] = <<>>
       /\ \A v \in 1 .. N : digits[v] = << Digit(v % 10) >> \o digits[v \div 10]
  BY <1>8
<1> QED BY <1>12, <1>13 DEF digits

(* count has the worth of the first n digits of text for each n. *)
Counts(count, text, number) ==
  /\ count \in [0 .. Len(text) -> Nat]
  /\ count[0] = 0 /\ count[Len(text)] = number
  /\ \A n \in 1 .. Len(text) : count[n] = 10 * count[n - 1] + DigitOf(text[n])

Decimal(text) ==
  text \in Text /\ \A n \in 1 .. Len(text) : \E d \in 0 .. 9 : text[n] = Digit(d)

LEMMA CountsIsReads ==
  ASSUME NEW text, Decimal(text), text # <<>>, NEW number \in Nat,
         \E count : Counts(count, text, number)
  PROVE  Reads(text, 10, number)
<1>1. PICK count : Counts(count, text, number)
  OBVIOUS
<1>2. \A n \in 1 .. Len(text) : DigitOf(text[n]) \in Nat
  <2> SUFFICES ASSUME NEW n \in 1 .. Len(text) PROVE DigitOf(text[n]) \in Nat
    OBVIOUS
  <2>1. PICK d \in 0 .. 9 : text[n] = Digit(d)
    BY DEF Decimal
  <2>2. d \in 0 .. 15
    OBVIOUS
  <2> QED BY <2>1, <2>2, DigitsDiffer
<1>3. text \in Text /\ Len(text) \in Nat /\ DOMAIN text = 1 .. Len(text)
  BY DEF Decimal, Text
<1> DEFINE worth == Worth(text, 10)
<1>4. /\ worth[0] = 0
      /\ \A n \in 1 .. Len(text) : worth[n] = 10 * worth[n - 1] + DigitOf(text[n])
  BY <1>2, <1>3, WorthIs
<1> HIDE DEF worth
<1> DEFINE S == { n \in Nat : n <= Len(text) => worth[n] = count[n] }
<1>5. 0 \in S
  BY <1>1, <1>4 DEF Counts
<1>6. ASSUME NEW n \in Nat, n \in S PROVE n + 1 \in S
  <2> SUFFICES ASSUME n + 1 <= Len(text) PROVE worth[n + 1] = count[n + 1]
    OBVIOUS
  <2>1. n + 1 \in 1 .. Len(text) /\ (n + 1) - 1 = n /\ worth[n] = count[n]
    BY <1>3, <1>6
  <2> QED BY <1>1, <1>4, <2>1 DEF Counts
<1>7. Nat \subseteq S
  <2> HIDE DEF S
  <2> QED BY <1>5, <1>6, SetInduction
<1>8. worth[Len(text)] = number
  BY <1>1, <1>3, <1>7 DEF Counts
<1>9. \A n \in DOMAIN text : \E d \in 0 .. 10 - 1 : Digit(d) = text[n]
  <2> SUFFICES ASSUME NEW n \in 1 .. Len(text)
               PROVE  \E d \in 0 .. 10 - 1 : Digit(d) = text[n]
    BY <1>3
  <2>1. 0 .. 10 - 1 = 0 .. 9
    OBVIOUS
  <2> QED BY <2>1, Zenon DEF Decimal
<1> QED BY <1>8, <1>9 DEF Reads, worth

(* itoa's digits, turned around, read as the number. *)
LEMMA DigitsRead ==
  ASSUME NEW number \in Nat, number > 0
  PROVE  LET text == Reverse(LowestFirst(number)[number])
         IN  Decimal(text) /\ text # <<>> /\ Reads(text, 10, number)
<1> DEFINE digits == LowestFirst(number)
           R(v) == Reverse(digits[v])
           P(v) == /\ Decimal(R(v)) /\ (v > 0 => R(v) # <<>>)
                   /\ \E count : Counts(count, R(v), v)
<1>1. /\ digits[0] = <<>>
      /\ \A v \in 1 .. number : digits[v] = << Digit(v % 10) >> \o digits[v \div 10]
      /\ \A v \in 0 .. number : digits[v] \in Text
  BY LowestFirstIs
<1> HIDE DEF digits
<1>2. P(0)
  <2>1. R(0) = <<>>
    BY <1>1 DEF Reverse
  <2>2. Decimal(<<>>)
    BY DEF Decimal, Text
  <2>3. Counts([n \in 0 .. 0 |-> 0], <<>>, 0)
    BY DEF Counts
  <2> HIDE DEF R
  <2> QED BY <2>1, <2>2, <2>3
<1>3. ASSUME NEW v \in 1 .. number, P(v \div 10) PROVE P(v)
  <2> DEFINE q == v \div 10
             d == v % 10
             r == R(q)
             text == Append(r, Digit(d))
  <2>1. q \in 0 .. number /\ d \in 0 .. 9 /\ v = 10 * q + d
    <3>1. \A n \in Nat : n \div 10 \in 0 .. n /\ n % 10 \in 0 .. 9
                         /\ n = 10 * (n \div 10) + (n % 10)
      BY Z3
    <3> QED BY <3>1
  <2>2. digits[q] \in Text /\ Digit(d) \in Chars /\ DigitOf(Digit(d)) = d
    <3>1. d \in 0 .. 15
      BY <2>1
    <3> HIDE DEF d, q
    <3> QED BY <1>1, <2>1, <3>1, DigitsDiffer
  <2>3. digits[v] = << Digit(d) >> \o digits[q]
    BY <1>1
  <2>4. Decimal(r) /\ \E count : Counts(count, r, q)
    BY <1>3
  <2> HIDE DEF q, d
  <2>5. R(v) = text
    <3>1. digits[v] \in Text /\ Len(digits[v]) = Len(digits[q]) + 1 /\ digits[v][1] = Digit(d)
          /\ \A i \in 2 .. Len(digits[v]) : digits[v][i] = digits[q][i - 1]
      BY <2>2, <2>3 DEF Text
    <3>2. r = [i \in 1 .. Len(digits[q]) |-> digits[q][(Len(digits[q]) - i) + 1]]
      BY DEF Reverse
    <3>3. R(v) = [i \in 1 .. Len(digits[v]) |-> digits[v][(Len(digits[v]) - i) + 1]]
      BY DEF Reverse
    <3>4. Len(digits[q]) \in Nat /\ Len(r) = Len(digits[q])
      BY <2>2, <3>2 DEF Text
    <3> HIDE DEF R, r
    <3>5. text = [i \in 1 .. Len(digits[q]) + 1 |->
                    IF i = Len(digits[q]) + 1 THEN Digit(d) ELSE r[i]]
      BY <3>2, <3>4
    <3>6. \A i \in 1 .. Len(digits[q]) + 1 :
            digits[v][(Len(digits[v]) - i) + 1]
              = IF i = Len(digits[q]) + 1 THEN Digit(d) ELSE r[i]
      <4> SUFFICES ASSUME NEW i \in 1 .. Len(digits[q]) + 1
                   PROVE  digits[v][(Len(digits[v]) - i) + 1]
                            = IF i = Len(digits[q]) + 1 THEN Digit(d) ELSE r[i]
        OBVIOUS
      <4>1. CASE i = Len(digits[q]) + 1
        <5>1. (Len(digits[v]) - i) + 1 = 1
          BY <3>1, <3>4, <4>1
        <5> QED BY <3>1, <4>1, <5>1
      <4>2. CASE i # Len(digits[q]) + 1
        <5>1. /\ (Len(digits[v]) - i) + 1 \in 2 .. Len(digits[v]) /\ i \in 1 .. Len(digits[q])
              /\ (Len(digits[v]) - i) + 1 - 1 = (Len(digits[q]) - i) + 1
          BY <3>1, <3>4, <4>2
        <5> DEFINE k == (Len(digits[v]) - i) + 1
        <5>2. digits[v][k] = digits[q][(Len(digits[q]) - i) + 1]
          <6>1. k \in 2 .. Len(digits[v]) /\ k - 1 = (Len(digits[q]) - i) + 1
            BY <5>1
          <6> HIDE DEF k
          <6>2. digits[v][k] = digits[q][k - 1]
            BY <3>1, <6>1, Zenon
          <6> QED BY <6>1, <6>2
        <5> QED BY <3>2, <4>2, <5>1, <5>2
      <4> QED BY <4>1, <4>2
    <3> QED BY <3>1, <3>3, <3>5, <3>6
  <2>6. /\ r \in Text /\ text \in Text /\ Len(r) \in Nat /\ Len(text) = Len(r) + 1
        /\ text[Len(r) + 1] = Digit(d)
        /\ \A n \in 1 .. Len(r) : text[n] = r[n]
    <3>1. r \in Text
      BY <2>4 DEF Decimal
    <3> HIDE DEF r
    <3> QED BY <2>2, <3>1 DEF Text
  <2>7. Decimal(text) /\ text # <<>>
    <3> HIDE DEF r, text
    <3>1. \A n \in 1 .. Len(text) : \E e \in 0 .. 9 : text[n] = Digit(e)
      <4> SUFFICES ASSUME NEW n \in 1 .. Len(text)
                   PROVE  \E e \in 0 .. 9 : text[n] = Digit(e)
        OBVIOUS
      <4>1. CASE n = Len(r) + 1
        BY <2>1, <2>6, <4>1
      <4>2. CASE n \in 1 .. Len(r)
        BY <2>4, <2>6, <4>2 DEF Decimal
      <4> QED BY <2>6, <4>1, <4>2
    <3> QED BY <2>6, <3>1 DEF Decimal
  <2>8. \E count : Counts(count, text, v)
    <3>1. PICK count : Counts(count, r, q)
      BY <2>4
    <3> DEFINE more == [n \in 0 .. Len(text) |-> IF n = Len(text) THEN v ELSE count[n]]
    <3> HIDE DEF r, text
    <3>2. /\ more \in [0 .. Len(text) -> Nat] /\ more[0] = 0 /\ more[Len(text)] = v
          /\ \A n \in 0 .. Len(r) : more[n] = count[n]
      BY <2>6, <3>1 DEF Counts
    <3> HIDE DEF more
    <3>3. ASSUME NEW n \in 1 .. Len(text)
          PROVE  more[n] = 10 * more[n - 1] + DigitOf(text[n])
      <4>1. CASE n = Len(r) + 1
        <5>1. more[n] = v /\ more[n - 1] = q /\ text[n] = Digit(d)
          BY <2>6, <3>1, <3>2, <4>1 DEF Counts
        <5> QED BY <2>1, <2>2, <5>1
      <4>2. CASE n \in 1 .. Len(r)
        <5>1. n - 1 \in 0 .. Len(r) /\ n \in 0 .. Len(r)
          BY <2>6, <4>2
        <5> QED BY <2>6, <3>1, <3>2, <4>2, <5>1 DEF Counts
      <4> QED BY <2>6, <4>1, <4>2
    <3>4. Counts(more, text, v)
      BY <3>2, <3>3 DEF Counts
    <3> QED BY <3>4
  <2> HIDE DEF R, text
  <2> QED BY <2>5, <2>7, <2>8
<1> DEFINE S == { n \in Nat : \A v \in 0 .. n : v <= number => P(v) }
<1>4. 0 \in S
  <2> HIDE DEF P
  <2>1. \A v \in 0 .. 0 : v = 0
    OBVIOUS
  <2> QED BY <1>2, <2>1
<1>5. ASSUME NEW n \in Nat, n \in S PROVE n + 1 \in S
  <2> SUFFICES ASSUME n + 1 <= number PROVE P(n + 1)
    <3> HIDE DEF P
    <3> QED BY <1>5
  <2>1. (n + 1) \div 10 \in 0 .. n /\ n + 1 \in 1 .. number
    <3>1. \A m \in Nat : m > 0 => m \div 10 \in 0 .. m - 1
      BY Z3
    <3>2. (n + 1) \div 10 \in 0 .. (n + 1) - 1
      BY <3>1
    <3> QED BY <3>2
  <2> HIDE DEF P
  <2>2. P((n + 1) \div 10)
    BY <1>5, <2>1
  <2> QED BY <1>3, <2>1, <2>2
<1>6. Nat \subseteq S
  <2> HIDE DEF S
  <2> QED BY <1>4, <1>5, SetInduction
<1>7. P(number)
  <2> HIDE DEF P
  <2> QED BY <1>6
<1> QED BY <1>7, CountsIsReads DEF digits

(* %d shows every number. *)
LEMMA DecimalShows ==
  ASSUME NEW val \in Int
  PROVE  itoa(val) \in Text /\ Shows(itoa(val), "d", val)
<1>1. CASE val = 0
  <2>1. itoa(val) = << "0" >> /\ Digit(0) = "0"
    BY <1>1 DEF itoa, Digit
  <2>2. Digit(0) \in Chars /\ DigitOf(Digit(0)) = 0
    <3>1. 0 \in 0 .. 15
      OBVIOUS
    <3> QED BY <3>1, DigitsDiffer
  <2>3. Decimal(<< "0" >>)
    <3>1. << "0" >> \in Text /\ 0 \in 0 .. 9 /\ Len(<< "0" >>) = 1 /\ << "0" >>[1] = "0"
      BY <2>1, <2>2 DEF Text
    <3> QED BY <2>1, <3>1 DEF Decimal
  <2>4. Counts([n \in 0 .. 1 |-> 0], << "0" >>, 0)
    BY <2>1, <2>2 DEF Counts
  <2>5. Reads(<< "0" >>, 10, 0)
    BY <2>3, <2>4, CountsIsReads
  <2> QED BY <1>1, <2>1, <2>3, <2>5 DEF Shows, Decimal
<1>2. CASE val > 0
  <2>1. itoa(val) = Reverse(LowestFirst(val)[val])
    BY <1>2 DEF itoa
  <2>2. Decimal(itoa(val)) /\ Reads(itoa(val), 10, val)
    BY <1>2, <2>1, DigitsRead
  <2> QED BY <2>2 DEF Shows, Decimal
<1>3. CASE val < 0
  <2> DEFINE digits == LowestFirst(-val)[-val]
             text == Reverse(digits)
  <2>1. -val \in Nat /\ -val > 0 /\ ~ (val = 0)
    BY <1>3
  <2>2. Decimal(text) /\ text # <<>> /\ Reads(text, 10, -val)
    BY <2>1, DigitsRead
  <2>3. digits \in Text
    <3>1. \A n \in Nat : n \in 0 .. n
      OBVIOUS
    <3> QED BY <2>1, <3>1, LowestFirstIs
  <2>4. itoa(val) = Reverse(digits \o << "-" >>)
    BY <1>3, <2>1, Zenon DEF itoa
  <2>5. "-" \in Chars
    BY CharsAssumption
  <2> HIDE DEF digits
  <2>6. itoa(val) = << "-" >> \o text
    <3> DEFINE longer == digits \o << "-" >>
    <3>1. /\ Len(digits) \in Nat /\ Len(longer) = Len(digits) + 1
          /\ longer[Len(digits) + 1] = "-"
          /\ \A i \in 1 .. Len(digits) : longer[i] = digits[i]
      BY <2>3 DEF Text
    <3> HIDE DEF longer
    <3>2. itoa(val) = [i \in 1 .. Len(longer) |-> longer[(Len(longer) - i) + 1]]
      BY <2>4 DEF Reverse, longer
    <3>3. text = [i \in 1 .. Len(digits) |-> digits[(Len(digits) - i) + 1]]
      BY DEF Reverse
    <3>4. text \in Text /\ Len(text) = Len(digits)
      BY <2>2, <3>1, <3>3 DEF Decimal
    <3> HIDE DEF text
    <3>5. << "-" >> \o text
            = [i \in 1 .. Len(digits) + 1 |-> IF i = 1 THEN "-" ELSE text[i - 1]]
      BY <2>5, <3>1, <3>4 DEF Text
    <3>6. \A i \in 1 .. Len(digits) + 1 :
            longer[(Len(longer) - i) + 1] = IF i = 1 THEN "-" ELSE text[i - 1]
      <4> SUFFICES ASSUME NEW i \in 1 .. Len(digits) + 1
                   PROVE  longer[(Len(longer) - i) + 1]
                            = IF i = 1 THEN "-" ELSE text[i - 1]
        OBVIOUS
      <4>1. CASE i = 1
        BY <3>1, <4>1
      <4>2. CASE i # 1
        <5>1. /\ (Len(longer) - i) + 1 \in 1 .. Len(digits) /\ i - 1 \in 1 .. Len(digits)
              /\ (Len(longer) - i) + 1 = (Len(digits) - (i - 1)) + 1
          BY <3>1, <4>2
        <5> QED BY <3>1, <3>3, <4>2, <5>1
      <4> QED BY <4>1, <4>2
    <3> QED BY <3>1, <3>2, <3>5, <3>6
  <2> HIDE DEF text
  <2>7. /\ itoa(val) \in Text /\ itoa(val) # <<>> /\ itoa(val)[1] = "-"
        /\ Tail(itoa(val)) = text
    <3>1. text \in Seq(Chars)
      BY <2>2 DEF Decimal, Text
    <3>2. << "-" >> \in Seq(Chars)
      BY <2>5
    <3>3. << "-" >> \o text \in Seq(Chars) /\ Len(<< "-" >> \o text) = Len(text) + 1
          /\ (<< "-" >> \o text)[1] = "-"
          /\ \A i \in 1 .. Len(text) : (<< "-" >> \o text)[i + 1] = text[i]
      BY <3>1, <3>2
    <3>4. << "-" >> \o text # <<>>
      BY <3>1, <3>3
    <3>5. Tail(<< "-" >> \o text) = text
      BY <3>1, <3>3, <3>4
    <3> QED BY <2>6, <3>3, <3>4, <3>5 DEF Text
  <2> QED BY <2>2, <2>7 DEF Shows
<1> QED BY <1>1, <1>2, <1>3

-----------------------------------------------------------------------------
(* What serial_init leaves behind: the FIFO is on, and register 0 is the   *)
(* one of the characters again.                                            *)
Registers == [dlab : BOOLEAN, fifo : BOOLEAN, divisor : Nat, waiting : 0 .. FIFO]

Ready(u) == u \in Registers /\ ~ u.dlab /\ u.fifo

LEMMA InitializedIsReady == Ready(Initialized[Len(serial_init)])
<1> DEFINE boot == [dlab |-> FALSE, fifo |-> FALSE, divisor |-> 1, waiting |-> 0]
           u2 == Written(boot, 3, 128)
           u3 == Written(u2, 0, 3)
           u5 == Written(u3, 3, 3)
           u6 == Written(u5, 2, 199)
           Eq(f) == f = [n \in 0 .. Len(serial_init) |->
                           IF n = 0 THEN boot
                           ELSE Written(f[n - 1], serial_init[n][1], serial_init[n][2])]
           after == [n \in 0 .. 7 |-> CASE n = 0 -> boot [] n = 1 -> boot
                                        [] n = 2 -> u2 [] n = 3 -> u3 [] n = 4 -> u3
                                        [] n = 5 -> u5 [] n = 6 -> u6 [] n = 7 -> u6]
<1>1. /\ Len(serial_init) = 7
      /\ serial_init[1][1] = 1 /\ serial_init[2][1] = 3 /\ serial_init[2][2] = 128
      /\ serial_init[3][1] = 0 /\ serial_init[3][2] = 3 /\ serial_init[4][1] = 1
      /\ serial_init[5][1] = 3 /\ serial_init[5][2] = 3
      /\ serial_init[6][1] = 2 /\ serial_init[6][2] = 199 /\ serial_init[7][1] = 4
  BY DEF serial_init
<1>2. 128 \div 128 = 1 /\ 3 \div 128 = 0 /\ 199 % 2 = 1
  BY Z3
<1>3. \A u, v : Written(u, 1, v) = u /\ Written(u, 4, v) = u
  BY DEF Written
<1>4. Ready(u6)
  <2>0. 0 \in 0 .. FIFO
    BY UartAssumption
  <2>1. u2 \in Registers /\ u2.dlab
    <3>1. u2 = [boot EXCEPT !.dlab = (128 \div 128 = 1)]
      BY DEF Written
    <3>2. boot \in Registers
      BY <2>0 DEF Registers
    <3> HIDE DEF u2, boot
    <3> QED BY <1>2, <3>1, <3>2 DEF Registers
  <2>2. u3 \in Registers
    <3>1. u3 = [u2 EXCEPT !.divisor = 3]
      <4> HIDE DEF u2
      <4> QED BY <2>1 DEF Written
    <3> HIDE DEF u2, u3
    <3> QED BY <2>1, <3>1 DEF Registers
  <2>3. u5 \in Registers /\ ~ u5.dlab
    <3> HIDE DEF u3
    <3>1. u5 = [u3 EXCEPT !.dlab = (3 \div 128 = 1)]
      BY DEF Written
    <3> HIDE DEF u5
    <3>2. \A e \in BOOLEAN : [u3 EXCEPT !.dlab = e] \in Registers
                            /\ [u3 EXCEPT !.dlab = e].dlab = e
      BY <2>2 DEF Registers
    <3>3. ~ (3 \div 128 = 1) /\ (3 \div 128 = 1) \in BOOLEAN
      BY <1>2
    <3> QED BY <3>1, <3>2, <3>3, Zenon
  <2> HIDE DEF u5
  <2>4. u6 = [u5 EXCEPT !.fifo = (199 % 2 = 1)]
    BY DEF Written
  <2> HIDE DEF u6
  <2> QED BY <1>2, <2>3, <2>4 DEF Ready, Registers
<1> HIDE DEF boot
<1>5. /\ after[0] = boot /\ after[1] = boot /\ after[2] = u2 /\ after[3] = u3
      /\ after[4] = u3 /\ after[5] = u5 /\ after[6] = u6 /\ after[7] = u6
  <2> HIDE DEF u2, u3, u5, u6
  <2> QED OBVIOUS
<1>6. after = [n \in 0 .. 7 |-> after[n]]
  <2> HIDE DEF u2, u3, u5, u6
  <2> QED OBVIOUS
<1>7. /\ u2 = Written(boot, 3, 128) /\ u3 = Written(u2, 0, 3)
      /\ u5 = Written(u3, 3, 3) /\ u6 = Written(u5, 2, 199)
  OBVIOUS
<1> HIDE DEF u2, u3, u5, u6, after
<1>8. \A n \in 0 .. 7 :
        after[n] = IF n = 0 THEN boot
                   ELSE Written(after[n - 1], serial_init[n][1], serial_init[n][2])
  <2> SUFFICES ASSUME NEW n \in 0 .. 7
               PROVE  after[n] = IF n = 0 THEN boot
                        ELSE Written(after[n - 1], serial_init[n][1], serial_init[n][2])
    OBVIOUS
  <2>1. n = 0 \/ n = 1 \/ n = 2 \/ n = 3 \/ n = 4 \/ n = 5 \/ n = 6 \/ n = 7
    OBVIOUS
  <2> QED BY <1>1, <1>3, <1>5, <1>7, <2>1
<1>9. Eq(after)
  BY <1>1, <1>6, <1>8
<1> DEFINE got == Initialized
<1>10. Eq(got)
  <2>1. Initialized = CHOOSE f : Eq(f)
    BY Zenon DEF Initialized, boot
  <2> HIDE DEF Eq
  <2> QED BY <1>9, <2>1, Zenon
<1> HIDE DEF got
<1>11. \A n \in 0 .. 7 :
         got[n] = IF n = 0 THEN boot
                  ELSE Written(got[n - 1], serial_init[n][1], serial_init[n][2])
  BY <1>1, <1>10
<1>12. got[1] = boot
  BY <1>1, <1>3, <1>11
<1>13. got[2] = u2
  BY <1>1, <1>7, <1>11, <1>12
<1>14. got[4] = u3
  BY <1>1, <1>3, <1>7, <1>11, <1>13
<1>15. got[5] = u5
  BY <1>1, <1>7, <1>11, <1>14
<1>16. got[7] = u6
  BY <1>1, <1>3, <1>7, <1>11, <1>15
<1> QED BY <1>1, <1>4, <1>16 DEF got

-----------------------------------------------------------------------------
Places(text, args) == (0 .. Len(text)) \X (0 .. Len(args))

(* The places of a character, and of a conversion, at i from those behind. *)
SameAt(text, fmt, args, i, next) ==
  { p \in Places(text, args) : /\ p[1] < Len(text) /\ text[p[1] + 1] = fmt[i + 1]
                               /\ << p[1] + 1, p[2] >> \in next }

ShownAt(text, fmt, args, i, next) ==
  { p \in Places(text, args) :
      /\ p[2] < Len(args)
      /\ \E n \in p[1] .. Len(text) :
           /\ Shows(SubSeq(text, p[1] + 1, n), fmt[i + 2], args[p[2] + 1])
           /\ << n, p[2] + 1 >> \in next }

LEMMA FromIs ==
  ASSUME NEW text \in Text, NEW fmt, NEW args, Call([fmt |-> fmt, args |-> args])
  PROVE  LET F == From(text, fmt, args)
         IN  /\ F[Len(fmt)] = { p \in Places(text, args) : p[1] = Len(text) }
             /\ \A i \in 0 .. Len(fmt) - 1 :
                  IF fmt[i + 1] # "%" THEN F[i] = SameAt(text, fmt, args, i, F[i + 1])
                  ELSE F[i] = ShownAt(text, fmt, args, i, F[i + 2])
<1> DEFINE N == Len(fmt)
           P == Places(text, args)
           Last0 == { p \in P : p[1] = Len(text) }
           ByCharacter(i, next) == SameAt(text, fmt, args, i, next)
           ByConversion(i, next) == ShownAt(text, fmt, args, i, next)
           V == SUBSET P
           G == [k \in 0 .. N |-> [f \in [0 .. k - 1 -> V] |->
                   IF k = 0 THEN Last0
                   ELSE IF fmt[N - k + 1] # "%" THEN ByCharacter(N - k, f[k - 1])
                   ELSE ByConversion(N - k, f[k - 2])]]
           Eq(f) == f = [i \in 0 .. N |->
                           IF i = N THEN Last0
                           ELSE IF fmt[i + 1] # "%" THEN ByCharacter(i, f[i + 1])
                           ELSE ByConversion(i, f[i + 2])]
<1>0. N \in Nat /\ N > 0 /\ fmt[N] # "%"
  BY DEF Call, Last
<1>v. Last0 \in V /\ \A i, next : ByCharacter(i, next) \in V /\ ByConversion(i, next) \in V
  BY DEF SameAt, ShownAt
<1>c. From(text, fmt, args) = CHOOSE f : Eq(f)
  BY Zenon DEF From, Places, SameAt, ShownAt
<1> HIDE DEF Last0, ByCharacter, ByConversion, V
<1>1. ASSUME NEW k \in 0 .. N, NEW f \in [0 .. k - 1 -> V]
      PROVE  G[k][f] = IF k = 0 THEN Last0
                       ELSE IF fmt[N - k + 1] # "%" THEN ByCharacter(N - k, f[k - 1])
                       ELSE ByConversion(N - k, f[k - 2])
  <2> HIDE DEF N
  <2> QED OBVIOUS
<1>2. Rule(G, N, V)
  <2> SUFFICES ASSUME NEW k \in 0 .. N, NEW f \in [0 .. k - 1 -> V]
               PROVE  G[k][f] \in V
    BY Zenon DEF Rule
  <2> HIDE DEF G, N
  <2> QED BY <1>1, <1>v, Zenon
<1> HIDE DEF G
<1>3. PICK g \in [0 .. N -> V] : Follows(g, G, N)
  BY <1>0, <1>2, CourseOfValues
<1>4. ASSUME NEW k \in 0 .. N
      PROVE  g[k] = IF k = 0 THEN Last0
                    ELSE IF fmt[N - k + 1] # "%" THEN ByCharacter(N - k, g[k - 1])
                    ELSE ByConversion(N - k, g[k - 2])
  <2> DEFINE f == [m \in 0 .. k - 1 |-> g[m]]
  <2> HIDE DEF N
  <2>1. f \in [0 .. k - 1 -> V]
    <3>1. \A m \in 0 .. k - 1 : g[m] \in V
      BY <1>0
    <3> QED BY <3>1
  <2>2. /\ k > 0 => f[k - 1] = g[k - 1]
        /\ k > 1 => f[k - 2] = g[k - 2]
    BY <1>0
  <2>3. g[k] = G[k][f]
    BY <1>3 DEF Follows
  <2> HIDE DEF f
  <2>4. G[k][f] = IF k = 0 THEN Last0
                  ELSE IF fmt[N - k + 1] # "%" THEN ByCharacter(N - k, f[k - 1])
                  ELSE ByConversion(N - k, f[k - 2])
    BY <1>1, <2>1
  <2>5. k = 1 => fmt[N - k + 1] # "%"
    BY <1>0
  <2> QED BY <1>0, <2>2, <2>3, <2>4, <2>5
<1> DEFINE made == [i \in 0 .. N |-> g[N - i]]
<1>5. ASSUME NEW i \in 0 .. N
      PROVE  made[i] = IF i = N THEN Last0
                       ELSE IF fmt[i + 1] # "%" THEN ByCharacter(i, made[i + 1])
                       ELSE ByConversion(i, made[i + 2])
  <2> HIDE DEF N
  <2> DEFINE k == N - i
  <2>1. k \in 0 .. N /\ (k = 0 <=> i = N) /\ N - k = i /\ made[i] = g[k]
    BY <1>0
  <2>2. i # N => made[i + 1] = g[k - 1]
    BY <1>0
  <2>3. i # N /\ fmt[i + 1] = "%" => made[i + 2] = g[k - 2]
    BY <1>0
  <2> HIDE DEF made, k
  <2>4. g[k] = IF k = 0 THEN Last0
                    ELSE IF fmt[N - k + 1] # "%" THEN ByCharacter(N - k, g[k - 1])
                    ELSE ByConversion(N - k, g[k - 2])
    BY <1>4, <2>1
  <2> QED BY <2>1, <2>2, <2>3, <2>4
<1>6. Eq(made)
  <2>1. made = [i \in 0 .. N |-> made[i]]
    OBVIOUS
  <2> HIDE DEF made
  <2> QED BY <1>5, <2>1
<1> DEFINE F == From(text, fmt, args)
<1>7. Eq(F)
  <2> HIDE DEF Eq
  <2> QED BY <1>6, <1>c, Zenon
<1> HIDE DEF F
<1>8. \A i \in 0 .. N :
        F[i] = IF i = N THEN Last0
               ELSE IF fmt[i + 1] # "%" THEN ByCharacter(i, F[i + 1])
               ELSE ByConversion(i, F[i + 2])
  <2> HIDE DEF N
  <2> QED BY <1>7, Zenon
<1>9. F[N] = Last0
  BY <1>0, <1>8
<1>10. \A i \in 0 .. N - 1 : IF fmt[i + 1] # "%" THEN F[i] = ByCharacter(i, F[i + 1])
                             ELSE F[i] = ByConversion(i, F[i + 2])
  <2> HIDE DEF N
  <2>1. \A i \in 0 .. N - 1 : i \in 0 .. N /\ i # N
    BY <1>0
  <2> QED BY <1>8, <2>1, Zenon
<1> QED BY <1>9, <1>10, Zenon DEF F, Last0, ByCharacter, ByConversion

-----------------------------------------------------------------------------
(* An argument of its type is converted to a text. *)
LEMMA ConvertedIsText ==
  ASSUME NEW conversion \in Conversions, NEW arg, Typed(arg, conversion)
  PROVE  Converted(conversion, arg) \in Text
<1>1. CASE conversion = "s"
  BY <1>1 DEF Typed, Converted, Text
<1>2. CASE conversion = "d"
  <2>1. arg \in Int /\ Converted(conversion, arg) = itoa(arg)
    BY <1>2 DEF Typed, Converted
  <2> QED BY <2>1, DecimalShows
<1>3. CASE conversion = "x"
  <2>1. arg \in Nat /\ Converted(conversion, arg) = hex(arg)
    BY <1>3 DEF Typed, Converted
  <2> QED BY <2>1, HexShows
<1> QED BY <1>1, <1>2, <1>3 DEF Conversions

(* One that suits its conversion is converted to what it shows. *)
LEMMA ConvertedShows ==
  ASSUME NEW arg, NEW conversion, Suits(arg, conversion)
  PROVE  /\ conversion \in Conversions /\ Converted(conversion, arg) \in Text
         /\ Shows(Converted(conversion, arg), conversion, arg)
<1>1. CASE conversion = "s"
  <2>1. arg \in Text /\ Converted(conversion, arg) = arg
    BY <1>1 DEF Suits, Converted, Text
  <2> QED BY <1>1, <2>1 DEF Shows, Conversions
<1>2. CASE conversion = "d"
  <2>1. arg \in Int /\ Converted(conversion, arg) = itoa(arg)
    BY <1>2 DEF Suits, Converted
  <2>2. itoa(arg) \in Text /\ Shows(itoa(arg), "d", arg)
    BY <2>1, DecimalShows
  <2> QED BY <1>2, <2>1, <2>2 DEF Conversions
<1>3. CASE conversion = "x"
  <2>1. arg \in Nat /\ Left(arg)[1] = 0 /\ Converted(conversion, arg) = hex(arg)
    BY <1>3 DEF Suits, Converted
  <2>2. hex(arg) \in Text /\ Shows(hex(arg), "x", arg)
    BY <2>1, HexShows
  <2> QED BY <1>3, <2>1, <2>2 DEF Conversions
<1> QED BY <1>1, <1>2, <1>3 DEF Suits

(* The call has read i characters of its format and arg arguments. *)
At(c, i, arg) ==
  /\ i \in 0 .. Len(c.fmt)
  /\ \E before \in [0 .. Len(c.fmt) -> -1 .. Len(c.args)] :
       Consumes(before, c.fmt, c.args) /\ before[i] = arg /\ arg >= 0

LEMMA AtStart ==
  ASSUME NEW c, Call(c), Passes(c)
  PROVE  At(c, 0, 0)
<1>1. 0 \in 0 .. Len(c.fmt)
  BY DEF Call
<1>2. PICK before \in [0 .. Len(c.fmt) -> -1 .. Len(c.args)] :
        Consumes(before, c.fmt, c.args)
  BY DEF Passes
<1>3. 0 >= 0 /\ before[0] = 0
  <2>1. before[0] = 0
    BY <1>2, Zenon DEF Consumes
  <2> QED BY <2>1
<1> QED BY <1>1, <1>2, <1>3, Zenon DEF At

(* Where the loop goes on. *)
LEMMA AtNext ==
  ASSUME NEW c, Call(c), NEW i, NEW arg, At(c, i, arg), i < Len(c.fmt)
  PROVE  /\ i \in Nat /\ arg \in Nat
         /\ c.fmt[i + 1] # "%" => << c.fmt[i + 1] >> \in Text /\ At(c, i + 1, arg)
         /\ c.fmt[i + 1] = "%" /\ c.fmt[i + 2] \in Conversions =>
              /\ Converted(c.fmt[i + 2], c.args[arg + 1]) \in Text
              /\ At(c, i + 2, arg + 1)
         /\ c.fmt[i + 1] = "%" /\ c.fmt[i + 2] \notin Conversions => At(c, i + 2, arg)
<1> DEFINE fmt == c.fmt
           args == c.args
<1>0. i \in 0 .. Len(fmt) - 1 /\ Len(fmt) \in Nat /\ Len(args) \in Nat /\ fmt \in Text
  BY DEF At, Call, Text
<1>1. PICK before \in [0 .. Len(fmt) -> -1 .. Len(args)] :
        Consumes(before, fmt, args) /\ before[i] = arg /\ arg >= 0
  BY DEF At
<1>2. before[i] >= 0 /\ arg \in 0 .. Len(args)
  <2> HIDE DEF fmt, args
  <2> QED BY <1>0, <1>1
<1>c. Consumed(before, i, fmt, args)
  <2> HIDE DEF fmt, args
  <2> QED BY <1>0, <1>1, <1>2, Zenon DEF Consumes
<1>3. fmt[i + 1] # "%" => before[i + 1] = arg /\ i + 1 \in 0 .. Len(fmt)
  <2> HIDE DEF fmt, args
  <2> QED BY <1>0, <1>1, <1>c DEF Consumed
<1>4. fmt[i + 1] = "%" =>
        /\ i + 2 \in 0 .. Len(fmt)
        /\ IF fmt[i + 2] \in Conversions
             THEN before[i + 2] = arg + 1 /\ Typed(args[arg + 1], fmt[i + 2])
             ELSE before[i + 2] = arg
  <2>1. fmt[i + 1] = "%" =>
          /\ i + 2 <= Len(fmt)
          /\ IF fmt[i + 2] \in Conversions
               THEN before[i + 2] = before[i] + 1 /\ Typed(args[before[i] + 1], fmt[i + 2])
               ELSE before[i + 2] = before[i]
    BY <1>c, Zenon DEF Consumed
  <2> HIDE DEF fmt, args
  <2> QED BY <1>0, <1>1, <2>1
<1>5. fmt[i + 1] \in Chars
  BY <1>0 DEF Text
<1> HIDE DEF fmt, args
<1>6. i \in Nat /\ arg \in Nat /\ arg + 1 >= 0
  BY <1>0, <1>2
<1>7. fmt[i + 1] # "%" => << fmt[i + 1] >> \in Text /\ At(c, i + 1, arg)
  BY <1>1, <1>3, <1>5 DEF At, Text, fmt, args
<1>8. fmt[i + 1] = "%" /\ fmt[i + 2] \in Conversions =>
        Converted(fmt[i + 2], args[arg + 1]) \in Text /\ At(c, i + 2, arg + 1)
  <2>1. fmt[i + 1] = "%" /\ fmt[i + 2] \in Conversions => At(c, i + 2, arg + 1)
    BY <1>1, <1>4, <1>6, Zenon DEF At, fmt, args
  <2> QED BY <1>4, <2>1, ConvertedIsText
<1>9. fmt[i + 1] = "%" /\ fmt[i + 2] \notin Conversions => At(c, i + 2, arg)
  BY <1>1, <1>4, Zenon DEF At, fmt, args
<1> QED BY <1>6, <1>7, <1>8, <1>9 DEF fmt, args

(* A call that gives each conversion an argument it can print has read i   *)
(* characters of its format and arg arguments, and done is what it made of *)
(* them: if what comes after done is what the rest of the format means,    *)
(* all of it is what the format means.                                     *)
Reached(c, i, arg, done) ==
  /\ i \in 0 .. Len(c.fmt)
  /\ \E before \in [0 .. Len(c.fmt) -> -1 .. Len(c.args)] :
       Asks(before, c.fmt, c.args) /\ before[i] = arg /\ arg >= 0
  /\ \A t \in Text : << Len(done), arg >> \in From(done \o t, c.fmt, c.args)[i]
                       => Says(done \o t, c.fmt, c.args)

LEMMA ReachedAtStart ==
  ASSUME NEW c, Call(c), WellAsked(c)
  PROVE  Reached(c, 0, 0, <<>>)
<1>1. 0 \in 0 .. Len(c.fmt)
  BY DEF Call
<1>2. \E before \in [0 .. Len(c.fmt) -> -1 .. Len(c.args)] :
        Asks(before, c.fmt, c.args) /\ before[0] = 0 /\ 0 >= 0
  BY DEF WellAsked, Asks
<1>3. Len(<<>>) = 0 /\ \A t \in Text : <<>> \o t = t
  BY DEF Text
<1> QED BY <1>1, <1>2, <1>3 DEF Reached, Says

(* Text is put together. *)
Joins(all, a, b, t) ==
  /\ a \o b \in Text /\ b \o t \in Text /\ all \in Text
  /\ (a \o b) \o t = all
  /\ Len(a \o b) = Len(a) + Len(b)
  /\ Len(all) = Len(a) + Len(b) + Len(t)
  /\ Len(a) \in Nat /\ Len(b) \in Nat /\ Len(t) \in Nat
  /\ SubSeq(all, Len(a) + 1, Len(a) + Len(b)) = b
  /\ Len(b) > 0 => all[Len(a) + 1] = b[1]

LEMMA Joined ==
  ASSUME NEW a \in Text, NEW b \in Text, NEW t \in Text
  PROVE  Joins(a \o (b \o t), a, b, t)
<1> USE DEF Text
<1>1. a \o b \in Text /\ b \o t \in Text /\ a \o (b \o t) \in Text
  OBVIOUS
<1>2. (a \o b) \o t = a \o (b \o t)
  BY ConcatAssociative
<1>3. Len(a) \in Nat /\ Len(b) \in Nat /\ Len(t) \in Nat
  OBVIOUS
<1>4. Len(a \o b) = Len(a) + Len(b) /\ Len(b \o t) = Len(b) + Len(t)
      /\ Len(a \o (b \o t)) = Len(a) + Len(b) + Len(t)
  BY <1>1, <1>3
<1>5. \A n \in 1 .. Len(b) : (a \o (b \o t))[Len(a) + n] = b[n]
  BY <1>1, <1>3, <1>4
<1> DEFINE all == a \o (b \o t)
<1>6. SubSeq(all, Len(a) + 1, Len(a) + Len(b)) = b
  <2> DEFINE sub == SubSeq(all, Len(a) + 1, Len(a) + Len(b))
  <2>1. /\ Len(a) + 1 \in Int /\ Len(a) + Len(b) \in Int
        /\ \A i \in Len(a) + 1 .. Len(a) + Len(b) : all[i] \in Chars
    BY <1>1, <1>3, <1>4
  <2> HIDE DEF all
  <2>2. /\ sub \in Seq(Chars)
        /\ Len(sub) = IF Len(a) + 1 <= Len(a) + Len(b)
                        THEN Len(a) + Len(b) - (Len(a) + 1) + 1 ELSE 0
        /\ \A i \in 1 .. Len(a) + Len(b) - (Len(a) + 1) + 1 :
             sub[i] = all[Len(a) + 1 + i - 1]
    BY <2>1, SubSeqProperties
  <2> HIDE DEF sub
  <2>3. Len(sub) = Len(b) /\ \A i \in 1 .. Len(b) : sub[i] = all[Len(a) + i]
    BY <1>3, <2>2
  <2> QED BY <1>5, <2>2, <2>3 DEF sub, all
<1>7. Len(b) > 0 => all[Len(a) + 1] = b[1]
  BY <1>3, <1>5
<1> QED BY <1>1, <1>2, <1>3, <1>4, <1>6, <1>7 DEF Joins

LEMMA ReachedSame ==
  ASSUME NEW c, Call(c), NEW i, NEW arg, NEW done \in Text, Reached(c, i, arg, done),
         i < Len(c.fmt), c.fmt[i + 1] # "%"
  PROVE  /\ << c.fmt[i + 1] >> \in Text
         /\ Reached(c, i + 1, arg, done \o << c.fmt[i + 1] >>)
<1> DEFINE fmt == c.fmt
           args == c.args
           one == << fmt[i + 1] >>
<1>0. i \in 0 .. Len(fmt) - 1 /\ Len(fmt) \in Nat /\ Len(args) \in Nat
      /\ fmt \in Text /\ Call([fmt |-> fmt, args |-> args])
  BY DEF Reached, Call, Text
<1>1. one \in Text /\ Len(one) = 1 /\ one[1] = fmt[i + 1]
  BY <1>0 DEF Text
<1>2. PICK before \in [0 .. Len(fmt) -> -1 .. Len(args)] :
        Asks(before, fmt, args) /\ before[i] = arg /\ arg >= 0
  BY DEF Reached
<1>3. before[i + 1] = arg /\ i + 1 \in 0 .. Len(fmt) /\ arg \in 0 .. Len(args)
  BY <1>0, <1>2 DEF Asks
<1>4. ASSUME NEW t \in Text,
             << Len(done \o one), arg >> \in From((done \o one) \o t, fmt, args)[i + 1]
      PROVE  Says((done \o one) \o t, fmt, args)
  <2> DEFINE all == done \o (one \o t)
             F == From(all, fmt, args)
             Here == << Len(done), arg >>
  <2> HIDE DEF fmt, args, one
  <2>1. /\ one \o t \in Text /\ all \in Text /\ (done \o one) \o t = all
        /\ Len(done \o one) = Len(done) + 1 /\ Len(all) = Len(done) + 1 + Len(t)
        /\ Len(done) \in Nat /\ Len(t) \in Nat /\ all[Len(done) + 1] = fmt[i + 1]
    <3>1. Joins(all, done, one, t)
      BY <1>1, Joined
    <3> HIDE DEF all
    <3> QED BY <1>1, <3>1 DEF Joins
  <2>2. F[i] = SameAt(all, fmt, args, i, F[i + 1])
    <3> HIDE DEF all
    <3>1. fmt[i + 1] # "%"
      BY DEF fmt
    <3> QED BY <1>0, <2>1, <3>1, FromIs
  <2>3. Here \in Places(all, args) /\ Here[1] = Len(done) /\ Here[2] = arg
    BY <1>3, <2>1 DEF Places
  <2>4. << Here[1] + 1, Here[2] >> \in F[i + 1]
    BY <1>4, <2>1, <2>3
  <2>5. Here[1] < Len(all) /\ all[Here[1] + 1] = fmt[i + 1]
    BY <2>1, <2>3
  <2>6. Here \in F[i]
    <3> HIDE DEF Here, F, all
    <3> QED BY <2>2, <2>3, <2>4, <2>5 DEF SameAt
  <2>7. Says(all, fmt, args)
    BY <2>1, <2>6 DEF Reached, fmt, args
  <2> QED BY <2>1, <2>7
<1> HIDE DEF fmt, args, one
<1>5. Reached(c, i + 1, arg, done \o one)
  BY <1>2, <1>3, <1>4 DEF Reached, fmt, args
<1> QED BY <1>1, <1>5 DEF one, fmt

LEMMA ReachedShown ==
  ASSUME NEW c, Call(c), NEW i, NEW arg, NEW done \in Text, Reached(c, i, arg, done),
         i < Len(c.fmt), c.fmt[i + 1] = "%"
  PROVE  LET text == Converted(c.fmt[i + 2], c.args[arg + 1])
         IN  /\ c.fmt[i + 2] \in Conversions /\ text \in Text
             /\ Reached(c, i + 2, arg + 1, done \o text)
<1> DEFINE fmt == c.fmt
           args == c.args
           text == Converted(fmt[i + 2], args[arg + 1])
<1>0. i \in 0 .. Len(fmt) - 1 /\ Len(fmt) \in Nat /\ Len(args) \in Nat
      /\ fmt \in Text /\ Call([fmt |-> fmt, args |-> args])
  BY DEF Reached, Call, Text
<1>2. PICK before \in [0 .. Len(fmt) -> -1 .. Len(args)] :
        Asks(before, fmt, args) /\ before[i] = arg /\ arg >= 0
  BY DEF Reached
<1>3. /\ before[i + 2] = arg + 1 /\ i + 2 \in 0 .. Len(fmt) /\ arg \in 0 .. Len(args) - 1
      /\ Suits(args[arg + 1], fmt[i + 2])
  <2>1. /\ i + 2 <= Len(fmt) /\ before[i] < Len(args)
        /\ before[i + 2] = before[i] + 1
        /\ Suits(args[before[i] + 1], fmt[i + 2])
    <3>1. before[i] >= 0
      BY <1>2
    <3> QED BY <1>0, <1>2, <3>1, Zenon DEF Asks
  <2> HIDE DEF fmt, args
  <2> QED BY <1>0, <1>2, <2>1
<1>1. /\ fmt[i + 2] \in Conversions /\ text \in Text
      /\ Shows(text, fmt[i + 2], args[arg + 1])
  BY <1>3, ConvertedShows
<1>4. ASSUME NEW t \in Text,
             << Len(done \o text), arg + 1 >>
               \in From((done \o text) \o t, fmt, args)[i + 2]
      PROVE  Says((done \o text) \o t, fmt, args)
  <2> DEFINE all == done \o (text \o t)
             F == From(all, fmt, args)
             Here == << Len(done), arg >>
  <2> HIDE DEF fmt, args, text
  <2>1. /\ text \o t \in Text /\ all \in Text /\ (done \o text) \o t = all
        /\ Len(done \o text) = Len(done) + Len(text)
        /\ Len(all) = Len(done) + Len(text) + Len(t)
        /\ Len(done) \in Nat /\ Len(text) \in Nat /\ Len(t) \in Nat
        /\ SubSeq(all, Len(done) + 1, Len(done) + Len(text)) = text
    <3>1. Joins(all, done, text, t)
      BY <1>1, Joined
    <3> HIDE DEF all
    <3> QED BY <3>1 DEF Joins
  <2>2. F[i] = ShownAt(all, fmt, args, i, F[i + 2])
    <3> HIDE DEF all
    <3>1. fmt[i + 1] = "%"
      BY DEF fmt
    <3> QED BY <1>0, <2>1, <3>1, FromIs
  <2>3. Here \in Places(all, args) /\ Here[1] = Len(done) /\ Here[2] = arg
        /\ Here[2] < Len(args)
    BY <1>0, <1>3, <2>1 DEF Places
  <2>4. \E n \in Here[1] .. Len(all) :
          /\ Shows(SubSeq(all, Here[1] + 1, n), fmt[i + 2], args[Here[2] + 1])
          /\ << n, Here[2] + 1 >> \in F[i + 2]
    <3> DEFINE n == Len(done) + Len(text)
    <3>1. n \in Len(done) .. Len(all)
      BY <2>1
    <3>2. Shows(SubSeq(all, Len(done) + 1, n), fmt[i + 2], args[arg + 1])
      BY <1>1, <2>1
    <3>3. << n, arg + 1 >> \in F[i + 2]
      BY <1>4, <2>1
    <3> HIDE DEF n, F, all, Here
    <3> QED BY <2>3, <3>1, <3>2, <3>3
  <2>5. Here \in F[i]
    <3> HIDE DEF Here, F, all
    <3> QED BY <2>2, <2>3, <2>4 DEF ShownAt
  <2>6. Says(all, fmt, args)
    BY <2>1, <2>5 DEF Reached, fmt, args
  <2> QED BY <2>1, <2>6
<1> HIDE DEF fmt, args, text
<1>5. Reached(c, i + 2, arg + 1, done \o text)
  <2>1. before[i + 2] = arg + 1 /\ arg + 1 >= 0
    BY <1>2, <1>3
  <2> QED BY <1>2, <1>3, <1>4, <2>1, Zenon DEF Reached, fmt, args
<1> QED BY <1>1, <1>5 DEF text, fmt, args

LEMMA ReachedAtEnd ==
  ASSUME NEW c, Call(c), NEW arg, NEW done \in Text,
         Reached(c, Len(c.fmt), arg, done)
  PROVE  Says(done, c.fmt, c.args)
<1> DEFINE fmt == c.fmt
           args == c.args
           F == From(done, fmt, args)
<1>0. Len(fmt) \in Nat /\ Len(args) \in Nat /\ Call([fmt |-> fmt, args |-> args])
  BY DEF Call
<1>1. done \o <<>> = done /\ <<>> \in Text /\ Len(done) \in Nat
  BY DEF Text
<1>2. arg \in 0 .. Len(args)
  BY <1>0 DEF Reached
<1>3. F[Len(fmt)] = { p \in Places(done, args) : p[1] = Len(done) }
  <2> HIDE DEF fmt, args
  <2> QED BY <1>0, FromIs
<1>4. << Len(done), arg >> \in F[Len(fmt)]
  BY <1>1, <1>2, <1>3 DEF Places
<1> QED BY <1>1, <1>4 DEF Reached

-----------------------------------------------------------------------------
(* What is printed: a message, or the report of a button. *)
Calls == { Messages[n] : n \in DOMAIN Messages }
           \cup { Report(button, held) : button \in Buttons, held \in BOOLEAN }

LEMMA ReportsPass ==
  ASSUME NEW button \in Buttons, NEW held \in BOOLEAN
  PROVE  Call(Report(button, held)) /\ Passes(Report(button, held))
<1> DEFINE fmt == << button, IF held THEN "d" ELSE "u" >>
           before == [i \in 0 .. 2 |-> 0]
<1>1. Report(button, held) = [fmt |-> fmt, args |-> <<>>]
  BY DEF Report
<1>2. /\ button \in Chars /\ button # "%" /\ fmt[2] \in Chars /\ fmt[2] # "%"
      /\ fmt[1] = button /\ Len(fmt) = 2
  BY CharsAssumption DEF Buttons
<1> HIDE DEF fmt
<1>3. fmt \in Seq(Chars) /\ fmt # <<>> /\ Last(fmt) # "%"
  <2>1. fmt \in Seq(Chars)
    BY <1>2 DEF fmt
  <2> QED BY <1>2, <2>1 DEF Last
<1>4. Call([fmt |-> fmt, args |-> <<>>])
  BY <1>3 DEF Call
<1>5. before \in [0 .. Len(fmt) -> -1 .. Len(<<>>)] /\ Consumes(before, fmt, <<>>)
  <2>1. before \in [0 .. Len(fmt) -> -1 .. Len(<<>>)]
    BY <1>2
  <2>2. \A i \in 0 .. Len(fmt) - 1 : fmt[i + 1] # "%" /\ before[i + 1] = before[i]
    BY <1>2
  <2>3. before[0] = 0 /\ before[Len(fmt)] >= 0
    BY <1>2
  <2> HIDE DEF before
  <2> QED BY <2>1, <2>2, <2>3, Zenon DEF Consumes, Consumed
<1>6. Passes([fmt |-> fmt, args |-> <<>>])
  <2> HIDE DEF before
  <2> QED BY <1>5 DEF Passes
<1> QED BY <1>1, <1>4, <1>6

LEMMA CallsPass ==
  \A c \in Calls : Call(c) /\ Passes(c)
<1> SUFFICES ASSUME NEW c \in Calls PROVE Call(c) /\ Passes(c)
  OBVIOUS
<1>1. CASE c \in { Messages[n] : n \in DOMAIN Messages }
  BY <1>1, MessagesAssumption
<1>2. CASE c \in { Report(button, held) : button \in Buttons, held \in BOOLEAN }
  BY <1>2, ReportsPass
<1> QED BY <1>1, <1>2 DEF Calls

-----------------------------------------------------------------------------
ConsoleTypes ==
  /\ calls \in [Contexts -> Seq(Calls)]
  /\ \A w \in Contexts : Len(calls[w]) <= 3
  /\ read \in [Contexts -> [i : Nat, arg : Nat]]
  /\ buf \in [Contexts -> Text] /\ taken \in [Contexts -> Text]
  /\ tested \in [Contexts -> BOOLEAN]
  /\ down \subseteq Buttons /\ packets \in 0 .. MaxPackets

(* The port has room for a character of a context that saw it empty: the   *)
(* handler is not interrupted, and it leaves one character behind at most, *)
(* since it waits for the one before to go.                                *)
Port ==
  /\ Ready(uart)
  /\ \A w \in Contexts : /\ tested[w] => buf[w] # <<>>
                         /\ buf[w] # <<>> => Printing(w)
  /\ tested["irq"] => uart.waiting = 0
  /\ tested["main"] => uart.waiting <= 1

(* No character of a call is lost, and its reading is where the arguments  *)
(* of its conversions are.                                                 *)
Follow(c, r, text) ==
  At(c, r.i, r.arg) /\ (WellAsked(c) => Reached(c, r.i, r.arg, text))

InHand ==
  \A w \in Contexts :
    Printing(w) => Follow(calls[w][1], read[w], taken[w] \o buf[w])

ConsoleInv == ConsoleTypes /\ Port /\ InHand

LEMMA PortTakes ==
  ASSUME NEW u, Ready(u), u.waiting < FIFO, NEW c
  PROVE  LET v == Written(u, 0, c)
         IN  Ready(v) /\ v.waiting = u.waiting + 1
<1>1. /\ u \in Registers /\ u.fifo /\ ~ u.dlab /\ u.waiting \in Nat
      /\ u.waiting + 1 \in 0 .. FIFO
  BY UartAssumption DEF Ready, Registers
<1>2. Written(u, 0, c) = [u EXCEPT !.waiting = u.waiting + 1]
  BY <1>1 DEF Written
<1> QED BY <1>1, <1>2 DEF Ready, Registers

LEMMA ConsoleInitInv ==
  ASSUME ConsoleInit PROVE ConsoleInv
<1>1. <<>> \in Text /\ <<>> \in Seq(Calls) /\ Len(<<>>) <= 3 /\ 0 \in 0 .. MaxPackets
  BY UartAssumption DEF Text
<1>2. Ready(uart)
  BY InitializedIsReady DEF ConsoleInit
<1>3. /\ \A w \in Contexts : /\ calls[w] = <<>> /\ buf[w] = <<>> /\ taken[w] = <<>>
                             /\ tested[w] = FALSE
      /\ "irq" \in Contexts /\ "main" \in Contexts
  BY DEF ConsoleInit, Contexts
<1>4. ConsoleTypes
  BY <1>1, <1>3 DEF ConsoleInit, ConsoleTypes
<1> QED BY <1>2, <1>3, <1>4 DEF ConsoleInv, Port, InHand, Printing

(* The calls of a context begin, or go on with the next one. *)
LEMMA StartsInHand ==
  ASSUME ConsoleInv, NEW w \in Contexts, NEW list \in Seq(Calls),
         Len(list) <= 3, Starts(w, list), buf[w] = <<>>, buf' = buf,
         tested' = tested, down' \subseteq Buttons, packets' \in 0 .. MaxPackets
  PROVE  ConsoleTypes' /\ InHand'
         /\ (\A v \in Contexts : v # w => Printing(v)' = Printing(v))
<1> USE DEF Starts
<1>1. /\ calls' = [calls EXCEPT ![w] = list] /\ taken' = [taken EXCEPT ![w] = <<>>]
      /\ read' = [read EXCEPT ![w] = [i |-> 0, arg |-> 0]]
  OBVIOUS
<1>2. <<>> \in Text /\ <<>> \o <<>> = <<>>
  BY DEF Text
<1>3. ConsoleTypes'
  BY <1>1, <1>2 DEF ConsoleInv, ConsoleTypes
<1>4. ASSUME NEW v \in Contexts, v # w
      PROVE  calls'[v] = calls[v] /\ read'[v] = read[v] /\ taken'[v] = taken[v]
             /\ buf'[v] = buf[v]
  BY <1>1, <1>4 DEF ConsoleInv, ConsoleTypes
<1>5. /\ calls'[w] = list /\ taken'[w] = <<>> /\ buf'[w] = <<>>
      /\ read'[w].i = 0 /\ read'[w].arg = 0
  BY <1>1 DEF ConsoleInv, ConsoleTypes
<1>6. ASSUME list # <<>> PROVE Follow(list[1], read'[w], <<>> \o <<>>)
  <2>1. list[1] \in Calls
    BY <1>6
  <2>2. At(list[1], 0, 0)
    BY <2>1, CallsPass, AtStart
  <2>3. WellAsked(list[1]) => Reached(list[1], 0, 0, <<>>)
    BY <2>1, CallsPass, ReachedAtStart
  <2> QED BY <1>2, <1>5, <2>2, <2>3 DEF Follow
<1>7. InHand'
  <2> SUFFICES ASSUME NEW v \in Contexts, calls'[v] # <<>>
               PROVE  Follow(calls'[v][1], read'[v], taken'[v] \o buf'[v])
    BY DEF InHand, Printing
  <2>1. CASE v = w
    BY <1>5, <1>6, <2>1
  <2>2. CASE v # w
    BY <1>4, <2>2 DEF ConsoleInv, InHand, Printing
  <2> QED BY <2>1, <2>2
<1>8. \A v \in Contexts : v # w => Printing(v)' = Printing(v)
  BY <1>4 DEF Printing
<1> QED BY <1>3, <1>7, <1>8

LEMMA SendsStep ==
  ASSUME ConsoleInv, uart_sends PROVE ConsoleInv'
<1> USE DEF ConsoleInv, uart_sends
<1>1. Ready(uart)' /\ uart'.waiting = uart.waiting - 1 /\ uart.waiting \in Nat
      /\ uart.waiting > 0
  <2>1. /\ uart \in Registers /\ uart.fifo /\ ~ uart.dlab
        /\ uart.waiting \in Nat /\ uart.waiting > 0 /\ uart.waiting - 1 \in 0 .. FIFO
    BY UartAssumption DEF Port, Ready, Registers
  <2>2. uart' = [uart EXCEPT !.waiting = uart.waiting - 1]
    OBVIOUS
  <2> QED BY <2>1, <2>2 DEF Ready, Registers
<1>2. Port'
  BY <1>1 DEF Port, Printing
<1>3. ConsoleTypes'
  BY DEF ConsoleTypes
<1>4. InHand'
  BY DEF InHand, Printing
<1> QED BY <1>2, <1>3, <1>4

LEMMA WaitStep ==
  ASSUME ConsoleInv, NEW w \in Contexts, serial_write_char_wait(w) PROVE ConsoleInv'
<1> USE DEF ConsoleInv, serial_write_char_wait
<1> DEFINE empty == serial_is_transmit_empty
<1>1. empty = (uart.waiting = 0)
  BY DEF serial_is_transmit_empty, LineStatus
<1>2. empty \in BOOLEAN
  BY <1>1
<1>3. tested' = [tested EXCEPT ![w] = empty]
  OBVIOUS
<1> HIDE DEF empty
<1>4. /\ tested'[w] = empty /\ tested' \in [Contexts -> BOOLEAN]
      /\ \A v \in Contexts : v # w => tested'[v] = tested[v]
  BY <1>2, <1>3 DEF ConsoleTypes
<1>5. ConsoleTypes'
  BY <1>4 DEF ConsoleTypes
<1>6. InHand'
  BY DEF InHand, Printing
<1>7. Port'
  <2>1. Ready(uart)'
    BY DEF Port
  <2>2. \A v \in Contexts : /\ tested'[v] => buf'[v] # <<>>
                            /\ buf'[v] # <<>> => Printing(v)'
    BY <1>4 DEF Port, Printing
  <2>3. /\ tested'["irq"] => uart'.waiting = 0
        /\ tested'["main"] => uart'.waiting <= 1
    <3>0. empty => uart.waiting = 0
      BY <1>1, Zenon
    <3>1. empty => uart.waiting = 0 /\ uart.waiting <= 1
      BY <3>0
    <3>2. "irq" \in Contexts /\ "main" \in Contexts
      BY DEF Contexts
    <3> QED BY <1>4, <3>1, <3>2, Zenon DEF Port
  <2> QED BY <2>1, <2>2, <2>3 DEF Port
<1> QED BY <1>5, <1>6, <1>7

LEMMA WriteStep ==
  ASSUME ConsoleInv, NEW w \in Contexts, serial_write_char(w) PROVE ConsoleInv'
<1> USE DEF ConsoleInv
<1> DEFINE c == Head(buf[w])
<1>1. /\ Runs(w) /\ tested[w] /\ uart' = Written(uart, 0, c)
      /\ taken' = IF uart'.waiting > uart.waiting
                    THEN [taken EXCEPT ![w] = Append(@, c)] ELSE taken
      /\ buf' = [buf EXCEPT ![w] = Tail(@)] /\ tested' = [tested EXCEPT ![w] = FALSE]
      /\ UNCHANGED <<calls, read, down, packets>>
  BY DEF serial_write_char
<1>2. w = "irq" \/ w = "main"
  BY DEF Contexts
<1>3. /\ buf[w] \in Text /\ buf[w] # <<>> /\ taken[w] \in Text
      /\ "irq" \in Contexts /\ "main" \in Contexts
  BY <1>1 DEF Port, ConsoleTypes, Contexts
<1>4. c \in Chars /\ Tail(buf[w]) \in Text /\ Append(taken[w], c) \in Text
      /\ Append(taken[w], c) \o Tail(buf[w]) = taken[w] \o buf[w]
  <2>1. c \in Chars /\ Tail(buf[w]) \in Seq(Chars) /\ << c >> \o Tail(buf[w]) = buf[w]
    BY <1>3 DEF Text
  <2> HIDE DEF c
  <2>2. Append(taken[w], c) \in Seq(Chars) /\ Append(taken[w], c) = taken[w] \o << c >>
        /\ << c >> \in Seq(Chars)
    BY <1>3, <2>1 DEF Text
  <2>3. (taken[w] \o << c >>) \o Tail(buf[w]) = taken[w] \o (<< c >> \o Tail(buf[w]))
    <3>1. Joins(taken[w] \o (<< c >> \o Tail(buf[w])), taken[w], << c >>, Tail(buf[w]))
      BY <1>3, <2>1, <2>2, Joined DEF Text
    <3> QED BY <3>1 DEF Joins
  <2> QED BY <2>1, <2>2, <2>3 DEF Text
<1> HIDE DEF c
<1>5. uart.waiting \in Nat /\ uart.waiting <= 1 /\ uart.waiting < FIFO
      /\ (w = "irq" => uart.waiting = 0)
  BY <1>1, <1>2, UartAssumption DEF Port, Ready, Registers
<1>6. Ready(uart)' /\ uart'.waiting = uart.waiting + 1
  BY <1>1, <1>5, PortTakes DEF Port
<1>7. taken' = [taken EXCEPT ![w] = Append(@, c)]
  BY <1>1, <1>5, <1>6
<1>8. /\ buf'[w] = Tail(buf[w]) /\ taken'[w] = Append(taken[w], c) /\ tested'[w] = FALSE
      /\ \A v \in Contexts : v # w =>
           /\ buf'[v] = buf[v] /\ taken'[v] = taken[v] /\ tested'[v] = tested[v]
      /\ buf' \in [Contexts -> Text] /\ taken' \in [Contexts -> Text]
      /\ tested' \in [Contexts -> BOOLEAN]
  BY <1>1, <1>4, <1>7 DEF ConsoleTypes
<1>9. ConsoleTypes'
  BY <1>1, <1>8 DEF ConsoleTypes
<1>10. InHand'
  BY <1>1, <1>4, <1>8 DEF InHand, Printing
<1>11. Port'
  <2>1. \A v \in Contexts : /\ tested'[v] => buf'[v] # <<>>
                            /\ buf'[v] # <<>> => Printing(v)'
    BY <1>1, <1>8 DEF Port, Printing, Runs
  <2>2. CASE w = "irq"
    <3>1. ~ tested'["irq"] /\ uart'.waiting <= 1
      BY <1>5, <1>6, <1>8, <2>2
    <3> QED BY <1>6, <2>1, <3>1 DEF Port
  <2>3. CASE w = "main"
    <3>1. ~ tested["irq"]
      BY <1>1, <1>3, <2>3 DEF Port, Runs
    <3>2. ~ tested'["main"] /\ ~ tested'["irq"]
      BY <1>3, <1>8, <2>3, <3>1
    <3> QED BY <1>6, <2>1, <3>2 DEF Port
  <2> QED BY <1>2, <2>2, <2>3
<1> QED BY <1>9, <1>10, <1>11

LEMMA ConvertStep ==
  ASSUME ConsoleInv, NEW w \in Contexts, kprintf_convert(w)
  PROVE  ConsoleInv'
<1> USE DEF ConsoleInv
<1> DEFINE c == calls[w][1]
           i == read[w].i
           arg == read[w].arg
           text == Converted(c.fmt[i + 2], c.args[arg + 1])
<1>1. /\ Runs(w) /\ buf[w] = <<>> /\ i + 1 <= Len(c.fmt)
      /\ UNCHANGED <<uart, calls, tested, down, taken, packets>>
      /\ i \in Nat /\ arg \in Nat /\ read[w] = [i |-> i, arg |-> arg]
  BY DEF kprintf_convert, ConsoleTypes
<1>2. \/ /\ c.fmt[i + 1] # "%"
         /\ buf' = [buf EXCEPT ![w] = << c.fmt[i + 1] >>]
         /\ read' = [read EXCEPT ![w].i = i + 1]
      \/ /\ c.fmt[i + 1] = "%" /\ c.fmt[i + 2] \in Conversions
         /\ buf' = [buf EXCEPT ![w] = text]
         /\ read' = [read EXCEPT ![w] = [i |-> i + 2, arg |-> arg + 1]]
      \/ /\ c.fmt[i + 1] = "%" /\ c.fmt[i + 2] \notin Conversions
         /\ read' = [read EXCEPT ![w].i = i + 2] /\ buf' = buf
  <2>1. (i + 1) + 1 = i + 2
    BY <1>1
  <2> QED BY <2>1 DEF kprintf_convert
<1>3. Printing(w) /\ c \in Calls /\ Call(c) /\ taken[w] \in Text
  <2>1. Printing(w)
    BY <1>1 DEF Runs
  <2>2. c \in Calls
    BY <2>1 DEF ConsoleTypes, Printing
  <2> HIDE DEF c
  <2> QED BY <2>1, <2>2, CallsPass DEF ConsoleTypes
<1>4. At(c, i, arg) /\ (WellAsked(c) => Reached(c, i, arg, taken[w]))
  <2>1. taken[w] \o <<>> = taken[w]
    BY <1>3 DEF Text
  <2>2. Follow(c, read[w], taken[w] \o buf[w])
    BY <1>3 DEF InHand
  <2> QED BY <1>1, <2>1, <2>2 DEF Follow
<1>5. i < Len(c.fmt)
  BY <1>1, <1>3 DEF Call
<1> HIDE DEF c, i, arg
<1>6. ASSUME NEW more \in Text, NEW r \in [i : Nat, arg : Nat],
             buf' = [buf EXCEPT ![w] = more], read' = [read EXCEPT ![w] = r],
             Follow(c, r, taken[w] \o more)
      PROVE  ConsoleInv'
  <2>1. /\ buf'[w] = more /\ read'[w] = r /\ buf' \in [Contexts -> Text]
        /\ read' \in [Contexts -> [i : Nat, arg : Nat]]
        /\ \A v \in Contexts : v # w => buf'[v] = buf[v] /\ read'[v] = read[v]
    BY <1>6 DEF ConsoleTypes
  <2>2. ConsoleTypes'
    BY <1>1, <2>1 DEF ConsoleTypes
  <2>3. InHand'
    BY <1>1, <1>6, <2>1 DEF InHand, Printing, c
  <2>4. Port'
    BY <1>1, <1>3, <2>1 DEF Port, Printing
  <2> QED BY <2>2, <2>3, <2>4
<1>7. CASE c.fmt[i + 1] # "%" /\ buf' = [buf EXCEPT ![w] = << c.fmt[i + 1] >>]
           /\ read' = [read EXCEPT ![w].i = i + 1]
  <2> DEFINE r == [i |-> i + 1, arg |-> arg]
  <2>1. << c.fmt[i + 1] >> \in Text /\ At(c, i + 1, arg)
    BY <1>3, <1>4, <1>5, <1>7, AtNext
  <2>2. WellAsked(c) => Reached(c, i + 1, arg, taken[w] \o << c.fmt[i + 1] >>)
    BY <1>3, <1>4, <1>5, <1>7, ReachedSame
  <2>3. read' = [read EXCEPT ![w] = r]
    <3>1. [read[w] EXCEPT !.i = i + 1] = r
      BY <1>1
    <3>2. read' = [read EXCEPT ![w] = [read[w] EXCEPT !.i = i + 1]]
      BY <1>7
    <3> HIDE DEF r
    <3> QED BY <3>1, <3>2
  <2>4. r \in [i : Nat, arg : Nat] /\ r.i = i + 1 /\ r.arg = arg
    BY <1>1
  <2> HIDE DEF r
  <2>5. Follow(c, r, taken[w] \o << c.fmt[i + 1] >>)
    BY <2>1, <2>2, <2>4 DEF Follow
  <2> QED BY <1>6, <1>7, <2>1, <2>3, <2>4, <2>5
<1>8. CASE /\ c.fmt[i + 1] = "%" /\ c.fmt[i + 2] \in Conversions
           /\ buf' = [buf EXCEPT ![w] = text]
           /\ read' = [read EXCEPT ![w] = [i |-> i + 2, arg |-> arg + 1]]
  <2> DEFINE r == [i |-> i + 2, arg |-> arg + 1]
  <2>1. text \in Text /\ At(c, i + 2, arg + 1)
    BY <1>3, <1>4, <1>5, <1>8, AtNext
  <2>2. WellAsked(c) => Reached(c, i + 2, arg + 1, taken[w] \o text)
    BY <1>3, <1>4, <1>5, <1>8, ReachedShown
  <2> HIDE DEF text
  <2>3. buf' = [buf EXCEPT ![w] = text] /\ read' = [read EXCEPT ![w] = r]
    BY <1>8
  <2>4. r \in [i : Nat, arg : Nat] /\ r.i = i + 2 /\ r.arg = arg + 1
    BY <1>1
  <2> HIDE DEF r
  <2>5. Follow(c, r, taken[w] \o text)
    BY <2>1, <2>2, <2>4 DEF Follow
  <2> QED BY <1>6, <2>1, <2>3, <2>4, <2>5
<1>9. CASE /\ c.fmt[i + 1] = "%" /\ c.fmt[i + 2] \notin Conversions
           /\ read' = [read EXCEPT ![w].i = i + 2] /\ buf' = buf
  <2> DEFINE r == [i |-> i + 2, arg |-> arg]
  <2>1. At(c, i + 2, arg)
    BY <1>3, <1>4, <1>5, <1>9, AtNext
  <2>2. ~ WellAsked(c)
    BY <1>3, <1>4, <1>5, <1>9, ReachedShown
  <2>3. read' = [read EXCEPT ![w] = r]
    <3>1. [read[w] EXCEPT !.i = i + 2] = r
      BY <1>1
    <3>2. read' = [read EXCEPT ![w] = [read[w] EXCEPT !.i = i + 2]]
      BY <1>9
    <3> HIDE DEF r
    <3> QED BY <3>1, <3>2
  <2>4. r \in [i : Nat, arg : Nat] /\ r.i = i + 2 /\ r.arg = arg
    BY <1>1
  <2> HIDE DEF r
  <2>5. Follow(c, r, taken[w] \o <<>>)
    BY <2>1, <2>2, <2>4 DEF Follow
  <2>6. <<>> \in Text /\ buf' = [buf EXCEPT ![w] = <<>>]
    BY <1>1, <1>9 DEF ConsoleTypes, Text
  <2> QED BY <1>6, <2>3, <2>4, <2>5, <2>6
<1> QED BY <1>2, <1>7, <1>8, <1>9

(* The port is as it was, and who has characters to write still prints. *)
LEMMA PortStays ==
  ASSUME Port, NEW w \in Contexts, buf[w] = <<>>, UNCHANGED <<uart, buf, tested>>,
         \A v \in Contexts : v # w => Printing(v)' = Printing(v)
  PROVE  Port'
BY DEF Port

LEMMA ReturnsStep ==
  ASSUME ConsoleInv, NEW w \in Contexts, kprintf_returns(w)
  PROVE  ConsoleInv'
<1> DEFINE list == Tail(calls[w])
<1>1. /\ Printing(w) /\ buf[w] = <<>> /\ Starts(w, list)
      /\ UNCHANGED <<uart, buf, tested, down, packets>>
  BY DEF kprintf_returns, Runs
<1>2. list \in Seq(Calls) /\ Len(list) <= 3
  <2>1. calls[w] \in Seq(Calls) /\ calls[w] # <<>> /\ Len(calls[w]) <= 3
    BY <1>1 DEF ConsoleInv, ConsoleTypes, Printing
  <2> QED BY <2>1
<1> HIDE DEF list
<1>3. /\ ConsoleTypes' /\ InHand'
      /\ \A v \in Contexts : v # w => Printing(v)' = Printing(v)
  <2>1. down' \subseteq Buttons /\ packets' \in 0 .. MaxPackets
    BY <1>1 DEF ConsoleInv, ConsoleTypes
  <2> QED BY <1>1, <1>2, <2>1, StartsInHand
<1>4. Port'
  BY <1>1, <1>3, PortStays DEF ConsoleInv
<1> QED BY <1>3, <1>4 DEF ConsoleInv

LEMMA KprintfStep ==
  ASSUME ConsoleInv, kprintf PROVE ConsoleInv'
<1>1. PICK n \in DOMAIN Messages : Starts("main", << Messages[n] >>)
  BY DEF kprintf
<1> DEFINE list == << Messages[n] >>
<1>2. "main" \in Contexts /\ list \in Seq(Calls) /\ Len(list) <= 3
  BY DEF Contexts, Calls
<1> HIDE DEF list
<1>3. Starts("main", list)
  BY <1>1 DEF list
<1>4. buf["main"] = <<>>
  BY <1>2 DEF kprintf, ConsoleInv, Port
<1>5. /\ ConsoleTypes' /\ InHand'
      /\ \A v \in Contexts : v # "main" => Printing(v)' = Printing(v)
  <2>1. down' \subseteq Buttons /\ packets' \in 0 .. MaxPackets
    BY UartAssumption DEF kprintf, ConsoleInv, ConsoleTypes
  <2>2. buf' = buf /\ tested' = tested
    BY DEF kprintf
  <2> QED BY <1>2, <1>3, <1>4, <2>1, <2>2, StartsInHand
<1>6. Port'
  BY <1>2, <1>4, <1>5, PortStays DEF ConsoleInv, kprintf
<1> QED BY <1>5, <1>6 DEF ConsoleInv

LEMMA PacketStep ==
  ASSUME ConsoleInv, mouse_process_byte PROVE ConsoleInv'
<1>1. PICK held \in SUBSET Buttons :
        /\ down' = held
        /\ LET Reports(b) == IF (b \in held) # (b \in down)
                               THEN << Report(b, b \in held) >> ELSE <<>>
           IN  Starts("irq", Reports("L") \o Reports("R") \o Reports("M"))
  BY DEF mouse_process_byte
<1> DEFINE Reports(b) == IF (b \in held) # (b \in down)
                           THEN << Report(b, b \in held) >> ELSE <<>>
           list == Reports("L") \o Reports("R") \o Reports("M")
<1>2. \A b \in Buttons : Reports(b) \in Seq(Calls) /\ Len(Reports(b)) <= 1
  <2> SUFFICES ASSUME NEW b \in Buttons
               PROVE  Reports(b) \in Seq(Calls) /\ Len(Reports(b)) <= 1
    OBVIOUS
  <2>1. Report(b, b \in held) \in Calls
    <3>1. \A h \in BOOLEAN : Report(b, h) \in Calls
      BY DEF Calls
    <3>2. (b \in held) \in BOOLEAN
      OBVIOUS
    <3> QED BY <3>1, <3>2, Zenon
  <2>2. << Report(b, b \in held) >> \in Seq(Calls) /\ Len(<< Report(b, b \in held) >>) = 1
    BY <2>1
  <2>3. <<>> \in Seq(Calls) /\ Len(<<>>) = 0
    OBVIOUS
  <2> QED BY <2>2, <2>3
<1>3. Starts("irq", list)
  BY <1>1, Zenon
<1> HIDE DEF Reports
<1>4. list \in Seq(Calls) /\ Len(list) <= 3 /\ "irq" \in Contexts
  <2>1. /\ Reports("L") \in Seq(Calls) /\ Len(Reports("L")) <= 1
        /\ Reports("R") \in Seq(Calls) /\ Len(Reports("R")) <= 1
        /\ Reports("M") \in Seq(Calls) /\ Len(Reports("M")) <= 1
    BY <1>2 DEF Buttons
  <2> QED BY <2>1 DEF Contexts
<1> HIDE DEF list
<1>5. buf["irq"] = <<>>
  BY <1>4 DEF mouse_process_byte, ConsoleInv, Port
<1>6. /\ ConsoleTypes' /\ InHand'
      /\ \A v \in Contexts : v # "irq" => Printing(v)' = Printing(v)
  <2>1. down' \subseteq Buttons /\ packets' \in 0 .. MaxPackets
    BY <1>1, UartAssumption DEF mouse_process_byte, ConsoleInv, ConsoleTypes
  <2>2. buf' = buf /\ tested' = tested
    BY DEF mouse_process_byte
  <2> QED BY <1>3, <1>4, <1>5, <2>1, <2>2, StartsInHand
<1>7. Port'
  BY <1>4, <1>5, <1>6, PortStays DEF ConsoleInv, mouse_process_byte
<1> QED BY <1>6, <1>7 DEF ConsoleInv

LEMMA ConsoleStepInv ==
  ASSUME ConsoleInv, [ConsoleNext]_consoleVars PROVE ConsoleInv'
<1>1. CASE uart_sends
  BY <1>1, SendsStep
<1>2. CASE kprintf
  BY <1>2, KprintfStep
<1>3. CASE mouse_process_byte
  BY <1>3, PacketStep
<1>4. ASSUME NEW w \in Contexts, Step(w) PROVE ConsoleInv'
  BY <1>4, WaitStep, WriteStep, ConvertStep, ReturnsStep DEF Step
<1>5. CASE UNCHANGED consoleVars
  BY <1>5 DEF consoleVars, ConsoleInv, ConsoleTypes, Port, InHand, Printing
<1> QED BY <1>1, <1>2, <1>3, <1>4, <1>5 DEF ConsoleNext

LEMMA ConsoleInvariant ==
  ConsoleSpec => []ConsoleInv
<1>1. ConsoleInit => ConsoleInv
  BY ConsoleInitInv
<1>2. ConsoleInv /\ [ConsoleNext]_consoleVars => ConsoleInv'
  BY ConsoleStepInv
<1> QED BY <1>1, <1>2, PTL DEF ConsoleSpec

(* The variables keep their types: the port never holds more than it can,  *)
(* and who saw it empty has a character to write.                          *)
THEOREM ConsoleTypeSafe ==
  ConsoleSpec => []ConsoleTypeOK
<1>1. ConsoleInv => ConsoleTypeOK
  BY DEF ConsoleInv, ConsoleTypes, Port, Ready, Registers, ConsoleTypeOK
<1> QED BY <1>1, ConsoleInvariant, PTL

(* For every length of the FIFO and all messages, those with a %u and with *)
(* numbers too large for %x among them: what the UART takes for a call     *)
(* that gives each of its conversions an argument it can print is what the *)
(* call stands for, although the mouse's handler prints between the test   *)
(* of the port and the write.                                              *)
THEOREM LinesAreSafe ==
  ConsoleSpec => LineSaysWhatWasAsked
<1> DEFINE Says1 == \A w \in Contexts :
                      kprintf_returns(w) /\ WellAsked(calls[w][1]) =>
                        Says(taken[w], calls[w][1].fmt, calls[w][1].args)
<1>1. ConsoleInv => Says1
  <2> SUFFICES ASSUME ConsoleInv, NEW w \in Contexts, kprintf_returns(w),
                      WellAsked(calls[w][1])
               PROVE  Says(taken[w], calls[w][1].fmt, calls[w][1].args)
    OBVIOUS
  <2> DEFINE c == calls[w][1]
  <2>1. /\ Printing(w) /\ buf[w] = <<>> /\ read[w].i = Len(c.fmt)
    BY DEF kprintf_returns, Runs
  <2>2. taken[w] \in Text /\ c \in Calls
    BY <2>1 DEF ConsoleInv, ConsoleTypes, Printing
  <2>3. taken[w] \o buf[w] = taken[w]
    BY <2>1, <2>2 DEF Text
  <2>4. Reached(c, Len(c.fmt), read[w].arg, taken[w])
    BY <2>1, <2>3 DEF ConsoleInv, InHand, Follow
  <2> HIDE DEF c
  <2>5. Call(c)
    BY <2>2, CallsPass
  <2> QED BY <2>2, <2>4, <2>5, ReachedAtEnd DEF c
<1>2. ConsoleInv /\ [ConsoleNext]_consoleVars => [Says1]_consoleVars
  BY <1>1
<1> HIDE DEF Says1
<1>3. ConsoleSpec => [][Says1]_consoleVars
  BY <1>2, ConsoleInvariant, PTL DEF ConsoleSpec
<1> QED BY <1>3 DEF Says1, LineSaysWhatWasAsked
=============================================================================
