------------------------------- MODULE Clocks -------------------------------
(***************************************************************************)
(* The machine's two clocks and the main thread's use of them: the tick    *)
(* counter of drivers/pit/pit.c, which IRQ0 counts up, with sleep_ms; the  *)
(* CMOS clock of drivers/CMOS/cmos.c, with the label of the taskbar        *)
(* (GUI/Desktop/taskbar/taskbar.c).                                        *)
(*                                                                         *)
(* timer_ticks is 64 bits wide and the processor 32: a load of it is two,  *)
(* in either order.  HALF is 2^32.  The CMOS chip is external: its time of *)
(* day is a number of minutes, its registers show it in the chip's format. *)
(***************************************************************************)
EXTENDS Integers, Sequences

CONSTANTS
  HALF,              \* values of half a counter
  FirstTicks,        \* what timer_ticks may be at first
  MaxTicks,          \* bound: of the counter
  Sleeps,            \* arguments of sleep_ms
  FirstMinutes,      \* times of day at first, in minutes
  MaxMinutes,        \* bound: minutes that pass
  Format,            \* register B of the chip: "BCD", "binary" or "AMPM"
  Undefined          \* bytes a register may show while the chip updates

ASSUME SizesAssumption ==
  /\ HALF \in Nat \ {0} /\ MaxTicks \in Nat
  /\ FirstTicks \subseteq 0 .. MaxTicks /\ Sleeps \subseteq Nat
  /\ FirstMinutes \subseteq 0 .. 1439 /\ MaxMinutes \in Nat
  /\ Format \in {"BCD", "binary", "AMPM"}
  /\ Undefined \subseteq 0 .. 255

VARIABLES
  pc,                \* where the main thread is
  timer_ticks,
  low, high,         \* sleep_ms: the halves it has loaded, or None
  end,               \* sleep_ms: the tick to wait for
  slept,             \* history: [from, ms] of the sleep
  ticked,            \* history: a tick came in this round of loads
  wrapped,           \* history: the low half wrapped between two loads
  now, passed,       \* external: minute of the day; history: minutes passed
  updating,          \* external: the chip changes its registers
  minute, hour,      \* clock_update_cb: what it has read
  label,             \* the digits shown
  began,             \* history: the minutes passed when the read began
  garbled,           \* history: the read met an update of the chip
  fresh              \* history: a read began since the last minute and was good

ticksVars == <<timer_ticks, low, high, end, slept, ticked, wrapped>>
chipVars  == <<now, passed, updating>>
labelVars == <<minute, hour, label, began, garbled, fresh>>
vars == <<pc, timer_ticks, low, high, end, slept, ticked, wrapped,
          now, passed, updating, minute, hour, label, began, garbled, fresh>>

None == -1
NoSleep == [from |-> 0, ms |-> 0]

-----------------------------------------------------------------------------
(* IRQ0, at most once per round of loads and test: a tick is 1 ms.  The    *)
(* bound stands for the end of observation.                                *)
pit_handler ==
  /\ timer_ticks < MaxTicks
  /\ pc \in {"sleep_ms", "while"} => ~ ticked
  /\ timer_ticks' = timer_ticks + 1
  /\ ticked' = (pc \in {"sleep_ms", "while"})
  /\ wrapped' = (wrapped \/ (timer_ticks' % HALF = 0 /\ (low = None) # (high = None)))
  /\ pc' = IF pc = "hlt" THEN "while" ELSE pc
  /\ UNCHANGED <<low, high, end, slept, chipVars, labelVars>>

(* Any other interrupt ends a hlt too. *)
other_interrupt ==
  /\ pc = "hlt" /\ pc' = "while"
  /\ UNCHANGED <<ticksVars, chipVars, labelVars>>

(* One of the two loads of timer_ticks. *)
load_low ==
  /\ low = None /\ low' = timer_ticks % HALF
  /\ UNCHANGED <<timer_ticks, high, end, slept, ticked, wrapped, pc>>

load_high ==
  /\ high = None /\ high' = timer_ticks \div HALF
  /\ UNCHANGED <<timer_ticks, low, end, slept, ticked, wrapped, pc>>

Loaded == low # None /\ high # None
Value  == high * HALF + low

(* Bound: sleeps that end before the observation does. *)
sleep_ms_call(ms) ==
  /\ pc = "loop" /\ timer_ticks + ms + HALF < MaxTicks
  /\ pc' = "sleep_ms"
  /\ slept' = [from |-> timer_ticks, ms |-> ms]
  /\ ticked' = FALSE /\ wrapped' = FALSE
  /\ UNCHANGED <<timer_ticks, low, high, end, chipVars, labelVars>>

sleep_ms_load ==
  /\ pc \in {"sleep_ms", "while"}
  /\ load_low \/ load_high
  /\ UNCHANGED <<chipVars, labelVars>>

sleep_ms_end ==
  /\ pc = "sleep_ms" /\ Loaded
  /\ pc' = "while"
  /\ end' = Value + slept.ms
  /\ low' = None /\ high' = None /\ ticked' = FALSE
  /\ UNCHANGED <<timer_ticks, slept, wrapped, chipVars, labelVars>>

(* Mutants: the loop tests for inequality; it ends one tick early. *)
StillWaitingUnequal(t) == t # end
StillWaitingShort(t) == t < end - 1

StillWaiting(t) == t < end

(* The test, and the hlt behind it, which any interrupt ends; a tick that  *)
(* came before the hlt does not.                                           *)
sleep_ms_while ==
  /\ pc = "while" /\ Loaded
  /\ IF StillWaiting(Value)
       THEN pc' = "hlt" /\ UNCHANGED <<end, slept, wrapped>>
       ELSE pc' = "loop" /\ end' = 0 /\ slept' = NoSleep /\ wrapped' = FALSE
  /\ low' = None /\ high' = None /\ ticked' = FALSE
  /\ UNCHANGED <<timer_ticks, chipVars, labelVars>>

-----------------------------------------------------------------------------
(* External: a minute passes, and the chip takes a moment to change its    *)
(* registers.  A read takes far less than a minute, and at least one in a  *)
(* minute meets no update: an assumption, for LVGL's time is the number of *)
(* rounds of kernel.c:175-181, and so many of them take how long they may. *)
minute_passes ==
  /\ passed < MaxMinutes /\ fresh /\ ~ updating
  /\ now' = (now + 1) % 1440
  /\ passed' = passed + 1
  /\ updating' = TRUE
  /\ fresh' = FALSE
  /\ UNCHANGED <<pc, ticksVars, minute, hour, label, began, garbled>>

update_ends ==
  /\ updating /\ updating' = FALSE
  /\ UNCHANGED <<pc, ticksVars, now, passed, labelVars>>

BCD(n) == 16 * (n \div 10) + (n % 10)

HourRegister(h) ==
  CASE Format = "BCD"      -> BCD(h)
    [] Format = "binary"   -> h
    [] Format = "AMPM"     -> LET h12 == IF h % 12 = 0 THEN 12 ELSE h % 12
                              IN  BCD(h12) + (IF h < 12 THEN 0 ELSE 128)

MinuteRegister(m) == IF Format = "binary" THEN m ELSE BCD(m)

(* cmos_read(MIN) and cmos_read(HOUR). *)
cmos_read(register) ==
  IF updating THEN Undefined
  ELSE { IF register = "MIN" THEN MinuteRegister(now % 60)
                             ELSE HourRegister(now \div 60) }

bcd_to_dec(byte) == (byte \div 16) * 10 + (byte % 16)

(* cmos_get_rtc: the minute is loaded before the hour; the second and the  *)
(* registers behind the hour are not used by anybody.                      *)
Load(register, at, next) ==
  /\ pc = at /\ pc' = next
  /\ \E byte \in cmos_read(register) :
       IF register = "MIN"
         THEN minute' = bcd_to_dec(byte) /\ UNCHANGED hour
         ELSE hour' = bcd_to_dec(byte) /\ UNCHANGED minute
  /\ began' = IF at = "loop" THEN passed ELSE began
  /\ garbled' = (garbled \/ updating)
  /\ UNCHANGED <<ticksVars, chipVars, label, fresh>>

(* Mutant: the hour is loaded first. *)
cmos_get_rtc_hour_first ==
  Load("HOUR", "loop", "cmos_get_rtc") \/ Load("MIN", "cmos_get_rtc", "clock_update_cb")

cmos_get_rtc ==
  Load("MIN", "loop", "cmos_get_rtc") \/ Load("HOUR", "cmos_get_rtc", "clock_update_cb")

TIMEZONE_OFFSET == 3

Digits(h, m) == << h \div 10, h % 10, m \div 10, m % 10 >>

(* Mutant: the time zone is added without going round at midnight. *)
LocalHourUnwrapped(h) == h + TIMEZONE_OFFSET

LocalHour(h) == (h + TIMEZONE_OFFSET) % 24

clock_update_cb ==
  /\ pc = "clock_update_cb" /\ pc' = "loop"
  /\ label' = Digits(LocalHour(hour), minute)
  /\ fresh' = (fresh \/ (began = passed /\ ~ garbled))
  /\ minute' = 0 /\ hour' = 0 /\ began' = 0 /\ garbled' = FALSE
  /\ UNCHANGED <<ticksVars, chipVars>>

-----------------------------------------------------------------------------
(* taskbar_init shows 00:00 and calls clock_update_cb itself. *)
Init ==
  /\ pc = "loop"
  /\ timer_ticks \in FirstTicks
  /\ low = None /\ high = None /\ end = 0
  /\ slept = NoSleep
  /\ ticked = FALSE /\ wrapped = FALSE
  /\ now \in FirstMinutes /\ passed = 0 /\ updating = FALSE
  /\ minute = 0 /\ hour = 0 /\ label = << 0, 0, 0, 0 >>
  /\ began = 0 /\ garbled = FALSE /\ fresh = FALSE

Sleep == sleep_ms_load \/ sleep_ms_end \/ sleep_ms_while
Update == cmos_get_rtc \/ clock_update_cb

Next ==
  \/ pit_handler \/ other_interrupt
  \/ \E ms \in Sleeps : sleep_ms_call(ms)
  \/ Sleep \/ Update
  \/ minute_passes \/ update_ends

Spec == Init /\ [][Next]_vars

(* The timer ticks, the main thread runs, and lv_timer_handler gets to the *)
(* label's timer time and again.                                           *)
FairSpec ==
  /\ Spec
  /\ WF_vars(pit_handler) /\ WF_vars(Sleep)
  /\ SF_vars(Update) /\ WF_vars(update_ends)

-----------------------------------------------------------------------------
(* The variables keep their types. *)
TypeOK ==
  /\ pc \in {"loop", "sleep_ms", "while", "hlt", "cmos_get_rtc", "clock_update_cb"}
  /\ timer_ticks \in 0 .. MaxTicks /\ end \in Nat
  /\ low \in -1 .. HALF - 1 /\ high \in Int
  /\ now \in 0 .. 1439 /\ minute \in 0 .. 165 /\ hour \in 0 .. 165
  /\ label \in Seq(0 .. 16)

(* pit.c:29-35: sleep_ms lasts as long as it was asked to, wherever the    *)
(* ticks fall among its loads and its hlt, except when the low half wraps  *)
(* between the loads of the two halves.                                    *)
SleepsLongEnough ==
  [][pc = "while" /\ pc' = "loop" =>
       wrapped \/ timer_ticks - slept.from >= slept.ms]_vars

(* A sleep returns, although the tick it waits for may come between the    *)
(* test and the hlt and then does not wake it, and although its end may be *)
(* computed too late by a wrap.                                            *)
SleepReturns == pc = "sleep_ms" ~> pc = "loop"

(* What the label shows for a minute of the day, UTC+3. *)
Shown(m) == Digits((m \div 60 + 3) % 24, m % 60)

(* What was read says the time at the first or the last load, or, when the *)
(* hour carried between them, a time less than one hour ahead.             *)
NearTheTime ==
  LET first == (now - (passed - began)) % 1440
  IN  \/ label' \in { Shown(now), Shown(first) }
      \/ /\ now % 60 = 0 /\ first # now
         /\ label' = Shown((now + 59) % 1440)

(* cmos.c:24-33 and taskbar.c:12-33: the label shows such a time, never    *)
(* one that is behind, unless a load met an update of the chip, which the  *)
(* code does not look for.                                                 *)
LabelIsNearTheTime == [][clock_update_cb => garbled \/ NearTheTime]_vars

(* A label that is wrong, by a carry or an update of the chip, is put      *)
(* right by the next call of the timer (taskbar.c:68).                     *)
LabelCatchesUp == []<>(label = Shown(now))

(* cmos.c:24-33 gives a time of day, in every read. *)
LabelIsATime == [][clock_update_cb => NearTheTime]_vars

(* No sleep ends early. *)
NeverEarly ==
  [][pc = "while" /\ pc' = "loop" => timer_ticks - slept.from >= slept.ms]_vars
=============================================================================
