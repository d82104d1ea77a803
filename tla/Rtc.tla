-------------------------------- MODULE Rtc --------------------------------
(***************************************************************************)
(* read_rtc_time (kernel/device/rtc.c): the registers of the real time     *)
(* clock are read one by one while the clock runs, again and again until   *)
(* they change, and are made into seconds since the epoch, whatever the    *)
(* format that status register B names.                                    *)
(*                                                                         *)
(* The clock is external.  It raises the update-in-progress bit before it  *)
(* ticks, long enough for UpdateLead reads of a register, and a second is  *)
(* longer than that.                                                       *)
(***************************************************************************)
EXTENDS Naturals, Sequences, FiniteSetsExt, Functions

CONSTANTS Starts,       \* the hours in which reading starts, one second to the next
          UpdateLead, MaxTicks

ASSUME RtcAssumption ==
  /\ \A s \in Starts : /\ s.year \in 0 .. 99 /\ s.month \in 1 .. 12
                       /\ s.dayofmonth \in 1 .. 31 /\ s.hours \in 0 .. 23
  \* A round of reading, status register B included, fits into the lead.
  /\ UpdateLead \in Nat /\ UpdateLead >= 7 /\ MaxTicks \in Nat

VARIABLES clock,                   \* the time
          updating, lead,          \* the bit, and for how many reads the tick is away
          ticks, sinceTick,        \* the ticks so far, and the reads since the last
          is_24hours, is_binary,   \* status register B
          stage, registers,           \* the registers read in this round
          last                     \* those of the round before

clockVars == <<clock, updating, ticks, is_24hours, is_binary>>
rtcVars == <<clockVars, lead, sinceTick, stage, registers, last>>

-----------------------------------------------------------------------------
(* The calendar, for the years 2000 to 2099.                                *)

daysPerMonth == <<31, 28, 31, 30, 31, 30, 31, 31, 30, 31, 30, 31>>

IsLeap(y) == y % 4 = 0
Length(y, m) == IF m = 2 /\ IsLeap(y) THEN 29 ELSE daysPerMonth[m]

Carry(t) ==
  LET minute == [t EXCEPT !.seconds = 0]
      hour == [minute EXCEPT !.minutes = 0]
      day == [hour EXCEPT !.hours = 0]
      month == [day EXCEPT !.dayofmonth = 1]
  IN IF t.seconds < 59 THEN [t EXCEPT !.seconds = @ + 1]
     ELSE IF t.minutes < 59 THEN [minute EXCEPT !.minutes = @ + 1]
     ELSE IF t.hours < 23 THEN [hour EXCEPT !.hours = @ + 1]
     ELSE IF t.dayofmonth < Length(t.year, t.month) THEN [day EXCEPT !.dayofmonth = @ + 1]
     ELSE IF t.month < 12 THEN [month EXCEPT !.month = @ + 1]
     ELSE [month EXCEPT !.month = 1, !.year = @ + 1]

(* The registers: packed decimal unless is_binary, and hours from 1 to 12   *)
(* with bit 7 for the afternoon unless is_24hours.                          *)
Encoded(n) == IF is_binary THEN n ELSE (n \div 10) * 16 + (n % 10)

read_rtc_register(name) ==
  IF name # "hours" \/ is_24hours THEN Encoded(clock[name])
  ELSE Encoded(((clock.hours + 11) % 12) + 1) + (IF clock.hours >= 12 THEN 128 ELSE 0)

RtcInit ==
  /\ \E s \in Starts :
       clock = [year |-> s.year, month |-> s.month, dayofmonth |-> s.dayofmonth,
                hours |-> s.hours, minutes |-> 59, seconds |-> 59]
  /\ updating = FALSE /\ lead = 0 /\ ticks = 0 /\ sinceTick = UpdateLead + 1
  /\ is_24hours \in BOOLEAN /\ is_binary \in BOOLEAN
  /\ stage = "wait" /\ registers = <<>> /\ last = <<>>

UpdateStarts ==
  /\ ~updating /\ sinceTick > UpdateLead /\ ticks < MaxTicks /\ stage # "done"
  /\ updating' = TRUE /\ lead' = UpdateLead
  /\ UNCHANGED <<clock, ticks, is_24hours, is_binary, sinceTick, stage, registers, last>>

Tick ==
  /\ updating /\ lead = 0 /\ stage # "done"
  /\ clock' = Carry(clock) /\ updating' = FALSE
  /\ ticks' = ticks + 1 /\ sinceTick' = 0
  /\ UNCHANGED <<is_24hours, is_binary, lead, stage, registers, last>>

-----------------------------------------------------------------------------
(* The kernel.  Every read of a register takes its time.                    *)

TimePasses ==
  /\ lead' = IF lead > 0 THEN lead - 1 ELSE 0
  /\ sinceTick' = IF sinceTick > UpdateLead THEN sinceTick ELSE sinceTick + 1

Unread == {"seconds", "minutes", "hours", "year", "dayofmonth", "month"} \ DOMAIN registers
Order(name) ==
  CASE name = "seconds" -> 1 [] name = "minutes" -> 2 [] name = "hours" -> 3
    [] name = "year" -> 4 [] name = "dayofmonth" -> 5 [] name = "month" -> 6

ReadAtOnce ==
  /\ stage = "wait" /\ TimePasses
  /\ stage' = IF last = <<>> THEN "statusB" ELSE "read"
  /\ UNCHANGED <<clockVars, registers, last>>

(* while (is_rtc_updating());                                               *)
is_rtc_updating ==
  /\ stage = "wait" /\ TimePasses
  /\ stage' = IF updating THEN "wait" ELSE IF last = <<>> THEN "statusB" ELSE "read"
  /\ UNCHANGED <<clockVars, registers, last>>

ReadStatusB ==
  /\ stage = "statusB" /\ TimePasses /\ stage' = "read"
  /\ UNCHANGED <<clockVars, registers, last>>

ReadNext ==
  /\ stage = "read" /\ Unread # {} /\ TimePasses
  /\ LET name == CHOOSE n \in Unread : \A o \in Unread : Order(n) <= Order(o)
     IN registers' = [n \in DOMAIN registers \union {name} |->
                        IF n = name THEN read_rtc_register(name) ELSE registers[n]]
  /\ UNCHANGED <<clockVars, stage, last>>

AnySame(old, new) == \E name \in DOMAIN new : old[name] = new[name]

(* The condition of the loop: it goes on while nothing has changed.         *)
AllSame(old, new) == old = new

RoundEnds ==
  /\ stage = "read" /\ Unread = {}
  /\ IF last = <<>> \/ AllSame(last, registers)
     THEN stage' = "wait" /\ last' = registers /\ registers' = <<>>
     ELSE stage' = "done" /\ UNCHANGED <<last, registers>>
  /\ UNCHANGED <<clockVars, lead, sinceTick>>

Read == is_rtc_updating \/ ReadStatusB \/ ReadNext \/ RoundEnds
RtcNext == UpdateStarts \/ Tick \/ Read

(* The clock ticks, and the kernel runs on.                                 *)
RtcFairness == WF_rtcVars(UpdateStarts) /\ WF_rtcVars(Tick) /\ WF_rtcVars(Read)
RtcSpec == RtcInit /\ [][RtcNext]_rtcVars /\ RtcFairness

-----------------------------------------------------------------------------
(* What is made of the registers.                                           *)

convert_bcd_to_binary(value) == (value \div 16) * 10 + (value % 16)
Decoded(name) ==
  IF is_binary THEN registers[name] ELSE convert_bcd_to_binary(registers[name])

HoursRead ==
  LET h == Decoded("hours")
  IN IF ~is_24hours /\ (h \div 128) % 2 = 1 THEN ((h % 128) + 12) % 24 ELSE h

EveryFourthFrom1970(y) == y \div 4

LeapYears(y) == y \div 4 + (IF y % 4 > 1 THEN 1 ELSE 0)

DaysCurrentYear(month, day) == FoldFunctionOnSet(+, 0, daysPerMonth, 1 .. month - 1) + day

(* The result: days since the epoch, and the time of day.                   *)
DaysSinceEpoch ==
  LET yearsSinceEpoch == 2000 + Decoded("year") - 1970
  IN (yearsSinceEpoch * 365 - 1) + LeapYears(yearsSinceEpoch)
     + DaysCurrentYear(Decoded("month"), Decoded("dayofmonth"))

TimeOfDay == HoursRead * 3600 + Decoded("minutes") * 60 + Decoded("seconds")

-----------------------------------------------------------------------------
(* The calendar's own count of the days before a date.                      *)
DaysBefore(t) ==
  t.dayofmonth - 1
  + MapThenSumSet(LAMBDA m : Length(t.year, m), 1 .. t.month - 1)
  + MapThenSumSet(LAMBDA y : IF IsLeap(y) THEN 366 ELSE 365, 1970 .. 2000 + t.year - 1)

(* On a clock that counts 24 hours, in packed decimal or binary, the time   *)
(* returned is the time since the epoch at that moment, after the February  *)
(* of a leap year and in all other years.                                   *)
UnixTimeAfterFebruary ==
  (stage = "done" /\ is_24hours /\ ~(IsLeap(clock.year) /\ clock.month <= 2)) =>
    /\ DaysSinceEpoch = DaysBefore(clock)
    /\ TimeOfDay = clock.hours * 3600 + clock.minutes * 60 + clock.seconds

(* The registers used are all of one second, although they are read one by  *)
(* one while the clock runs; and that second has just begun, as rtc_now,    *)
(* which counts from here, needs it.                                        *)
WholeAndFresh ==
  stage = "done" =>
    /\ \A name \in DOMAIN registers : registers[name] = read_rtc_register(name)
    /\ sinceTick <= UpdateLead

(* read_rtc_time returns, although its loop goes on while the registers are *)
(* the same.                                                                *)
ReadingEnds == <>(stage = "done")

(* rtc_now "Gets the RTC time in unix epoch": on every day of the year.     *)
UnixTime == (stage = "done" /\ is_24hours) => DaysSinceEpoch = DaysBefore(clock)

(* "If the rtc is set using 12 hours, when the hour indicates PM time The   *)
(* 0x80 bit of the hour is set": the hour is found from that bit.           *)
TwelveHourClock == stage = "done" => HoursRead = clock.hours
=============================================================================
