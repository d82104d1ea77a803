----------------------------- MODULE MCDevices ------------------------------
(* The devices that kmain sets up one after the other: a machine without a   *)
(* framebuffer that reads the clock, and one with a framebuffer that has     *)
(* read it.                                                                  *)
EXTENDS Rtc, Framebuffer

(* The last hour of the first and of the last day of every month, the one    *)
(* before a leap day, and every hour of one day.                             *)
MCStarts ==
  [year : 24 .. 27, month : 1 .. 12, dayofmonth : {1}, hours : {23}]
  \union [year : {24}, month : {2}, dayofmonth : {28}, hours : {23}]
  \union {[year |-> y, month |-> m, dayofmonth |-> Length(y, m), hours |-> 23] :
            y \in 24 .. 27, m \in 1 .. 12}
  \union [year : {25}, month : {3}, dayofmonth : {1}, hours : 0 .. 23]

MCImages == [width : 1 .. 4, height : 1 .. 2]

ClockRead ==
  /\ clock = [year |-> 25, month |-> 3, dayofmonth |-> 1, hours |-> 0, minutes |-> 0, seconds |-> 0]
  /\ updating = FALSE /\ lead = 0 /\ ticks = MaxTicks /\ sinceTick = UpdateLead
  /\ is_24hours = TRUE /\ is_binary = TRUE
  /\ stage = "done" /\ last = clock /\ registers = clock

Init == (RtcInit /\ NoFramebuffer) \/ (ClockRead /\ fb_init)
Next == (RtcNext /\ UNCHANGED fbVars) \/ (FbNext /\ UNCHANGED rtcVars)
Spec == Init /\ [][Next]_<<rtcVars, fbVars>> /\ RtcFairness
=============================================================================
