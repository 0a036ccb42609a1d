--------------------------------- MODULE Clock ---------------------------------
(***************************************************************************)
(* The time of day that the game sees (platform/clock.c): Japanese time    *)
(* whatever the time zone, the system clock out of the game's reach, and,  *)
(* as an option, a time that leaves the servers' hours of maintenance out. *)
(*                                                                         *)
(* Time is a number of ClockHour-ths of an hour, UTC, from the start of a  *)
(* day; Windows' clock goes on between any two calls.                      *)
(***************************************************************************)
EXTENDS Integers

CONSTANTS
    ClockHour,     \* jiffies_per_hour: 3600 * 10^7 in the code
    ClockZone,     \* hours that the real time zone is ahead of UTC
    ClockConfigs,  \* [timezone, timewarp, writeable]
    ClockMax       \* bound: the time at which Windows' clock stops

ASSUME ClockHourAssumption == ClockHour \in Nat \ {0}
ASSUME ClockZoneAssumption == ClockZone \in -12 .. 14
ASSUME ClockMaxAssumption == ClockMax \in Nat
ASSUME ClockConfigsAssumption ==
    ClockConfigs \subseteq [timezone : BOOLEAN, timewarp : BOOLEAN, writeable : BOOLEAN]

VARIABLES
    clockConfig,  \* the configuration
    clockReal,    \* Windows' clock
    clockCall,    \* the call by which the game asks for the time
    clockTold,    \* its last answer, as the call gave it
    clockBack     \* the clock was set back (not in the code)

clockVars == <<clockConfig, clockReal, clockCall, clockTold, clockBack>>

ClockDay   == 24 * ClockHour
ClockUntold == -(2 * ClockDay)
ClockCalls == {"GetSystemTimeAsFileTime", "GetSystemTime", "GetLocalTime"}

ClockTypeOK ==
    /\ clockConfig \in ClockConfigs
    /\ clockReal \in Nat
    /\ clockCall \in ClockCalls
    /\ clockTold \in Int
    /\ clockBack \in BOOLEAN

(* Before its first call, the game knows of no time. *)
ClockInit ==
    /\ clockConfig \in ClockConfigs
    /\ clockReal = 0
    /\ clockCall \in ClockCalls /\ clockTold = ClockUntold
    /\ clockBack = FALSE

-----------------------------------------------------------------------------
(* Seeded faults: what a definition below might have been by mistake; each one
   breaks a property, and none is part of the specification.               *)

(* The day is split without the bias. *)
ClockFake_Unbiased(real) ==
    (real \div ClockDay) * ClockDay + ((real % ClockDay) * 19) \div 24

(* The time of the day is not scaled but cut off and started again. *)
ClockScale_Wraps(time) == time % (19 * ClockHour)

-----------------------------------------------------------------------------
(* Reading *)

(* The last five hours of a day that begins at 22:00 UTC are left out. *)
ClockScale(time) == (time * 19) \div 24

(* my_GetSystemTimeAsFileTime with timewarp *)
ClockFake(real) ==
    LET biased == real + 2 * ClockHour
        day    == biased \div ClockDay
        time   == biased % ClockDay
    IN  day * ClockDay + ClockScale(time) - 2 * ClockHour

(* my_GetSystemTimeAsFileTime *)
ClockFileTime(real) == IF clockConfig.timewarp THEN ClockFake(real) ELSE real

(* my_GetSystemTime, installed with the time zone *)
ClockSystemTime(real) == IF clockConfig.timezone THEN ClockFileTime(real) ELSE real

(* my_GetLocalTime is Japanese time; without it, Windows knows better. *)
ClockLocalTime(real) == IF clockConfig.timezone
                        THEN ClockFileTime(real) + 9 * ClockHour
                        ELSE real + ClockZone * ClockHour

ClockAnswer(call, real) ==
    CASE call = "GetSystemTimeAsFileTime" -> ClockFileTime(real)
      [] call = "GetSystemTime"           -> ClockSystemTime(real)
      [] call = "GetLocalTime"            -> ClockLocalTime(real)

ClockRead ==
    /\ clockTold' = ClockAnswer(clockCall, clockReal)
    /\ UNCHANGED <<clockConfig, clockReal, clockCall, clockBack>>

-----------------------------------------------------------------------------
(* Writing *)

(* my_SetLocalTime, my_SetSystemTime, my_SetTimeZoneInformation: nothing, and
   success; with writeable they are not there.                             *)
ClockSet(time) ==
    /\ clockReal' = IF clockConfig.writeable THEN time ELSE clockReal
    /\ clockBack' = (clockBack \/ clockReal' < clockReal)
    /\ UNCHANGED <<clockConfig, clockCall, clockTold>>

ClockTick ==
    /\ clockReal < ClockMax /\ clockReal' = clockReal + 1
    /\ UNCHANGED <<clockConfig, clockCall, clockTold, clockBack>>

ClockNext ==
    \/ ClockTick
    \/ ClockRead
    \/ \E time \in {0, ClockDay} : ClockSet(time)

ClockSpec == ClockInit /\ [][ClockNext]_clockVars

-----------------------------------------------------------------------------
(* Properties *)

(* A game under the time warp is never told a time in the hours of maintenance,
   02:00 to 07:00 in Japan, by any call, as long as the time zone is hooked as
   well; without that GetLocalTime and GetSystemTime are not warped.       *)
ClockSkips ==
    clockConfig.timewarp /\ clockConfig.timezone =>
       LET japan == (IF clockCall = "GetLocalTime" THEN clockTold
                     ELSE clockTold + 9 * ClockHour) % ClockDay
       IN  clockTold # ClockUntold =>
              ~(japan >= 2 * ClockHour /\ japan < 7 * ClockHour)

(* Time never goes back for the game while it does not for Windows, also where
   hours are left out and across midnight.                                 *)
ClockForward ==
    [][~clockBack' => clockTold' >= clockTold]_clockVars
=============================================================================
