---------------------------- MODULE SensorManager ----------------------------
(* The firmware's sensor polling (PC_Monitor_Hardware/SensorManager.cpp) in   *)
(* the sketch's loop, against a millisecond clock that wraps.                 *)
(*                                                                            *)
(* One pass of loop() is Server_Update and SensorManager_Update, which reads  *)
(* the clock twice.  Each of their steps takes up to StepTime.                *)
EXTENDS Integers

CONSTANTS
    CLOCK,                  \* millis() counts modulo this (2^32)
    DEFAULT_UPDATE_PERIOD,  \* 1000
    SetupDelay,             \* setup() takes at least that long (5000)
    MaxSetupTime,           \* bound: and at most that long
    Periods,                \* periods the menu may set; the sketch does not call it
    LongestPeriod,          \* the longest period there is (16 bits)
    StepTime                \* bound: milliseconds a step of the loop takes

AllPeriods == Periods \cup {DEFAULT_UPDATE_PERIOD}

\* A period is much shorter than the clock's, which has 32 bits.
ASSUME PeriodAssumption ==
    /\ CLOCK \in Nat /\ SetupDelay \in Nat /\ StepTime \in Nat
    /\ LongestPeriod \in Nat /\ AllPeriods \subseteq 0..LongestPeriod
    /\ LongestPeriod + 4 * StepTime < CLOCK
    /\ MaxSetupTime \in Nat /\ MaxSetupTime + 2 * StepTime < CLOCK

VARIABLES
    clock,              \* millis()
    l_LastUpdateTime,
    l_UpdatePeriod,
    at,                 \* where loop() is
    spent,              \* time this step has taken
    since,              \* history: time since l_LastUpdateTime was stored
    age                 \* history: time since the sensors were read, -1 before

timeVars == <<clock, spent, since, age>>
periodVars == <<l_LastUpdateTime, l_UpdatePeriod>>
sensorVars == <<timeVars, periodVars, at>>

\* setup() is over; it may have waited for the serial port.
PollInit ==
    /\ clock \in SetupDelay..MaxSetupTime
    /\ l_LastUpdateTime = 0
    /\ l_UpdatePeriod = DEFAULT_UPDATE_PERIOD
    /\ at = "Server_Update"
    /\ spent = 0
    /\ since = clock
    /\ age = -1

Tick ==
    /\ spent < StepTime
    /\ spent' = spent + 1
    /\ clock' = (clock + 1) % CLOCK
    /\ since' = since + 1
    /\ age' = IF age = -1 THEN -1 ELSE age + 1
    /\ UNCHANGED <<periodVars, at>>

GoTo(step) == at' = step /\ spent' = 0

\* What it does with the bytes of a request is in Packets and Commander.
Server_Update ==
    /\ at = "Server_Update"
    /\ GoTo("SensorManager_Update")
    /\ UNCHANGED <<clock, since, age, periodVars>>

\* Mutant of Due: the next time is added up, without the wrap.
DueBySum == clock > l_LastUpdateTime + l_UpdatePeriod

Due == (clock - l_LastUpdateTime) % CLOCK > l_UpdatePeriod

SensorManager_Update ==
    /\ at = "SensorManager_Update"
    /\ GoTo(IF Due THEN "SensorManager_Poll" ELSE "Server_Update")
    /\ UNCHANGED <<clock, since, age, periodVars>>

\* Every sensor of the table.
SensorManager_Poll ==
    /\ at = "SensorManager_Poll"
    /\ GoTo("store")
    /\ age' = 0
    /\ UNCHANGED <<clock, since, periodVars>>

\* Mutant of StoreTime: the time stored is not the clock's.
StoreNextTime ==
    /\ at = "store"
    /\ GoTo("Server_Update")
    /\ l_LastUpdateTime' = l_LastUpdateTime + l_UpdatePeriod
    /\ since' = 0
    /\ UNCHANGED <<clock, age, l_UpdatePeriod>>

\* The clock is read again.
StoreTime ==
    /\ at = "store"
    /\ GoTo("Server_Update")
    /\ l_LastUpdateTime' = clock
    /\ since' = 0
    /\ UNCHANGED <<clock, age, l_UpdatePeriod>>

\* l_ChangeUpdateTime and l_ForceSensorUpdate of the menu, which loop() would call
\* before Server_Update.  The period starts when the time was stored, not here.
SensorManager_SetUpdatePeriod ==
    /\ at = "Server_Update"
    /\ l_UpdatePeriod' \in Periods
    /\ UNCHANGED <<timeVars, l_LastUpdateTime, at>>

ForcedPoll ==
    /\ at = "Server_Update" /\ Periods # {}
    /\ age' = 0
    /\ UNCHANGED <<clock, spent, since, periodVars, at>>

loop == Server_Update \/ SensorManager_Update \/ SensorManager_Poll \/ StoreTime
Menu_Update == SensorManager_SetUpdatePeriod \/ ForcedPoll

PollNext == Tick \/ loop \/ Menu_Update

PollSpec == PollInit /\ [][PollNext]_sensorVars

-----------------------------------------------------------------------------
(* Properties *)

\* Types; l_LastUpdateTime is the time since ago, as the clock shows it.
PollTypeOK ==
    /\ clock \in 0..(CLOCK - 1)
    /\ l_LastUpdateTime = (clock - since) % CLOCK
    /\ l_UpdatePeriod \in AllPeriods
    /\ at \in {"Server_Update", "SensorManager_Update", "SensorManager_Poll", "store"}
    /\ spent \in 0..StepTime
    /\ since \in Nat /\ age \in Nat \cup {-1}

\* The loop reads the sensors only when more than the period has really passed
\* since it last did, wherever the clock wraps.
PollsKeepDistance == at = "SensorManager_Poll" => since > l_UpdatePeriod

\* Once they were read the values are never older than the period and the steps
\* up to the next reading: no wrap of the clock puts a reading off.
ValuesAreFresh == age <= LongestPeriod + 4 * StepTime
==============================================================================
