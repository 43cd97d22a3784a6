------------------------------ MODULE Thermostat ------------------------------
(***************************************************************************)
(* Storm: the thermostat algorithm.                                        *)
(*                                                                         *)
(* Every interval Algorithm::expired() runs the components one after the   *)
(* other: IdtSelection, OperatingMode, (PiPreProcess,) Pi, a Control for   *)
(* cooling, one for indoor heating and one for off, FanControl and         *)
(* HvacRelayOutputs.                                                       *)
(* A Control drives its equipment, and the equipment calls the stages.  A  *)
(* stage is a state machine with an event queue of its own: an event that  *)
(* is generated while it processes another one is queued, and a transition *)
(* may call the next or the previous stage, which then runs its own queue  *)
(* to the end.  `calls' are the calls a Control has still to make, `stack' *)
(* are the stages that are inside generateEvent().                         *)
(*                                                                         *)
(* Stage 0 is the cooling stage, 1..NumHeat are the indoor heating stages. *)
(* Times are kept as ages, which stand still once nobody can tell them     *)
(* apart.  Callers never ask a stage to start in its off cycle.            *)
(***************************************************************************)
EXTENDS Integers, Sequences, SequencesExt, FiniteSetsExt

CONSTANTS NumHeat,        \* OPTION_STORM_MAX_FURNACE_HEATING_STAGES
          Equipments,     \* the [heat, cool] stage numbers that are configured
          PvValues,       \* process variable values that occur
          K,              \* half of the cycle time at 50% (DutyCycle's k_)
          MinOn, MinOff,  \* ComfortStageParameters_T
          MinUnitOff,     \* OPTION_STORM_MIN_..._OFF_TIME_SEC
          Hysteresis,     \* OPTION_STORM_COMPONENT_OPERATING_MODE_SECONDS_HYSTERESIS
          MaxAge,         \* where the ages of cycles stand still
          Aborts          \* is whiteBox.abortOnOffCycle ever set?

Heats == 1..NumHeat
Stages == 0..NumHeat
None == -1
Forever == 1000000        \* 0xFFFFFFFF
QueueSize == 7             \* what a RingBuffer of eight elements holds

ASSUME ThermostatAssumption ==
    /\ NumHeat \in 1..3
    /\ Equipments \subseteq [heat : 0..NumHeat, cool : 0..1]
    /\ PvValues \subseteq Nat /\ 0 \in PvValues
    /\ K \in Nat \ {0} /\ MinOn \in Nat /\ MinOff \in Nat /\ MinUnitOff \in Nat
    /\ Hysteresis \in Nat /\ Aborts \in BOOLEAN
    /\ MaxAge \in Nat /\ 2 * K <= MaxAge      \* no cycle that ends is longer
    /\ \A pv \in PvValues : LET part == pv % 100
                            IN  part # 0 => /\ K * 100 < (MaxAge + 1) * part
                                            /\ K * 100 < (MaxAge + 1) * (100 - part)

Units == {"cool", "heat"}
StagesOf(c) == IF c = "cool" THEN {0} ELSE IF c = "heat" THEN Heats ELSE {}
First(s) == s <= 1        \* m_systemIndex == 0

VARIABLES
    \* the state machines of the stages
    st,            \* the innermost state of each
    queue,         \* FsmEventQueue_
    nextStage, prevStage, supplemented,
    args,          \* m_args: "null", the Args_T of an "old" interval, or of "this" one
    startAge,      \* how long ago m_startTime is
    \* Args_T, and the model points it is copied from and to
    out, fan,      \* vOutputs
    cycle,         \* cycleInfo: mode, and how long ago beginOnTime is
    systemOn,
    abort,         \* whiteBox.abortOnOffCycle
    \* other model points
    config,        \* systemConfig: operating mode and number of stages
    pvOut,
    modeChanged,   \* operatingModeChanged
    refCnt,        \* systemForcedOffRefCnt
    relays,        \* relayOutputs: the stages that are on
    unitOff,       \* how long ago the units were switched off
    sysOff,        \* how long ago the system was switched off
    whiteBoxValid, \* is the whiteBox model point valid?
    \* members of components
    critical, forcedOff, inAuto, relaySysOn,
    seen,          \* Controls whose m_sysCfgSequenceNumber is up to date
    \* where the thread is
    pc, calls, stack,
    \* history
    onFor,         \* how long the relay of each stage has been on
    excuses,       \* a new configuration or an abort in this interval
    defeated,      \* was a unit that had not rested released in this interval?
    fanCut         \* has FanControl switched the fan off since a stage set it?

stageVars == <<st, queue, nextStage, prevStage, supplemented, args, startAge>>
argVars == <<out, fan, fanCut, cycle, systemOn, abort>>
pointVars == <<config, pvOut, modeChanged, refCnt, relays, unitOff, sysOff,
               whiteBoxValid>>
memberVars == <<critical, forcedOff, inAuto, relaySysOn, seen>>
threadVars == <<pc, calls, stack>>
history == <<onFor, excuses, defeated>>
vars == <<stageVars, argVars, pointVars, memberVars, threadVars, history>>

-----------------------------------------------------------------------------
(* Storm::Utils::DutyCycle, in percent of a stage's 100 load values *)

LowerBound(s) == 100 * ((IF s = 0 THEN 1 ELSE s) - 1)
NormalizePv(s) == Min({Max({pvOut - LowerBound(s), 0}), 100})
AtLeast(time, least) == Max({time, Min({least, 2 * K})})

CalculateOffTime(s) ==
    LET pv == NormalizePv(s)
    IN  AtLeast(IF pv = 0 THEN Forever ELSE (K * 100) \div pv, MinOff)

\* Faulty: the minimum on time is not looked at.
CalculateOnTimeShort(s) ==
    LET rest == 100 - NormalizePv(s)
    IN  IF rest = 0 THEN Forever ELSE (K * 100) \div rest

CalculateOnTime(s) ==
    LET rest == 100 - NormalizePv(s)
    IN  AtLeast(IF rest = 0 THEN Forever ELSE (K * 100) \div rest, MinOn)

Older(age, most) == Min({age + 1, most})

Init ==
    /\ st = [s \in Stages |-> "Off"]
    /\ queue = [s \in Stages |-> <<>>]
    /\ nextStage = [s \in Stages |-> None] /\ prevStage = [s \in Stages |-> None]
    /\ supplemented = [s \in Stages |-> FALSE]
    /\ args = [s \in Stages |-> "null"]
    /\ startAge = [s \in Stages |-> MaxAge]
    /\ out = [s \in Stages |-> FALSE] /\ fan = FALSE /\ fanCut = FALSE
    /\ cycle = [mode |-> "OFF", onAge |-> MinOn]
    /\ systemOn = FALSE /\ abort = FALSE
    /\ config = [mode |-> "UNKNOWN", heat |-> 0, cool |-> 0]
    /\ pvOut = 0 /\ modeChanged = FALSE /\ refCnt = 0
    /\ relays = {}
    /\ unitOff = [u \in Units |-> 0]  \* m_y1 and m_w1 start as true
    /\ sysOff = 0
    /\ whiteBoxValid = FALSE
    /\ critical = FALSE /\ forcedOff = FALSE /\ inAuto = FALSE /\ relaySysOn = TRUE
    /\ seen = {}
    /\ pc = "IdtSelection" /\ calls = <<>> /\ stack = <<>>
    /\ onFor = [s \in Stages |-> 0] /\ excuses = {} /\ defeated = FALSE

At(place) == pc = place /\ calls = <<>> /\ stack = <<>>

-----------------------------------------------------------------------------
(* The state machine of a stage *)

Cycling(s) == st[s] \in {"StartingOn", "OnTime", "StartingOff", "OffTime"}
IsOnCycle(s) == st[s] \in {"StartingOn", "OnTime"}
IsOffCycle(s) == st[s] \in {"StartingOff", "OffTime"}
IsActive(s) == Cycling(s) \/ st[s] \in {"FromLower", "BackToLower"}

\* The states that take an event
TakenIn(ev) ==
    CASE ev = "OnRequest" -> {"Off"}
      [] ev = "FromCompleted" -> {"FromLower"}
      [] ev = "StartingOnExpired" -> {"StartingOn"}
      [] ev = "StartingOffExpired" -> {"StartingOff"}
      [] ev = "OnTimeExpired" -> {"StartingOn", "OnTime"}
      [] ev = "OffTimeExpired" -> {"StartingOff", "OffTime"}
      [] ev \in {"ExcessCapacity", "NeedMoreCapacity"} ->
           {"StartingOn", "OnTime", "StartingOff", "OffTime"}
      [] ev = "BackCompleted" -> {"BackToLower"}
      [] ev = "LessCapacity" -> {"Supplementing"}
      [] ev = "OffModeRequest" ->
           {"FromLower", "StartingOn", "OnTime", "StartingOff", "OffTime",
            "BackToLower", "Supplementing"}
      [] ev = "Execute" -> {}

Event(s) == Head(queue[s])
Takes(s, ev) == Event(s) = ev /\ st[s] \in TakenIn(ev)

\* checkOnTime() and checkOffTime(), which a stage in OnTime or OffTime calls
\* for every event: the events they may generate.  requestModeToOff() leaves
\* the pointer to the Args_T of an earlier Control::execute(), which are gone:
\* the check may come out either way.  In the build their place is that of the
\* Args_T of the execute() that runs now, under the same caller: they are whole,
\* and the abort flag that is cleared there is one that ControlActive has still
\* to choose, or that nobody reads.
Check(s) ==
    LET on == st[s] = "OnTime"
        expired == <<IF on THEN "OnTimeExpired" ELSE "OffTimeExpired">>
        due == /\ cycle.mode = IF on THEN "ON_CYCLE" ELSE "OFF_CYCLE"
               /\ \/ abort
                  \/ startAge[s] >= IF on THEN CalculateOnTime(s)
                                    ELSE CalculateOffTime(s)
    IN  IF st[s] \notin {"OnTime", "OffTime"} THEN {<<>>}
        ELSE IF args[s] = "old" THEN {<<>>, expired}
        ELSE IF due THEN {expired} ELSE {<<>>}

\* The queue when the event is taken, the check made and `more' generated
Queue(s, check, more) ==
    queue' = [queue EXCEPT ![s] = Tail(@) \o check \o more]
AbortLeft(s, check) == abort /\ (check = <<>> \/ args[s] = "old")

StageOutput(s, on) ==
    /\ out' = [out EXCEPT ![s] = on]
    /\ fan' = IF First(s) THEN on /\ s = 0 ELSE fan
    /\ fanCut' = (fanCut /\ ~First(s))

\* startOnTime() and startingStageOn(), or startOffTime() and
\* startingStageOff(): the check in them can only be due to an abort.
EnterCycle(s, on, check) ==
    LET again == AbortLeft(s, check)
    IN  /\ st' = [st EXCEPT ![s] = IF on THEN "StartingOn" ELSE "StartingOff"]
        /\ startAge' = [startAge EXCEPT ![s] = 0]
        /\ StageOutput(s, on)
        /\ cycle' = IF on THEN [mode |-> "ON_CYCLE", onAge |-> 0]
                    ELSE [cycle EXCEPT !.mode = "OFF_CYCLE"]
        /\ Queue(s, check,
                 (IF again THEN <<IF on THEN "OnTimeExpired" ELSE "OffTimeExpired">>
                  ELSE <<>>)
                 \o <<IF on THEN "StartingOnExpired" ELSE "StartingOffExpired">>)
        /\ abort' = FALSE

\* The events that move a stage from one state to another, in the order of
\* processEvent().  Off: the stage is switched on, ...
SwitchOn(s) ==
    /\ Takes(s, "OnRequest") /\ ~supplemented[s]
    /\ systemOn' = (systemOn \/ First(s))
    /\ EnterCycle(s, TRUE, <<>>)
    /\ UNCHANGED <<nextStage, prevStage, supplemented, args, stack>>

\* ... or it supports a lower stage, from which the way is immediate.
FromLower(s) ==
    /\ Takes(s, "OnRequest") /\ supplemented[s]
    /\ st' = [st EXCEPT ![s] = "FromLower"]
    /\ Queue(s, <<>>, <<"FromCompleted">>)
    /\ UNCHANGED <<nextStage, prevStage, supplemented, args, startAge, argVars, stack>>

FromCompleted(s) ==
    /\ Takes(s, "FromCompleted")
    /\ EnterCycle(s, TRUE, <<>>)
    /\ UNCHANGED <<nextStage, prevStage, supplemented, args, systemOn, stack>>

\* Faulty: the time that begins is reported as over at once.
StartingExpiredOver(s) ==
    LET on == IsOnCycle(s)
    IN  /\ Takes(s, IF on THEN "StartingOnExpired" ELSE "StartingOffExpired")
        /\ st' = [st EXCEPT ![s] = IF on THEN "OnTime" ELSE "OffTime"]
        /\ StageOutput(s, on)
        /\ Queue(s, <<>>, <<IF on THEN "OnTimeExpired" ELSE "OffTimeExpired">>)
        /\ UNCHANGED <<nextStage, prevStage, supplemented, args, startAge, cycle,
                       systemOn, abort, stack>>

StartingExpired(s) ==
    LET on == IsOnCycle(s)
    IN  /\ Takes(s, IF on THEN "StartingOnExpired" ELSE "StartingOffExpired")
        /\ st' = [st EXCEPT ![s] = IF on THEN "OnTime" ELSE "OffTime"]
        /\ StageOutput(s, on)
        /\ Queue(s, <<>>, <<>>)
        /\ UNCHANGED <<nextStage, prevStage, supplemented, args, startAge, cycle,
                       systemOn, abort, stack>>

TimeExpired(s, check) ==
    /\ Takes(s, IF IsOnCycle(s) THEN "OnTimeExpired" ELSE "OffTimeExpired")
    /\ EnterCycle(s, IsOffCycle(s), check)
    /\ UNCHANGED <<nextStage, prevStage, supplemented, args, systemOn, stack>>

ExcessCapacity(s, check) ==
    /\ Takes(s, "ExcessCapacity")
    /\ IF supplemented[s]
       THEN /\ st' = [st EXCEPT ![s] = "BackToLower"]
            /\ Queue(s, check, <<"BackCompleted">>)
            /\ UNCHANGED <<out, fan, fanCut, systemOn, cycle>>
       ELSE /\ st' = [st EXCEPT ![s] = "Off"]
            /\ StageOutput(s, FALSE)
            /\ systemOn' = (systemOn /\ ~First(s))
            /\ cycle' = IF First(s) THEN [cycle EXCEPT !.mode = "OFF"] ELSE cycle
            /\ Queue(s, check, <<>>)
    /\ abort' = AbortLeft(s, check)
    /\ UNCHANGED <<nextStage, prevStage, supplemented, args, startAge, stack>>

\* Faulty: the next stage is not told which one the previous stage is.
NeedMoreCapacityUntold(s, check) ==
    LET n == nextStage[s]
    IN  /\ Takes(s, "NeedMoreCapacity") /\ n # None
        /\ st' = [st EXCEPT ![s] = "Supplementing"]
        /\ StageOutput(s, TRUE)
        /\ queue' = [queue EXCEPT ![s] = Tail(@) \o check, ![n] = Append(@, "OnRequest")]
        /\ args' = [args EXCEPT ![n] = "this"]
        /\ supplemented' = [supplemented EXCEPT ![n] = TRUE]
        /\ nextStage' = [nextStage EXCEPT ![n] = None]
        /\ stack' = <<n>> \o stack
        /\ abort' = AbortLeft(s, check)
        /\ UNCHANGED <<prevStage, startAge, cycle, systemOn>>

\* enterSupplementing() calls notifyAsActiveStage_() of the next stage, which
\* runs before stageOn(); the two touch different things.
NeedMoreCapacity(s, check) ==
    LET n == nextStage[s]
    IN  /\ Takes(s, "NeedMoreCapacity") /\ n # None
        /\ st' = [st EXCEPT ![s] = "Supplementing"]
        /\ StageOutput(s, TRUE)
        /\ queue' = [queue EXCEPT ![s] = Tail(@) \o check, ![n] = Append(@, "OnRequest")]
        /\ args' = [args EXCEPT ![n] = "this"]
        /\ supplemented' = [supplemented EXCEPT ![n] = TRUE]
        /\ nextStage' = [nextStage EXCEPT ![n] = None]
        /\ prevStage' = [prevStage EXCEPT ![n] = s]
        /\ stack' = <<n>> \o stack
        /\ abort' = AbortLeft(s, check)
        /\ UNCHANGED <<startAge, cycle, systemOn>>

\* Faulty: the previous stage is not told.
BackCompletedUntold(s) ==
    LET p == prevStage[s]
    IN  /\ Takes(s, "BackCompleted") /\ p # None
        /\ st' = [st EXCEPT ![s] = "Off"]
        /\ StageOutput(s, FALSE)
        /\ Queue(s, <<>>, <<>>)
        /\ prevStage' = [prevStage EXCEPT ![s] = None]
        /\ supplemented' = [supplemented EXCEPT ![s] = FALSE]
        /\ UNCHANGED <<nextStage, args, startAge, cycle, systemOn, abort, stack>>

\* notifyLowerStage() calls notifyAsExitingSupplmenting_() of the previous
\* stage; then shutdownStage() of a stage that is not the first
BackCompleted(s) ==
    LET p == prevStage[s]
    IN  /\ Takes(s, "BackCompleted") /\ p # None
        /\ st' = [st EXCEPT ![s] = "Off"]
        /\ StageOutput(s, FALSE)
        /\ queue' = [queue EXCEPT ![s] = Tail(@), ![p] = Append(@, "LessCapacity")]
        /\ args' = [args EXCEPT ![p] = "this"]
        /\ nextStage' = [nextStage EXCEPT ![p] = None]
        /\ prevStage' = [prevStage EXCEPT ![s] = None]
        /\ supplemented' = [supplemented EXCEPT ![s] = FALSE]
        /\ stack' = <<p>> \o stack
        /\ UNCHANGED <<startAge, cycle, systemOn, abort>>

LessCapacity(s) ==
    /\ Takes(s, "LessCapacity")
    /\ EnterCycle(s, TRUE, <<>>)
    /\ UNCHANGED <<nextStage, prevStage, supplemented, args, systemOn, stack>>

\* initializeStage(); the outputs are left to the new operating mode.
OffMode(s, check) ==
    /\ Takes(s, "OffModeRequest")
    /\ st' = [st EXCEPT ![s] = "Off"]
    /\ Queue(s, check, <<>>)
    /\ supplemented' = [supplemented EXCEPT ![s] = FALSE]
    /\ nextStage' = [nextStage EXCEPT ![s] = None]
    /\ prevStage' = [prevStage EXCEPT ![s] = None]
    /\ args' = [args EXCEPT ![s] = "null"]
    /\ startAge' = [startAge EXCEPT ![s] = MaxAge]
    /\ abort' = AbortLeft(s, check)
    /\ UNCHANGED <<out, fan, fanCut, cycle, systemOn, stack>>

\* What no state takes is dropped; the check of the state is made all the same.
Ignored(s, check) ==
    /\ st[s] \notin TakenIn(Event(s))
    /\ Queue(s, check, <<>>)
    /\ abort' = AbortLeft(s, check)
    /\ UNCHANGED <<st, nextStage, prevStage, supplemented, args, startAge, out, fan, fanCut,
                   cycle, systemOn, stack>>

\* One turn of the loop in generateEvent()
ProcessEvent(s) ==
    /\ stack # <<>> /\ s = Head(stack) /\ queue[s] # <<>>
    /\ \/ SwitchOn(s) \/ FromLower(s) \/ FromCompleted(s) \/ StartingExpired(s)
       \/ BackCompleted(s) \/ LessCapacity(s)
       \/ \E check \in Check(s) :
            \/ TimeExpired(s, check) \/ ExcessCapacity(s, check)
            \/ NeedMoreCapacity(s, check) \/ OffMode(s, check) \/ Ignored(s, check)
    /\ UNCHANGED <<pointVars, memberVars, pc, calls, history>>

\* generateEvent() returns to the other stage, or to the equipment.
EventsProcessed ==
    /\ stack # <<>> /\ queue[Head(stack)] = <<>>
    /\ stack' = Tail(stack)
    /\ UNCHANGED <<stageVars, argVars, pointVars, memberVars, pc, calls, history>>

-----------------------------------------------------------------------------
(* The equipment: StageApi calls, in order *)

\* requestOn(), requestAsSupplement(), requestOff(), execute() and
\* requestModeToOff(), which alone does not set m_args
Call ==
    /\ stack = <<>> /\ calls # <<>>
    /\ LET ev == Head(calls).ev
           s == Head(calls).stage
       IN  /\ queue' = [queue EXCEPT ![s] = Append(@, ev)]
           /\ stack' = <<s>>
           /\ args' = [args EXCEPT ![s] = IF ev = "OffModeRequest" THEN @ ELSE "this"]
           /\ supplemented' = [supplemented EXCEPT ![s] = @ /\ ev # "OnRequest"]
           /\ nextStage' = [nextStage EXCEPT
                              ![s] = IF ev = "NeedMoreCapacity" THEN s + 1 ELSE @]
    /\ calls' = Tail(calls)
    /\ UNCHANGED <<st, prevStage, startAge, argVars, pointVars, memberVars, pc, history>>

ToEach(ev, stages) ==
    [i \in DOMAIN stages |-> [ev |-> ev, stage |-> stages[i]]]
Ordered(c) ==
    IF c = "cool" THEN <<0>> ELSE IF c = "heat" THEN [s \in Heats |-> s] ELSE <<>>

TurnOn(k) == IF k = 1 THEN 5 ELSE 100 * (k - 1) + 15
TurnOff(k) == 100 * (k - 1)
UnitRested(u) == unitOff[u] >= MinUnitOff
MayStart(u, d) == UnitRested(u) \/ d   \* d: whiteBox.defeatEquipMinOffTime

\* Faulty: a higher stage is asked for before the unit has rested.
StageLogicHasty(u, k, top, d) ==
    LET first == top - (k - 1)
        low == {j \in first..(top - 1) : IsActive(j)}
    IN  IF ~systemOn /\ pvOut > TurnOn(k)
        THEN [trips |-> TRUE,
              calls |-> IF ~MayStart(u, d) THEN <<>>
                        ELSE <<[ev |-> "OnRequest", stage |-> first]>>
                             \o IF k = 1 THEN <<>>
                                ELSE <<[ev |-> "NeedMoreCapacity", stage |-> first]>>]
        ELSE IF low # {} /\ pvOut > TurnOn(k)
        THEN [trips |-> TRUE,
              calls |-> <<[ev |-> "NeedMoreCapacity", stage |-> Min(low)]>>]
        ELSE IF IsActive(top) /\ pvOut <= TurnOff(k)
        THEN [trips |-> TRUE,
              calls |-> IF IsOffCycle(top) \/ cycle.onAge >= MinOn
                        THEN <<[ev |-> "ExcessCapacity", stage |-> top]>> ELSE <<>>]
        ELSE [trips |-> FALSE, calls |-> <<>>]

\* singleStage(), secondStage() and thirdStage(): the k-th stage of unit u is
\* `top'.  The system is switched on, a lower stage supplemented by the next,
\* or the stage switched off, where the unit has been off or on long enough
\* or its minimum off time is defeated.
StageLogic(u, k, top, d) ==
    LET first == top - (k - 1)
        low == {j \in first..(top - 1) : IsActive(j)}
    IN  IF ~systemOn /\ pvOut > TurnOn(k)
        THEN [trips |-> TRUE,
              calls |-> IF ~MayStart(u, d) THEN <<>>
                        ELSE <<[ev |-> "OnRequest", stage |-> first]>>
                             \o IF k = 1 THEN <<>>
                                ELSE <<[ev |-> "NeedMoreCapacity", stage |-> first]>>]
        ELSE IF low # {} /\ pvOut > TurnOn(k)
        THEN [trips |-> TRUE,
              calls |-> IF IsOnCycle(Min(low)) \/ (IsOffCycle(Min(low)) /\ MayStart(u, d))
                        THEN <<[ev |-> "NeedMoreCapacity", stage |-> Min(low)]>> ELSE <<>>]
        ELSE IF IsActive(top) /\ pvOut <= TurnOff(k)
        THEN [trips |-> TRUE,
              calls |-> IF IsOffCycle(top) \/ cycle.onAge >= MinOn
                        THEN <<[ev |-> "ExcessCapacity", stage |-> top]>> ELSE <<>>]
        ELSE [trips |-> FALSE, calls |-> <<>>]

\* The logic of the highest stage that trips is the one that counts; then all
\* configured stages are run.
ExecuteHeating(d) ==
    LET n == config.heat
        trips == {k \in 1..n : StageLogic("heat", k, k, d).trips}
    IN  (IF trips = {} THEN <<>> ELSE StageLogic("heat", Max(trips), Max(trips), d).calls)
        \o ToEach("Execute", [k \in 1..n |-> k])

ExecuteCooling(d) == StageLogic("cool", 1, 0, d).calls \o ToEach("Execute", <<0>>)

-----------------------------------------------------------------------------
(* The components, in the order of Algorithm::expired() *)

\* The sensors may fail; the forced-off count follows the transitions.
IdtSelection(bad) ==
    /\ At("IdtSelection")
    /\ critical' = bad
    /\ refCnt' = IF bad /\ ~critical THEN refCnt + 1
                 ELSE IF ~bad /\ critical THEN Max({refCnt - 1, 0}) ELSE refCnt
    /\ pc' = "OperatingMode"
    /\ UNCHANGED <<stageVars, argVars, config, pvOut, modeChanged, relays, unitOff,
                   sysOff, whiteBoxValid, forcedOff, inAuto, relaySysOn, seen,
                   calls, stack, history>>

\* Faulty: an alarm counts in every interval it is active.
AlarmEachTime(active) ==
    /\ forcedOff' = active
    /\ refCnt' = IF active THEN refCnt + 1
                 ELSE IF forcedOff THEN Max({refCnt - 1, 0}) ELSE refCnt

\* setNoActiveConditioningAlarm()
Alarm(active) ==
    /\ forcedOff' = active
    /\ refCnt' = IF active /\ ~forcedOff THEN refCnt + 1
                 ELSE IF ~active /\ forcedOff THEN Max({refCnt - 1, 0}) ELSE refCnt

\* setNewOperatingMode() and setSystemConfig(); a changed configuration is
\* one that no Control has seen.
SetNewOperatingMode(mode, equip) ==
    LET new == [mode |-> mode,
                heat |-> IF mode = "ID_HEATING" THEN equip.heat ELSE 0,
                cool |-> IF mode = "COOLING" THEN equip.cool ELSE 0]
    IN  /\ config' = new
        /\ seen' = IF new = config THEN seen ELSE {}
        /\ modeChanged' = (mode # config.mode)
        /\ excuses' = IF new = config THEN {} ELSE {"config"}

KeepOperatingMode ==
    UNCHANGED <<config, seen>> /\ modeChanged' = FALSE /\ excuses' = {}

\* What the user's mode comes to on this equipment.  There is no heat pump:
\* MpEquipmentConfig::validate() leaves it without stages.
Corrected(userMode, equip) ==
    CASE userMode = "COOLING" -> IF equip.cool > 0 THEN "COOLING" ELSE "OFF"
      [] userMode = "HEATING" -> IF equip.heat > 0 THEN "ID_HEATING" ELSE "OFF"
      [] userMode = "AUTO" -> IF equip.cool > 0 /\ equip.heat > 0 THEN "AUTO"
                              ELSE IF equip.cool > 0 THEN "COOLING" ELSE "ID_HEATING"
      [] OTHER -> "OFF"

\* `warm': the cooling set-point (less its offset) is reached, or, when auto
\* mode is entered, the heating set-point is passed.
OperatingMode(userMode, equip, bad, warm) ==
    /\ At("OperatingMode")
    /\ Alarm(bad \/ (equip.heat = 0 /\ equip.cool = 0))
    /\ LET mode == Corrected(userMode, equip)
       IN  IF bad \/ refCnt' > 0
           THEN SetNewOperatingMode("OFF", equip) /\ UNCHANGED inAuto
           ELSE /\ inAuto' = (mode = "AUTO")
                /\ IF mode # "AUTO" THEN SetNewOperatingMode(mode, equip)
                   ELSE IF ~inAuto \/ (~systemOn /\ sysOff >= Hysteresis)
                   THEN SetNewOperatingMode(IF warm THEN "COOLING" ELSE "ID_HEATING", equip)
                   ELSE KeepOperatingMode
    /\ pc' = "Pi"
    /\ UNCHANGED <<stageVars, argVars, pvOut, relays, unitOff, sysOff, whiteBoxValid,
                   critical, relaySysOn, calls, stack, onFor, defeated>>

\* The load is whatever temperatures and integral make of it, up to maxPvOut; or
\* it is frozen where it was, above the maximum of a new configuration too.
Pi(pv) ==
    /\ At("Pi")
    /\ pv <= 100 * (config.heat + config.cool) \/ pv = pvOut
    /\ pvOut' = pv
    /\ pc' = "cool"
    /\ UNCHANGED <<stageVars, argVars, config, modeChanged, refCnt, relays, unitOff,
                   sysOff, whiteBoxValid, memberVars, calls, stack, history>>

ModeOf(c) == CASE c = "cool" -> "COOLING" [] c = "heat" -> "ID_HEATING" [] c = "off" -> "OFF"
Ready(c) == CASE c = "cool" -> "cool ready" [] c = "heat" -> "heat ready"
              [] c = "off" -> "off ready"
After(c) == CASE c = "cool" -> "heat" [] c = "heat" -> "off" [] c = "off" -> "FanControl"

\* Control::execute() does nothing while the whiteBox model point is invalid.
ControlIdle(c) ==
    /\ At(c) /\ ~whiteBoxValid
    /\ pc' = After(c)
    /\ UNCHANGED <<stageVars, argVars, pointVars, memberVars, calls, stack, history>>

\* executeOff() of equipment that does not belong to the operating mode
ControlOff(c) ==
    /\ At(c) /\ whiteBoxValid
    /\ config.mode # ModeOf(c)
    /\ calls' = ToEach("OffModeRequest", Ordered(c))
    /\ pc' = After(c)
    /\ UNCHANGED <<stageVars, argVars, pointVars, memberVars, stack, history>>

\* Faulty: the outputs of the former mode are left as they are.
ControlResetLeaving(c) ==
    /\ At(c) /\ whiteBoxValid
    /\ config.mode = ModeOf(c)
    /\ c \notin seen \/ modeChanged
    /\ seen' = seen \cup {c}
    /\ systemOn' = FALSE
    /\ cycle' = [cycle EXCEPT !.mode = "OFF"]
    /\ calls' = ToEach("OffModeRequest", Ordered(c))
    /\ pc' = Ready(c)
    /\ UNCHANGED <<stageVars, out, fan, fanCut, abort, pointVars, critical, forcedOff, inAuto,
                   relaySysOn, stack, history>>

\* The configuration or the mode has changed: everything is reset, ...
ControlReset(c) ==
    /\ At(c) /\ whiteBoxValid
    /\ config.mode = ModeOf(c)
    /\ c \notin seen \/ modeChanged
    /\ seen' = seen \cup {c}
    /\ systemOn' = FALSE
    /\ cycle' = [cycle EXCEPT !.mode = "OFF"]
    /\ out' = [s \in Stages |-> FALSE] /\ fan' = FALSE /\ fanCut' = FALSE
    /\ calls' = ToEach("OffModeRequest", Ordered(c))
    /\ pc' = Ready(c)
    /\ UNCHANGED <<stageVars, abort, pointVars, critical, forcedOff, inAuto, relaySysOn,
                   stack, history>>

\* ... and executeActive() runs the equipment.
ControlActive(c, a, d) ==
    /\ \/ At(Ready(c))
       \/ At(c) /\ whiteBoxValid /\ config.mode = ModeOf(c) /\ c \in seen /\ ~modeChanged
    /\ abort' = (a /\ c # "off")
    /\ excuses' = excuses \cup IF a THEN {"abort"} ELSE {}
    /\ defeated' = (defeated \/ (d /\ c \in Units /\ ~UnitRested(c)))
    /\ calls' = CASE c = "cool" -> ExecuteCooling(d)
                  [] c = "heat" -> ExecuteHeating(d)
                  [] c = "off" -> <<>>
    /\ IF c = "off"
       THEN /\ out' = [s \in Stages |-> FALSE] /\ fan' = FALSE /\ fanCut' = FALSE
            /\ systemOn' = FALSE
            /\ cycle' = [cycle EXCEPT !.mode = "OFF"]
       ELSE UNCHANGED <<out, fan, fanCut, systemOn, cycle>>
    /\ pc' = After(c)
    /\ UNCHANGED <<stageVars, pointVars, memberVars, stack, onFor>>

\* FanControl::execute(): the fan is forced off while one of its inputs is not
\* valid; otherwise only the output for a continuous fan is set.
FanControl(valid) ==
    /\ At("FanControl")
    /\ fan' = (fan /\ valid)
    /\ fanCut' = (fanCut \/ (fan /\ ~valid))
    /\ pc' = "Relays"
    /\ UNCHANGED <<stageVars, out, cycle, systemOn, abort, pointVars, memberVars,
                   calls, stack, history>>

\* HvacRelayOutputs: the stages whose relays are on
RelayOutputs == IF refCnt > 0 THEN {} ELSE {s \in Stages : out[s]}

\* HvacRelayOutputs::execute(), resetPulseSettings(), and time goes by.
Relays ==
    /\ At("Relays")
    /\ relays' = RelayOutputs
    /\ unitOff' = [u \in Units |->
                     LET s == IF u = "cool" THEN 0 ELSE 1
                     IN  IF s \in relays \ RelayOutputs THEN Min({1, MinUnitOff})
                         ELSE Older(unitOff[u], MinUnitOff)]
    /\ sysOff' = IF relaySysOn /\ ~systemOn THEN Min({1, Hysteresis})
                 ELSE Older(sysOff, Hysteresis)
    /\ relaySysOn' = systemOn
    /\ whiteBoxValid' = TRUE
    /\ abort' = FALSE
    /\ startAge' = [s \in Stages |-> IF Cycling(s) THEN Older(startAge[s], MaxAge)
                                     ELSE MaxAge]
    /\ cycle' = [cycle EXCEPT !.onAge = Older(@, MinOn)]
    /\ args' = [s \in Stages |-> IF args[s] = "this" THEN "old" ELSE args[s]]
    /\ onFor' = [s \in Stages |-> IF s \in RelayOutputs THEN Older(onFor[s], MinOn) ELSE 0]
    /\ defeated' = FALSE
    /\ pc' = "IdtSelection"
    /\ UNCHANGED <<st, queue, nextStage, prevStage, supplemented, out, fan, fanCut,
                   systemOn, config, pvOut, modeChanged, refCnt, critical, forcedOff, inAuto,
                   seen, calls, stack, excuses>>

Next ==
    \/ \E bad \in BOOLEAN : IdtSelection(bad)
    \/ \E userMode \in {"OFF", "COOLING", "HEATING", "AUTO"}, equip \in Equipments,
          bad, warm \in BOOLEAN : OperatingMode(userMode, equip, bad, warm)
    \/ \E pv \in PvValues : Pi(pv)
    \/ \E c \in {"cool", "heat", "off"} :
         \/ ControlIdle(c) \/ ControlOff(c) \/ ControlReset(c)
         \/ \E a \in {FALSE, Aborts}, d \in BOOLEAN : ControlActive(c, a, d)
    \/ Call
    \/ \E s \in Stages : ProcessEvent(s)
    \/ EventsProcessed
    \/ \E valid \in BOOLEAN : FanControl(valid)
    \/ Relays

\* The thread runs.
Spec == Init /\ [][Next]_vars /\ WF_vars(Next)

-----------------------------------------------------------------------------
TypeOK ==
    /\ st \in [Stages -> {"Off", "FromLower", "StartingOn", "OnTime", "StartingOff",
                          "OffTime", "BackToLower", "Supplementing"}]
    /\ args \in [Stages -> {"null", "old", "this"}]
    /\ nextStage \in [Stages -> Stages \cup {None}]
    /\ prevStage \in [Stages -> Stages \cup {None}]
    /\ supplemented \in [Stages -> BOOLEAN]
    /\ startAge \in [Stages -> 0..MaxAge]
    /\ out \in [Stages -> BOOLEAN] /\ fan \in BOOLEAN /\ fanCut \in BOOLEAN
    /\ cycle \in [mode : {"OFF", "ON_CYCLE", "OFF_CYCLE"}, onAge : 0..MinOn]
    /\ systemOn \in BOOLEAN /\ abort \in BOOLEAN
    /\ config.mode \in {"UNKNOWN", "OFF", "COOLING", "ID_HEATING"}
    /\ pvOut \in PvValues /\ refCnt \in 0..2 /\ relays \subseteq Stages
    /\ unitOff \in [Units -> 0..MinUnitOff] /\ sysOff \in 0..Hysteresis
    /\ seen \subseteq {"cool", "heat", "off"}

\* No assertion fails and no event is lost: a stage that works has its Args_T
\* and the stage it is to call, an event queue never overflows, and no Control
\* meets a number of stages it does not know (Basic.cpp, FsmEventQueue_.cpp,
\* IndoorHeating::executeActive()).
NoFatal ==
    /\ TypeOK
    /\ \A s \in Stages :
         /\ Len(queue[s]) <= QueueSize
         /\ stack # <<>> /\ s = Head(stack) /\ queue[s] # <<>>
              => /\ Takes(s, "NeedMoreCapacity") => nextStage[s] # None
                 /\ Takes(s, "BackCompleted") => prevStage[s] # None
                 /\ st[s] # "Off" \/ Event(s) = "OnRequest" => args[s] # "null"
    /\ config.mode = "ID_HEATING" => config.heat > 0
    /\ config.mode = "COOLING" => config.cool > 0

\* When the Controls have run, one stage of the unit in use is active, those
\* below it supplement it and all others are off, whatever order requests,
\* expired times and stale events came in; without load everything is off.
OneActive ==
    At("Relays") =>
        IF systemOn
        THEN \E top \in Stages :
               /\ Cycling(top)
               /\ top \in StagesOf(IF config.mode = "COOLING" THEN "cool" ELSE "heat")
               /\ \A s \in Stages \ {top} :
                    st[s] = IF s \in 1..(top - 1) THEN "Supplementing" ELSE "Off"
        ELSE \A s \in Stages : st[s] = "Off"

\* The outputs are those of the stages: of the mode before, too, nothing stays
\* on, so that never both units run; the fan runs only with the compressor, and
\* the compressor without it only if FanControl has switched the fan off in this
\* on cycle (stageOn(), stageOff(), requestModeToOff(), Control::execute(),
\* FanControl::execute()).
OutputsMatch ==
    At("Relays") =>
        /\ \A s \in Stages : out[s] = (st[s] \in {"OnTime", "Supplementing"})
        /\ fan => out[0]
        /\ out[0] => fan \/ fanCut

\* While the system is forced off no relay of a stage is on, and it is forced
\* off as long as somebody wants it, no longer: the count is the number of those
\* who do (IdtSelection, OperatingMode, HvacRelayOutputs).
ForcedOff ==
    /\ refCnt = (IF critical THEN 1 ELSE 0) + (IF forcedOff THEN 1 ELSE 0)
    /\ pc = "IdtSelection" /\ refCnt > 0 => relays = {}

\* What a unit is off for at least: its own minimum where the equipment switches
\* it on, that of a cycle where the cycle goes on.
LeastOff == Min({MinUnitOff, Min({MinOff, 2 * K})})

\* A unit that is switched on has been off long enough, across changes of mode
\* and configuration, unless its off cycle was aborted or its minimum off time
\* defeated from the console.
MinOffTime ==
    [][\A u \in Units :
         LET s == IF u = "cool" THEN 0 ELSE 1
         IN  s \in relays' \ relays =>
               unitOff[u] >= LeastOff \/ "abort" \in excuses \/ defeated]_vars

\* A stage that is switched off has been on for its minimum on time, unless
\* the configuration or the mode has changed or the cycle was aborted.
MinOnTime ==
    [][\A s \in relays \ relays' : onFor[s] >= Min({MinOn, 2 * K}) \/ excuses # {}]_vars

\* Each interval comes to its end: events that generate events do run out.
Completes == []<>(pc = "IdtSelection")
=============================================================================
