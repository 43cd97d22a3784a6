--------------------------- MODULE ThermostatProofs ---------------------------
(***************************************************************************)
(* Proofs about Thermostat, for any number of stages and any times.        *)
(***************************************************************************)
EXTENDS Thermostat, SequenceTheorems, TLAPS

-----------------------------------------------------------------------------
(* The system is forced off while somebody wants it to be *)

Counted == refCnt = (IF critical THEN 1 ELSE 0) + (IF forcedOff THEN 1 ELSE 0)

\* The count alone does not say that the relays are off when an interval
\* begins: nobody changes it between the components that count and the relays.
ForcedInv ==
    /\ critical \in BOOLEAN /\ forcedOff \in BOOLEAN
    /\ Counted
    /\ pc = "IdtSelection" /\ refCnt > 0 => relays = {}

\* What the count of those who force the system off is reduced to
LEMMA OneLess ==
  ASSUME NEW n \in Nat \ {0}
  PROVE  Max({n - 1, 0}) = n - 1
BY DEF Max

\* No Control is followed by the first component of an interval.
LEMMA NotFirst ==
  ASSUME NEW c \in {"cool", "heat", "off"}
  PROVE  Ready(c) # "IdtSelection" /\ After(c) # "IdtSelection"
BY DEF Ready, After

\* Nobody forces the system off at first.
LEMMA ForcedInit == Init => ForcedInv
<1> SUFFICES ASSUME Init PROVE ForcedInv
  OBVIOUS
<1>1. critical = FALSE /\ forcedOff = FALSE /\ refCnt = 0 /\ relays = {}
  BY DEF Init
<1>2. critical \in BOOLEAN /\ forcedOff \in BOOLEAN /\ ~critical /\ ~forcedOff
  BY <1>1, Zenon
<1>3. Counted
  BY <1>1, <1>2 DEF Counted
<1> QED BY <1>1, <1>2, <1>3 DEF ForcedInv

\* ForcedInv is inductive.
LEMMA ForcedStep == ForcedInv /\ [Next]_vars => ForcedInv'
<1> SUFFICES ASSUME ForcedInv, [Next]_vars PROVE ForcedInv'
  OBVIOUS
<1> USE DEF ForcedInv, Counted
<1>1. ASSUME NEW bad \in BOOLEAN, IdtSelection(bad) PROVE ForcedInv'
  <2>1. critical => Max({refCnt - 1, 0}) = refCnt - 1
    BY OneLess
  <2> QED BY <1>1, <2>1 DEF IdtSelection
<1>2. ASSUME NEW userMode, NEW equip, NEW bad \in BOOLEAN, NEW warm,
             OperatingMode(userMode, equip, bad, warm)
      PROVE  ForcedInv'
  <2>1. forcedOff => Max({refCnt - 1, 0}) = refCnt - 1
    BY OneLess
  <2> DEFINE active == bad \/ (equip.heat = 0 /\ equip.cool = 0)
  <2>2. Alarm(active) /\ pc' = "Pi" /\ critical' = critical
    BY <1>2 DEF OperatingMode
  <2>3. active \in BOOLEAN
    OBVIOUS
  <2> HIDE DEF active
  <2> QED BY <2>1, <2>2, <2>3 DEF Alarm
<1>3. ASSUME NEW pv, Pi(pv) PROVE ForcedInv'
  BY <1>3 DEF Pi, memberVars
<1>4. ASSUME NEW c \in {"cool", "heat", "off"},
             \/ ControlIdle(c) \/ ControlOff(c) \/ ControlReset(c)
             \/ \E a \in {FALSE, Aborts}, d \in BOOLEAN : ControlActive(c, a, d)
      PROVE  ForcedInv'
  BY <1>4, NotFirst
  DEF ControlIdle, ControlOff, ControlReset, ControlActive, pointVars, memberVars
<1>5. CASE Call
  BY <1>5 DEF Call, pointVars, memberVars
<1>6. CASE \E s \in Stages : ProcessEvent(s)
  BY <1>6 DEF ProcessEvent, pointVars, memberVars
<1>7. CASE EventsProcessed
  BY <1>7 DEF EventsProcessed, pointVars, memberVars
<1>8. CASE Relays
  BY <1>8 DEF Relays, RelayOutputs
<1>9. CASE \E valid \in BOOLEAN : FanControl(valid)
  BY <1>9 DEF FanControl, pointVars, memberVars
<1>10. CASE UNCHANGED vars
  BY <1>10 DEF vars, pointVars, memberVars, threadVars
<1> QED BY <1>1, <1>2, <1>3, <1>4, <1>5, <1>6, <1>7, <1>8, <1>9, <1>10 DEF Next

\* While an alarm forces the system off no relay of a stage is on, and the
\* count is the number of those who want it off: alarms that come and go in any
\* order neither leave it stuck off nor switch it on too early.
THEOREM ForcedOffAlways == Spec => []ForcedOff
<1>1. ForcedInv => ForcedOff
  BY DEF ForcedInv, Counted, ForcedOff
<1> QED BY <1>1, ForcedInit, ForcedStep, PTL DEF Spec

-----------------------------------------------------------------------------
(* The shape of the stages, their queues and the stack *)

Expired == {"OnTimeExpired", "OffTimeExpired"}
Requests == {"OnRequest", "NeedMoreCapacity", "ExcessCapacity", "Execute",
             "OffModeRequest"}
Events == Requests \cup Expired \cup
          {"FromCompleted", "StartingOnExpired", "StartingOffExpired", "BackCompleted",
           "LessCapacity"}

\* What the equipment may call: only a first stage is switched on by it, only a
\* heating stage with another one above it is supplemented.
CallSet ==
    {c \in [ev : Requests, stage : Stages] :
       /\ c.ev = "OnRequest" => First(c.stage)
       /\ c.ev = "NeedMoreCapacity" => c.stage \in Heats /\ c.stage + 1 \in Heats}

RestStates == {"Off", "OnTime", "OffTime", "Supplementing"}
Settled(s) == st[s] \in RestStates /\ queue[s] = <<>>

\* A stage at the top of the stack, in each of the states it may be in
AtRest(s) ==
    /\ st[s] \in RestStates
    /\ \/ queue[s] = <<>>
       \/ \E e \in Requests \cup Expired \cup {"LessCapacity"} : queue[s] = <<e>>
    /\ st[s] = "OnTime" /\ queue[s] = <<"OnTimeExpired">> => ~abort
    /\ st[s] = "OffTime" /\ queue[s] = <<"OffTimeExpired">> => ~abort
Rising(s) == st[s] = "FromLower" /\ queue[s] = <<"FromCompleted">>
Beginning(s, state, over, stale) ==
    /\ st[s] = state /\ ~abort
    /\ \/ queue[s] = <<over>>
       \/ \E e \in Expired \cup {stale} : queue[s] = <<e, over>>
BeginningOn(s) == Beginning(s, "StartingOn", "StartingOnExpired", "StartingOffExpired")
BeginningOff(s) == Beginning(s, "StartingOff", "StartingOffExpired", "StartingOnExpired")
Returning(s) ==
    /\ st[s] = "BackToLower"
    /\ \/ queue[s] = <<"BackCompleted">>
       \/ \E e \in Expired : queue[s] = <<e, "BackCompleted">>
Running(s) ==
    AtRest(s) \/ Rising(s) \/ BeginningOn(s) \/ BeginningOff(s) \/ Returning(s)

\* A stage below it, inside a call of the stage at the top
Waiting(s) ==
    /\ st[s] \in {"Off", "Supplementing"}
    /\ queue[s] = <<>> \/ \E e \in Expired : queue[s] = <<e>>

NoOtherThan(S) == \A s \in Stages \ S : Settled(s)
\* The stages on the stack have the Args_T of this interval, but for the one
\* that is switched off because of the mode.
Served(s) == st[s] # "Off" /\ queue[s] # <<"OffModeRequest">> => args[s] = "this"
Calm(s) ==
    /\ st[s] # "BackToLower"
    /\ queue[s] \notin {<<"NeedMoreCapacity">>, <<"ExcessCapacity">>,
                        <<"OffModeRequest">>}
Alone(s) == stack = <<s>> /\ Running(s) /\ Served(s) /\ NoOtherThan({s})
Above(s, low) ==
    /\ stack = <<s, low>> /\ s # low
    /\ Running(s) /\ Served(s) /\ Calm(s)
    /\ Waiting(low) /\ Served(low) /\ NoOtherThan({s, low})
StackInv ==
    \/ stack = <<>> /\ NoOtherThan({})
    \/ \E s \in Stages : Alone(s)
    \/ \E s, low \in Stages : Above(s, low)

\* A stage that works has its Args_T, and it knows who supports whom.
ArgsOf(s) ==
    /\ st[s] # "Off" => args[s] # "null"
    /\ queue[s] = <<"OnRequest">> => args[s] = "this"
LinkOf(s) ==
    /\ supplemented[s] <=> s >= 2 /\ (st[s] # "Off" \/ queue[s] = <<"OnRequest">>)
    /\ supplemented[s] => prevStage[s] = s - 1
    /\ st[s] = "Supplementing" => s \in Heats /\ s + 1 \in Heats
    /\ st[s] \in {"FromLower", "BackToLower"} => s >= 2
    /\ queue[s] = <<"NeedMoreCapacity">> =>
         s \in Heats /\ s + 1 \in Heats /\ nextStage[s] = s + 1
StagesInv == \A s \in Stages : ArgsOf(s) /\ LinkOf(s)

Places == {"IdtSelection", "OperatingMode", "Pi", "cool", "cool ready", "heat",
           "heat ready", "off", "off ready", "FanControl", "Relays"}
Cycles == [mode : {"OFF", "ON_CYCLE", "OFF_CYCLE"}, onAge : 0..MinOn]
StageTypes ==
    /\ st \in [Stages -> RestStates \cup {"FromLower", "StartingOn", "StartingOff",
                                         "BackToLower"}]
    /\ queue \in [Stages -> Seq(Events)]
    /\ args \in [Stages -> {"null", "old", "this"}]
    /\ nextStage \in [Stages -> Stages \cup {None}]
    /\ prevStage \in [Stages -> Stages \cup {None}]
    /\ supplemented \in [Stages -> BOOLEAN]
    /\ startAge \in [Stages -> 0..MaxAge]
    /\ out \in [Stages -> BOOLEAN] /\ fan \in BOOLEAN /\ fanCut \in BOOLEAN
    /\ cycle \in Cycles
    /\ systemOn \in BOOLEAN /\ abort \in BOOLEAN
PointTypes ==
    /\ config \in [mode : {"UNKNOWN", "OFF", "COOLING", "ID_HEATING"},
                   heat : 0..NumHeat, cool : 0..1]
    /\ config.mode = "ID_HEATING" => config.heat > 0
    /\ config.mode = "COOLING" => config.cool > 0
    /\ modeChanged \in BOOLEAN /\ whiteBoxValid \in BOOLEAN
    /\ inAuto \in BOOLEAN /\ relaySysOn \in BOOLEAN
    /\ pvOut \in PvValues /\ relays \subseteq Stages
    /\ unitOff \in [Units -> 0..MinUnitOff] /\ sysOff \in 0..Hysteresis
    /\ seen \subseteq {"cool", "heat", "off"}
    /\ pc \in Places /\ calls \in Seq(CallSet)
    /\ onFor \in [Stages -> 0..MinOn] /\ excuses \subseteq {"config", "abort"}
    /\ defeated \in BOOLEAN

ShapeInv == StageTypes /\ PointTypes /\ ForcedInv /\ StackInv /\ StagesInv

-----------------------------------------------------------------------------
(* The mode, the outputs and the chain of stages *)

\* The Control, and the equipment, of the operating mode
Unit == IF config.mode = "COOLING" THEN "cool" ELSE IF config.mode = "ID_HEATING"
        THEN "heat" ELSE IF config.mode = "OFF" THEN "off" ELSE "none"
\* The equipment whose Control makes calls
UnitAt == IF pc \in {"cool ready", "heat"} THEN "cool"
          ELSE IF pc \in {"heat ready", "off"} THEN "heat" ELSE "none"
Resetting == pc \in {"cool ready", "heat ready", "off ready"}
SwitchingOff == UnitAt # "none" /\ (Resetting \/ Unit # UnitAt)
Fresh == Unit \in seen
Starts == {"IdtSelection", "OperatingMode"}

CallsInv ==
    /\ \A i \in 1..Len(calls) :
         /\ calls[i].stage \in StagesOf(UnitAt)
         /\ calls[i].ev = "OffModeRequest" <=> SwitchingOff
    /\ \A s \in Stages :
         /\ queue[s] # <<>> => s \in StagesOf(UnitAt)
         /\ queue[s] = <<"OffModeRequest">> => SwitchingOff
         /\ SwitchingOff /\ queue[s] # <<>> =>
              \/ queue[s] = <<"OffModeRequest">>
              \/ st[s] = "Off" /\ \E e \in Expired : queue[s] = <<e>>
    /\ SwitchingOff =>
         \A s \in StagesOf(UnitAt) :
           \/ st[s] = "Off" \/ queue[s] = <<"OffModeRequest">>
           \/ \E i \in 1..Len(calls) : calls[i].stage = s

\* The stages whose Control has still to run in this interval
ToCome(s) == pc \in {"Pi", "cool"} \/ (s # 0 /\ pc \in {"cool ready", "heat"})

\* Nothing has been switched on.
Blank ==
    /\ \A s \in Stages : st[s] = "Off" /\ ~out[s]
    /\ ~systemOn /\ calls = <<>> /\ stack = <<>>
PlaceInv ==
    /\ seen # {} => whiteBoxValid
    /\ Resetting => Fresh /\ pc = Ready(Unit)
    /\ whiteBoxValid =>
         /\ pc \in {"FanControl", "Relays"} => Fresh
         /\ pc = "off" => Fresh \/ Unit = "off"
         /\ pc = "heat" => Fresh \/ Unit # "cool"
    /\ inAuto \/ pc \notin Starts => Unit # "none"
    /\ refCnt > 0 /\ pc \notin Starts => Unit = "off"
    /\ ~whiteBoxValid \/ (~Fresh /\ pc \in Starts) => Blank

\* The output of a stage, while its outputs and its state are in step
Match(s) ==
    st[s] # "BackToLower" => out[s] = (st[s] \in {"StartingOn", "OnTime", "Supplementing"})

\* A stage supports the next one as long as that one is not off, or is about to
\* be switched on or has just been switched off.
Chain(s) ==
    /\ st[s] = "Supplementing" <=>
         st[s + 1] # "Off" \/ queue[s + 1] = <<"OnRequest">> \/ queue[s] = <<"LessCapacity">>
    /\ queue[s + 1] = <<"OnRequest">> \/ queue[s] = <<"LessCapacity">> => st[s + 1] = "Off"

FirstOf(u) == IF u = "cool" THEN 0 ELSE 1
OthersInv ==
    \A s \in Stages \ StagesOf(Unit) :
      /\ st[s] # "Off" => ToCome(s) \/ (SwitchingOff /\ s \in StagesOf(UnitAt))
      /\ Fresh => ~out[s]
ResetInv == Resetting => ~systemOn /\ \A s \in Stages : ~out[s]
WorkInv ==
    Fresh /\ ~Resetting =>
      /\ \A s \in StagesOf(Unit) : Match(s)
      /\ Unit = "heat" => \A s \in Heats : s + 1 \in Heats => Chain(s)
      /\ systemOn <=> Unit \in Units /\ st[FirstOf(Unit)] # "Off"
\* The fan runs only with the compressor, the compressor without it only if
\* FanControl has switched the fan off.
FanOk == (fan => out[0]) /\ (out[0] => fan \/ fanCut)

ModeInv ==
    CallsInv /\ PlaceInv /\ OthersInv /\ ResetInv /\ WorkInv /\ FanOk

-----------------------------------------------------------------------------
(* The times *)
LeastOn == Min({MinOn, 2 * K})
Excused(s) == s \in relays => onFor[s] >= LeastOn \/ excuses # {}
FirstUnit(s) == IF s = 0 THEN "cool" ELSE "heat"
Rested(s) == unitOff[FirstUnit(s)] >= LeastOff \/ "abort" \in excuses \/ defeated

\* A stage whose output goes, or is about to go, off has been on long enough.
OnOf(s) ==
    /\ ~out[s] \/ st[s] = "BackToLower" => Excused(s)
    /\ st[s] \in {"StartingOn", "OnTime"} =>
         /\ cycle.onAge <= onFor[s]
         /\ startAge[s] <= onFor[s] \/ onFor[s] >= MinOn
         /\ queue[s] # <<>> /\ queue[s][1] = "OnTimeExpired" => Excused(s)
    /\ queue[s] = <<"ExcessCapacity">> => Excused(s)
OnCalls == \A i \in 1..Len(calls) : calls[i].ev = "ExcessCapacity" => Excused(calls[i].stage)
OnInv ==
    /\ abort => "abort" \in excuses /\ pc \notin Starts
    /\ pc \in Starts => relays = {s \in Stages : out[s]}
    /\ modeChanged \/ ~Fresh \/ Unit = "off" =>
         pc \in Starts \/ relays = {} \/ excuses # {}
    /\ \A s \in Stages : OnOf(s)
    /\ OnCalls

\* The first stage of a unit whose output goes, or is about to go, on has rested.
OffOf(s) ==
    /\ out[s] /\ s \notin relays => Rested(s)
    /\ IsOffCycle(s) =>
         /\ startAge[s] <= unitOff[FirstUnit(s)] \/ UnitRested(FirstUnit(s))
         /\ s \in relays => startAge[s] = 0
         /\ queue[s] # <<>> /\ queue[s][1] = "OffTimeExpired" => Rested(s)
    /\ queue[s] = <<"OnRequest">> => Rested(s)
    /\ queue[s] = <<"NeedMoreCapacity">> => out[s] \/ Rested(s)
OffCallsInv ==
    \A i \in 1..Len(calls) :
      /\ calls[i].ev = "OnRequest" => Rested(calls[i].stage)
      /\ calls[i].ev = "NeedMoreCapacity" /\ calls[i].stage = 1 =>
           Rested(1) \/ (i = 1 /\ stack = <<>> /\ out[1])
OffInv == (\A s \in 0..1 : OffOf(s)) /\ OffCallsInv

-----------------------------------------------------------------------------
(* Sequences of one and of two events *)

\* What the operators on sequences make of an empty one and of a single event
LEMMA OneEvent ==
  ASSUME NEW a
  PROVE  /\ <<a>> # <<>> /\ Head(<<a>>) = a /\ Tail(<<a>>) = <<>>
         /\ <<>> \o <<a>> = <<a>> /\ <<a>> \o <<>> = <<a>>
         /\ <<>> \o <<>> = <<>> /\ Append(<<>>, a) = <<a>>
OBVIOUS

\* Both are sequences.
LEMMA EventSeqs ==
  ASSUME NEW S, NEW a \in S, NEW b \in S
  PROVE  <<a>> \in Seq(S) /\ <<a, b>> \in Seq(S) /\ <<>> \in Seq(S)
OBVIOUS

\* The operators on sequences of two events
LEMMA TwoEvents ==
  ASSUME NEW a, NEW b
  PROVE  /\ <<a, b>> # <<>> /\ Head(<<a, b>>) = a /\ Tail(<<a, b>>) = <<b>>
         /\ <<a>> \o <<b>> = <<a, b>>
<1> DEFINE S == {a, b}
<1>1. <<a>> \in Seq(S) /\ <<b>> \in Seq(S) /\ <<a, b>> \in Seq(S)
  OBVIOUS
<1>2. /\ Len(<<a>>) = 1 /\ Len(<<b>>) = 1 /\ Len(<<a, b>>) = 2
      /\ <<a>>[1] = a /\ <<b>>[1] = b /\ <<a, b>>[1] = a /\ <<a, b>>[2] = b
  OBVIOUS
<1> HIDE DEF S
<1>3. <<a>> \o <<b>> \in Seq(S) /\ Len(<<a>> \o <<b>>) = 2
  BY <1>1, <1>2, ConcatProperties
<1>4. (<<a>> \o <<b>>)[1] = a /\ (<<a>> \o <<b>>)[2] = b
  BY <1>1, <1>2, ConcatProperties
<1>5. \A i \in 1..2 : (<<a>> \o <<b>>)[i] = <<a, b>>[i]
  BY <1>2, <1>4
<1>6. <<a>> \o <<b>> = <<a, b>>
  BY <1>1, <1>2, <1>3, <1>5, SeqEqual
<1> QED BY <1>6

\* The check of a stage reports the end of the time it is in, or nothing.
LEMMA CheckIs ==
  ASSUME NEW s \in Stages, NEW check \in Check(s)
  PROVE  \/ check = <<>>
         \/ st[s] = "OnTime" /\ check = <<"OnTimeExpired">>
         \/ st[s] = "OffTime" /\ check = <<"OffTimeExpired">>
BY DEF Check

\* With the Args_T of this interval a report uses up the abort.
LEMMA CheckUses ==
  ASSUME NEW s \in Stages, NEW check \in Check(s), args[s] = "this"
  PROVE  /\ check # <<>> => ~AbortLeft(s, check)
         /\ ~abort => ~AbortLeft(s, check)
BY DEF AbortLeft

-----------------------------------------------------------------------------
(* What each step makes of the queue of its stage *)

\* A stage that runs has one event in its queue, which is the one it looks at,
\* or two, while a cycle begins or the stage returns to the lower one.
LEMMA EventOf ==
  ASSUME NEW s \in Stages, Running(s), queue[s] # <<>>
  PROVE  \/ /\ st[s] \in RestStates /\ queue[s] = <<Event(s)>>
            /\ Event(s) \in Requests \cup Expired \cup {"LessCapacity"}
            /\ st[s] = "OnTime" /\ Event(s) = "OnTimeExpired" => ~abort
            /\ st[s] = "OffTime" /\ Event(s) = "OffTimeExpired" => ~abort
         \/ st[s] = "FromLower" /\ queue[s] = <<"FromCompleted">>
              /\ Event(s) = "FromCompleted"
         \/ /\ st[s] = "StartingOn" /\ ~abort
            /\ \/ queue[s] = <<"StartingOnExpired">> /\ Event(s) = "StartingOnExpired"
               \/ /\ queue[s] = <<Event(s), "StartingOnExpired">>
                  /\ Event(s) \in Expired \cup {"StartingOffExpired"}
         \/ /\ st[s] = "StartingOff" /\ ~abort
            /\ \/ queue[s] = <<"StartingOffExpired">> /\ Event(s) = "StartingOffExpired"
               \/ /\ queue[s] = <<Event(s), "StartingOffExpired">>
                  /\ Event(s) \in Expired \cup {"StartingOnExpired"}
         \/ /\ st[s] = "BackToLower"
            /\ \/ queue[s] = <<"BackCompleted">> /\ Event(s) = "BackCompleted"
               \/ queue[s] = <<Event(s), "BackCompleted">> /\ Event(s) \in Expired
<1>1. CASE AtRest(s)
  <2>1. PICK e \in Requests \cup Expired \cup {"LessCapacity"} : queue[s] = <<e>>
    BY <1>1 DEF AtRest
  <2>2. Event(s) = e
    BY <2>1, OneEvent DEF Event
  <2> QED BY <1>1, <2>1, <2>2 DEF AtRest
<1>2. CASE Rising(s)
  BY <1>2, OneEvent DEF Rising, Event
<1>3. CASE BeginningOn(s)
  <2>1. CASE queue[s] = <<"StartingOnExpired">>
    BY <1>3, <2>1, OneEvent DEF BeginningOn, Beginning, Event
  <2>2. CASE \E e \in Expired \cup {"StartingOffExpired"} : queue[s] = <<e, "StartingOnExpired">>
    BY <1>3, <2>2, TwoEvents DEF BeginningOn, Beginning, Event
  <2> QED BY <1>3, <2>1, <2>2 DEF BeginningOn, Beginning
<1>4. CASE BeginningOff(s)
  <2>1. CASE queue[s] = <<"StartingOffExpired">>
    BY <1>4, <2>1, OneEvent DEF BeginningOff, Beginning, Event
  <2>2. CASE \E e \in Expired \cup {"StartingOnExpired"} : queue[s] = <<e, "StartingOffExpired">>
    BY <1>4, <2>2, TwoEvents DEF BeginningOff, Beginning, Event
  <2> QED BY <1>4, <2>1, <2>2 DEF BeginningOff, Beginning
<1>5. CASE Returning(s)
  <2>1. CASE queue[s] = <<"BackCompleted">>
    BY <1>5, <2>1, OneEvent DEF Returning, Event
  <2>2. CASE \E e \in Expired : queue[s] = <<e, "BackCompleted">>
    BY <1>5, <2>2, TwoEvents DEF Returning, Event
  <2> QED BY <1>5, <2>1, <2>2 DEF Returning
<1> QED BY <1>1, <1>2, <1>3, <1>4, <1>5 DEF Running

\* The events that are taken by a stage that runs, and its queue then
LEMMA TakenForms ==
  ASSUME NEW s \in Stages, Running(s), queue[s] # <<>>
  PROVE  /\ \A ev \in {"OnRequest", "FromCompleted", "StartingOnExpired",
                       "StartingOffExpired", "ExcessCapacity", "NeedMoreCapacity",
                       "BackCompleted", "LessCapacity", "OffModeRequest"} :
              Takes(s, ev) => queue[s] = <<ev>> /\ st[s] \in TakenIn(ev)
         /\ \A ev \in {"ExcessCapacity", "NeedMoreCapacity"} :
              Takes(s, ev) => st[s] \in {"OnTime", "OffTime"}
         /\ Takes(s, "OffModeRequest") => st[s] \in {"OnTime", "OffTime", "Supplementing"}
         /\ Takes(s, "OnTimeExpired") => 
              \/ st[s] = "OnTime" /\ queue[s] = <<"OnTimeExpired">> /\ ~abort
              \/ /\ st[s] = "StartingOn" /\ ~abort
                 /\ queue[s] = <<"OnTimeExpired", "StartingOnExpired">>
         /\ Takes(s, "OffTimeExpired") => 
              \/ st[s] = "OffTime" /\ queue[s] = <<"OffTimeExpired">> /\ ~abort
              \/ /\ st[s] = "StartingOff" /\ ~abort
                 /\ queue[s] = <<"OffTimeExpired", "StartingOffExpired">>
<1>1. \A ev \in {"OnRequest", "FromCompleted", "StartingOnExpired",
                 "StartingOffExpired", "ExcessCapacity", "NeedMoreCapacity",
                 "BackCompleted", "LessCapacity", "OffModeRequest"} :
         Takes(s, ev) => queue[s] = <<ev>> /\ st[s] \in TakenIn(ev)
  BY EventOf DEF Takes, TakenIn, RestStates, Requests, Expired
<1>2. \A ev \in {"ExcessCapacity", "NeedMoreCapacity"} :
         Takes(s, ev) => st[s] \in {"OnTime", "OffTime"}
  BY EventOf DEF Takes, TakenIn, RestStates, Requests, Expired
<1>3. Takes(s, "OffModeRequest") => st[s] \in {"OnTime", "OffTime", "Supplementing"}
  BY EventOf DEF Takes, TakenIn, RestStates, Requests, Expired
<1>4. Takes(s, "OnTimeExpired") => 
        \/ st[s] = "OnTime" /\ queue[s] = <<"OnTimeExpired">> /\ ~abort
        \/ /\ st[s] = "StartingOn" /\ ~abort
           /\ queue[s] = <<"OnTimeExpired", "StartingOnExpired">>
  BY EventOf DEF Takes, TakenIn, RestStates
<1>5. Takes(s, "OffTimeExpired") => 
        \/ st[s] = "OffTime" /\ queue[s] = <<"OffTimeExpired">> /\ ~abort
        \/ /\ st[s] = "StartingOff" /\ ~abort
           /\ queue[s] = <<"OffTimeExpired", "StartingOffExpired">>
  BY EventOf DEF Takes, TakenIn, RestStates
<1> QED BY <1>1, <1>2, <1>3, <1>4, <1>5

\* A stage that is switched on has the event that begins its on time to come,
\* after the end of that time if the cycle is aborted.
OnQueue == IF abort THEN <<"OnTimeExpired", "StartingOnExpired">>
           ELSE <<"StartingOnExpired">>
LEMMA EnterOn ==
  ASSUME queue \in [Stages -> Seq(Events)], abort \in BOOLEAN, NEW s \in Stages,
         NEW e, queue[s] = <<e>>,
         EnterCycle(s, TRUE, <<>>)
  PROVE  queue' = [queue EXCEPT ![s] = OnQueue]
<1> DEFINE over == <<"StartingOnExpired">>
           exp == <<"OnTimeExpired">>
           again == AbortLeft(s, <<>>)
           more == (IF again THEN <<"OnTimeExpired">> ELSE <<>>) \o over
<1>1. queue' = [queue EXCEPT ![s] = Tail(queue[s]) \o <<>> \o more]
  BY DEF EnterCycle, Queue
<1>2. again <=> abort
  BY DEF AbortLeft
<1>3. more = OnQueue
  <2>1. exp \o over = <<"OnTimeExpired", "StartingOnExpired">> /\ <<>> \o over = over
    BY OneEvent, TwoEvents
  <2> QED BY <1>2, <2>1 DEF OnQueue
<1>4. Tail(queue[s]) \o <<>> = <<>>
  BY OneEvent
<1>5. <<>> \o OnQueue = OnQueue
  <2>1. OnQueue \in Seq(Events)
    <3>1. "OnTimeExpired" \in Events /\ "StartingOnExpired" \in Events
      BY DEF Events, Expired
    <3> QED BY <3>1, EventSeqs DEF OnQueue
  <2> QED BY <2>1, ConcatEmptySeq
<1> HIDE DEF more
<1> QED BY <1>1, <1>3, <1>4, <1>5

\* When a time is over the next one begins; what the check has reported or the
\* end of the beginning is then still to be dropped.
LEMMA EnterNext ==
  ASSUME queue \in [Stages -> Seq(Events)], abort \in BOOLEAN, NEW s \in Stages,
         Running(s), Served(s), queue[s] # <<>>,
         NEW check \in Check(s), TimeExpired(s, check)
  PROVE  \/ /\ IsOnCycle(s) /\ ~abort
            /\ \E q \in {<<"StartingOffExpired">>, <<"OnTimeExpired", "StartingOffExpired">>,
                         <<"StartingOnExpired", "StartingOffExpired">>} :
                 queue' = [queue EXCEPT ![s] = q]
            /\ Event(s) = "OnTimeExpired"
            /\ EnterCycle(s, FALSE, check)
         \/ /\ IsOffCycle(s) /\ ~abort
            /\ \E q \in {<<"StartingOnExpired">>, <<"OffTimeExpired", "StartingOnExpired">>,
                         <<"StartingOffExpired", "StartingOnExpired">>} :
                 queue' = [queue EXCEPT ![s] = q]
            /\ Event(s) = "OffTimeExpired"
            /\ EnterCycle(s, TRUE, check)
<1>1. CASE IsOnCycle(s)
  <2>0. IsOffCycle(s) = FALSE
    BY <1>1 DEF IsOnCycle, IsOffCycle
  <2>1. Takes(s, "OnTimeExpired") /\ EnterCycle(s, FALSE, check)
    BY <1>1, <2>0 DEF TimeExpired
  <2> DEFINE over == <<"StartingOffExpired">>
  <2>2. ~abort /\ ~AbortLeft(s, check)
    BY <2>1, TakenForms DEF AbortLeft
  <2>3. queue' = [queue EXCEPT ![s] = Tail(queue[s]) \o check \o (<<>> \o over)]
    BY <2>1, <2>2 DEF EnterCycle, Queue
  <2>4. CASE st[s] = "OnTime" /\ queue[s] = <<"OnTimeExpired">> /\ check = <<>>
    <3>1. Tail(queue[s]) \o check \o (<<>> \o over) = over
      BY <2>4, OneEvent
    <3> QED BY <1>1, <2>1, <2>2, <2>3, <3>1 DEF Takes
  <2>5. CASE st[s] = "OnTime" /\ queue[s] = <<"OnTimeExpired">> /\ check = <<"OnTimeExpired">>
    <3>1. Tail(queue[s]) \o check = <<"OnTimeExpired">> /\ <<>> \o over = over
      BY <2>5, OneEvent
    <3>2. <<"OnTimeExpired">> \o over = <<"OnTimeExpired", "StartingOffExpired">>
      BY TwoEvents
    <3> QED BY <1>1, <2>1, <2>2, <2>3, <3>1, <3>2 DEF Takes
  <2>6. CASE st[s] = "StartingOn" /\ queue[s] = <<"OnTimeExpired", "StartingOnExpired">>
    <3>1. check = <<>>
      BY <2>6, CheckIs
    <3>2. Tail(queue[s]) \o check = <<"StartingOnExpired">> /\ <<>> \o over = over
      BY <2>6, <3>1, OneEvent, TwoEvents
    <3>3. <<"StartingOnExpired">> \o over = <<"StartingOnExpired", "StartingOffExpired">>
      BY TwoEvents
    <3> QED BY <1>1, <2>1, <2>2, <2>3, <3>2, <3>3 DEF Takes
  <2> QED BY <2>1, <2>4, <2>5, <2>6, TakenForms, CheckIs
<1>2. CASE ~IsOnCycle(s)
  <2>1. Takes(s, "OffTimeExpired") /\ IsOffCycle(s) /\ EnterCycle(s, TRUE, check)
    BY <1>2 DEF TimeExpired, IsOnCycle, IsOffCycle, Takes, TakenIn
  <2> DEFINE over == <<"StartingOnExpired">>
  <2>2. ~abort /\ ~AbortLeft(s, check)
    BY <2>1, TakenForms DEF AbortLeft
  <2>3. queue' = [queue EXCEPT ![s] = Tail(queue[s]) \o check \o (<<>> \o over)]
    BY <2>1, <2>2 DEF EnterCycle, Queue
  <2>4. CASE st[s] = "OffTime" /\ queue[s] = <<"OffTimeExpired">> /\ check = <<>>
    <3>1. Tail(queue[s]) \o check \o (<<>> \o over) = over
      BY <2>4, OneEvent
    <3> QED BY <2>1, <2>2, <2>3, <3>1 DEF Takes
  <2>5. CASE st[s] = "OffTime" /\ queue[s] = <<"OffTimeExpired">> /\ check = <<"OffTimeExpired">>
    <3>1. Tail(queue[s]) \o check = <<"OffTimeExpired">> /\ <<>> \o over = over
      BY <2>5, OneEvent
    <3>2. <<"OffTimeExpired">> \o over = <<"OffTimeExpired", "StartingOnExpired">>
      BY TwoEvents
    <3> QED BY <2>1, <2>2, <2>3, <3>1, <3>2 DEF Takes
  <2>6. CASE st[s] = "StartingOff" /\ queue[s] = <<"OffTimeExpired", "StartingOffExpired">>
    <3>1. check = <<>>
      BY <2>6, CheckIs
    <3>2. Tail(queue[s]) \o check = <<"StartingOffExpired">> /\ <<>> \o over = over
      BY <2>6, <3>1, OneEvent, TwoEvents
    <3>3. <<"StartingOffExpired">> \o over = <<"StartingOffExpired", "StartingOnExpired">>
      BY TwoEvents
    <3> QED BY <2>1, <2>2, <2>3, <3>2, <3>3 DEF Takes
  <2> QED BY <2>1, <2>4, <2>5, <2>6, TakenForms, CheckIs
<1> QED BY <1>1, <1>2

\* A stage with a single event leaves what its check reports.
LEMMA LeaveCheck ==
  ASSUME queue \in [Stages -> Seq(Events)], abort \in BOOLEAN, NEW s \in Stages,
         NEW e, queue[s] = <<e>>,
         NEW check \in Check(s)
  PROVE  /\ Queue(s, check, <<>>) => queue' = [queue EXCEPT ![s] = check]
         /\ Tail(queue[s]) \o check = check
         /\ Queue(s, check, <<"BackCompleted">>) =>
              \E q \in {<<"BackCompleted">>, <<"OnTimeExpired", "BackCompleted">>,
                        <<"OffTimeExpired", "BackCompleted">>} :
                queue' = [queue EXCEPT ![s] = q]
<1>1. check \in {<<>>, <<"OnTimeExpired">>, <<"OffTimeExpired">>}
  BY CheckIs
<1>2. Tail(queue[s]) \o check = check /\ check \o <<>> = check
  <2>1. check \in Seq(Events)
    BY <1>1, EventSeqs DEF Events, Expired
  <2>2. Tail(queue[s]) = <<>>
    BY OneEvent
  <2> QED BY <2>1, <2>2, ConcatEmptySeq
<1>3. check \o <<"BackCompleted">> \in
        {<<"BackCompleted">>, <<"OnTimeExpired", "BackCompleted">>,
         <<"OffTimeExpired", "BackCompleted">>}
  <2>1. CASE check = <<>>
    BY <2>1, OneEvent
  <2>2. CASE check = <<"OnTimeExpired">>
    BY <2>2, TwoEvents
  <2>3. CASE check = <<"OffTimeExpired">>
    BY <2>3, TwoEvents
  <2> QED BY <1>1, <2>1, <2>2, <2>3
<1> QED BY <1>2, <1>3 DEF Queue

-----------------------------------------------------------------------------
(* The shape is kept *)

SameAs(r) ==
    /\ st'[r] = st[r] /\ queue'[r] = queue[r] /\ args'[r] = args[r]
    /\ supplemented'[r] = supplemented[r]
    /\ prevStage'[r] = prevStage[r] /\ nextStage'[r] = nextStage[r]

\* A stage that others do not look at, or that stays as it is, stays in shape.
LEMMA SameShape ==
  ASSUME NEW r \in Stages, SameAs(r)
  PROVE  /\ Settled(r) => Settled(r)'
         /\ Waiting(r) => Waiting(r)'
         /\ Served(r) => Served(r)'
         /\ ArgsOf(r) => ArgsOf(r)'
         /\ LinkOf(r) => LinkOf(r)'
BY DEF SameAs, Settled, Waiting, Served, ArgsOf, LinkOf

\* The stage that is at the top of the stack
LEMMA TopOf ==
  ASSUME StackInv, NEW s \in Stages, stack # <<>>, s = Head(stack)
  PROVE  /\ Running(s) /\ Served(s)
         /\ Alone(s) \/ \E low \in Stages : Above(s, low)
<1>1. CASE \E t \in Stages : Alone(t)
  <2>1. PICK t \in Stages : Alone(t)
    BY <1>1
  <2>2. t = s
    BY <2>1, OneEvent DEF Alone
  <2> QED BY <2>1, <2>2 DEF Alone
<1>2. CASE \E t, low \in Stages : Above(t, low)
  <2>1. PICK t \in Stages, low \in Stages : Above(t, low)
    BY <1>2
  <2>2. t = s
    BY <2>1, TwoEvents DEF Above
  <2> QED BY <2>1, <2>2 DEF Above
<1> QED BY <1>1, <1>2 DEF StackInv

\* A step that touches the stage at the top alone
LEMMA LocalStep ==
  ASSUME StackInv, StagesInv, NEW s \in Stages, stack # <<>>, s = Head(stack),
         stack' = stack, \A r \in Stages \ {s} : SameAs(r),
         Running(s)', Served(s)', ArgsOf(s)', LinkOf(s)', Calm(s) => Calm(s)'
  PROVE  StackInv' /\ StagesInv'
<1>1. StagesInv'
  <2> SUFFICES ASSUME NEW r \in Stages PROVE (ArgsOf(r) /\ LinkOf(r))'
    BY DEF StagesInv
  <2>1. CASE r = s
    BY <2>1
  <2>2. CASE r # s
    BY <2>2, SameShape DEF StagesInv
  <2> QED BY <2>1, <2>2
<1>2. CASE Alone(s)
  <2>1. NoOtherThan({s})'
    BY <1>2, SameShape DEF Alone, NoOtherThan
  <2>2. Alone(s)'
    BY <1>2, <2>1 DEF Alone
  <2> QED BY <1>1, <2>2 DEF StackInv
<1>3. ASSUME NEW low \in Stages, Above(s, low) PROVE StackInv'
  <2>1. NoOtherThan({s, low})'
    BY <1>3, SameShape DEF Above, NoOtherThan
  <2>2. Waiting(low)' /\ Served(low)'
    BY <1>3, SameShape DEF Above
  <2>3. Above(s, low)'
    BY <1>3, <2>1, <2>2 DEF Above
  <2> QED BY <2>3 DEF StackInv
<1> QED BY <1>1, <1>2, <1>3, TopOf

\* The shapes of a stage that starts its on time, ...
LEMMA StartedOn ==
  ASSUME NEW s \in Stages, st'[s] = "StartingOn", ~abort',
         \/ queue'[s] = <<"StartingOnExpired">>
         \/ \E e \in Expired \cup {"StartingOffExpired"} :
              queue'[s] = <<e, "StartingOnExpired">>
  PROVE  /\ Running(s)' /\ Calm(s)'
         /\ queue'[s] # <<"OnRequest">> /\ queue'[s] # <<"OffModeRequest">>
         /\ queue'[s] # <<"NeedMoreCapacity">> /\ queue'[s] # <<"LessCapacity">>
         /\ queue'[s] # <<"ExcessCapacity">>
<1>1. BeginningOn(s)'
  BY DEF BeginningOn, Beginning
<1>2. /\ queue'[s] # <<"OnRequest">> /\ queue'[s] # <<"OffModeRequest">>
      /\ queue'[s] # <<"NeedMoreCapacity">> /\ queue'[s] # <<"LessCapacity">>
      /\ queue'[s] # <<"ExcessCapacity">>
  BY DEF Expired
<1> QED BY <1>1, <1>2 DEF Running, Calm

\* ... and of one that starts its off time
LEMMA StartedOff ==
  ASSUME NEW s \in Stages, st'[s] = "StartingOff", ~abort',
         \/ queue'[s] = <<"StartingOffExpired">>
         \/ \E e \in Expired \cup {"StartingOnExpired"} :
              queue'[s] = <<e, "StartingOffExpired">>
  PROVE  /\ Running(s)' /\ Calm(s)'
         /\ queue'[s] # <<"OnRequest">> /\ queue'[s] # <<"OffModeRequest">>
         /\ queue'[s] # <<"NeedMoreCapacity">> /\ queue'[s] # <<"LessCapacity">>
         /\ queue'[s] # <<"ExcessCapacity">>
<1>1. BeginningOff(s)'
  BY DEF BeginningOff, Beginning
<1>2. /\ queue'[s] # <<"OnRequest">> /\ queue'[s] # <<"OffModeRequest">>
      /\ queue'[s] # <<"NeedMoreCapacity">> /\ queue'[s] # <<"LessCapacity">>
      /\ queue'[s] # <<"ExcessCapacity">>
  BY DEF Expired
<1> QED BY <1>1, <1>2 DEF Running, Calm

\* A stage runs in a state of the right shape, and the shape after its step
Runs(s) ==
    /\ StageTypes /\ StackInv /\ StagesInv
    /\ stack # <<>> /\ s = Head(stack) /\ queue[s] # <<>>
ShapeNext == StageTypes' /\ StackInv' /\ StagesInv'
\* It goes to `state', with the queue q, and touches no other stage.
Moves(s, state, q) ==
    /\ st'[s] = state /\ queue'[s] = q /\ stack' = stack
    /\ \A r \in Stages \ {s} : SameAs(r)

\* The ranges of the constants
LEMMA Constants ==
  /\ NumHeat \in 1..3 /\ Stages = 0..NumHeat /\ Heats = 1..NumHeat
  /\ Equipments \subseteq [heat : 0..NumHeat, cool : 0..1]
  /\ PvValues \subseteq Nat /\ 0 \in PvValues
  /\ K \in Nat \ {0} /\ MinOn \in Nat /\ MinOff \in Nat /\ MinUnitOff \in Nat
  /\ Hysteresis \in Nat /\ MaxAge \in Nat /\ MaxAge >= 2 /\ Aborts \in BOOLEAN
BY ThermostatAssumption DEF Stages, Heats

\* What is written into cycleInfo
LEMMA CycleTypes ==
  /\ [mode |-> "ON_CYCLE", onAge |-> 0] \in Cycles
  /\ \A c \in Cycles : /\ [c EXCEPT !.mode = "OFF"] \in Cycles
                       /\ [c EXCEPT !.mode = "OFF_CYCLE"] \in Cycles
<1>1. 0 \in 0..MinOn
  BY Constants
<1>2. [mode |-> "ON_CYCLE", onAge |-> 0] \in Cycles
  BY <1>1 DEF Cycles
<1>3. ASSUME NEW c \in Cycles, NEW m \in {"OFF", "OFF_CYCLE"}
      PROVE  [c EXCEPT !.mode = m] \in Cycles
  <2>1. c.onAge \in 0..MinOn /\ c = [mode |-> c.mode, onAge |-> c.onAge]
    BY DEF Cycles
  <2>2. [c EXCEPT !.mode = m] = [mode |-> m, onAge |-> c.onAge]
    BY <2>1
  <2> QED BY <2>1, <2>2 DEF Cycles
<1> QED BY <1>2, <1>3

\* The events, by name
LEMMA EventNames ==
  /\ "OnTimeExpired" \in Events /\ "OffTimeExpired" \in Events
  /\ "StartingOnExpired" \in Events /\ "StartingOffExpired" \in Events
  /\ "FromCompleted" \in Events /\ "BackCompleted" \in Events
  /\ "LessCapacity" \in Events /\ "OnRequest" \in Events
  /\ Requests \subseteq Events /\ Expired \subseteq Events
BY DEF Events, Requests, Expired

\* What is written into the outputs
LEMMA OutputTypes ==
  ASSUME StageTypes, NEW s \in Stages, NEW on \in BOOLEAN, StageOutput(s, on)
  PROVE  /\ out' \in [Stages -> BOOLEAN] /\ fan' \in BOOLEAN /\ fanCut' \in BOOLEAN
         /\ out'[s] = on /\ \A r \in Stages \ {s} : out'[r] = out[r]
BY DEF StageTypes, StageOutput

\* What a stage that enters a cycle leaves alone
LEMMA EnterStage ==
  ASSUME StageTypes, NEW s \in Stages, NEW on \in BOOLEAN, NEW check,
         EnterCycle(s, on, check), NEW q \in Seq(Events),
         queue' = [queue EXCEPT ![s] = q],
         UNCHANGED <<nextStage, prevStage, supplemented, args>>, systemOn' \in BOOLEAN
  PROVE  /\ StageTypes' /\ ~abort' /\ queue'[s] = q
         /\ st'[s] = IF on THEN "StartingOn" ELSE "StartingOff"
         /\ \A r \in Stages \ {s} : SameAs(r)
<1>1. StageTypes'
  <2>1. st' \in [Stages -> RestStates \cup {"FromLower", "StartingOn", "StartingOff",
                                           "BackToLower"}]
    BY DEF StageTypes, EnterCycle
  <2>2. queue' \in [Stages -> Seq(Events)]
    BY DEF StageTypes
  <2>3. startAge' \in [Stages -> 0..MaxAge] /\ abort' \in BOOLEAN
    <3>1. startAge' = [startAge EXCEPT ![s] = 0] /\ abort' = FALSE
      BY DEF EnterCycle
    <3>2. 0 \in 0..MaxAge
      BY Constants
    <3> QED BY <3>1, <3>2 DEF StageTypes
  <2>4. out' \in [Stages -> BOOLEAN] /\ fan' \in BOOLEAN /\ fanCut' \in BOOLEAN
    BY DEF StageTypes, EnterCycle, StageOutput
  <2>5. cycle' \in Cycles
    <3>1. \/ cycle' = [mode |-> "ON_CYCLE", onAge |-> 0]
          \/ cycle' = [cycle EXCEPT !.mode = "OFF_CYCLE"]
      BY DEF EnterCycle
    <3> QED BY <3>1, CycleTypes DEF StageTypes
  <2> QED BY <2>1, <2>2, <2>3, <2>4, <2>5 DEF StageTypes
<1>2. /\ st'[s] = IF on THEN "StartingOn" ELSE "StartingOff"
      /\ queue'[s] = q /\ ~abort'
  BY DEF EnterCycle, StageTypes
<1>3. \A r \in Stages \ {s} : SameAs(r)
  BY DEF SameAs, EnterCycle, StageTypes
<1> QED BY <1>1, <1>2, <1>3

\* The queue of a stage that is switched on
LEMMA OnQueueIs ==
  /\ OnQueue \in Seq(Events)
  /\ \/ OnQueue = <<"StartingOnExpired">>
     \/ \E e \in Expired \cup {"StartingOffExpired"} : OnQueue = <<e, "StartingOnExpired">>
<1>1. "OnTimeExpired" \in Events /\ "StartingOnExpired" \in Events
  BY DEF Events, Expired
<1> QED BY <1>1, EventSeqs DEF OnQueue, Expired

\* A stage is switched on.
LEMMA SwitchOnShape ==
  ASSUME NEW s \in Stages, Runs(s), SwitchOn(s)
  PROVE  /\ ShapeNext
         /\ queue[s] = <<"OnRequest">> /\ st[s] = "Off" /\ ~supplemented[s] /\ First(s)
         /\ Moves(s, "StartingOn", OnQueue)
<1>1. Running(s) /\ Served(s) /\ ArgsOf(s) /\ LinkOf(s)
  BY TopOf DEF Runs, StagesInv
<1>2. queue[s] = <<"OnRequest">> /\ st[s] = "Off" /\ ~supplemented[s]
  BY <1>1, TakenForms DEF Runs, SwitchOn, Takes, TakenIn
<1>3. EnterCycle(s, TRUE, <<>>) /\ systemOn' \in BOOLEAN
  BY DEF SwitchOn
<1>4. queue' = [queue EXCEPT ![s] = OnQueue]
  BY <1>2, <1>3, EnterOn DEF Runs, StageTypes
<1>5. UNCHANGED <<nextStage, prevStage, supplemented, args, stack>>
  BY DEF SwitchOn
<1>6. /\ StageTypes' /\ ~abort' /\ queue'[s] = OnQueue /\ st'[s] = "StartingOn"
      /\ \A r \in Stages \ {s} : SameAs(r)
  BY <1>3, <1>4, <1>5, OnQueueIs, EnterStage DEF Runs
<1>7. /\ Running(s)' /\ Calm(s)' /\ queue'[s] # <<"OnRequest">>
      /\ queue'[s] # <<"NeedMoreCapacity">>
  BY <1>6, OnQueueIs, StartedOn
<1>8. Served(s)' /\ ArgsOf(s)' /\ LinkOf(s)'
  BY <1>1, <1>2, <1>5, <1>6, <1>7 DEF Served, ArgsOf, LinkOf
<1>9. First(s)
  BY <1>1, <1>2, Constants DEF LinkOf, First
<1> QED BY <1>2, <1>5, <1>6, <1>7, <1>8, <1>9, LocalStep DEF Runs, ShapeNext, Moves

\* A stage that is to support a lower one rises.
LEMMA FromLowerShape ==
  ASSUME NEW s \in Stages, Runs(s), FromLower(s)
  PROVE  /\ ShapeNext
         /\ queue[s] = <<"OnRequest">> /\ st[s] = "Off" /\ supplemented[s]
         /\ Moves(s, "FromLower", <<"FromCompleted">>)
<1>1. Running(s) /\ Served(s) /\ ArgsOf(s) /\ LinkOf(s)
  BY TopOf DEF Runs, StagesInv
<1>2. queue[s] = <<"OnRequest">> /\ st[s] = "Off" /\ supplemented[s]
  BY <1>1, TakenForms DEF Runs, FromLower, Takes, TakenIn
<1>3. queue' = [queue EXCEPT ![s] = <<"FromCompleted">>]
  BY <1>2, OneEvent DEF FromLower, Queue
<1>4. UNCHANGED <<nextStage, prevStage, supplemented, args, startAge, argVars, stack>>
  BY DEF FromLower
<1>5. st' = [st EXCEPT ![s] = "FromLower"]
  BY DEF FromLower
<1>6. <<"FromCompleted">> \in Seq(Events)
  BY EventSeqs DEF Events
<1>7. StageTypes'
  BY <1>3, <1>4, <1>5, <1>6 DEF Runs, StageTypes, argVars
<1>8. \A r \in Stages \ {s} : SameAs(r)
  BY <1>3, <1>4, <1>5 DEF SameAs, Runs, StageTypes
<1>9. st'[s] = "FromLower" /\ queue'[s] = <<"FromCompleted">>
  BY <1>3, <1>5 DEF Runs, StageTypes
<1>10. Running(s)' /\ Calm(s)' /\ Served(s)' /\ ArgsOf(s)' /\ LinkOf(s)'
  BY <1>1, <1>2, <1>4, <1>9 DEF Running, Rising, Calm, Served, ArgsOf, LinkOf
<1> QED BY <1>2, <1>4, <1>7, <1>8, <1>9, <1>10, LocalStep DEF Runs, ShapeNext, Moves

\* A stage that has risen, or that is no longer supported, starts its on time.
LEMMA RestartShape ==
  ASSUME NEW s \in Stages, Runs(s), FromCompleted(s) \/ LessCapacity(s)
  PROVE  /\ ShapeNext
         /\ \/ queue[s] = <<"FromCompleted">> /\ st[s] = "FromLower"
            \/ queue[s] = <<"LessCapacity">> /\ st[s] = "Supplementing"
         /\ Moves(s, "StartingOn", OnQueue)
<1>1. Running(s) /\ Served(s) /\ ArgsOf(s) /\ LinkOf(s)
  BY TopOf DEF Runs, StagesInv
<1>2. \/ queue[s] = <<"FromCompleted">> /\ st[s] = "FromLower"
      \/ queue[s] = <<"LessCapacity">> /\ st[s] = "Supplementing"
  BY <1>1, TakenForms DEF Runs, FromCompleted, LessCapacity, Takes, TakenIn
<1>3. EnterCycle(s, TRUE, <<>>) /\ systemOn' \in BOOLEAN
  BY DEF FromCompleted, LessCapacity, Runs, StageTypes
<1>4. queue' = [queue EXCEPT ![s] = OnQueue]
  BY <1>2, <1>3, EnterOn DEF Runs, StageTypes
<1>5. UNCHANGED <<nextStage, prevStage, supplemented, args, stack>>
  BY DEF FromCompleted, LessCapacity
<1>6. /\ StageTypes' /\ ~abort' /\ queue'[s] = OnQueue /\ st'[s] = "StartingOn"
      /\ \A r \in Stages \ {s} : SameAs(r)
  BY <1>3, <1>4, <1>5, OnQueueIs, EnterStage DEF Runs
<1>7. /\ Running(s)' /\ Calm(s)' /\ queue'[s] # <<"OnRequest">>
      /\ queue'[s] # <<"NeedMoreCapacity">>
  BY <1>6, OnQueueIs, StartedOn
<1>8. queue[s] # <<"OffModeRequest">> /\ queue[s] # <<"OnRequest">>
  BY <1>2
<1>9. Served(s)' /\ ArgsOf(s)' /\ LinkOf(s)'
  BY <1>1, <1>2, <1>5, <1>6, <1>7, <1>8 DEF Served, ArgsOf, LinkOf
<1> QED BY <1>2, <1>5, <1>6, <1>7, <1>9, LocalStep DEF Runs, ShapeNext, Moves

\* The beginning of a time is over.
LEMMA StartingExpiredShape ==
  ASSUME NEW s \in Stages, Runs(s), StartingExpired(s)
  PROVE  /\ ShapeNext
         /\ \/ st[s] = "StartingOn" /\ Moves(s, "OnTime", <<>>)
            \/ st[s] = "StartingOff" /\ Moves(s, "OffTime", <<>>)
<1>1. Running(s) /\ Served(s) /\ ArgsOf(s) /\ LinkOf(s)
  BY TopOf DEF Runs, StagesInv
<1> DEFINE on == IsOnCycle(s)
           next == IF on THEN "OnTime" ELSE "OffTime"
<1>2. /\ Takes(s, IF on THEN "StartingOnExpired" ELSE "StartingOffExpired")
      /\ st' = [st EXCEPT ![s] = next]
      /\ StageOutput(s, on) /\ Queue(s, <<>>, <<>>)
      /\ UNCHANGED <<nextStage, prevStage, supplemented, args, startAge, cycle,
                     systemOn, abort, stack>>
  BY DEF StartingExpired
<1>3. \/ on /\ st[s] = "StartingOn" /\ queue[s] = <<"StartingOnExpired">>
      \/ ~on /\ st[s] = "StartingOff" /\ queue[s] = <<"StartingOffExpired">>
  BY <1>1, <1>2, TakenForms DEF Runs, TakenIn
<1>4. queue' = [queue EXCEPT ![s] = <<>>]
  <2>1. Tail(queue[s]) \o <<>> \o <<>> = <<>>
    BY <1>3, OneEvent
  <2> QED BY <1>2, <2>1 DEF Queue
<1>5. <<>> \in Seq(Events)
  OBVIOUS
<1>6. StageTypes'
  <2>1. out' \in [Stages -> BOOLEAN] /\ fan' \in BOOLEAN /\ fanCut' \in BOOLEAN
    <3>1. on \in BOOLEAN
      BY DEF IsOnCycle
    <3> QED BY <1>2, <3>1, OutputTypes DEF Runs
  <2> QED BY <1>2, <1>4, <1>5, <2>1 DEF Runs, StageTypes, RestStates
<1>7. st'[s] = next /\ queue'[s] = <<>>
  BY <1>2, <1>4 DEF Runs, StageTypes
<1>8. \A r \in Stages \ {s} : SameAs(r)
  BY <1>2, <1>4 DEF SameAs, Runs, StageTypes
<1>9. Running(s)' /\ Calm(s)'
  BY <1>7 DEF Running, AtRest, RestStates, Calm
<1>10. Served(s)' /\ ArgsOf(s)' /\ LinkOf(s)'
  BY <1>1, <1>2, <1>3, <1>7 DEF Served, ArgsOf, LinkOf
<1> QED
  BY <1>2, <1>3, <1>6, <1>7, <1>8, <1>9, <1>10, LocalStep DEF Runs, ShapeNext, Moves

\* A time is over and the next one begins.
LEMMA TimeExpiredShape ==
  ASSUME NEW s \in Stages, Runs(s), NEW check \in Check(s), TimeExpired(s, check)
  PROVE  /\ ShapeNext
         /\ \/ /\ IsOnCycle(s) /\ Event(s) = "OnTimeExpired"
               /\ EnterCycle(s, FALSE, check)
               /\ \E q : /\ Moves(s, "StartingOff", q)
                         /\ q = <<"StartingOffExpired">>
                            \/ \E e \in {"OnTimeExpired", "StartingOnExpired"} :
                                 q = <<e, "StartingOffExpired">>
            \/ /\ IsOffCycle(s) /\ Event(s) = "OffTimeExpired"
               /\ EnterCycle(s, TRUE, check)
               /\ \E q : /\ Moves(s, "StartingOn", q)
                         /\ q = <<"StartingOnExpired">>
                            \/ \E e \in {"OffTimeExpired", "StartingOffExpired"} :
                                 q = <<e, "StartingOnExpired">>
<1>1. Running(s) /\ Served(s) /\ ArgsOf(s) /\ LinkOf(s)
  BY TopOf DEF Runs, StagesInv
<1>2. /\ UNCHANGED <<nextStage, prevStage, supplemented, args, stack>>
      /\ systemOn' \in BOOLEAN
  BY DEF TimeExpired, Runs, StageTypes
<1>3. CASE /\ IsOnCycle(s) /\ ~abort
           /\ \E q \in {<<"StartingOffExpired">>, <<"OnTimeExpired", "StartingOffExpired">>,
                        <<"StartingOnExpired", "StartingOffExpired">>} :
                queue' = [queue EXCEPT ![s] = q]
           /\ Event(s) = "OnTimeExpired"
           /\ EnterCycle(s, FALSE, check)
  <2>1. PICK q \in {<<"StartingOffExpired">>, <<"OnTimeExpired", "StartingOffExpired">>,
                    <<"StartingOnExpired", "StartingOffExpired">>} :
          queue' = [queue EXCEPT ![s] = q]
    BY <1>3
  <2>2. q \in Seq(Events)
    BY EventNames, EventSeqs
  <2>3. /\ StageTypes' /\ ~abort' /\ queue'[s] = q /\ st'[s] = "StartingOff"
        /\ \A r \in Stages \ {s} : SameAs(r)
    BY <1>2, <1>3, <2>1, <2>2, EnterStage DEF Runs
  <2>4. /\ Running(s)' /\ Calm(s)' /\ queue'[s] # <<"OnRequest">>
        /\ queue'[s] # <<"NeedMoreCapacity">>
    BY <2>1, <2>3, StartedOff DEF Expired
  <2>5. st[s] # "Off" /\ queue[s] # <<"OffModeRequest">>
    BY <1>3, OneEvent DEF IsOnCycle, Event
  <2>6. Served(s)' /\ ArgsOf(s)' /\ LinkOf(s)'
    BY <1>1, <1>2, <2>3, <2>4, <2>5 DEF Served, ArgsOf, LinkOf
  <2>7. ShapeNext /\ Moves(s, "StartingOff", q)
    BY <1>2, <2>3, <2>4, <2>6, LocalStep DEF Runs, ShapeNext, Moves
  <2> QED BY <1>3, <2>1, <2>7
<1>4. CASE /\ IsOffCycle(s) /\ ~abort
           /\ \E q \in {<<"StartingOnExpired">>, <<"OffTimeExpired", "StartingOnExpired">>,
                        <<"StartingOffExpired", "StartingOnExpired">>} :
                queue' = [queue EXCEPT ![s] = q]
           /\ Event(s) = "OffTimeExpired"
           /\ EnterCycle(s, TRUE, check)
  <2>1. PICK q \in {<<"StartingOnExpired">>, <<"OffTimeExpired", "StartingOnExpired">>,
                    <<"StartingOffExpired", "StartingOnExpired">>} :
          queue' = [queue EXCEPT ![s] = q]
    BY <1>4
  <2>2. q \in Seq(Events)
    BY EventNames, EventSeqs
  <2>3. /\ StageTypes' /\ ~abort' /\ queue'[s] = q /\ st'[s] = "StartingOn"
        /\ \A r \in Stages \ {s} : SameAs(r)
    BY <1>2, <1>4, <2>1, <2>2, EnterStage DEF Runs
  <2>4. /\ Running(s)' /\ Calm(s)' /\ queue'[s] # <<"OnRequest">>
        /\ queue'[s] # <<"NeedMoreCapacity">>
    BY <2>1, <2>3, StartedOn DEF Expired
  <2>5. st[s] # "Off" /\ queue[s] # <<"OffModeRequest">>
    BY <1>4, OneEvent DEF IsOffCycle, Event
  <2>6. Served(s)' /\ ArgsOf(s)' /\ LinkOf(s)'
    BY <1>1, <1>2, <2>3, <2>4, <2>5 DEF Served, ArgsOf, LinkOf
  <2>7. ShapeNext /\ Moves(s, "StartingOn", q)
    BY <1>2, <2>3, <2>4, <2>6, LocalStep DEF Runs, ShapeNext, Moves
  <2> QED BY <1>4, <2>1, <2>7
<1>5. queue \in [Stages -> Seq(Events)] /\ abort \in BOOLEAN /\ queue[s] # <<>>
  BY DEF Runs, StageTypes
<1> QED BY <1>1, <1>3, <1>4, <1>5, EnterNext

\* Whether an abort is left, and what a check leaves in the queue
LEMMA CheckLeaves ==
  ASSUME NEW s \in Stages, abort \in BOOLEAN, NEW check \in Check(s)
  PROVE  /\ AbortLeft(s, check) \in BOOLEAN /\ check \in Seq(Events)
         /\ AbortLeft(s, check) => abort
         /\ check = <<>> \/ \E e \in Expired : check = <<e>>
         /\ check # <<"OnRequest">> /\ check # <<"NeedMoreCapacity">>
         /\ check # <<"LessCapacity">> /\ check # <<"ExcessCapacity">>
         /\ check # <<"OffModeRequest">>
<1>1. check \in {<<>>, <<"OnTimeExpired">>, <<"OffTimeExpired">>}
  BY CheckIs
<1>2. AbortLeft(s, check) \in BOOLEAN /\ (AbortLeft(s, check) => abort)
  BY DEF AbortLeft
<1>3. check \in Seq(Events)
  BY <1>1, EventNames, EventSeqs
<1>4. check = <<>> \/ \E e \in Expired : check = <<e>>
  BY <1>1 DEF Expired
<1>5. /\ check # <<"OnRequest">> /\ check # <<"NeedMoreCapacity">>
      /\ check # <<"LessCapacity">> /\ check # <<"ExcessCapacity">>
      /\ check # <<"OffModeRequest">>
  BY <1>1
<1> QED BY <1>2, <1>3, <1>4, <1>5

\* A stage is switched off, or returns to the lower one.
LEMMA ExcessShape ==
  ASSUME NEW s \in Stages, Runs(s), NEW check \in Check(s), ExcessCapacity(s, check)
  PROVE  /\ ShapeNext
         /\ queue[s] = <<"ExcessCapacity">> /\ st[s] \in {"OnTime", "OffTime"}
         /\ \/ /\ supplemented[s] /\ s >= 2
               /\ \E q : /\ Moves(s, "BackToLower", q)
                         /\ q = <<"BackCompleted">>
                            \/ \E e \in Expired : q = <<e, "BackCompleted">>
               /\ UNCHANGED <<out, fan, fanCut, systemOn, cycle>>
            \/ /\ ~supplemented[s] /\ First(s) /\ Moves(s, "Off", check)
               /\ StageOutput(s, FALSE) /\ systemOn' = FALSE
               /\ cycle' = [cycle EXCEPT !.mode = "OFF"]
<1>1. Running(s) /\ Served(s) /\ ArgsOf(s) /\ LinkOf(s)
  BY TopOf DEF Runs, StagesInv
<1>2. queue[s] = <<"ExcessCapacity">> /\ st[s] \in {"OnTime", "OffTime"}
  BY <1>1, TakenForms DEF Runs, ExcessCapacity
<1>3. /\ UNCHANGED <<nextStage, prevStage, supplemented, args, startAge, stack>>
      /\ abort' = AbortLeft(s, check)
  BY DEF ExcessCapacity
<1>4. ~Calm(s)
  BY <1>2 DEF Calm
<1>5. abort' \in BOOLEAN /\ check \in Seq(Events)
  BY <1>3, CheckLeaves DEF Runs, StageTypes
<1>6. CASE supplemented[s]
  <2>1. /\ st' = [st EXCEPT ![s] = "BackToLower"] /\ Queue(s, check, <<"BackCompleted">>)
        /\ UNCHANGED <<out, fan, fanCut, systemOn, cycle>>
    BY <1>6 DEF ExcessCapacity
  <2>2. PICK q \in {<<"BackCompleted">>, <<"OnTimeExpired", "BackCompleted">>,
                    <<"OffTimeExpired", "BackCompleted">>} :
          queue' = [queue EXCEPT ![s] = q]
    BY <1>2, <2>1, LeaveCheck DEF Runs, StageTypes
  <2>3. q \in Seq(Events)
    BY EventNames, EventSeqs
  <2>4. StageTypes'
    BY <1>3, <1>5, <2>1, <2>2, <2>3 DEF Runs, StageTypes
  <2>5. Moves(s, "BackToLower", q)
    BY <1>3, <2>1, <2>2 DEF Moves, SameAs, Runs, StageTypes
  <2>6. q = <<"BackCompleted">> \/ \E e \in Expired : q = <<e, "BackCompleted">>
    BY DEF Expired
  <2>7. Running(s)'
    BY <2>5, <2>6 DEF Running, Returning, Moves
  <2>8. q # <<"OnRequest">> /\ q # <<"NeedMoreCapacity">> /\ queue[s] # <<"OnRequest">>
        /\ queue[s] # <<"OffModeRequest">>
    BY <1>2
  <2>9. Served(s)' /\ ArgsOf(s)' /\ LinkOf(s)' /\ s >= 2
    BY <1>1, <1>2, <1>3, <1>6, <2>5, <2>8 DEF Served, ArgsOf, LinkOf, Moves
  <2>10. StackInv' /\ StagesInv'
    BY <1>4, <2>5, <2>7, <2>9, LocalStep DEF Runs, Moves
  <2> QED BY <1>2, <1>6, <2>1, <2>4, <2>5, <2>6, <2>9, <2>10 DEF ShapeNext
<1>7. CASE ~supplemented[s]
  <2>1. First(s)
    BY <1>1, <1>2, <1>7, Constants DEF LinkOf, First
  <2>2. /\ st' = [st EXCEPT ![s] = "Off"] /\ Queue(s, check, <<>>)
        /\ StageOutput(s, FALSE) /\ systemOn' = FALSE
        /\ cycle' = [cycle EXCEPT !.mode = "OFF"]
    BY <1>7, <2>1 DEF ExcessCapacity
  <2>3. queue' = [queue EXCEPT ![s] = check]
    BY <1>2, <2>2, LeaveCheck DEF Runs, StageTypes
  <2>4. StageTypes'
    <3>1. out' \in [Stages -> BOOLEAN] /\ fan' \in BOOLEAN /\ fanCut' \in BOOLEAN
      BY <2>2, OutputTypes DEF Runs
    <3>2. cycle' \in Cycles
      BY <2>2, CycleTypes DEF Runs, StageTypes
    <3> QED BY <1>3, <1>5, <2>2, <2>3, <3>1, <3>2 DEF Runs, StageTypes, RestStates
  <2>5. Moves(s, "Off", check)
    BY <1>3, <2>2, <2>3 DEF Moves, SameAs, Runs, StageTypes
  <2>6. /\ check = <<>> \/ \E e \in Expired : check = <<e>>
        /\ check # <<"OnRequest">> /\ check # <<"NeedMoreCapacity">>
    BY CheckLeaves DEF Runs, StageTypes
  <2>7. Running(s)'
    BY <2>5, <2>6 DEF Running, AtRest, Moves, RestStates
  <2>8. Served(s)' /\ ArgsOf(s)' /\ LinkOf(s)'
    BY <1>3, <1>7, <2>5, <2>6 DEF Served, ArgsOf, LinkOf, Moves
  <2>9. StackInv' /\ StagesInv'
    BY <1>4, <2>5, <2>7, <2>8, LocalStep DEF Runs, Moves
  <2> QED BY <1>2, <1>7, <2>1, <2>2, <2>4, <2>5, <2>9 DEF ShapeNext
<1> QED BY <1>6, <1>7

\* A stage is switched off because of the mode.
LEMMA OffModeShape ==
  ASSUME NEW s \in Stages, Runs(s), NEW check \in Check(s), OffMode(s, check)
  PROVE  /\ ShapeNext
         /\ queue[s] = <<"OffModeRequest">> /\ st[s] # "Off"
         /\ Moves(s, "Off", check)
<1>1. Running(s) /\ Served(s) /\ ArgsOf(s) /\ LinkOf(s)
  BY TopOf DEF Runs, StagesInv
<1>2. queue[s] = <<"OffModeRequest">> /\ st[s] \in {"OnTime", "OffTime", "Supplementing"}
  BY <1>1, TakenForms DEF Runs, OffMode
<1>3. /\ st' = [st EXCEPT ![s] = "Off"] /\ Queue(s, check, <<>>)
      /\ supplemented' = [supplemented EXCEPT ![s] = FALSE]
      /\ nextStage' = [nextStage EXCEPT ![s] = None]
      /\ prevStage' = [prevStage EXCEPT ![s] = None]
      /\ args' = [args EXCEPT ![s] = "null"]
      /\ startAge' = [startAge EXCEPT ![s] = MaxAge]
      /\ abort' = AbortLeft(s, check)
      /\ UNCHANGED <<out, fan, fanCut, cycle, systemOn, stack>>
  BY DEF OffMode
<1>4. queue' = [queue EXCEPT ![s] = check]
  BY <1>2, <1>3, LeaveCheck DEF Runs, StageTypes
<1>5. abort' \in BOOLEAN /\ check \in Seq(Events)
  BY <1>3, CheckLeaves DEF Runs, StageTypes
<1>6. StageTypes'
  <2>1. MaxAge \in 0..MaxAge
    BY Constants
  <2> QED BY <1>3, <1>4, <1>5, <2>1 DEF Runs, StageTypes, RestStates
<1>7. Moves(s, "Off", check)
  BY <1>3, <1>4 DEF Moves, SameAs, Runs, StageTypes
<1>8. /\ check = <<>> \/ \E e \in Expired : check = <<e>>
      /\ check # <<"OnRequest">> /\ check # <<"NeedMoreCapacity">>
  BY CheckLeaves DEF Runs, StageTypes
<1>9. Running(s)'
  BY <1>7, <1>8 DEF Running, AtRest, Moves, RestStates
<1>10. Served(s)' /\ ArgsOf(s)' /\ LinkOf(s)'
  BY <1>3, <1>7, <1>8 DEF Served, ArgsOf, LinkOf, Moves, Runs, StageTypes
<1>11. ~Calm(s)
  BY <1>2 DEF Calm
<1> QED BY <1>2, <1>6, <1>7, <1>9, <1>10, <1>11, LocalStep DEF Runs, ShapeNext, Moves

\* An event is dropped.
LEMMA IgnoredShape ==
  ASSUME NEW s \in Stages, Runs(s), NEW check \in Check(s), Ignored(s, check)
  PROVE  /\ ShapeNext
         /\ \/ st[s] \in RestStates /\ Moves(s, st[s], check)
               /\ queue[s] = <<Event(s)>>
            \/ st[s] = "StartingOn" /\ Moves(s, st[s], <<"StartingOnExpired">>)
            \/ st[s] = "StartingOff" /\ Moves(s, st[s], <<"StartingOffExpired">>)
            \/ st[s] = "BackToLower" /\ Moves(s, st[s], <<"BackCompleted">>)
         /\ queue[s] = <<"OnRequest">> => st[s] # "Off"
         /\ queue[s] = <<"OffModeRequest">> => st[s] = "Off"
         /\ queue[s] = <<"LessCapacity">> => st[s] # "Supplementing"
<1>1. Running(s) /\ Served(s) /\ ArgsOf(s) /\ LinkOf(s)
  BY TopOf DEF Runs, StagesInv
<1>2. /\ st[s] \notin TakenIn(Event(s)) /\ Queue(s, check, <<>>)
      /\ abort' = AbortLeft(s, check)
      /\ UNCHANGED <<st, nextStage, prevStage, supplemented, args, startAge, out, fan, fanCut,
                     cycle, systemOn, stack>>
  BY DEF Ignored
<1>3. /\ queue[s] = <<"OnRequest">> => st[s] # "Off"
      /\ queue[s] = <<"OffModeRequest">> /\ Running(s) => st[s] = "Off"
      /\ queue[s] = <<"LessCapacity">> => st[s] # "Supplementing"
  <2>1. queue[s] = <<"OnRequest">> => Event(s) = "OnRequest"
    BY OneEvent DEF Event
  <2>2. queue[s] = <<"LessCapacity">> => Event(s) = "LessCapacity"
    BY OneEvent DEF Event
  <2>3. queue[s] = <<"OffModeRequest">> => Event(s) = "OffModeRequest" /\ st[s] \in RestStates
    <3>1. queue[s] = <<"OffModeRequest">> => Event(s) = "OffModeRequest"
      BY OneEvent DEF Event
    <3> QED BY <1>1, <3>1, EventOf DEF Runs, Expired
  <2> QED BY <1>2, <2>1, <2>2, <2>3 DEF TakenIn, RestStates
<1>4. queue[s] # <<>> /\ queue \in [Stages -> Seq(Events)] /\ abort \in BOOLEAN
  BY DEF Runs, StageTypes
<1>5. abort' \in BOOLEAN /\ check \in Seq(Events)
  BY <1>2, <1>4, CheckLeaves
<1>6. ASSUME NEW q \in Seq(Events), queue' = [queue EXCEPT ![s] = q]
      PROVE  StageTypes' /\ Moves(s, st[s], q)
  BY <1>2, <1>5, <1>6 DEF Moves, SameAs, Runs, StageTypes
<1>7. CASE st[s] \in RestStates /\ queue[s] = <<Event(s)>>
  <2>1. queue' = [queue EXCEPT ![s] = check]
    BY <1>2, <1>4, <1>7, LeaveCheck
  <2>2. StageTypes' /\ Moves(s, st[s], check)
    BY <1>5, <1>6, <2>1
  <2>3. /\ check = <<>> \/ \E e \in Expired : check = <<e>>
        /\ check # <<"OnRequest">> /\ check # <<"NeedMoreCapacity">>
        /\ check # <<"ExcessCapacity">> /\ check # <<"OffModeRequest">>
    BY <1>4, CheckLeaves
  <2>4. st[s] # "Off" => args[s] = "this"
    BY <1>1, <1>3 DEF Served
  <2>5. st[s] # "Off" /\ check # <<>> => ~abort'
    BY <1>2, <2>4, CheckUses
  <2>6. AtRest(s)'
    <3>1. st'[s] \in RestStates
      BY <1>7, <2>2 DEF Moves
    <3>2. queue'[s] = <<>> \/ \E e \in Expired : queue'[s] = <<e>>
      BY <2>2, <2>3 DEF Moves
    <3>3. st'[s] # "Off" /\ queue'[s] # <<>> => ~abort'
      BY <2>2, <2>5 DEF Moves
    <3> QED BY <3>1, <3>2, <3>3 DEF AtRest
  <2>7. Running(s)'
    BY <2>6 DEF Running
  <2>8. Served(s)' /\ ArgsOf(s)' /\ LinkOf(s)'
    BY <1>1, <1>2, <1>3, <2>2, <2>3, <2>4 DEF Served, ArgsOf, LinkOf, Moves
  <2>9. Calm(s)'
    BY <1>7, <2>2, <2>3 DEF Calm, Moves, RestStates
  <2>10. StackInv' /\ StagesInv'
    BY <2>2, <2>7, <2>8, <2>9, LocalStep DEF Runs, Moves
  <2> QED BY <1>1, <1>3, <1>7, <2>2, <2>10 DEF ShapeNext
<1>8. ASSUME NEW over \in Events, queue[s] = <<Event(s), over>>, st[s] \notin RestStates,
             st[s] # "FromLower",
             over \notin {"OnRequest", "NeedMoreCapacity", "ExcessCapacity", "OffModeRequest"},
             \/ over = "StartingOnExpired" /\ st[s] = "StartingOn" /\ ~abort
             \/ over = "StartingOffExpired" /\ st[s] = "StartingOff" /\ ~abort
             \/ over = "BackCompleted" /\ st[s] = "BackToLower"
      PROVE  ShapeNext /\ Moves(s, st[s], <<over>>)
  <2>1. check = <<>>
    BY <1>8, CheckIs DEF RestStates
  <2>2. queue' = [queue EXCEPT ![s] = <<over>>]
    <3>1. Tail(queue[s]) \o <<>> \o <<>> = <<over>>
      BY <1>8, OneEvent, TwoEvents
    <3> QED BY <1>2, <2>1, <3>1 DEF Queue
  <2>3. <<over>> \in Seq(Events)
    BY EventSeqs
  <2>4. StageTypes' /\ Moves(s, st[s], <<over>>)
    BY <1>6, <2>2, <2>3
  <2>5. ~abort => ~abort'
    BY <1>2 DEF AbortLeft
  <2>6. Running(s)'
    BY <1>8, <2>4, <2>5
    DEF Running, BeginningOn, BeginningOff, Beginning, Returning, Moves
  <2>7. queue[s] # <<"OffModeRequest">> /\ queue[s] # <<"OnRequest">> /\ st[s] # "Off"
    BY <1>8 DEF RestStates
  <2>8. /\ <<over>> # <<"OnRequest">> /\ <<over>> # <<"NeedMoreCapacity">>
        /\ <<over>> # <<"ExcessCapacity">> /\ <<over>> # <<"OffModeRequest">>
    BY <1>8
  <2>9. Served(s)' /\ ArgsOf(s)' /\ LinkOf(s)' /\ (Calm(s) => Calm(s)')
    BY <1>1, <1>2, <2>4, <2>7, <2>8 DEF Served, ArgsOf, LinkOf, Moves, Calm
  <2>10. StackInv' /\ StagesInv'
    BY <2>4, <2>6, <2>9, LocalStep DEF Runs, Moves
  <2> QED BY <2>4, <2>10 DEF ShapeNext
<1>9. \/ st[s] \in RestStates /\ queue[s] = <<Event(s)>>
      \/ st[s] = "StartingOn" /\ ~abort /\ queue[s] = <<Event(s), "StartingOnExpired">>
      \/ st[s] = "StartingOff" /\ ~abort /\ queue[s] = <<Event(s), "StartingOffExpired">>
      \/ st[s] = "BackToLower" /\ queue[s] = <<Event(s), "BackCompleted">>
  BY <1>1, <1>2, <1>4, EventOf DEF TakenIn
<1>10. CASE st[s] = "StartingOn" /\ ~abort /\ queue[s] = <<Event(s), "StartingOnExpired">>
  <2>1. /\ "StartingOnExpired" \in Events /\ st[s] # "FromLower" /\ st[s] \notin RestStates
        /\ "StartingOnExpired" \notin {"OnRequest", "NeedMoreCapacity", "ExcessCapacity",
                           "OffModeRequest"}
    BY <1>10, EventNames DEF RestStates
  <2>2. ShapeNext /\ Moves(s, st[s], <<"StartingOnExpired">>)
    BY <1>8, <1>10, <2>1
  <2> QED BY <1>1, <1>3, <1>10, <2>2
<1>11. CASE st[s] = "StartingOff" /\ ~abort /\ queue[s] = <<Event(s), "StartingOffExpired">>
  <2>1. /\ "StartingOffExpired" \in Events /\ st[s] # "FromLower" /\ st[s] \notin RestStates
        /\ "StartingOffExpired" \notin {"OnRequest", "NeedMoreCapacity", "ExcessCapacity",
                           "OffModeRequest"}
    BY <1>11, EventNames DEF RestStates
  <2>2. ShapeNext /\ Moves(s, st[s], <<"StartingOffExpired">>)
    BY <1>8, <1>11, <2>1
  <2> QED BY <1>1, <1>3, <1>11, <2>2
<1>12. CASE st[s] = "BackToLower" /\ queue[s] = <<Event(s), "BackCompleted">>
  <2>1. /\ "BackCompleted" \in Events /\ st[s] # "FromLower" /\ st[s] \notin RestStates
        /\ "BackCompleted" \notin {"OnRequest", "NeedMoreCapacity", "ExcessCapacity",
                           "OffModeRequest"}
    BY <1>12, EventNames DEF RestStates
  <2>2. ShapeNext /\ Moves(s, st[s], <<"BackCompleted">>)
    BY <1>8, <1>12, <2>1
  <2> QED BY <1>1, <1>3, <1>12, <2>2
<1> QED BY <1>7, <1>9, <1>10, <1>11, <1>12

\* A stage that is not calm is alone on the stack.
LEMMA AloneIfNotCalm ==
  ASSUME NEW s \in Stages, Runs(s), ~Calm(s)
  PROVE  Alone(s)
BY TopOf DEF Runs, Above

\* A stage is supported by the next one, which runs first.
LEMMA NeedMoreShape ==
  ASSUME NEW s \in Stages, Runs(s), NEW check \in Check(s), NeedMoreCapacity(s, check)
  PROVE  /\ ShapeNext
         /\ queue[s] = <<"NeedMoreCapacity">> /\ st[s] \in {"OnTime", "OffTime"}
         /\ s \in Heats /\ s + 1 \in Heats /\ stack = <<s>> /\ stack' = <<s + 1, s>>
         /\ st'[s] = "Supplementing" /\ queue'[s] = check
         /\ st'[s + 1] = st[s + 1] /\ queue[s + 1] = <<>> /\ queue'[s + 1] = <<"OnRequest">>
         /\ \A r \in Stages \ {s, s + 1} : SameAs(r)
<1>1. Running(s) /\ Served(s) /\ ArgsOf(s) /\ LinkOf(s)
  BY TopOf DEF Runs, StagesInv
<1>2. queue[s] = <<"NeedMoreCapacity">> /\ st[s] \in {"OnTime", "OffTime"}
  BY <1>1, TakenForms DEF Runs, NeedMoreCapacity
<1> DEFINE n == s + 1
<1>3. s \in Heats /\ n \in Heats /\ nextStage[s] = n /\ n \in Stages /\ n # s /\ n >= 2
  BY <1>1, <1>2, Constants DEF LinkOf
<1>4. Alone(s)
  BY <1>2, AloneIfNotCalm DEF Calm
<1>5. Settled(n)
  BY <1>3, <1>4 DEF Alone, NoOtherThan
<1>6. args[s] = "this"
  BY <1>1, <1>2 DEF Served
<1> HIDE DEF n
<1>7. /\ st' = [st EXCEPT ![s] = "Supplementing"]
      /\ StageOutput(s, TRUE)
      /\ queue' = [queue EXCEPT ![s] = Tail(queue[s]) \o check,
                                ![n] = Append(queue[n], "OnRequest")]
      /\ args' = [args EXCEPT ![n] = "this"]
      /\ supplemented' = [supplemented EXCEPT ![n] = TRUE]
      /\ nextStage' = [nextStage EXCEPT ![n] = None]
      /\ prevStage' = [prevStage EXCEPT ![n] = s]
      /\ stack' = <<n>> \o stack
      /\ abort' = AbortLeft(s, check)
      /\ UNCHANGED <<startAge, cycle, systemOn>>
  BY <1>3 DEF NeedMoreCapacity
<1>8. queue' = [queue EXCEPT ![s] = check, ![n] = <<"OnRequest">>]
  <2>1. Tail(queue[s]) \o check = check
    BY <1>2, LeaveCheck DEF Runs, StageTypes
  <2>2. Append(queue[n], "OnRequest") = <<"OnRequest">>
    BY <1>5, OneEvent DEF Settled
  <2> QED BY <1>7, <2>1, <2>2
<1>9. stack' = <<n, s>>
  <2>1. stack = <<s>>
    BY <1>4 DEF Alone
  <2> QED BY <1>7, <2>1, TwoEvents
<1>10. /\ check \in Seq(Events) /\ abort' \in BOOLEAN
       /\ check = <<>> \/ \E e \in Expired : check = <<e>>
       /\ check # <<"OnRequest">> /\ check # <<"NeedMoreCapacity">>
       /\ check # <<"OffModeRequest">>
  BY <1>7, CheckLeaves DEF Runs, StageTypes
<1>11. StageTypes'
  <2>1. <<"OnRequest">> \in Seq(Events)
    BY EventNames, EventSeqs
  <2>2. queue' \in [Stages -> Seq(Events)]
    BY <1>8, <1>10, <2>1 DEF Runs, StageTypes
  <2>3. out' \in [Stages -> BOOLEAN] /\ fan' \in BOOLEAN /\ fanCut' \in BOOLEAN
    BY <1>7, OutputTypes DEF Runs
  <2>4. st' \in [Stages -> RestStates \cup {"FromLower", "StartingOn", "StartingOff",
                                           "BackToLower"}]
    BY <1>7 DEF Runs, StageTypes, RestStates
  <2>5. /\ args' \in [Stages -> {"null", "old", "this"}]
        /\ nextStage' \in [Stages -> Stages \cup {None}]
        /\ prevStage' \in [Stages -> Stages \cup {None}]
        /\ supplemented' \in [Stages -> BOOLEAN]
    BY <1>7 DEF Runs, StageTypes
  <2> QED BY <1>7, <1>10, <2>2, <2>3, <2>4, <2>5 DEF Runs, StageTypes
<1>12. /\ st'[s] = "Supplementing" /\ queue'[s] = check /\ args'[s] = "this"
       /\ supplemented'[s] = supplemented[s] /\ prevStage'[s] = prevStage[s]
       /\ st'[n] = st[n] /\ queue'[n] = <<"OnRequest">> /\ args'[n] = "this"
       /\ supplemented'[n] = TRUE /\ prevStage'[n] = s
  BY <1>3, <1>6, <1>7, <1>8 DEF Runs, StageTypes
<1>13. \A r \in Stages \ {s, n} : SameAs(r)
  BY <1>7, <1>8 DEF SameAs, Runs, StageTypes
<1>14. Above(n, s)'
  <2>1. Waiting(s)' /\ Served(s)'
    BY <1>10, <1>12 DEF Waiting, Served
  <2>2. Running(n)' /\ Served(n)' /\ Calm(n)'
    <3>1. st'[n] \in RestStates
      BY <1>5, <1>12 DEF Settled
    <3>2. AtRest(n)'
      BY <1>12, <3>1 DEF AtRest, Requests
    <3> QED BY <1>12, <3>1, <3>2 DEF Running, Served, Calm, RestStates
  <2>3. NoOtherThan({n, s})'
    BY <1>4, <1>13, SameShape DEF NoOtherThan, Alone
  <2> QED BY <1>3, <1>9, <2>1, <2>2, <2>3 DEF Above
<1>15. StagesInv'
  <2> SUFFICES ASSUME NEW r \in Stages PROVE (ArgsOf(r) /\ LinkOf(r))'
    BY DEF StagesInv
  <2>1. CASE r = s
    <3>1. queue[s] # <<"OnRequest">> /\ s + 1 \in Heats
      BY <1>2, <1>3 DEF n
    <3> QED BY <1>1, <1>2, <1>3, <1>10, <1>12, <2>1, <3>1 DEF ArgsOf, LinkOf
  <2>2. CASE r = n
    <3>1. LinkOf(n) /\ n - 1 = s
      BY <1>3, Constants DEF Runs, StagesInv, n
    <3>2. st[n] \notin {"FromLower", "BackToLower"}
      BY <1>5 DEF Settled, RestStates
    <3> QED BY <1>3, <1>12, <2>2, <3>1, <3>2 DEF ArgsOf, LinkOf
  <2>3. CASE r \notin {s, n}
    BY <1>13, <2>3, SameShape DEF Runs, StagesInv
  <2> QED BY <2>1, <2>2, <2>3
<1>16. StackInv'
  BY <1>3, <1>14 DEF StackInv
<1>17. stack = <<s>> /\ queue[n] = <<>>
  BY <1>4, <1>5 DEF Alone, Settled
<1> QED
  BY <1>2, <1>3, <1>9, <1>11, <1>12, <1>13, <1>15, <1>16, <1>17 DEF ShapeNext, n

\* A stage has returned, and the lower one runs first.
LEMMA BackCompletedShape ==
  ASSUME NEW s \in Stages, Runs(s), BackCompleted(s)
  PROVE  /\ ShapeNext
         /\ queue[s] = <<"BackCompleted">> /\ st[s] = "BackToLower"
         /\ s \in Heats /\ s - 1 \in Heats /\ stack = <<s>> /\ stack' = <<s - 1, s>>
         /\ st'[s] = "Off" /\ queue'[s] = <<>>
         /\ st'[s - 1] = st[s - 1] /\ queue[s - 1] = <<>>
         /\ queue'[s - 1] = <<"LessCapacity">>
         /\ \A r \in Stages \ {s, s - 1} : SameAs(r)
<1>1. Running(s) /\ Served(s) /\ ArgsOf(s) /\ LinkOf(s)
  BY TopOf DEF Runs, StagesInv
<1>2. queue[s] = <<"BackCompleted">> /\ st[s] = "BackToLower"
  BY <1>1, TakenForms DEF Runs, BackCompleted, TakenIn
<1> DEFINE p == s - 1
<1>3. s \in Heats /\ p \in Heats /\ prevStage[s] = p /\ p \in Stages /\ p # s
  BY <1>1, <1>2, Constants DEF LinkOf
<1>4. Alone(s)
  BY <1>2, AloneIfNotCalm DEF Calm
<1>5. Settled(p)
  BY <1>3, <1>4 DEF Alone, NoOtherThan
<1> HIDE DEF p
<1>6. /\ st' = [st EXCEPT ![s] = "Off"]
      /\ StageOutput(s, FALSE)
      /\ queue' = [queue EXCEPT ![s] = Tail(queue[s]),
                                ![p] = Append(queue[p], "LessCapacity")]
      /\ args' = [args EXCEPT ![p] = "this"]
      /\ nextStage' = [nextStage EXCEPT ![p] = None]
      /\ prevStage' = [prevStage EXCEPT ![s] = None]
      /\ supplemented' = [supplemented EXCEPT ![s] = FALSE]
      /\ stack' = <<p>> \o stack
      /\ UNCHANGED <<startAge, cycle, systemOn, abort>>
  BY <1>3 DEF BackCompleted
<1>7. queue' = [queue EXCEPT ![s] = <<>>, ![p] = <<"LessCapacity">>]
  <2>1. Tail(queue[s]) = <<>>
    BY <1>2, OneEvent
  <2>2. Append(queue[p], "LessCapacity") = <<"LessCapacity">>
    BY <1>5, OneEvent DEF Settled
  <2> QED BY <1>6, <2>1, <2>2
<1>8. stack' = <<p, s>>
  <2>1. stack = <<s>>
    BY <1>4 DEF Alone
  <2> QED BY <1>6, <2>1, TwoEvents
<1>9. StageTypes'
  <2>1. <<"LessCapacity">> \in Seq(Events) /\ <<>> \in Seq(Events)
    BY EventNames, EventSeqs
  <2>2. queue' \in [Stages -> Seq(Events)]
    BY <1>7, <2>1 DEF Runs, StageTypes
  <2>3. out' \in [Stages -> BOOLEAN] /\ fan' \in BOOLEAN /\ fanCut' \in BOOLEAN
    BY <1>6, OutputTypes DEF Runs
  <2>4. st' \in [Stages -> RestStates \cup {"FromLower", "StartingOn", "StartingOff",
                                           "BackToLower"}]
    BY <1>6 DEF Runs, StageTypes, RestStates
  <2>5. /\ args' \in [Stages -> {"null", "old", "this"}]
        /\ nextStage' \in [Stages -> Stages \cup {None}]
        /\ prevStage' \in [Stages -> Stages \cup {None}]
        /\ supplemented' \in [Stages -> BOOLEAN]
    BY <1>6 DEF Runs, StageTypes
  <2> QED BY <1>6, <2>2, <2>3, <2>4, <2>5 DEF Runs, StageTypes
<1>10. /\ st'[s] = "Off" /\ queue'[s] = <<>> /\ supplemented'[s] = FALSE
       /\ st'[p] = st[p] /\ queue'[p] = <<"LessCapacity">> /\ args'[p] = "this"
       /\ supplemented'[p] = supplemented[p] /\ prevStage'[p] = prevStage[p]
  BY <1>3, <1>6, <1>7 DEF Runs, StageTypes
<1>11. \A r \in Stages \ {s, p} : SameAs(r)
  BY <1>6, <1>7 DEF SameAs, Runs, StageTypes
<1>12. Above(p, s)'
  <2>1. Waiting(s)' /\ Served(s)'
    BY <1>10 DEF Waiting, Served
  <2>2. Running(p)' /\ Served(p)' /\ Calm(p)'
    <3>1. st'[p] \in RestStates
      BY <1>5, <1>10 DEF Settled
    <3>2. AtRest(p)'
      BY <1>10, <3>1 DEF AtRest
    <3> QED BY <1>10, <3>1, <3>2 DEF Running, Served, Calm, RestStates
  <2>3. NoOtherThan({p, s})'
    BY <1>4, <1>11, SameShape DEF NoOtherThan, Alone
  <2> QED BY <1>3, <1>8, <2>1, <2>2, <2>3 DEF Above
<1>13. StagesInv'
  <2> SUFFICES ASSUME NEW r \in Stages PROVE (ArgsOf(r) /\ LinkOf(r))'
    BY DEF StagesInv
  <2>1. CASE r = s
    BY <1>10, <2>1 DEF ArgsOf, LinkOf
  <2>2. CASE r = p
    <3>1. LinkOf(p) /\ ArgsOf(p) /\ queue[p] # <<"OnRequest">>
      BY <1>3, <1>5 DEF Runs, StagesInv, Settled
    <3> QED BY <1>10, <2>2, <3>1 DEF ArgsOf, LinkOf
  <2>3. CASE r \notin {s, p}
    BY <1>11, <2>3, SameShape DEF Runs, StagesInv
  <2> QED BY <2>1, <2>2, <2>3
<1>14. StackInv'
  BY <1>3, <1>12 DEF StackInv
<1>15. stack = <<s>> /\ queue[p] = <<>>
  BY <1>4, <1>5 DEF Alone, Settled
<1> QED
  BY <1>2, <1>3, <1>8, <1>9, <1>10, <1>11, <1>13, <1>14, <1>15 DEF ShapeNext, p

-----------------------------------------------------------------------------
(* What the equipment calls *)

\* The least and the greatest of a few stages
LEMMA MinMaxIn ==
  ASSUME NEW S \in SUBSET (1..3), S # {}
  PROVE  Min(S) \in S /\ Max(S) \in S
<1>1. \E x \in S : \A y \in S : x <= y
  <2>1. CASE 1 \in S
    BY <2>1
  <2>2. CASE 1 \notin S /\ 2 \in S
    BY <2>2
  <2>3. CASE 1 \notin S /\ 2 \notin S
    <3>1. \A y \in S : y = 3
      BY <2>3
    <3>2. PICK z \in S : z = 3
      BY <3>1
    <3> QED BY <3>1, <3>2
  <2> QED BY <2>1, <2>2, <2>3
<1>2. \E x \in S : \A y \in S : x >= y
  <2>1. CASE 3 \in S
    BY <2>1
  <2>2. CASE 3 \notin S /\ 2 \in S
    BY <2>2
  <2>3. CASE 3 \notin S /\ 2 \notin S
    <3>1. \A y \in S : y = 1
      BY <2>3
    <3>2. PICK z \in S : z = 1
      BY <3>1
    <3> QED BY <3>1, <3>2
  <2> QED BY <2>1, <2>2, <2>3
<1> QED BY <1>1, <1>2 DEF Min, Max

\* The i-th call of equipment u in an interval in which it is active
CallOk(u, d, c, i) ==
    /\ c \in CallSet /\ c.stage \in StagesOf(u) /\ c.ev # "OffModeRequest"
    /\ c.ev = "OnRequest" => MayStart(u, d)
    /\ c.ev = "NeedMoreCapacity" => MayStart(u, d) \/ (i = 1 /\ IsOnCycle(c.stage))
    /\ c.ev = "ExcessCapacity" =>
         IsOffCycle(c.stage) \/ (IsActive(c.stage) /\ cycle.onAge >= MinOn)
CallsOk(u, d, cs) == cs \in Seq(CallSet) /\ \A i \in 1..Len(cs) : CallOk(u, d, cs[i], i)

\* No call, one call and two of them
LEMMA FewCalls ==
  ASSUME NEW u, NEW d
  PROVE  /\ CallsOk(u, d, <<>>)
         /\ \A c : CallOk(u, d, c, 1) => CallsOk(u, d, <<c>>)
         /\ \A c, b : CallOk(u, d, c, 1) /\ CallOk(u, d, b, 2) => CallsOk(u, d, <<c, b>>)
<1>1. CallsOk(u, d, <<>>)
  BY DEF CallsOk
<1>2. ASSUME NEW c, CallOk(u, d, c, 1) PROVE CallsOk(u, d, <<c>>)
  <2>1. c \in CallSet
    BY <1>2 DEF CallOk
  <2>2. <<c>> \in Seq(CallSet) /\ Len(<<c>>) = 1 /\ <<c>>[1] = c
    BY <2>1
  <2> QED BY <1>2, <2>2 DEF CallsOk
<1>3. ASSUME NEW c, NEW b, CallOk(u, d, c, 1), CallOk(u, d, b, 2) PROVE CallsOk(u, d, <<c, b>>)
  <2>1. c \in CallSet /\ b \in CallSet
    BY <1>3 DEF CallOk
  <2>2. /\ <<c, b>> \in Seq(CallSet) /\ Len(<<c, b>>) = 2
        /\ <<c, b>>[1] = c /\ <<c, b>>[2] = b
    BY <2>1
  <2>3. \A i \in 1..2 : i = 1 \/ i = 2
    OBVIOUS
  <2> QED BY <1>3, <2>2, <2>3 DEF CallsOk
<1> QED BY <1>1, <1>2, <1>3

\* What the logic of a stage calls
LEMMA LogicCalls ==
  ASSUME NEW u, NEW k \in 1..NumHeat, NEW top, NEW d \in BOOLEAN,
         \/ u = "heat" /\ top = k
         \/ u = "cool" /\ k = 1 /\ top = 0
  PROVE  CallsOk(u, d, StageLogic(u, k, top, d).calls)
<1> DEFINE first == top - (k - 1)
           low == {j \in first..(top - 1) : IsActive(j)}
           on == [ev |-> "OnRequest", stage |-> first]
           more == [ev |-> "NeedMoreCapacity", stage |-> first]
           mid == [ev |-> "NeedMoreCapacity", stage |-> Min(low)]
           off == [ev |-> "ExcessCapacity", stage |-> top]
<1>1. /\ first \in StagesOf(u) /\ top \in StagesOf(u) /\ First(first)
      /\ k \in 1..3 /\ StagesOf(u) \subseteq Stages
      /\ k # 1 => u = "heat" /\ first = 1 /\ first \in Heats /\ first + 1 \in Heats
  <2>1. CASE u = "heat" /\ top = k
    <3>1. first = 1
      BY <2>1, Constants
    <3>2. StagesOf(u) = Heats
      BY <2>1 DEF StagesOf
    <3> HIDE DEF first
    <3> QED BY <2>1, <3>1, <3>2, Constants DEF First
  <2>2. CASE u = "cool" /\ k = 1 /\ top = 0
    <3>1. first = 0
      BY <2>2
    <3>2. StagesOf(u) = {0}
      BY <2>2 DEF StagesOf
    <3> HIDE DEF first
    <3> QED BY <2>2, <3>1, <3>2, Constants DEF First
  <2> QED BY <2>1, <2>2
<1>2. MayStart(u, d) => CallOk(u, d, on, 1)
  BY <1>1 DEF CallOk, CallSet, Requests
<1>3. MayStart(u, d) /\ k # 1 => CallOk(u, d, more, 2)
  BY <1>1 DEF CallOk, CallSet, Requests
<1>4. ASSUME low # {}, IsOnCycle(Min(low)) \/ MayStart(u, d) PROVE CallOk(u, d, mid, 1)
  <2>1. low \in SUBSET (1..3)
    <3>1. first \in Int /\ first >= 1
      BY <1>1, <1>4
    <3>2. top - 1 <= 3
      BY <1>1
    <3> QED BY <3>1, <3>2, SMTT(30)
  <2>2. Min(low) \in low
    BY <1>4, <2>1, MinMaxIn
  <2>3. /\ Min(low) \in Heats /\ Min(low) + 1 \in Heats /\ Min(low) \in StagesOf(u)
    BY <1>1, <2>2, Constants DEF StagesOf
  <2> HIDE DEF low
  <2> QED BY <1>1, <1>4, <2>3 DEF CallOk, CallSet, Requests
<1>5. IsActive(top) /\ (IsOffCycle(top) \/ cycle.onAge >= MinOn) => CallOk(u, d, off, 1)
  BY <1>1 DEF CallOk, CallSet, Requests
<1>6. \/ StageLogic(u, k, top, d).calls = <<>>
      \/ MayStart(u, d) /\ k = 1 /\ StageLogic(u, k, top, d).calls = <<on>> \o <<>>
      \/ MayStart(u, d) /\ k # 1 /\ StageLogic(u, k, top, d).calls = <<on>> \o <<more>>
      \/ /\ low # {} /\ (IsOnCycle(Min(low)) \/ MayStart(u, d))
         /\ StageLogic(u, k, top, d).calls = <<mid>>
      \/ /\ IsActive(top) /\ (IsOffCycle(top) \/ cycle.onAge >= MinOn)
         /\ StageLogic(u, k, top, d).calls = <<off>>
  <2> HIDE DEF on, more, mid, off
  <2> QED BY DEF StageLogic, MayStart, on, more, mid, off
<1>7. <<on>> \o <<>> = <<on>> /\ <<on>> \o <<more>> = <<on, more>>
  BY OneEvent, TwoEvents
<1> HIDE DEF on, more, mid, off, low
<1> QED BY <1>2, <1>3, <1>4, <1>5, <1>6, <1>7, FewCalls

\* What the equipment calls when it is active: requests first, then every stage
LEMMA ActiveCalls ==
  ASSUME NEW u \in Units, NEW d \in BOOLEAN, config.heat \in 0..NumHeat
  PROVE  CallsOk(u, d, IF u = "cool" THEN ExecuteCooling(d) ELSE ExecuteHeating(d))
<1>1. ASSUME NEW L, CallsOk(u, d, L), NEW n \in Nat, NEW S \in [1..n -> StagesOf(u)],
             StagesOf(u) \subseteq Stages
      PROVE  CallsOk(u, d, L \o ToEach("Execute", S))
  <2> DEFINE E == ToEach("Execute", S)
  <2>1. DOMAIN S = 1..n
    OBVIOUS
  <2>2. E = [i \in 1..n |-> [ev |-> "Execute", stage |-> S[i]]]
    BY <2>1 DEF ToEach
  <2>3. \A i \in 1..n : [ev |-> "Execute", stage |-> S[i]] \in CallSet
    BY <1>1 DEF CallSet, Requests
  <2>4. E \in Seq(CallSet) /\ Len(E) = n
    BY <2>2, <2>3
  <2>5. \A i \in 1..n : E[i].ev = "Execute" /\ E[i].stage \in StagesOf(u)
    BY <2>2
  <2> HIDE DEF E
  <2>6. L \in Seq(CallSet)
    BY <1>1 DEF CallsOk
  <2>7. /\ L \o E \in Seq(CallSet) /\ Len(L \o E) = Len(L) + Len(E)
        /\ \A i \in 1..(Len(L) + Len(E)) :
             (L \o E)[i] = IF i <= Len(L) THEN L[i] ELSE E[i - Len(L)]
    BY <2>4, <2>6, ConcatProperties
  <2>8. Len(L) \in Nat
    BY <2>6
  <2>9. ASSUME NEW i \in 1..Len(L \o E) PROVE CallOk(u, d, (L \o E)[i], i)
    <3>1. CASE i <= Len(L)
      <4>1. (L \o E)[i] = L[i] /\ i \in 1..Len(L)
        BY <2>7, <2>8, <3>1
      <4> QED BY <1>1, <4>1 DEF CallsOk
    <3>2. CASE ~(i <= Len(L))
      <4>1. (L \o E)[i] = E[i - Len(L)] /\ i - Len(L) \in 1..n
        BY <2>4, <2>7, <2>8, <3>2
      <4>2. E[i - Len(L)] \in CallSet
        BY <2>4, <4>1
      <4>3. E[i - Len(L)].ev = "Execute" /\ E[i - Len(L)].stage \in StagesOf(u)
        BY <2>5, <4>1
      <4> QED BY <4>1, <4>2, <4>3 DEF CallOk
    <3> QED BY <3>1, <3>2
  <2> QED BY <2>7, <2>9 DEF CallsOk, E
<1>2. CASE u = "cool"
  <2>1. CallsOk(u, d, StageLogic("cool", 1, 0, d).calls)
    <3>1. 1 \in 1..NumHeat
      BY Constants
    <3> QED BY <1>2, <3>1, LogicCalls
  <2>2. <<0>> \in [1..1 -> StagesOf(u)] /\ StagesOf(u) \subseteq Stages /\ 1 \in Nat
    BY <1>2, Constants DEF StagesOf
  <2>3. CallsOk(u, d, ExecuteCooling(d))
    BY <1>1, <2>1, <2>2 DEF ExecuteCooling
  <2> QED BY <1>2, <2>3
<1>3. CASE u = "heat"
  <2> DEFINE n == config.heat
             trips == {k \in 1..n : StageLogic("heat", k, k, d).trips}
             L == IF trips = {} THEN <<>> ELSE StageLogic("heat", Max(trips), Max(trips), d).calls
             S == [k \in 1..n |-> k]
  <2>1. CallsOk(u, d, L)
    <3>1. CASE trips = {}
      BY <3>1, FewCalls
    <3>2. CASE trips # {}
      <4>1. trips \in SUBSET (1..3)
        BY Constants
      <4>2. Max(trips) \in trips
        BY <3>2, <4>1, MinMaxIn
      <4>3. Max(trips) \in 1..NumHeat
        BY <4>2, Constants
      <4> HIDE DEF trips
      <4>4. CallsOk(u, d, StageLogic("heat", Max(trips), Max(trips), d).calls)
        BY <1>3, <4>3, LogicCalls
      <4> QED BY <3>2, <4>4
    <3> QED BY <3>1, <3>2
  <2>2. S \in [1..n -> StagesOf(u)] /\ StagesOf(u) \subseteq Stages /\ n \in Nat
    BY <1>3, Constants DEF StagesOf
  <2>3. ExecuteHeating(d) = L \o ToEach("Execute", S)
    BY DEF ExecuteHeating
  <2> HIDE DEF L, S, n
  <2>4. CallsOk(u, d, ExecuteHeating(d))
    BY <1>1, <2>1, <2>2, <2>3
  <2> QED BY <1>3, <2>4
<1> QED BY <1>2, <1>3 DEF Units

\* What it calls when it is switched off
LEMMA OffCalls ==
  ASSUME NEW c \in {"cool", "heat", "off"}
  PROVE  LET cs == ToEach("OffModeRequest", Ordered(c))
         IN  /\ cs \in Seq(CallSet)
             /\ \A i \in 1..Len(cs) : cs[i].ev = "OffModeRequest" /\ cs[i].stage \in StagesOf(c)
             /\ \A s \in StagesOf(c) : \E i \in 1..Len(cs) : cs[i].stage = s
             /\ c = "off" => cs = <<>>
<1> DEFINE cs == ToEach("OffModeRequest", Ordered(c))
<1>1. CASE c = "cool"
  <2> DEFINE call == [ev |-> "OffModeRequest", stage |-> 0]
  <2>1. Ordered(c) = <<0>> /\ StagesOf(c) = {0}
    BY <1>1 DEF Ordered, StagesOf
  <2>2. cs = [i \in 1..1 |-> call]
    <3>1. DOMAIN <<0>> = 1..1 /\ \A i \in 1..1 : <<0>>[i] = 0
      OBVIOUS
    <3> QED BY <2>1, <3>1 DEF ToEach
  <2>3. call \in CallSet
    BY Constants DEF CallSet, Requests
  <2>4. call.ev = "OffModeRequest" /\ call.stage = 0
    OBVIOUS
  <2> HIDE DEF call, cs
  <2>5. cs \in Seq(CallSet) /\ Len(cs) = 1 /\ cs[1] = call
    BY <2>2, <2>3
  <2> QED BY <1>1, <2>1, <2>4, <2>5 DEF cs
<1>2. CASE c = "heat"
  <2>1. Ordered(c) = [s \in Heats |-> s] /\ StagesOf(c) = Heats /\ Heats = 1..NumHeat
    BY <1>2 DEF Ordered, StagesOf, Heats
  <2>2. cs = [i \in 1..NumHeat |-> [ev |-> "OffModeRequest", stage |-> i]]
    <3>1. DOMAIN [s \in Heats |-> s] = 1..NumHeat
      BY <2>1
    <3> QED BY <2>1, <3>1 DEF ToEach
  <2>3. \A i \in 1..NumHeat : [ev |-> "OffModeRequest", stage |-> i] \in CallSet
    BY Constants DEF CallSet, Requests
  <2>4. cs \in Seq(CallSet) /\ Len(cs) = NumHeat
    BY <2>2, <2>3, Constants
  <2>5. \A i \in 1..NumHeat : cs[i] = [ev |-> "OffModeRequest", stage |-> i]
    BY <2>2
  <2> HIDE DEF cs
  <2>6. ASSUME NEW i \in 1..NumHeat
        PROVE  cs[i].ev = "OffModeRequest" /\ cs[i].stage = i
    <3>1. cs[i] = [ev |-> "OffModeRequest", stage |-> i]
      BY <2>5
    <3> QED BY <3>1
  <2>7. \A s \in StagesOf(c) : \E i \in 1..Len(cs) : cs[i].stage = s
    BY <2>1, <2>4, <2>6
  <2> QED BY <1>2, <2>1, <2>4, <2>6, <2>7 DEF cs
<1>3. CASE c = "off"
  <2>1. Ordered(c) = <<>> /\ StagesOf(c) = {}
    BY <1>3 DEF Ordered, StagesOf
  <2>2. cs = <<>>
    BY <2>1 DEF ToEach
  <2> HIDE DEF cs
  <2>3. cs \in Seq(CallSet) /\ Len(cs) = 0
    BY <2>2
  <2> QED BY <2>1, <2>2, <2>3 DEF cs
<1> QED BY <1>1, <1>2, <1>3

-----------------------------------------------------------------------------
(* The shape is inductive *)

\* At first every stage is off and its queue is empty.
LEMMA ShapeInit == Init => ShapeInv
<1> SUFFICES ASSUME Init PROVE ShapeInv
  OBVIOUS
<1>1. StageTypes
  <2>1. 0 \in 0..MinOn /\ MinOn \in 0..MinOn /\ MaxAge \in 0..MaxAge
    BY Constants
  <2>2. <<>> \in Seq(Events)
    BY EventNames, EventSeqs
  <2>3. cycle \in Cycles
    BY <2>1 DEF Init, Cycles
  <2>4. queue \in [Stages -> Seq(Events)] /\ startAge \in [Stages -> 0..MaxAge]
    BY <2>1, <2>2 DEF Init
  <2>5. /\ st \in [Stages -> RestStates \cup {"FromLower", "StartingOn", "StartingOff",
                                             "BackToLower"}]
        /\ args \in [Stages -> {"null", "old", "this"}]
        /\ nextStage \in [Stages -> Stages \cup {None}]
        /\ prevStage \in [Stages -> Stages \cup {None}]
    BY DEF Init, RestStates
  <2>6. /\ supplemented \in [Stages -> BOOLEAN] /\ out \in [Stages -> BOOLEAN]
        /\ fan \in BOOLEAN /\ fanCut \in BOOLEAN /\ systemOn \in BOOLEAN /\ abort \in BOOLEAN
    BY Zenon DEF Init
  <2> QED BY <2>3, <2>4, <2>5, <2>6 DEF StageTypes
<1>2. PointTypes
  <2>1. /\ 0 \in 0..NumHeat /\ 0 \in 0..1 /\ 0 \in 0..MinUnitOff /\ 0 \in 0..Hysteresis
        /\ 0 \in 0..MinOn /\ 0 \in PvValues
    BY Constants
  <2>2. /\ modeChanged \in BOOLEAN /\ whiteBoxValid \in BOOLEAN
        /\ inAuto \in BOOLEAN /\ relaySysOn \in BOOLEAN
    BY Zenon DEF Init
  <2>3. /\ config \in [mode : {"UNKNOWN", "OFF", "COOLING", "ID_HEATING"},
                       heat : 0..NumHeat, cool : 0..1]
        /\ config.mode = "UNKNOWN"
    BY <2>1 DEF Init
  <2>4. calls \in Seq(CallSet)
    BY DEF Init
  <2>5. /\ pvOut \in PvValues /\ relays \subseteq Stages
        /\ unitOff \in [Units -> 0..MinUnitOff] /\ sysOff \in 0..Hysteresis
        /\ seen \subseteq {"cool", "heat", "off"} /\ pc \in Places
        /\ onFor \in [Stages -> 0..MinOn] /\ excuses \subseteq {"config", "abort"}
    /\ defeated \in BOOLEAN
    BY <2>1 DEF Init, Places
  <2> QED BY <2>2, <2>3, <2>4, <2>5 DEF PointTypes
<1>3. StackInv
  BY DEF Init, StackInv, NoOtherThan, Settled, RestStates
<1>4. StagesInv
  BY DEF Init, StagesInv, ArgsOf, LinkOf
<1> QED BY <1>1, <1>2, <1>3, <1>4, ForcedInit DEF ShapeInv

\* A turn of the loop of a stage
LEMMA ProcessShape ==
  ASSUME ShapeInv, NEW s \in Stages, ProcessEvent(s)
  PROVE  StageTypes' /\ PointTypes' /\ StackInv' /\ StagesInv' /\ Runs(s)
<1>1. Runs(s)
  BY DEF Runs, ShapeInv, ProcessEvent
<1>2. PointTypes'
  BY DEF ProcessEvent, ShapeInv, PointTypes, pointVars, memberVars, history
<1>3. CASE SwitchOn(s) \/ FromLower(s) \/ FromCompleted(s) \/ StartingExpired(s)
           \/ BackCompleted(s) \/ LessCapacity(s)
  BY <1>1, <1>2, <1>3, SwitchOnShape, FromLowerShape, RestartShape, StartingExpiredShape,
     BackCompletedShape DEF ShapeNext
<1>4. CASE \E check \in Check(s) :
              \/ TimeExpired(s, check) \/ ExcessCapacity(s, check)
              \/ NeedMoreCapacity(s, check) \/ OffMode(s, check) \/ Ignored(s, check)
  BY <1>1, <1>2, <1>4, TimeExpiredShape, ExcessShape, NeedMoreShape, OffModeShape,
     IgnoredShape DEF ShapeNext
<1> QED BY <1>3, <1>4 DEF ProcessEvent

\* A stage that has nothing left to do is settled.
LEMMA DoneSettled ==
  ASSUME NEW s \in Stages, Running(s), queue[s] = <<>>
  PROVE  Settled(s)
BY DEF Running, AtRest, Rising, BeginningOn, BeginningOff, Beginning, Returning, Settled

\* The call of a stage returns.
LEMMA ReturnShape ==
  ASSUME ShapeInv, EventsProcessed
  PROVE  /\ StageTypes' /\ PointTypes' /\ StackInv' /\ StagesInv'
         /\ \/ \E s \in Stages : Alone(s) /\ Settled(s) /\ stack' = <<>>
            \/ \E s, low \in Stages : Above(s, low) /\ Settled(s) /\ stack' = <<low>>
<1>1. /\ stack # <<>> /\ queue[Head(stack)] = <<>> /\ stack' = Tail(stack)
      /\ UNCHANGED <<stageVars, argVars, pointVars, memberVars, pc, calls, history>>
  BY DEF EventsProcessed
<1>2. StageTypes' /\ PointTypes' /\ StagesInv'
  <2>1. StageTypes'
    BY <1>1 DEF ShapeInv, StageTypes, stageVars, argVars
  <2>2. PointTypes'
    BY <1>1 DEF ShapeInv, PointTypes, pointVars, memberVars, history
  <2>3. StagesInv'
    BY <1>1 DEF ShapeInv, StagesInv, ArgsOf, LinkOf, stageVars
  <2> QED BY <2>1, <2>2, <2>3
<1>3. \A r \in Stages : SameAs(r)
  BY <1>1 DEF SameAs, stageVars
<1>4. ASSUME NEW s \in Stages, Alone(s)
      PROVE  Settled(s) /\ stack' = <<>> /\ StackInv'
  <2>1. Head(stack) = s /\ Tail(stack) = <<>>
    BY <1>4, OneEvent DEF Alone
  <2>2. Settled(s)
    BY <1>1, <1>4, <2>1, DoneSettled DEF Alone
  <2>3. NoOtherThan({})'
    BY <1>3, <1>4, <2>2, SameShape DEF Alone, NoOtherThan
  <2> QED BY <1>1, <2>1, <2>2, <2>3 DEF StackInv
<1>5. ASSUME NEW s \in Stages, NEW low \in Stages, Above(s, low)
      PROVE  Settled(s) /\ stack' = <<low>> /\ StackInv'
  <2>1. Head(stack) = s /\ Tail(stack) = <<low>>
    BY <1>5, TwoEvents DEF Above
  <2>2. Settled(s)
    BY <1>1, <1>5, <2>1, DoneSettled DEF Above
  <2>3. NoOtherThan({low})'
    BY <1>3, <1>5, <2>2, SameShape DEF Above, NoOtherThan
  <2>4. Waiting(low)' /\ Served(low)'
    BY <1>3, <1>5, SameShape DEF Above
  <2>5. AtRest(low)'
    BY <2>4 DEF Waiting, AtRest, RestStates
  <2>6. Alone(low)'
    BY <1>1, <2>1, <2>3, <2>4, <2>5 DEF Alone, Running
  <2> QED BY <1>1, <2>1, <2>2, <2>6 DEF StackInv
<1> QED BY <1>1, <1>2, <1>4, <1>5 DEF ShapeInv, StackInv

\* The equipment calls a stage.
LEMMA CallShape ==
  ASSUME ShapeInv, Call
  PROVE  /\ StageTypes' /\ PointTypes' /\ StackInv' /\ StagesInv'
         /\ \E c \in CallSet :
              /\ c = calls[1] /\ Len(calls) \in Nat \ {0}
              /\ calls' = Tail(calls) /\ stack' = <<c.stage>>
              /\ Settled(c.stage) /\ queue'[c.stage] = <<c.ev>>
              /\ \A r \in Stages \ {c.stage} : SameAs(r)
              /\ st' = st
<1>1. calls \in Seq(CallSet) /\ stack = <<>> /\ calls # <<>>
  BY DEF ShapeInv, PointTypes, Call
<1>2. Head(calls) \in CallSet
  BY <1>1
<1>3. PICK c \in CallSet : c = Head(calls)
  BY <1>2
<1> DEFINE s == c.stage
           ev == c.ev
<1>4. /\ stack = <<>> /\ calls # <<>>
      /\ queue' = [queue EXCEPT ![s] = Append(queue[s], ev)]
      /\ stack' = <<s>>
      /\ args' = [args EXCEPT ![s] = IF ev = "OffModeRequest" THEN args[s] ELSE "this"]
      /\ supplemented' = [supplemented EXCEPT ![s] = supplemented[s] /\ ev # "OnRequest"]
      /\ nextStage' = [nextStage EXCEPT
                         ![s] = IF ev = "NeedMoreCapacity" THEN s + 1 ELSE nextStage[s]]
      /\ calls' = Tail(calls)
      /\ UNCHANGED <<st, prevStage, startAge, argVars, pointVars, memberVars, pc, history>>
  BY <1>3 DEF Call
<1>5. c = calls[1] /\ Len(calls) \in Nat \ {0} /\ Tail(calls) \in Seq(CallSet)
  BY <1>1, <1>3
<1>6. /\ s \in Stages /\ ev \in Requests
      /\ ev = "OnRequest" => First(s)
      /\ ev = "NeedMoreCapacity" => s \in Heats /\ s + 1 \in Heats
  BY <1>5 DEF CallSet
<1> HIDE DEF s, ev
<1>7. \A r \in Stages : Settled(r)
  BY <1>4 DEF ShapeInv, StackInv, NoOtherThan, Alone, Above
<1>8. queue' = [queue EXCEPT ![s] = <<ev>>]
  <2>1. Append(queue[s], ev) = <<ev>>
    BY <1>6, <1>7, OneEvent DEF Settled
  <2> QED BY <1>4, <2>1
<1>9. StageTypes'
  <2>1. <<ev>> \in Seq(Events)
    BY <1>6, EventNames, EventSeqs
  <2>2. queue' \in [Stages -> Seq(Events)]
    BY <1>8, <2>1 DEF ShapeInv, StageTypes
  <2>3. args' \in [Stages -> {"null", "old", "this"}]
    BY <1>4, <1>6 DEF ShapeInv, StageTypes
  <2>4. supplemented' \in [Stages -> BOOLEAN]
    BY <1>4 DEF ShapeInv, StageTypes
  <2>5. nextStage' \in [Stages -> Stages \cup {None}]
    <3>1. ev = "NeedMoreCapacity" => s + 1 \in Stages
      BY <1>6, Constants
    <3> QED BY <1>4, <1>6, <3>1 DEF ShapeInv, StageTypes
  <2> QED BY <1>4, <2>2, <2>3, <2>4, <2>5 DEF ShapeInv, StageTypes, argVars
<1>10. PointTypes'
  BY <1>4, <1>5 DEF ShapeInv, PointTypes, pointVars, memberVars, history
<1>11. \A r \in Stages \ {s} : SameAs(r)
  BY <1>4, <1>8 DEF SameAs, ShapeInv, StageTypes
<1>12. /\ queue'[s] = <<ev>> /\ st'[s] = st[s] /\ prevStage'[s] = prevStage[s]
       /\ args'[s] = (IF ev = "OffModeRequest" THEN args[s] ELSE "this")
       /\ supplemented'[s] = (supplemented[s] /\ ev # "OnRequest")
       /\ nextStage'[s] = IF ev = "NeedMoreCapacity" THEN s + 1 ELSE nextStage[s]
  BY <1>4, <1>6, <1>8 DEF ShapeInv, StageTypes
<1>13. Alone(s)'
  <2>1. AtRest(s)'
    <3>1. st'[s] \in RestStates /\ queue[s] = <<>>
      BY <1>6, <1>7, <1>12 DEF Settled
    <3>2. ev \notin Expired
      BY <1>6 DEF Requests, Expired
    <3>3. queue'[s] # <<"OnTimeExpired">> /\ queue'[s] # <<"OffTimeExpired">>
      BY <1>12, <3>2 DEF Expired
    <3> QED BY <1>6, <1>12, <3>1, <3>3 DEF AtRest
  <2>2. Served(s)'
    BY <1>12 DEF Served
  <2>3. NoOtherThan({s})'
    BY <1>7, <1>11, SameShape DEF NoOtherThan
  <2> QED BY <1>4, <2>1, <2>2, <2>3 DEF Alone, Running
<1>14. StackInv'
  BY <1>6, <1>13 DEF StackInv
<1>15. StagesInv'
  <2> SUFFICES ASSUME NEW r \in Stages PROVE (ArgsOf(r) /\ LinkOf(r))'
    BY DEF StagesInv
  <2>1. CASE r = s
    <3>1. ArgsOf(s) /\ LinkOf(s) /\ queue[s] = <<>>
      BY <1>6, <1>7 DEF ShapeInv, StagesInv, Settled
    <3>2. ArgsOf(s)'
      BY <1>12, <3>1 DEF ArgsOf
    <3>3. st[s] \notin {"FromLower", "BackToLower"} /\ queue[s] # <<"OnRequest">>
      BY <1>6, <1>7 DEF Settled, RestStates
    <3>4. (queue'[s] = <<"OnRequest">>) <=> (ev = "OnRequest")
      BY <1>12
    <3>5. (queue'[s] = <<"NeedMoreCapacity">>) => (ev = "NeedMoreCapacity")
      BY <1>12
    <3>6. ev = "OnRequest" => ~(s >= 2)
      BY <1>6, Constants DEF First
    <3>7. LinkOf(s)'
      BY <1>6, <1>12, <3>1, <3>3, <3>4, <3>5, <3>6 DEF LinkOf
    <3> QED BY <2>1, <3>2, <3>7
  <2>2. CASE r # s
    BY <1>11, <2>2, SameShape DEF ShapeInv, StagesInv
  <2> QED BY <2>1, <2>2
<1> QED
  BY <1>4, <1>5, <1>6, <1>7, <1>9, <1>10, <1>11, <1>12, <1>14, <1>15 DEF s, ev

\* While no stage runs the components do not touch the state machines.
LEMMA QuietShape ==
  ASSUME ShapeInv, stack = <<>>, stack' = <<>>,
         UNCHANGED <<st, queue, nextStage, prevStage, supplemented>>,
         \A s \in Stages : args[s] # "null" => args'[s] # "null"
  PROVE  StackInv' /\ StagesInv'
<1>1. \A s \in Stages : Settled(s)
  BY DEF ShapeInv, StackInv, NoOtherThan, Alone, Above
<1>2. StackInv'
  BY <1>1 DEF StackInv, NoOtherThan, Settled
<1>3. ASSUME NEW s \in Stages PROVE (ArgsOf(s) /\ LinkOf(s))'
  <2>1. ArgsOf(s) /\ LinkOf(s)
    BY DEF ShapeInv, StagesInv
  <2>2. queue'[s] = <<>> /\ <<>> # <<"OnRequest">>
    BY <1>1 DEF Settled
  <2>3. ArgsOf(s)'
    BY <2>1, <2>2 DEF ArgsOf
  <2>4. LinkOf(s)'
    BY <2>1 DEF LinkOf
  <2> QED BY <2>3, <2>4
<1> QED BY <1>2, <1>3 DEF StagesInv

\* The sum of a time and an interval is kept in its range.
LEMMA OlderIn ==
  ASSUME NEW most \in Nat, NEW age \in 0..most
  PROVE  /\ Older(age, most) \in 0..most
         /\ Older(age, most) = IF age < most THEN age + 1 ELSE most
         /\ Min({1, most}) = IF most = 0 THEN 0 ELSE 1
         /\ Min({1, most}) \in 0..most
<1>1. Older(age, most) = IF age < most THEN age + 1 ELSE most
  BY DEF Older, Min
<1>2. Min({1, most}) = IF most = 0 THEN 0 ELSE 1
  BY DEF Min
<1> QED BY <1>1, <1>2

\* The sensors
LEMMA IdtShape ==
  ASSUME ShapeInv, NEW bad \in BOOLEAN, IdtSelection(bad)
  PROVE  StageTypes' /\ PointTypes' /\ StackInv' /\ StagesInv'
<1>1. StageTypes'
  BY DEF IdtSelection, ShapeInv, StageTypes, stageVars, argVars
<1>2. PointTypes'
  BY DEF IdtSelection, ShapeInv, PointTypes, history, Places
<1>3. StackInv' /\ StagesInv'
  BY QuietShape DEF IdtSelection, At, stageVars
<1> QED BY <1>1, <1>2, <1>3

\* The configuration that an operating mode comes to
LEMMA ModeConfig ==
  ASSUME PointTypes, NEW mode \in {"OFF", "COOLING", "ID_HEATING"}, NEW equip \in Equipments,
         mode = "COOLING" => equip.cool > 0, mode = "ID_HEATING" => equip.heat > 0,
         SetNewOperatingMode(mode, equip)
  PROVE  /\ config' \in [mode : {"UNKNOWN", "OFF", "COOLING", "ID_HEATING"},
                         heat : 0..NumHeat, cool : 0..1]
         /\ config'.mode = mode
         /\ config'.mode = "ID_HEATING" => config'.heat > 0
         /\ config'.mode = "COOLING" => config'.cool > 0
         /\ modeChanged' \in BOOLEAN /\ excuses' \subseteq {"config", "abort"}
         /\ \/ config' = config /\ seen' = seen /\ excuses' = {} /\ modeChanged' = FALSE
            \/ config' # config /\ seen' = {} /\ excuses' = {"config"}
<1>1. equip.heat \in 0..NumHeat /\ equip.cool \in 0..1 /\ 0 \in 0..NumHeat
  BY Constants
<1> DEFINE new == [mode |-> mode,
                   heat |-> IF mode = "ID_HEATING" THEN equip.heat ELSE 0,
                   cool |-> IF mode = "COOLING" THEN equip.cool ELSE 0]
<1>2. /\ config' = new
      /\ seen' = IF new = config THEN seen ELSE {}
      /\ modeChanged' = (mode # config.mode)
      /\ excuses' = IF new = config THEN {} ELSE {"config"}
  BY DEF SetNewOperatingMode
<1>3. /\ new \in [mode : {"UNKNOWN", "OFF", "COOLING", "ID_HEATING"},
                  heat : 0..NumHeat, cool : 0..1]
      /\ new.mode = mode
      /\ new.mode = "ID_HEATING" => new.heat > 0
      /\ new.mode = "COOLING" => new.cool > 0
  BY <1>1
<1> HIDE DEF new
<1>4. modeChanged' \in BOOLEAN
  BY <1>2
<1> QED BY <1>2, <1>3, <1>4

\* The operating mode of an interval
LEMMA ModeCases ==
  ASSUME ShapeInv, NEW userMode, NEW equip \in Equipments, NEW bad \in BOOLEAN,
         NEW warm \in BOOLEAN, OperatingMode(userMode, equip, bad, warm)
  PROVE  /\ \/ /\ \E mode \in {"OFF", "COOLING", "ID_HEATING"} :
                    /\ mode = "COOLING" => equip.cool > 0
                    /\ mode = "ID_HEATING" => equip.heat > 0
                    /\ refCnt' > 0 => mode = "OFF"
                    /\ SetNewOperatingMode(mode, equip)
            \/ KeepOperatingMode /\ inAuto /\ ~(refCnt' > 0)
         /\ inAuto' \in BOOLEAN
<1> DEFINE mode == Corrected(userMode, equip)
<1>1. CASE bad \/ refCnt' > 0
  BY <1>1 DEF OperatingMode, ShapeInv, PointTypes
<1>2. CASE ~(bad \/ refCnt' > 0)
  <2>1. ~(equip.heat = 0 /\ equip.cool = 0)
    <3>1. Alarm(bad \/ (equip.heat = 0 /\ equip.cool = 0)) /\ refCnt' \notin {x \in Int : x > 0}
      BY <1>2 DEF OperatingMode
    <3>2. refCnt \in 0..2
      BY DEF ShapeInv, ForcedInv, Counted
    <3> SUFFICES ASSUME equip.heat = 0 /\ equip.cool = 0 PROVE FALSE
      OBVIOUS
    <3>3. refCnt' = IF ~forcedOff THEN refCnt + 1 ELSE refCnt
      BY <3>1 DEF Alarm
    <3>4. forcedOff => refCnt > 0
      BY DEF ShapeInv, ForcedInv, Counted
    <3> QED BY <3>1, <3>2, <3>3, <3>4
  <2>2. equip.heat \in 0..NumHeat /\ equip.cool \in 0..1
    BY Constants
  <2>3. /\ mode \in {"OFF", "COOLING", "ID_HEATING", "AUTO"}
        /\ mode = "COOLING" => equip.cool > 0
        /\ mode = "ID_HEATING" => equip.heat > 0
        /\ mode = "AUTO" => equip.heat > 0 /\ equip.cool > 0
    BY <2>1, <2>2, Constants DEF Corrected
  <2>4. /\ inAuto' = (mode = "AUTO")
        /\ IF mode # "AUTO" THEN SetNewOperatingMode(mode, equip)
           ELSE IF ~inAuto \/ (~systemOn /\ sysOff >= Hysteresis)
           THEN SetNewOperatingMode(IF warm THEN "COOLING" ELSE "ID_HEATING", equip)
           ELSE KeepOperatingMode
    BY <1>2 DEF OperatingMode
  <2> HIDE DEF mode
  <2>5. CASE mode # "AUTO"
    BY <1>2, <2>3, <2>4, <2>5
  <2>6. CASE mode = "AUTO" /\ (~inAuto \/ (~systemOn /\ sysOff >= Hysteresis))
    BY <1>2, <2>3, <2>4, <2>6
  <2>7. CASE mode = "AUTO" /\ ~(~inAuto \/ (~systemOn /\ sysOff >= Hysteresis))
    BY <1>2, <2>4, <2>7
  <2> QED BY <2>5, <2>6, <2>7
<1> QED BY <1>1, <1>2

\* The operating mode
LEMMA ModeShape ==
  ASSUME ShapeInv, NEW userMode, NEW equip \in Equipments, NEW bad \in BOOLEAN,
         NEW warm \in BOOLEAN, OperatingMode(userMode, equip, bad, warm)
  PROVE  StageTypes' /\ PointTypes' /\ StackInv' /\ StagesInv'
<1>1. /\ At("OperatingMode") /\ pc' = "Pi"
      /\ UNCHANGED <<stageVars, argVars, pvOut, relays, unitOff, sysOff, whiteBoxValid,
                     critical, relaySysOn, calls, stack, onFor, defeated>>
  BY DEF OperatingMode
<1>2. StageTypes'
  BY <1>1 DEF ShapeInv, StageTypes, stageVars, argVars
<1>3. PointTypes'
  <2>1. PointTypes /\ inAuto' \in BOOLEAN
    BY ModeCases DEF ShapeInv
  <2>2. /\ config' \in [mode : {"UNKNOWN", "OFF", "COOLING", "ID_HEATING"},
                        heat : 0..NumHeat, cool : 0..1]
        /\ config'.mode = "ID_HEATING" => config'.heat > 0
        /\ config'.mode = "COOLING" => config'.cool > 0
        /\ modeChanged' \in BOOLEAN /\ excuses' \subseteq {"config", "abort"}
        /\ seen' \subseteq {"cool", "heat", "off"}
    <3>1. CASE KeepOperatingMode
      BY <2>1, <3>1 DEF KeepOperatingMode, PointTypes
    <3>2. ASSUME NEW mode \in {"OFF", "COOLING", "ID_HEATING"},
                 mode = "COOLING" => equip.cool > 0, mode = "ID_HEATING" => equip.heat > 0,
                 SetNewOperatingMode(mode, equip)
          PROVE  /\ config' \in [mode : {"UNKNOWN", "OFF", "COOLING", "ID_HEATING"},
                                 heat : 0..NumHeat, cool : 0..1]
                 /\ config'.mode = "ID_HEATING" => config'.heat > 0
                 /\ config'.mode = "COOLING" => config'.cool > 0
                 /\ modeChanged' \in BOOLEAN /\ excuses' \subseteq {"config", "abort"}
                 /\ seen' \subseteq {"cool", "heat", "off"}
      <4>1. seen \subseteq {"cool", "heat", "off"}
        BY <2>1 DEF PointTypes
      <4> QED BY <2>1, <3>2, <4>1, ModeConfig
    <3> QED BY <3>1, <3>2, ModeCases
  <2> QED BY <1>1, <2>1, <2>2 DEF PointTypes, Places
<1>4. StackInv' /\ StagesInv'
  BY <1>1, QuietShape DEF At, stageVars
<1> QED BY <1>2, <1>3, <1>4

\* The load
LEMMA PiShape ==
  ASSUME ShapeInv, NEW pv \in PvValues, Pi(pv)
  PROVE  StageTypes' /\ PointTypes' /\ StackInv' /\ StagesInv'
<1>1. StageTypes'
  BY DEF Pi, ShapeInv, StageTypes, stageVars, argVars
<1>2. PointTypes'
  BY DEF Pi, ShapeInv, PointTypes, memberVars, history, Places
<1>3. StackInv' /\ StagesInv'
  BY QuietShape DEF Pi, At, stageVars
<1> QED BY <1>1, <1>2, <1>3

\* The fan
LEMMA FanShape ==
  ASSUME ShapeInv, NEW valid \in BOOLEAN, FanControl(valid)
  PROVE  StageTypes' /\ PointTypes' /\ StackInv' /\ StagesInv'
<1>1. fan' \in BOOLEAN /\ fanCut' \in BOOLEAN
  BY DEF FanControl
<1>2. StageTypes'
  BY <1>1 DEF FanControl, ShapeInv, StageTypes, stageVars
<1>3. PointTypes'
  BY DEF FanControl, ShapeInv, PointTypes, pointVars, memberVars, history, Places
<1>4. StackInv' /\ StagesInv'
  BY QuietShape DEF FanControl, At, stageVars
<1> QED BY <1>2, <1>3, <1>4

\* A Control follows another.
LEMMA ControlPlaces ==
  ASSUME NEW c \in {"cool", "heat", "off"}
  PROVE  After(c) \in Places /\ Ready(c) \in Places
BY DEF After, Ready, Places

\* A Control
LEMMA ControlShape ==
  ASSUME ShapeInv, NEW c \in {"cool", "heat", "off"},
         \/ ControlIdle(c) \/ ControlOff(c) \/ ControlReset(c)
         \/ \E a \in {FALSE, Aborts}, d \in BOOLEAN : ControlActive(c, a, d)
  PROVE  StageTypes' /\ PointTypes' /\ StackInv' /\ StagesInv'
<1>1. StackInv' /\ StagesInv'
  <2>1. stack = <<>> /\ UNCHANGED <<stageVars, stack>>
    BY DEF ControlIdle, ControlOff, ControlReset, ControlActive, At
  <2> QED BY <2>1, QuietShape DEF stageVars
<1>2. StageTypes'
  <2>1. CASE ControlIdle(c) \/ ControlOff(c)
    BY <2>1 DEF ControlIdle, ControlOff, ShapeInv, StageTypes, stageVars, argVars
  <2>2. ASSUME UNCHANGED stageVars, abort' \in BOOLEAN, systemOn' = FALSE,
               out' = [s \in Stages |-> FALSE], fan' = FALSE, fanCut' = FALSE,
               cycle' = [cycle EXCEPT !.mode = "OFF"]
        PROVE  StageTypes'
    <3>1. /\ out' \in [Stages -> BOOLEAN] /\ fan' \in BOOLEAN /\ fanCut' \in BOOLEAN /\ systemOn' \in BOOLEAN
      BY <2>2, Zenon
    <3>2. cycle' \in Cycles
      BY <2>2, CycleTypes DEF ShapeInv, StageTypes
    <3> QED BY <2>2, <3>1, <3>2 DEF ShapeInv, StageTypes, stageVars
  <2>3. CASE ControlReset(c)
    <3>1. abort' \in BOOLEAN
      BY <2>3 DEF ControlReset, ShapeInv, StageTypes
    <3> QED BY <2>2, <2>3, <3>1 DEF ControlReset
  <2>4. ASSUME NEW a \in {FALSE, Aborts}, NEW d \in BOOLEAN,
         ControlActive(c, a, d) PROVE StageTypes'
    <3>1. abort' \in BOOLEAN
      BY <2>4 DEF ControlActive
    <3>2. CASE c = "off"
      BY <2>2, <2>4, <3>1, <3>2 DEF ControlActive
    <3>3. CASE c # "off"
      <4>1. UNCHANGED <<stageVars, out, fan, fanCut, systemOn, cycle>>
        BY <2>4, <3>3 DEF ControlActive
      <4> QED BY <3>1, <4>1 DEF ShapeInv, StageTypes, stageVars
    <3> QED BY <3>2, <3>3
  <2> QED BY <2>1, <2>3, <2>4
<1>3. PointTypes'
  <2>1. CASE ControlIdle(c)
    BY <2>1, ControlPlaces
    DEF ControlIdle, ShapeInv, PointTypes, pointVars, memberVars, history
  <2>2. CASE ControlOff(c)
    <3>1. calls' \in Seq(CallSet) /\ pc' \in Places
      BY <2>2, OffCalls, ControlPlaces DEF ControlOff
    <3> QED
      BY <2>2, <3>1 DEF ControlOff, ShapeInv, PointTypes, pointVars, memberVars, history
  <2>3. CASE ControlReset(c)
    <3>1. calls' \in Seq(CallSet) /\ pc' \in Places
      BY <2>3, OffCalls, ControlPlaces DEF ControlReset
    <3>2. seen' \subseteq {"cool", "heat", "off"}
      BY <2>3 DEF ControlReset, ShapeInv, PointTypes
    <3> QED
      BY <2>3, <3>1, <3>2 DEF ControlReset, ShapeInv, PointTypes, pointVars, history
  <2>4. ASSUME NEW a \in {FALSE, Aborts}, NEW d \in BOOLEAN,
         ControlActive(c, a, d) PROVE PointTypes'
    <3>1. config.heat \in 0..NumHeat
      BY DEF ShapeInv, PointTypes
    <3>2. calls' \in Seq(CallSet)
      <4>1. CASE c = "off"
        <5>1. calls' = <<>>
          BY <2>4, <4>1 DEF ControlActive
        <5> QED BY <5>1
      <4>2. CASE c = "cool"
        <5>1. calls' = ExecuteCooling(d)
          BY <2>4, <4>2 DEF ControlActive
        <5>2. "cool" \in Units
          BY DEF Units
        <5> QED BY <3>1, <5>1, <5>2, ActiveCalls DEF CallsOk
      <4>3. CASE c = "heat"
        <5>1. calls' = ExecuteHeating(d)
          BY <2>4, <4>3 DEF ControlActive
        <5>2. "heat" \in Units
          BY DEF Units
        <5> QED BY <3>1, <5>1, <5>2, ActiveCalls DEF CallsOk
      <4> QED BY <4>1, <4>2, <4>3
    <3>3. pc' \in Places /\ excuses' \subseteq {"config", "abort"}
      <4>1. excuses' = excuses \cup IF a THEN {"abort"} ELSE {}
        BY <2>4 DEF ControlActive
      <4>2. pc' = After(c)
        BY <2>4 DEF ControlActive
      <4> QED BY <4>1, <4>2, ControlPlaces DEF ShapeInv, PointTypes
    <3> QED
      BY <2>4, <3>2, <3>3 DEF ControlActive, ShapeInv, PointTypes, pointVars, memberVars
  <2> QED BY <2>1, <2>2, <2>3, <2>4
<1> QED BY <1>1, <1>2, <1>3

\* The relays
LEMMA RelaysShape ==
  ASSUME ShapeInv, Relays
  PROVE  StageTypes' /\ PointTypes' /\ StackInv' /\ StagesInv'
<1>1. StackInv' /\ StagesInv'
  <2>1. \A s \in Stages : args[s] # "null" => args'[s] # "null"
    BY DEF Relays
  <2> QED BY <2>1, QuietShape DEF Relays, At
<1>2. StageTypes'
  <2>1. startAge' \in [Stages -> 0..MaxAge]
    <3>1. \A s \in Stages : Older(startAge[s], MaxAge) \in 0..MaxAge
      BY OlderIn, Constants DEF ShapeInv, StageTypes
    <3>2. MaxAge \in 0..MaxAge
      BY Constants
    <3> QED BY <3>1, <3>2 DEF Relays
  <2>2. args' \in [Stages -> {"null", "old", "this"}]
    BY DEF Relays, ShapeInv, StageTypes
  <2>3. cycle' \in Cycles
    <3>1. /\ cycle.onAge \in 0..MinOn /\ cycle.mode \in {"OFF", "ON_CYCLE", "OFF_CYCLE"}
          /\ cycle = [mode |-> cycle.mode, onAge |-> cycle.onAge]
      BY DEF ShapeInv, StageTypes, Cycles
    <3>2. Older(cycle.onAge, MinOn) \in 0..MinOn
      BY <3>1, OlderIn, Constants
    <3>3. cycle' = [cycle EXCEPT !.onAge = Older(cycle.onAge, MinOn)]
      BY DEF Relays
    <3>4. cycle' = [mode |-> cycle.mode, onAge |-> Older(cycle.onAge, MinOn)]
      BY <3>1, <3>3
    <3> QED BY <3>1, <3>2, <3>4 DEF Cycles
  <2>4. abort' \in BOOLEAN
    BY Zenon DEF Relays
  <2> QED BY <2>1, <2>2, <2>3, <2>4 DEF Relays, ShapeInv, StageTypes
<1>3. PointTypes'
  <2>1. relays' \subseteq Stages
    BY DEF Relays, RelayOutputs
  <2>2. unitOff' \in [Units -> 0..MinUnitOff]
    <3>1. \A u \in Units : /\ Older(unitOff[u], MinUnitOff) \in 0..MinUnitOff
                           /\ Min({1, MinUnitOff}) \in 0..MinUnitOff
      BY OlderIn, Constants DEF ShapeInv, PointTypes
    <3> QED BY <3>1 DEF Relays
  <2>3. sysOff' \in 0..Hysteresis
    <3>1. Older(sysOff, Hysteresis) \in 0..Hysteresis /\ Min({1, Hysteresis}) \in 0..Hysteresis
      BY OlderIn, Constants DEF ShapeInv, PointTypes
    <3> QED BY <3>1 DEF Relays
  <2>4. onFor' \in [Stages -> 0..MinOn]
    <3>1. \A s \in Stages : onFor[s] \in 0..MinOn
      BY DEF ShapeInv, PointTypes
    <3>2. MinOn \in Nat /\ 0 \in 0..MinOn
      BY Constants
    <3>3. \A s \in Stages : Older(onFor[s], MinOn) \in 0..MinOn
      BY <3>1, <3>2, OlderIn
    <3> QED BY <3>2, <3>3 DEF Relays
  <2>5. whiteBoxValid' \in BOOLEAN /\ relaySysOn' \in BOOLEAN
    <3>1. whiteBoxValid' \in BOOLEAN
      BY Zenon DEF Relays
    <3> QED BY <3>1 DEF Relays, ShapeInv, StageTypes
  <2>6. pc' \in Places
    BY DEF Relays, Places
  <2> QED BY <2>1, <2>2, <2>3, <2>4, <2>5, <2>6 DEF Relays, ShapeInv, PointTypes
<1> QED BY <1>1, <1>2, <1>3

\* ShapeInv is inductive.
LEMMA ShapeStep == ShapeInv /\ [Next]_vars => ShapeInv'
<1> SUFFICES ASSUME ShapeInv, [Next]_vars PROVE ShapeInv'
  OBVIOUS
<1>1. ForcedInv'
  BY ForcedStep DEF ShapeInv
<1>2. ASSUME UNCHANGED vars PROVE StageTypes' /\ PointTypes' /\ StackInv' /\ StagesInv'
  <2>1. StageTypes'
    BY <1>2 DEF ShapeInv, StageTypes, vars, stageVars, argVars
  <2>2. PointTypes'
    BY <1>2 DEF ShapeInv, PointTypes, vars, pointVars, memberVars, threadVars, history
  <2>3. StagesInv'
    BY <1>2 DEF ShapeInv, StagesInv, ArgsOf, LinkOf, vars, stageVars
  <2>4. StackInv'
    <3>1. UNCHANGED <<st, queue, args, abort, stack>>
      BY <1>2 DEF vars, stageVars, argVars, threadVars
    <3>2. StackInv
      BY DEF ShapeInv
    <3> QED
      BY <3>1, <3>2 DEF StackInv, NoOtherThan, Alone, Above, Settled, Running, Served, Calm,
         Waiting, AtRest, Rising, BeginningOn, BeginningOff, Beginning, Returning
  <2> QED BY <2>1, <2>2, <2>3, <2>4
<1>3. StageTypes' /\ PointTypes' /\ StackInv' /\ StagesInv'
  BY <1>2, IdtShape, ModeShape, PiShape, ControlShape, CallShape, ProcessShape,
     ReturnShape, FanShape, RelaysShape DEF Next
<1> QED BY <1>1, <1>3 DEF ShapeInv

\* No assertion of the stages fails, no event queue overflows and no Control
\* meets a number of stages that it does not know, for any number of stages and
\* any times, whatever the sensors, the user and the load do.
THEOREM NoFatalAlways == Spec => []NoFatal
<1>1. ShapeInv => NoFatal
  <2> SUFFICES ASSUME ShapeInv PROVE NoFatal
    OBVIOUS
  <2>1. TypeOK
    <3>1. refCnt \in 0..2
      BY DEF ShapeInv, ForcedInv, Counted
    <3>2. StageTypes /\ PointTypes
      BY DEF ShapeInv
    <3>3. config.mode \in {"UNKNOWN", "OFF", "COOLING", "ID_HEATING"}
      BY <3>2 DEF PointTypes
    <3> QED BY <3>1, <3>2, <3>3 DEF StageTypes, PointTypes, TypeOK, RestStates, Cycles
  <2>2. ASSUME NEW s \in Stages PROVE Len(queue[s]) <= QueueSize
    <3>1. Running(s) \/ Waiting(s) \/ Settled(s)
      BY DEF ShapeInv, StackInv, Alone, Above, NoOtherThan
    <3>2. \/ queue[s] = <<>>
          \/ \E e : queue[s] = <<e>>
          \/ \E e, f : queue[s] = <<e, f>>
      BY <3>1 DEF Running, Waiting, Settled, AtRest, Rising, BeginningOn, BeginningOff,
         Beginning, Returning
    <3>3. Len(<<>>) = 0 /\ (\A e : Len(<<e>>) = 1) /\ (\A e, f : Len(<<e, f>>) = 2)
      OBVIOUS
    <3>4. Len(queue[s]) \in {0, 1, 2}
      BY <3>2, <3>3
    <3>5. \A n \in {0, 1, 2} : n <= QueueSize
      BY DEF QueueSize
    <3> QED BY <3>4, <3>5, Zenon
  <2>3. ASSUME NEW s \in Stages, stack # <<>>, s = Head(stack), queue[s] # <<>>
        PROVE  /\ Takes(s, "NeedMoreCapacity") => nextStage[s] # None
               /\ Takes(s, "BackCompleted") => prevStage[s] # None
               /\ st[s] # "Off" \/ Event(s) = "OnRequest" => args[s] # "null"
    <3>1. Running(s) /\ Served(s) /\ ArgsOf(s) /\ LinkOf(s)
      BY <2>3, TopOf DEF ShapeInv, StagesInv
    <3>2. Takes(s, "NeedMoreCapacity") => nextStage[s] # None
      <4>1. Takes(s, "NeedMoreCapacity") => queue[s] = <<"NeedMoreCapacity">>
        BY <2>3, <3>1, TakenForms
      <4> QED BY <3>1, <4>1, Constants DEF LinkOf, None
    <3>3. Takes(s, "BackCompleted") => prevStage[s] # None
      BY <3>1, Constants DEF Takes, TakenIn, LinkOf, None
    <3>4. st[s] # "Off" => args[s] # "null"
      BY <3>1 DEF ArgsOf
    <3>5. st[s] = "Off" /\ Event(s) = "OnRequest" => args[s] # "null"
      <4>1. st[s] = "Off" => queue[s] = <<Event(s)>>
        BY <2>3, <3>1, EventOf
      <4> QED BY <3>1, <4>1 DEF ArgsOf
    <3> QED BY <3>2, <3>3, <3>4, <3>5
  <2> QED BY <2>1, <2>2, <2>3 DEF NoFatal, ShapeInv, PointTypes
<1> QED BY <1>1, ShapeInit, ShapeStep, PTL DEF Spec

-----------------------------------------------------------------------------
(* The mode, the outputs and the chain are kept by the stages *)

\* Where the thread is depends on few variables.
LEMMA SamePlace ==
  ASSUME UNCHANGED <<config, pc, seen>>
  PROVE  /\ Unit' = Unit /\ UnitAt' = UnitAt
         /\ Resetting' <=> Resetting
         /\ SwitchingOff' <=> SwitchingOff
         /\ Fresh' <=> Fresh
         /\ \A s \in Stages : ToCome(s)' <=> ToCome(s)
<1>1. Unit' = Unit /\ UnitAt' = UnitAt
  BY DEF Unit, UnitAt
<1>2. Resetting' <=> Resetting
  BY DEF Resetting
<1> QED BY <1>1, <1>2 DEF SwitchingOff, Fresh, ToCome

\* The units do not share stages.
LEMMA Separate ==
  /\ StagesOf("cool") = {0} /\ StagesOf("heat") = Heats
  /\ StagesOf("off") = {} /\ StagesOf("none") = {}
  /\ 0 \notin Heats /\ Stages = {0} \cup Heats /\ 1 \in Heats
  /\ \A u, v : \A s : s \in StagesOf(u) /\ s \in StagesOf(v) => u = v
  /\ \A u, s : s \in StagesOf(u) => u \in Units /\ s \in Stages
<1>1. 0 \notin Heats /\ Stages = {0} \cup Heats /\ 1 \in Heats
  BY Constants
<1> QED BY <1>1 DEF StagesOf, Units

\* The values of Unit and UnitAt
LEMMA UnitValues ==
  ASSUME PointTypes
  PROVE  /\ Unit \in {"cool", "heat", "off", "none"} /\ UnitAt \in {"cool", "heat", "none"}
         /\ \A c \in {"cool", "heat", "off"} : config.mode = ModeOf(c) <=> Unit = c
BY DEF PointTypes, Unit, UnitAt, ModeOf

\* A stage with something in its queue belongs to the unit whose Control makes
\* the calls; that one is switched off or it is the unit in use.
LEMMA WhereRuns ==
  ASSUME ShapeInv, ModeInv, NEW s \in Stages, queue[s] # <<>> \/ calls # <<>>, 
         stack # <<>> \/ calls # <<>>
  PROVE  /\ whiteBoxValid /\ ~(~Fresh /\ pc \in Starts)
         /\ UnitAt \in Units
         /\ queue[s] # <<>> => s \in StagesOf(UnitAt)
         /\ ~SwitchingOff => Fresh /\ ~Resetting /\ Unit = UnitAt
         /\ SwitchingOff /\ Unit = UnitAt => Resetting
<1>1. whiteBoxValid /\ ~(~Fresh /\ pc \in Starts)
  BY DEF ShapeInv, PointTypes, ModeInv, PlaceInv, Blank
<1>2. queue[s] # <<>> => s \in StagesOf(UnitAt)
  BY DEF ModeInv, CallsInv
<1>3. UnitAt \in Units
  <2>1. CASE queue[s] # <<>>
    BY <1>2, <2>1, Separate
  <2>2. CASE calls # <<>>
    <3>1. calls \in Seq(CallSet)
      BY DEF ShapeInv, PointTypes
    <3>2. 1 \in 1..Len(calls)
      BY <2>2, <3>1
    <3>3. calls[1].stage \in StagesOf(UnitAt)
      BY <3>2 DEF ModeInv, CallsInv
    <3> QED BY <3>3, Separate
  <2> QED BY <2>1, <2>2
<1>4. UnitAt # "none"
  BY <1>3 DEF Units
<1>5. ASSUME ~SwitchingOff PROVE Fresh /\ ~Resetting /\ Unit = UnitAt
  <2>1. ~Resetting /\ Unit = UnitAt
    BY <1>4, <1>5 DEF SwitchingOff
  <2>2. \/ UnitAt = "cool" /\ pc = "heat"
        \/ UnitAt = "heat" /\ pc = "off"
    BY <1>4, <2>1 DEF UnitAt, Resetting
  <2> QED BY <1>1, <2>1, <2>2 DEF ModeInv, PlaceInv
<1> QED BY <1>1, <1>2, <1>3, <1>5 DEF SwitchingOff

\* Steps of the stages do not move the thread.
LEMMA PlaceKept ==
  ASSUME ShapeInv, ModeInv, NEW s \in Stages, queue[s] # <<>> \/ calls # <<>>, 
         stack # <<>> \/ calls # <<>>, UNCHANGED <<pointVars, memberVars, pc>>
  PROVE  /\ PlaceInv' /\ Unit' = Unit /\ UnitAt' = UnitAt
         /\ Resetting' <=> Resetting
         /\ SwitchingOff' <=> SwitchingOff
         /\ Fresh' <=> Fresh
         /\ \A r \in Stages : ToCome(r)' <=> ToCome(r)
<1>1. UNCHANGED <<config, pc, seen, whiteBoxValid, inAuto, refCnt>>
  BY DEF pointVars, memberVars
<1>2. /\ Unit' = Unit /\ UnitAt' = UnitAt
      /\ Resetting' <=> Resetting
      /\ SwitchingOff' <=> SwitchingOff
      /\ Fresh' <=> Fresh
      /\ \A r \in Stages : ToCome(r)' <=> ToCome(r)
  BY <1>1, SamePlace
<1>3. whiteBoxValid /\ ~(~Fresh /\ pc \in Starts)
  BY WhereRuns
<1>4. PlaceInv
  BY DEF ModeInv
<1>5. PlaceInv'
  BY <1>1, <1>2, <1>3, <1>4 DEF PlaceInv
<1> QED BY <1>2, <1>5

\* The stages that do not run have at most an expired time in their queue.
LEMMA OtherQueues ==
  ASSUME NEW s \in Stages, Runs(s), NEW r \in Stages \ {s}
  PROVE  queue[r] = <<>> \/ \E e \in Expired : queue[r] = <<e>>
BY TopOf DEF Runs, Alone, Above, NoOtherThan, Settled, Waiting

\* An expired time is no request.
LEMMA ExpiredOnly ==
  ASSUME NEW q, q = <<>> \/ \E e \in Expired : q = <<e>>
  PROVE  /\ q # <<"OnRequest">> /\ q # <<"NeedMoreCapacity">>
         /\ q # <<"LessCapacity">> /\ q # <<"ExcessCapacity">>
         /\ q # <<"OffModeRequest">>
BY DEF Expired

\* The stages of the unit in use form a chain after a step of one of them.
LEMMA ChainStep ==
  ASSUME NEW s \in Stages, Runs(s),
         \A r \in Heats : r + 1 \in Heats => Chain(r),
         \A r \in Stages \ {s} : SameAs(r),
         queue'[s] # <<"OnRequest">>,
         s >= 2 => ((st'[s] = "Off") <=> (st[s] = "Off" /\ queue[s] # <<"OnRequest">>)),
         queue'[s] # <<"LessCapacity">>,
         s \in Heats /\ s + 1 \in Heats =>
           \/ /\ queue[s] # <<"LessCapacity">>
              /\ (st'[s] = "Supplementing") <=> (st[s] = "Supplementing")
           \/ /\ queue[s] = <<"LessCapacity">>
              /\ st[s] = "Supplementing" /\ st'[s] # "Supplementing"
  PROVE  \A r \in Heats : r + 1 \in Heats => Chain(r)'
<1> SUFFICES ASSUME NEW r \in Heats, r + 1 \in Heats PROVE Chain(r)'
  OBVIOUS
<1>1. Chain(r)
  OBVIOUS
<1>2. r \in Stages /\ r + 1 \in Stages /\ r + 1 # r /\ r + 1 >= 2
  BY Constants
<1>3. \A t \in Stages \ {s} : queue[t] # <<"OnRequest">> /\ queue[t] # <<"LessCapacity">>
  BY OtherQueues, ExpiredOnly
<1>4. \A t \in Stages \ {s} : st'[t] = st[t] /\ queue'[t] = queue[t]
  BY DEF SameAs
<1>5. CASE r = s
  BY <1>1, <1>2, <1>3, <1>4, <1>5 DEF Chain
<1>6. CASE r + 1 = s
  BY <1>1, <1>2, <1>3, <1>4, <1>6 DEF Chain
<1>7. CASE r # s /\ r + 1 # s
  BY <1>1, <1>2, <1>4, <1>7 DEF Chain
<1> QED BY <1>5, <1>6, <1>7

\* A stage of equipment that is switched off only goes off or drops its event.
LEMMA OffOnly ==
  ASSUME ShapeInv, ModeInv, NEW s \in Stages, ProcessEvent(s), SwitchingOff
  PROVE  /\ \/ queue[s] = <<"OffModeRequest">> /\ Event(s) = "OffModeRequest"
            \/ st[s] = "Off" /\ Event(s) \in Expired
         /\ \E check \in Check(s) : OffMode(s, check) \/ Ignored(s, check)
<1>1. Runs(s) /\ queue[s] # <<>> /\ stack # <<>>
  BY ProcessShape DEF Runs
<1>2. \/ queue[s] = <<"OffModeRequest">> /\ Event(s) = "OffModeRequest"
      \/ st[s] = "Off" /\ Event(s) \in Expired
  <2>1. \/ queue[s] = <<"OffModeRequest">>
        \/ st[s] = "Off" /\ \E e \in Expired : queue[s] = <<e>>
    BY <1>1 DEF ModeInv, CallsInv
  <2> QED BY <2>1, OneEvent DEF Event
<1>3. \E check \in Check(s) : OffMode(s, check) \/ Ignored(s, check)
  <2>1. ~SwitchOn(s) /\ ~FromLower(s) /\ ~FromCompleted(s)
    BY <1>2 DEF SwitchOn, FromLower, FromCompleted, Takes, Expired
  <2>2. ~StartingExpired(s)
    BY <1>2 DEF StartingExpired, Takes, Expired
  <2>3. ~BackCompleted(s) /\ ~LessCapacity(s)
    BY <1>2 DEF BackCompleted, LessCapacity, Takes, Expired
  <2>4. ASSUME NEW check \in Check(s)
        PROVE  /\ ~TimeExpired(s, check) /\ ~ExcessCapacity(s, check)
               /\ ~NeedMoreCapacity(s, check)
    <3>1. ~TimeExpired(s, check)
      BY <1>2 DEF TimeExpired, Takes, TakenIn, IsOnCycle
    <3> QED BY <1>2, <3>1 DEF ExcessCapacity, NeedMoreCapacity, Takes, Expired
  <2> QED BY <2>1, <2>2, <2>3, <2>4 DEF ProcessEvent
<1> QED BY <1>2, <1>3

\* A stage of equipment that is switched off goes off or stays off.
LEMMA SwitchingOffStep ==
  ASSUME ShapeInv, ModeInv, NEW s \in Stages, ProcessEvent(s), SwitchingOff
  PROVE  ModeInv'
<1>1. Runs(s) /\ queue[s] # <<>> /\ stack # <<>>
  BY ProcessShape DEF Runs
<1>2. /\ PlaceInv' /\ Unit' = Unit /\ UnitAt' = UnitAt
      /\ Resetting' <=> Resetting
      /\ SwitchingOff' <=> SwitchingOff
      /\ Fresh' <=> Fresh
      /\ \A r \in Stages : ToCome(r)' <=> ToCome(r)
  BY <1>1, PlaceKept DEF ProcessEvent
<1>3. s \in StagesOf(UnitAt) /\ (Unit = UnitAt => Resetting)
  BY <1>1, WhereRuns
<1>4. \/ queue[s] = <<"OffModeRequest">> /\ Event(s) = "OffModeRequest"
      \/ st[s] = "Off" /\ Event(s) \in Expired
  BY OffOnly
<1>5. PICK check \in Check(s) : OffMode(s, check) \/ Ignored(s, check)
  BY OffOnly
<1>6. /\ st'[s] = "Off" /\ UNCHANGED <<out, fan, fanCut, systemOn, calls>>
      /\ queue'[s] = <<>> \/ \E e \in Expired : queue'[s] = <<e>>
      /\ \A r \in Stages \ {s} : SameAs(r)
  <2>1. check = <<>> \/ \E e \in Expired : check = <<e>>
    BY CheckLeaves DEF ShapeInv, StageTypes
  <2>2. CASE OffMode(s, check)
    BY <1>1, <2>1, <2>2, OffModeShape DEF OffMode, Moves, ProcessEvent
  <2>3. CASE Ignored(s, check)
    <3>1. st[s] = "Off"
      BY <1>1, <1>4, <2>3, IgnoredShape
    <3>2. Moves(s, "Off", check)
      BY <1>1, <2>3, <3>1, IgnoredShape
    <3> QED BY <2>1, <2>3, <3>2 DEF Moves, Ignored, ProcessEvent
  <2> QED BY <1>5, <2>2, <2>3
<1>7. queue'[s] # <<"OffModeRequest">>
  BY <1>6, ExpiredOnly
<1>8. \A r \in Stages \ {s} : st'[r] = st[r] /\ queue'[r] = queue[r]
  BY <1>6 DEF SameAs
<1>9. CallsInv'
  <2>1. CallsInv
    BY DEF ModeInv
  <2>2. ASSUME NEW r \in Stages
        PROVE  /\ queue'[r] # <<>> => r \in StagesOf(UnitAt)
               /\ queue'[r] # <<>> =>
                    \/ queue'[r] = <<"OffModeRequest">>
                    \/ st'[r] = "Off" /\ \E e \in Expired : queue'[r] = <<e>>
    BY <1>3, <1>6, <1>8, <2>1 DEF CallsInv
  <2>3. ASSUME NEW r \in StagesOf(UnitAt)
        PROVE  \/ st'[r] = "Off" \/ queue'[r] = <<"OffModeRequest">>
               \/ \E i \in 1..Len(calls) : calls[i].stage = r
    BY <1>6, <1>8, <2>1, Separate DEF CallsInv
  <2> QED BY <1>2, <1>6, <2>1, <2>2, <2>3 DEF CallsInv
<1>10. OthersInv' /\ ResetInv'
  BY <1>2, <1>6, <1>8 DEF ModeInv, OthersInv, ResetInv
<1>11. WorkInv'
  <2> SUFFICES ASSUME Fresh, ~Resetting
               PROVE  /\ \A r \in StagesOf(Unit) : Match(r)'
                      /\ Unit = "heat" => \A r \in Heats : r + 1 \in Heats => Chain(r)'
                      /\ systemOn' <=> Unit \in Units /\ st'[FirstOf(Unit)] # "Off"
    BY <1>2 DEF WorkInv
  <2>1. \A r \in StagesOf(Unit) : r \in Stages \ {s}
    BY <1>3, Separate
  <2>2. /\ \A r \in StagesOf(Unit) : Match(r)
        /\ Unit = "heat" => \A r \in Heats : r + 1 \in Heats => Chain(r)
        /\ systemOn <=> Unit \in Units /\ st[FirstOf(Unit)] # "Off"
    BY DEF ModeInv, WorkInv
  <2>3. Unit \in Units => FirstOf(Unit) \in StagesOf(Unit)
    BY Separate DEF Units, FirstOf
  <2> QED BY <1>6, <1>8, <2>1, <2>2, <2>3, Separate DEF Match, Chain
<1> QED BY <1>2, <1>6, <1>9, <1>10, <1>11 DEF ModeInv, FanOk

\* A step of the stages T of the unit in use, which leaves their outputs, the
\* chain and the flag of the system in step.
LEMMA WorkStep ==
  ASSUME ShapeInv, ModeInv, NEW s \in Stages, Runs(s), ~SwitchingOff,
         UNCHANGED <<pointVars, memberVars, pc, calls>>,
         NEW T \in SUBSET Stages, T \subseteq StagesOf(Unit),
         \A r \in Stages \ T : SameAs(r) /\ out'[r] = out[r],
         \A r \in T : queue'[r] # <<"OffModeRequest">> /\ Match(r)',
         Unit = "heat" => \A r \in Heats : r + 1 \in Heats => Chain(r)',
         systemOn' <=> st'[FirstOf(Unit)] # "Off",
         FanOk'
  PROVE  ModeInv'
<1>1. queue[s] # <<>> /\ stack # <<>>
  BY DEF Runs
<1>2. /\ PlaceInv' /\ Unit' = Unit /\ UnitAt' = UnitAt
      /\ Resetting' <=> Resetting
      /\ SwitchingOff' <=> SwitchingOff
      /\ Fresh' <=> Fresh
      /\ \A r \in Stages : ToCome(r)' <=> ToCome(r)
  BY <1>1, PlaceKept
<1>3. UnitAt \in Units /\ Fresh /\ ~Resetting /\ Unit = UnitAt
  BY <1>1, WhereRuns
<1>4. \A r \in Stages \ T : st'[r] = st[r] /\ queue'[r] = queue[r] /\ out'[r] = out[r]
  BY DEF SameAs
<1>5. CallsInv'
  <2>1. CallsInv
    BY DEF ModeInv
  <2>2. ASSUME NEW r \in Stages
        PROVE  /\ queue'[r] # <<>> => r \in StagesOf(UnitAt)
               /\ queue'[r] # <<"OffModeRequest">>
    BY <1>3, <1>4, <2>1 DEF CallsInv
  <2> QED BY <1>2, <2>1, <2>2 DEF CallsInv
<1>6. OthersInv'
  BY <1>2, <1>4 DEF ModeInv, OthersInv
<1>7. ResetInv'
  BY <1>2, <1>3 DEF ResetInv
<1>8. WorkInv'
  <2>1. ASSUME NEW r \in StagesOf(Unit) PROVE Match(r)'
    <3>1. r \in Stages /\ Match(r)
      BY <1>3, Separate DEF ModeInv, WorkInv
    <3> QED BY <1>4, <3>1 DEF Match
  <2> QED BY <1>2, <1>3, <2>1 DEF WorkInv
<1> QED BY <1>2, <1>5, <1>6, <1>7, <1>8 DEF ModeInv

\* What is known of the unit in use while one of its stages runs
InUse(s) ==
    /\ Fresh /\ ~Resetting /\ Unit = UnitAt /\ Unit \in Units
    /\ s \in StagesOf(Unit) /\ (First(s) <=> s = FirstOf(Unit))
    /\ \A r \in StagesOf(Unit) : Match(r)
    /\ Unit = "heat" => \A r \in Heats : r + 1 \in Heats => Chain(r)
    /\ systemOn <=> st[FirstOf(Unit)] # "Off"
    /\ FanOk /\ (s # 0 => ~out[0])

\* A stage that runs and is not switched off belongs to the unit in use.
LEMMA InUseIs ==
  ASSUME ShapeInv, ModeInv, NEW s \in Stages, Runs(s), ~SwitchingOff
  PROVE  InUse(s)
<1>1. queue[s] # <<>> /\ stack # <<>>
  BY DEF Runs
<1>2. UnitAt \in Units /\ Fresh /\ ~Resetting /\ Unit = UnitAt /\ s \in StagesOf(Unit)
  BY <1>1, WhereRuns
<1>3. First(s) <=> s = FirstOf(Unit)
  BY <1>2, Separate, Constants DEF Units, FirstOf, First
<1>4. s # 0 => ~out[0]
  <2>1. s # 0 => 0 \in Stages \ StagesOf(Unit)
    BY <1>2, Separate DEF Units
  <2> QED BY <1>2, <2>1 DEF ModeInv, OthersInv
<1> QED BY <1>2, <1>3, <1>4 DEF InUse, ModeInv, WorkInv

\* The fan goes with the compressor.
LEMMA FanStep ==
  ASSUME StageTypes, NEW s \in Stages, InUse(s), NEW on \in BOOLEAN, StageOutput(s, on)
  PROVE  FanOk'
<1>1. out'[s] = on /\ \A r \in Stages \ {s} : out'[r] = out[r]
  BY OutputTypes
<1>2. 0 \in Stages
  BY Separate
<1>3. CASE s = 0
  <2>1. fan' = (on /\ s = 0)
    BY <1>3 DEF StageOutput, First
  <2> QED BY <1>1, <1>3, <2>1 DEF FanOk
<1>4. CASE s # 0
  <2>1. out'[0] = out[0] /\ out[0] = FALSE /\ fan = FALSE
    BY <1>1, <1>2, <1>4 DEF InUse, StageTypes, FanOk
  <2>2. fan' = FALSE
    BY <1>4, <2>1 DEF StageOutput
  <2> QED BY <2>1, <2>2 DEF FanOk
<1> QED BY <1>3, <1>4

\* A step of a stage of the unit in use that calls no other stage
LEMMA LocalWork ==
  ASSUME ShapeInv, ModeInv, NEW s \in Stages, Runs(s), ~SwitchingOff,
         UNCHANGED <<pointVars, memberVars, pc, calls>>,
         \A r \in Stages \ {s} : SameAs(r) /\ out'[r] = out[r],
         queue'[s] # <<"OffModeRequest">>, queue'[s] # <<"OnRequest">>,
         queue'[s] # <<"LessCapacity">>,
         Match(s)', FanOk',
         s >= 2 => ((st'[s] = "Off") <=> (st[s] = "Off" /\ queue[s] # <<"OnRequest">>)),
         s \in Heats /\ s + 1 \in Heats =>
           \/ /\ queue[s] # <<"LessCapacity">>
              /\ (st'[s] = "Supplementing") <=> (st[s] = "Supplementing")
           \/ /\ queue[s] = <<"LessCapacity">>
              /\ st[s] = "Supplementing" /\ st'[s] # "Supplementing",
         IF First(s) THEN systemOn' <=> st'[s] # "Off" ELSE systemOn' = systemOn
  PROVE  ModeInv'
<1>1. InUse(s)
  BY InUseIs
<1>2. Unit = "heat" => \A r \in Heats : r + 1 \in Heats => Chain(r)'
  BY <1>1, ChainStep DEF InUse
<1>3. systemOn' <=> st'[FirstOf(Unit)] # "Off"
  <2>1. FirstOf(Unit) \in Stages
    BY Separate DEF FirstOf
  <2> QED BY <1>1, <2>1 DEF InUse, SameAs
<1>4. {s} \in SUBSET Stages /\ {s} \subseteq StagesOf(Unit)
  BY <1>1 DEF InUse
<1> QED BY <1>2, <1>3, <1>4, WorkStep

\* The steps that begin a cycle
LEMMA CycleWork ==
  ASSUME ShapeInv, ModeInv, NEW s \in Stages, Runs(s), ~SwitchingOff,
         UNCHANGED <<pointVars, memberVars, pc, calls>>,
         \/ SwitchOn(s) \/ FromCompleted(s) \/ LessCapacity(s) \/ StartingExpired(s)
         \/ \E check \in Check(s) : TimeExpired(s, check)
  PROVE  ModeInv'
<1>1. InUse(s) /\ StageTypes
  BY InUseIs DEF ShapeInv
<1>2. ASSUME NEW on \in BOOLEAN, StageOutput(s, on),
             st'[s] \in IF on THEN {"StartingOn", "OnTime"} ELSE {"StartingOff", "OffTime"}
      PROVE  /\ Match(s)' /\ FanOk' /\ st'[s] # "Off" /\ st'[s] # "Supplementing"
             /\ \A r \in Stages \ {s} : out'[r] = out[r]
  <2>1. FanOk'
    BY <1>1, <1>2, FanStep
  <2>2. out'[s] = on /\ \A r \in Stages \ {s} : out'[r] = out[r]
    BY <1>1, <1>2, OutputTypes
  <2>3. st'[s] # "Off" /\ st'[s] # "Supplementing"
    BY <1>2
  <2>4. Match(s)'
    BY <1>2, <2>2 DEF Match
  <2> QED BY <2>1, <2>2, <2>3, <2>4
<1>3. \A q : \/ q = <<>> \/ q = <<"StartingOnExpired">> \/ q = <<"StartingOffExpired">>
             \/ \E e : q = <<e, "StartingOnExpired">> \/ q = <<e, "StartingOffExpired">>
             => /\ q # <<"OnRequest">> /\ q # <<"LessCapacity">> /\ q # <<"OffModeRequest">>
  OBVIOUS
<1>4. CASE SwitchOn(s)
  <2>1. /\ queue[s] = <<"OnRequest">> /\ st[s] = "Off" /\ First(s)
        /\ Moves(s, "StartingOn", OnQueue)
    BY <1>4, SwitchOnShape
  <2>2. StageOutput(s, TRUE) /\ systemOn' = TRUE
    BY <1>4, <2>1 DEF SwitchOn, EnterCycle
  <2>3. ~(s >= 2)
    BY <2>1, Constants DEF First
  <2>4. /\ queue'[s] # <<"OnRequest">> /\ queue'[s] # <<"LessCapacity">>
        /\ queue'[s] # <<"OffModeRequest">>
    BY <1>3, <2>1, OnQueueIs DEF Moves
  <2>5. /\ Match(s)' /\ FanOk' /\ st'[s] # "Off" /\ st'[s] # "Supplementing"
        /\ \A r \in Stages \ {s} : out'[r] = out[r]
    BY <1>2, <2>1, <2>2 DEF Moves
  <2>6. queue[s] # <<"LessCapacity">> /\ st[s] # "Supplementing"
    BY <2>1
  <2>7. systemOn'
    BY <2>2
  <2>8. \A r \in Stages \ {s} : SameAs(r) /\ out'[r] = out[r]
    BY <2>1, <2>5 DEF Moves
  <2> QED BY <2>1, <2>3, <2>4, <2>5, <2>6, <2>7, <2>8, LocalWork
<1>5. CASE FromCompleted(s) \/ LessCapacity(s)
  <2>1. /\ \/ queue[s] = <<"FromCompleted">> /\ st[s] = "FromLower"
           \/ queue[s] = <<"LessCapacity">> /\ st[s] = "Supplementing"
        /\ Moves(s, "StartingOn", OnQueue)
    BY <1>5, RestartShape
  <2>2. StageOutput(s, TRUE) /\ systemOn' = systemOn
    BY <1>5, <2>1 DEF FromCompleted, LessCapacity, EnterCycle
  <2>3. First(s) => systemOn
    BY <1>1, <2>1 DEF InUse
  <2>4. /\ queue'[s] # <<"OnRequest">> /\ queue'[s] # <<"LessCapacity">>
        /\ queue'[s] # <<"OffModeRequest">>
    BY <1>3, <2>1, OnQueueIs DEF Moves
  <2>5. /\ Match(s)' /\ FanOk' /\ st'[s] # "Off" /\ st'[s] # "Supplementing"
        /\ \A r \in Stages \ {s} : out'[r] = out[r]
    BY <1>2, <2>1, <2>2 DEF Moves
  <2>6. \A r \in Stages \ {s} : SameAs(r) /\ out'[r] = out[r]
    BY <2>1, <2>5 DEF Moves
  <2>7. s >= 2 => ((st'[s] = "Off") <=> (st[s] = "Off" /\ queue[s] # <<"OnRequest">>))
    BY <2>1, <2>5
  <2>8. \/ /\ queue[s] # <<"LessCapacity">>
           /\ (st'[s] = "Supplementing") <=> (st[s] = "Supplementing")
        \/ queue[s] = <<"LessCapacity">> /\ st[s] = "Supplementing" /\ st'[s] # "Supplementing"
    BY <2>1, <2>5
  <2>9. IF First(s) THEN systemOn' <=> st'[s] # "Off" ELSE systemOn' = systemOn
    BY <2>2, <2>3, <2>5
  <2> QED BY <2>4, <2>5, <2>6, <2>7, <2>8, <2>9, LocalWork
<1>6. ASSUME NEW on \in BOOLEAN, StageOutput(s, on), systemOn' = systemOn,
             st[s] \in {"StartingOn", "OnTime", "StartingOff", "OffTime"},
             queue[s] # <<"LessCapacity">>,
             NEW state, NEW q, Moves(s, state, q),
             state \in IF on THEN {"StartingOn", "OnTime"} ELSE {"StartingOff", "OffTime"},
             \/ q = <<>> \/ q = <<"StartingOnExpired">> \/ q = <<"StartingOffExpired">>
             \/ \E e : q = <<e, "StartingOnExpired">> \/ q = <<e, "StartingOffExpired">>
      PROVE  ModeInv'
  <2>1. /\ queue'[s] # <<"OnRequest">> /\ queue'[s] # <<"LessCapacity">>
        /\ queue'[s] # <<"OffModeRequest">>
    BY <1>3, <1>6 DEF Moves
  <2>2. /\ Match(s)' /\ FanOk' /\ st'[s] # "Off" /\ st'[s] # "Supplementing"
        /\ \A r \in Stages \ {s} : out'[r] = out[r]
    BY <1>2, <1>6 DEF Moves
  <2>3. First(s) => systemOn
    BY <1>1, <1>6 DEF InUse
  <2> QED BY <1>6, <2>1, <2>2, <2>3, LocalWork DEF Moves
<1>7. CASE StartingExpired(s)
  <2>1. /\ queue[s] # <<"LessCapacity">> /\ systemOn' = systemOn
        /\ StageOutput(s, IsOnCycle(s)) /\ IsOnCycle(s) \in BOOLEAN
    BY <1>7, OneEvent DEF StartingExpired, Takes, Event, IsOnCycle
  <2>2. CASE st[s] = "StartingOn" /\ Moves(s, "OnTime", <<>>)
    <3>1. IsOnCycle(s)
      BY <2>2 DEF IsOnCycle
    <3> QED BY <1>6, <2>1, <2>2, <3>1
  <2>3. CASE st[s] = "StartingOff" /\ Moves(s, "OffTime", <<>>)
    <3>1. ~IsOnCycle(s)
      BY <2>3 DEF IsOnCycle
    <3> QED BY <1>6, <2>1, <2>3, <3>1
  <2> QED BY <1>7, <2>2, <2>3, StartingExpiredShape
<1>8. ASSUME NEW check \in Check(s), TimeExpired(s, check) PROVE ModeInv'
  <2>1. /\ queue[s] # <<"LessCapacity">> /\ systemOn' = systemOn
    BY <1>8, OneEvent DEF TimeExpired, Takes, Event
  <2>2. CASE /\ IsOnCycle(s) /\ EnterCycle(s, FALSE, check)
             /\ \E q : /\ Moves(s, "StartingOff", q)
                       /\ q = <<"StartingOffExpired">>
                          \/ \E e \in {"OnTimeExpired", "StartingOnExpired"} :
                               q = <<e, "StartingOffExpired">>
    <3>1. StageOutput(s, FALSE) /\ st[s] \in {"StartingOn", "OnTime", "StartingOff", "OffTime"}
      BY <2>2 DEF EnterCycle, IsOnCycle
    <3> QED BY <1>6, <2>1, <2>2, <3>1
  <2>3. CASE /\ IsOffCycle(s) /\ EnterCycle(s, TRUE, check)
             /\ \E q : /\ Moves(s, "StartingOn", q)
                       /\ q = <<"StartingOnExpired">>
                          \/ \E e \in {"OffTimeExpired", "StartingOffExpired"} :
                               q = <<e, "StartingOnExpired">>
    <3>1. StageOutput(s, TRUE) /\ st[s] \in {"StartingOn", "OnTime", "StartingOff", "OffTime"}
      BY <2>3 DEF EnterCycle, IsOffCycle
    <3> QED BY <1>6, <2>1, <2>3, <3>1
  <2> QED BY <1>8, <2>2, <2>3, TimeExpiredShape
<1> QED BY <1>4, <1>5, <1>7, <1>8

\* The other steps that call no stage
LEMMA OtherWork ==
  ASSUME ShapeInv, ModeInv, NEW s \in Stages, Runs(s), ~SwitchingOff,
         UNCHANGED <<pointVars, memberVars, pc, calls>>,
         \/ FromLower(s)
         \/ \E check \in Check(s) : ExcessCapacity(s, check) \/ Ignored(s, check)
  PROVE  ModeInv'
<1>1. InUse(s) /\ StageTypes /\ LinkOf(s) /\ Match(s)
  BY InUseIs DEF ShapeInv, StagesInv, InUse
<1>2. CASE FromLower(s)
  <2>1. /\ queue[s] = <<"OnRequest">> /\ st[s] = "Off" /\ supplemented[s]
        /\ Moves(s, "FromLower", <<"FromCompleted">>)
    BY <1>2, FromLowerShape
  <2>2. UNCHANGED <<out, fan, fanCut, systemOn>>
    BY <1>2 DEF FromLower, argVars
  <2>3. ~First(s)
    BY <1>1, <2>1, Constants DEF LinkOf, First
  <2>4. Match(s)'
    BY <1>1, <2>1, <2>2 DEF Match, Moves
  <2>5. FanOk'
    BY <1>1, <2>2 DEF InUse, FanOk
  <2>6. \A r \in Stages \ {s} : SameAs(r) /\ out'[r] = out[r]
    BY <2>1, <2>2 DEF Moves
  <2>7. /\ queue'[s] # <<"OffModeRequest">> /\ queue'[s] # <<"OnRequest">>
        /\ queue'[s] # <<"LessCapacity">>
        /\ st'[s] # "Off" /\ st'[s] # "Supplementing" /\ st[s] # "Supplementing"
        /\ queue[s] # <<"LessCapacity">>
    BY <2>1 DEF Moves
  <2> QED BY <2>1, <2>2, <2>3, <2>4, <2>5, <2>6, <2>7, LocalWork
<1>3. ASSUME NEW check \in Check(s), ExcessCapacity(s, check) PROVE ModeInv'
  <2>1. queue[s] = <<"ExcessCapacity">> /\ st[s] \in {"OnTime", "OffTime"}
    BY <1>3, ExcessShape
  <2>2. CASE /\ supplemented[s] /\ s >= 2
             /\ \E q : /\ Moves(s, "BackToLower", q)
                       /\ q = <<"BackCompleted">>
                          \/ \E e \in Expired : q = <<e, "BackCompleted">>
             /\ UNCHANGED <<out, fan, fanCut, systemOn, cycle>>
    <3>1. PICK q : /\ Moves(s, "BackToLower", q)
                   /\ q = <<"BackCompleted">> \/ \E e \in Expired : q = <<e, "BackCompleted">>
      BY <2>2
    <3>2. ~First(s)
      BY <2>2, Constants DEF First
    <3>3. Match(s)' /\ FanOk'
      BY <1>1, <2>2, <3>1 DEF Match, Moves, InUse, FanOk
    <3>4. \A r \in Stages \ {s} : SameAs(r) /\ out'[r] = out[r]
      BY <2>2, <3>1 DEF Moves
    <3>5. /\ queue'[s] # <<"OffModeRequest">> /\ queue'[s] # <<"OnRequest">>
          /\ queue'[s] # <<"LessCapacity">>
          /\ st'[s] # "Off" /\ st'[s] # "Supplementing" /\ st[s] # "Supplementing"
          /\ queue[s] # <<"LessCapacity">> /\ queue[s] # <<"OnRequest">> /\ st[s] # "Off"
      BY <2>1, <3>1 DEF Moves
    <3> QED BY <2>2, <3>2, <3>3, <3>4, <3>5, LocalWork
  <2>3. CASE /\ ~supplemented[s] /\ First(s) /\ Moves(s, "Off", check)
             /\ StageOutput(s, FALSE) /\ systemOn' = FALSE
    <3>1. ~(s >= 2)
      BY <2>3, Constants DEF First
    <3>2. FanOk'
      BY <1>1, <2>3, FanStep
    <3>3. out'[s] = FALSE /\ \A r \in Stages \ {s} : out'[r] = out[r]
      BY <1>1, <2>3, OutputTypes
    <3>4. Match(s)'
      <4>1. (st'[s] \in {"StartingOn", "OnTime", "Supplementing"}) = FALSE
        BY <2>3 DEF Moves
      <4> QED BY <3>3, <4>1 DEF Match
    <3>5. \A r \in Stages \ {s} : SameAs(r) /\ out'[r] = out[r]
      BY <2>3, <3>3 DEF Moves
    <3>6. /\ queue'[s] # <<"OffModeRequest">> /\ queue'[s] # <<"OnRequest">>
          /\ queue'[s] # <<"LessCapacity">>
      BY <1>1, <2>3, CheckLeaves DEF Moves, StageTypes
    <3>7. /\ st'[s] = "Off" /\ st[s] # "Supplementing" /\ queue[s] # <<"LessCapacity">>
      BY <2>1, <2>3 DEF Moves
    <3>8. ~systemOn'
      BY <2>3
    <3> QED BY <2>3, <3>1, <3>2, <3>4, <3>5, <3>6, <3>7, <3>8, LocalWork
  <2> QED BY <1>3, <2>2, <2>3, ExcessShape
<1>4. ASSUME NEW check \in Check(s), Ignored(s, check) PROVE ModeInv'
  <2>1. \E q : /\ Moves(s, st[s], q)
               /\ q = check \/ q \in {<<"StartingOnExpired">>, <<"StartingOffExpired">>,
                                      <<"BackCompleted">>}
    BY <1>4, IgnoredShape
  <2>2. st'[s] = st[s] /\ \A r \in Stages \ {s} : SameAs(r)
    BY <2>1 DEF Moves
  <2>3. /\ queue'[s] # <<"OffModeRequest">> /\ queue'[s] # <<"OnRequest">>
        /\ queue'[s] # <<"LessCapacity">>
    <3>1. /\ check # <<"OffModeRequest">> /\ check # <<"OnRequest">>
          /\ check # <<"LessCapacity">>
      BY <1>1, CheckLeaves DEF StageTypes
    <3> QED BY <2>1, <3>1 DEF Moves
  <2>4. UNCHANGED <<out, fan, fanCut, systemOn>>
    BY <1>4 DEF Ignored
  <2>5. Match(s)' /\ FanOk'
    BY <1>1, <2>2, <2>4 DEF Match, InUse, FanOk
  <2>6. \A r \in Stages \ {s} : SameAs(r) /\ out'[r] = out[r]
    BY <2>2, <2>4
  <2>7. queue[s] = <<"OnRequest">> => st[s] # "Off"
    BY <1>4, IgnoredShape
  <2>8. s \in Heats /\ s + 1 \in Heats => queue[s] # <<"LessCapacity">>
    <3>1. queue[s] = <<"LessCapacity">> => st[s] # "Supplementing"
      BY <1>4, IgnoredShape
    <3>2. s \in Heats => Unit = "heat"
      BY <1>1, Separate DEF InUse
    <3> QED BY <1>1, <3>1, <3>2 DEF InUse, Chain
  <2>9. First(s) => (systemOn' <=> st'[s] # "Off")
    BY <1>1, <2>2, <2>4 DEF InUse
  <2> QED BY <2>2, <2>3, <2>4, <2>5, <2>6, <2>7, <2>8, <2>9, LocalWork
<1> QED BY <1>2, <1>3, <1>4

\* A stage calls the next one to support it: the chain grows.
LEMMA NeedMoreWork ==
  ASSUME ShapeInv, ModeInv, NEW s \in Stages, Runs(s), ~SwitchingOff,
         UNCHANGED <<pointVars, memberVars, pc, calls>>,
         NEW check \in Check(s), NeedMoreCapacity(s, check)
  PROVE  ModeInv'
<1>1. InUse(s) /\ StageTypes
  BY InUseIs DEF ShapeInv
<1>2. /\ queue[s] = <<"NeedMoreCapacity">> /\ st[s] \in {"OnTime", "OffTime"}
      /\ s \in Heats /\ s + 1 \in Heats
      /\ st'[s] = "Supplementing" /\ queue'[s] = check
      /\ st'[s + 1] = st[s + 1] /\ queue'[s + 1] = <<"OnRequest">>
      /\ \A r \in Stages \ {s, s + 1} : SameAs(r)
  BY NeedMoreShape
<1>3. Unit = "heat" /\ FirstOf(Unit) = 1
  BY <1>1, <1>2, Separate DEF InUse, FirstOf
<1>4. \A r \in Heats : r + 1 \in Heats => Chain(r)
  BY <1>1, <1>3 DEF InUse
<1>5. st[s + 1] = "Off"
  BY <1>2, <1>4 DEF Chain
<1>6. /\ queue'[s] # <<"OffModeRequest">> /\ queue'[s] # <<"OnRequest">>
      /\ queue'[s] # <<"LessCapacity">>
  BY <1>1, <1>2, CheckLeaves DEF StageTypes
<1>7. StageOutput(s, TRUE) /\ systemOn' = systemOn
  BY DEF NeedMoreCapacity
<1>8. out'[s] = TRUE /\ FanOk' /\ \A r \in Stages \ {s} : out'[r] = out[r]
  BY <1>1, <1>7, OutputTypes, FanStep
<1>9. s \in Stages /\ s + 1 \in Stages /\ s + 1 # s /\ {s, s + 1} \subseteq Heats /\ s + 1 # 1
  BY <1>2, Constants
<1>10. \A r \in Stages \ {s, s + 1} : st'[r] = st[r] /\ queue'[r] = queue[r]
  BY <1>2 DEF SameAs
<1>11. ASSUME NEW r \in Heats, r + 1 \in Heats PROVE Chain(r)'
  <2>1. Chain(r) /\ r \in Stages /\ r + 1 \in Stages /\ r + 1 # r
    BY <1>4, <1>11, Constants
  <2>2. CASE r = s
    BY <1>2, <1>5, <2>2 DEF Chain
  <2>3. CASE r = s + 1
    <3>1. r + 1 \in Stages \ {s, s + 1}
      BY <1>9, <2>1, <2>3, Constants
    <3> QED BY <1>2, <1>5, <1>10, <2>1, <2>3, <3>1 DEF Chain
  <2>4. CASE r + 1 = s
    <3>1. r \in Stages \ {s, s + 1}
      BY <1>9, <2>1, <2>4, Constants
    <3>2. queue[s] # <<"OnRequest">> /\ st[s] # "Off"
      BY <1>2
    <3> QED BY <1>2, <1>6, <1>10, <2>1, <2>4, <3>1, <3>2 DEF Chain
  <2>5. CASE r # s /\ r # s + 1 /\ r + 1 # s
    <3>1. r + 1 # s + 1
      BY <2>5, Constants
    <3>2. r \in Stages \ {s, s + 1} /\ r + 1 \in Stages \ {s, s + 1}
      BY <2>1, <2>5, <3>1
    <3> QED BY <1>10, <2>1, <3>2 DEF Chain
  <2> QED BY <2>2, <2>3, <2>4, <2>5
<1>12. Match(s)' /\ Match(s + 1)'
  <2>1. Match(s + 1)
    BY <1>1, <1>2, <1>3, Separate DEF InUse
  <2>2. Match(s + 1)'
    BY <1>2, <1>8, <1>9, <2>1 DEF Match
  <2>3. Match(s)'
    BY <1>2, <1>8 DEF Match
  <2> QED BY <2>2, <2>3
<1>13. systemOn' <=> st'[FirstOf(Unit)] # "Off"
  <2>1. CASE s = 1
    BY <1>1, <1>2, <1>3, <1>7, <2>1 DEF InUse
  <2>2. CASE s # 1
    <3>1. 1 \in Stages \ {s, s + 1}
      BY <1>9, <2>2, Separate
    <3> QED BY <1>1, <1>3, <1>7, <1>10, <3>1 DEF InUse
  <2> QED BY <2>1, <2>2
<1>14. {s, s + 1} \in SUBSET Stages /\ {s, s + 1} \subseteq StagesOf(Unit)
  BY <1>3, <1>9, Separate
<1>15. \A r \in Stages \ {s, s + 1} : SameAs(r) /\ out'[r] = out[r]
  BY <1>2, <1>8
<1>16. \A r \in {s, s + 1} : queue'[r] # <<"OffModeRequest">> /\ Match(r)'
  BY <1>2, <1>6, <1>12
<1> QED BY <1>8, <1>11, <1>13, <1>14, <1>15, <1>16, WorkStep

\* A stage returns to the one below it: the chain shrinks.
LEMMA BackCompletedWork ==
  ASSUME ShapeInv, ModeInv, NEW s \in Stages, Runs(s), ~SwitchingOff,
         UNCHANGED <<pointVars, memberVars, pc, calls>>, BackCompleted(s)
  PROVE  ModeInv'
<1>1. InUse(s) /\ StageTypes
  BY InUseIs DEF ShapeInv
<1>2. /\ queue[s] = <<"BackCompleted">> /\ st[s] = "BackToLower"
      /\ s \in Heats /\ s - 1 \in Heats
      /\ st'[s] = "Off" /\ queue'[s] = <<>>
      /\ st'[s - 1] = st[s - 1] /\ queue[s - 1] = <<>>
      /\ queue'[s - 1] = <<"LessCapacity">>
      /\ \A r \in Stages \ {s, s - 1} : SameAs(r)
  BY BackCompletedShape
<1>3. Unit = "heat" /\ FirstOf(Unit) = 1
  BY <1>1, <1>2, Separate DEF InUse, FirstOf
<1>4. \A r \in Heats : r + 1 \in Heats => Chain(r)
  BY <1>1, <1>3 DEF InUse
<1>5. s \in Stages /\ s - 1 \in Stages /\ s - 1 # s /\ (s - 1) + 1 = s /\ s # 1
  BY <1>2, Constants
<1>6. st[s - 1] = "Supplementing"
  BY <1>2, <1>4, <1>5 DEF Chain
<1>7. StageOutput(s, FALSE) /\ systemOn' = systemOn
  BY DEF BackCompleted
<1>8. out'[s] = FALSE /\ FanOk' /\ \A r \in Stages \ {s} : out'[r] = out[r]
  BY <1>1, <1>7, OutputTypes, FanStep
<1>9. \A r \in Stages \ {s, s - 1} : st'[r] = st[r] /\ queue'[r] = queue[r]
  BY <1>2 DEF SameAs
<1>10. ASSUME NEW r \in Heats, r + 1 \in Heats PROVE Chain(r)'
  <2>1. Chain(r) /\ r \in Stages /\ r + 1 \in Stages /\ r + 1 # r
    BY <1>4, <1>10, Constants
  <2>2. CASE r = s - 1
    BY <1>2, <1>5, <1>6, <2>2 DEF Chain
  <2>3. CASE r = s
    <3>1. r + 1 \in Stages \ {s, s - 1}
      BY <2>1, <2>3, Constants
    <3> QED BY <1>2, <1>9, <2>1, <2>3, <3>1 DEF Chain
  <2>4. CASE r + 1 = s - 1
    <3>1. r \in Stages \ {s, s - 1}
      BY <2>1, <2>4, Constants
    <3> QED BY <1>2, <1>6, <1>9, <2>1, <2>4, <3>1 DEF Chain
  <2>5. CASE r # s /\ r # s - 1 /\ r + 1 # s - 1
    <3>1. r + 1 # s
      BY <2>5, Constants
    <3>2. r \in Stages \ {s, s - 1} /\ r + 1 \in Stages \ {s, s - 1}
      BY <2>1, <2>5, <3>1
    <3> QED BY <1>9, <2>1, <3>2 DEF Chain
  <2> QED BY <2>2, <2>3, <2>4, <2>5
<1>11. Match(s)' /\ Match(s - 1)'
  <2>1. Match(s - 1)
    BY <1>1, <1>2, <1>3, Separate DEF InUse
  <2>2. Match(s - 1)'
    BY <1>2, <1>5, <1>8, <2>1 DEF Match
  <2>3. Match(s)'
    <3>1. (st'[s] \in {"StartingOn", "OnTime", "Supplementing"}) = FALSE
      BY <1>2
    <3> QED BY <1>8, <3>1 DEF Match
  <2> QED BY <2>2, <2>3
<1>12. systemOn' <=> st'[FirstOf(Unit)] # "Off"
  <2>1. 1 \in Stages /\ st'[1] = st[1]
    BY <1>2, <1>5, <1>9, Separate
  <2> QED BY <1>1, <1>3, <1>7, <2>1 DEF InUse
<1>13. {s, s - 1} \in SUBSET Stages /\ {s, s - 1} \subseteq StagesOf(Unit)
  BY <1>2, <1>3, <1>5, Separate
<1>14. \A r \in Stages \ {s, s - 1} : SameAs(r) /\ out'[r] = out[r]
  BY <1>2, <1>8
<1>15. \A r \in {s, s - 1} : queue'[r] # <<"OffModeRequest">> /\ Match(r)'
  BY <1>2, <1>11
<1> QED BY <1>8, <1>10, <1>12, <1>13, <1>14, <1>15, WorkStep

\* ModeInv is kept by the stages.
LEMMA ProcessMode ==
  ASSUME ShapeInv, ModeInv, NEW s \in Stages, ProcessEvent(s)
  PROVE  ModeInv'
<1>1. Runs(s) /\ UNCHANGED <<pointVars, memberVars, pc, calls>>
  BY ProcessShape DEF ProcessEvent
<1>2. ASSUME ~SwitchingOff, NEW check \in Check(s) PROVE ~OffMode(s, check)
  <2>1. OffMode(s, check) => queue[s] = <<"OffModeRequest">>
    BY <1>1, OffModeShape
  <2> QED BY <1>2, <2>1 DEF ModeInv, CallsInv
<1>3. CASE ~SwitchingOff
  BY <1>1, <1>2, <1>3, CycleWork, OtherWork, NeedMoreWork, BackCompletedWork DEF ProcessEvent
<1> QED BY <1>3, SwitchingOffStep

-----------------------------------------------------------------------------
(* The mode, the outputs and the chain are kept by the components *)

\* At first nothing has been switched on.
LEMMA ModeInit == Init => ModeInv
<1> SUFFICES ASSUME Init PROVE ModeInv
  OBVIOUS
<1>1. /\ pc = "IdtSelection" /\ calls = <<>> /\ stack = <<>> /\ seen = {}
      /\ config.mode = "UNKNOWN" /\ refCnt = 0
      /\ \A s \in Stages : st[s] = "Off" /\ queue[s] = <<>> /\ out[s] = FALSE
  BY DEF Init
<1>2. ~whiteBoxValid /\ ~inAuto /\ ~systemOn /\ fan = FALSE
  BY Zenon DEF Init
<1>3. Unit = "none" /\ UnitAt = "none" /\ ~Resetting
  BY <1>1 DEF Unit, UnitAt, Resetting
<1>4. ~SwitchingOff /\ ~Fresh
  BY <1>1, <1>3 DEF SwitchingOff, Fresh
<1>5. CallsInv
  BY <1>1, <1>4 DEF CallsInv
<1>6. PlaceInv
  <2>1. Blank
    BY <1>1, <1>2 DEF Blank
  <2> QED BY <1>1, <1>2, <1>3, <2>1 DEF PlaceInv, Starts
<1>7. OthersInv /\ ResetInv /\ WorkInv
  BY <1>1, <1>3, <1>4 DEF OthersInv, ResetInv, WorkInv
<1>8. FanOk
  BY <1>1, <1>2, Separate DEF FanOk
<1> QED BY <1>5, <1>6, <1>7, <1>8 DEF ModeInv

\* A call of the equipment
LEMMA CallMode ==
  ASSUME ShapeInv, ModeInv, Call
  PROVE  ModeInv'
<1>1. PICK c \in CallSet :
        /\ c = calls[1] /\ Len(calls) \in Nat \ {0}
        /\ calls' = Tail(calls) /\ stack' = <<c.stage>>
        /\ Settled(c.stage) /\ queue'[c.stage] = <<c.ev>>
        /\ \A r \in Stages \ {c.stage} : SameAs(r)
        /\ st' = st
  BY CallShape
<1>2. calls # <<>> /\ UNCHANGED <<pointVars, memberVars, pc, out, fan, fanCut, systemOn>>
  BY DEF Call, argVars
<1>3. c.stage \in Stages /\ c.ev \in Requests
  BY DEF CallSet
<1>4. /\ PlaceInv' /\ Unit' = Unit /\ UnitAt' = UnitAt
      /\ Resetting' <=> Resetting
      /\ SwitchingOff' <=> SwitchingOff
      /\ Fresh' <=> Fresh
      /\ \A r \in Stages : ToCome(r)' <=> ToCome(r)
  BY <1>2, <1>3, PlaceKept
<1>5. 1 \in 1..Len(calls)
  BY <1>1
<1>6. c.stage \in StagesOf(UnitAt) /\ (c.ev = "OffModeRequest" <=> SwitchingOff)
  BY <1>1, <1>5 DEF ModeInv, CallsInv
<1>7. \A r \in Stages \ {c.stage} : queue'[r] = queue[r]
  BY <1>1 DEF SameAs
<1>8. queue[c.stage] = <<>>
  BY <1>1 DEF Settled
<1>9. CallsInv'
  <2>1. CallsInv /\ calls \in Seq(CallSet)
    BY DEF ModeInv, ShapeInv, PointTypes
  <2>2. /\ Len(calls') = Len(calls) - 1
        /\ \A i \in 1..Len(calls') : calls'[i] = calls[i + 1] /\ i + 1 \in 1..Len(calls)
    BY <1>1, <1>2, <2>1
  <2>3. ASSUME NEW i \in 1..Len(calls')
        PROVE  /\ calls'[i].stage \in StagesOf(UnitAt)
               /\ calls'[i].ev = "OffModeRequest" <=> SwitchingOff
    BY <2>1, <2>2 DEF CallsInv
  <2>4. ASSUME NEW r \in Stages
        PROVE  /\ queue'[r] # <<>> => r \in StagesOf(UnitAt)
               /\ queue'[r] = <<"OffModeRequest">> => SwitchingOff
               /\ SwitchingOff /\ queue'[r] # <<>> =>
                    \/ queue'[r] = <<"OffModeRequest">>
                    \/ st[r] = "Off" /\ \E e \in Expired : queue'[r] = <<e>>
    <3>1. CASE r = c.stage
      BY <1>1, <1>6, <3>1
    <3>2. CASE r # c.stage
      BY <1>7, <2>1, <3>2 DEF CallsInv
    <3> QED BY <3>1, <3>2
  <2>5. ASSUME SwitchingOff, NEW r \in StagesOf(UnitAt)
        PROVE  \/ st[r] = "Off" \/ queue'[r] = <<"OffModeRequest">>
               \/ \E i \in 1..Len(calls') : calls'[i].stage = r
    <3>1. CASE r = c.stage
      BY <1>1, <1>6, <2>5, <3>1
    <3>2. CASE r # c.stage
      <4>1. r \in Stages /\ queue'[r] = queue[r]
        BY <1>7, <3>2, Separate
      <4>2. ASSUME NEW i \in 1..Len(calls), calls[i].stage = r
            PROVE  \E j \in 1..Len(calls') : calls'[j].stage = r
        <5>1. i # 1
          BY <1>1, <3>2, <4>2
        <5>2. i - 1 \in 1..Len(calls') /\ (i - 1) + 1 = i
          BY <1>1, <2>2, <5>1
        <5> QED BY <2>2, <4>2, <5>2
      <4> QED BY <2>1, <2>5, <4>1, <4>2 DEF CallsInv
    <3> QED BY <3>1, <3>2
  <2> QED BY <1>1, <1>4, <2>3, <2>4, <2>5 DEF CallsInv
<1>10. OthersInv' /\ ResetInv'
  BY <1>1, <1>2, <1>4 DEF ModeInv, OthersInv, ResetInv
<1>11. WorkInv'
  <2>1. /\ \A r \in Stages : (queue'[r] = <<"LessCapacity">>) <=> (queue[r] = <<"LessCapacity">>)
        /\ \A r \in Heats : r + 1 \in Heats =>
             ((queue'[r + 1] = <<"OnRequest">>) <=> (queue[r + 1] = <<"OnRequest">>))
    <3>1. c.ev # "LessCapacity"
      BY <1>3 DEF Requests
    <3>2. \A r \in Heats : c.ev = "OnRequest" => r + 1 # c.stage
      BY Constants DEF CallSet, First
    <3>3. \A r \in Stages : (queue'[r] = <<"LessCapacity">>) <=> (queue[r] = <<"LessCapacity">>)
      BY <1>1, <1>7, <1>8, <3>1
    <3>4. ASSUME NEW r \in Heats, r + 1 \in Heats
          PROVE  (queue'[r + 1] = <<"OnRequest">>) <=> (queue[r + 1] = <<"OnRequest">>)
      <4>1. CASE r + 1 = c.stage
        <5>1. c.ev # "OnRequest"
          BY <3>2, <4>1
        <5> QED BY <1>1, <1>8, <4>1, <5>1
      <4>2. CASE r + 1 # c.stage
        <5>1. r + 1 \in Stages
          BY <3>4, Separate
        <5> QED BY <1>7, <4>2, <5>1
      <4> QED BY <4>1, <4>2
    <3> QED BY <3>3, <3>4
  <2>2. WorkInv
    BY DEF ModeInv
  <2>3. \A r \in Heats : r \in Stages
    BY Separate
  <2> QED BY <1>1, <1>2, <1>4, <2>1, <2>2, <2>3 DEF WorkInv, Match, Chain
<1> QED BY <1>2, <1>4, <1>9, <1>10, <1>11 DEF ModeInv, FanOk

\* A stage returns to its caller.
LEMMA ReturnMode ==
  ASSUME ModeInv, EventsProcessed
  PROVE  ModeInv'
<1>1. /\ UNCHANGED <<st, queue, out, fan, fanCut, systemOn, config, refCnt, whiteBoxValid, inAuto,
                     seen, pc, calls>>
      /\ stack # <<>>
  BY DEF EventsProcessed, stageVars, argVars, pointVars, memberVars
<1>2. /\ Unit' = Unit /\ UnitAt' = UnitAt
      /\ Resetting' <=> Resetting
      /\ SwitchingOff' <=> SwitchingOff
      /\ Fresh' <=> Fresh
      /\ \A r \in Stages : ToCome(r)' <=> ToCome(r)
  BY <1>1, SamePlace
<1>3. CallsInv'
  BY <1>1, <1>2 DEF ModeInv, CallsInv
<1>4. PlaceInv'
  BY <1>1, <1>2 DEF ModeInv, PlaceInv, Blank
<1>5. OthersInv' /\ ResetInv'
  BY <1>1, <1>2 DEF ModeInv, OthersInv, ResetInv
<1>6. WorkInv'
  BY <1>1, <1>2 DEF ModeInv, WorkInv, Match, Chain
<1> QED BY <1>1, <1>3, <1>4, <1>5, <1>6 DEF ModeInv, FanOk

\* No call is made and no stage runs.
LEMMA Quiet ==
  ASSUME ShapeInv, ModeInv, stack = <<>>, calls = <<>>
  PROVE  /\ \A s \in Stages : queue[s] = <<>>
         /\ SwitchingOff => \A s \in StagesOf(UnitAt) : st[s] = "Off"
         /\ \A s \in Stages \ StagesOf(Unit) : st[s] # "Off" => ToCome(s)
<1>1. \A s \in Stages : queue[s] = <<>>
  <2>1. \A s \in Stages : stack # <<s>>
    OBVIOUS
  <2>2. \A s, low \in Stages : stack # <<s, low>>
    OBVIOUS
  <2> QED BY <2>1, <2>2 DEF ShapeInv, StackInv, NoOtherThan, Settled, Alone, Above
<1>2. SwitchingOff => \A s \in StagesOf(UnitAt) : st[s] = "Off"
  <2> SUFFICES ASSUME SwitchingOff, NEW s \in StagesOf(UnitAt) PROVE st[s] = "Off"
    OBVIOUS
  <2>1. s \in Stages
    BY Separate
  <2>2. queue[s] # <<"OffModeRequest">>
    BY <1>1, <2>1
  <2>3. 1..Len(calls) = {}
    OBVIOUS
  <2>4. \/ st[s] = "Off" \/ queue[s] = <<"OffModeRequest">>
        \/ \E i \in 1..Len(calls) : calls[i].stage = s
    BY DEF ModeInv, CallsInv
  <2> QED BY <2>2, <2>3, <2>4, Zenon
<1> QED BY <1>1, <1>2 DEF ModeInv, OthersInv

\* No calls are left to be made.
LEMMA NoCalls ==
  ASSUME calls' = <<>>, \A s \in Stages : queue'[s] = <<>>,
         SwitchingOff' => \A s \in StagesOf(UnitAt') : st'[s] = "Off"
  PROVE  CallsInv'
<1>1. Len(calls') = 0
  OBVIOUS
<1> QED BY <1>1 DEF CallsInv

\* The components before the Controls
LEMMA FirstMode ==
  ASSUME ShapeInv, ModeInv,
         \/ \E bad \in BOOLEAN : IdtSelection(bad)
         \/ \E pv \in PvValues : Pi(pv)
  PROVE  ModeInv'
<1>1. /\ UNCHANGED <<st, queue, out, fan, fanCut, systemOn, config, whiteBoxValid, inAuto, seen>>
      /\ stack = <<>> /\ calls = <<>> /\ stack' = <<>> /\ calls' = <<>>
      /\ \/ pc = "IdtSelection" /\ pc' = "OperatingMode"
         \/ pc = "Pi" /\ pc' = "cool" /\ refCnt' = refCnt
  BY DEF IdtSelection, Pi, At, stageVars, argVars, memberVars
<1>2. /\ Unit' = Unit /\ UnitAt = "none" /\ UnitAt' = "none" /\ ~Resetting /\ ~Resetting'
      /\ Fresh' <=> Fresh
      /\ \A r \in Stages : ToCome(r)' <=> ToCome(r)
  BY <1>1 DEF Unit, UnitAt, Resetting, Fresh, ToCome
<1>3. ~SwitchingOff /\ ~SwitchingOff'
  BY <1>2 DEF SwitchingOff
<1>4. CallsInv'
  BY <1>1, <1>3, Quiet, NoCalls
<1>5. PlaceInv'
  BY <1>1, <1>2 DEF ModeInv, PlaceInv, Blank, Starts
<1>6. OthersInv' /\ ResetInv'
  BY <1>1, <1>2, <1>3 DEF ModeInv, OthersInv, ResetInv
<1>7. WorkInv'
  BY <1>1, <1>2 DEF ModeInv, WorkInv, Match, Chain
<1> QED BY <1>1, <1>4, <1>5, <1>6, <1>7 DEF ModeInv, FanOk

\* A changed configuration has not been seen by any Control.
LEMMA OperatingModeMode ==
  ASSUME ShapeInv, ModeInv, NEW userMode, NEW equip \in Equipments, NEW bad \in BOOLEAN,
         NEW warm \in BOOLEAN, OperatingMode(userMode, equip, bad, warm)
  PROVE  ModeInv'
<1>1. /\ UNCHANGED <<st, queue, out, fan, fanCut, systemOn, whiteBoxValid>>
      /\ stack = <<>> /\ calls = <<>> /\ stack' = <<>> /\ calls' = <<>>
      /\ pc = "OperatingMode" /\ pc' = "Pi"
  BY DEF OperatingMode, At, stageVars, argVars
<1>2. /\ \/ config' = config /\ seen' = seen
         \/ config' # config /\ seen' = {}
      /\ Unit' # "none"
      /\ refCnt' > 0 => Unit' = "off"
  <2>1. CASE KeepOperatingMode /\ inAuto /\ ~(refCnt' > 0)
    <3>1. config' = config /\ seen' = seen
      BY <2>1 DEF KeepOperatingMode
    <3>2. Unit' = Unit /\ Unit # "none"
      BY <2>1, <3>1 DEF Unit, ModeInv, PlaceInv
    <3> QED BY <2>1, <3>1, <3>2
  <2>2. ASSUME NEW mode \in {"OFF", "COOLING", "ID_HEATING"},
               mode = "COOLING" => equip.cool > 0, mode = "ID_HEATING" => equip.heat > 0,
               refCnt' > 0 => mode = "OFF", SetNewOperatingMode(mode, equip)
        PROVE  /\ \/ config' = config /\ seen' = seen
                  \/ config' # config /\ seen' = {}
               /\ Unit' # "none"
               /\ refCnt' > 0 => Unit' = "off"
    <3>1. /\ \/ config' = config /\ seen' = seen
             \/ config' # config /\ seen' = {}
          /\ config'.mode = mode
      BY <2>2, ModeConfig DEF ShapeInv
    <3> QED BY <2>2, <3>1 DEF Unit
  <2> QED BY <2>1, <2>2, ModeCases
<1>3. /\ UnitAt' = "none" /\ ~Resetting /\ ~Resetting' /\ ~SwitchingOff'
      /\ \A r \in Stages : ToCome(r)'
  BY <1>1 DEF UnitAt, Resetting, ToCome, SwitchingOff
<1>4. Fresh' => config' = config /\ Unit' = Unit /\ Fresh
  BY <1>2 DEF Fresh, Unit
<1>5. CallsInv'
  BY <1>1, <1>3, Quiet, NoCalls
<1>6. PlaceInv'
  BY <1>1, <1>2, <1>3 DEF ModeInv, PlaceInv, Blank, Starts
<1>7. OthersInv' /\ ResetInv'
  BY <1>1, <1>3, <1>4 DEF ModeInv, OthersInv, ResetInv
<1>8. WorkInv'
  <2> SUFFICES ASSUME Fresh' PROVE WorkInv'
    BY DEF WorkInv
  <2>1. WorkInv /\ Fresh /\ Unit' = Unit
    BY <1>4 DEF ModeInv
  <2> QED BY <1>1, <1>3, <2>1 DEF WorkInv, Match, Chain
<1> QED BY <1>1, <1>5, <1>6, <1>7, <1>8 DEF ModeInv, FanOk

\* FanControl leaves the outputs of the stages alone and never switches the fan on.
LEMMA FanMode ==
  ASSUME ShapeInv, ModeInv, NEW valid \in BOOLEAN, FanControl(valid)
  PROVE  ModeInv'
<1>1. /\ UNCHANGED <<st, queue, out, systemOn, config, refCnt, whiteBoxValid, inAuto, seen>>
      /\ stack = <<>> /\ calls = <<>> /\ stack' = <<>> /\ calls' = <<>>
      /\ pc = "FanControl" /\ pc' = "Relays"
  BY DEF FanControl, At, stageVars, pointVars, memberVars
<1>2. /\ Unit' = Unit /\ UnitAt = "none" /\ UnitAt' = "none" /\ ~Resetting /\ ~Resetting'
      /\ Fresh' <=> Fresh
      /\ \A r \in Stages : ToCome(r)' <=> ToCome(r)
  BY <1>1 DEF Unit, UnitAt, Resetting, Fresh, ToCome
<1>3. ~SwitchingOff /\ ~SwitchingOff'
  BY <1>2 DEF SwitchingOff
<1>4. CallsInv'
  BY <1>1, <1>3, Quiet, NoCalls
<1>5. PlaceInv'
  BY <1>1, <1>2 DEF ModeInv, PlaceInv, Blank, Starts
<1>6. OthersInv' /\ ResetInv'
  BY <1>1, <1>2, <1>3 DEF ModeInv, OthersInv, ResetInv
<1>7. WorkInv'
  BY <1>1, <1>2 DEF ModeInv, WorkInv, Match, Chain
<1>8. FanOk'
  <2>1. FanOk /\ out' = out
    BY <1>1 DEF ModeInv
  <2>2. (fan' => fan) /\ (fan => fan' \/ fanCut') /\ (fanCut => fanCut')
    BY DEF FanControl
  <2> QED BY <2>1, <2>2 DEF FanOk
<1> QED BY <1>4, <1>5, <1>6, <1>7, <1>8 DEF ModeInv

\* The relays
LEMMA RelaysMode ==
  ASSUME ShapeInv, ModeInv, Relays
  PROVE  ModeInv'
<1>1. /\ UNCHANGED <<st, queue, out, fan, fanCut, systemOn, config, refCnt, inAuto, seen>>
      /\ stack = <<>> /\ calls = <<>> /\ stack' = <<>> /\ calls' = <<>>
      /\ pc = "Relays" /\ pc' = "IdtSelection"
  BY DEF Relays, At
<1>2. whiteBoxValid'
  BY DEF Relays
<1>3. /\ Unit' = Unit /\ UnitAt = "none" /\ UnitAt' = "none" /\ ~Resetting /\ ~Resetting'
      /\ Fresh' <=> Fresh
      /\ \A r \in Stages : ~ToCome(r)
  BY <1>1 DEF Unit, UnitAt, Resetting, Fresh, ToCome
<1>4. ~SwitchingOff /\ ~SwitchingOff'
  BY <1>3 DEF SwitchingOff
<1>5. CallsInv'
  BY <1>1, <1>4, Quiet, NoCalls
<1>6. PlaceInv'
  BY <1>1, <1>2, <1>3 DEF ModeInv, PlaceInv, Blank, Starts
<1>7. OthersInv' /\ ResetInv'
  BY <1>1, <1>3, <1>4 DEF ModeInv, OthersInv, ResetInv
<1>8. WorkInv'
  BY <1>1, <1>3 DEF ModeInv, WorkInv, Match, Chain
<1> QED BY <1>1, <1>5, <1>6, <1>7, <1>8 DEF ModeInv, FanOk

\* The places around the Controls
LEMMA ControlPoints ==
  /\ After("cool") = "heat" /\ After("heat") = "off" /\ After("off") = "FanControl"
  /\ Ready("cool") = "cool ready" /\ Ready("heat") = "heat ready" /\ Ready("off") = "off ready"
BY DEF After, Ready

\* A Control leaves the stages alone; what it tells them, and where it leads to,
\* is what the stages may expect.
LEMMA ControlStep ==
  ASSUME ShapeInv, ModeInv, NEW c \in {"cool", "heat", "off"}, stack = <<>>, calls = <<>>,
         pc \in {c, Ready(c)}, pc' \in {After(c), Ready(c)},
         UNCHANGED <<st, queue, config, refCnt, whiteBoxValid, inAuto>>,
         CallsInv', WorkInv', FanOk',
         seen' # {} => whiteBoxValid,
         Fresh' => \A s \in Stages \ StagesOf(Unit) : ~out'[s],
         pc' = Ready(c) =>
           /\ Fresh' /\ Unit = c
           /\ ~systemOn' /\ \A s \in Stages : ~out'[s],
         pc' = After(c) =>
           \/ Unit = c /\ Fresh'
           \/ Unit # c /\ (Fresh' <=> Fresh)
           \/ ~whiteBoxValid /\ ~Fresh',
         Unit # c => pc' = After(c),
         ~whiteBoxValid => calls' = <<>> /\ stack' = <<>> /\ UNCHANGED <<out, systemOn>>
  PROVE  ModeInv'
<1>1. Unit' = Unit /\ Unit \in {"cool", "heat", "off", "none"}
  BY UnitValues DEF Unit, ShapeInv
<1>2. pc \notin Starts /\ pc' \notin Starts
  BY ControlPoints DEF Starts
<1>3. Unit # "none" /\ PlaceInv
  BY <1>2 DEF ModeInv, PlaceInv
<1>4. Resetting' <=> pc' = Ready(c)
  BY ControlPoints DEF Resetting
<1>5. PlaceInv'
  <2>1. Resetting' => Fresh' /\ pc' = Ready(Unit)
    BY <1>4
  <2>2. whiteBoxValid /\ pc' \in {"FanControl", "Relays"} => Fresh'
    <3>1. pc' \in {"FanControl", "Relays"} => c = "off" /\ pc' = After(c)
      BY ControlPoints
    <3>2. c = "off" /\ Unit # c /\ whiteBoxValid => Fresh
      <4>1. c = "off" => pc = "off" \/ pc = "off ready"
        BY ControlPoints
      <4>2. pc = "off ready" => Unit = "off"
        BY <1>1, <1>3, ControlPoints DEF PlaceInv, Resetting
      <4> QED BY <1>3, <4>1, <4>2 DEF PlaceInv
    <3> QED BY <3>1, <3>2
  <2>3. whiteBoxValid /\ pc' = "off" => Fresh' \/ Unit = "off"
    <3>1. pc' = "off" => c = "heat" /\ pc' = After(c)
      BY ControlPoints
    <3>2. c = "heat" /\ Unit # c /\ whiteBoxValid => Fresh \/ Unit # "cool"
      <4>1. c = "heat" => pc = "heat" \/ pc = "heat ready"
        BY ControlPoints
      <4>2. pc = "heat ready" => Unit = "heat"
        BY <1>1, <1>3, ControlPoints DEF PlaceInv, Resetting
      <4> QED BY <1>3, <4>1, <4>2 DEF PlaceInv
    <3> QED BY <1>1, <1>3, <3>1, <3>2
  <2>4. whiteBoxValid /\ pc' = "heat" => Fresh' \/ Unit # "cool"
    <3>1. pc' = "heat" => c = "cool" /\ pc' = After(c)
      BY ControlPoints
    <3> QED BY <3>1
  <2>5. ~whiteBoxValid => Blank'
    <3>1. ~whiteBoxValid => Blank
      BY <1>3 DEF PlaceInv
    <3> QED BY <3>1 DEF Blank
  <2>6. refCnt > 0 => Unit = "off"
    BY <1>2, <1>3 DEF PlaceInv
  <2> QED BY <1>1, <1>2, <1>3, <2>1, <2>2, <2>3, <2>4, <2>5, <2>6 DEF PlaceInv
<1>6. OthersInv'
  <2> SUFFICES ASSUME NEW s \in Stages \ StagesOf(Unit), st[s] # "Off"
               PROVE  ToCome(s)' \/ (SwitchingOff' /\ s \in StagesOf(UnitAt'))
    BY <1>1 DEF OthersInv
  <2>1. ToCome(s)
    BY Quiet
  <2>2. CASE c = "cool"
    <3>1. pc' = "heat" \/ pc' = "cool ready"
      BY <2>2, ControlPoints
    <3>2. CASE s # 0
      BY <3>1, <3>2 DEF ToCome
    <3>3. CASE s = 0
      <4>1. Unit # "cool"
        BY <3>3, Separate
      <4>2. pc' = "heat"
        BY <2>2, <3>1, <4>1, ControlPoints
      <4>3. UnitAt' = "cool"
        BY <4>2 DEF UnitAt
      <4> QED BY <1>1, <3>3, <4>1, <4>3, Separate DEF SwitchingOff
    <3> QED BY <3>2, <3>3
  <2>3. CASE c = "heat"
    <3>1. s # 0 /\ s \in Heats
      BY <2>1, <2>3, ControlPoints, Separate DEF ToCome
    <3>2. Unit # "heat"
      BY <3>1, Separate
    <3>3. pc' = "off"
      BY <2>3, <3>2, ControlPoints
    <3>4. UnitAt' = "heat"
      BY <3>3 DEF UnitAt
    <3> QED BY <1>1, <3>1, <3>2, <3>4, Separate DEF SwitchingOff
  <2>4. CASE c = "off"
    BY <2>1, <2>4, ControlPoints DEF ToCome
  <2> QED BY <2>2, <2>3, <2>4
<1>7. ResetInv'
  BY <1>4 DEF ResetInv
<1> QED BY <1>5, <1>6, <1>7 DEF ModeInv

\* Equipment that is told to go off, stage by stage
LEMMA CallsToOff ==
  ASSUME NEW c \in {"cool", "heat", "off"}, \A s \in Stages : queue'[s] = <<>>,
         calls' = ToEach("OffModeRequest", Ordered(c)),
         c = "off" => UnitAt' = "none",
         c # "off" => UnitAt' = c /\ SwitchingOff'
  PROVE  CallsInv'
<1>1. CASE c = "off"
  <2>1. calls' = <<>>
    BY <1>1, OffCalls
  <2>2. ~SwitchingOff'
    BY <1>1 DEF SwitchingOff
  <2> QED BY <2>1, <2>2, NoCalls
<1>2. CASE c # "off"
  BY <1>2, OffCalls DEF CallsInv
<1> QED BY <1>1, <1>2

\* The whiteBox model point is not valid yet.
LEMMA IdleMode ==
  ASSUME ShapeInv, ModeInv, NEW c \in {"cool", "heat", "off"}, ControlIdle(c)
  PROVE  ModeInv'
<1>1. /\ stack = <<>> /\ calls = <<>> /\ stack' = <<>> /\ calls' = <<>> /\ pc = c
      /\ pc' = After(c) /\ ~whiteBoxValid
      /\ UNCHANGED <<st, queue, out, fan, fanCut, systemOn, config, refCnt, whiteBoxValid, inAuto,
                     seen>>
  BY DEF ControlIdle, At, stageVars, argVars, pointVars, memberVars
<1>2. Blank /\ seen = {}
  BY <1>1 DEF ModeInv, PlaceInv
<1>3. ~Fresh'
  BY <1>1, <1>2 DEF Fresh
<1>4. CallsInv'
  BY <1>1, <1>2, Quiet, NoCalls, Separate DEF Blank
<1>5. WorkInv'
  BY <1>3 DEF WorkInv
<1>6. FanOk'
  BY <1>1 DEF ModeInv, FanOk
<1>7. pc' # Ready(c) /\ (Unit # c => pc' = After(c))
  BY <1>1, ControlPoints
<1> QED BY <1>1, <1>2, <1>3, <1>4, <1>5, <1>6, <1>7, ControlStep

\* Equipment that does not belong to the operating mode
LEMMA NotInUseMode ==
  ASSUME ShapeInv, ModeInv, NEW c \in {"cool", "heat", "off"}, ControlOff(c)
  PROVE  ModeInv'
<1>1. /\ stack = <<>> /\ calls = <<>> /\ pc = c /\ pc' = After(c) /\ whiteBoxValid
      /\ UNCHANGED <<st, queue, out, fan, fanCut, systemOn, config, refCnt, whiteBoxValid, inAuto,
                     seen>>
      /\ calls' = ToEach("OffModeRequest", Ordered(c))
  BY DEF ControlOff, At, stageVars, argVars, pointVars, memberVars
<1>2. Unit # c /\ Unit' = Unit
  BY <1>1, UnitValues DEF ControlOff, ShapeInv, Unit
<1>3. ~Resetting /\ ~Resetting' /\ (Fresh' <=> Fresh)
  BY <1>1, <1>2, ControlPoints DEF Resetting, Fresh
<1>4. /\ c = "off" => UnitAt' = "none"
      /\ c # "off" => UnitAt' = c
  BY <1>1, ControlPoints DEF UnitAt
<1>5. c # "off" => SwitchingOff'
  BY <1>2, <1>4 DEF SwitchingOff
<1>6. CallsInv'
  BY <1>1, <1>4, <1>5, Quiet, CallsToOff
<1>7. WorkInv'
  <2>1. WorkInv
    BY DEF ModeInv
  <2> QED BY <1>1, <1>2, <1>3, <2>1 DEF WorkInv, Match, Chain
<1>8. FanOk' /\ (seen' # {} => whiteBoxValid)
  BY <1>1 DEF ModeInv, FanOk
<1>9. Fresh' => \A s \in Stages \ StagesOf(Unit) : ~out'[s]
  BY <1>1, <1>3 DEF ModeInv, OthersInv
<1>10. pc' # Ready(c)
  BY <1>1, ControlPoints
<1> QED BY <1>1, <1>2, <1>3, <1>6, <1>7, <1>8, <1>9, <1>10, ControlStep

\* The configuration or the mode has changed.
LEMMA ResetMode ==
  ASSUME ShapeInv, ModeInv, NEW c \in {"cool", "heat", "off"}, ControlReset(c)
  PROVE  ModeInv'
<1>1. /\ stack = <<>> /\ calls = <<>> /\ pc = c /\ pc' = Ready(c) /\ whiteBoxValid
      /\ UNCHANGED <<st, queue, config, refCnt, whiteBoxValid, inAuto>>
      /\ calls' = ToEach("OffModeRequest", Ordered(c))
      /\ seen' = seen \cup {c}
  BY DEF ControlReset, At, stageVars, pointVars
<1>2. ~systemOn' /\ (\A s \in Stages : ~out'[s]) /\ FanOk'
  <2>1. out' = [s \in Stages |-> FALSE] /\ fan' = FALSE /\ systemOn' = FALSE
    BY DEF ControlReset
  <2>2. \A s \in Stages : out'[s] = FALSE
    BY <2>1
  <2> QED BY <2>1, <2>2, Separate DEF FanOk
<1>3. Unit = c /\ Unit' = Unit
  BY <1>1, UnitValues DEF ControlReset, ShapeInv, Unit
<1>4. Resetting' /\ Fresh'
  BY <1>1, <1>3, ControlPoints DEF Resetting, Fresh
<1>5. /\ c = "off" => UnitAt' = "none"
      /\ c # "off" => UnitAt' = c
  BY <1>1, ControlPoints DEF UnitAt
<1>6. c # "off" => SwitchingOff'
  BY <1>4, <1>5 DEF SwitchingOff
<1>7. CallsInv'
  BY <1>1, <1>5, <1>6, Quiet, CallsToOff
<1>8. WorkInv'
  BY <1>4 DEF WorkInv
<1>9. pc' # After(c)
  BY <1>1, ControlPoints
<1> QED BY <1>1, <1>2, <1>3, <1>4, <1>7, <1>8, <1>9, ControlStep

\* A Control runs its equipment: the mode is its own, and it has seen the
\* configuration.
LEMMA ActiveUnit ==
  ASSUME ShapeInv, ModeInv, NEW c \in {"cool", "heat", "off"}, NEW a, NEW d \in BOOLEAN,
         ControlActive(c, a, d)
  PROVE  /\ Unit = c /\ Fresh /\ whiteBoxValid /\ stack = <<>> /\ calls = <<>>
         /\ pc \in {c, Ready(c)} /\ (~Resetting => ~modeChanged)
<1>1. /\ stack = <<>> /\ calls = <<>>
      /\ \/ pc = Ready(c)
         \/ pc = c /\ config.mode = ModeOf(c) /\ c \in seen /\ ~modeChanged
  BY DEF ControlActive, At
<1>2. Unit = c /\ Fresh
  <2>1. CASE pc = Ready(c)
    <3>1. Resetting
      BY <2>1, ControlPoints DEF Resetting
    <3>2. Fresh /\ Ready(c) = Ready(Unit)
      BY <2>1, <3>1 DEF ModeInv, PlaceInv
    <3>3. Unit \in {"cool", "heat", "off", "none"} /\ Unit # "none"
      BY <2>1, ControlPoints, UnitValues DEF ShapeInv, ModeInv, PlaceInv, Starts
    <3> QED BY <3>2, <3>3, ControlPoints
  <2>2. CASE pc = c /\ config.mode = ModeOf(c) /\ c \in seen
    BY <2>2, UnitValues DEF ShapeInv, Fresh
  <2> QED BY <1>1, <2>1, <2>2
<1>3. whiteBoxValid
  BY <1>2 DEF ModeInv, PlaceInv, Fresh
<1>4. ~Resetting => ~modeChanged
  BY <1>1, ControlPoints DEF Resetting
<1> QED BY <1>1, <1>2, <1>3, <1>4

\* The calls of equipment that runs
LEMMA ActiveCallsOk ==
  ASSUME ShapeInv, NEW c \in Units, NEW a, NEW d \in BOOLEAN,
         ControlActive(c, a, d)
  PROVE  CallsOk(c, d, calls')
<1>1. calls' = IF c = "cool" THEN ExecuteCooling(d) ELSE ExecuteHeating(d)
  BY DEF ControlActive, Units
<1> QED BY <1>1, ActiveCalls DEF ShapeInv, PointTypes

\* Equipment that runs
LEMMA ActiveMode ==
  ASSUME ShapeInv, ModeInv, NEW c \in {"cool", "heat", "off"}, NEW a, NEW d \in BOOLEAN,
         ControlActive(c, a, d)
  PROVE  ModeInv'
<1>1. /\ Unit = c /\ Fresh /\ whiteBoxValid /\ stack = <<>> /\ calls = <<>>
      /\ pc \in {c, Ready(c)}
  BY ActiveUnit
<1>2. /\ UNCHANGED <<st, queue, config, refCnt, whiteBoxValid, inAuto, seen>>
      /\ pc' = After(c)
  BY DEF ControlActive, stageVars, pointVars, memberVars
<1>3. \A s \in Stages : queue[s] = <<>>
  BY <1>1, Quiet
<1>4. Unit' = Unit /\ Fresh' /\ ~Resetting'
  BY <1>1, <1>2, ControlPoints DEF Unit, Fresh, Resetting
<1>5. /\ c = "off" => UnitAt' = "none"
      /\ c # "off" => UnitAt' = c
  BY <1>2, ControlPoints DEF UnitAt
<1>6. ~SwitchingOff'
  BY <1>1, <1>4, <1>5 DEF SwitchingOff
<1>7. CallsInv'
  <2>1. CASE c = "off"
    <3>1. calls' = <<>>
      BY <2>1 DEF ControlActive
    <3> QED BY <1>2, <1>3, <1>6, <3>1, NoCalls
  <2>2. CASE c # "off"
    <3>1. c \in Units
      BY <2>2 DEF Units
    <3>2. \A i \in 1..Len(calls') :
            calls'[i].stage \in StagesOf(c) /\ calls'[i].ev # "OffModeRequest"
      BY <3>1, ActiveCallsOk DEF CallsOk, CallOk
    <3> QED BY <1>2, <1>3, <1>5, <1>6, <2>2, <3>2 DEF CallsInv
  <2> QED BY <2>1, <2>2
<1>8. FanOk' /\ \A s \in Stages \ StagesOf(Unit) : ~out'[s]
  <2>1. CASE c = "off"
    <3>1. out' = [s \in Stages |-> FALSE] /\ fan' = FALSE
      BY <2>1 DEF ControlActive
    <3>2. \A s \in Stages : out'[s] = FALSE
      BY <3>1
    <3> QED BY <3>1, <3>2, Separate DEF FanOk
  <2>2. CASE c # "off"
    <3>1. UNCHANGED <<out, fan, fanCut>>
      BY <2>2 DEF ControlActive
    <3> QED BY <1>1, <3>1 DEF ModeInv, OthersInv, FanOk
  <2> QED BY <2>1, <2>2
<1>9. WorkInv'
  <2>1. CASE c = "off"
    <3>1. systemOn' = FALSE
      BY <2>1 DEF ControlActive
    <3> QED BY <1>1, <1>4, <2>1, <3>1, Separate DEF WorkInv, Units
  <2>2. CASE c # "off" /\ ~Resetting
    <3>1. UNCHANGED <<out, systemOn>>
      BY <2>2 DEF ControlActive
    <3>2. WorkInv
      BY DEF ModeInv
    <3> QED BY <1>1, <1>2, <1>4, <2>2, <3>1, <3>2 DEF WorkInv, Match, Chain
  <2>3. CASE c # "off" /\ Resetting
    <3>1. UNCHANGED <<out, systemOn>>
      BY <2>3 DEF ControlActive
    <3>2. ~systemOn /\ \A s \in Stages : ~out[s]
      BY <2>3 DEF ModeInv, ResetInv
    <3>3. UnitAt = c
      BY <1>1, <2>3, ControlPoints DEF UnitAt, Resetting
    <3>4. \A s \in StagesOf(c) : s \in Stages /\ st[s] = "Off"
      BY <1>1, <2>3, <3>3, Quiet, Separate DEF SwitchingOff
    <3>5. \A s \in StagesOf(c) : Match(s)'
      <4>1. SUFFICES ASSUME NEW s \in StagesOf(c) PROVE Match(s)'
        OBVIOUS
      <4>2. out'[s] = FALSE
        BY <3>1, <3>2, <3>4 DEF ShapeInv, StageTypes
      <4>3. (st'[s] \in {"StartingOn", "OnTime", "Supplementing"}) = FALSE
        BY <1>2, <3>4
      <4> QED BY <4>2, <4>3 DEF Match
    <3>6. c = "heat" => \A s \in Heats : s + 1 \in Heats => Chain(s)'
      <4> SUFFICES ASSUME c = "heat", NEW s \in Heats, s + 1 \in Heats PROVE Chain(s)'
        OBVIOUS
      <4>1. s \in Stages /\ s + 1 \in Stages
        BY Separate
      <4>2. st'[s] = "Off" /\ st'[s + 1] = "Off"
        BY <1>2, <3>4, Separate
      <4>3. queue'[s] = <<>> /\ queue'[s + 1] = <<>>
        BY <1>2, <1>3, <4>1
      <4> QED BY <4>2, <4>3 DEF Chain
    <3>7. c \in Units => st'[FirstOf(c)] = "Off"
      BY <1>2, <3>4, Separate DEF Units, FirstOf
    <3> QED BY <1>1, <1>4, <3>1, <3>2, <3>5, <3>6, <3>7 DEF WorkInv
  <2> QED BY <2>1, <2>2, <2>3
<1>10. pc' # Ready(c)
  BY <1>2, ControlPoints
<1> QED BY <1>1, <1>2, <1>4, <1>7, <1>8, <1>9, <1>10, ControlStep

\* ModeInv is inductive.
LEMMA ModeStep == ShapeInv /\ ModeInv /\ [Next]_vars => ModeInv'
<1> SUFFICES ASSUME ShapeInv, ModeInv, [Next]_vars PROVE ModeInv'
  OBVIOUS
<1>1. ASSUME UNCHANGED vars PROVE ModeInv'
  <2>1. UNCHANGED <<st, queue, out, fan, fanCut, systemOn, config, refCnt, whiteBoxValid, inAuto,
                    seen, pc, calls, stack>>
    BY <1>1 DEF vars, stageVars, argVars, pointVars, memberVars, threadVars
  <2>2. /\ Unit' = Unit /\ UnitAt' = UnitAt
        /\ Resetting' <=> Resetting
        /\ SwitchingOff' <=> SwitchingOff
        /\ Fresh' <=> Fresh
        /\ \A r \in Stages : ToCome(r)' <=> ToCome(r)
    BY <2>1, SamePlace
  <2>3. CallsInv'
    BY <2>1, <2>2 DEF ModeInv, CallsInv
  <2>4. PlaceInv'
    BY <2>1, <2>2 DEF ModeInv, PlaceInv, Blank
  <2>5. OthersInv' /\ ResetInv'
    BY <2>1, <2>2 DEF ModeInv, OthersInv, ResetInv
  <2>6. WorkInv'
    BY <2>1, <2>2 DEF ModeInv, WorkInv, Match, Chain
  <2> QED BY <2>1, <2>3, <2>4, <2>5, <2>6 DEF ModeInv, FanOk
<1> QED
  BY <1>1, FirstMode, OperatingModeMode, IdleMode, NotInUseMode, ResetMode, ActiveMode, CallMode,
     ProcessMode, ReturnMode, FanMode, RelaysMode DEF Next

\* What holds of the stages when the Controls have run
LEMMA WhenDone ==
  ASSUME ShapeInv, ModeInv, At("Relays")
  PROVE  /\ \A s \in Stages : queue[s] = <<>> /\ st[s] \in RestStates
         /\ \A s \in Stages \ StagesOf(Unit) : st[s] = "Off" /\ ~out[s]
         /\ \A s \in StagesOf(Unit) : Match(s)
         /\ Unit = "heat" => \A s \in Heats : s + 1 \in Heats => Chain(s)
         /\ systemOn <=> Unit \in Units /\ st[FirstOf(Unit)] # "Off"
<1>1. pc = "Relays" /\ calls = <<>> /\ stack = <<>>
  BY DEF At
<1>2. \A s \in Stages : queue[s] = <<>> /\ st[s] \in RestStates
  <2>1. \A s \in Stages : stack # <<s>>
    BY <1>1
  <2>2. \A s, low \in Stages : stack # <<s, low>>
    BY <1>1
  <2> QED BY <2>1, <2>2 DEF ShapeInv, StackInv, NoOtherThan, Settled, Alone, Above
<1>3. ~Resetting /\ \A s \in Stages : ~ToCome(s)
  BY <1>1 DEF Resetting, ToCome
<1>4. \A s \in Stages \ StagesOf(Unit) : st[s] = "Off"
  BY <1>1, <1>3, Quiet
<1>5. CASE Fresh
  BY <1>2, <1>3, <1>4, <1>5 DEF ModeInv, OthersInv, WorkInv
<1>6. CASE ~Fresh
  <2>1. Blank
    BY <1>1, <1>6 DEF ModeInv, PlaceInv
  <2>2. \A s \in StagesOf(Unit) : Match(s)
    <3> SUFFICES ASSUME NEW s \in StagesOf(Unit) PROVE Match(s)
      OBVIOUS
    <3>1. out[s] = FALSE /\ st[s] = "Off"
      BY <2>1, Separate DEF Blank, ShapeInv, StageTypes
    <3>2. (st[s] \in {"StartingOn", "OnTime", "Supplementing"}) = FALSE
      BY <3>1
    <3> QED BY <3>1, <3>2 DEF Match
  <2>3. \A s \in Heats : s + 1 \in Heats => Chain(s)
    <3> SUFFICES ASSUME NEW s \in Heats, s + 1 \in Heats PROVE Chain(s)
      OBVIOUS
    <3>1. s \in Stages /\ s + 1 \in Stages
      BY Separate
    <3>2. st[s] = "Off" /\ st[s + 1] = "Off" /\ queue[s] = <<>> /\ queue[s + 1] = <<>>
      BY <1>2, <2>1, <3>1 DEF Blank
    <3> QED BY <3>2 DEF Chain
  <2>4. ~systemOn /\ (Unit \in Units => st[FirstOf(Unit)] = "Off")
    BY <2>1, Separate DEF Blank, Units, FirstOf
  <2> QED BY <1>2, <1>4, <2>1, <2>2, <2>3, <2>4 DEF Blank
<1> QED BY <1>5, <1>6

\* The outputs are those of the stages when the Controls have run.
LEMMA OutputsHold == ShapeInv /\ ModeInv => OutputsMatch
<1> SUFFICES ASSUME ShapeInv, ModeInv, At("Relays")
             PROVE  /\ \A s \in Stages : out[s] = (st[s] \in {"OnTime", "Supplementing"})
                    /\ fan => out[0]
                    /\ out[0] => fan \/ fanCut
  BY DEF OutputsMatch
<1>1. ASSUME NEW s \in Stages PROVE out[s] = (st[s] \in {"OnTime", "Supplementing"})
  <2>1. st[s] \in RestStates /\ out[s] \in BOOLEAN
    BY WhenDone DEF ShapeInv, StageTypes
  <2>2. CASE s \in StagesOf(Unit)
    <3>1. Match(s)
      BY <2>2, WhenDone
    <3>2. out[s] = (st[s] \in {"StartingOn", "OnTime", "Supplementing"})
      BY <2>1, <3>1 DEF Match, RestStates
    <3>3. (st[s] \in {"StartingOn", "OnTime", "Supplementing"})
            = (st[s] \in {"OnTime", "Supplementing"})
      BY <2>1 DEF RestStates
    <3> QED BY <3>2, <3>3
  <2>3. CASE s \notin StagesOf(Unit)
    <3>1. out[s] = FALSE /\ st[s] = "Off"
      BY <2>1, <2>3, WhenDone
    <3>2. (st[s] \in {"OnTime", "Supplementing"}) = FALSE
      BY <3>1
    <3> QED BY <3>1, <3>2
  <2> QED BY <2>2, <2>3
<1>2. (fan => out[0]) /\ (out[0] => fan \/ fanCut)
  BY DEF ModeInv, FanOk
<1> QED BY <1>1, <1>2

\* One stage is active when the Controls have run.
LEMMA OneActiveHolds == ShapeInv /\ ModeInv => OneActive
<1> SUFFICES ASSUME ShapeInv, ModeInv, At("Relays")
             PROVE  IF systemOn
                    THEN \E top \in Stages :
                           /\ Cycling(top)
                           /\ top \in StagesOf(IF config.mode = "COOLING" THEN "cool" ELSE "heat")
                           /\ \A s \in Stages \ {top} :
                                st[s] = IF s \in 1..(top - 1) THEN "Supplementing" ELSE "Off"
                    ELSE \A s \in Stages : st[s] = "Off"
  BY DEF OneActive
<1>1. /\ \A s \in Stages : queue[s] = <<>> /\ st[s] \in RestStates
      /\ \A s \in Stages \ StagesOf(Unit) : st[s] = "Off"
      /\ Unit = "heat" => \A s \in Heats : s + 1 \in Heats => Chain(s)
      /\ systemOn <=> Unit \in Units /\ st[FirstOf(Unit)] # "Off"
  BY WhenDone
<1>2. ASSUME Unit = "heat"
      PROVE  \A s \in Heats : s + 1 \in Heats => (st[s] = "Supplementing" <=> st[s + 1] # "Off")
  <2> SUFFICES ASSUME NEW s \in Heats, s + 1 \in Heats
               PROVE  st[s] = "Supplementing" <=> st[s + 1] # "Off"
    OBVIOUS
  <2>1. s \in Stages /\ s + 1 \in Stages /\ Chain(s)
    BY <1>1, <1>2, Separate
  <2>2. queue[s] = <<>> /\ queue[s + 1] = <<>>
    BY <1>1, <2>1
  <2> QED BY <2>1, <2>2 DEF Chain
<1>3. \A s \in Heats : st[s] = "Supplementing" => s + 1 \in Heats
  BY Separate DEF ShapeInv, StagesInv, LinkOf
<1>4. 0 \in Stages /\ 1 \in Stages /\ 1 \in Heats /\ NumHeat \in 1..3
      /\ Heats = 1..NumHeat /\ Stages = {0} \cup Heats
  BY Separate, Constants
<1>5. Unit \in {"cool", "heat", "off", "none"}
  BY UnitValues DEF ShapeInv
<1>6. st[0] # "Supplementing"
  BY <1>4, Separate DEF ShapeInv, StagesInv, LinkOf
<1>7. CASE systemOn /\ Unit = "cool"
  <2>1. config.mode = "COOLING"
    BY <1>7 DEF Unit
  <2>2. st[0] \in {"OnTime", "OffTime"}
    BY <1>1, <1>4, <1>6, <1>7 DEF RestStates, FirstOf
  <2>3. Cycling(0) /\ 0 \in StagesOf("cool")
    BY <2>2, Separate DEF Cycling
  <2>4. \A s \in Stages \ {0} : st[s] = "Off" /\ s \notin 1..(0 - 1)
    BY <1>1, <1>4, <1>7, Separate
  <2> QED BY <1>4, <1>7, <2>1, <2>3, <2>4
<1>8. CASE systemOn /\ Unit = "heat"
  <2>1. config.mode # "COOLING"
    BY <1>8 DEF Unit
  <2>2. st[1] # "Off" /\ st[0] = "Off"
    BY <1>1, <1>4, <1>8, Separate DEF FirstOf
  <2>3. SUFFICES \E top \in Heats :
                   /\ st[top] \in {"OnTime", "OffTime"}
                   /\ \A s \in Heats \ {top} :
                        IF s < top THEN st[s] = "Supplementing" ELSE st[s] = "Off"
    <3>1. PICK top \in Heats :
            /\ st[top] \in {"OnTime", "OffTime"}
            /\ \A s \in Heats \ {top} :
                 IF s < top THEN st[s] = "Supplementing" ELSE st[s] = "Off"
      BY <2>3
    <3>2. Cycling(top) /\ top \in Stages /\ top \in StagesOf("heat")
      BY <1>4, <3>1, Separate DEF Cycling
    <3>3. ASSUME NEW s \in Stages \ {top}
          PROVE  st[s] = IF s \in 1..(top - 1) THEN "Supplementing" ELSE "Off"
      <4>1. CASE s = 0
        BY <1>4, <2>2, <4>1
      <4>2. CASE s # 0
        <5>1. s \in Heats \ {top} /\ (s \in 1..(top - 1) <=> s < top)
          BY <1>4, <4>2
        <5> QED BY <3>1, <5>1
      <4> QED BY <4>1, <4>2
    <3> QED BY <1>8, <2>1, <3>2, <3>3
  <2>4. \A s \in Heats : st[s] \in RestStates
    BY <1>1, <1>4
  <2>5. CASE st[1] # "Supplementing"
    <3>1. 2 \in Heats => st[2] = "Off"
      BY <1>2, <1>4, <1>8, <2>5
    <3>2. 3 \in Heats => 2 \in Heats /\ st[3] = "Off"
      BY <1>2, <1>4, <1>8, <3>1
    <3>3. st[1] \in {"OnTime", "OffTime"}
      BY <1>4, <2>2, <2>4, <2>5 DEF RestStates
    <3>4. \A s \in Heats \ {1} : st[s] = "Off" /\ ~(s < 1)
      BY <1>4, <3>1, <3>2
    <3> QED BY <1>4, <3>3, <3>4
  <2>6. CASE st[1] = "Supplementing" /\ st[2] # "Supplementing"
    <3>1. 2 \in Heats /\ st[2] # "Off"
      BY <1>2, <1>3, <1>4, <1>8, <2>6
    <3>2. 3 \in Heats => st[3] = "Off"
      BY <1>2, <1>4, <1>8, <2>6, <3>1
    <3>3. st[2] \in {"OnTime", "OffTime"}
      BY <2>4, <2>6, <3>1 DEF RestStates
    <3>4. \A s \in Heats \ {2} : IF s < 2 THEN st[s] = "Supplementing" ELSE st[s] = "Off"
      BY <1>4, <2>6, <3>2
    <3> QED BY <3>1, <3>3, <3>4
  <2>7. CASE st[1] = "Supplementing" /\ st[2] = "Supplementing"
    <3>1. 2 \in Heats
      BY <1>3, <1>4, <2>7
    <3>2. 3 \in Heats /\ st[3] # "Off"
      BY <1>2, <1>3, <1>4, <1>8, <2>7, <3>1
    <3>3. st[3] # "Supplementing"
      BY <1>3, <1>4, <3>2
    <3>4. st[3] \in {"OnTime", "OffTime"}
      BY <2>4, <3>2, <3>3 DEF RestStates
    <3>5. \A s \in Heats \ {3} : s < 3 /\ st[s] = "Supplementing"
      BY <1>4, <2>7
    <3> QED BY <3>2, <3>4, <3>5
  <2> QED BY <2>5, <2>6, <2>7
<1>9. CASE ~systemOn
  <2>1. CASE Unit = "cool"
    <3>1. st[0] = "Off"
      BY <1>1, <1>9, <2>1 DEF Units, FirstOf
    <3> QED BY <1>1, <1>4, <1>9, <2>1, <3>1, Separate
  <2>2. CASE Unit = "heat"
    <3>1. st[1] = "Off"
      BY <1>1, <1>9, <2>2 DEF Units, FirstOf
    <3>2. 2 \in Heats => st[2] = "Off"
      BY <1>2, <1>4, <2>2, <3>1
    <3>3. 3 \in Heats => 2 \in Heats /\ st[3] = "Off"
      BY <1>2, <1>4, <2>2, <3>2
    <3>4. \A s \in Heats : st[s] = "Off"
      BY <1>4, <3>1, <3>2, <3>3
    <3>5. st[0] = "Off"
      BY <1>1, <1>4, <2>2, Separate
    <3> QED BY <1>4, <1>9, <3>4, <3>5
  <2>3. CASE Unit = "off" \/ Unit = "none"
    BY <1>1, <1>9, <2>3, Separate
  <2> QED BY <1>5, <2>1, <2>2, <2>3
<1>10. systemOn => Unit \in Units
  BY <1>1
<1> QED BY <1>7, <1>8, <1>9, <1>10 DEF Units

\* When the Controls have run, one stage of the unit in use is active, those
\* below it supplement it and all others are off, however requests, expired
\* times, stale events and changes of the mode interleave.
THEOREM OneActiveAlways == Spec => []OneActive
<1> QED BY ShapeInit, ShapeStep, ModeInit, ModeStep, OneActiveHolds, PTL DEF Spec

\* The outputs are those of the stages, and the fan runs with the compressor:
\* a stage of a former mode leaves no output on.
THEOREM OutputsMatchAlways == Spec => []OutputsMatch
<1> QED BY ShapeInit, ShapeStep, ModeInit, ModeStep, OutputsHold, PTL DEF Spec

-----------------------------------------------------------------------------
(* The times *)

\* The least and the greatest of two numbers
LEMMA PairMinMax ==
  ASSUME NEW a \in Int, NEW b \in Int
  PROVE  /\ Min({a, b}) = IF a <= b THEN a ELSE b
         /\ Max({a, b}) = IF a <= b THEN b ELSE a
<1>1. Min({a, b}) = IF a <= b THEN a ELSE b
  BY DEF Min
<1>2. Max({a, b}) = IF a <= b THEN b ELSE a
  BY DEF Max
<1> QED BY <1>1, <1>2

\* A cycle of any load is as long as its minimum, or as 2 * K.
LEMMA LongEnough ==
  ASSUME PointTypes, NEW s \in Stages
  PROVE  /\ CalculateOnTime(s) \in Int /\ CalculateOnTime(s) >= LeastOn
         /\ CalculateOffTime(s) \in Int /\ CalculateOffTime(s) >= Min({MinOff, 2 * K})
         /\ LeastOn \in Nat /\ LeastOn <= MinOn
<1>1. K \in Nat \ {0} /\ MinOn \in Nat /\ MinOff \in Nat /\ pvOut \in Nat /\ s \in Nat
  BY Constants DEF PointTypes
<1>2. LowerBound(s) \in Int
  BY <1>1 DEF LowerBound
<1>3. NormalizePv(s) \in 0..100
  <2>1. pvOut - LowerBound(s) \in Int
    BY <1>1, <1>2
  <2>2. ASSUME NEW x \in Int PROVE Max({x, 0}) \in Nat
    <3>1. Max({x, 0}) = IF x <= 0 THEN 0 ELSE x
      <4>1. 0 \in Int
        OBVIOUS
      <4> QED BY <4>1, PairMinMax, Zenon
    <3> QED BY <3>1
  <2>3. ASSUME NEW x \in Nat PROVE Min({x, 100}) \in 0..100
    <3>1. Min({x, 100}) = IF x <= 100 THEN x ELSE 100
      BY PairMinMax
    <3> QED BY <3>1
  <2>4. Max({pvOut - LowerBound(s), 0}) \in Nat
    BY <2>1, <2>2, Zenon
  <2> QED BY <2>3, <2>4, Zenon DEF NormalizePv
<1>4. \A n \in 1..100 : (K * 100) \div n \in Int
  BY <1>1
<1>5. ASSUME NEW t \in Int, NEW least \in Nat
      PROVE  AtLeast(t, least) \in Int /\ AtLeast(t, least) >= Min({least, 2 * K})
  <2>1. 2 * K \in Int
    BY <1>1
  <2>2. Min({least, 2 * K}) \in Int
    BY <2>1, PairMinMax
  <2> QED BY <2>2, PairMinMax DEF AtLeast
<1>6. Forever \in Int
  BY DEF Forever
<1>7. CalculateOnTime(s) \in Int /\ CalculateOnTime(s) >= LeastOn
  <2> DEFINE rest == 100 - NormalizePv(s)
  <2> DEFINE t == IF rest = 0 THEN Forever ELSE (K * 100) \div rest
  <2>1. rest = 0 \/ rest \in 1..100
    BY <1>3
  <2>2. t \in Int
    BY <1>4, <1>6, <2>1
  <2>3. CalculateOnTime(s) = AtLeast(t, MinOn)
    BY DEF CalculateOnTime
  <2> HIDE DEF t
  <2> QED BY <1>1, <1>5, <2>2, <2>3 DEF LeastOn
<1>8. CalculateOffTime(s) \in Int /\ CalculateOffTime(s) >= Min({MinOff, 2 * K})
  <2> DEFINE pv == NormalizePv(s)
  <2> DEFINE t == IF pv = 0 THEN Forever ELSE (K * 100) \div pv
  <2>1. pv = 0 \/ pv \in 1..100
    BY <1>3
  <2>2. t \in Int
    BY <1>4, <1>6, <2>1
  <2>3. CalculateOffTime(s) = AtLeast(t, MinOff)
    BY DEF CalculateOffTime
  <2> HIDE DEF t
  <2> QED BY <1>1, <1>5, <2>2, <2>3
<1>9. LeastOn \in Nat /\ LeastOn <= MinOn
  <2>1. 2 * K \in Int /\ 2 * K >= 0
    BY <1>1
  <2> QED BY <1>1, <2>1, PairMinMax DEF LeastOn
<1> QED BY <1>7, <1>8, <1>9

\* What a step of a stage does to its times and its output: a cycle begins
Begins(s) ==
    /\ st'[s] = "StartingOn" /\ out'[s] /\ startAge'[s] = 0 /\ cycle'.onAge = 0
    /\ \/ queue[s] = <<"OnRequest">> \/ out[s] \/ s >= 2
       \/ IsOffCycle(s) /\ queue[s] # <<>> /\ queue[s][1] = "OffTimeExpired"
    /\ queue'[s][1] = "OnTimeExpired" => abort
\* ... or its off time,
Pauses(s) ==
    /\ st'[s] = "StartingOff" /\ ~out'[s] /\ startAge'[s] = 0
    /\ cycle'.onAge = cycle.onAge
    /\ IsOnCycle(s) /\ queue[s] # <<>> /\ queue[s][1] = "OnTimeExpired"
    /\ queue'[s][1] # "OffTimeExpired"
\* the stage is no longer needed, at once or on its way back,
Stops(s) ==
    /\ \/ st'[s] = "Off" /\ ~out'[s]
       \/ st'[s] = "BackToLower" /\ out'[s] = out[s] /\ s >= 2
    /\ cycle'.onAge = cycle.onAge
    /\ queue[s] = <<"ExcessCapacity">> \/ st[s] = "BackToLower"
\* it is supported by the next one,
Supports(s) ==
    /\ st'[s] = "Supplementing" /\ out'[s] /\ cycle'.onAge = cycle.onAge
    /\ queue[s] = <<"NeedMoreCapacity">>
\* it leaves, or enters, the state Off and its output alone,
Passes(s) ==
    /\ st'[s] \in {"Off", "FromLower"} /\ out'[s] = out[s]
    /\ cycle'.onAge = cycle.onAge
\* or its cycle goes on, until its time is found to be over.
Due(s, time) == abort \/ startAge[s] >= time
Stays(s) ==
    /\ out'[s] = out[s] /\ startAge'[s] = startAge[s] /\ cycle'.onAge = cycle.onAge
    /\ st'[s] \in {"StartingOn", "OnTime"} => IsOnCycle(s)
    /\ st'[s] \in {"StartingOff", "OffTime"} => IsOffCycle(s)
    /\ st'[s] = "BackToLower" => st[s] = "BackToLower"
    /\ queue'[s] # <<>> =>
         /\ IsOnCycle(s) /\ queue'[s][1] = "OnTimeExpired" => Due(s, CalculateOnTime(s))
         /\ IsOffCycle(s) /\ queue'[s][1] = "OffTimeExpired" => Due(s, CalculateOffTime(s))
Effects(s) ==
    /\ \/ Begins(s) \/ Pauses(s) \/ Stops(s) \/ Supports(s) \/ Passes(s) \/ Stays(s)
    /\ queue'[s] \notin {<<"OnRequest">>, <<"NeedMoreCapacity">>, <<"ExcessCapacity">>}
    /\ abort' => abort
    /\ \A r \in Stages \ {s} :
         /\ st'[r] = st[r] /\ out'[r] = out[r] /\ startAge'[r] = startAge[r]
         /\ \/ queue'[r] = queue[r] \/ queue'[r] = <<"LessCapacity">>
            \/ r >= 2 /\ queue'[r] = <<"OnRequest">>

\* The steps that begin a cycle, and what they do to the others
LEMMA EntersCycle ==
  ASSUME StageTypes, NEW s \in Stages, NEW on \in BOOLEAN, NEW check, EnterCycle(s, on, check),
         NEW state, NEW q, Moves(s, state, q),
         \/ q = <<"StartingOnExpired">> \/ q = <<"StartingOffExpired">>
         \/ \E e : q = <<e, "StartingOnExpired">> \/ q = <<e, "StartingOffExpired">>
  PROVE  /\ out'[s] = on /\ startAge'[s] = 0
         /\ on => cycle'.onAge = 0
         /\ ~on => cycle'.onAge = cycle.onAge
         /\ queue'[s] \notin {<<"OnRequest">>, <<"NeedMoreCapacity">>, <<"ExcessCapacity">>}
         /\ ~abort'
         /\ \A r \in Stages \ {s} :
              /\ st'[r] = st[r] /\ out'[r] = out[r] /\ startAge'[r] = startAge[r]
              /\ queue'[r] = queue[r]
<1>1. StageOutput(s, on) /\ startAge' = [startAge EXCEPT ![s] = 0] /\ abort' = FALSE
  BY DEF EnterCycle
<1>2. /\ out'[s] = on /\ \A r \in Stages \ {s} : out'[r] = out[r]
  BY <1>1, OutputTypes
<1>3. startAge'[s] = 0 /\ \A r \in Stages \ {s} : startAge'[r] = startAge[r]
  BY <1>1 DEF StageTypes
<1>4. /\ on => cycle'.onAge = 0
      /\ ~on => cycle'.onAge = cycle.onAge
  <2>1. on => cycle' = [mode |-> "ON_CYCLE", onAge |-> 0]
    BY DEF EnterCycle
  <2>2. ~on => cycle' = [cycle EXCEPT !.mode = "OFF_CYCLE"]
    BY DEF EnterCycle
  <2> QED BY <2>1, <2>2 DEF StageTypes, Cycles
<1>5. /\ queue'[s] # <<"OnRequest">> /\ queue'[s] # <<"NeedMoreCapacity">>
      /\ queue'[s] # <<"ExcessCapacity">>
  BY DEF Moves
<1>6. \A r \in Stages \ {s} : st'[r] = st[r] /\ queue'[r] = queue[r]
  BY DEF Moves, SameAs
<1> QED BY <1>1, <1>2, <1>3, <1>4, <1>5, <1>6

\* The effects of the steps that begin a cycle
LEMMA CycleEffects ==
  ASSUME ShapeInv, ModeInv, NEW s \in Stages, Runs(s), ~SwitchingOff,
         \/ SwitchOn(s) \/ FromCompleted(s) \/ LessCapacity(s)
         \/ \E check \in Check(s) : TimeExpired(s, check)
  PROVE  Effects(s)
<1>1. InUse(s) /\ StageTypes /\ LinkOf(s) /\ Match(s)
  BY InUseIs DEF ShapeInv, StagesInv, InUse
<1>2. CASE SwitchOn(s) \/ FromCompleted(s) \/ LessCapacity(s)
  <2>1. /\ \/ queue[s] = <<"OnRequest">> \/ s >= 2
           \/ st[s] = "Supplementing"
        /\ Moves(s, "StartingOn", OnQueue)
    <3>1. CASE SwitchOn(s)
      BY <3>1, SwitchOnShape
    <3>2. CASE FromCompleted(s) \/ LessCapacity(s)
      <4>1. /\ st[s] = "FromLower" \/ st[s] = "Supplementing"
            /\ Moves(s, "StartingOn", OnQueue)
        BY <3>2, RestartShape
      <4> QED BY <1>1, <4>1 DEF LinkOf
    <3> QED BY <1>2, <3>1, <3>2
  <2>2. EnterCycle(s, TRUE, <<>>)
    BY <1>2 DEF SwitchOn, FromCompleted, LessCapacity
  <2>3. st[s] = "Supplementing" => out[s]
    BY <1>1 DEF Match
  <2>4. OnQueue = <<"StartingOnExpired">> \/ \E e : OnQueue = <<e, "StartingOnExpired">>
    BY OnQueueIs
  <2>5. OnQueue[1] = "OnTimeExpired" => abort
    BY DEF OnQueue
  <2>6. /\ out'[s] = TRUE /\ startAge'[s] = 0 /\ cycle'.onAge = 0
        /\ queue'[s] \notin {<<"OnRequest">>, <<"NeedMoreCapacity">>, <<"ExcessCapacity">>}
        /\ ~abort'
        /\ \A r \in Stages \ {s} :
             /\ st'[r] = st[r] /\ out'[r] = out[r] /\ startAge'[r] = startAge[r]
             /\ queue'[r] = queue[r]
    BY <1>1, <2>1, <2>2, <2>4, EntersCycle
  <2>7. Begins(s)
    BY <2>1, <2>3, <2>5, <2>6 DEF Begins, Moves
  <2> QED BY <2>6, <2>7 DEF Effects
<1>3. ASSUME NEW check \in Check(s), TimeExpired(s, check) PROVE Effects(s)
  <2>1. queue[s] # <<>> /\ queue[s][1] = Event(s)
    BY DEF Runs, Event
  <2>2. CASE /\ IsOnCycle(s) /\ Event(s) = "OnTimeExpired"
             /\ EnterCycle(s, FALSE, check)
             /\ \E q : /\ Moves(s, "StartingOff", q)
                       /\ q = <<"StartingOffExpired">>
                          \/ \E e \in {"OnTimeExpired", "StartingOnExpired"} :
                               q = <<e, "StartingOffExpired">>
    <3>1. PICK q : /\ Moves(s, "StartingOff", q)
                   /\ q = <<"StartingOffExpired">>
                      \/ \E e \in {"OnTimeExpired", "StartingOnExpired"} :
                           q = <<e, "StartingOffExpired">>
      BY <2>2
    <3>2. q[1] # "OffTimeExpired"
      BY <3>1
    <3>3. q = <<"StartingOffExpired">> \/ \E e : q = <<e, "StartingOffExpired">>
      BY <3>1
    <3>4. /\ out'[s] = FALSE /\ startAge'[s] = 0 /\ cycle'.onAge = cycle.onAge
          /\ queue'[s] \notin {<<"OnRequest">>, <<"NeedMoreCapacity">>, <<"ExcessCapacity">>}
          /\ ~abort'
          /\ \A r \in Stages \ {s} :
               /\ st'[r] = st[r] /\ out'[r] = out[r] /\ startAge'[r] = startAge[r]
               /\ queue'[r] = queue[r]
      BY <1>1, <2>2, <3>1, <3>3, EntersCycle
    <3>5. Pauses(s)
      BY <2>1, <2>2, <3>1, <3>2, <3>4 DEF Pauses, Moves
    <3> QED BY <3>4, <3>5 DEF Effects
  <2>3. CASE /\ IsOffCycle(s) /\ Event(s) = "OffTimeExpired"
             /\ EnterCycle(s, TRUE, check)
             /\ \E q : /\ Moves(s, "StartingOn", q)
                       /\ q = <<"StartingOnExpired">>
                          \/ \E e \in {"OffTimeExpired", "StartingOffExpired"} :
                               q = <<e, "StartingOnExpired">>
    <3>1. PICK q : /\ Moves(s, "StartingOn", q)
                   /\ q = <<"StartingOnExpired">>
                      \/ \E e \in {"OffTimeExpired", "StartingOffExpired"} :
                           q = <<e, "StartingOnExpired">>
      BY <2>3
    <3>2. q[1] # "OnTimeExpired"
      BY <3>1
    <3>3. q = <<"StartingOnExpired">> \/ \E e : q = <<e, "StartingOnExpired">>
      BY <3>1
    <3>4. /\ out'[s] = TRUE /\ startAge'[s] = 0 /\ cycle'.onAge = 0
          /\ queue'[s] \notin {<<"OnRequest">>, <<"NeedMoreCapacity">>, <<"ExcessCapacity">>}
          /\ ~abort'
          /\ \A r \in Stages \ {s} :
               /\ st'[r] = st[r] /\ out'[r] = out[r] /\ startAge'[r] = startAge[r]
               /\ queue'[r] = queue[r]
      BY <1>1, <2>3, <3>1, <3>3, EntersCycle
    <3>5. Begins(s)
      BY <2>1, <2>3, <3>1, <3>2, <3>4 DEF Begins, Moves
    <3> QED BY <3>4, <3>5 DEF Effects
  <2> QED BY <1>3, <2>2, <2>3, TimeExpiredShape
<1> QED BY <1>2, <1>3

\* With the Args_T of this interval a time is over only when it is due.
LEMMA CheckDue ==
  ASSUME NEW s \in Stages, NEW check \in Check(s), args[s] = "this", check # <<>>
  PROVE  \/ st[s] = "OnTime" /\ Due(s, CalculateOnTime(s))
         \/ st[s] = "OffTime" /\ Due(s, CalculateOffTime(s))
BY DEF Check, Due

\* The effects of a step that drops its event
LEMMA IgnoredEffects ==
  ASSUME ShapeInv, NEW s \in Stages, Runs(s), NEW check \in Check(s), Ignored(s, check)
  PROVE  Effects(s)
<1>1. StageTypes /\ Served(s)
  BY TopOf DEF ShapeInv, Runs
<1>2. UNCHANGED <<st, out, startAge, cycle>> /\ abort' = AbortLeft(s, check)
  BY DEF Ignored
<1>3. /\ AbortLeft(s, check) => abort
      /\ check = <<>> \/ \E e \in Expired : check = <<e>>
      /\ check # <<"OnRequest">> /\ check # <<"NeedMoreCapacity">> /\ check # <<"ExcessCapacity">>
  BY <1>1, CheckLeaves DEF StageTypes
<1>4. \/ st[s] \in RestStates /\ Moves(s, st[s], check)
      \/ st[s] = "StartingOn" /\ Moves(s, st[s], <<"StartingOnExpired">>)
      \/ st[s] = "StartingOff" /\ Moves(s, st[s], <<"StartingOffExpired">>)
      \/ st[s] = "BackToLower" /\ Moves(s, st[s], <<"BackCompleted">>)
  BY IgnoredShape
<1>5. \A r \in Stages \ {s} : queue'[r] = queue[r]
  BY <1>4 DEF Moves, SameAs
<1>6. queue'[s] \notin {<<"OnRequest">>, <<"NeedMoreCapacity">>, <<"ExcessCapacity">>}
  BY <1>3, <1>4 DEF Moves
<1>7. ASSUME queue'[s] # <<>>
      PROVE  /\ IsOnCycle(s) /\ queue'[s][1] = "OnTimeExpired" => Due(s, CalculateOnTime(s))
             /\ IsOffCycle(s) /\ queue'[s][1] = "OffTimeExpired" => Due(s, CalculateOffTime(s))
  <2>1. CASE st[s] \in RestStates /\ Moves(s, st[s], check)
    <3>1. queue'[s] = check /\ check # <<>>
      BY <1>7, <2>1 DEF Moves
    <3>2. st[s] = "OnTime" \/ st[s] = "OffTime"
      BY <3>1, CheckIs
    <3>3. args[s] = "this"
      <4>1. queue[s] = <<"OffModeRequest">> => st[s] = "Off"
        BY IgnoredShape
      <4> QED BY <1>1, <3>2, <4>1 DEF Served
    <3> QED BY <3>1, <3>3, CheckDue DEF IsOnCycle, IsOffCycle
  <2>2. CASE \E e \in {"StartingOnExpired", "StartingOffExpired", "BackCompleted"} :
               queue'[s] = <<e>>
    BY <2>2
  <2> QED BY <1>4, <2>1, <2>2 DEF Moves
<1>8. Stays(s)
  BY <1>2, <1>7 DEF Stays, IsOnCycle, IsOffCycle
<1> QED BY <1>2, <1>3, <1>5, <1>6, <1>8 DEF Effects

\* The effects of the other steps
LEMMA OtherEffects ==
  ASSUME ShapeInv, ModeInv, NEW s \in Stages, Runs(s), ~SwitchingOff,
         \/ FromLower(s) \/ StartingExpired(s) \/ BackCompleted(s)
         \/ \E check \in Check(s) : ExcessCapacity(s, check) \/ NeedMoreCapacity(s, check)
  PROVE  Effects(s)
<1>1. InUse(s) /\ StageTypes /\ Match(s)
  BY InUseIs DEF ShapeInv, InUse
<1>2. ASSUME NEW check \in Check(s)
      PROVE  /\ AbortLeft(s, check) => abort
             /\ check # <<"OnRequest">> /\ check # <<"NeedMoreCapacity">>
             /\ check # <<"ExcessCapacity">>
  BY <1>1, CheckLeaves DEF StageTypes
<1>3. CASE FromLower(s)
  <2>1. Moves(s, "FromLower", <<"FromCompleted">>)
    BY <1>3, FromLowerShape
  <2>2. UNCHANGED <<out, startAge, cycle, abort>>
    BY <1>3 DEF FromLower, argVars
  <2>3. Passes(s)
    BY <2>1, <2>2 DEF Passes, Moves
  <2>4. queue'[s] \notin {<<"OnRequest">>, <<"NeedMoreCapacity">>, <<"ExcessCapacity">>}
    BY <2>1 DEF Moves
  <2> QED BY <2>1, <2>2, <2>3, <2>4 DEF Effects, Moves, SameAs
<1>4. CASE StartingExpired(s)
  <2>1. /\ StageOutput(s, IsOnCycle(s)) /\ IsOnCycle(s) \in BOOLEAN
        /\ UNCHANGED <<startAge, cycle, abort>>
    BY <1>4 DEF StartingExpired, IsOnCycle
  <2>2. out'[s] = IsOnCycle(s) /\ \A r \in Stages \ {s} : out'[r] = out[r]
    BY <1>1, <2>1, OutputTypes
  <2>3. \/ st[s] = "StartingOn" /\ Moves(s, "OnTime", <<>>)
        \/ st[s] = "StartingOff" /\ Moves(s, "OffTime", <<>>)
    BY <1>4, StartingExpiredShape
  <2>4. out[s] = IsOnCycle(s)
    BY <1>1, <2>3 DEF Match, IsOnCycle
  <2>5. queue'[s] = <<>>
    BY <2>3 DEF Moves
  <2>6. Stays(s)
    BY <2>1, <2>2, <2>3, <2>4, <2>5 DEF Stays, Moves, IsOnCycle, IsOffCycle
  <2>7. \A r \in Stages \ {s} : st'[r] = st[r] /\ queue'[r] = queue[r]
    BY <2>3 DEF Moves, SameAs
  <2> QED BY <2>1, <2>2, <2>5, <2>6, <2>7 DEF Effects
<1>5. CASE BackCompleted(s)
  <2>1. /\ st[s] = "BackToLower" /\ st'[s] = "Off" /\ queue'[s] = <<>>
        /\ st'[s - 1] = st[s - 1] /\ queue'[s - 1] = <<"LessCapacity">>
        /\ \A r \in Stages \ {s, s - 1} : SameAs(r)
    BY <1>5, BackCompletedShape
  <2>2. StageOutput(s, FALSE) /\ UNCHANGED <<startAge, cycle, abort>>
    BY <1>5 DEF BackCompleted
  <2>3. out'[s] = FALSE /\ \A r \in Stages \ {s} : out'[r] = out[r]
    BY <1>1, <2>2, OutputTypes
  <2>4. Stops(s)
    BY <2>1, <2>2, <2>3 DEF Stops
  <2>5. \A r \in Stages \ {s} : /\ st'[r] = st[r]
                                /\ queue'[r] = queue[r] \/ queue'[r] = <<"LessCapacity">>
    BY <2>1 DEF SameAs
  <2> QED BY <2>1, <2>2, <2>3, <2>4, <2>5 DEF Effects
<1>6. ASSUME NEW check \in Check(s), ExcessCapacity(s, check) PROVE Effects(s)
  <2>1. queue[s] = <<"ExcessCapacity">>
    BY <1>6, ExcessShape
  <2>2. UNCHANGED startAge /\ (abort' => abort)
    BY <1>2, <1>6 DEF ExcessCapacity
  <2>3. CASE /\ supplemented[s] /\ s >= 2
             /\ \E q : /\ Moves(s, "BackToLower", q)
                       /\ q = <<"BackCompleted">>
                          \/ \E e \in Expired : q = <<e, "BackCompleted">>
             /\ UNCHANGED <<out, fan, fanCut, systemOn, cycle>>
    <3>1. PICK q : /\ Moves(s, "BackToLower", q)
                   /\ q = <<"BackCompleted">> \/ \E e \in Expired : q = <<e, "BackCompleted">>
      BY <2>3
    <3>2. Stops(s)
      BY <2>1, <2>3, <3>1 DEF Stops, Moves
    <3>3. queue'[s] \notin {<<"OnRequest">>, <<"NeedMoreCapacity">>, <<"ExcessCapacity">>}
      BY <3>1 DEF Moves
    <3> QED BY <2>2, <2>3, <3>1, <3>2, <3>3 DEF Effects, Moves, SameAs
  <2>4. CASE /\ Moves(s, "Off", check) /\ StageOutput(s, FALSE)
             /\ cycle' = [cycle EXCEPT !.mode = "OFF"]
    <3>1. out'[s] = FALSE /\ \A r \in Stages \ {s} : out'[r] = out[r]
      BY <1>1, <2>4, OutputTypes
    <3>2. cycle'.onAge = cycle.onAge
      BY <1>1, <2>4 DEF StageTypes, Cycles
    <3>3. Stops(s)
      BY <2>1, <2>4, <3>1, <3>2 DEF Stops, Moves
    <3>4. queue'[s] \notin {<<"OnRequest">>, <<"NeedMoreCapacity">>, <<"ExcessCapacity">>}
      BY <1>2, <2>4 DEF Moves
    <3> QED BY <2>2, <2>4, <3>1, <3>3, <3>4 DEF Effects, Moves, SameAs
  <2> QED BY <1>6, <2>3, <2>4, ExcessShape
<1>7. ASSUME NEW check \in Check(s), NeedMoreCapacity(s, check) PROVE Effects(s)
  <2>1. /\ queue[s] = <<"NeedMoreCapacity">> /\ s \in Heats /\ s + 1 \in Heats
        /\ st'[s] = "Supplementing" /\ queue'[s] = check
        /\ st'[s + 1] = st[s + 1] /\ queue'[s + 1] = <<"OnRequest">>
        /\ \A r \in Stages \ {s, s + 1} : SameAs(r)
    BY <1>7, NeedMoreShape
  <2>2. StageOutput(s, TRUE) /\ UNCHANGED <<startAge, cycle>> /\ (abort' => abort)
    BY <1>2, <1>7 DEF NeedMoreCapacity
  <2>3. out'[s] = TRUE /\ \A r \in Stages \ {s} : out'[r] = out[r]
    BY <1>1, <2>2, OutputTypes
  <2>4. Supports(s)
    BY <2>1, <2>2, <2>3 DEF Supports
  <2>5. s + 1 >= 2
    BY <2>1, Constants
  <2>6. \A r \in Stages \ {s} :
          /\ st'[r] = st[r]
          /\ queue'[r] = queue[r] \/ (r >= 2 /\ queue'[r] = <<"OnRequest">>)
    BY <2>1, <2>5 DEF SameAs
  <2>7. queue'[s] \notin {<<"OnRequest">>, <<"NeedMoreCapacity">>, <<"ExcessCapacity">>}
    BY <1>2, <2>1
  <2> QED BY <2>2, <2>3, <2>4, <2>6, <2>7 DEF Effects
<1> QED BY <1>3, <1>4, <1>5, <1>6, <1>7

\* Every step of a stage is one of these.
LEMMA StageEffects ==
  ASSUME ShapeInv, ModeInv, NEW s \in Stages, ProcessEvent(s)
  PROVE  Effects(s)
<1>1. Runs(s)
  BY ProcessShape
<1>2. ASSUME NEW check \in Check(s), OffMode(s, check) PROVE Effects(s)
  <2>1. Moves(s, "Off", check)
    BY <1>1, <1>2, OffModeShape
  <2>2. /\ UNCHANGED <<out, cycle>> /\ abort' = AbortLeft(s, check)
        /\ startAge' = [startAge EXCEPT ![s] = MaxAge]
    BY <1>2 DEF OffMode
  <2>3. /\ AbortLeft(s, check) => abort
        /\ check # <<"OnRequest">> /\ check # <<"NeedMoreCapacity">>
        /\ check # <<"ExcessCapacity">>
    BY CheckLeaves DEF ShapeInv, StageTypes
  <2>4. \A r \in Stages \ {s} : startAge'[r] = startAge[r]
    BY <2>2 DEF ShapeInv, StageTypes
  <2>5. Passes(s)
    BY <2>1, <2>2 DEF Passes, Moves
  <2>6. queue'[s] \notin {<<"OnRequest">>, <<"NeedMoreCapacity">>, <<"ExcessCapacity">>}
    BY <2>1, <2>3 DEF Moves
  <2> QED BY <2>1, <2>2, <2>3, <2>4, <2>5, <2>6 DEF Effects, Moves, SameAs
<1>3. CASE SwitchingOff
  BY <1>1, <1>2, <1>3, OffOnly, IgnoredEffects
<1>4. CASE ~SwitchingOff
  BY <1>1, <1>2, <1>4, CycleEffects, OtherEffects, IgnoredEffects DEF ProcessEvent
<1> QED BY <1>3, <1>4

\* At first no relay is on.
LEMMA OnInit == Init => OnInv
<1> SUFFICES ASSUME Init PROVE OnInv
  OBVIOUS
<1>1. /\ pc = "IdtSelection" /\ calls = <<>> /\ relays = {}
      /\ \A s \in Stages : st[s] = "Off" /\ queue[s] = <<>> /\ out[s] = FALSE
  BY DEF Init
<1>2. ~abort
  BY Zenon DEF Init
<1>3. pc \in Starts
  BY <1>1 DEF Starts
<1>4. \A s \in Stages : OnOf(s)
  BY <1>1 DEF OnOf, Excused
<1>5. OnCalls
  BY <1>1 DEF OnCalls
<1> QED BY <1>1, <1>2, <1>3, <1>4, <1>5 DEF OnInv

\* No relay changes while a Control makes calls.
LEMMA RunsLater ==
  ASSUME ShapeInv, ModeInv, NEW s \in Stages, queue[s] # <<>> \/ calls # <<>>,
         stack # <<>> \/ calls # <<>>
  PROVE  pc \notin Starts
<1>1. UnitAt \in Units
  BY WhereRuns
<1> QED BY <1>1 DEF UnitAt, Units, Starts

\* OnInv is kept by the stages.
LEMMA ProcessOn ==
  ASSUME ShapeInv, ModeInv, OnInv, NEW s \in Stages, ProcessEvent(s)
  PROVE  OnInv'
<1>1. Effects(s) /\ queue[s] # <<>> /\ stack # <<>> /\ PointTypes /\ StageTypes
  BY StageEffects DEF ProcessEvent, ShapeInv
<1>2. UNCHANGED <<pointVars, memberVars, pc, calls, history>>
  BY DEF ProcessEvent
<1>3. UNCHANGED <<relays, modeChanged, onFor, excuses>>
  BY <1>2 DEF pointVars, history
<1>4. pc \notin Starts /\ Unit' = Unit /\ (Fresh' <=> Fresh)
  BY <1>1, <1>2, RunsLater, PlaceKept
<1>5. \A r \in Stages : Excused(r)' <=> Excused(r)
  BY <1>3 DEF Excused
<1>6. OnOf(s)
  BY DEF OnInv
<1>7. abort => Excused(s)
  BY DEF OnInv, Excused
<1>8. OnOf(s)'
  <2>0. /\ onFor[s] \in 0..MinOn /\ startAge[s] \in 0..MaxAge /\ cycle.onAge \in 0..MinOn
        /\ MinOn \in Nat /\ MaxAge \in Nat
    BY <1>1, Constants DEF PointTypes, StageTypes, Cycles
  <2>1. queue'[s] # <<"ExcessCapacity">>
    BY <1>1 DEF Effects
  <2>2. CASE Begins(s)
    BY <1>3, <1>5, <1>7, <2>0, <2>1, <2>2 DEF Begins, OnOf
  <2>3. CASE Pauses(s)
    <3>1. Excused(s)
      BY <1>6, <2>3 DEF Pauses, OnOf, IsOnCycle
    <3> QED BY <1>5, <2>1, <2>3, <3>1 DEF Pauses, OnOf
  <2>4. CASE Stops(s)
    <3>1. Excused(s)
      BY <1>6, <2>4 DEF Stops, OnOf
    <3> QED BY <1>5, <2>1, <2>4, <3>1 DEF Stops, OnOf
  <2>5. CASE Supports(s)
    BY <2>1, <2>5 DEF Supports, OnOf
  <2>6. CASE Passes(s)
    BY <1>5, <1>6, <2>1, <2>6 DEF Passes, OnOf
  <2>7. CASE Stays(s)
    <3>1. IsOnCycle(s) /\ Due(s, CalculateOnTime(s)) => Excused(s)
      <4>1. /\ CalculateOnTime(s) \in Int /\ CalculateOnTime(s) >= LeastOn
            /\ LeastOn \in Nat /\ LeastOn <= MinOn
        BY <1>1, LongEnough
      <4>2. IsOnCycle(s) => startAge[s] <= onFor[s] \/ onFor[s] >= MinOn
        BY <1>6 DEF OnOf, IsOnCycle
      <4>3. IsOnCycle(s) /\ startAge[s] >= CalculateOnTime(s) => onFor[s] >= LeastOn
        BY <2>0, <4>1, <4>2
      <4> QED BY <1>7, <4>3 DEF Due, Excused
    <3>2. ~out'[s] \/ st'[s] = "BackToLower" => Excused(s)
      BY <1>6, <2>7 DEF Stays, OnOf
    <3>3. st'[s] \in {"StartingOn", "OnTime"} =>
            /\ cycle'.onAge <= onFor[s]
            /\ startAge'[s] <= onFor[s] \/ onFor[s] >= MinOn
            /\ queue'[s] # <<>> /\ queue'[s][1] = "OnTimeExpired" => Excused(s)
      BY <1>6, <2>7, <3>1 DEF Stays, OnOf, IsOnCycle
    <3> QED BY <1>3, <1>5, <2>1, <3>2, <3>3 DEF OnOf
  <2> QED BY <1>1, <2>2, <2>3, <2>4, <2>5, <2>6, <2>7 DEF Effects
<1>9. ASSUME NEW r \in Stages \ {s} PROVE OnOf(r)'
  <2>1. OnOf(r)
    BY DEF OnInv
  <2>2. /\ st'[r] = st[r] /\ out'[r] = out[r] /\ startAge'[r] = startAge[r]
        /\ queue'[r] = queue[r] \/ queue'[r] = <<"LessCapacity">> \/ queue'[r] = <<"OnRequest">>
    BY <1>1 DEF Effects
  <2>3. \A e : queue'[r] = <<e>> => queue'[r][1] = e
    OBVIOUS
  <2>4. cycle'.onAge = cycle.onAge \/ cycle'.onAge = 0
    BY <1>1 DEF Effects, Begins, Pauses, Stops, Supports, Passes, Stays
  <2>5. onFor[r] \in Nat
    BY <1>1, Constants DEF PointTypes
  <2>6. cycle.onAge <= onFor[r] => cycle'.onAge <= onFor[r]
    BY <2>4, <2>5
  <2> QED BY <1>3, <1>5, <2>1, <2>2, <2>3, <2>6 DEF OnOf
<1>10. OnCalls'
  <2>1. calls' = calls /\ OnCalls /\ calls \in Seq(CallSet)
    BY <1>1, <1>2 DEF OnInv, PointTypes
  <2>2. \A i \in 1..Len(calls) : calls[i].stage \in Stages
    BY <2>1 DEF CallSet
  <2> QED BY <1>5, <2>1, <2>2 DEF OnCalls
<1>11. abort' => "abort" \in excuses'
  BY <1>1, <1>3 DEF Effects, OnInv
<1> QED BY <1>2, <1>3, <1>4, <1>8, <1>9, <1>10, <1>11 DEF OnInv

\* A call of the equipment, and the return from it
LEMMA CallOn ==
  ASSUME ShapeInv, ModeInv, OnInv, Call \/ EventsProcessed
  PROVE  OnInv'
<1>1. /\ UNCHANGED <<st, startAge, out, cycle, abort, relays, modeChanged, config, seen, pc,
                     onFor, excuses>>
  BY DEF Call, EventsProcessed, stageVars, argVars, pointVars, memberVars, history
<1>2. Unit' = Unit /\ (Fresh' <=> Fresh)
  BY <1>1, SamePlace
<1>3. \A r \in Stages : Excused(r)' <=> Excused(r)
  BY <1>1 DEF Excused
<1>4. calls \in Seq(CallSet) /\ OnCalls /\ \A i \in 1..Len(calls) : calls[i].stage \in Stages
  BY DEF ShapeInv, PointTypes, OnInv, CallSet
<1>5. CASE EventsProcessed
  <2>1. queue' = queue /\ calls' = calls
    BY <1>5 DEF EventsProcessed, stageVars
  <2>2. \A r \in Stages : OnOf(r)'
    BY <1>1, <1>3, <2>1 DEF OnInv, OnOf
  <2>3. OnCalls'
    BY <1>3, <1>4, <2>1 DEF OnCalls
  <2> QED BY <1>1, <1>2, <2>2, <2>3 DEF OnInv
<1>6. CASE Call
  <2>1. PICK c \in CallSet :
          /\ c = calls[1] /\ Len(calls) \in Nat \ {0}
          /\ calls' = Tail(calls)
          /\ queue'[c.stage] = <<c.ev>>
          /\ \A r \in Stages \ {c.stage} : SameAs(r)
    BY <1>6, CallShape
  <2>2. c.stage \in Stages /\ c.ev \in Requests
    BY DEF CallSet
  <2>3. c.ev = "ExcessCapacity" => Excused(c.stage)
    <3>1. 1 \in 1..Len(calls)
      BY <2>1
    <3> QED BY <1>4, <2>1, <3>1 DEF OnCalls
  <2>4. OnOf(c.stage)'
    <3>1. queue'[c.stage][1] = c.ev /\ c.ev # "OnTimeExpired"
      BY <2>1, <2>2 DEF Requests
    <3>2. queue'[c.stage] = <<"ExcessCapacity">> => Excused(c.stage)
      BY <2>1, <2>3
    <3>3. OnOf(c.stage)
      BY <2>2 DEF OnInv
    <3> QED BY <1>1, <1>3, <2>2, <3>1, <3>2, <3>3 DEF OnOf
  <2>5. ASSUME NEW r \in Stages \ {c.stage} PROVE OnOf(r)'
    <3>1. OnOf(r) /\ queue'[r] = queue[r]
      BY <2>1 DEF OnInv, SameAs
    <3> QED BY <1>1, <1>3, <3>1 DEF OnOf
  <2>6. OnCalls'
    <3>1. /\ Len(calls') = Len(calls) - 1
          /\ \A i \in 1..Len(calls') : calls'[i] = calls[i + 1] /\ i + 1 \in 1..Len(calls)
      BY <1>4, <2>1
    <3> QED BY <1>3, <1>4, <3>1 DEF OnCalls
  <2> QED BY <1>1, <1>2, <2>4, <2>5, <2>6 DEF OnInv
<1> QED BY <1>5, <1>6

\* While nobody runs, a component that leaves the stages, their times and the
\* relays alone only has to give a reason for the outputs it switches off.
LEMMA QuietOn ==
  ASSUME ShapeInv, ModeInv, OnInv, stack = <<>>, calls = <<>>,
         UNCHANGED <<st, queue, startAge, relays, onFor>>, cycle'.onAge = cycle.onAge,
         excuses \subseteq excuses',
         \A s \in Stages : ~out'[s] => ~out[s] \/ relays = {} \/ excuses # {}
  PROVE  \A s \in Stages : OnOf(s)'
<1> SUFFICES ASSUME NEW s \in Stages PROVE OnOf(s)'
  OBVIOUS
<1>1. OnOf(s) /\ queue[s] = <<>>
  BY Quiet DEF OnInv
<1>2. Excused(s) => Excused(s)'
  BY DEF Excused
<1>3. relays = {} \/ excuses # {} => Excused(s)
  BY DEF Excused
<1>4. queue'[s] # <<"ExcessCapacity">> /\ ~(queue'[s] # <<>>)
  BY <1>1
<1>5. ~out'[s] \/ st'[s] = "BackToLower" => Excused(s)
  BY <1>1, <1>3 DEF OnOf
<1>6. st'[s] \in {"StartingOn", "OnTime"} =>
        /\ cycle'.onAge <= onFor'[s]
        /\ startAge'[s] <= onFor'[s] \/ onFor'[s] >= MinOn
  BY <1>1 DEF OnOf
<1> QED BY <1>2, <1>4, <1>5, <1>6 DEF OnOf

\* The components before the Controls, and FanControl
LEMMA FirstOn ==
  ASSUME ShapeInv, ModeInv, OnInv,
         \/ \E bad \in BOOLEAN : IdtSelection(bad)
         \/ \E pv \in PvValues : Pi(pv)
         \/ \E valid \in BOOLEAN : FanControl(valid)
  PROVE  OnInv'
<1>1. /\ UNCHANGED <<st, queue, startAge, out, cycle, abort, config, modeChanged, relays, seen,
                     onFor, excuses>>
      /\ stack = <<>> /\ calls = <<>> /\ calls' = <<>>
      /\ pc \in Starts <=> pc' \in Starts
  BY DEF IdtSelection, Pi, FanControl, At, stageVars, argVars, pointVars, memberVars, history,
     Starts
<1>2. Unit' = Unit /\ (Fresh' <=> Fresh)
  BY <1>1 DEF Unit, Fresh
<1>3. \A s \in Stages : OnOf(s)'
  BY <1>1, QuietOn
<1>4. OnCalls'
  BY <1>1 DEF OnCalls
<1> QED BY <1>1, <1>2, <1>3, <1>4 DEF OnInv

\* A new configuration is a reason to switch off; without one nothing is on
\* that the Controls would switch off.
LEMMA OperatingModeOn ==
  ASSUME ShapeInv, ModeInv, OnInv, NEW userMode, NEW equip \in Equipments,
         NEW bad \in BOOLEAN, NEW warm \in BOOLEAN, OperatingMode(userMode, equip, bad, warm)
  PROVE  OnInv'
<1>1. /\ UNCHANGED <<st, queue, startAge, out, cycle, abort, relays, onFor>>
      /\ stack = <<>> /\ calls = <<>> /\ calls' = <<>>
      /\ pc = "OperatingMode" /\ pc' = "Pi"
  BY DEF OperatingMode, At, stageVars, argVars
<1>2. \/ config' = config /\ seen' = seen /\ modeChanged' = FALSE
      \/ excuses' = {"config"}
  <2>1. CASE KeepOperatingMode
    BY <2>1 DEF KeepOperatingMode
  <2>2. ASSUME NEW mode \in {"OFF", "COOLING", "ID_HEATING"},
               mode = "COOLING" => equip.cool > 0, mode = "ID_HEATING" => equip.heat > 0,
               SetNewOperatingMode(mode, equip)
        PROVE  \/ config' = config /\ seen' = seen /\ modeChanged' = FALSE
               \/ excuses' = {"config"}
    BY <2>2, ModeConfig DEF ShapeInv
  <2> QED BY <2>1, <2>2, ModeCases
<1>3. pc \in Starts /\ pc' \notin Starts
  BY <1>1 DEF Starts
<1>4. relays = {s \in Stages : out[s]} /\ ~abort
  BY <1>3 DEF OnInv
<1>5. \A s \in Stages : ~out[s] => Excused(s)'
  BY <1>1, <1>4 DEF Excused
<1>6. ASSUME NEW s \in Stages PROVE OnOf(s)'
  <2>1. OnOf(s) /\ queue[s] = <<>> /\ st[s] # "BackToLower"
    <3>1. \A r \in Stages : stack # <<r>>
      BY <1>1
    <3>2. \A r, low \in Stages : stack # <<r, low>>
      BY <1>1
    <3>3. Settled(s)
      BY <3>1, <3>2 DEF ShapeInv, StackInv, NoOtherThan, Alone, Above
    <3> QED BY <3>3 DEF OnInv, Settled, RestStates
  <2>2. queue'[s] # <<"ExcessCapacity">> /\ ~(queue'[s] # <<>>)
    BY <1>1, <2>1
  <2>3. ~out'[s] \/ st'[s] = "BackToLower" => Excused(s)'
    BY <1>1, <1>5, <2>1
  <2>4. st'[s] \in {"StartingOn", "OnTime"} =>
          /\ cycle'.onAge <= onFor'[s]
          /\ startAge'[s] <= onFor'[s] \/ onFor'[s] >= MinOn
    BY <1>1, <2>1 DEF OnOf
  <2> QED BY <2>2, <2>3, <2>4 DEF OnOf
<1>7. modeChanged' \/ ~Fresh' \/ Unit' = "off" => relays' = {} \/ excuses' # {}
  <2> SUFFICES ASSUME config' = config, seen' = seen, ~modeChanged',
                      ~Fresh' \/ Unit' = "off"
               PROVE  relays' = {}
    BY <1>2
  <2>1. ~Fresh \/ Unit = "off"
    BY DEF Fresh, Unit
  <2>2. CASE ~Fresh
    BY <1>1, <1>3, <1>4, <2>2 DEF ModeInv, PlaceInv, Blank
  <2>3. CASE Fresh /\ Unit = "off"
    BY <1>1, <1>4, <2>3, Separate DEF ModeInv, OthersInv
  <2> QED BY <2>1, <2>2, <2>3
<1>8. OnCalls'
  BY <1>1 DEF OnCalls
<1> QED BY <1>1, <1>3, <1>4, <1>6, <1>7, <1>8 DEF OnInv

\* Controls that make no calls but to switch stages off
LEMMA ControlOffOn ==
  ASSUME ShapeInv, ModeInv, OnInv, NEW c \in {"cool", "heat", "off"},
         ControlIdle(c) \/ ControlOff(c) \/ ControlReset(c)
  PROVE  OnInv'
<1>1. /\ UNCHANGED <<st, queue, startAge, abort, config, modeChanged, relays, onFor, excuses>>
      /\ stack = <<>> /\ calls = <<>> /\ pc = c
      /\ pc' \in {After(c), Ready(c)}
      /\ calls' = <<>> \/ calls' = ToEach("OffModeRequest", Ordered(c))
      /\ seen' = seen \/ seen' = seen \cup {c}
  BY DEF ControlIdle, ControlOff, ControlReset, At, stageVars, argVars, pointVars, memberVars,
     history
<1>2. pc \notin Starts /\ pc' \notin Starts
  BY <1>1, ControlPoints DEF Starts
<1>3. Unit' = Unit /\ (Fresh => Fresh')
  BY <1>1 DEF Unit, Fresh
<1>4. cycle'.onAge = cycle.onAge
  <2>1. cycle' = cycle \/ cycle' = [cycle EXCEPT !.mode = "OFF"]
    BY DEF ControlIdle, ControlOff, ControlReset, argVars
  <2> QED BY <2>1 DEF ShapeInv, StageTypes, Cycles
<1>5. \A s \in Stages : ~out'[s] => ~out[s] \/ relays = {} \/ excuses # {}
  <2>1. CASE ControlIdle(c) \/ ControlOff(c)
    BY <2>1 DEF ControlIdle, ControlOff, argVars
  <2>2. CASE ControlReset(c)
    <3>1. Unit = c /\ (c \notin seen \/ modeChanged)
      BY <2>2, UnitValues DEF ControlReset, ShapeInv
    <3>2. relays = {} \/ excuses # {}
      BY <1>2, <3>1 DEF OnInv, Fresh
    <3> QED BY <3>2
  <2> QED BY <2>1, <2>2
<1>6. \A s \in Stages : OnOf(s)'
  BY <1>1, <1>4, <1>5, QuietOn
<1>7. OnCalls'
  <2>1. CASE calls' = <<>>
    BY <2>1 DEF OnCalls
  <2>2. CASE calls' = ToEach("OffModeRequest", Ordered(c))
    <3>1. \A i \in 1..Len(calls') : calls'[i].ev = "OffModeRequest"
      BY <2>2, OffCalls
    <3> QED BY <3>1 DEF OnCalls
  <2> QED BY <1>1, <2>1, <2>2
<1> QED BY <1>1, <1>2, <1>3, <1>6, <1>7 DEF OnInv

\* The stages of equipment that runs, before it makes its calls
LEMMA ActiveStages ==
  ASSUME ShapeInv, ModeInv, NEW c \in {"cool", "heat", "off"}, NEW a, NEW d \in BOOLEAN,
         ControlActive(c, a, d), NEW s \in StagesOf(c)
  PROVE  /\ s \in Stages /\ st[s] \in RestStates /\ queue[s] = <<>>
         /\ IsActive(s) => Match(s)
<1>1. /\ Unit = c /\ Fresh /\ stack = <<>> /\ calls = <<>> /\ pc \in {c, Ready(c)}
  BY ActiveUnit
<1>2. s \in Stages
  BY Separate
<1>3. Settled(s)
  <2>1. \A r \in Stages : stack # <<r>>
    BY <1>1
  <2>2. \A r, low \in Stages : stack # <<r, low>>
    BY <1>1
  <2> QED BY <1>2, <2>1, <2>2 DEF ShapeInv, StackInv, NoOtherThan, Alone, Above
<1>4. IsActive(s) => Match(s)
  <2>1. CASE ~Resetting
    BY <1>1, <2>1 DEF ModeInv, WorkInv
  <2>2. CASE Resetting
    <3>1. c # "off"
      BY Separate
    <3>2. UnitAt = c
      BY <1>1, <2>2, <3>1, ControlPoints DEF UnitAt, Resetting
    <3>3. st[s] = "Off"
      BY <1>1, <2>2, <3>1, <3>2, Quiet, Separate DEF SwitchingOff
    <3> QED BY <3>3 DEF IsActive, Cycling
  <2> QED BY <2>1, <2>2
<1> QED BY <1>2, <1>3, <1>4 DEF Settled

\* Equipment that runs switches a stage off only after its time.
LEMMA ActiveOn ==
  ASSUME ShapeInv, ModeInv, OnInv, NEW c \in {"cool", "heat", "off"},
         NEW a \in {FALSE, Aborts}, NEW d \in BOOLEAN,
         ControlActive(c, a, d)
  PROVE  OnInv'
<1>1. /\ Unit = c /\ Fresh /\ stack = <<>> /\ calls = <<>> /\ pc \in {c, Ready(c)}
  BY ActiveUnit
<1>2. /\ UNCHANGED <<st, queue, startAge, config, modeChanged, relays, seen, onFor>>
      /\ pc' = After(c) /\ abort' = (a /\ c # "off")
      /\ excuses' = excuses \cup IF a THEN {"abort"} ELSE {}
  BY DEF ControlActive, stageVars, pointVars, memberVars
<1>3. pc \notin Starts /\ pc' \notin Starts
  BY <1>1, <1>2, ControlPoints DEF Starts
<1>4. Unit' = Unit /\ (Fresh' <=> Fresh)
  BY <1>2 DEF Unit, Fresh
<1>5. excuses \subseteq excuses' /\ (abort' => "abort" \in excuses')
  BY <1>2
<1>6. cycle'.onAge = cycle.onAge
  <2>1. cycle' = cycle \/ cycle' = [cycle EXCEPT !.mode = "OFF"]
    BY DEF ControlActive
  <2> QED BY <2>1 DEF ShapeInv, StageTypes, Cycles
<1>7. \A s \in Stages : ~out'[s] => ~out[s] \/ relays = {} \/ excuses # {}
  <2>1. CASE c = "off"
    BY <1>1, <1>3, <2>1 DEF OnInv
  <2>2. CASE c # "off"
    BY <2>2 DEF ControlActive
  <2> QED BY <2>1, <2>2
<1>8. \A s \in Stages : OnOf(s)'
  BY <1>1, <1>2, <1>5, <1>6, <1>7, QuietOn
<1>9. OnCalls'
  <2>1. CASE c = "off"
    <3>1. calls' = <<>>
      BY <2>1 DEF ControlActive
    <3> QED BY <3>1 DEF OnCalls
  <2>2. CASE c # "off"
    <3>1. \A i \in 1..Len(calls') : CallOk(c, d, calls'[i], i)
      <4>1. c \in Units
        BY <2>2 DEF Units
      <4> QED BY <4>1, ActiveCallsOk DEF CallsOk
    <3>2. ASSUME NEW i \in 1..Len(calls'), calls'[i].ev = "ExcessCapacity",
                 NEW s \in StagesOf(c), s = calls'[i].stage
          PROVE  s \in relays => onFor[s] >= LeastOn \/ excuses' # {}
      <4>1. IsOffCycle(s) \/ (IsActive(s) /\ cycle.onAge >= MinOn)
        BY <3>1, <3>2 DEF CallOk
      <4>2. IsOffCycle(s) => IsActive(s)
        BY DEF IsActive, IsOffCycle, Cycling
      <4>3. s \in Stages /\ st[s] \in RestStates /\ Match(s) /\ OnOf(s)
        BY <4>1, <4>2, ActiveStages DEF OnInv
      <4>4. st[s] \in {"OnTime", "OffTime"}
        BY <4>1, <4>2, <4>3 DEF IsActive, Cycling, RestStates
      <4>5. CASE st[s] = "OffTime"
        <5>1. ~out[s]
          BY <4>3, <4>5 DEF Match
        <5>2. Excused(s)
          BY <4>3, <5>1 DEF OnOf
        <5> QED BY <1>5, <5>2 DEF Excused
      <4>6. CASE st[s] = "OnTime"
        <5>1. cycle.onAge >= MinOn
          BY <4>1, <4>6 DEF IsOffCycle
        <5>2. cycle.onAge <= onFor[s]
          BY <4>3, <4>6 DEF OnOf
        <5>3. cycle.onAge \in 0..MinOn /\ onFor[s] \in 0..MinOn /\ MinOn \in Nat
          BY <4>3, Constants DEF ShapeInv, StageTypes, PointTypes, Cycles
        <5>4. LeastOn \in Nat /\ LeastOn <= MinOn
          BY <4>3, LongEnough DEF ShapeInv
        <5> QED BY <5>1, <5>2, <5>3, <5>4
      <4> QED BY <4>4, <4>5, <4>6
    <3>3. \A i \in 1..Len(calls') : calls'[i].stage \in StagesOf(c)
      BY <3>1 DEF CallOk
    <3>4. \A i \in 1..Len(calls') : calls'[i].ev = "ExcessCapacity" =>
            (calls'[i].stage \in relays => onFor[calls'[i].stage] >= LeastOn \/ excuses' # {})
      BY <3>2, <3>3
    <3> QED BY <1>2, <3>4 DEF OnCalls, Excused, LeastOn
  <2> QED BY <2>1, <2>2
<1> QED BY <1>2, <1>3, <1>4, <1>5, <1>8, <1>9, <1>1 DEF OnInv

\* The relays that are on are those of the outputs.
LEMMA RelaysAre ==
  ASSUME ShapeInv, ModeInv, Relays
  PROVE  relays' = {s \in Stages : out[s]}
<1>1. At("Relays") /\ relays' = RelayOutputs
  BY DEF Relays
<1>2. CASE refCnt > 0
  <2>1. Unit = "off"
    BY <1>1, <1>2 DEF At, ModeInv, PlaceInv, Starts
  <2>2. \A s \in Stages : ~out[s]
    BY <1>1, <2>1, WhenDone, Separate
  <2> QED BY <1>1, <1>2, <2>2 DEF RelayOutputs
<1>3. CASE ~(refCnt > 0)
  BY <1>1, <1>3 DEF RelayOutputs
<1> QED BY <1>2, <1>3

\* The relays that are on, and for how long
LEMMA RelaysOn ==
  ASSUME ShapeInv, ModeInv, OnInv, Relays
  PROVE  OnInv'
<1>1. /\ UNCHANGED <<st, queue, out, calls, excuses>> /\ At("Relays")
      /\ relays' = RelayOutputs /\ pc' = "IdtSelection" /\ abort' = FALSE
      /\ cycle' = [cycle EXCEPT !.onAge = Older(@, MinOn)]
  BY DEF Relays
<1>2. relays' = {s \in Stages : out[s]}
  BY RelaysAre
<1>3. pc' \in Starts
  BY <1>1 DEF Starts
<1>4. ASSUME NEW s \in Stages PROVE OnOf(s)'
  <2>1. /\ OnOf(s) /\ queue[s] = <<>> /\ st[s] \in RestStates
        /\ out[s] = (st[s] \in {"OnTime", "Supplementing"})
    BY <1>1, WhenDone, OutputsHold DEF OnInv, OutputsMatch
  <2>2. queue'[s] # <<"ExcessCapacity">> /\ ~(queue'[s] # <<>>)
    BY <1>1, <2>1
  <2>3. ~out'[s] \/ st'[s] = "BackToLower" => Excused(s)'
    <3>1. ~out[s] => s \notin relays'
      BY <1>2
    <3>2. st[s] # "BackToLower"
      BY <2>1 DEF RestStates
    <3> QED BY <1>1, <3>1, <3>2 DEF Excused
  <2>4. ASSUME st[s] = "OnTime"
        PROVE  /\ cycle'.onAge <= onFor'[s]
               /\ startAge'[s] <= onFor'[s] \/ onFor'[s] >= MinOn
    <3>1. s \in RelayOutputs /\ Cycling(s)
      BY <1>1, <1>2, <2>1, <2>4 DEF Cycling
    <3>2. onFor'[s] = Older(onFor[s], MinOn) /\ startAge'[s] = Older(startAge[s], MaxAge)
      BY <3>1 DEF Relays
    <3>3. cycle'.onAge = Older(cycle.onAge, MinOn)
      BY <1>1 DEF ShapeInv, StageTypes, Cycles
    <3>4. /\ onFor[s] \in 0..MinOn /\ startAge[s] \in 0..MaxAge /\ cycle.onAge \in 0..MinOn
          /\ MinOn \in Nat /\ MaxAge \in Nat
      BY Constants DEF ShapeInv, PointTypes, StageTypes, Cycles
    <3>5. Older(onFor[s], MinOn) = IF onFor[s] < MinOn THEN onFor[s] + 1 ELSE MinOn
      BY <3>4, OlderIn
    <3>6. Older(cycle.onAge, MinOn) = IF cycle.onAge < MinOn THEN cycle.onAge + 1 ELSE MinOn
      BY <3>4, OlderIn
    <3>7. Older(startAge[s], MaxAge) = IF startAge[s] < MaxAge THEN startAge[s] + 1 ELSE MaxAge
      BY <3>4, OlderIn
    <3>8. /\ cycle.onAge <= onFor[s]
          /\ startAge[s] <= onFor[s] \/ onFor[s] >= MinOn
      BY <2>1, <2>4 DEF OnOf
    <3>9. cycle'.onAge <= onFor'[s]
      BY <3>2, <3>3, <3>4, <3>5, <3>6, <3>8
    <3>10. startAge'[s] <= onFor'[s] \/ onFor'[s] >= MinOn
      BY <3>2, <3>4, <3>5, <3>7, <3>8
    <3> QED BY <3>9, <3>10
  <2>5. st'[s] \in {"StartingOn", "OnTime"} => st[s] = "OnTime"
    BY <1>1, <2>1 DEF RestStates
  <2> QED BY <2>2, <2>3, <2>4, <2>5 DEF OnOf
<1>5. OnCalls'
  BY <1>1 DEF OnCalls, At
<1> QED BY <1>1, <1>2, <1>3, <1>4, <1>5 DEF OnInv

\* OnInv is inductive.
LEMMA OnStep == ShapeInv /\ ModeInv /\ OnInv /\ [Next]_vars => OnInv'
<1> SUFFICES ASSUME ShapeInv, ModeInv, OnInv, [Next]_vars PROVE OnInv'
  OBVIOUS
<1>1. ASSUME UNCHANGED vars PROVE OnInv'
  <2>1. UNCHANGED <<st, queue, startAge, out, cycle, abort, config, modeChanged, relays, seen,
                    pc, calls, onFor, excuses>>
    BY <1>1 DEF vars, stageVars, argVars, pointVars, memberVars, threadVars, history
  <2>2. Unit' = Unit /\ (Fresh' <=> Fresh)
    BY <2>1, SamePlace
  <2>3. \A s \in Stages : OnOf(s)'
    BY <2>1 DEF OnInv, OnOf, Excused
  <2>4. OnCalls'
    BY <2>1 DEF OnInv, OnCalls, Excused
  <2> QED BY <2>1, <2>2, <2>3, <2>4 DEF OnInv
<1> QED
  BY <1>1, FirstOn, OperatingModeOn, ControlOffOn, ActiveOn, CallOn, ProcessOn, RelaysOn
  DEF Next

\* A relay that goes off has been on long enough, or there is a reason.
LEMMA OnLongEnough ==
  ASSUME ShapeInv, ModeInv, OnInv, [Next]_vars
  PROVE  \A s \in relays \ relays' : onFor[s] >= Min({MinOn, 2 * K}) \/ excuses # {}
<1>1. CASE Relays
  <2> SUFFICES ASSUME NEW s \in relays, s \notin RelayOutputs
               PROVE  onFor[s] >= Min({MinOn, 2 * K}) \/ excuses # {}
    BY <1>1 DEF Relays
  <2>1. s \in Stages
    BY DEF ShapeInv, PointTypes
  <2>2. CASE refCnt > 0
    <3>1. pc \notin Starts
      BY <1>1 DEF Relays, At, Starts
    <3>2. Unit = "off"
      BY <2>2, <3>1 DEF ModeInv, PlaceInv
    <3> QED BY <3>1, <3>2 DEF OnInv
  <2>3. CASE ~out[s]
    BY <2>1, <2>3 DEF OnInv, OnOf, Excused, LeastOn
  <2> QED BY <2>1, <2>2, <2>3 DEF RelayOutputs
<1>2. CASE ~Relays
  <2>1. relays' = relays
    BY <1>2 DEF Next, IdtSelection, OperatingMode, Pi, ControlIdle, ControlOff, ControlReset,
       ControlActive, Call, ProcessEvent, EventsProcessed, FanControl, vars, pointVars
  <2> QED BY <2>1
<1> QED BY <1>1, <1>2

\* A stage that is switched off has been on for its minimum on time, for any
\* times and any load, unless the configuration or the mode has changed or the
\* cycle was aborted.
THEOREM MinOnTimeAlways == Spec => MinOnTime
<1> QED
  BY ShapeInit, ShapeStep, ModeInit, ModeStep, OnInit, OnStep, OnLongEnough, PTL
  DEF Spec, MinOnTime

-----------------------------------------------------------------------------
(* The minimum off time *)

\* Neither a unit nor a cycle rests for less.
LEMMA LeastOffIs ==
  /\ LeastOff \in Int /\ LeastOff <= MinUnitOff /\ LeastOff <= Min({MinOff, 2 * K})
<1>1. MinOff \in Int /\ 2 * K \in Int /\ MinUnitOff \in Int
  BY Constants
<1>2. PICK m : m = Min({MinOff, 2 * K})
  OBVIOUS
<1>3. m \in Int
  BY <1>1, <1>2, PairMinMax
<1>4. Min({MinUnitOff, m}) = IF MinUnitOff <= m THEN MinUnitOff ELSE m
  BY <1>1, <1>3, PairMinMax
<1> QED BY <1>1, <1>2, <1>3, <1>4 DEF LeastOff

\* The first stages, and the numbers they are compared with
LEMMA FirstStages ==
  /\ 0..1 \subseteq Stages
  /\ \A s \in 0..1 : FirstUnit(s) \in Units
  /\ FirstUnit(0) = "cool" /\ FirstUnit(1) = "heat"
  /\ \A s \in Stages : s >= 2 => s \notin 0..1
<1>1. 0..1 \subseteq Stages
  BY Constants
<1>2. FirstUnit(0) = "cool" /\ FirstUnit(1) = "heat"
  BY DEF FirstUnit
<1>3. \A s \in 0..1 : FirstUnit(s) \in Units
  BY DEF FirstUnit, Units
<1> QED BY <1>1, <1>2, <1>3

\* At first no output is on.
LEMMA OffInit == Init => OffInv
<1> SUFFICES ASSUME Init PROVE OffInv
  OBVIOUS
<1>1. /\ calls = <<>>
      /\ \A s \in Stages : st[s] = "Off" /\ queue[s] = <<>> /\ out[s] = FALSE
  BY DEF Init
<1>2. ASSUME NEW s \in 0..1 PROVE OffOf(s)
  <2>1. s \in Stages
    BY FirstStages
  <2>2. st[s] = "Off" /\ queue[s] = <<>> /\ ~out[s]
    BY <1>1, <2>1
  <2>3. ~IsOffCycle(s)
    BY <2>2 DEF IsOffCycle
  <2>4. queue[s] # <<"OnRequest">> /\ queue[s] # <<"NeedMoreCapacity">>
    BY <2>2
  <2> QED BY <2>2, <2>3, <2>4 DEF OffOf
<1>3. OffCallsInv
  BY <1>1 DEF OffCallsInv
<1> QED BY <1>2, <1>3 DEF OffInv

\* OffInv is kept by the stages.
LEMMA ProcessOff ==
  ASSUME ShapeInv, ModeInv, OnInv, OffInv, NEW s \in Stages, ProcessEvent(s)
  PROVE  OffInv'
<1>1. Effects(s) /\ queue[s] # <<>> /\ stack # <<>> /\ PointTypes /\ StageTypes
  BY StageEffects DEF ProcessEvent, ShapeInv
<1>2. UNCHANGED <<relays, unitOff, calls, excuses, defeated>>
  BY DEF ProcessEvent, pointVars, history
<1>3. \A r \in 0..1 : /\ Rested(r)' <=> Rested(r)
                      /\ UnitRested(FirstUnit(r))' <=> UnitRested(FirstUnit(r))
  BY <1>2, FirstStages DEF Rested, UnitRested, FirstUnit
<1>4. ASSUME s \in 0..1 PROVE OffOf(s)'
  <2>1. OffOf(s)
    BY <1>4 DEF OffInv
  <2>2. queue'[s] # <<"OnRequest">> /\ queue'[s] # <<"NeedMoreCapacity">>
    BY <1>1 DEF Effects
  <2>3. /\ unitOff[FirstUnit(s)] \in 0..MinUnitOff /\ MinUnitOff \in Nat
        /\ startAge[s] \in 0..MaxAge /\ MaxAge \in Nat /\ ~(s >= 2)
    BY <1>1, <1>4, FirstStages, Constants DEF PointTypes, StageTypes
  <2>4. CASE Begins(s)
    <3>1. s \notin relays => Rested(s)
      BY <2>1, <2>3, <2>4 DEF Begins, OffOf
    <3>2. ~IsOffCycle(s)'
      BY <2>4 DEF Begins, IsOffCycle
    <3> QED BY <1>2, <1>3, <1>4, <2>2, <3>1, <3>2 DEF OffOf
  <2>5. CASE Pauses(s)
    <3>1. ~out'[s] /\ startAge'[s] = 0 /\ queue'[s][1] # "OffTimeExpired"
      BY <2>5 DEF Pauses
    <3>2. 0 <= unitOff[FirstUnit(s)]
      BY <2>3
    <3> QED BY <1>2, <1>4, <2>2, <3>1, <3>2 DEF OffOf, FirstUnit
  <2>6. CASE Stops(s)
    <3>1. ~out'[s] /\ ~IsOffCycle(s)'
      BY <2>3, <2>6 DEF Stops, IsOffCycle
    <3> QED BY <2>2, <3>1 DEF OffOf
  <2>7. CASE Supports(s)
    <3>1. s \notin relays => Rested(s)
      BY <2>1, <2>7 DEF Supports, OffOf
    <3>2. ~IsOffCycle(s)'
      BY <2>7 DEF Supports, IsOffCycle
    <3> QED BY <1>2, <1>3, <1>4, <2>2, <3>1, <3>2 DEF OffOf
  <2>8. CASE Passes(s)
    <3>1. ~IsOffCycle(s)' /\ out'[s] = out[s]
      BY <2>8 DEF Passes, IsOffCycle
    <3> QED BY <1>2, <1>3, <1>4, <2>1, <2>2, <3>1 DEF OffOf
  <2>9. CASE Stays(s)
    <3>1. IsOffCycle(s) /\ Due(s, CalculateOffTime(s)) => Rested(s)
      <4>1. CASE abort
        BY <4>1 DEF OnInv, Rested
      <4>2. CASE IsOffCycle(s) /\ startAge[s] >= CalculateOffTime(s)
        <5>1. CalculateOffTime(s) \in Int /\ CalculateOffTime(s) >= Min({MinOff, 2 * K})
          BY <1>1, LongEnough
        <5>2. Min({MinOff, 2 * K}) \in Int
          <6>1. MinOff \in Int /\ 2 * K \in Int
            BY Constants
          <6> QED BY <6>1, PairMinMax
        <5>3. startAge[s] >= LeastOff
          BY <2>3, <4>2, <5>1, <5>2, LeastOffIs
        <5>4. startAge[s] <= unitOff[FirstUnit(s)] \/ UnitRested(FirstUnit(s))
          BY <2>1, <4>2 DEF OffOf
        <5>5. unitOff[FirstUnit(s)] >= LeastOff
          BY <2>3, <5>3, <5>4, LeastOffIs DEF UnitRested
        <5> QED BY <5>5 DEF Rested
      <4> QED BY <4>1, <4>2 DEF Due
    <3>2. IsOffCycle(s)' => IsOffCycle(s)
      BY <2>9 DEF Stays, IsOffCycle
    <3>3. out'[s] = out[s] /\ startAge'[s] = startAge[s]
      BY <2>9 DEF Stays
    <3>4. IsOffCycle(s) /\ queue'[s] # <<>> /\ queue'[s][1] = "OffTimeExpired" => Rested(s)
      BY <2>9, <3>1 DEF Stays
    <3> QED BY <1>2, <1>3, <1>4, <2>1, <2>2, <3>2, <3>3, <3>4 DEF OffOf, FirstUnit
  <2> QED BY <1>1, <2>4, <2>5, <2>6, <2>7, <2>8, <2>9 DEF Effects
<1>5. ASSUME NEW r \in 0..1, r # s PROVE OffOf(r)'
  <2>1. OffOf(r) /\ r \in Stages
    BY FirstStages DEF OffInv
  <2>2. /\ st'[r] = st[r] /\ out'[r] = out[r] /\ startAge'[r] = startAge[r]
        /\ queue'[r] = queue[r] \/ queue'[r] = <<"LessCapacity">>
    <3>1. ~(r >= 2)
      OBVIOUS
    <3> QED BY <1>1, <1>5, <2>1, <3>1 DEF Effects
  <2>3. IsOffCycle(r)' <=> IsOffCycle(r)
    BY <2>2 DEF IsOffCycle
  <2>4. CASE queue'[r] = queue[r]
    BY <1>2, <1>3, <2>1, <2>2, <2>3, <2>4 DEF OffOf, FirstUnit
  <2>5. CASE queue'[r] = <<"LessCapacity">>
    <3>1. /\ queue'[r][1] # "OffTimeExpired" /\ queue'[r] # <<"OnRequest">>
          /\ queue'[r] # <<"NeedMoreCapacity">>
      BY <2>5
    <3> QED BY <1>2, <1>3, <2>1, <2>2, <2>3, <3>1 DEF OffOf, FirstUnit
  <2> QED BY <2>2, <2>4, <2>5
<1>6. OffCallsInv'
  <2>1. OffCallsInv
    BY DEF OffInv
  <2>2. ASSUME NEW i \in 1..Len(calls)
        PROVE  /\ calls[i].ev = "OnRequest" => Rested(calls[i].stage)
               /\ calls[i].ev = "NeedMoreCapacity" /\ calls[i].stage = 1 => Rested(1)
    BY <1>1, <2>1 DEF OffCallsInv
  <2> QED BY <1>2, <2>2 DEF OffCallsInv, Rested, UnitRested, FirstUnit
<1> QED BY <1>4, <1>5, <1>6 DEF OffInv

\* A call of the equipment, and the return from it
LEMMA CallOff ==
  ASSUME ShapeInv, ModeInv, OffInv, Call \/ EventsProcessed
  PROVE  OffInv'
<1>1. UNCHANGED <<st, startAge, out, relays, unitOff, excuses, defeated>>
  BY DEF Call, EventsProcessed, stageVars, argVars, pointVars, history
<1>2. /\ \A r : Rested(r)' <=> Rested(r)
      /\ \A r : UnitRested(FirstUnit(r))' <=> UnitRested(FirstUnit(r))
      /\ \A r \in 0..1 : IsOffCycle(r)' <=> IsOffCycle(r)
  BY <1>1 DEF Rested, UnitRested, FirstUnit, IsOffCycle
<1>3. calls \in Seq(CallSet) /\ OffCallsInv
  BY DEF ShapeInv, PointTypes, OffInv
<1>4. CASE EventsProcessed
  <2>1. queue' = queue /\ calls' = calls /\ stack # <<>>
    BY <1>4 DEF EventsProcessed, stageVars
  <2>2. \A r \in 0..1 : OffOf(r)'
    BY <1>1, <1>2, <2>1 DEF OffInv, OffOf, FirstUnit
  <2>3. ASSUME NEW i \in 1..Len(calls)
        PROVE  /\ calls[i].ev = "OnRequest" => Rested(calls[i].stage)
               /\ calls[i].ev = "NeedMoreCapacity" /\ calls[i].stage = 1 => Rested(1)
    BY <1>3, <2>1 DEF OffCallsInv
  <2>4. OffCallsInv'
    BY <1>1, <2>1, <2>3 DEF OffCallsInv, Rested, UnitRested, FirstUnit
  <2> QED BY <2>2, <2>4 DEF OffInv
<1>5. CASE Call
  <2>1. PICK c \in CallSet :
          /\ c = calls[1] /\ Len(calls) \in Nat \ {0}
          /\ calls' = Tail(calls)
          /\ queue'[c.stage] = <<c.ev>>
          /\ \A r \in Stages \ {c.stage} : SameAs(r)
    BY <1>5, CallShape
  <2>2. c.stage \in Stages /\ c.ev \in Requests
    BY DEF CallSet
  <2>3. /\ c.ev = "OnRequest" => Rested(c.stage)
        /\ c.ev = "NeedMoreCapacity" /\ c.stage = 1 => Rested(1) \/ out[1]
    <3>1. 1 \in 1..Len(calls)
      BY <2>1
    <3> QED BY <1>3, <2>1, <3>1 DEF OffCallsInv
  <2>4. ASSUME NEW r \in 0..1 PROVE OffOf(r)'
    <3>1. OffOf(r) /\ r \in Stages
      BY FirstStages DEF OffInv
    <3>2. CASE r = c.stage
      <4>1. queue'[r] = <<c.ev>> /\ queue'[r][1] = c.ev /\ c.ev # "OffTimeExpired"
        BY <2>1, <2>2, <3>2 DEF Requests
      <4>2. queue'[r] = <<"OnRequest">> => Rested(r)
        BY <2>3, <3>2, <4>1
      <4>3. queue'[r] = <<"NeedMoreCapacity">> => out[r] \/ Rested(r)
        <5>1. c.ev = "NeedMoreCapacity" => r = 1
          BY <3>2, Constants DEF CallSet
        <5> QED BY <2>3, <3>2, <4>1, <5>1
      <4> QED BY <1>1, <1>2, <3>1, <4>1, <4>2, <4>3 DEF OffOf, FirstUnit
    <3>3. CASE r # c.stage
      <4>1. queue'[r] = queue[r]
        BY <2>1, <3>1, <3>3 DEF SameAs
      <4> QED BY <1>1, <1>2, <3>1, <4>1 DEF OffOf, FirstUnit
    <3> QED BY <3>2, <3>3
  <2>5. OffCallsInv'
    <3>1. /\ Len(calls') = Len(calls) - 1
          /\ \A i \in 1..Len(calls') : /\ calls'[i] = calls[i + 1] /\ i + 1 \in 1..Len(calls)
                                       /\ i + 1 # 1
      BY <1>3, <2>1
    <3>2. \A i \in 1..Len(calls') :
            /\ calls'[i].ev = "OnRequest" => Rested(calls'[i].stage)
            /\ calls'[i].ev = "NeedMoreCapacity" /\ calls'[i].stage = 1 => Rested(1)
      BY <1>3, <3>1 DEF OffCallsInv
    <3> QED BY <1>1, <3>2 DEF OffCallsInv, Rested, UnitRested, FirstUnit
  <2> QED BY <2>4, <2>5 DEF OffInv
<1> QED BY <1>4, <1>5

\* While nobody runs, a component that leaves the stages, their times and the
\* relays alone keeps what is said of them, as long as it switches no output on
\* and an excuse stays one where an output is on and its relay is not.
LEMMA QuietOff ==
  ASSUME ShapeInv, ModeInv, OffInv, stack = <<>>, calls = <<>>,
         UNCHANGED <<st, queue, startAge, relays, unitOff>>,
         \A s \in Stages : out'[s] => out[s],
         \/ excuses \subseteq excuses' /\ (defeated => defeated')
         \/ relays = {s \in Stages : out[s]}
  PROVE  \A s \in 0..1 : OffOf(s)'
<1> SUFFICES ASSUME NEW s \in 0..1 PROVE OffOf(s)'
  OBVIOUS
<1>1. OffOf(s) /\ s \in Stages
  BY FirstStages DEF OffInv
<1>2. queue[s] = <<>>
  BY <1>1, Quiet
<1>3. /\ queue'[s] # <<"OnRequest">> /\ queue'[s] # <<"NeedMoreCapacity">>
      /\ ~(queue'[s] # <<>>)
  BY <1>2
<1>4. UnitRested(FirstUnit(s))' <=> UnitRested(FirstUnit(s))
  BY DEF UnitRested, FirstUnit
<1>5. out'[s] /\ s \notin relays => Rested(s)'
  <2>1. CASE excuses \subseteq excuses' /\ (defeated => defeated')
    BY <1>1, <1>4, <2>1 DEF OffOf, Rested
  <2>2. CASE relays = {r \in Stages : out[r]}
    BY <1>1, <2>2
  <2> QED BY <2>1, <2>2
<1>6. IsOffCycle(s)' =>
        /\ startAge'[s] <= unitOff'[FirstUnit(s)] \/ UnitRested(FirstUnit(s))
        /\ s \in relays' => startAge'[s] = 0
  BY <1>1 DEF OffOf, IsOffCycle
<1> QED BY <1>3, <1>4, <1>5, <1>6 DEF OffOf, FirstUnit

\* The components before the Controls, and FanControl
LEMMA FirstOff ==
  ASSUME ShapeInv, ModeInv, OnInv, OffInv,
         \/ \E bad \in BOOLEAN : IdtSelection(bad)
         \/ \E userMode \in {"OFF", "COOLING", "HEATING", "AUTO"}, equip \in Equipments,
               bad, warm \in BOOLEAN : OperatingMode(userMode, equip, bad, warm)
         \/ \E pv \in PvValues : Pi(pv)
         \/ \E valid \in BOOLEAN : FanControl(valid)
  PROVE  OffInv'
<1>1. /\ UNCHANGED <<st, queue, startAge, out, relays, unitOff>>
      /\ stack = <<>> /\ calls = <<>> /\ calls' = <<>>
      /\ excuses' = excuses \/ pc = "OperatingMode"
      /\ defeated' = defeated
  BY DEF IdtSelection, OperatingMode, Pi, FanControl, At, stageVars, argVars, pointVars, history
<1>2. pc = "OperatingMode" => relays = {s \in Stages : out[s]}
  BY DEF OnInv, Starts
<1>3. \A s \in 0..1 : OffOf(s)'
  BY <1>1, <1>2, QuietOff
<1>4. OffCallsInv'
  BY <1>1 DEF OffCallsInv
<1> QED BY <1>3, <1>4 DEF OffInv

\* Controls that make no calls but to switch stages off
LEMMA ControlOffOff ==
  ASSUME ShapeInv, ModeInv, OffInv, NEW c \in {"cool", "heat", "off"},
         ControlIdle(c) \/ ControlOff(c) \/ ControlReset(c)
  PROVE  OffInv'
<1>1. /\ UNCHANGED <<st, queue, startAge, relays, unitOff, excuses, defeated>>
      /\ stack = <<>> /\ calls = <<>>
      /\ calls' = <<>> \/ calls' = ToEach("OffModeRequest", Ordered(c))
  BY DEF ControlIdle, ControlOff, ControlReset, At, stageVars, pointVars, history
<1>2. \A s \in Stages : out'[s] => out[s]
  BY DEF ControlIdle, ControlOff, ControlReset, argVars
<1>3. \A s \in 0..1 : OffOf(s)'
  BY <1>1, <1>2, QuietOff
<1>4. OffCallsInv'
  <2>1. CASE calls' = <<>>
    BY <2>1 DEF OffCallsInv
  <2>2. CASE calls' = ToEach("OffModeRequest", Ordered(c))
    <3> DEFINE cs == ToEach("OffModeRequest", Ordered(c))
    <3>1. \A i \in 1..Len(cs) : cs[i].ev = "OffModeRequest"
      BY OffCalls
    <3>2. calls' = cs
      BY <2>2
    <3> HIDE DEF cs
    <3> QED BY <3>1, <3>2 DEF OffCallsInv
  <2> QED BY <1>1, <2>1, <2>2
<1> QED BY <1>3, <1>4 DEF OffInv

\* Equipment that runs asks for an output only when its unit has rested, or
\* when the output is on.
LEMMA ActiveOff ==
  ASSUME ShapeInv, ModeInv, OffInv, NEW c \in {"cool", "heat", "off"},
         NEW a \in {FALSE, Aborts}, NEW d \in BOOLEAN,
         ControlActive(c, a, d)
  PROVE  OffInv'
<1>1. /\ stack = <<>> /\ calls = <<>>
      /\ UNCHANGED <<st, queue, startAge, relays, unitOff, stack>>
      /\ excuses' = excuses \cup IF a THEN {"abort"} ELSE {}
      /\ defeated' = (defeated \/ (d /\ c \in Units /\ ~UnitRested(c)))
  BY ActiveUnit DEF ControlActive, stageVars, pointVars
<1>2. \A s \in Stages : out'[s] => out[s]
  BY DEF ControlActive
<1>3. \A s \in 0..1 : OffOf(s)'
  BY <1>1, <1>2, QuietOff
<1>4. CASE c = "off"
  <2>1. calls' = <<>>
    BY <1>4 DEF ControlActive
  <2>2. OffCallsInv'
    BY <2>1 DEF OffCallsInv
  <2> QED BY <1>3, <2>2 DEF OffInv
<1>5. CASE c # "off"
  <2>1. c \in Units /\ out' = out
    BY <1>5 DEF Units, ControlActive
  <2>2. \A i \in 1..Len(calls') : CallOk(c, d, calls'[i], i)
    BY <2>1, ActiveCallsOk DEF CallsOk
  <2>3. ASSUME NEW s \in StagesOf(c) PROVE FirstUnit(s) = c
    BY <2>1, Constants DEF Units, StagesOf, FirstUnit
  <2>7. MayStart(c, d) => unitOff[c] >= LeastOff \/ defeated'
    <3>1. unitOff[c] \in Int /\ MinUnitOff \in Int
      BY <2>1, Constants DEF ShapeInv, PointTypes
    <3>2. UnitRested(c) => unitOff[c] >= LeastOff
      BY <3>1, LeastOffIs DEF UnitRested
    <3> QED BY <1>1, <2>1, <3>2 DEF MayStart
  <2>4. ASSUME NEW i \in 1..Len(calls'), calls'[i].ev = "OnRequest"
        PROVE  unitOff[FirstUnit(calls'[i].stage)] >= LeastOff \/ defeated'
    <3>1. CallOk(c, d, calls'[i], i)
      BY <2>2
    <3>2. MayStart(c, d) /\ FirstUnit(calls'[i].stage) = c
      BY <2>3, <2>4, <3>1 DEF CallOk
    <3> QED BY <2>7, <3>2
  <2>5. ASSUME NEW i \in 1..Len(calls'), calls'[i].ev = "NeedMoreCapacity",
               calls'[i].stage = 1
        PROVE  unitOff["heat"] >= LeastOff \/ defeated' \/ (i = 1 /\ out[1])
    <3>1. CallOk(c, d, calls'[i], i) /\ 1 \in StagesOf(c)
      BY <2>2, <2>5 DEF CallOk
    <3>2. c = "heat"
      BY <2>3, <3>1 DEF FirstUnit
    <3>3. CASE MayStart(c, d)
      BY <2>7, <3>2, <3>3
    <3>4. CASE i = 1 /\ IsOnCycle(1)
      <4>1. IsActive(1)
        BY <3>4 DEF IsActive, IsOnCycle, Cycling
      <4>2. Match(1)
        BY <3>1, <4>1, ActiveStages
      <4>3. (st[1] \in {"StartingOn", "OnTime", "Supplementing"}) = TRUE
        BY <3>4 DEF IsOnCycle
      <4>4. st[1] # "BackToLower"
        BY <3>4 DEF IsOnCycle
      <4> QED BY <3>4, <4>2, <4>3, <4>4 DEF Match
    <3> QED BY <2>5, <3>1, <3>3, <3>4 DEF CallOk
  <2>6. OffCallsInv'
    BY <1>1, <2>1, <2>4, <2>5 DEF OffCallsInv, Rested, UnitRested, FirstUnit
  <2> QED BY <1>3, <2>6 DEF OffInv
<1> QED BY <1>4, <1>5

\* The relays that are off, and for how long
LEMMA RelaysOff ==
  ASSUME ShapeInv, ModeInv, OffInv, Relays
  PROVE  OffInv'
<1>1. /\ UNCHANGED <<st, queue, out, excuses>> /\ At("Relays") /\ calls' = <<>>
      /\ relays' = RelayOutputs
  BY DEF Relays, At
<1>2. relays' = {s \in Stages : out[s]}
  BY RelaysAre
<1>3. ASSUME NEW s \in 0..1 PROVE OffOf(s)'
  <2>1. s \in Stages /\ OffOf(s) /\ FirstUnit(s) \in Units
    BY FirstStages DEF OffInv
  <2>2. /\ queue[s] = <<>> /\ st[s] \in RestStates
        /\ out[s] = (st[s] \in {"OnTime", "Supplementing"})
    BY <1>1, <2>1, WhenDone, OutputsHold DEF OutputsMatch
  <2>3. /\ queue'[s] # <<"OnRequest">> /\ queue'[s] # <<"NeedMoreCapacity">>
        /\ ~(queue'[s] # <<>>)
    BY <1>1, <2>2
  <2>4. out'[s] => s \in relays'
    BY <1>1, <1>2, <2>1
  <2>5. ASSUME IsOffCycle(s)
        PROVE  /\ startAge'[s] <= unitOff'[FirstUnit(s)] \/ unitOff'[FirstUnit(s)] >= MinUnitOff
               /\ s \notin relays'
    <3>1. st[s] = "OffTime"
      BY <2>2, <2>5 DEF IsOffCycle, RestStates
    <3>2. s \notin relays'
      BY <1>2, <2>2, <3>1
    <3>3. /\ startAge[s] \in 0..MaxAge /\ unitOff[FirstUnit(s)] \in 0..MinUnitOff
          /\ MaxAge \in Nat /\ MinUnitOff \in Nat
      BY <2>1, Constants DEF ShapeInv, StageTypes, PointTypes
    <3>4. startAge'[s] = Older(startAge[s], MaxAge)
      BY <2>1, <3>1 DEF Relays, Cycling
    <3>5. startAge'[s] = IF startAge[s] < MaxAge THEN startAge[s] + 1 ELSE MaxAge
      BY <3>3, <3>4, OlderIn
    <3>6. /\ Older(unitOff[FirstUnit(s)], MinUnitOff)
               = IF unitOff[FirstUnit(s)] < MinUnitOff THEN unitOff[FirstUnit(s)] + 1
                 ELSE MinUnitOff
          /\ Min({1, MinUnitOff}) = IF MinUnitOff = 0 THEN 0 ELSE 1
      BY <3>3, OlderIn
    <3>7. unitOff'[FirstUnit(s)] = IF s \in relays THEN Min({1, MinUnitOff})
                                   ELSE Older(unitOff[FirstUnit(s)], MinUnitOff)
      <4>1. (IF FirstUnit(s) = "cool" THEN 0 ELSE 1) = s
        BY DEF FirstUnit
      <4>2. unitOff'[FirstUnit(s)] =
              LET first == IF FirstUnit(s) = "cool" THEN 0 ELSE 1
              IN  IF first \in relays \ RelayOutputs THEN Min({1, MinUnitOff})
                  ELSE Older(unitOff[FirstUnit(s)], MinUnitOff)
        BY <2>1 DEF Relays
      <4> QED BY <1>1, <3>2, <4>1, <4>2
    <3>8. /\ startAge[s] <= unitOff[FirstUnit(s)] \/ unitOff[FirstUnit(s)] >= MinUnitOff
          /\ s \in relays => startAge[s] = 0
      BY <2>1, <2>5 DEF OffOf, UnitRested
    <3>9. startAge'[s] <= unitOff'[FirstUnit(s)] \/ unitOff'[FirstUnit(s)] >= MinUnitOff
      BY <3>3, <3>5, <3>6, <3>7, <3>8
    <3> QED BY <3>2, <3>9
  <2>6. IsOffCycle(s)' <=> IsOffCycle(s)
    BY <1>1 DEF IsOffCycle
  <2> QED BY <2>3, <2>4, <2>5, <2>6 DEF OffOf, UnitRested, FirstUnit
<1>4. OffCallsInv'
  BY <1>1 DEF OffCallsInv
<1> QED BY <1>3, <1>4 DEF OffInv

\* OffInv is inductive.
LEMMA OffStep ==
  ShapeInv /\ ModeInv /\ OnInv /\ OffInv /\ [Next]_vars => OffInv'
<1> SUFFICES ASSUME ShapeInv, ModeInv, OnInv, OffInv, [Next]_vars PROVE OffInv'
  OBVIOUS
<1>1. ASSUME UNCHANGED vars PROVE OffInv'
  <2>1. UNCHANGED <<st, queue, startAge, out, relays, unitOff, calls, stack, excuses, defeated>>
    BY <1>1 DEF vars, stageVars, argVars, pointVars, threadVars, history
  <2>2. \A s \in 0..1 : OffOf(s)'
    BY <2>1 DEF OffInv, OffOf, IsOffCycle, Rested, UnitRested, FirstUnit
  <2>3. OffCallsInv'
    BY <2>1 DEF OffInv, OffCallsInv, Rested, UnitRested, FirstUnit
  <2> QED BY <2>2, <2>3 DEF OffInv
<1> QED
  BY <1>1, FirstOff, ControlOffOff, ActiveOff, CallOff, ProcessOff, RelaysOff DEF Next

\* A unit that goes on has rested, or there is an excuse.
LEMMA OffLongEnough ==
  ASSUME ShapeInv, ModeInv, OffInv, [Next]_vars
  PROVE  \A u \in Units :
           LET s == IF u = "cool" THEN 0 ELSE 1
           IN  s \in relays' \ relays =>
                 unitOff[u] >= LeastOff \/ "abort" \in excuses \/ defeated
<1>1. CASE Relays
  <2>1. relays' = {s \in Stages : out[s]}
    BY <1>1, RelaysAre
  <2>2. ASSUME NEW s \in 0..1, s \in relays' \ relays
        PROVE  unitOff[FirstUnit(s)] >= LeastOff \/ "abort" \in excuses \/ defeated
    BY <2>1, <2>2 DEF OffInv, OffOf, Rested
  <2> QED BY <2>2, FirstStages DEF Units
<1>2. CASE ~Relays
  <2>1. relays' = relays
    BY <1>2 DEF Next, IdtSelection, OperatingMode, Pi, ControlIdle, ControlOff, ControlReset,
       ControlActive, Call, ProcessEvent, EventsProcessed, FanControl, vars, pointVars
  <2> QED BY <2>1
<1> QED BY <1>1, <1>2

\* A unit that is switched on has been off for its own minimum off time or for
\* that of a cycle, for any times and any load, across changes of mode and
\* configuration, unless its off cycle was aborted or its minimum off time
\* defeated in the same interval.
THEOREM MinOffTimeAlways == Spec => MinOffTime
<1> QED
  BY ShapeInit, ShapeStep, ModeInit, ModeStep, OnInit, OnStep, OffInit, OffStep, OffLongEnough, PTL
  DEF Spec, MinOffTime
=============================================================================
