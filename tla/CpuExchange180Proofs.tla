------------------------ MODULE CpuExchange180Proofs ------------------------
(***************************************************************************)
(* Proofs about CpuExchange180, for every number of PPs and for one CPU or *)
(* two: what the changes between 170 and 180 state leave of the flags of   *)
(* monitor mode, although they do not hold the exchange mutex.             *)
(***************************************************************************)
EXTENDS CpuExchange180, TLAPS

USE CpusAssumption, PpuCountAssumption, FeatureAssumption, Features180Assumption,
    StepsAssumption

-----------------------------------------------------------------------------
(* The invariant.                                                          *)

CpuTypes == /\ isStopped \in [Cpus -> BOOLEAN]
            /\ isMonitorMode \in [Cpus -> BOOLEAN]
            /\ isMonitorModePending \in [Cpus -> BOOLEAN]
            /\ isErrorExitPending \in [Cpus -> BOOLEAN]
            /\ exchPending \in [Cpus -> BOOLEAN]
            /\ savedMonitor \in [Cpus -> BOOLEAN]
            /\ loading \in [Cpus -> BOOLEAN]
            /\ doChangeMode \in [Cpus -> BOOLEAN]
            /\ cpuPc \in [Cpus -> PcLabels]

NoDeadstart == \A c \in Cpus : ~doDeadstart[c]

\* An exit to 180 state is pending only at the end of a step, or while the word whose
\* instruction failed goes on: the gate at the start of the next step clears it.
PendingExitIsNew ==
    \A c \in Cpus : exchPending[c] => cpuPc[c] \notin {"request", "execute", "errorExit"}

IInv == /\ CpuTypes /\ NoDeadstart /\ PendingExitIsNew
        /\ WaiterIsInMonitorMode /\ ExitsFromMonitorMode

flags == <<isStopped, isMonitorMode, isMonitorModePending, exchPending, savedMonitor,
           loading, cpuPc>>

\* What the invariant asks of one CPU.
CpuOK(c) ==
    /\ isMonitorModePending[c] /\ ~loading[c] => isMonitorMode[c]
    /\ exchPending[c] => /\ isStopped[c] /\ isMonitorMode[c]
                         /\ cpuPc[c] \notin {"request", "execute", "errorExit"}

LEMMA InvariantByCpu == IInv <=> CpuTypes /\ NoDeadstart /\ \A c \in Cpus : CpuOK(c)
  BY DEF IInv, PendingExitIsNew, WaiterIsInMonitorMode, ExitsFromMonitorMode, CpuOK

LEMMA InvariantByCpuNext ==
    CpuTypes' /\ NoDeadstart' /\ (\A c \in Cpus : CpuOK(c)') => IInv'
  BY DEF IInv, PendingExitIsNew, WaiterIsInMonitorMode, ExitsFromMonitorMode, CpuOK

-----------------------------------------------------------------------------
(* The steps of a CPU.                                                     *)

EndsOrGoesOn(c) == EndStep(c) \/ \E label \in PcLabels : Goto(c, label)

\* Only CPU c has changed, but for requests and threads.
OnlyCpu(c) == \A d \in Cpus \ {c} :
    /\ isStopped'[d] = isStopped[d] /\ isMonitorMode'[d] = isMonitorMode[d]
    /\ isMonitorModePending'[d] = isMonitorModePending[d]
    /\ exchPending'[d] = exchPending[d] /\ loading'[d] = loading[d]
    /\ cpuPc'[d] = cpuPc[d]

LEMMA OnlyCpuKeeps ==
    ASSUME IInv, NEW c \in Cpus, OnlyCpu(c), CpuTypes', doDeadstart' = doDeadstart, CpuOK(c)'
    PROVE  IInv'
<1>1. NoDeadstart'
  BY DEF IInv, NoDeadstart
<1>2. ASSUME NEW d \in Cpus PROVE CpuOK(d)'
  <2>1. CASE d = c
    BY <2>1
  <2>2. CASE d # c
    BY <2>2, InvariantByCpu DEF OnlyCpu, CpuOK
  <2> QED BY <2>1, <2>2
<1> QED BY <1>1, <1>2, InvariantByCpuNext

\* The end of a step leads to the next one, or out of cpuStep.
LEMMA EndStepGoes ==
    ASSUME CpuTypes, NEW c \in Cpus, EndStep(c)
    PROVE  /\ cpuPc' \in [Cpus -> PcLabels] /\ cpuPc'[c] \in {"step", "loop"}
           /\ \A d \in Cpus \ {c} : cpuPc'[d] = cpuPc[d]
  BY DEF CpuTypes, EndStep, PcLabels

LEMMA GotoGoes ==
    ASSUME CpuTypes, NEW c \in Cpus, NEW label \in PcLabels, Goto(c, label)
    PROVE  /\ cpuPc' \in [Cpus -> PcLabels] /\ cpuPc'[c] = label
           /\ \A d \in Cpus \ {c} : cpuPc'[d] = cpuPc[d]
  BY DEF CpuTypes, Goto

LEMMA GoTo180Sets ==
    ASSUME CpuTypes, NEW c \in Cpus, NEW monitor \in BOOLEAN, GoTo180State(c, monitor)
    PROVE  /\ isMonitorMode' \in [Cpus -> BOOLEAN] /\ savedMonitor' \in [Cpus -> BOOLEAN]
           /\ isMonitorModePending' \in [Cpus -> BOOLEAN] /\ loading' = loading
           /\ ~isMonitorModePending'[c]
           /\ \A d \in Cpus \ {c} : /\ isMonitorMode'[d] = isMonitorMode[d]
                                     /\ isMonitorModePending'[d] = isMonitorModePending[d]
  BY DEF CpuTypes, GoTo180State

\* After an exchange jump a CPU waits, or has an exit pending, only in monitor mode.
LEMMA JumpSets ==
    ASSUME CpuTypes, NEW c \in Cpus, NEW doChange \in BOOLEAN, NEW result \in ExchangeResults,
           NEW atWord, NEW exitPending \in BOOLEAN, ~exchPending[c],
           ExchangeJump180(c, doChange, result, atWord, exitPending), SetPending(c)
    PROVE  /\ isStopped' \in [Cpus -> BOOLEAN] /\ isMonitorMode' \in [Cpus -> BOOLEAN]
           /\ isMonitorModePending' \in [Cpus -> BOOLEAN]
           /\ exchPending' \in [Cpus -> BOOLEAN]
           /\ isMonitorModePending'[c] => isMonitorMode'[c]
           /\ exchPending'[c] => isStopped'[c] /\ isMonitorMode'[c] /\ result = "fetchFails"
           /\ isErrorExitPending' \in [Cpus -> BOOLEAN]
           /\ isErrorExitPending'[c] /\ ~exitPending => ~exchPending'[c]
           /\ \A d \in Cpus \ {c} :
                 /\ isStopped'[d] = isStopped[d] /\ isMonitorMode'[d] = isMonitorMode[d]
                 /\ isMonitorModePending'[d] = isMonitorModePending[d]
                 /\ exchPending'[d] = exchPending[d]
<1>1. /\ isMonitorMode' = [isMonitorMode EXCEPT ![c] = (@ # (result # "badAddress" /\ doChange))]
      /\ isStopped' = [isStopped EXCEPT
             ![c] = IF result # "badAddress" THEN result = "fetchFails" ELSE @]
      /\ exchPending' = [exchPending EXCEPT
             ![c] = @ \/ (result = "fetchFails" /\ isMonitorMode'[c])]
      /\ isMonitorModePending' = [isMonitorModePending EXCEPT ![c] = MustWait(c)]
      /\ isErrorExitPending' = [isErrorExitPending EXCEPT ![c] =
             exitPending \/ (result = "fetchFails" /\ CanErrorExit(isMonitorMode'[c]))]
  BY Zenon DEF ExchangeJump180, ExchangeJump, SetPending
<1>2. isMonitorMode' \in [Cpus -> BOOLEAN] /\ isMonitorMode'[c] \in BOOLEAN
  BY <1>1 DEF CpuTypes
<1>3. MustWait(c) \in BOOLEAN /\ (MustWait(c) => isMonitorMode'[c])
  BY DEF MustWait
<1>4. CanErrorExit(isMonitorMode'[c]) \in BOOLEAN
      /\ (CanErrorExit(isMonitorMode'[c]) => ~isMonitorMode'[c])
  BY <1>2 DEF CanErrorExit
<1> QED BY <1>1, <1>2, <1>3, <1>4 DEF CpuTypes

-----------------------------------------------------------------------------
(* Changes of state.                                                       *)

LEMMA Load170StateKeeps ==
    ASSUME IInv, NEW c \in Cpus, Load170State(c) PROVE IInv'
<1>1. CpuTypes' /\ CpuOK(c)'
  BY DEF IInv, CpuTypes, Load170State, In180State, AtStep, ClearsConditions, CpuOK, requestVars,
       threadVars
<1>2. OnlyCpu(c)
  BY DEF IInv, CpuTypes, Load170State, ClearsConditions, OnlyCpu, threadVars
<1> QED BY <1>1, <1>2, OnlyCpuKeeps DEF Load170State, opVars

LEMMA Compare170ModeKeeps ==
    ASSUME IInv, NEW c \in Cpus, Compare170Mode(c) PROVE IInv'
<1>1. CpuTypes
  BY DEF IInv
<1>2. MustWaitOnLoad(c) \in BOOLEAN /\ (MustWaitOnLoad(c) => isMonitorMode[c])
  BY DEF MustWaitOnLoad
<1>3. CpuTypes' /\ CpuOK(c)'
  BY <1>1, <1>2, EndStepGoes, InvariantByCpu
     DEF CpuTypes, Compare170Mode, CpuOK, requestVars, haltVars
<1>4. OnlyCpu(c)
  BY <1>1, EndStepGoes DEF CpuTypes, Compare170Mode, OnlyCpu, haltVars
<1> QED BY <1>3, <1>4, OnlyCpuKeeps DEF Compare170Mode, opVars

LEMMA InterruptKeeps ==
    ASSUME IInv, NEW c \in Cpus, Interrupt(c) PROVE IInv'
<1>1. CpuTypes
  BY DEF IInv
<1>2. PICK monitor \in BOOLEAN : GoTo180State(c, monitor)
  BY <1>1 DEF Interrupt, CpuTypes
<1>3. CpuTypes' /\ CpuOK(c)'
  BY <1>1, <1>2, GoTo180Sets, EndStepGoes
     DEF CpuTypes, Interrupt, ClearsConditions, CpuOK, requestVars, haltVars
<1>4. OnlyCpu(c)
  BY <1>1, <1>2, GoTo180Sets, EndStepGoes
     DEF CpuTypes, Interrupt, ClearsConditions, OnlyCpu, haltVars
<1> QED BY <1>3, <1>4, OnlyCpuKeeps DEF Interrupt, opVars

LEMMA Step180Keeps ==
    ASSUME IInv, NEW c \in Cpus, Step180(c) PROVE IInv'
<1>1. CpuTypes
  BY DEF IInv
<1>2. CpuTypes' /\ CpuOK(c)'
  BY <1>1, EndStepGoes, InvariantByCpu
     DEF CpuTypes, Step180, ClearsConditions, CpuOK, requestVars, haltVars, modeVars, stateVars
<1>3. OnlyCpu(c)
  BY <1>1, EndStepGoes
     DEF CpuTypes, Step180, ClearsConditions, OnlyCpu, haltVars, modeVars, stateVars
<1> QED BY <1>2, <1>3, OnlyCpuKeeps DEF Step180, opVars

LEMMA ErrorExitTo180Keeps ==
    ASSUME IInv, NEW c \in Cpus, ErrorExitTo180(c) PROVE IInv'
<1>1. CpuTypes
  BY DEF IInv
<1>2. GoTo180State(c, TRUE)
  BY DEF ErrorExitTo180
<1>3. CpuTypes' /\ CpuOK(c)'
  BY <1>1, <1>2, GoTo180Sets, EndStepGoes
     DEF CpuTypes, ErrorExitTo180, ClearsConditions, CpuOK, requestVars
<1>4. OnlyCpu(c)
  BY <1>1, <1>2, GoTo180Sets, EndStepGoes
     DEF CpuTypes, ErrorExitTo180, ClearsConditions, OnlyCpu
<1> QED BY <1>3, <1>4, OnlyCpuKeeps DEF ErrorExitTo180, opVars

LEMMA SystemCallKeeps ==
    ASSUME IInv, NEW c \in Cpus, SystemCall(c) PROVE IInv'
<1>1. CpuTypes
  BY DEF IInv
<1>2. PICK result \in ExchangeResults :
          /\ isStopped' = [isStopped EXCEPT ![c] = result = "fetchFails"]
          /\ GoTo180State(c, result = "badAddress")
          /\ CASE result = "badAddress" -> Goto(c, "continue")
               [] result = "fetchFails" -> Goto(c, "errorExit")
               [] OTHER -> EndStep(c)
  BY DEF SystemCall
<1>3. EndsOrGoesOn(c)
  BY <1>2 DEF EndsOrGoesOn, PcLabels
<1>4. cpuPc' \in [Cpus -> PcLabels] /\ \A d \in Cpus \ {c} : cpuPc'[d] = cpuPc[d]
  BY <1>1, <1>3, EndStepGoes, GotoGoes DEF EndsOrGoesOn
<1>5. ~exchPending'[c] /\ exchPending' = exchPending
  BY DEF SystemCall
<1>6. (result = "badAddress") \in BOOLEAN
  OBVIOUS
<1>7. CpuTypes' /\ CpuOK(c)'
  <2>1. /\ isMonitorMode' \in [Cpus -> BOOLEAN] /\ savedMonitor' \in [Cpus -> BOOLEAN]
        /\ isMonitorModePending' \in [Cpus -> BOOLEAN] /\ loading' = loading
        /\ ~isMonitorModePending'[c]
    BY <1>1, <1>2, <1>6, GoTo180Sets
  <2>2. CpuOK(c)'
    BY <1>5, <2>1 DEF CpuOK
  <2>3. /\ isStopped' \in [Cpus -> BOOLEAN] /\ isErrorExitPending' \in [Cpus -> BOOLEAN]
        /\ doChangeMode' = doChangeMode
    BY <1>1 DEF CpuTypes, SystemCall, requestVars
  <2> QED BY <1>1, <1>4, <1>5, <2>1, <2>2, <2>3 DEF CpuTypes
<1>8. OnlyCpu(c)
  BY <1>1, <1>2, <1>4, <1>5, <1>6, GoTo180Sets DEF CpuTypes, OnlyCpu
<1> QED BY <1>7, <1>8, OnlyCpuKeeps DEF SystemCall, opVars

LEMMA HaltKeeps ==
    ASSUME IInv, NEW c \in Cpus, Halt(c) \/ StepHalted(c) PROVE IInv'
<1>1. CpuTypes /\ CpuOK(c) /\ EndStep(c)
  BY InvariantByCpu DEF IInv, Halt, StepHalted
<1>2. /\ UNCHANGED <<isStopped, isErrorExitPending, savedMonitor, loading, doChangeMode,
                     doDeadstart>>
      /\ ClearsConditions(c) \/ exchPending' = exchPending
  BY DEF Halt, StepHalted, haltVars, requestVars, opVars, vars180, stateVars
<1>3. \/ UNCHANGED modeVars
      \/ /\ isMonitorMode' = [isMonitorMode EXCEPT ![c] = FALSE]
         /\ isMonitorModePending' = [isMonitorModePending EXCEPT ![c] = FALSE]
         /\ ~exchPending'[c]
  BY <1>1 DEF Halt, StepHalted, ClearsConditions, CpuTypes
<1>4. /\ isMonitorMode' \in [Cpus -> BOOLEAN] /\ isMonitorModePending' \in [Cpus -> BOOLEAN]
      /\ \A d \in Cpus \ {c} : /\ isMonitorMode'[d] = isMonitorMode[d]
                               /\ isMonitorModePending'[d] = isMonitorModePending[d]
  BY <1>1, <1>3 DEF CpuTypes, modeVars
<1>5. exchPending' \in [Cpus -> BOOLEAN] /\ \A d \in Cpus \ {c} : exchPending'[d] = exchPending[d]
  BY <1>1, <1>2 DEF CpuTypes, ClearsConditions
<1>6. cpuPc' \in [Cpus -> PcLabels] /\ cpuPc'[c] \notin {"request", "execute", "errorExit"}
      /\ \A d \in Cpus \ {c} : cpuPc'[d] = cpuPc[d]
  BY <1>1, EndStepGoes DEF CpuTypes
<1>7. CpuTypes'
  BY <1>1, <1>2, <1>4, <1>5, <1>6 DEF CpuTypes
<1>8. CpuOK(c)'
  <2>1. CASE UNCHANGED modeVars
    BY <1>1, <1>2, <1>6, <2>1 DEF CpuOK, CpuTypes, ClearsConditions, modeVars
  <2>2. CASE ~UNCHANGED modeVars
    BY <1>1, <1>3, <2>2 DEF CpuOK, CpuTypes
  <2> QED BY <2>1, <2>2
<1>9. OnlyCpu(c)
  BY <1>2, <1>4, <1>5, <1>6 DEF OnlyCpu
<1> QED BY <1>2, <1>7, <1>8, <1>9, OnlyCpuKeeps

-----------------------------------------------------------------------------
(* Steps in 170 state.                                                     *)

\* The gate at the start of a step clears the exit it finds pending.
LEMMA GateKeeps ==
    ASSUME IInv, NEW c \in Cpus, PassMonitorGate180(c) \/ WaitAtMonitorGate180(c)
    PROVE  IInv'
<1>1. CpuTypes
  BY DEF IInv
<1>2. exchPending' \in [Cpus -> BOOLEAN] /\ ~exchPending'[c]
      /\ isErrorExitPending' = isErrorExitPending
      /\ loading' = loading /\ savedMonitor' = savedMonitor /\ isStopped' = isStopped
      /\ doChangeMode' = doChangeMode /\ doDeadstart' = doDeadstart
      /\ \A d \in Cpus \ {c} : exchPending'[d] = exchPending[d]
  <2>1. ClearsConditions(c) /\ UNCHANGED stateVars
        /\ (PassMonitorGate(c) \/ WaitAtMonitorGate(c))
    BY DEF PassMonitorGate180, WaitAtMonitorGate180
  <2>2. exchPending' \in [Cpus -> BOOLEAN] /\ ~exchPending'[c]
        /\ \A d \in Cpus \ {c} : exchPending'[d] = exchPending[d]
    BY <1>1, <2>1 DEF CpuTypes, ClearsConditions
  <2>3. UNCHANGED <<haltVars, doChangeMode, doDeadstart>>
    BY <2>1 DEF PassMonitorGate, WaitAtMonitorGate, requestVars, opVars
  <2> QED BY <2>1, <2>2, <2>3 DEF stateVars, haltVars
<1>3. CASE PassMonitorGate180(c)
  <2>1. Goto(c, "request") /\ "request" \in PcLabels
    BY <1>3 DEF PassMonitorGate180, PassMonitorGate, PcLabels
  <2>4. CpuOK(c) /\ PassMonitorGate(c)
    BY <1>3, InvariantByCpu DEF PassMonitorGate180
  <2>5. /\ isMonitorMode' \in [Cpus -> BOOLEAN]
        /\ isMonitorModePending' \in [Cpus -> BOOLEAN] /\ ~isMonitorModePending'[c]
    BY <1>1, <2>4 DEF CpuTypes, PassMonitorGate, modeVars
  <2>6. CpuOK(c)'
    BY <1>2, <2>5 DEF CpuOK
  <2>2. CpuTypes' /\ CpuOK(c)'
    BY <1>1, <1>2, <2>1, <2>5, <2>6, GotoGoes DEF CpuTypes
  <2>3. OnlyCpu(c)
    BY <1>1, <1>2, <1>3, <2>1, GotoGoes
       DEF CpuTypes, PassMonitorGate180, PassMonitorGate, OnlyCpu, modeVars
  <2> QED BY <1>2, <2>2, <2>3, OnlyCpuKeeps
<1>4. CASE WaitAtMonitorGate180(c)
  <2>1. EndStep(c)
    BY <1>4 DEF WaitAtMonitorGate180, WaitAtMonitorGate
  <2>2. CpuTypes' /\ CpuOK(c)'
    BY <1>1, <1>2, <1>4, <2>1, EndStepGoes, InvariantByCpu
       DEF CpuTypes, WaitAtMonitorGate180, WaitAtMonitorGate, CpuOK, modeVars
  <2>3. OnlyCpu(c)
    BY <1>1, <1>2, <1>4, <2>1, EndStepGoes
       DEF CpuTypes, WaitAtMonitorGate180, WaitAtMonitorGate, OnlyCpu, modeVars
  <2> QED BY <1>2, <2>2, <2>3, OnlyCpuKeeps
<1> QED BY <1>3, <1>4

LEMMA ServeRequestKeeps ==
    ASSUME IInv, NEW c \in Cpus, ServeRequest180(c) PROVE IInv'
<1>1. CpuTypes /\ ~exchPending[c] /\ CpuOK(c)
  BY InvariantByCpu DEF IInv, PendingExitIsNew, ServeRequest180
<1>2. loading' = loading /\ savedMonitor' = savedMonitor /\ doChangeMode' = doChangeMode
      /\ doDeadstart' = doDeadstart
  BY DEF ServeRequest180, stateVars, opVars
<1>3. /\ cpuPc' \in [Cpus -> PcLabels] /\ \A d \in Cpus \ {c} : cpuPc'[d] = cpuPc[d]
      /\ isStopped'[c] => cpuPc'[c] \in {"step", "loop"}
  <2>1. IF isStopped'[c] THEN EndStep(c) ELSE Goto(c, "execute")
    BY DEF ServeRequest180
  <2>2. "execute" \in PcLabels
    BY DEF PcLabels
  <2> QED BY <1>1, <2>1, <2>2, EndStepGoes, GotoGoes
<1>4. CASE ppRequestingExchange[c] # None /\ Honours(c)
  <2>1. PICK result \in ExchangeResults :
            /\ ExchangeJump180(c, doChangeMode[c], result, opAtWord[c], isErrorExitPending[c])
            /\ SetPending(c)
    BY <1>4 DEF ServeRequest180
  <2>2. doChangeMode[c] \in BOOLEAN /\ isErrorExitPending[c] \in BOOLEAN
    BY <1>1 DEF CpuTypes
  <2>3. CpuTypes' /\ CpuOK(c)'
    BY <1>1, <1>2, <1>3, <2>1, <2>2, JumpSets DEF CpuTypes, CpuOK
  <2>4. OnlyCpu(c)
    BY <1>1, <1>2, <1>3, <2>1, <2>2, JumpSets DEF OnlyCpu
  <2> QED BY <1>2, <2>3, <2>4, OnlyCpuKeeps
<1>5. CASE ~(ppRequestingExchange[c] # None /\ Honours(c))
  <2>1. UNCHANGED <<isStopped, isMonitorMode, isMonitorModePending, exchPending,
                    isErrorExitPending>>
    BY <1>5 DEF ServeRequest180, modeVars, haltVars
  <2>2. CpuTypes' /\ CpuOK(c)'
    BY <1>1, <1>2, <1>3, <2>1 DEF CpuTypes, CpuOK
  <2>3. OnlyCpu(c)
    BY <1>1, <1>2, <1>3, <2>1 DEF OnlyCpu
  <2> QED BY <1>2, <2>2, <2>3, OnlyCpuKeeps
<1> QED BY <1>4, <1>5

LEMMA WordKeeps ==
    ASSUME IInv, NEW c \in Cpus,
           ExecuteWord180(c) \/ ErrorStop180(c) \/ FetchFailsInMonitorMode(c)
    PROVE  IInv'
<1>1. CpuTypes /\ CpuOK(c) /\ ~exchPending[c]
  BY InvariantByCpu DEF IInv, ExecuteWord180, ErrorStop180, FetchFailsInMonitorMode
<1>2. UNCHANGED <<isMonitorMode, isMonitorModePending, loading, savedMonitor, doChangeMode,
                  doDeadstart>>
  BY DEF ExecuteWord180, ExecuteWord, ErrorStop180, ErrorStop, FetchFailsInMonitorMode,
       modeVars, requestVars, opVars, stateVars, vars180
<1>3. CASE ExecuteWord180(c) \/ FetchFailsInMonitorMode(c)
  <2>1. EndStep(c)
    BY <1>3 DEF ExecuteWord180, ExecuteWord, FetchFailsInMonitorMode
  <2>2. CpuTypes' /\ CpuOK(c)'
    BY <1>1, <1>2, <1>3, <2>1, EndStepGoes
       DEF CpuTypes, CpuOK, ExecuteWord180, ExecuteWord, FetchFailsInMonitorMode, vars180
  <2>3. OnlyCpu(c)
    BY <1>1, <1>2, <1>3, <2>1, EndStepGoes
       DEF CpuTypes, OnlyCpu, ExecuteWord180, ExecuteWord, FetchFailsInMonitorMode, vars180
  <2> QED BY <1>2, <2>2, <2>3, OnlyCpuKeeps
<1>4. CASE ErrorStop180(c)
  <2>1. Goto(c, "errorExit") /\ "errorExit" \in PcLabels
    BY <1>4 DEF ErrorStop180, ErrorStop, PcLabels
  <2>2. CpuTypes' /\ CpuOK(c)'
    BY <1>1, <1>2, <1>4, <2>1, GotoGoes DEF CpuTypes, CpuOK, ErrorStop180, ErrorStop, vars180
  <2>3. OnlyCpu(c)
    BY <1>1, <1>2, <1>4, <2>1, GotoGoes DEF CpuTypes, OnlyCpu, ErrorStop180, ErrorStop, vars180
  <2> QED BY <1>2, <2>2, <2>3, OnlyCpuKeeps
<1> QED BY <1>3, <1>4

LEMMA ExchangeKeeps ==
    ASSUME IInv, NEW c \in Cpus, ExchangeInstruction180(c) \/ ErrorExit180(c)
    PROVE  IInv'
<1>1. CpuTypes /\ ~exchPending[c] /\ CpuOK(c)
  BY InvariantByCpu DEF IInv, PendingExitIsNew, ExchangeInstruction180, ErrorExit180
<1>2. loading' = loading /\ savedMonitor' = savedMonitor /\ doChangeMode' = doChangeMode
      /\ doDeadstart' = doDeadstart /\ SetPending(c)
  BY DEF ExchangeInstruction180, ErrorExit180, requestVars, stateVars, opVars
<1>3. PICK result \in ExchangeResults : \E atWord : \E exitPending \in BOOLEAN :
          /\ ExchangeJump180(c, TRUE, result, atWord, exitPending)
          /\ \/ EndStep(c)
             \/ Goto(c, "continue")
             \/ Goto(c, "errorExit") /\ ~exchPending'[c]
  <2>1. CASE ErrorExit180(c)
    <3>1. isErrorExitPending[c] \in BOOLEAN
      BY <1>1 DEF CpuTypes
    <3> QED BY <2>1, <3>1, Zenon DEF ErrorExit180
  <2>2. CASE ExchangeInstruction180(c)
    <3>1. PICK result \in ExchangeResults :
              /\ ExchangeJump180(c, TRUE, result, FALSE, FALSE)
              /\ CASE result = "badAddress" \/ exchPending'[c] -> Goto(c, "continue")
                   [] isErrorExitPending'[c] -> Goto(c, "errorExit")
                   [] OTHER -> EndStep(c)
      BY <2>2, Zenon DEF ExchangeInstruction180
    <3>2. isErrorExitPending'[c] => ~exchPending'[c]
      BY <1>1, <1>2, <3>1, JumpSets
    <3>3. \/ EndStep(c)
          \/ Goto(c, "continue")
          \/ Goto(c, "errorExit") /\ ~exchPending'[c]
      BY <3>1, <3>2
    <3> QED BY <3>1, <3>3, Zenon
  <2> QED BY <2>1, <2>2, Zenon
<1>4. /\ cpuPc' \in [Cpus -> PcLabels] /\ \A d \in Cpus \ {c} : cpuPc'[d] = cpuPc[d]
      /\ exchPending'[c] => cpuPc'[c] \in {"step", "loop", "continue"}
  <2>1. "continue" \in PcLabels /\ "errorExit" \in PcLabels
    BY DEF PcLabels
  <2> QED BY <1>1, <1>3, <2>1, EndStepGoes, GotoGoes
<1>5. PICK atWord : \E doChange, exitPending \in BOOLEAN :
          ExchangeJump180(c, doChange, result, atWord, exitPending)
  BY <1>3, TRUE \in BOOLEAN, Zenon
<1>6. /\ isStopped' \in [Cpus -> BOOLEAN] /\ isMonitorMode' \in [Cpus -> BOOLEAN]
      /\ isMonitorModePending' \in [Cpus -> BOOLEAN]
      /\ exchPending' \in [Cpus -> BOOLEAN] /\ isErrorExitPending' \in [Cpus -> BOOLEAN]
      /\ isMonitorModePending'[c] => isMonitorMode'[c]
      /\ exchPending'[c] => isStopped'[c] /\ isMonitorMode'[c]
      /\ \A d \in Cpus \ {c} :
            /\ isStopped'[d] = isStopped[d] /\ isMonitorMode'[d] = isMonitorMode[d]
            /\ isMonitorModePending'[d] = isMonitorModePending[d]
            /\ exchPending'[d] = exchPending[d]
  BY <1>1, <1>2, <1>5, JumpSets
<1>7. CpuTypes' /\ CpuOK(c)'
  BY <1>1, <1>2, <1>4, <1>6 DEF CpuTypes, CpuOK
<1>8. OnlyCpu(c)
  BY <1>2, <1>4, <1>6 DEF OnlyCpu
<1> QED BY <1>2, <1>7, <1>8, OnlyCpuKeeps

-----------------------------------------------------------------------------
(* The threads, and the theorems.                                          *)

\* Round its loop a thread goes into cpuStep; nothing is deadstarted.
LEMMA LoopsKeep ==
    ASSUME IInv, MainLoop180 \/ \E c \in Cpus \ {0} : CpuLoop180(c)
    PROVE  IInv'
<1>1. CpuTypes /\ NoDeadstart /\ 0 \in Cpus /\ \A d \in Cpus : CpuOK(d)
  BY InvariantByCpu DEF IInv
<1>2. CASE MainLoop180
  <2>1. UNCHANGED <<flags, isErrorExitPending, doChangeMode, doDeadstart>>
    BY <1>1, <1>2 DEF NoDeadstart, MainLoop180, MainLoop, vars180, stateVars, flags, modeVars,
         haltVars, requestVars, threadVars, opVars
  <2> QED BY <1>1, <2>1, InvariantByCpuNext DEF flags, CpuTypes, NoDeadstart, CpuOK
<1>3. ASSUME NEW c \in Cpus \ {0}, CpuLoop180(c) PROVE IInv'
  <2>1. /\ UNCHANGED <<isStopped, isMonitorMode, isMonitorModePending, isErrorExitPending,
                       doChangeMode, doDeadstart, exchPending, savedMonitor, loading>>
        /\ cpuPc' = [cpuPc EXCEPT ![c] = "step"]
    BY <1>1, <1>3 DEF NoDeadstart, CpuLoop180, CpuLoop, vars180, stateVars, modeVars,
         haltVars, requestVars, opVars, BeginSteps
  <2>2. CpuTypes' /\ NoDeadstart' /\ \A d \in Cpus : CpuOK(d)'
    BY <1>1, <2>1 DEF CpuTypes, NoDeadstart, CpuOK, PcLabels
  <2> QED BY <2>2, InvariantByCpuNext
<1> QED BY <1>2, <1>3

\* A PP's requests are none of these flags; after the last PP CPU 0 begins a step.
LEMMA PpStepKeeps ==
    ASSUME IInv, NEW p \in Pps, PpStep180(p) PROVE IInv'
<1>1. CpuTypes /\ NoDeadstart /\ 0 \in Cpus /\ \A d \in Cpus : CpuOK(d)
  BY InvariantByCpu DEF IInv
<1>2. UNCHANGED <<isStopped, isMonitorMode, isMonitorModePending, isErrorExitPending,
                  doDeadstart, exchPending, savedMonitor, loading>>
  BY DEF PpStep180, PpStep, PpWaits, PpOther, PpOpEXN, PpOsBoundsFault, vars180, stateVars,
       modeVars, haltVars, opVars
<1>3. cpuPc' = cpuPc \/ cpuPc' = [cpuPc EXCEPT ![0] = "step"]
  BY DEF PpStep180, PpStep, PpWaits, PpOther, PpOpEXN, PpOsBoundsFault, NextPp, threadVars
<1>4. doChangeMode' \in [Cpus -> BOOLEAN]
  <2>1. ASSUME NEW op \in ExnOps, PpOpEXN(p, op) PROVE doChangeMode' \in [Cpus -> BOOLEAN]
    BY <1>1, <2>1 DEF PpOpEXN, requestVars, CpuTypes, ExnOps
  <2>2. CASE PpWaits(p) \/ PpOther(p) \/ PpOsBoundsFault(p)
    BY <1>1, <2>2 DEF PpWaits, PpOther, PpOsBoundsFault, requestVars, CpuTypes
  <2> QED BY <2>1, <2>2 DEF PpStep180, PpStep
<1>5. CpuTypes' /\ NoDeadstart' /\ \A d \in Cpus : CpuOK(d)'
  BY <1>1, <1>2, <1>3, <1>4 DEF CpuTypes, NoDeadstart, CpuOK, PcLabels
<1> QED BY <1>5, InvariantByCpuNext

LEMMA CpuStepKeeps ==
    ASSUME IInv, NEW c \in Cpus, CpuStep180(c) PROVE IInv'
  BY Load170StateKeeps, Compare170ModeKeeps, InterruptKeeps, Step180Keeps, HaltKeeps, GateKeeps,
     ServeRequestKeeps, WordKeeps, ErrorExitTo180Keeps, ExchangeKeeps, SystemCallKeeps
     DEF CpuStep180

LEMMA InitIInv == Init180 => IInv
<1> SUFFICES ASSUME Init180 PROVE IInv
  OBVIOUS
<1>1. CpuTypes
  BY DEF Init180, Init, CpuTypes, PcLabels
<1>2. NoDeadstart /\ PendingExitIsNew /\ WaiterIsInMonitorMode /\ ExitsFromMonitorMode
  BY DEF Init180, Init, NoDeadstart, PendingExitIsNew, WaiterIsInMonitorMode,
       ExitsFromMonitorMode
<1> QED BY <1>1, <1>2 DEF IInv

LEMMA NextIInv == IInv /\ [Next180]_allVars => IInv'
<1> SUFFICES ASSUME IInv, [Next180]_allVars PROVE IInv'
  OBVIOUS
<1>1. 0 \in Cpus
  OBVIOUS
<1>2. CASE UNCHANGED allVars
  BY <1>2 DEF allVars, vars180, stateVars, vars, modeVars, haltVars, requestVars, threadVars,
       opVars, IInv, CpuTypes, NoDeadstart, PendingExitIsNew, WaiterIsInMonitorMode,
       ExitsFromMonitorMode
<1>3. CASE MainThread180
  BY <1>1, <1>3, LoopsKeep, CpuStepKeeps, PpStepKeeps DEF MainThread180
<1>4. CASE \E c \in Cpus \ {0} : CpuThread180(c)
  BY <1>4, LoopsKeep, CpuStepKeeps DEF CpuThread180
<1> QED BY <1>2, <1>3, <1>4 DEF Next180

LEMMA Invariant180 == Spec180 => []IInv
  BY InitIInv, NextIInv, PTL DEF Spec180

\* A CPU waits for monitor mode only while it is in it (isMonitorModePending, set by
\* exchanges under the mutex, cleared by changes of state without it), whatever the
\* programs of either state do and the other CPU at any moment.
THEOREM WaitersAreInMonitorMode == Spec180 => []WaiterIsInMonitorMode
<1>1. IInv => WaiterIsInMonitorMode
  BY DEF IInv
<1> QED BY <1>1, Invariant180, PTL

\* An exit to 180 state is pending (pendingAction) only for an error in monitor mode
\* that has stopped the CPU, and never when a PP's request or an error exit comes.
THEOREM ExitsLeaveMonitorMode == Spec180 => [](ExitsFromMonitorMode /\ PendingExitIsNew)
<1>1. IInv => ExitsFromMonitorMode /\ PendingExitIsNew
  BY DEF IInv
<1> QED BY <1>1, Invariant180, PTL

=============================================================================
