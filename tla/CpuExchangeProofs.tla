------------------------- MODULE CpuExchangeProofs -------------------------
(***************************************************************************)
(* Proofs about CpuExchange, for every number of PPs, either number of     *)
(* CPUs and every combination of features: its types, that monitor mode is *)
(* held by one CPU at a time and never waited for by both, and that the    *)
(* exchange machinery implements MonitorLock.                              *)
(***************************************************************************)
EXTENDS CpuExchange, TLAPS

USE CpusAssumption, PpuCountAssumption, FeatureAssumption,
    StepsAssumption, DeadstartsAssumption

-----------------------------------------------------------------------------
(* Types.                                                                  *)

\* A CPU inside cpuStep has a step left to finish: what keeps stepsLeft a number
\* of calls.
StepsRemain == \A c \in Cpus : cpuPc[c] \notin {"loop", "wasReset"} => stepsLeft[c] > 0

TypeInv == TypeOK /\ StepsRemain

CpuTypes == /\ isStopped \in [Cpus -> BOOLEAN]
            /\ isMonitorMode \in [Cpus -> BOOLEAN]
            /\ isMonitorModePending \in [Cpus -> BOOLEAN]
            /\ isErrorExitPending \in [Cpus -> BOOLEAN]
            /\ opAtWord \in [Cpus -> BOOLEAN]

RequestTypes == /\ ppRequestingExchange \in [Cpus -> Pps \cup {None}]
                /\ doChangeMode \in [Cpus -> BOOLEAN]

PpTypes == /\ exchangingCpu \in [Pps -> Cpus \cup {None}]
           /\ heldExn \in [Pps -> ExnOps \cup {NoOp}]

ThreadTypes == /\ mainPhase \in {"loop", "barrel", "cpu"} /\ barrel \in Pps
               /\ cpuPc \in [Cpus -> PcLabels]
               /\ stepsLeft \in [Cpus -> 0 .. StepsPerLoop]
               /\ StepsRemain

OpTypes == doDeadstart \in [Cpus -> BOOLEAN] /\ forgotten \subseteq Cpus

LEMMA TypeParts ==
  TypeInv <=> CpuTypes /\ RequestTypes /\ PpTypes /\ ThreadTypes /\ OpTypes
  BY DEF TypeInv, TypeOK, CpuTypes, RequestTypes, PpTypes, ThreadTypes, OpTypes

\* The end of a step, and a step that goes on, keep the control part typed.
LEMMA EndStepTypes ==
  ASSUME ThreadTypes, NEW c \in Cpus, cpuPc[c] \notin {"loop", "wasReset"}, EndStep(c)
  PROVE  ThreadTypes'
  BY DEF ThreadTypes, StepsRemain, EndStep, PcLabels

LEMMA GotoTypes ==
  ASSUME ThreadTypes, NEW c \in Cpus, cpuPc[c] \notin {"loop", "wasReset"}, NEW l \in PcLabels,
         Goto(c, l)
  PROVE  ThreadTypes'
  BY DEF ThreadTypes, StepsRemain, Goto, mainVars, PcLabels

\* An exchange jump followed by the test for the other CPU keeps the CPUs typed.
LEMMA JumpTypes ==
  ASSUME CpuTypes, NEW c \in Cpus, NEW doChange \in BOOLEAN, NEW atWord \in BOOLEAN,
         NEW exitPending \in BOOLEAN, NEW result \in ExchangeResults,
         ExchangeJump(c, doChange, result, atWord, exitPending), SetPending(c)
  PROVE  CpuTypes'
  BY DEF CpuTypes, ExchangeJump, SetPending, MustWait

\* A reset keeps CPU and request types; the mark is its caller's.
LEMMA ResetTypes ==
  ASSUME CpuTypes, RequestTypes, OpTypes, NEW c \in Cpus, Reset(c),
         ClearMark(c) \/ UNCHANGED doDeadstart
  PROVE  CpuTypes' /\ RequestTypes' /\ OpTypes'
  <1>1. CpuTypes' /\ RequestTypes'
    BY DEF CpuTypes, RequestTypes, Reset
  <1>2. OpTypes'
    BY DEF OpTypes, Reset, ClearMark
  <1>3. QED BY <1>1, <1>2

LEMMA PpsNotNone == None \notin Pps /\ None \notin Cpus
  BY DEF None, Pps

LEMMA InitTypes == Init => TypeInv
  BY DEF Init, TypeInv, TypeOK, StepsRemain, PcLabels, Pps, None

LEMMA CpuStepTypes ==
  ASSUME TypeInv, NEW c \in Cpus, CpuStep(c)
  PROVE  TypeInv'
  <1>0. CpuTypes /\ RequestTypes /\ PpTypes /\ ThreadTypes /\ OpTypes
    BY TypeParts
  <1>1. SUFFICES CpuTypes' /\ RequestTypes' /\ PpTypes' /\ ThreadTypes' /\ OpTypes'
    BY TypeParts DEF TypeInv, TypeOK, CpuTypes, RequestTypes, PpTypes, ThreadTypes, OpTypes, StepsRemain
  <1>2. CASE PassMonitorGate(c)
    <2>1. ThreadTypes'
      BY <1>0, <1>2, GotoTypes DEF PassMonitorGate, PcLabels
    <2>2. QED
      BY <1>0, <1>2, <2>1 DEF PassMonitorGate, CpuTypes, RequestTypes, PpTypes, OpTypes,
           modeVars, haltVars, requestVars, ppVars, opVars
  <1>3. CASE WaitAtMonitorGate(c)
    <2>1. ThreadTypes'
      BY <1>0, <1>3, EndStepTypes DEF WaitAtMonitorGate
    <2>2. QED
      BY <1>0, <1>3, <2>1 DEF WaitAtMonitorGate, CpuTypes, RequestTypes, PpTypes, OpTypes,
           modeVars, haltVars, ppVars
  <1>4. CASE ServeRequest(c)
    <2>1. ThreadTypes'
      BY <1>0, <1>4, EndStepTypes, GotoTypes DEF ServeRequest, PcLabels
    <2>2. CpuTypes'
      <3>1. CASE UNCHANGED <<modeVars, haltVars>>
        BY <1>0, <3>1 DEF CpuTypes, modeVars, haltVars
      <3>2. CASE \E result \in ExchangeResults :
                   /\ ExchangeJump(c, doChangeMode[c], result, opAtWord[c], isErrorExitPending[c])
                   /\ SetPending(c)
        <4>1. PICK result \in ExchangeResults :
                /\ ExchangeJump(c, doChangeMode[c], result, opAtWord[c], isErrorExitPending[c])
                /\ SetPending(c)
          BY <3>2
        <4>2. /\ doChangeMode[c] \in BOOLEAN /\ opAtWord[c] \in BOOLEAN
              /\ isErrorExitPending[c] \in BOOLEAN
          BY <1>0 DEF CpuTypes, RequestTypes
        <4>3. QED
          BY <1>0, <4>1, <4>2, JumpTypes
      <3>3. QED
        BY <1>4, <3>1, <3>2 DEF ServeRequest
    <2>3. QED
      BY <1>0, <1>4, <2>1, <2>2 DEF ServeRequest, RequestTypes, PpTypes, OpTypes, ppVars
  <1>5. CASE ExecuteWord(c) \/ ProgramStop(c)
    <2>1. ThreadTypes'
      BY <1>0, <1>5, EndStepTypes DEF ExecuteWord, ProgramStop
    <2>2. QED
      <3>1. CpuTypes'
        BY <1>0, <1>5 DEF ExecuteWord, ProgramStop, CpuTypes, modeVars
      <3>2. UNCHANGED <<requestVars, ppVars, opVars>>
        BY <1>5 DEF ExecuteWord, ProgramStop
      <3>3. QED
        BY <1>0, <2>1, <3>1, <3>2 DEF RequestTypes, PpTypes, OpTypes, requestVars, ppVars, opVars
  <1>6. CASE ErrorStop(c)
    <2>1. ThreadTypes'
      BY <1>0, <1>6, GotoTypes DEF ErrorStop, PcLabels
    <2>2. QED
      BY <1>0, <1>6, <2>1 DEF ErrorStop, CpuTypes, RequestTypes, PpTypes, OpTypes,
           modeVars, requestVars, ppVars, opVars
  <1>7. CASE ExchangeInstruction(c)
    <2>1. ThreadTypes'
      BY <1>0, <1>7, EndStepTypes, GotoTypes DEF ExchangeInstruction, PcLabels
    <2>2. CpuTypes'
      BY <1>0, <1>7, JumpTypes DEF ExchangeInstruction
    <2>3. QED
      BY <1>0, <1>7, <2>1, <2>2 DEF ExchangeInstruction, RequestTypes, PpTypes, OpTypes,
           requestVars, ppVars, opVars
  <1>8. CASE ErrorExit(c)
    <2>1. ThreadTypes'
      BY <1>0, <1>8, EndStepTypes DEF ErrorExit
    <2>2. CpuTypes'
      <3>1. opAtWord[c] \in BOOLEAN /\ isErrorExitPending[c] \in BOOLEAN
        BY <1>0 DEF CpuTypes
      <3>2. QED BY <1>0, <1>8, <3>1, JumpTypes DEF ErrorExit
    <2>3. QED
      BY <1>0, <1>8, <2>1, <2>2 DEF ErrorExit, RequestTypes, PpTypes, OpTypes,
           requestVars, ppVars, opVars
  <1>9. QED
    BY <1>2, <1>3, <1>4, <1>5, <1>6, <1>7, <1>8 DEF CpuStep

LEMMA NextPpTypes ==
  ASSUME ThreadTypes, NextPp, mainPhase = "barrel"
  PROVE  ThreadTypes'
  BY DEF ThreadTypes, StepsRemain, NextPp, threadVars, PcLabels, Pps

LEMMA PpStepTypes ==
  ASSUME TypeInv, NEW p \in Pps, PpStep(p)
  PROVE  TypeInv'
  <1>0. CpuTypes /\ RequestTypes /\ PpTypes /\ ThreadTypes /\ OpTypes
    BY TypeParts
  <1>1. ThreadTypes'
    BY <1>0, NextPpTypes DEF PpStep, PpWaits, PpOther, PpOpEXN
  <1>2. CpuTypes' /\ OpTypes'
    BY <1>0 DEF PpStep, PpWaits, PpOther, PpOpEXN, CpuTypes, OpTypes, modeVars, haltVars, opVars
  <1>3. RequestTypes' /\ PpTypes'
    <2>1. CASE PpWaits(p) \/ PpOther(p)
      BY <1>0, <2>1 DEF PpWaits, PpOther, RequestTypes, PpTypes, requestVars, ppVars
    <2>2. CASE \E op \in ExnOps : PpOpEXN(p, op)
      <3>1. PICK op \in ExnOps : PpOpEXN(p, op)
        BY <2>2
      <3>2. op.cpu \in Cpus
        BY DEF ExnOps
      <3>3. RequestTypes'
        BY <1>0, <3>1, <3>2 DEF PpOpEXN, RequestTypes, requestVars
      <3>4. PpTypes'
        BY <1>0, <3>1, <3>2, SMTT(60) DEF PpOpEXN, PpTypes
      <3>5. QED BY <3>3, <3>4
    <2>3. QED BY <2>1, <2>2 DEF PpStep
  <1>4. QED
    BY <1>1, <1>2, <1>3 DEF TypeInv, TypeOK, CpuTypes, RequestTypes, PpTypes, ThreadTypes, OpTypes, StepsRemain

LEMMA NextTypes ==
  ASSUME TypeInv, [Next]_vars
  PROVE  TypeInv'
  <1>0. CpuTypes /\ RequestTypes /\ PpTypes /\ ThreadTypes /\ OpTypes
    BY TypeParts
  <1>s. ASSUME CpuTypes' /\ RequestTypes' /\ PpTypes' /\ ThreadTypes' /\ OpTypes'
        PROVE  TypeInv'
    BY <1>s DEF TypeInv, TypeOK, CpuTypes, RequestTypes, PpTypes, ThreadTypes, OpTypes, StepsRemain
  <1>1. CASE OpCmdDeadstart
    BY <1>0, <1>1, <1>s DEF OpCmdDeadstart, CpuTypes, RequestTypes, PpTypes, ThreadTypes, OpTypes,
         StepsRemain, modeVars, haltVars, requestVars, ppVars, mainVars, threadVars
  <1>2. CASE MainLoop
    <2>1. CpuTypes' /\ RequestTypes' /\ OpTypes'
      BY <1>0, <1>2, ResetTypes
         DEF MainLoop, CpuTypes, RequestTypes, OpTypes, modeVars, haltVars, requestVars, opVars
    <2>2. PpTypes'
      BY <1>0, <1>2 DEF MainLoop, PpTypes, ppVars
    <2>3. ThreadTypes'
      BY <1>0, <1>2 DEF MainLoop, ThreadTypes, StepsRemain, threadVars, Pps
    <2>4. QED BY <2>1, <2>2, <2>3, <1>s
  <1>3. ASSUME NEW c \in Cpus, CpuStep(c) PROVE TypeInv'
    BY <1>3, CpuStepTypes
  <1>4. ASSUME NEW p \in Pps, PpStep(p) PROVE TypeInv'
    BY <1>4, PpStepTypes
  <1>5. ASSUME NEW c \in Cpus, CpuLoop(c) PROVE TypeInv'
    <2>1. CpuTypes' /\ RequestTypes' /\ OpTypes'
      BY <1>0, <1>5, ResetTypes
         DEF CpuLoop, CpuTypes, RequestTypes, OpTypes, modeVars, haltVars, requestVars, opVars
    <2>2. PpTypes'
      BY <1>0, <1>5 DEF CpuLoop, PpTypes, ppVars
    <2>3. ThreadTypes'
      BY <1>0, <1>5 DEF CpuLoop, BeginSteps, ThreadTypes, StepsRemain, mainVars, PcLabels
    <2>4. QED BY <2>1, <2>2, <2>3, <1>s
  <1>9. ASSUME NEW c \in Cpus, ClearDoDeadstart(c) PROVE TypeInv'
    <2>1. CpuTypes' /\ RequestTypes' /\ PpTypes' /\ OpTypes'
      BY <1>0, <1>9 DEF ClearDoDeadstart, ClearMark, CpuTypes, RequestTypes, PpTypes, OpTypes,
           modeVars, haltVars, requestVars, ppVars
    <2>2. ThreadTypes'
      BY <1>0, <1>9 DEF ClearDoDeadstart, BeginSteps, ThreadTypes, StepsRemain, mainVars, PcLabels
    <2>3. QED BY <2>1, <2>2, <1>s
  <1>6. CASE UNCHANGED vars
    BY <1>0, <1>6, <1>s DEF vars, CpuTypes, RequestTypes, PpTypes, ThreadTypes, OpTypes, StepsRemain,
         modeVars, haltVars, requestVars, ppVars, mainVars, threadVars, opVars
  <1>7. 0 \in Cpus
    OBVIOUS
  <1>8. QED
    BY <1>1, <1>2, <1>3, <1>4, <1>5, <1>6, <1>7, <1>9 DEF Next, MainThread, CpuThread

\* Every variable always has its type, and no thread calls cpuStep more often
\* than a turn of its loop does.
THEOREM Types == Spec => []TypeInv
  BY InitTypes, NextTypes, PTL DEF Spec

THEOREM TypeCorrect == Spec => []TypeOK
  <1>1. TypeInv => TypeOK
    BY DEF TypeInv
  <1>2. QED BY <1>1, Types, PTL

-----------------------------------------------------------------------------
(* Monitor mode.                                                           *)

\* All that a step can do to the two flags: let a waiting CPU in, set the flag
\* of one CPU and test the other's, or clear both flags of one CPU.
GateOpens(c) ==
    /\ isMonitorModePending[c] /\ MonitorIsFree(c)
    /\ isMonitorMode' = [isMonitorMode EXCEPT ![c] = TRUE]
    /\ isMonitorModePending' = [isMonitorModePending EXCEPT ![c] = FALSE]

ModeSet(c) ==
    /\ \E mode \in BOOLEAN : isMonitorMode' = [isMonitorMode EXCEPT ![c] = mode]
    /\ SetPending(c)

ModeCleared(c) ==
    /\ isMonitorMode' = [isMonitorMode EXCEPT ![c] = FALSE]
    /\ isMonitorModePending' = [isMonitorModePending EXCEPT ![c] = FALSE]

ModeStep == \/ UNCHANGED modeVars
            \/ \E c \in Cpus : GateOpens(c) \/ ModeSet(c) \/ ModeCleared(c)

LEMMA JumpSetsMode ==
  ASSUME TypeOK, NEW c \in Cpus, NEW doChange \in BOOLEAN, NEW atWord, NEW exitPending,
         NEW result, ExchangeJump(c, doChange, result, atWord, exitPending)
  PROVE  \E mode \in BOOLEAN : isMonitorMode' = [isMonitorMode EXCEPT ![c] = mode]
  <1>1. PICK mode \in BOOLEAN : mode = (isMonitorMode[c] # (result # "badAddress" /\ doChange))
    OBVIOUS
  <1>2. isMonitorMode' = [isMonitorMode EXCEPT ![c] = mode]
    BY <1>1 DEF ExchangeJump
  <1>3. QED BY <1>2

LEMMA NextModeStep ==
  ASSUME TypeOK, [Next]_vars
  PROVE  ModeStep
  <1>1. ASSUME NEW c \in Cpus, CpuStep(c) PROVE ModeStep
    <2>1. CASE PassMonitorGate(c)
      BY <2>1 DEF PassMonitorGate, ModeStep, GateOpens
    <2>2. CASE WaitAtMonitorGate(c) \/ ExecuteWord(c) \/ ProgramStop(c) \/ ErrorStop(c)
      BY <2>2 DEF WaitAtMonitorGate, ExecuteWord, ProgramStop, ErrorStop, ModeStep
    <2>3. CASE ServeRequest(c)
      <3>1. doChangeMode[c] \in BOOLEAN
        BY DEF TypeOK
      <3>2. QED BY <2>3, <3>1, JumpSetsMode DEF ServeRequest, ModeStep, ModeSet, modeVars
    <2>4. CASE ExchangeInstruction(c) \/ ErrorExit(c)
      BY <2>4, JumpSetsMode DEF ExchangeInstruction, ErrorExit, ModeStep, ModeSet
    <2>5. QED
      BY <1>1, <2>1, <2>2, <2>3, <2>4 DEF CpuStep
  <1>2. ASSUME NEW c \in Cpus, Reset(c) PROVE ModeStep
    BY <1>2 DEF Reset, ModeStep, ModeCleared
  <1>3. ASSUME NEW p \in Pps, PpStep(p) PROVE ModeStep
    BY <1>3 DEF PpStep, PpWaits, PpOther, PpOpEXN, ModeStep
  <1>4. CASE OpCmdDeadstart \/ UNCHANGED vars
    BY <1>4 DEF OpCmdDeadstart, vars, ModeStep
  <1>5. 0 \in Cpus
    OBVIOUS
  <1>6. CASE MainLoop
    BY <1>2, <1>5, <1>6 DEF MainLoop, ModeStep
  <1>7. ASSUME NEW c \in Cpus, CpuLoop(c) \/ ClearDoDeadstart(c) PROVE ModeStep
    BY <1>2, <1>7 DEF CpuLoop, ClearDoDeadstart, ModeStep
  <1>8. QED
    BY <1>1, <1>3, <1>4, <1>5, <1>6, <1>7 DEF Next, MainThread, CpuThread

ModeInv == MonitorModeExclusive /\ NoMutualWait

LEMMA ModeStepKeepsModeInv ==
  ASSUME TypeOK, ModeInv, ModeStep
  PROVE  ModeInv'
  <1> USE DEF TypeOK, ModeInv, MonitorModeExclusive, NoMutualWait, HoldsMonitor
  <1>1. CASE UNCHANGED modeVars
    BY <1>1 DEF modeVars
  <1>2. ASSUME NEW c \in Cpus, GateOpens(c) PROVE ModeInv'
    BY <1>2 DEF GateOpens, MonitorIsFree, Dual, Other
  <1>3. ASSUME NEW c \in Cpus, ModeSet(c) PROVE ModeInv'
    BY <1>3 DEF ModeSet, SetPending, MustWait, Dual, Other
  <1>4. ASSUME NEW c \in Cpus, ModeCleared(c) PROVE ModeInv'
    BY <1>4 DEF ModeCleared
  <1>5. QED BY <1>1, <1>2, <1>3, <1>4 DEF ModeStep

LEMMA InitModeInv == Init => ModeInv
  BY DEF Init, ModeInv, MonitorModeExclusive, NoMutualWait, HoldsMonitor

LEMMA ModeInvariant == Spec => []ModeInv
  <1>1. TypeOK /\ ModeInv /\ [Next]_vars => ModeInv'
    BY NextModeStep, ModeStepKeepsModeInv
  <1>2. QED BY <1>1, InitModeInv, TypeCorrect, PTL DEF Spec

\* At any moment at most one CPU holds monitor mode: XJ, PP exchanges, error
\* exits and resets all go through the test of the other CPU's flags.
THEOREM MonitorModeIsExclusive == Spec => []MonitorModeExclusive
  BY ModeInvariant, PTL DEF ModeInv

\* The two CPUs never wait for each other at the gate of cpuStep.
THEOREM CpusNeverWaitForEachOther == Spec => []NoMutualWait
  BY ModeInvariant, PTL DEF ModeInv

\* Each step that touches the flags is a step of the abstract lock.
LEMMA ModeStepRefines ==
  ASSUME TypeOK, ModeInv, ModeStep
  PROVE  [Lock!Next]_(Lock!lockVars)
  <1> DEFINE H == {c \in Cpus : HoldsMonitor(c)}
             W == {c \in Cpus : isMonitorModePending[c]}
  <1> USE DEF TypeOK, ModeInv, MonitorModeExclusive, NoMutualWait, HoldsMonitor
  <1>1. CASE UNCHANGED modeVars
    BY <1>1 DEF modeVars, Lock!lockVars
  <1>2. ASSUME NEW c \in Cpus, GateOpens(c) PROVE Lock!Grant(c)
    BY <1>2 DEF GateOpens, MonitorIsFree, Dual, Other, Lock!Grant
  <1>3. ASSUME NEW c \in Cpus, ModeCleared(c) PROVE [Lock!Next]_(Lock!lockVars)
    <2>1. CASE HoldsMonitor(c)
      <3>1. Lock!Leave(c)
        BY <1>3, <2>1 DEF ModeCleared, Lock!Leave
      <3>2. QED BY <3>1 DEF Lock!Next
    <2>2. CASE isMonitorModePending[c]
      <3>1. Lock!Abandon(c)
        BY <1>3, <2>2 DEF ModeCleared, Lock!Abandon
      <3>2. QED BY <3>1 DEF Lock!Next
    <2>3. CASE ~isMonitorMode[c] /\ ~isMonitorModePending[c]
      BY <1>3, <2>3 DEF ModeCleared, Lock!lockVars
    <2>4. QED BY <2>1, <2>2, <2>3
  <1>4. ASSUME NEW c \in Cpus, ModeSet(c) PROVE [Lock!Next]_(Lock!lockVars)
    <2>1. CASE ~isMonitorMode'[c]
      <3>1. ModeCleared(c)
        BY <1>4, <2>1 DEF ModeSet, SetPending, MustWait, ModeCleared
      <3>2. QED BY <1>3, <3>1
    <2>2. CASE isMonitorMode'[c] /\ MustWait(c)
      <3>1. ~HoldsMonitor(c)
        BY <2>2 DEF MustWait, Dual, Other
      <3>2. Lock!Wait(c)
        BY <1>4, <2>2, <3>1 DEF ModeSet, SetPending, MustWait, Dual, Other, Lock!Wait
      <3>3. QED BY <3>2 DEF Lock!Next
    <2>3. CASE isMonitorMode'[c] /\ ~MustWait(c)
      <3>1. \A d \in Cpus \ {c} : ~HoldsMonitor(d)
        BY <2>3 DEF MustWait, Dual, Other
      <3>2. CASE HoldsMonitor(c)
        BY <1>4, <2>3, <3>2 DEF ModeSet, SetPending, Lock!lockVars
      <3>3. CASE isMonitorModePending[c]
        <4>1. Lock!Grant(c)
          BY <1>4, <2>3, <3>1, <3>3 DEF ModeSet, SetPending, Lock!Grant
        <4>2. QED BY <4>1 DEF Lock!Next
      <3>4. CASE ~isMonitorMode[c] /\ ~isMonitorModePending[c]
        <4>1. Lock!Enter(c)
          BY <1>4, <2>3, <3>1, <3>4 DEF ModeSet, SetPending, Lock!Enter
        <4>2. QED BY <4>1 DEF Lock!Next
      <3>5. QED BY <3>2, <3>3, <3>4
    <2>4. QED BY <2>1, <2>2, <2>3
  <1>5. QED BY <1>1, <1>2, <1>3, <1>4 DEF ModeStep, Lock!Next

\* The exchange machinery implements the lock: holders are the CPUs in monitor
\* mode that do not wait for it, waiting those that do.
THEOREM ImplementsLock == Spec => LockSpec
  <1>1. Init => Lock!Init
    BY DEF Init, Lock!Init, HoldsMonitor
  <1>2. TypeOK /\ ModeInv /\ [Next]_vars => [Lock!Next]_(Lock!lockVars)
    BY NextModeStep, ModeStepRefines
  <1>3. QED
    BY <1>1, <1>2, TypeCorrect, ModeInvariant, PTL DEF Spec, LockSpec, Lock!Spec

-----------------------------------------------------------------------------
(* The main thread.                                                        *)

\* CPU 0 is inside cpuStep only in the part of the main loop that calls it.
MainInv == mainPhase # "cpu" => cpuPc[0] = "loop"

LEMMA NextMainInv ==
  ASSUME TypeInv, MainInv, [Next]_vars
  PROVE  MainInv'
  <1> USE DEF MainInv, TypeInv, TypeOK
  <1>1. ASSUME NEW c \in Cpus, CpuStep(c) PROVE MainInv'
    <2>1. cpuPc[c] # "loop" /\ (EndStep(c) \/ \E l \in PcLabels : Goto(c, l))
      BY <1>1 DEF CpuStep, PassMonitorGate, WaitAtMonitorGate, ServeRequest, ExecuteWord,
           ProgramStop, ErrorStop, ExchangeInstruction, ErrorExit, PcLabels
    <2>2. CASE EndStep(c) /\ c = 0
      BY <2>1, <2>2 DEF EndStep
    <2>3. CASE EndStep(c) /\ c # 0
      BY <2>3 DEF EndStep
    <2>4. CASE \E l \in PcLabels : Goto(c, l)
      BY <2>1, <2>4 DEF Goto, mainVars
    <2>5. QED BY <2>1, <2>2, <2>3, <2>4
  <1>2. ASSUME NEW p \in Pps, PpStep(p) PROVE MainInv'
    <2>1. mainPhase = "barrel" /\ NextPp
      BY <1>2 DEF PpStep, PpWaits, PpOther, PpOpEXN
    <2>2. QED BY <2>1 DEF NextPp, threadVars
  <1>3. CASE MainLoop \/ OpCmdDeadstart \/ UNCHANGED vars
    BY <1>3 DEF MainLoop, OpCmdDeadstart, vars, mainVars, threadVars
  <1>4. ASSUME NEW c \in Cpus \ {0}, CpuLoop(c) \/ ClearDoDeadstart(c) PROVE MainInv'
    BY <1>4 DEF CpuLoop, ClearDoDeadstart, BeginSteps, mainVars
  <1>5. 0 \in Cpus
    OBVIOUS
  <1>6. QED
    BY <1>1, <1>2, <1>3, <1>4, <1>5 DEF Next, MainThread, CpuThread

LEMMA MainInvariant == Spec => []MainInv
  <1>1. Init => MainInv
    BY DEF Init, MainInv
  <1>2. QED BY <1>1, NextMainInv, Types, PTL DEF Spec

-----------------------------------------------------------------------------
(* Error exits and words.                                                  *)

\* A CPU that runs is between two words, except in the rest of a word whose XJ
\* went beyond memory.
WordBoundary == \A c \in Cpus : isStopped[c] \/ opAtWord[c] \/ cpuPc[c] = "continue"

WordInv == ErrorExitEntersMonitor /\ WordBoundary

\* All that the thread of a CPU does.
CpuMoves(c) == CpuStep(c) \/ CpuLoop(c) \/ ClearDoDeadstart(c)

\* What the thread of one CPU does not touch of another.
LEMMA CpuStepIsLocal ==
  ASSUME TypeInv, NEW c \in Cpus, NEW d \in Cpus \ {c}, CpuMoves(c)
  PROVE  /\ isMonitorMode'[d] = isMonitorMode[d] /\ isStopped'[d] = isStopped[d]
         /\ opAtWord'[d] = opAtWord[d] /\ cpuPc'[d] = cpuPc[d]
  <1> USE DEF TypeInv, TypeOK, EndStep, Goto
  <1>1. CASE PassMonitorGate(c) \/ WaitAtMonitorGate(c)
    BY <1>1 DEF PassMonitorGate, WaitAtMonitorGate, modeVars, haltVars
  <1>2. CASE ServeRequest(c)
    BY <1>2 DEF ServeRequest, ExchangeJump, modeVars, haltVars
  <1>3. CASE ExecuteWord(c) \/ ProgramStop(c) \/ ErrorStop(c)
    BY <1>3 DEF ExecuteWord, ProgramStop, ErrorStop, modeVars
  <1>4. CASE ExchangeInstruction(c)
    BY <1>4 DEF ExchangeInstruction, ExchangeJump
  <1>5. CASE ErrorExit(c)
    BY <1>5 DEF ErrorExit, ExchangeJump
  <1>6. CASE CpuLoop(c)
    BY <1>6 DEF CpuLoop, Reset, BeginSteps, modeVars, haltVars
  <1>7. CASE ClearDoDeadstart(c)
    BY <1>7 DEF ClearDoDeadstart, BeginSteps, modeVars, haltVars
  <1>8. QED BY <1>1, <1>2, <1>3, <1>4, <1>5, <1>6, <1>7 DEF CpuMoves, CpuStep

\* The step of a CPU re-establishes the two invariants for itself.
LEMMA CpuStepKeepsWord ==
  ASSUME TypeInv, WordInv, NEW c \in Cpus, CpuMoves(c)
  PROVE  /\ cpuPc'[c] = "errorExit" => ~isMonitorMode'[c] /\ isStopped'[c]
         /\ isStopped'[c] \/ opAtWord'[c] \/ cpuPc'[c] = "continue"
  <1> USE DEF TypeInv, TypeOK, WordInv, ErrorExitEntersMonitor, WordBoundary, EndStep, Goto
  <1>1. CASE PassMonitorGate(c) \/ WaitAtMonitorGate(c)
    BY <1>1 DEF PassMonitorGate, WaitAtMonitorGate, modeVars, haltVars
  <1>2. CASE ServeRequest(c)
    BY <1>2 DEF ServeRequest, ExchangeJump, ExchangeResults, modeVars, haltVars
  <1>3. CASE ExecuteWord(c) \/ ProgramStop(c)
    BY <1>3 DEF ExecuteWord, ProgramStop, modeVars
  <1>4. CASE ErrorStop(c)
    BY <1>4 DEF ErrorStop, CanErrorExit, modeVars
  <1>5. CASE ExchangeInstruction(c)
    <2>1. PICK result \in ExchangeResults :
            /\ ExchangeJump(c, TRUE, result, FALSE, FALSE)
            /\ CASE result = "badAddress" -> Goto(c, "continue")
                 [] isErrorExitPending'[c] -> Goto(c, "errorExit")
                 [] OTHER -> EndStep(c)
      BY <1>5 DEF ExchangeInstruction
    <2>2. CASE result = "badAddress"
      <3>1. ~isErrorExitPending'[c]
        BY <2>1, <2>2 DEF ExchangeJump
      <3>2. Goto(c, "continue")
        BY <2>1, <2>2, <3>1
      <3>3. cpuPc'[c] = "continue"
        BY <3>2
      <3>4. QED BY <3>3
    <2>3. CASE result = "fetched"
      <3>1. opAtWord'[c] /\ ~isErrorExitPending'[c]
        BY <2>1, <2>3 DEF ExchangeJump
      <3>2. EndStep(c)
        BY <2>1, <2>3, <3>1
      <3>3. cpuPc'[c] # "errorExit"
        BY <3>2
      <3>4. QED BY <3>1, <3>3
    <2>4. CASE result = "fetchFails"
      <3>1. isStopped'[c] /\ (isErrorExitPending'[c] => ~isMonitorMode'[c])
        BY <2>1, <2>4 DEF ExchangeJump, CanErrorExit
      <3>2. CASE isErrorExitPending'[c]
        BY <3>1, <3>2
      <3>3. CASE ~isErrorExitPending'[c]
        <4>1. EndStep(c)
          BY <2>1, <2>4, <3>3
        <4>2. cpuPc'[c] # "errorExit"
          BY <4>1
        <4>3. QED BY <3>1, <4>2
      <3>4. QED BY <3>2, <3>3
    <2>5. QED BY <2>2, <2>3, <2>4 DEF ExchangeResults
  <1>6. CASE ErrorExit(c)
    <2>1. cpuPc'[c] # "errorExit"
      BY <1>6 DEF ErrorExit
    <2>2. isStopped[c]
      BY <1>6 DEF ErrorExit
    <2>3. isStopped'[c] \/ opAtWord'[c]
      BY <1>6, <2>2 DEF ErrorExit, ExchangeJump, ExchangeResults
    <2>4. QED BY <2>1, <2>3
  <1>7. CASE CpuLoop(c)
    BY <1>7 DEF CpuLoop, Reset, BeginSteps, modeVars, haltVars
  <1>8. CASE ClearDoDeadstart(c)
    BY <1>8 DEF ClearDoDeadstart, BeginSteps, modeVars, haltVars
  <1>9. QED BY <1>1, <1>2, <1>3, <1>4, <1>5, <1>6, <1>7, <1>8 DEF CpuMoves, CpuStep

LEMMA NextWordInv ==
  ASSUME TypeInv, MainInv, WordInv, [Next]_vars
  PROVE  WordInv'
  <1> USE DEF WordInv, ErrorExitEntersMonitor, WordBoundary
  <1>1. ASSUME NEW c \in Cpus, CpuMoves(c) PROVE WordInv'
    BY <1>1, CpuStepIsLocal, CpuStepKeepsWord
  <1>2. ASSUME NEW p \in Pps, PpStep(p) PROVE WordInv'
    BY <1>2 DEF PpStep, PpWaits, PpOther, PpOpEXN, NextPp, MainInv, TypeInv, TypeOK,
         modeVars, haltVars, threadVars
  <1>3. CASE MainLoop
    BY <1>3 DEF MainLoop, Reset, TypeInv, TypeOK, modeVars, haltVars, threadVars
  <1>4. CASE OpCmdDeadstart \/ UNCHANGED vars
    BY <1>4 DEF OpCmdDeadstart, vars, modeVars, haltVars, threadVars
  <1>5. 0 \in Cpus
    OBVIOUS
  <1>6. QED
    BY <1>1, <1>2, <1>3, <1>4, <1>5 DEF Next, MainThread, CpuThread, CpuMoves

LEMMA WordInvariant == Spec => []WordInv
  <1>1. Init => WordInv
    BY DEF Init, WordInv, ErrorExitEntersMonitor, WordBoundary
  <1>2. QED BY <1>1, NextWordInv, Types, MainInvariant, PTL DEF Spec

\* The error exit of cpuStep toggles the flag of a CPU in job mode only, although
\* the word that raised the error may itself have changed the mode.
THEOREM ErrorExitsEnterMonitor == Spec => []ErrorExitEntersMonitor
  BY WordInvariant, PTL DEF WordInv

\* A PP's EXN is never discarded by the CPU.
THEOREM ExnsAreHonoured == Spec => []ExnIsHonoured
  <1>1. WordInv => ExnIsHonoured
    BY DEF WordInv, WordBoundary, ExnIsHonoured, Honours
  <1>2. QED BY <1>1, WordInvariant, PTL

-----------------------------------------------------------------------------
(* Requests of PPs.                                                        *)

\* A CPU to which a request may be left over from before a deadstart: its own reset
\* is still to come, or it missed the deadstart.
Excused(c) == AwaitsReset(c) \/ c \in forgotten

\* From the operator's command until the main thread goes round its loop no PP
\* runs, and a CPU that is not excused has been reset: it has no request.
DeadstartOrder ==
    doDeadstart[0] =>
        /\ mainPhase = "loop"
        /\ \A c \in Cpus : ppRequestingExchange[c] # None => Excused(c)

RequestInv == RequestHasWaiter /\ DeadstartOrder

\* The thread of a CPU only ever withdraws a request, and one that stays keeps
\* its excuse.
CpuWithdraws ==
    /\ UNCHANGED ppVars
    /\ \A d \in Cpus : \/ ppRequestingExchange'[d] = None
                        \/ /\ ppRequestingExchange'[d] = ppRequestingExchange[d]
                           /\ Excused(d) => Excused(d)'

\* A CPU no longer counts as having missed a deadstart when its request is gone.
LEMMA CpuStepForgets ==
  ASSUME TypeInv, NEW c \in Cpus, CpuStep(c)
  PROVE  /\ doDeadstart' = doDeadstart
         /\ \A d \in forgotten : ppRequestingExchange'[d] # None => d \in forgotten'
  <1>1. CASE ServeRequest(c)
    BY <1>1 DEF ServeRequest, TypeInv, TypeOK
  <1>2. CASE WaitAtMonitorGate(c)
    BY <1>2 DEF WaitAtMonitorGate, TypeInv, TypeOK
  <1>3. CASE PassMonitorGate(c) \/ ExecuteWord(c) \/ ProgramStop(c) \/ ErrorStop(c)
                \/ ExchangeInstruction(c) \/ ErrorExit(c)
    BY <1>3 DEF PassMonitorGate, ExecuteWord, ProgramStop, ErrorStop, ExchangeInstruction,
         ErrorExit, opVars
  <1>4. QED BY <1>1, <1>2, <1>3 DEF CpuStep

LEMMA CpuStepWithdraws ==
  ASSUME TypeInv, NEW c \in Cpus, CpuMoves(c)
  PROVE  CpuWithdraws
  <1> USE DEF TypeInv, TypeOK, requestVars
  <1>1. CASE CpuStep(c)
    <2>1. cpuPc[c] # "wasReset" /\ (EndStep(c) \/ \E l \in PcLabels \ {"wasReset"} : Goto(c, l))
      BY <1>1 DEF CpuStep, PassMonitorGate, WaitAtMonitorGate, ServeRequest, ExecuteWord,
           ProgramStop, ErrorStop, ExchangeInstruction, ErrorExit, PcLabels
    <2>2. \A d \in Cpus : cpuPc'[d] = "wasReset" => cpuPc[d] = "wasReset"
      BY <2>1 DEF EndStep, Goto
    <2>3. UNCHANGED ppVars
      BY <1>1 DEF CpuStep, PassMonitorGate, WaitAtMonitorGate, ServeRequest, ExecuteWord,
           ProgramStop, ErrorStop, ExchangeInstruction, ErrorExit
    <2>4. \A d \in Cpus : Excused(d) /\ ppRequestingExchange'[d] # None => Excused(d)'
      BY <1>1, <2>2, CpuStepForgets DEF Excused, AwaitsReset
    <2>5. \A d \in Cpus : ppRequestingExchange'[d] \in {None, ppRequestingExchange[d]}
      <3>1. CASE WaitAtMonitorGate(c) \/ ServeRequest(c)
        BY <3>1 DEF WaitAtMonitorGate, ServeRequest
      <3>2. CASE UNCHANGED requestVars
        BY <3>2
      <3>3. QED
        BY <1>1, <3>1, <3>2 DEF CpuStep, PassMonitorGate, ExecuteWord, ProgramStop, ErrorStop,
             ExchangeInstruction, ErrorExit
    <2>6. QED BY <2>3, <2>4, <2>5 DEF CpuWithdraws
  <1>2. CASE CpuLoop(c)
    <2>1. \A d \in Cpus \ {c} : Excused(d) => Excused(d)'
      BY <1>2 DEF CpuLoop, Reset, BeginSteps, Excused, AwaitsReset, opVars
    <2>2. \A d \in Cpus \ {c} : ppRequestingExchange'[d] = ppRequestingExchange[d]
      BY <1>2 DEF CpuLoop, Reset
    <2>3. \/ ppRequestingExchange'[c] = None
          \/ /\ ppRequestingExchange'[c] = ppRequestingExchange[c]
             /\ Excused(c) => Excused(c)'
      BY <1>2 DEF CpuLoop, Reset, Excused, AwaitsReset, opVars
    <2>4. UNCHANGED ppVars
      BY <1>2 DEF CpuLoop
    <2>5. QED BY <2>1, <2>2, <2>3, <2>4 DEF CpuWithdraws
  <1>3. CASE ClearDoDeadstart(c)
    <2>1. \A d \in Cpus : Excused(d) => Excused(d)'
      BY <1>3 DEF ClearDoDeadstart, ClearMark, BeginSteps, Excused, AwaitsReset
    <2>2. QED BY <1>3, <2>1 DEF ClearDoDeadstart, CpuWithdraws
  <1>4. QED BY <1>1, <1>2, <1>3 DEF CpuMoves

LEMMA WithdrawKeepsWaiters ==
  ASSUME TypeInv, RequestHasWaiter, CpuWithdraws
  PROVE  RequestHasWaiter'
  <1> SUFFICES ASSUME NEW d \in Cpus, ppRequestingExchange'[d] # None
               PROVE  exchangingCpu'[ppRequestingExchange'[d]] = d \/ Excused(d)'
    BY DEF RequestHasWaiter, Excused
  <1>1. ppRequestingExchange'[d] = ppRequestingExchange[d] /\ (Excused(d) => Excused(d)')
    BY DEF CpuWithdraws
  <1>2. exchangingCpu' = exchangingCpu
    BY DEF CpuWithdraws, ppVars
  <1>3. exchangingCpu[ppRequestingExchange[d]] = d \/ Excused(d)
    BY <1>1 DEF RequestHasWaiter, Excused
  <1>4. QED BY <1>1, <1>2, <1>3

LEMMA PpStepKeepsWaiters ==
  ASSUME TypeInv, MainInv, RequestHasWaiter, NEW p \in Pps, PpStep(p)
  PROVE  RequestHasWaiter'
  <1>0. \A c \in Cpus : Excused(c)' <=> Excused(c)
    <2>1. UNCHANGED opVars
      BY DEF PpStep, PpWaits, PpOther, PpOpEXN
    <2>2. \A c \in Cpus : cpuPc'[c] = "wasReset" <=> cpuPc[c] = "wasReset"
      \* the barrel hands over to CPU 0 by making it begin a step
      BY DEF PpStep, PpWaits, PpOther, PpOpEXN, NextPp, threadVars, TypeInv, TypeOK, MainInv
    <2>3. QED BY <2>1, <2>2 DEF Excused, AwaitsReset, opVars
  <1>w. RequestHasWaiter <=>
          \A c \in Cpus : ppRequestingExchange[c] # None =>
              exchangingCpu[ppRequestingExchange[c]] = c \/ Excused(c)
    BY DEF RequestHasWaiter, Excused
  <1>v. (\A c \in Cpus : ppRequestingExchange'[c] # None =>
              exchangingCpu'[ppRequestingExchange'[c]] = c \/ Excused(c)) => RequestHasWaiter'
    BY <1>0 DEF RequestHasWaiter, Excused
  <1> USE <1>w, <1>v DEF TypeInv, TypeOK, requestVars, ppVars
  <1>1. CASE PpWaits(p)
    BY <1>1 DEF PpWaits
  <1>2. CASE PpOther(p)
    BY <1>2, PpsNotNone DEF PpOther, AwaitsExchange
  <1>3. ASSUME NEW op \in ExnOps, PpOpEXN(p, op) PROVE RequestHasWaiter'
    <2>1. op.cpu \in Cpus
      BY DEF ExnOps
    <2>2. \A c \in Cpus : ppRequestingExchange[c] = p => Excused(c)
      BY <1>3, PpsNotNone DEF PpOpEXN, AwaitsExchange
    <2>3. \A q \in Pps \ {p} : exchangingCpu'[q] = exchangingCpu[q]
      BY <1>3 DEF PpOpEXN
    <2>4. CASE UNCHANGED requestVars
      BY <1>3, <2>2, <2>3, <2>4 DEF PpOpEXN
    <2>5. CASE /\ exchangingCpu' = [exchangingCpu EXCEPT ![p] = op.cpu]
               /\ ppRequestingExchange' = [ppRequestingExchange EXCEPT ![op.cpu] = p]
      BY <1>3, <2>1, <2>2, <2>3, <2>5 DEF PpOpEXN
    <2>6. QED BY <1>3, <2>4, <2>5 DEF PpOpEXN
  <1>4. QED BY <1>1, <1>2, <1>3 DEF PpStep

LEMMA NextRequestInv ==
  ASSUME TypeInv, MainInv, RequestInv, [Next]_vars
  PROVE  RequestInv'
  <1> USE DEF RequestInv
  <1>0. 0 \in Cpus
    OBVIOUS
  <1>1. ASSUME CpuStep(0) PROVE RequestInv'
    <2>1. ~doDeadstart[0]
      BY <1>1 DEF DeadstartOrder, MainInv, CpuStep, PassMonitorGate, WaitAtMonitorGate, ServeRequest,
           ExecuteWord, ProgramStop, ErrorStop, ExchangeInstruction, ErrorExit
    <2>2. CpuWithdraws
      BY <1>0, <1>1, CpuStepWithdraws DEF CpuMoves
    <2>3. ~doDeadstart'[0]
      BY <1>0, <1>1, <2>1, CpuStepForgets
    <2>4. QED BY <2>2, <2>3, WithdrawKeepsWaiters DEF DeadstartOrder
  <1>2. ASSUME NEW c \in Cpus \ {0}, CpuMoves(c) PROVE RequestInv'
    <2>1. CpuWithdraws
      BY <1>2, CpuStepWithdraws
    <2>2. mainPhase' = mainPhase
      <3>1. CASE CpuStep(c)
        <4>1. EndStep(c) \/ \E l \in PcLabels : Goto(c, l)
          BY <3>1 DEF CpuStep, PassMonitorGate, WaitAtMonitorGate, ServeRequest, ExecuteWord,
               ProgramStop, ErrorStop, ExchangeInstruction, ErrorExit, PcLabels
        <4>2. QED BY <4>1 DEF EndStep, Goto, mainVars
      <3>2. CASE CpuLoop(c) \/ ClearDoDeadstart(c)
        BY <3>2 DEF CpuLoop, ClearDoDeadstart, mainVars
      <3>3. QED BY <1>2, <3>1, <3>2 DEF CpuMoves
    <2>3. doDeadstart'[0] = doDeadstart[0]
      <3>1. CASE CpuStep(c) \/ CpuLoop(c)
        BY <3>1, CpuStepForgets DEF CpuLoop, opVars
      <3>2. CASE ClearDoDeadstart(c)
        BY <1>0, <3>2 DEF ClearDoDeadstart, ClearMark, TypeInv, TypeOK
      <3>3. QED BY <1>2, <3>1, <3>2 DEF CpuMoves
    <2>4. DeadstartOrder'
      BY <2>1, <2>2, <2>3 DEF DeadstartOrder, CpuWithdraws
    <2>5. QED BY <2>1, <2>4, WithdrawKeepsWaiters
  <1>3. ASSUME NEW p \in Pps, PpStep(p) PROVE RequestInv'
    <2>1. ~doDeadstart[0] /\ ~doDeadstart'[0]
      BY <1>3 DEF DeadstartOrder, PpStep, PpWaits, PpOther, PpOpEXN, opVars
    <2>2. QED BY <1>3, <2>1, PpStepKeepsWaiters DEF DeadstartOrder
  <1>4. CASE MainLoop
    <2>1. ~doDeadstart'[0]
      BY <1>0, <1>4 DEF MainLoop, ClearMark, TypeInv, TypeOK, opVars
    <2>2. CASE ~doDeadstart[0]
      <3>1. UNCHANGED <<requestVars, ppVars, threadVars, opVars>>
        BY <1>4, <2>2 DEF MainLoop
      <3>2. RequestHasWaiter'
        BY <3>1 DEF RequestHasWaiter, AwaitsReset, requestVars, ppVars, threadVars, opVars
      <3>3. QED BY <2>1, <3>2 DEF DeadstartOrder
    <2>3. CASE doDeadstart[0]
      <3>1. \A c \in Cpus : ppRequestingExchange'[c] # None =>
              c # 0 /\ ppRequestingExchange[c] # None
        BY <1>0, <1>4, <2>3 DEF MainLoop, Reset, TypeInv, TypeOK
      <3>2. \A c \in Cpus \ {0} : Excused(c) => Excused(c)'
        BY <1>0, <1>4, <2>3 DEF MainLoop, Reset, ClearMark, TypeInv, TypeOK, Excused, AwaitsReset,
             threadVars
      <3>3. \A c \in Cpus : ppRequestingExchange'[c] # None => Excused(c)'
        BY <2>3, <3>1, <3>2 DEF DeadstartOrder
      <3>4. RequestHasWaiter'
        BY <3>3 DEF RequestHasWaiter, Excused
      <3>5. QED BY <2>1, <3>4 DEF DeadstartOrder
    <2>4. QED BY <2>2, <2>3
  <1>5. CASE OpCmdDeadstart
    <2>1. \A c \in Cpus : ppRequestingExchange'[c] # None => Excused(c)'
      BY <1>5 DEF OpCmdDeadstart, Excused, AwaitsReset, requestVars, threadVars
    <2>2. mainPhase' = "loop"
      BY <1>5 DEF OpCmdDeadstart, mainVars
    <2>3. QED BY <2>1, <2>2 DEF RequestHasWaiter, DeadstartOrder, Excused
  <1>6. CASE UNCHANGED vars
    BY <1>6 DEF vars, RequestHasWaiter, DeadstartOrder, Excused, AwaitsReset,
         requestVars, ppVars, mainVars, threadVars, opVars
  <1>7. QED
    BY <1>1, <1>2, <1>3, <1>4, <1>5, <1>6 DEF Next, MainThread, CpuThread, CpuMoves

\* Every request has its PP waiting for it, except one made before a deadstart
\* to a CPU whose own reset is still to come, or which missed that deadstart: its
\* mark was cleared with that of an earlier one.
THEOREM RequestsHaveWaiters == Spec => []RequestHasWaiter
  <1>1. Init => RequestInv
    BY DEF Init, RequestInv, RequestHasWaiter, DeadstartOrder
  <1>2. TypeInv /\ MainInv /\ RequestInv /\ [Next]_vars => RequestInv'
    BY NextRequestInv
  <1>3. RequestInv => RequestHasWaiter
    BY DEF RequestInv
  <1>4. QED BY <1>1, <1>2, <1>3, Types, MainInvariant, PTL DEF Spec

\* The request of each CPU, with its mode, stays as it is, is taken away, or is
\* made where there was none.
RequestStep ==
    \A c \in Cpus : ppRequestingExchange[c] # None =>
        \/ ppRequestingExchange'[c] = None
        \/ /\ ppRequestingExchange'[c] = ppRequestingExchange[c]
           /\ doChangeMode'[c] = doChangeMode[c]

LEMMA NextRequestStep ==
  ASSUME TypeInv, [Next]_vars
  PROVE  RequestStep
  <1> USE DEF RequestStep, TypeInv, TypeOK, requestVars
  <1>1. ASSUME NEW c \in Cpus, CpuStep(c)
        PROVE  RequestStep
    <2>1. CASE WaitAtMonitorGate(c) \/ ServeRequest(c)
      BY <2>1 DEF WaitAtMonitorGate, ServeRequest
    <2>2. CASE PassMonitorGate(c) \/ ExecuteWord(c) \/ ProgramStop(c) \/ ErrorStop(c)
                  \/ ExchangeInstruction(c) \/ ErrorExit(c)
      BY <2>2 DEF PassMonitorGate, ExecuteWord, ProgramStop, ErrorStop, ExchangeInstruction,
           ErrorExit
    <2>3. QED BY <1>1, <2>1, <2>2 DEF CpuStep
  <1>2. CASE MainLoop
    BY <1>2 DEF MainLoop, Reset
  <1>3. CASE \E c \in Cpus \ {0} : CpuLoop(c) \/ ClearDoDeadstart(c)
    BY <1>3 DEF CpuLoop, ClearDoDeadstart, Reset
  <1>4. ASSUME NEW p \in Pps, PpStep(p)
        PROVE  RequestStep
    <2>1. CASE PpWaits(p) \/ PpOther(p)
      BY <2>1 DEF PpWaits, PpOther
    <2>2. CASE \E op \in ExnOps : PpOpEXN(p, op)
      BY <2>2 DEF PpOpEXN, CpuHasRequest, ExnOps
    <2>3. QED BY <1>4, <2>1, <2>2 DEF PpStep
  <1>5. CASE OpCmdDeadstart \/ UNCHANGED vars
    BY <1>5 DEF OpCmdDeadstart, vars
  <1>6. QED
    BY <1>1, <1>2, <1>3, <1>4, <1>5 DEF Next, MainThread, CpuThread

\* Whatever PPs and CPUs do and however often the system is deadstarted, no PP
\* overwrites a request that the CPU has not yet taken.
THEOREM RequestsAreNotOverwritten == Spec => RequestNotOverwritten
  <1>1. TypeInv /\ [Next]_vars => [RequestStep]_vars
    BY NextRequestStep
  <1>2. QED BY <1>1, Types, PTL DEF Spec, RequestNotOverwritten, RequestStep

=============================================================================
