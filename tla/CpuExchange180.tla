-------------------------- MODULE CpuExchange180 ---------------------------
(***************************************************************************)
(* The exchange machinery on a CYBER 180, whose CPUs alternate between 170 *)
(* state, where they run as in CpuExchange, and 180 state.  New is that    *)
(* the flags of monitor mode are saved and restored on the way, by writes  *)
(* that do not hold the exchange mutex, and that an error in monitor mode  *)
(* ends in 180 state.                                                      *)
(*                                                                         *)
(* The programs of 180 state are external: they take steps, and enter 170  *)
(* state with the exchange package that 170 state left.  Interrupts come   *)
(* at any step, and so do conditions that halt the CPU.  Starting and      *)
(* halting a CPU over the maintenance channel, and deadstarts, are left    *)
(* out: both CPUs run from the first state on.                             *)
(***************************************************************************)
EXTENDS CpuExchange

ASSUME Features180Assumption == ~HasNoCejMej /\ ~IsSeries6x00

VARIABLES regVmid,        \* by CPU: 1 in 170 state, 0 in 180 state
          exchPending,    \* by CPU: pendingAction is Exch, an error exit to 180 state
          savedMonitor,   \* by CPU: the monitor flag in its 170 exchange package
          loading,        \* by CPU: 170 state is loaded but not yet its pending flag
          halted          \* the CPUs halted by a condition (isStopped of the 180 context)

stateVars == <<regVmid, savedMonitor, loading, halted>>
vars180   == <<stateVars, exchPending>>
allVars   == <<vars, vars180>>

Init180 == /\ Init
           /\ regVmid = [c \in Cpus |-> 0]
           /\ exchPending = [c \in Cpus |-> FALSE]
           /\ savedMonitor = [c \in Cpus |-> FALSE]
           /\ loading = [c \in Cpus |-> FALSE]
           /\ halted = {}

-----------------------------------------------------------------------------
(* Changes of state, at the start of a step.                               *)

AtStep(c)     == cpuPc[c] = "step" /\ ~loading[c] /\ c \notin halted
In180State(c) == AtStep(c) /\ regVmid[c] = 0
In170State(c) == AtStep(c) /\ regVmid[c] = 1

\* The check for conditions at the start of a step forgets a pending exit.
ClearsConditions(c) == exchPending' = [exchPending EXCEPT ![c] = FALSE]

\* An exchange, call or return to a 170 program loads its mode and its place in
\* the word (past the last parcel counts as a whole new word) ...
Load170State(c) ==
    /\ In180State(c)
    /\ regVmid' = [regVmid EXCEPT ![c] = 1]
    /\ isMonitorMode' = [isMonitorMode EXCEPT ![c] = savedMonitor[c]]
    /\ \E atWord \in {opAtWord[c], TRUE} : opAtWord' = [opAtWord EXCEPT ![c] = atWord]
    /\ isStopped' = [isStopped EXCEPT ![c] = FALSE]
    /\ loading' = [loading EXCEPT ![c] = TRUE]
    /\ ClearsConditions(c)
    /\ UNCHANGED <<isMonitorModePending, isErrorExitPending, requestVars, ppVars, mainVars,
                   threadVars, opVars, savedMonitor, halted>>

\* ... and then looks at the other CPU's, whether that one waits or not.
MustWaitOnLoad(c) == Dual /\ isMonitorMode[c] /\ isMonitorMode[Other(c)]

Compare170Mode(c) ==
    /\ loading[c]
    /\ isMonitorModePending' = [isMonitorModePending EXCEPT ![c] = MustWaitOnLoad(c)]
    /\ loading' = [loading EXCEPT ![c] = FALSE]
    /\ EndStep(c)
    /\ UNCHANGED <<isMonitorMode, haltVars, requestVars, ppVars, opVars,
                   regVmid, exchPending, savedMonitor, halted>>

GoTo180StateStillWaiting(c, monitor) ==  \* mutation
    /\ regVmid' = [regVmid EXCEPT ![c] = 0]
    /\ savedMonitor' = [savedMonitor EXCEPT ![c] = monitor]
    /\ isMonitorMode' = [isMonitorMode EXCEPT ![c] = FALSE]
    /\ UNCHANGED <<loading, halted, isMonitorModePending>>

\* The CPU goes to 180 state and leaves monitor in its 170 exchange package.
GoTo180State(c, monitor) ==
    /\ regVmid' = [regVmid EXCEPT ![c] = 0]
    /\ savedMonitor' = [savedMonitor EXCEPT ![c] = monitor]
    /\ isMonitorMode' = [isMonitorMode EXCEPT ![c] = FALSE]
    /\ isMonitorModePending' = [isMonitorModePending EXCEPT ![c] = FALSE]
    /\ UNCHANGED <<loading, halted>>

\* An interrupt ends 170 state by a trap or an exchange.  A trap that fails
\* has cleared the mode by the time the exchange that replaces it saves it.
Interrupt(c) ==
    /\ In170State(c)
    /\ \/ GoTo180State(c, isMonitorMode[c])
       \/ GoTo180State(c, FALSE)
    /\ ClearsConditions(c)
    /\ EndStep(c)
    /\ UNCHANGED <<haltVars, requestVars, ppVars, opVars>>

\* Anything else a CPU does in 180 state.
Step180(c) ==
    /\ In180State(c)
    /\ ClearsConditions(c)
    /\ EndStep(c)
    /\ UNCHANGED <<modeVars, haltVars, requestVars, ppVars, opVars, stateVars>>

\* A condition for which the CPU can neither trap nor exchange halts it, in either
\* state: with its flags as they are, or, after a trap that failed, cleared.  From then on
\* it only returns.
Halt(c) ==
    /\ AtStep(c)
    /\ halted' = halted \cup {c}
    /\ \/ UNCHANGED modeVars
       \/ /\ In170State(c)
          /\ isMonitorMode' = [isMonitorMode EXCEPT ![c] = FALSE]
          /\ isMonitorModePending' = [isMonitorModePending EXCEPT ![c] = FALSE]
    /\ ClearsConditions(c)
    /\ EndStep(c)
    /\ UNCHANGED <<haltVars, requestVars, ppVars, opVars, regVmid, savedMonitor, loading>>

StepHalted(c) ==
    /\ cpuPc[c] = "step" /\ c \in halted
    /\ EndStep(c)
    /\ UNCHANGED <<modeVars, haltVars, requestVars, ppVars, opVars, vars180>>

-----------------------------------------------------------------------------
(* A step in 170 state, and what is left of it after a change of state.    *)

ExchangeJump180ExitsAnyMode(c, doChange, result, atWord, exitPending) ==  \* mutation
    /\ ExchangeJump(c, doChange, result, atWord, exitPending)
    /\ exchPending' = [exchPending EXCEPT ![c] = @ \/ result = "fetchFails"]

\* An exchange whose first fetch fails in monitor mode initiates an exit to
\* 180 state.
ExchangeJump180(c, doChange, result, atWord, exitPending) ==
    /\ ExchangeJump(c, doChange, result, atWord, exitPending)
    /\ exchPending' = [exchPending EXCEPT
          ![c] = @ \/ (result = "fetchFails" /\ isMonitorMode'[c])]

PassMonitorGate180(c) == /\ In170State(c) /\ PassMonitorGate(c)
                         /\ ClearsConditions(c)
                         /\ UNCHANGED stateVars

WaitAtMonitorGate180(c) == /\ In170State(c) /\ WaitAtMonitorGate(c)
                           /\ ClearsConditions(c)
                           /\ UNCHANGED stateVars

ServeRequest180(c) ==
    /\ cpuPc[c] = "request"
    /\ IF ppRequestingExchange[c] # None /\ Honours(c)
       THEN /\ \E result \in ExchangeResults :
                  ExchangeJump180(c, doChangeMode[c], result, opAtWord[c],
                                  isErrorExitPending[c])
            /\ SetPending(c)
       ELSE UNCHANGED <<modeVars, haltVars, exchPending>>
    /\ ppRequestingExchange' = [ppRequestingExchange EXCEPT ![c] = None]
    /\ IF isStopped'[c] THEN EndStep(c) ELSE Goto(c, "execute")
    /\ UNCHANGED <<doChangeMode, ppVars, opVars, stateVars>>

\* A word, or an error in job mode, as on a CYBER 170.
ExecuteWord180(c) == /\ ~exchPending[c] /\ ExecuteWord(c)
                     /\ UNCHANGED vars180

ErrorStop180(c) == /\ ~exchPending[c] /\ ErrorStop(c)
                   /\ UNCHANGED vars180

\* In monitor mode the word may end in a fetch that fails: the CPU stops with an
\* exit to 180 state pending, and the step is over.
FetchFailsInMonitorMode(c) ==
    /\ cpuPc[c] \in {"execute", "continue"} /\ isMonitorMode[c] /\ ~exchPending[c]
    /\ isStopped' = [isStopped EXCEPT ![c] = TRUE]
    /\ \E atWord \in BOOLEAN : opAtWord' = [opAtWord EXCEPT ![c] = atWord]
    /\ isErrorExitPending' = [isErrorExitPending EXCEPT ![c] = FALSE]
    /\ exchPending' = [exchPending EXCEPT ![c] = TRUE]
    /\ EndStep(c)
    /\ UNCHANGED <<modeVars, requestVars, ppVars, opVars, stateVars>>

\* An instruction that fails in monitor mode exits to 180 state at once.
ErrorExitTo180(c) ==
    /\ cpuPc[c] \in {"execute", "continue"} /\ isMonitorMode[c]
    /\ isStopped' = [isStopped EXCEPT ![c] = TRUE]
    /\ \E atWord \in BOOLEAN : opAtWord' = [opAtWord EXCEPT ![c] = atWord]
    /\ isErrorExitPending' = [isErrorExitPending EXCEPT ![c] = FALSE]
    /\ GoTo180State(c, TRUE)
    /\ ClearsConditions(c)
    /\ EndStep(c)
    /\ UNCHANGED <<requestVars, ppVars, opVars>>

\* XJ that stays in 170 state.
ExchangeInstruction180(c) ==
    /\ cpuPc[c] = "execute" /\ ~exchPending[c]
    /\ \E result \in ExchangeResults :
          /\ ExchangeJump180(c, TRUE, result, FALSE, FALSE)
          /\ CASE result = "badAddress" \/ exchPending'[c] -> Goto(c, "continue")
               [] isErrorExitPending'[c] -> Goto(c, "errorExit")
               [] OTHER -> EndStep(c)
    /\ SetPending(c)
    /\ UNCHANGED <<requestVars, ppVars, opVars, stateVars>>

\* XJ with the sign bit of X0 set, in monitor mode: the exchange, to job mode
\* unless its package is beyond memory, and then another to 180 state.
SystemCall(c) ==
    /\ cpuPc[c] = "execute" /\ isMonitorMode[c] /\ ~exchPending[c]
    /\ \E result \in ExchangeResults :
          /\ isStopped' = [isStopped EXCEPT ![c] = result = "fetchFails"]
          /\ isErrorExitPending' = [isErrorExitPending EXCEPT ![c] = result = "fetchFails"]
          /\ opAtWord' = [opAtWord EXCEPT ![c] = result = "fetched"]
          /\ GoTo180State(c, result = "badAddress")
          /\ CASE result = "badAddress" -> Goto(c, "continue")
               [] result = "fetchFails" -> Goto(c, "errorExit")
               [] OTHER -> EndStep(c)
    /\ UNCHANGED <<requestVars, ppVars, opVars, exchPending>>

ErrorExit180(c) ==
    /\ cpuPc[c] = "errorExit"
    /\ \E result \in ExchangeResults :
          ExchangeJump180(c, TRUE, result, opAtWord[c], isErrorExitPending[c])
    /\ SetPending(c)
    /\ EndStep(c)
    /\ UNCHANGED <<requestVars, ppVars, opVars, stateVars>>

CpuStep180(c) ==
    \/ Load170State(c) \/ Compare170Mode(c) \/ Interrupt(c) \/ Step180(c)
    \/ Halt(c) \/ StepHalted(c)
    \/ PassMonitorGate180(c) \/ WaitAtMonitorGate180(c) \/ ServeRequest180(c)
    \/ ExecuteWord180(c) \/ ErrorStop180(c) \/ FetchFailsInMonitorMode(c)
    \/ ErrorExitTo180(c) \/ ExchangeInstruction180(c) \/ SystemCall(c) \/ ErrorExit180(c)

-----------------------------------------------------------------------------
(* The threads.                                                            *)

MainLoop180 == MainLoop /\ UNCHANGED vars180

CpuLoop180(c) == CpuLoop(c) /\ UNCHANGED vars180

\* The IOU refuses an exchange address beyond the PP's side of the OS boundary: the PP
\* makes no request, and goes on or stops.
PpOsBoundsFault(p) ==
    /\ mainPhase = "barrel" /\ barrel = p /\ ~AwaitsExchange(p)
    /\ \E op \in ExnOps : /\ heldExn[p] \in {NoOp, op} /\ op.kind # "PASS"
                          /\ ~CpuHasRequest(op.cpu)
    /\ heldExn' = [heldExn EXCEPT ![p] = NoOp]
    /\ exchangingCpu' = [exchangingCpu EXCEPT ![p] = None]
    /\ NextPp
    /\ UNCHANGED <<modeVars, haltVars, requestVars, opVars>>

PpStep180(p) == (PpStep(p) \/ PpOsBoundsFault(p)) /\ UNCHANGED vars180

MainThread180 == MainLoop180 \/ CpuStep180(0) \/ \E p \in Pps : PpStep180(p)

CpuThread180(c) == CpuLoop180(c) \/ CpuStep180(c)

Next180 == MainThread180 \/ \E c \in Cpus \ {0} : CpuThread180(c)

Spec180 == Init180 /\ [][Next180]_allVars

\* As in CpuExchange, the threads keep running; nothing is assumed of programs,
\* or interrupts.
FairSpec180 == /\ Spec180
               /\ WF_allVars(MainThread180)
               /\ \A c \in Cpus \ {0} : WF_allVars(CpuThread180(c))

-----------------------------------------------------------------------------
(* Properties.                                                             *)

\* A CPU waits for monitor mode only as long as an exchange has it in monitor
\* mode.  A wait left over from before a change of state would be worse than
\* useless: its end puts the CPU in monitor mode, whatever it runs by then.
WaiterIsInMonitorMode ==
    \A c \in Cpus : isMonitorModePending[c] /\ ~loading[c] => isMonitorMode[c]

\* A CPU with an exit to 180 state pending is one that an error in monitor mode
\* has stopped; the same error in job mode takes the error exit instead.
ExitsFromMonitorMode ==
    \A c \in Cpus : exchPending[c] => isStopped[c] /\ isMonitorMode[c]

\* "CPU will eventually continue in monitor mode" (cpuStep): a running 170
\* program waits for it for ever only while the other CPU holds it.
WaitsOnlyForHolder180 ==
    \A c \in Cpus : <>[](isMonitorModePending[c] /\ regVmid[c] = 1 /\ c \notin halted) =>
        []<>(\E d \in Cpus \ {c} : HoldsMonitor(d))

=============================================================================
