---------------------------- MODULE CpuExchange ----------------------------
(***************************************************************************)
(* The exchange machinery of a CYBER 170: the CPUs of cpu.c, the PPs of    *)
(* pp.c that request exchanges of them, and the threads of main.c and      *)
(* cpu.c that run both.                                                    *)
(*                                                                         *)
(* The main thread runs, over and over, the operator's requests, the whole *)
(* PP barrel and StepsPerLoop steps of CPU 0; CPU 1 has a thread of its    *)
(* own.  A step of a CPU is cut where the code releases or has not yet     *)
(* taken the exchange mutex: each critical section is one action (every    *)
(* field it reads or writes is otherwise written only by the CPU's own     *)
(* thread), and the word of instructions between them is another.          *)
(*                                                                         *)
(* Registers, memory and addresses are abstracted: an exchange package has *)
(* an address beyond memory, a P register the CPU cannot fetch from, or    *)
(* neither, and which of these is a choice made at the exchange.           *)
(***************************************************************************)
EXTENDS Integers

CONSTANTS Cpus,            \* the CPU ordinals: {0}, or {0, 1} (MaxCpus is 2)
          PpuCount,        \* the PPs are 0 .. PpuCount - 1
          HasNoCejMej,     \* CEJ/MEJ is disabled: no monitor mode at all
          IsSeries6x00,    \* a 6x00 does not take error exits
          StepsPerLoop,    \* calls of cpuStep per turn of a thread's loop: 4 in the code
          MayDeadstart     \* whether the operator may deadstart the system, for TLC

ASSUME CpusAssumption == Cpus = {0} \/ Cpus = {0, 1}
ASSUME PpuCountAssumption == PpuCount \in Nat \ {0}
ASSUME FeatureAssumption == HasNoCejMej \in BOOLEAN /\ IsSeries6x00 \in BOOLEAN
ASSUME StepsAssumption == StepsPerLoop \in Nat \ {0}
ASSUME DeadstartsAssumption == MayDeadstart \in BOOLEAN

Pps   == 0 .. PpuCount - 1
None  == -1
Dual  == Cpus = {0, 1}
Other(c) == 1 - c

\* An exchange instruction of a PP: EXN leaves the monitor flag alone, MXN and
\* MAN toggle it (they differ in the address only), any other opD passes.
ExnOps == [cpu : Cpus, kind : {"EXN", "MXN", "PASS"}]
NoOp   == [cpu |-> 0, kind |-> "none"]

VARIABLES isStopped, isMonitorMode, isMonitorModePending, isErrorExitPending,
          opAtWord,              \* opOffset = 60: the CPU is at the start of a word
          ppRequestingExchange, doChangeMode,
          exchangingCpu,         \* by PP: the CPU whose exchange it waits for
          heldExn,               \* by PP: the EXN its P register was set back to
          mainPhase, barrel,     \* where the main thread is: its loop, PP barrel, CPU 0
          cpuPc, stepsLeft,      \* where a CPU's thread is in cpuStep
          doDeadstart,
          forgotten              \* history: CPUs with a request left from before a deadstart they missed

modeVars    == <<isMonitorMode, isMonitorModePending>>
haltVars    == <<isStopped, isErrorExitPending, opAtWord>>
requestVars == <<ppRequestingExchange, doChangeMode>>
ppVars      == <<exchangingCpu, heldExn>>
mainVars    == <<mainPhase, barrel>>
threadVars  == <<cpuPc, stepsLeft>>
opVars      == <<doDeadstart, forgotten>>
vars == <<modeVars, haltVars, requestVars, ppVars, mainVars, threadVars, opVars>>

Init == /\ isStopped = [c \in Cpus |-> TRUE]
        /\ isMonitorMode = [c \in Cpus |-> FALSE]
        /\ isMonitorModePending = [c \in Cpus |-> FALSE]
        /\ isErrorExitPending = [c \in Cpus |-> FALSE]
        /\ opAtWord = [c \in Cpus |-> FALSE]
        /\ ppRequestingExchange = [c \in Cpus |-> None]
        /\ doChangeMode = [c \in Cpus |-> FALSE]
        /\ exchangingCpu = [p \in Pps |-> None]
        /\ heldExn = [p \in Pps |-> NoOp]
        /\ mainPhase = "loop" /\ barrel = 0
        /\ cpuPc = [c \in Cpus |-> "loop"]
        /\ stepsLeft = [c \in Cpus |-> 0]
        /\ doDeadstart = [c \in Cpus |-> FALSE]
        /\ forgotten = {}

-----------------------------------------------------------------------------
(* Exchange jumps.                                                         *)

ExchangeResults == {"badAddress", "fetched", "fetchFails"}

\* An error stops the CPU; in job mode it also asks for an error exit, which
\* the next exchange jump of the same step takes.
CanErrorExitAnyMode(inMonitor) == ~HasNoCejMej /\ ~IsSeries6x00  \* mutation

CanErrorExit(inMonitor) == ~HasNoCejMej /\ ~IsSeries6x00 /\ ~inMonitor

\* The exchange package is beyond memory: "pretend that exchange worked".
\* Otherwise the CPU is activated, the monitor flag toggled if asked for, and
\* the first word of the new program fetched, which may itself fail.  atWord
\* and exitPending are what opOffset and isErrorExitPending are before it.
ExchangeJump(c, doChange, result, atWord, exitPending) ==
    LET taken == result # "badAddress"
    IN  /\ isMonitorMode' = [isMonitorMode EXCEPT ![c] = (@ # (taken /\ doChange))]
        /\ isStopped' = [isStopped EXCEPT
              ![c] = IF taken THEN result = "fetchFails" ELSE @]
        /\ opAtWord' = [opAtWord EXCEPT ![c] = atWord \/ result = "fetched"]
        /\ isErrorExitPending' = [isErrorExitPending EXCEPT
              ![c] = exitPending \/ (result = "fetchFails" /\ CanErrorExit(isMonitorMode'[c]))]

\* After every exchange jump, under the same mutex: a CPU that is now in
\* monitor mode waits if the other CPU is there and not itself waiting.
MustWaitEvenForWaiter(c) == Dual /\ isMonitorMode'[c] /\ isMonitorMode[Other(c)]  \* mutation

MustWait(c) == Dual /\ isMonitorMode'[c] /\ isMonitorMode[Other(c)]
                    /\ ~isMonitorModePending[Other(c)]

SetPendingForgotten(c) == UNCHANGED isMonitorModePending  \* mutation

SetPending(c) ==
    isMonitorModePending' = [isMonitorModePending EXCEPT ![c] = MustWait(c)]

-----------------------------------------------------------------------------
(* One cpuStep of CPU c, in the order of the code.                         *)

Goto(c, label) == /\ cpuPc' = [cpuPc EXCEPT ![c] = label]
                  /\ UNCHANGED <<stepsLeft, mainVars>>

\* cpuStep returns to its caller, which calls it again or goes round its loop.
EndStep(c) ==
    /\ stepsLeft' = [stepsLeft EXCEPT ![c] = @ - 1]
    /\ cpuPc' = [cpuPc EXCEPT ![c] = IF stepsLeft[c] > 1 THEN "step" ELSE "loop"]
    /\ mainPhase' = IF c = 0 /\ stepsLeft[c] <= 1 THEN "loop" ELSE mainPhase
    /\ UNCHANGED barrel

MonitorIsFreeIfOtherDoesNotWait(c) == Dual => ~isMonitorModePending[Other(c)]  \* mutation

\* The other CPU has exited monitor mode.
MonitorIsFree(c) == Dual => ~isMonitorMode[Other(c)]

\* The CPU may go on: it is not waiting, or the other CPU has left monitor mode.
PassMonitorGate(c) ==
    /\ cpuPc[c] = "step"
    /\ \/ ~isMonitorModePending[c] /\ UNCHANGED modeVars
       \/ /\ isMonitorModePending[c]
          /\ MonitorIsFree(c)
          /\ isMonitorMode' = [isMonitorMode EXCEPT ![c] = TRUE]
          /\ isMonitorModePending' = [isMonitorModePending EXCEPT ![c] = FALSE]
    /\ Goto(c, "request")
    /\ UNCHANGED <<haltVars, requestVars, ppVars, opVars>>

\* The CPU has to wait: it drops a PP's request to change its mode, keeps one
\* that does not, and returns.
WaitAtMonitorGate(c) ==
    /\ cpuPc[c] = "step"
    /\ isMonitorModePending[c] /\ ~MonitorIsFree(c)
    /\ ppRequestingExchange' = [ppRequestingExchange EXCEPT
                                  ![c] = IF doChangeMode[c] THEN None ELSE @]
    /\ forgotten' = IF doChangeMode[c] THEN forgotten \ {c} ELSE forgotten
    /\ EndStep(c)
    /\ UNCHANGED <<modeVars, haltVars, doChangeMode, ppVars, doDeadstart>>

\* The condition under which a PP's request is carried out and not discarded.
Honours(c) == /\ ~doChangeMode[c] \/ ~isMonitorMode[c]
              /\ opAtWord[c] \/ isStopped[c]

ServeRequestIfHonoured(c) ==  \* mutation: a request not carried out is kept
    /\ cpuPc[c] = "request"
    /\ IF ppRequestingExchange[c] # None /\ Honours(c)
       THEN /\ \E result \in ExchangeResults :
                  ExchangeJump(c, doChangeMode[c], result, opAtWord[c], isErrorExitPending[c])
            /\ SetPending(c)
            /\ ppRequestingExchange' = [ppRequestingExchange EXCEPT ![c] = None]
       ELSE UNCHANGED <<modeVars, haltVars, ppRequestingExchange>>
    /\ forgotten' = {d \in forgotten : ppRequestingExchange'[d] # None}
    /\ IF isStopped'[c] THEN EndStep(c) ELSE Goto(c, "execute")
    /\ UNCHANGED <<doChangeMode, ppVars, doDeadstart>>

\* A PP requests this CPU: exchange it, or discard the request.  A CPU that is
\* stopped afterwards returns; the test sees what the exchange left.
ServeRequest(c) ==
    /\ cpuPc[c] = "request"
    /\ \/ ppRequestingExchange[c] = None /\ UNCHANGED <<modeVars, haltVars>>
       \/ /\ ppRequestingExchange[c] # None /\ ~Honours(c)
          /\ UNCHANGED <<modeVars, haltVars>>
       \/ /\ ppRequestingExchange[c] # None /\ Honours(c)
          /\ \E result \in ExchangeResults :
                ExchangeJump(c, doChangeMode[c], result, opAtWord[c], isErrorExitPending[c])
          /\ SetPending(c)
    /\ ppRequestingExchange' = [ppRequestingExchange EXCEPT ![c] = None]
    /\ forgotten' = forgotten \ {c}
    /\ IF isStopped'[c] THEN EndStep(c) ELSE Goto(c, "execute")
    /\ UNCHANGED <<doChangeMode, ppVars, doDeadstart>>

ExecuteOneInstruction(c) ==  \* mutation: the step ends before the word does
    /\ cpuPc[c] \in {"execute", "continue"}
    /\ isErrorExitPending' = [isErrorExitPending EXCEPT ![c] = FALSE]
    /\ opAtWord' = [opAtWord EXCEPT ![c] = FALSE]
    /\ EndStep(c)
    /\ UNCHANGED <<isStopped, modeVars, requestVars, ppVars, opVars>>

\* A word of instructions that ends in the fetch of the next one.
ExecuteWord(c) ==
    /\ cpuPc[c] \in {"execute", "continue"}
    /\ isErrorExitPending' = [isErrorExitPending EXCEPT ![c] = FALSE]
    /\ opAtWord' = [opAtWord EXCEPT ![c] = TRUE]
    /\ EndStep(c)
    /\ UNCHANGED <<isStopped, modeVars, requestVars, ppVars, opVars>>

\* PS, or an error where there is no error exit to take, stops the CPU.
ProgramStop(c) ==
    /\ cpuPc[c] \in {"execute", "continue"}
    /\ ~CanErrorExit(isMonitorMode[c])
    /\ isStopped' = [isStopped EXCEPT ![c] = TRUE]
    /\ isErrorExitPending' = [isErrorExitPending EXCEPT ![c] = FALSE]
    /\ opAtWord' = [opAtWord EXCEPT ![c] = FALSE]
    /\ EndStep(c)
    /\ UNCHANGED <<modeVars, requestVars, ppVars, opVars>>

\* An illegal instruction, a failed fetch or access: stop, and ask for the
\* error exit if the CPU is in job mode.
ErrorStop(c) ==
    /\ cpuPc[c] \in {"execute", "continue"}
    /\ CanErrorExit(isMonitorMode[c])
    /\ isStopped' = [isStopped EXCEPT ![c] = TRUE]
    /\ isErrorExitPending' = [isErrorExitPending EXCEPT ![c] = TRUE]
    /\ opAtWord' = [opAtWord EXCEPT ![c] = FALSE]
    /\ Goto(c, "errorExit")
    /\ UNCHANGED <<modeVars, requestVars, ppVars, opVars>>

\* XJ, in the first parcel of a word.  An exchange beyond memory lets the rest
\* of the word run; a successful one ends it; one that cannot fetch stops.
ExchangeInstruction(c) ==
    /\ cpuPc[c] = "execute" /\ ~HasNoCejMej
    /\ \E result \in ExchangeResults :
          /\ ExchangeJump(c, TRUE, result, FALSE, FALSE)
          /\ CASE result = "badAddress" -> Goto(c, "continue")
               [] isErrorExitPending'[c] -> Goto(c, "errorExit")
               [] OTHER -> EndStep(c)
    /\ SetPending(c)
    /\ UNCHANGED <<requestVars, ppVars, opVars>>

\* The error exit: an exchange to the monitor address, after the word.
ErrorExit(c) ==
    /\ cpuPc[c] = "errorExit"
    /\ \E result \in ExchangeResults :
          ExchangeJump(c, TRUE, result, opAtWord[c], isErrorExitPending[c])
    /\ SetPending(c)
    /\ EndStep(c)
    /\ UNCHANGED <<requestVars, ppVars, opVars>>

CpuStep(c) == \/ PassMonitorGate(c) \/ WaitAtMonitorGate(c) \/ ServeRequest(c)
              \/ ExecuteWord(c) \/ ProgramStop(c) \/ ErrorStop(c)
              \/ ExchangeInstruction(c) \/ ErrorExit(c)
-----------------------------------------------------------------------------
(* The threads.                                                            *)

ResetKeepsRequest(c) ==  \* mutation
            /\ isStopped' = [isStopped EXCEPT ![c] = TRUE]
            /\ isMonitorMode' = [isMonitorMode EXCEPT ![c] = FALSE]
            /\ isMonitorModePending' = [isMonitorModePending EXCEPT ![c] = FALSE]
            /\ isErrorExitPending' = [isErrorExitPending EXCEPT ![c] = FALSE]
            /\ forgotten' = forgotten \ {c}
            /\ UNCHANGED <<requestVars, opAtWord>>

Reset(c) == /\ isStopped' = [isStopped EXCEPT ![c] = TRUE]
            /\ isMonitorMode' = [isMonitorMode EXCEPT ![c] = FALSE]
            /\ isMonitorModePending' = [isMonitorModePending EXCEPT ![c] = FALSE]
            /\ isErrorExitPending' = [isErrorExitPending EXCEPT ![c] = FALSE]
            /\ doChangeMode' = [doChangeMode EXCEPT ![c] = FALSE]
            /\ ppRequestingExchange' = [ppRequestingExchange EXCEPT ![c] = None]
            /\ forgotten' = forgotten \ {c}
            /\ UNCHANGED opAtWord

ClearMark(c) == doDeadstart' = [doDeadstart EXCEPT ![c] = FALSE]

\* The operator's deadstart command only marks the CPUs.  A CPU that was reset and is about
\* to clear its mark clears this one with it.
OpCmdDeadstart ==
    /\ mainPhase = "loop" /\ MayDeadstart
    /\ doDeadstart' = [c \in Cpus |-> TRUE]
    /\ forgotten' = forgotten \cup
          {c \in Cpus : cpuPc[c] = "wasReset" /\ ppRequestingExchange[c] # None}
    /\ UNCHANGED <<modeVars, haltVars, requestVars, ppVars, mainVars, threadVars>>

\* The main thread, which also executes the operator's commands, deadstarts the PPs and
\* resets its own CPU; CPU 1 is reset by its own thread, some time later.
MainLoop ==
    /\ mainPhase = "loop"
    /\ mainPhase' = "barrel" /\ barrel' = 0
    /\ IF doDeadstart[0]
       THEN /\ exchangingCpu' = [p \in Pps |-> None]
            /\ heldExn' = [p \in Pps |-> NoOp]
            /\ Reset(0) /\ ClearMark(0)
       ELSE UNCHANGED <<modeVars, haltVars, requestVars, ppVars, opVars>>
    /\ UNCHANGED threadVars

\* The thread of CPU 1 calls cpuStep some times,
BeginSteps(c) == /\ cpuPc' = [cpuPc EXCEPT ![c] = "step"]
                 /\ stepsLeft' = [stepsLeft EXCEPT ![c] = StepsPerLoop]

\* goes round its loop, with a reset if the CPU is marked,
CpuLoop(c) ==
    /\ c # 0 /\ cpuPc[c] = "loop"
    /\ \/ /\ ~doDeadstart[c] /\ BeginSteps(c)
          /\ UNCHANGED <<modeVars, haltVars, requestVars, opVars>>
       \/ /\ doDeadstart[c] /\ Reset(c)
          /\ cpuPc' = [cpuPc EXCEPT ![c] = "wasReset"]
          /\ UNCHANGED <<doDeadstart, stepsLeft>>
    /\ UNCHANGED <<ppVars, mainVars>>

\* and after the reset, without the mutex, clears the mark.
ClearDoDeadstart(c) ==
    /\ cpuPc[c] = "wasReset"
    /\ ClearMark(c) /\ BeginSteps(c)
    /\ UNCHANGED <<modeVars, haltVars, requestVars, ppVars, mainVars, forgotten>>

-----------------------------------------------------------------------------
(* The PP barrel.                                                          *)

\* The barrel turns to the next PP; after the last one the main thread steps
\* CPU 0.
NextPp == IF barrel < PpuCount - 1
          THEN /\ barrel' = barrel + 1
               /\ UNCHANGED <<mainPhase, threadVars>>
          ELSE /\ barrel' = 0 /\ mainPhase' = "cpu"
               /\ cpuPc' = [cpuPc EXCEPT ![0] = "step"]
               /\ stepsLeft' = [stepsLeft EXCEPT ![0] = StepsPerLoop]

\* The PP has initiated an exchange, and it has not completed yet.
AwaitsExchange(p) == /\ exchangingCpu[p] # None
                     /\ ppRequestingExchange[exchangingCpu[p]] = p

PpWaits(p) ==
    /\ mainPhase = "barrel" /\ barrel = p /\ AwaitsExchange(p)
    /\ NextPp
    /\ UNCHANGED <<modeVars, haltVars, requestVars, ppVars, opVars>>

\* Any instruction other than an exchange.
PpOther(p) ==
    /\ mainPhase = "barrel" /\ barrel = p /\ ~AwaitsExchange(p)
    /\ heldExn[p] = NoOp
    /\ exchangingCpu' = [exchangingCpu EXCEPT ![p] = None]
    /\ NextPp
    /\ UNCHANGED <<modeVars, haltVars, requestVars, heldExn, opVars>>

CpuHasRequestUnchecked(c) == FALSE  \* mutation

CpuHasRequest(c) == ppRequestingExchange[c] # None

\* EXN, MXN, MAN or the pass among them.  A PP whose CPU already has a request
\* sets P back and issues the same instruction at its next turn.
PpOpEXN(p, op) ==
    /\ mainPhase = "barrel" /\ barrel = p /\ ~AwaitsExchange(p)
    /\ heldExn[p] \in {NoOp, op}
    /\ IF CpuHasRequest(op.cpu)
       THEN /\ heldExn' = [heldExn EXCEPT ![p] = op]
            /\ exchangingCpu' = [exchangingCpu EXCEPT ![p] = None]
            /\ UNCHANGED requestVars
       ELSE /\ heldExn' = [heldExn EXCEPT ![p] = NoOp]
            /\ IF op.kind = "PASS" /\ ~HasNoCejMej
               THEN /\ exchangingCpu' = [exchangingCpu EXCEPT ![p] = None]
                    /\ UNCHANGED requestVars
               ELSE /\ exchangingCpu' = [exchangingCpu EXCEPT ![p] = op.cpu]
                    /\ ppRequestingExchange' = [ppRequestingExchange EXCEPT ![op.cpu] = p]
                    /\ doChangeMode' = [doChangeMode EXCEPT
                                          ![op.cpu] = op.kind = "MXN" /\ ~HasNoCejMej]
    /\ NextPp
    /\ UNCHANGED <<modeVars, haltVars, opVars>>

PpStep(p) == PpWaits(p) \/ PpOther(p) \/ \E op \in ExnOps : PpOpEXN(p, op)

-----------------------------------------------------------------------------
MainThread == MainLoop \/ CpuStep(0) \/ \E p \in Pps : PpStep(p)

CpuThread(c) == CpuLoop(c) \/ ClearDoDeadstart(c) \/ CpuStep(c)

Next == OpCmdDeadstart \/ MainThread \/ \E c \in Cpus \ {0} : CpuThread(c)

Spec == Init /\ [][Next]_vars

\* Both threads are loops that never block for long: the operating system runs
\* them.  Nothing is assumed of what programs do, nor of who gets the mutex.
FairSpec == Spec /\ WF_vars(MainThread)
                 /\ \A c \in Cpus \ {0} : WF_vars(CpuThread(c))

-----------------------------------------------------------------------------
(* Properties.                                                             *)

PcLabels == {"loop", "wasReset", "step", "request", "execute", "continue", "errorExit"}

\* Every variable holds what the code can put there; stepsLeft stays within the
\* calls one turn of a thread makes.
TypeOK ==
    /\ isStopped \in [Cpus -> BOOLEAN]
    /\ isMonitorMode \in [Cpus -> BOOLEAN]
    /\ isMonitorModePending \in [Cpus -> BOOLEAN]
    /\ isErrorExitPending \in [Cpus -> BOOLEAN]
    /\ opAtWord \in [Cpus -> BOOLEAN]
    /\ ppRequestingExchange \in [Cpus -> Pps \cup {None}]
    /\ doChangeMode \in [Cpus -> BOOLEAN]
    /\ exchangingCpu \in [Pps -> Cpus \cup {None}]
    /\ heldExn \in [Pps -> ExnOps \cup {NoOp}]
    /\ mainPhase \in {"loop", "barrel", "cpu"} /\ barrel \in Pps
    /\ cpuPc \in [Cpus -> PcLabels] /\ stepsLeft \in [Cpus -> 0 .. StepsPerLoop]
    /\ doDeadstart \in [Cpus -> BOOLEAN] /\ forgotten \subseteq Cpus

\* The CPU holds monitor mode: it is in it and does not wait for it.
HoldsMonitor(c) == isMonitorMode[c] /\ ~isMonitorModePending[c]

\* Two CPUs never hold monitor mode at once, whatever mix of XJ, PP exchanges,
\* error exits and resets got them there.
MonitorModeExclusive ==
    \A c, d \in Cpus : HoldsMonitor(c) /\ HoldsMonitor(d) => c = d

\* Two CPUs never wait for each other, and a CPU that waits is one that an
\* exchange has put in monitor mode.
NoMutualWait ==
    /\ \A c \in Cpus : isMonitorModePending[c] => isMonitorMode[c]
    /\ \A c, d \in Cpus : isMonitorModePending[c] /\ isMonitorModePending[d] => c = d

\* The error exit, a toggle of the monitor flag, is only ever performed by a
\* CPU in job mode: taken in monitor mode it would leave it.
ErrorExitEntersMonitor ==
    \A c \in Cpus : cpuPc[c] = "errorExit" => ~isMonitorMode[c] /\ isStopped[c]

\* An EXN, which does not change the mode, is never discarded: when the CPU
\* looks at the request it is between two words, or stopped.
ExnIsHonoured ==
    \A c \in Cpus : cpuPc[c] = "request" /\ ppRequestingExchange[c] # None
                       /\ ~doChangeMode[c] => Honours(c)

\* The CPU is marked and will be reset.
AwaitsReset(c) == doDeadstart[c] /\ cpuPc[c] # "wasReset"

\* An outstanding request has its PP waiting for it.  Only between a deadstart and the CPU's
\* own reset may it belong to a PP that has since been restarted; except on a CPU that missed
\* the deadstart, because it had just been reset for an earlier one (cpu.c:1392).
RequestHasWaiter ==
    \A c \in Cpus : ppRequestingExchange[c] # None =>
        \/ exchangingCpu[ppRequestingExchange[c]] = c
        \/ AwaitsReset(c) \/ c \in forgotten

\* No PP overwrites a request that the CPU has not yet taken, and the mode a PP
\* asked for stays with its request until the CPU has acted on it.
RequestNotOverwritten ==
    [][\A c \in Cpus : ppRequestingExchange[c] # None =>
          \/ ppRequestingExchange'[c] = None
          \/ /\ ppRequestingExchange'[c] = ppRequestingExchange[c]
             /\ doChangeMode'[c] = doChangeMode[c]]_vars

\* A CPU waits for monitor mode for ever only while the other CPU is, again and
\* again, the one that holds it ("CPU will eventually continue in monitor mode").
WaitsOnlyForHolder ==
    \A c \in Cpus : <>[]isMonitorModePending[c] =>
        []<>(\E d \in Cpus \ {c} : HoldsMonitor(d))

\* A PP's exchange is answered, done or discarded, unless its CPU waits for
\* monitor mode for ever.
ExchangeIsAnswered ==
    \A c \in Cpus : \A p \in Pps :
        <>[](ppRequestingExchange[c] = p) => <>[]isMonitorModePending[c]

\* Monitor mode is the lock of MonitorLock.
Lock == INSTANCE MonitorLock WITH
            holders <- {c \in Cpus : HoldsMonitor(c)},
            waiting <- {c \in Cpus : isMonitorModePending[c]}

LockSpec == Lock!Spec

=============================================================================
