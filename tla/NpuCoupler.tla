----------------------------- MODULE NpuCoupler -----------------------------
(***************************************************************************)
(* The coupler between the host and the NPU (CCP): the host interface of   *)
(* npu_hip.c, a half-duplex device, and the block interface of npu_bip.c,  *)
(* which owns the data buffers and queues the blocks that go upline.       *)
(*                                                                         *)
(* Everything here runs in the main thread.  The host is external: its     *)
(* driver (PIP) polls the coupler, reads the NPU status, and does what the *)
(* status allows.  The parts of the NPU that use the buffers (SVM, TIPs,   *)
(* LIP, network) are the client: they run inside the host's polls and      *)
(* inside the processing of a downline block, and allocate, fill, keep,    *)
(* send and release buffers as they like.  The network thread, which calls *)
(* the same functions without a lock, is the subject of NpuNetThread.      *)
(*                                                                         *)
(* A transfer of words over the channel is one action: while it lasts no   *)
(* other PP reaches the NPU.  Of a block's data only its identity counts.  *)
(***************************************************************************)
EXTENDS Integers, SequencesExt

CONSTANTS Buffers,           \* the data buffers: NumBuffs is 1000
          Blocks,            \* what a buffer may contain
          None,              \* no buffer, no block
          ReportInitCount,   \* times "init completed" is reported: 4 in the code
          HostRestarts       \* the host may be deadstarted during a transfer or an order

ASSUME BuffersAssumption == None \notin Buffers
ASSUME BlocksAssumption == None \notin Blocks
ASSUME ReportAssumption == ReportInitCount \in Nat
ASSUME RestartsAssumption == HostRestarts \in BOOLEAN

VARIABLES hipState, initCount,
          regNpuStatus,        \* "ignore" when no status is loaded
          hipBuffer,           \* npu->buffer, kept when a transfer ends
          bipState, bipUplineBuffer, bipUplineQueue, bipDownlineBuffer,
          bufPool,             \* the free buffers (a LIFO list; its order is immaterial)
          held,                \* the buffers that clients keep in queues of their own
          inHand,              \* the downline block being processed
          data,                \* what each buffer contains
          phase,               \* who runs: the PPs, or the NPU inside a poll, order or output
          host, lastRead,      \* the state of the host's driver; the block it read last
          displaced            \* history: the block that waits for the word of an order

hipVars  == <<hipState, regNpuStatus, hipBuffer>>
upVars   == <<bipUplineBuffer, bipUplineQueue>>
downVars == <<bipState, bipDownlineBuffer>>
memVars  == <<bufPool, held, inHand, data>>
hostVars == <<host, lastRead, displaced>>
vars == <<hipVars, initCount, upVars, downVars, memVars, phase, hostVars>>

Init == /\ hipState = "StHipInit" /\ initCount = ReportInitCount
        /\ regNpuStatus = "ignore" /\ hipBuffer = None
        /\ bipState = "BipIdle" /\ bipDownlineBuffer = None
        /\ bipUplineBuffer = None /\ bipUplineQueue = <<>>
        /\ bufPool = Buffers /\ held = {} /\ inHand = None
        /\ data = [b \in Buffers |-> None]
        /\ phase = "pp" /\ host = "watching" /\ lastRead = None /\ displaced = None

-----------------------------------------------------------------------------
(* The host interface.                                                     *)

Announce(b) == /\ regNpuStatus' = "inputAvail" /\ hipBuffer' = b
               /\ hipState' = "StHipUpline"

\* The HIP accepts a block to announce only when it is idle.
UplineBlock(b) == \/ hipState = "StHipIdle" /\ Announce(b)
                  \/ hipState # "StHipIdle" /\ UNCHANGED hipVars

\* A transfer is over, and the next block to go upline, if any, is announced.
EndTransfer(next) ==
    \/ /\ next = None
       /\ hipState' = "StHipIdle" /\ UNCHANGED <<regNpuStatus, hipBuffer>>
    \/ next # None /\ Announce(next)

RetryInputNever == UNCHANGED hipVars  \* mutation

\* The block that waits to go upline is announced, if the HIP accepts it.
RetryInput == IF bipUplineBuffer # None THEN UplineBlock(bipUplineBuffer)
                                        ELSE UNCHANGED hipVars

-----------------------------------------------------------------------------
(* The block interface.                                                    *)

RequestUplineTransferFirst(b) ==  \* mutation: the newest block is sent first
    \/ /\ bipUplineBuffer # None
       /\ bipUplineQueue' = <<b>> \o bipUplineQueue
       /\ UNCHANGED <<hipVars, bipUplineBuffer>>
    \/ /\ bipUplineBuffer = None /\ bipUplineBuffer' = b
       /\ IF bipState = "BipIdle" THEN UplineBlock(b) ELSE UNCHANGED hipVars
       /\ UNCHANGED bipUplineQueue

\* A block goes behind the one that is pending, or is the pending one and is
\* announced at once, unless a downline transfer is under way.
RequestUplineTransfer(b) ==
    \/ /\ bipUplineBuffer # None
       /\ bipUplineQueue' = Append(bipUplineQueue, b)
       /\ UNCHANGED <<hipVars, bipUplineBuffer>>
    \/ /\ bipUplineBuffer = None /\ bipUplineBuffer' = b
       /\ IF bipState = "BipIdle" THEN UplineBlock(b) ELSE UNCHANGED hipVars
       /\ UNCHANGED bipUplineQueue

NextUpline == IF bipUplineQueue = <<>> THEN None ELSE Head(bipUplineQueue)
RestUpline == IF bipUplineQueue = <<>> THEN <<>> ELSE Tail(bipUplineQueue)

NotifyUplineSentKeepingBuffer ==  \* mutation: the buffer is not released
    /\ bipUplineBuffer' = NextUpline
    /\ bipUplineQueue' = RestUpline
    /\ EndTransfer(NextUpline)
    /\ UNCHANGED bufPool

NotifyUplineSentWithoutNext ==  \* mutation: the next block stays in the queue
    /\ bufPool' = bufPool \cup ({bipUplineBuffer} \ {None})
    /\ bipUplineBuffer' = None
    /\ EndTransfer(None)
    /\ UNCHANGED bipUplineQueue

\* An upline transfer has finished: its buffer is released, and the next block
\* taken from the queue.
NotifyUplineSent ==
    /\ bufPool' = bufPool \cup ({bipUplineBuffer} \ {None})
    /\ bipUplineBuffer' = NextUpline
    /\ bipUplineQueue' = RestUpline
    /\ EndTransfer(NextUpline)

\* The NPU is reset: connections are closed, which frees what their queues hold,
\* and so is everything the BIP has.
Reset == /\ bufPool' = bufPool \cup held \cup ToSet(bipUplineQueue) \cup
              ({bipUplineBuffer, bipDownlineBuffer, inHand} \ {None})
         /\ held' = {} /\ inHand' = None
         /\ bipUplineBuffer' = None /\ bipUplineQueue' = <<>>
         /\ bipDownlineBuffer' = None /\ bipState' = "BipIdle"
         /\ hipState' = "StHipInit" /\ initCount' = ReportInitCount
         /\ regNpuStatus' = "ignore" /\ hipBuffer' = None
         /\ UNCHANGED data

-----------------------------------------------------------------------------
(* Function codes and order words of the host.                             *)

\* The host polls the coupler after a reset.
PollInit ==
    /\ phase = "pp" /\ hipState = "StHipInit"
    /\ \/ /\ initCount > 0
          /\ initCount' = initCount - 1
          /\ regNpuStatus' = "initCompleted" /\ UNCHANGED hipState
       \/ /\ initCount = 0
          /\ hipState' = "StHipIdle"
          /\ regNpuStatus' = "idle" /\ UNCHANGED initCount
    /\ UNCHANGED <<hipBuffer, upVars, downVars, memVars, phase, hostVars>>

\* The host polls an idle coupler: the NPU looks after its network ...
PollIdle == /\ phase = "pp" /\ host # "ordering"
            /\ hipState = "StHipIdle" /\ phase' = "check"
            /\ UNCHANGED <<hipVars, initCount, upVars, downVars, memVars, hostVars>>

\* ... and says that it is alive, if it has not for a while and has nothing else
\* to say.
EndCheck ==
    /\ phase = "check" /\ phase' = "pp"
    /\ \/ UNCHANGED regNpuStatus
       \/ hipState = "StHipIdle" /\ regNpuStatus' = "idle"
    /\ UNCHANGED <<hipState, hipBuffer, initCount, upVars, downVars, memVars, hostVars>>

\* The host finds a status loaded and reads it.
ReadNpuStatus ==
    /\ phase = "pp" /\ host # "ordering" /\ regNpuStatus # "ignore"
    /\ regNpuStatus' = "ignore"
    /\ host' = CASE regNpuStatus = "inputAvail" -> "sawInput"
                 [] regNpuStatus = "readyOutput" -> "sawReady"
                 [] OTHER -> host
    /\ UNCHANGED <<hipState, hipBuffer, initCount, upVars, downVars, memVars, phase, lastRead,
                   displaced>>

\* The host reads the block it was told of, to its last byte.
ReadBlock ==
    /\ phase = "pp" /\ host = "sawInput" /\ hipBuffer # None
    /\ lastRead' = data[hipBuffer]
    /\ host' = "watching"
    /\ NotifyUplineSent
    /\ UNCHANGED <<initCount, downVars, held, inHand, data, phase, displaced>>

OrderFunctionKeepingInput ==  \* mutation: a block announced upline stays announced
    /\ phase = "pp" /\ host \in {"watching", "sawInput", "restarted"}
    /\ hipState' = IF hipState = "StHipUpline" THEN hipState ELSE "StHipIdle"
    /\ regNpuStatus' = "idle"
    /\ host' = "ordering" /\ displaced' = bipUplineBuffer
    /\ UNCHANGED <<hipBuffer, initCount, upVars, downVars, memVars, phase, lastRead>>

\* The host's function for an order ends whatever the HIP was doing.  A block that had
\* been announced, or waits to be, is announced when the order's word comes, or later.
OrderFunction ==
    /\ phase = "pp" /\ host \in {"watching", "sawInput", "restarted"}
    /\ hipState' = "StHipIdle" /\ regNpuStatus' = "idle"
    /\ host' = "ordering" /\ displaced' = bipUplineBuffer
    /\ UNCHANGED <<hipBuffer, initCount, upVars, downVars, memVars, phase, lastRead>>

\* An order to accept output, for which the BIP allocates a buffer.  The HIP accepts it
\* when it is idle, as the function has left it.
OutputOrder(state) ==
    /\ phase = "pp" /\ host = "ordering"
    /\ \E b \in bufPool :
          IF hipState = "StHipIdle"
          THEN /\ bufPool' = bufPool \ {b}
               /\ bipDownlineBuffer' = b /\ hipBuffer' = b
               /\ hipState' = "StHipDownline" /\ regNpuStatus' = "readyOutput"
               /\ bipState' = state
          ELSE /\ bipDownlineBuffer' = None
               /\ UNCHANGED <<bufPool, hipVars, bipState>>
    /\ host' = "ordered" /\ displaced' = None
    /\ UNCHANGED <<initCount, upVars, held, inHand, data, phase, lastRead>>

\* An order not to send input now, a change of regulation or an acknowledgement.
RetryOrder ==
    /\ phase = "pp" /\ host = "ordering"
    /\ phase' = "order" /\ host' = "watching" /\ displaced' = None
    /\ UNCHANGED <<hipVars, initCount, upVars, downVars, memVars, lastRead>>

\* An order of a type that the HIP does not know.
UnknownOrder ==
    /\ phase = "pp" /\ host = "ordering" /\ host' = "watching"
    /\ UNCHANGED <<hipVars, initCount, upVars, downVars, memVars, phase, lastRead, displaced>>

EndOrder == /\ phase = "order" /\ phase' = "pp"
            /\ RetryInput
            /\ UNCHANGED <<initCount, upVars, downVars, memVars, hostVars>>

AbortDownlineReceivedKeepingBuffer ==  \* mutation: the buffer stays the BIP's
    /\ phase = "pp" /\ host = "sawReady" /\ hipBuffer # None
    /\ bufPool' = bufPool \cup ({bipDownlineBuffer} \ {None})
    /\ bipState' = "BipIdle"
    /\ EndTransfer(bipUplineBuffer)
    /\ host' = "watching"
    /\ UNCHANGED <<bipDownlineBuffer, initCount, upVars, held, inHand, data, phase, lastRead,
                   displaced>>

\* The host's block is longer than a buffer: it is dropped.
AbortDownlineReceived ==
    /\ phase = "pp" /\ host = "sawReady" /\ hipBuffer # None
    /\ bufPool' = bufPool \cup ({bipDownlineBuffer} \ {None})
    /\ bipDownlineBuffer' = None /\ bipState' = "BipIdle"
    /\ EndTransfer(bipUplineBuffer)
    /\ host' = "watching"
    /\ UNCHANGED <<initCount, upVars, held, inHand, data, phase, lastRead, displaced>>

\* The host writes a block; the BIP loses ownership of its buffer.
NotifyDownlineReceived ==
    /\ phase = "pp" /\ host = "sawReady" /\ hipBuffer # None
    /\ \E m \in Blocks : data' = [data EXCEPT ![hipBuffer] = m]
    /\ hipState' = "StHipIdle"
    /\ inHand' = bipDownlineBuffer /\ bipDownlineBuffer' = None
    /\ host' = "watching" /\ phase' = "dispatch"
    /\ UNCHANGED <<regNpuStatus, hipBuffer, initCount, upVars, bipState, bufPool, held, lastRead,
                   displaced>>

EndDispatch ==
    /\ phase = "dispatch" /\ inHand = None /\ phase' = "pp"
    /\ bipState' = "BipIdle"
    /\ RetryInput
    /\ UNCHANGED <<initCount, upVars, bipDownlineBuffer, memVars, hostVars>>

ClearNpu == /\ phase = "pp" /\ host # "ordering"
            /\ Reset
            /\ host' = "watching" /\ displaced' = None
            /\ UNCHANGED <<phase, lastRead>>

\* The host is deadstarted, whatever it was doing: a word may never follow its function.
HostRestart == /\ HostRestarts /\ phase = "pp" /\ host # "restarted"
               /\ host' = "restarted"
               /\ UNCHANGED <<hipVars, initCount, upVars, downVars, memVars, phase, lastRead,
                              displaced>>

Host == \/ PollInit \/ PollIdle \/ ReadNpuStatus \/ ReadBlock
        \/ OrderFunction
        \/ (\E state \in {"BipDownSvm", "BipDownData"} : OutputOrder(state))
        \/ RetryOrder \/ UnknownOrder \/ AbortDownlineReceived \/ NotifyDownlineReceived
        \/ ClearNpu \/ HostRestart
-----------------------------------------------------------------------------
(* The clients, inside a poll, a regulation order or a downline block.     *)

\* A client sends a new block upline.
ClientRequest ==
    /\ phase \in {"check", "order", "dispatch"}
    /\ \E b \in bufPool : \E m \in Blocks :
          /\ bufPool' = bufPool \ {b}
          /\ data' = [data EXCEPT ![b] = m]
          /\ RequestUplineTransfer(b)
    /\ UNCHANGED <<initCount, downVars, held, inHand, phase, hostVars>>

\* A client queues a new buffer for its network connection or for later.
ClientHold ==
    /\ phase \in {"check", "dispatch"}
    /\ \E b \in bufPool : \E m \in Blocks :
          /\ bufPool' = bufPool \ {b} /\ held' = held \cup {b}
          /\ data' = [data EXCEPT ![b] = m]
    /\ UNCHANGED <<hipVars, initCount, upVars, downVars, inHand, phase, hostVars>>

\* A buffer has been sent to the network, or is discarded.
ClientRelease ==
    /\ phase \in {"check", "dispatch"}
    /\ \E b \in held : held' = held \ {b} /\ bufPool' = bufPool \cup {b}
    /\ UNCHANGED <<hipVars, initCount, upVars, downVars, inHand, data, phase, hostVars>>

\* A buffer that a client kept goes upline.
ClientForward ==
    /\ phase \in {"check", "dispatch"}
    /\ \E b \in held : held' = held \ {b} /\ RequestUplineTransfer(b)
    /\ UNCHANGED <<initCount, downVars, bufPool, inHand, data, phase, hostVars>>

\* What becomes of a downline block: most are released when they are processed,
\* one for another node is kept for its trunk, one for this host sent back.
DispatchRelease ==
    /\ phase = "dispatch" /\ inHand # None
    /\ bufPool' = bufPool \cup {inHand} /\ inHand' = None
    /\ UNCHANGED <<hipVars, initCount, upVars, downVars, held, data, phase, hostVars>>

DispatchKeep ==
    /\ phase = "dispatch" /\ inHand # None
    /\ held' = held \cup {inHand} /\ inHand' = None
    /\ UNCHANGED <<hipVars, initCount, upVars, downVars, bufPool, data, phase, hostVars>>

DispatchForward ==
    /\ phase = "dispatch" /\ inHand # None
    /\ RequestUplineTransfer(inHand) /\ inHand' = None
    /\ UNCHANGED <<initCount, downVars, bufPool, held, data, phase, hostVars>>

\* A service message asks for a reload of the NPU: everything is reset, while
\* the message is being processed, and then the message released.
DispatchReset == /\ phase = "dispatch" /\ inHand # None /\ bipState = "BipDownSvm"
                 /\ Reset
                 /\ phase' = "pp" /\ UNCHANGED hostVars

Client == \/ ClientRequest \/ ClientHold \/ ClientRelease \/ ClientForward
          \/ DispatchRelease \/ DispatchKeep \/ DispatchForward \/ DispatchReset

Next == Host \/ EndCheck \/ EndOrder \/ EndDispatch \/ Client

Spec == Init /\ [][Next]_vars

\* The emulator finishes what it runs.  Of the host is assumed that it goes on
\* polling, completes an output it ordered, and begins anew once it is restarted,
\* and that it does not put off for ever to look at an announcement of input, and
\* to read a block it was told of.
FairSpec == /\ Spec
            /\ WF_vars(EndCheck \/ EndOrder \/ EndDispatch \/ DispatchRelease)
            /\ WF_vars(PollInit)
            /\ WF_vars(NotifyDownlineReceived \/ AbortDownlineReceived)
            /\ WF_vars(regNpuStatus = "readyOutput" /\ ReadNpuStatus)
            /\ SF_vars(regNpuStatus = "inputAvail" /\ ReadNpuStatus)
            /\ SF_vars(ReadBlock)
            /\ WF_vars(host = "restarted" /\ (OrderFunction \/ ClearNpu))

-----------------------------------------------------------------------------
(* Properties.                                                             *)

Statuses == {"ignore", "idle", "readyOutput", "inputAvail", "initCompleted"}

\* Every variable holds what the code can put there.
TypeOK ==
    /\ hipState \in {"StHipInit", "StHipIdle", "StHipUpline", "StHipDownline"}
    /\ initCount \in 0 .. ReportInitCount
    /\ regNpuStatus \in Statuses /\ hipBuffer \in Buffers \cup {None}
    /\ bipState \in {"BipIdle", "BipDownSvm", "BipDownData"}
    /\ bipUplineBuffer \in Buffers \cup {None} /\ bipUplineQueue \in Seq(Buffers)
    /\ bipDownlineBuffer \in Buffers \cup {None}
    /\ bufPool \subseteq Buffers /\ held \subseteq Buffers
    /\ inHand \in Buffers \cup {None}
    /\ data \in [Buffers -> Blocks \cup {None}]
    /\ phase \in {"pp", "check", "order", "dispatch"}
    /\ host \in {"watching", "sawInput", "ordering", "ordered", "sawReady", "restarted"}
    /\ lastRead \in Blocks \cup {None} /\ displaced \in Buffers \cup {None}

\* The owners a buffer may have: the pool, the clients, the queue and the place at
\* its head, the downline block being received and the one being processed.
Owners == <<bufPool, held, ToSet(bipUplineQueue), {bipUplineBuffer} \ {None},
            {bipDownlineBuffer} \ {None}, {inHand} \ {None}>>

\* No buffer has two owners, or is queued twice: none is filled by one part of the
\* NPU while another still sends it, or put back into the pool twice.
OneOwner == /\ IsInjective(bipUplineQueue)
            /\ LET owners == Owners
               IN  \A i, j \in 1 .. 6 : i < j => owners[i] \cap owners[j] = {}

Owned == UNION {Owners[i] : i \in 1 .. 6}

\* No buffer gets lost, but for one case: a host that was restarted in the middle
\* of an output orders output again, over the buffer of the first.
LostOnlyByRestart ==
    [][\A b \in Owned \ Owned' : b = bipDownlineBuffer /\ HostRestarts]_vars

\* What the host has been told it may do is what the HIP is about to do, with the
\* buffer that the BIP means, and the word of an order finds the HIP idle.
HostAndNpuAgree ==
    /\ phase = "pp" /\ host = "ordering" => hipState = "StHipIdle"
    /\ phase = "pp" /\ host = "sawInput"
         => hipState = "StHipUpline" /\ hipBuffer = bipUplineBuffer
    /\ phase = "pp" /\ host \in {"ordered", "sawReady"}
         => hipState = "StHipDownline" /\ hipBuffer = bipDownlineBuffer

\* A block that is pending is never left unannounced by an idle coupler: nothing but the
\* end of a transfer or an order would announce it.  The exception is the block that was
\* pending when the host began an order: until its word comes, and as long as the host,
\* deadstarted in between or with a word of unknown type, gives no other (npu_hip.c:572).
NoneLeftUnannounced ==
    phase = "pp" /\ hipState = "StHipIdle" /\ bipState = "BipIdle"
        => bipUplineBuffer \in {None, displaced}

\* Blocks wait in the queue only behind a pending one ("Upline buffer pending, so
\* queue this one for later"): its transfer is what takes them out again.
QueuedBehindPending == bipUplineQueue # <<>> => bipUplineBuffer # None

\* The buffers that go upline, in their order, and the blocks in them.
UplineBuffers == (IF bipUplineBuffer = None THEN <<>> ELSE <<bipUplineBuffer>>) \o bipUplineQueue
UplineBlocks == [i \in 1 .. Len(UplineBuffers) |-> data[UplineBuffers[i]]]

\* The blocks sent upline are read by the host each once and in order.
Upline == INSTANCE UplineQueue WITH pending <- UplineBlocks, NoBlock <- None

UplineSpec == Upline!Spec

\* As long as blocks are pending, one after another is read (or a reset discards
\* them all), however often the host prefers to send output or other orders.  It is
\* otherwise after a host that was restarted between an output order and its output,
\* and never ordered output again: the BIP waits for the output, and announces no
\* block that comes after the pending one (npu_bip.c:644); after an order whose word
\* the HIP never got or does not know; and with a host that is restarted for ever.
UplineProgress ==
    []<>(bipUplineBuffer = None /\ bipUplineQueue = <<>>)
    \/ []<><<ReadBlock \/ ClearNpu \/ DispatchReset \/ HostRestart>>_vars
    \/ <>[](bipState # "BipIdle" /\ hipState # "StHipDownline")
    \/ <>[](displaced # None)

=============================================================================
