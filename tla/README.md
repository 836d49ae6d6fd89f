# Specifications of DtCyber

DtCyber emulates CDC 6000, Cyber 70/170 and Cyber 180 mainframes: CPUs,
peripheral processors (PPs), channels, devices and communication front ends, in
C.  The specifications kept here describe the parts of it in which several
actors share state, and check and prove what those parts promise.

File and line references are to the repository; `PROJECT.json` maps every
definition that models code to the lines it stands for.

## 1. Inventory

| Component | Code | State | Operations | What is hard |
|---|---|---|---|---|
| CPU, exchange jumps | `cpu.c` | per CPU: mode and pending flags, stopped, error exit, the PP's request | `cpuStep`, exchange jump, XJ, error exit, reset | two CPU threads, PPs that request exchanges without holding the CPU, a mutex held in pieces of a step |
| CPU, instruction set | `cpu.c`, `float.c`, `shift.c` | registers, CM, ECS | 64 opcodes, CMU | arithmetic at the boundaries of 60, 48, 18 bits |
| CPU in 180 state | `cpu180.c`, `bdp180.c`, `float180.c` | process registers, exchange packages, interrupts | exchange, call/return, trap, virtual memory | the two states save and restore each other's flags |
| PPs | `pp.c` | registers, 4K memory, busy and stop flags | barrel of 10 or 20 PPs, one instruction each per turn | instructions that take many turns (transfers, waiting for exchanges) |
| Channels | `channel.c`, `deadstart.c` | active, full, flag, selected device, delays | activate, disconnect, function, in, out | two PPs on one channel; a deadstart in the middle |
| NPU, coupler | `npu_hip.c`, `npu_bip.c` | HIP and BIP state, status register, buffer pool, upline queue | function codes, order words, transfers, reset | half-duplex, host and NPU must agree; buffers handed from owner to owner |
| NPU, connections | `npu_net.c`, `npu_async.c`, `npu_svm.c`, `npu_tip.c` | ports (PCB), terminals (TCB), output queues | connect, configure, disconnect, data, acknowledge | a second thread accepts connections; both ends disconnect at once |
| NPU, trunks | `npu_lip.c`, `npu_net.c` | control block and port of each trunk, the link's regulation level | dial, accept, CONNECT handshake, blocks, pings | both ends dial at once and must end with one connection |
| NPU, batch | `npu_hasp.c`, `npu_nje.c` | protocol states per link | blocks, acknowledgements, retransmission | protocols against a remote system |
| CCI | `cci_*.c` | as the NPU | as the NPU | as the NPU |
| Other front ends | `cdcnet.c`, `mdi.c`, `niu.c`, `msufrend.c`, `mux6676.c`, `tpmux.c`, `dsa311.c`, `cray_station.c` | ports, sockets, protocol states | polls, I/O | sockets closing under a transfer |
| ECS and flag registers, DDP | `cpu.c`, `ddp.c` | ECS, flag register | block copies, flag operations | mutexes across CPUs and PPs |
| Card readers | `cr405.c`, `cr3447.c` | a tray of decks, the open deck, the card at the read station | load, function, I/O | operator loads while a PP reads; the ring of decks |
| Disks, tapes, punches, printers | `dd*.c`, `mt*.c`, `cp3446.c`, `lp*.c`, `dcc6681.c` | position, status, file | function, I/O | long sequences of functions |
| Maintenance, S/C, interlock | `maintenance_channel.c`, `scr_channel.c`, `interlock_channel.c`, `pci_*.c` | registers | read, write | start and halt of CPUs |
| Operator, files | `operator.c`, `fsmon.c` | the command handed over, pause | commands, watched directories | a thread hands commands to the main thread; another does not |
| Console, start-up, clocks, tracing | `console.c`, `window_*.c`, `init.c`, `rtc*.c`, `log.c`, `trace.c`, `dump.c` | | | |

How they interact.  The main thread runs, for ever (`main.c:625`): the
operator's command if there is one, one turn of the PP barrel, four steps of
CPU 0, the channel delays.  CPU 1 has its own thread (`cpu.c:1355`).  Devices
are called by the PPs through their channel (`func`, `io`, `activate`,
`disconnect`) and so run in the main thread, the NPU included; sockets are
polled from there.  Threads other than these are the operator's, the window's,
one for each input directory that is watched (`fsmon.c`) and the NPU's network
thread (`npu_net.c:1279`).  CPUs, PPs and the operator
share the flags of a CPU context, in part under one exchange mutex; the network
thread and the main thread share everything in `npu_*.c` under none.

What makes each component correct:

* *Exchange jumps*: monitor mode is exclusive to one CPU; CPUs do not wait for
  each other; what PPs ask for happens once, or is discarded for a reason; an
  error exit enters monitor mode.
* *170 and 180 state*: flags of the one state do not leak through the other;
  errors leave towards the right monitor.
* *Coupler*: host and NPU agree on who sends what; each buffer has one owner and
  none is lost; upline blocks form a FIFO queue that is always being emptied.
* *Channels*: a transfer ends with the count the PP expects; one PP's transfer
  is not ended or altered by another's; a deadstart leaves nothing behind.
* *Connections*: both sides agree whether a terminal is connected; a
  disconnection completes whoever starts it; a port is never reused while a
  terminal still refers to it; no block is acknowledged twice.
* *Trunks*: two systems end with one connection between them, and both hosts know
  whether it is there; what goes wrong on the way ends, and is tried again.
* *Card reader and operator*: decks are read in the order they were loaded, whole,
  and the last job is ended; a command is taken back when it is done.

`PROJECT.json` lists the hazards line by line, with the property that covers
each or the module that will.

## 2. Plan

| Order | Modules | State |
|---|---|---|
| 1 | `CpuExchange`, abstract `MonitorLock`, `CpuExchangeProofs` | done: section 3 |
| 2 | `CpuExchange180`, extends 1 by 180 state; `CpuExchange180Proofs` | done |
| 3 | `NpuCoupler`, abstract `UplineQueue`, `NpuCouplerProofs`; `NpuNetThread` | done, every safety property proved |
| 4 | `PpChannel`: channel, PP transfers, device, deadstart; `PpChannelProofs`, `PpConservationProofs` | done, every safety property proved |
| 5 | `NpuConnection`: service messages, ports, network thread, crossing disconnections; `NpuConnectionProofs` | done, every safety property proved |
| 6 | `NpuTrunk` (`MCNpuTrunk`): dialling, accepting, the handshake of the link interface; `NpuTrunkProofs` | done, every safety property proved |
| 7 | `CardReader`, abstract `DeckQueue`, `CardReaderProofs`: the tray, the operator's commands and pause | done |
| 8 | the thread that watches a reader's directory; flag registers of extended memory; 180 start and halt | open |
| 9 | CCI's host interface as a variant of 3; HASP/NJE acknowledgement | open |

Every safety and action property and every refinement that the runs check is
stated by a theorem.  Theorems to come belong to the modules still open: 8 and 9.

## 3. The modules

### CpuExchange (cpu.c, pp.c, main.c)

State and actions.  The variables are the fields of `Cpu170Context` and `PpSlot`
that exchanges use, under the code's names; `opAtWord` is `opOffset == 60`.
`cpuStep` is cut where the exchange mutex is released or not yet held:
`PassMonitorGate`/`WaitAtMonitorGate` (`cpu.c:887-910`), `ServeRequest`
(`cpu.c:912-936`), a word of instructions, `ErrorExit` (`cpu.c:1040-1046`).  The
fields of a CPU that are written outside the mutex are written by its own thread
only, so that a whole critical section may be one action.  Every instruction is
one of: continue, stop, fail, or exchange (`XJ`).  `PpOpEXN` is `ppOpEXN`, and a
PP that finds the CPU's request slot taken repeats the same instruction later
(`heldExn`).  The main thread goes through operator, barrel and CPU 0 in the
order of `main.c`; CPU 1 is a thread of its own.  Its reset after a deadstart is two
steps of that thread, since it clears the operator's mark after the reset and without
the mutex (`cpu.c:1392`): a second deadstart in between is forgotten.  The history
`forgotten` names the CPUs that missed one and still have a request from before it.
`MayDeadstart` says whether there are deadstarts at all: they are not counted.

Abstraction.  An exchange has one of three results: its package is beyond memory,
its first word can be fetched, or it cannot.  Which one it is depends on data and
is a free choice.  `StepsPerLoop` (4) is a parameter.

Properties.  `MonitorModeExclusive`, `NoMutualWait` and `LockSpec` (the
refinement of the abstract lock `MonitorLock`) are the purpose of the mutex;
`ErrorExitEntersMonitor` relates the mode at the failing instruction to the mode
at the error exit; `ExnIsHonoured`, `RequestHasWaiter`, `RequestNotOverwritten`
are about PPs and CPUs (a request may outlive its PP only until the CPU's reset, or, on a
CPU that missed the deadstart, until the CPU takes it); `WaitsOnlyForHolder` and `ExchangeIsAnswered` are the
liveness properties.

### CpuExchange180 (cpu180.c)

Extends CpuExchange by 180 state.  What 180 programs do is external: they step,
and load 170 state with the exchange package that the CPU left.  Loading is two
actions because `cpu180Set170State` compares the modes without the mutex.  A condition
for which a CPU can neither trap nor exchange halts it (`Halt`, `cpu.c:879`), with the
flags it has, or cleared by the trap that failed; the IOU may refuse a PP's exchange
address (`PpOsBoundsFault`, `pp.c:1398`).  Not modelled: start and halt of a CPU over the maintenance channel, deadstart of a
CYBER 180.  Monitor mode is *not* claimed to be exclusive here: the flags change
without the mutex.  `WaiterIsInMonitorMode` says that no wait survives a change of
state, `ExitsFromMonitorMode` that only errors in monitor mode leave 170 state.

### NpuCoupler (npu_hip.c, npu_bip.c)

The coupler, the block interface and its buffers, and the host's driver.  The
driver is external and does what the statuses allow: it orders output when it has
nothing under way, reads a block it was told of, may prefer output to an
announced block, and may be deadstarted at any time (`HostRestarts`), after which
it begins with an order or a reset.  An order is two actions, as in the code: its
function makes the HIP idle (`OrderFunction`, `npu_hip.c:571`), and only its word,
which may be of a type the HIP does not know, orders output or announces a pending
block again (`npu_hip.c:716-774`); the host may be deadstarted between the two.  The
history `displaced` is the block that was pending at the function, until a word comes.
The NPU's other parts are the
clients: inside a poll, an order or the processing of a block they allocate,
keep, forward and release buffers in any order.  A transfer over the channel is
one action, because only one PP drives a coupler.  An allocation from an empty
pool, which ends the emulator (`npu_bip.c:318`), is not possible.

`OneOwner` and `LostOnlyByRestart` are about buffers, `HostAndNpuAgree` about the
half-duplex protocol, `NoneLeftUnannounced`, `QueuedBehindPending` and
`UplineSpec` (refinement of `UplineQueue`) about the blocks that go upline, and
`UplineProgress` says that they do go.  `NoneLeftUnannounced` exempts the `displaced`
block: an idle coupler announces it only with the next order that is known to it.

### NpuNetThread (npu_net.c)

NpuCoupler with the network thread, whose connection request is cut between its
accesses to the block interface.

### NpuConnection (npu_net.c, npu_async.c, npu_svm.c, npu_tip.c)

The life of an interactive terminal's connection, from the TCP connection that
takes a port to the port that is free again.

State.  `connFd` and `asyncTp` belong to a port (PCB), `termState`, `pcbp`,
`outputQ` and `breakPending` to a terminal (TCB), whose index is its connection
number; `svmState` is the supervision by the host; `upline` and `downline` hold
the messages between NPU and host; `netPc` and `netPort` are the network thread's,
which is cut where it has seen that the NPU is supervised, and where it has set
`connFd` of a port but not yet called the TIP (`npu_net.c:1495`).  `hostState` and `unacked` are the host's side.
`unsettled` is history: ports whose connection was opened while an earlier
configuration of the same port was on its way, or during a reset.

Actions.  The network thread accepts users, who leave when they like; the poll
(`CheckStatus`) passes on what they type, breaks among it, sends them output, and
finds out that they have left; `ProcessDownline` handles one message of the host, with one
operator for each kind (`npuSvmProcessBuffer`, `npuTipProcessBuffer`); a reset is
two steps, because the network thread runs on between them.  The host is
external: it answers what it is asked, sends blocks up to its window, interrupts,
and ends connections by the NPU's own rules.  `MaxInFlight` keeps every party from
*beginning* something while so many messages are under way; answers are never held
back.  Input blocks, contents, terminal characteristics, Telnet and page mode are
left out.

Properties.  `RemembersLiveTerminal`, `ConnectionHasTerminal`, `QuietMeansAgreed`
and `NoUnexpectedMessage` relate the three sides of a connection;
`BlockInOnePlace` follows each block of output to its acknowledgement, discarded
ones included; `NobodyWaitsForever` says that every user is served or sent away.

### NpuTrunk, MCNpuTrunk (npu_lip.c, npu_net.c)

Systems joined by trunks, each trunk of a system with one port and one control
block (NCB).  Every system runs the same code: it listens, and dials if it is
configured to (`Dialling`).  `tcp` is external: connections that are dialled,
established or refused, their two ends, the CONNECT request or response under way.
Programs that are not DtCyber may call a system's listening port (`Called`), send
text, and hang up or not.
`connFd`, `lip` and `staged` are the port's, `ncbState` and `ncbFd` the NCB's, `hostLink` is
what the host was told last.

`CreateConnections` is the network thread's look at one NCB, `AcceptConnection`
its look at the listening socket; a new connection takes the *first* free port
(`First`, `npu_net.c:1429`), and the handshake later moves it to the port of the
system that calls (`AcceptRequest`, `npu_lip.c:668`).  `CheckStatus` is the main
thread's poll of one port, with the time-out of the handshake, which may strike whenever
nothing has come: each piece of text that comes puts it off (`npu_lip.c:244`).  A piece
that does not end with a line - a stranger's, or the peer's response when blocks or
pings come with it or after it - is kept in the staging buffer (`StageText`), until one
ends with a line or the buffer overflows (`OverflowStaging`, `npu_lip.c:270-274`,
`npu_lip.c:297-301`).  The port is then disconnected, but its connection open, and it
never times out: it is free when the other end closes.  A descriptor that was closed and one that was forgotten are values of
their own (`StaleFd`, `LostFd`), since the NCB compares numbers that come back.

`HostKnowsLink` and `LinkOwnsConnection` relate host, port and connection of both
ends (an end whose peer's staging buffer overflowed has a link to a port that is
disconnected); `HandshakeEnds` and `LinkReturns` say that failures end and are repaired:
a handshake with a link, by a close or by an overflow, and a port left by an overflow
with the close of the other end.
The history `misled` exempts a host that was told of a link before the response to
the peer could not be sent (`npu_lip.c:648-668`).  A step handles a new connection
as a whole; the race of the network thread with a port that is being reassigned
(`npu_net.c:1442` against `npu_lip.c:678`) is outside the module.

### CardReader, DeckQueue (cr405.c, operator.c)

State.  `decks`, `inDeck` and `outDeck` are the tray, `fcb` the number of cards
read from the open file, `card` and `col` the read station; `line`,
`opCmdFunction`, `opActive`, `opPaused` are the operator interface, `mainPc` tells
whether the main thread is inside `pause`.  `hopper` is the reader's input
directory, `files` what was not submitted yet.  `lastCard` and `cut` are history:
the card read last, and that a load has stopped the reader in a deck.

Actions.  `OpReadLine` and `OpRequestCommand` are the operator's thread,
`OpRequest` and `Resume` the main thread before a turn of the PPs, `Io` a PP that
takes a column, with everything that follows the last one: the next card, at the
end of a file the faked 6/7/8/9 card, the deck that leaves the tray, the decks
that cannot be opened, the first card of the next.  `LoadCards`, `Load` and
`LoadNext` are the command `load_cards`: of a file, of a file in the input directory,
and of `*`.  From the input directory a deck is taken by `LoadFromHopper`, which deletes
the file (`cr405PostProcess`) before `cr405LoadCards` looks for room in the tray.  `*`
has looked before; a load that names the file has not, and then only the prepared copy
is left, outside the directory (`LoadInVain` in `DeckQueue`).

Abstraction.  A deck has `DeckLength` cards and is known to be complete (`Ended`)
or not; a card is its number, a column only counted.  The preparation of a deck
may fail and is otherwise left out.  There is no output directory, and the input
directory is not watched.  `DeckQueue` is the promise: a queue of decks, read from
the first card on, none gone before its last.  `TraySpec` is the refinement;
`JobsAreEnded`, `DecksAreRead` and `OperatorIsServed` are described in the module.
`DecksAreRead` has to exempt the reader that a load has stopped (section 6).

### PpChannel (pp.c, channel.c, deadstart.c, mt679.c)

State.  `channel` holds the fields of `ChSlot` a transfer uses, `ppu` the
instruction a PP is busy with and the count left of a block transfer, `tape` the
function and `recordLength` of the tape controller, `dsSequence` the position in
the deadstart panel.  `activeChannel` is a variable because `IAN` and `OAN` clear
the delay of the channel that was used *last*, by whichever PP, before they select
their own (`pp.c:1916`).  Of a channel's word only the origin is kept.  `owed`,
`offered` and `leftover` are history: the words a device has still to give, the
words PPs have put and not taken back, the channels a deadstart left a disconnect
pending on.

Actions.  One thread runs the machine: the PPs in order, one step of an
instruction each, then `ChannelStep`; `turn` says who is next.  The instructions
are named as in the code (`IAN` is `ppOpIAN`, ...); each is one action for its
first step and for its repetitions while the PP is busy, since the code enters
the same function again.  `FNC` stands for `FAN` too, `Probe` for `FJM` and `EJM`,
which make the device do a step before they test, `Test` for `AJM` and `IJM`,
which do not.  A PP's program is arbitrary: any instruction, any channel, with or
without the bit that keeps it from waiting.  What the tape answers to a function
is arbitrary too: declined, processed, or accepted with a record of any length.

Properties.  `InputConserved` and `OutputConserved` follow words from device to
PP and back although any PP may join in.  `PendingDisconnectHasOwner` says that a
delayed disconnect cannot strike a later transfer, `NoInputLostByDisconnect` that
it does not take a word from a PP that waits for it, `LastWordReachesTape` that a
block output leaves its last word with the tape.  `PanelLoaded` is about a second
deadstart, `TransferEnds` about the end of every block transfer.

A deadstart clears neither `delayDisconnect` nor `discAfterInput`
(`deadstart.c:104-115`); the properties on disconnects therefore exempt the
channels in `leftover`.  Out of the model: channel flags, the packed transfers
`IAPM` and `OAPM`, conversion and the format unit of the tape, the clock,
interlock, status, maintenance and PCI channels, and with the maintenance channel
the flags `isLoad` and `isDump` (a block input that ends by a disconnect leaves
`isLoad` set, `pp.c:2042-2054`).

## 4. Runs

| Run | Bounds | Shows |
|---|---|---|
| CpuExchangeSafety | 2 CPUs, 2 PPs, deadstarts at any time, 1 step per loop | all safety properties of CpuExchange hold (2.3 million states) |
| CpuExchangeLiveness | 2 CPUs, 1 PP | waiting and exchanges end, unless the other CPU's program goes on holding monitor mode |
| CpuExchange180Safety | 2 CPUs, 1 PP | flags and exits are right across changes of state |
| CpuExchange180Wait | same | finding: two CPUs may wait for each other |
| NpuCoupler | 3 buffers, 2 contents, restarts of the host, also within an order | all properties of NpuCoupler hold, liveness included |
| NpuNetThread | 3 buffers, 1 content | finding: a connection request queued behind nothing |
| NpuConnection | 2 ports, 2 connection numbers, window 1, 1 message under way when something begins, 1 reset | all properties of NpuConnection hold, liveness included |
| NpuConnectionShared | 1 port, 2 numbers, 2 messages under way, no reset | finding: a terminal connected without a connection |
| PpChannel | 2 PPs, 2 channels, records, blocks and buffer of 2 words, delays of 1 and 2 rounds, 1 further deadstart | all properties of PpChannel hold, liveness included |
| NpuTrunk | 3 trunks of 2 systems, 2 connections at a time, 1 piece of text in a staging buffer, other programs call the system with a peer that is not there, 1 reset | all properties of NpuTrunk hold, liveness included |
| NpuTrunkCrossing | the 2 trunks that dial each other, no reset | finding: dials that cross leave no link |
| CardReader | 4 decks of 2 cards of 2 columns, one complete, one that cannot be opened; a tray of 4 slots | all properties of CardReader hold, liveness included |

The type invariants of CpuExchange, NpuCoupler, PpChannel, NpuTrunk and
CardReader are proved and therefore not checked by these runs again; that of
NpuConnection, whose queues hold messages of many kinds, is proved and checked.

Why the bounds suffice.  There are never more than two CPUs (`MaxCpus`).  Two PPs
are one that waits and one that wants the same CPU; a third adds another of the
second kind.  Deadstarts are unbounded, and come also when the CPU has yet to clear the
mark of the one before.  One step per loop interleaves barrel and CPU 0 more finely
than four.  With three buffers one can be pending, one queued and one received, or all queued; contents only
have to be distinguishable.

In PpChannel a transfer touches one channel and the PPs that use it: one that
transfers and one that interferes.  Channel 0 has the panel and bare transfers
between PPs, channel 1 the tape.  Two words have a first and a last that differ, a
block longer or shorter than its record, and a buffer that is full.  A disconnect
delayed by two rounds can be overtaken by a whole instruction of each PP; with
one round, less than the code's 10, a PP has no turn left and
`NoInputLostByDisconnect` fails, which is its mutant.  The code's other delays, 3
and 5 rounds, count down in the same way from any value, and the proofs leave
them arbitrary.

In NpuConnection two ports and two numbers let a number come back on another port
and a port on another number, one message under way lets both ends begin to end a
connection, and one reset meets every state; the answers that follow are not
bounded, so queues grow longer than that.  In NpuTrunk the third system is not
there: its trunk is the port that takes connections first and has to give them
up.  Two connections are what crossing dials need.  A staging buffer that holds one
piece of text (`MaxStaged`) can complete it, keep it or overflow with the next, and
one caller at a time can take any port.  A tray of four slots holds
three decks; the indices go round it with four decks and repeated loads, and two
cards and columns have a first and a last.

The deadlock check is on in every run but the two of NpuTrunk, where a system
whose dials were forgotten stops: that is the finding.

Fairness.  The threads are loops that never block, and the operating system runs
them: weak fairness of each thread as a whole.  Nothing is assumed about
programs, nor about who wins the mutex.  In NpuCoupler the emulator finishes what
it begins (weak fairness of the ends of polls, orders and dispatches).  The
host's driver is assumed to keep polling, to complete an output it ordered, and
not to put off an announced block for ever (strong fairness, since orders may
take the announcement away again and again).  A host that was restarted between
an output order and its output, and never orders output again, is the exception that
`UplineProgress` names: the BIP waits and announces nothing that comes later
(`npu_bip.c:644`).  Others are a host that is restarted for ever, and one that never
gives a word its order's function has promised: nothing makes a host in the middle of an
order go on.

In NpuConnection the main thread polls each port and handles what the host sends,
the host answers, and the network thread finishes the connection it has begun:
weak fairness of each, and none for users, for the host's decisions, or for
accepting.  In NpuTrunk both threads of each system go on, and TCP reports the end
of a dial: each poll of a port (`Poll`) reads what has come, times out or closes, but no
end is bound to send text beyond the handshake.  What a network may delay for ever is not fairness but a premise of
`LinkReturns`, in its own words: from some time on no dial fails and no handshake
times out early, no response comes with a block that hides it, no other program calls,
and no port is left that an overflow disconnected and nobody closes (`NetworkIsQuick`),
and dials do not cross (`NoMoreCrossing`).  In
CardReader the threads go on; strong fairness of `Io` stands for a PP that reads
cards whenever the reader is ready, also if the operator pauses again and again.
A pause that never ends, and a load that stops the reader for good, are premises
of `DecksAreRead`.

In PpChannel one thread does everything and always goes on: weak fairness of
`Next`.  Nothing is assumed about the PPs' programs, so that `TransferEnds` has to
allow for a PP that activates the channel again and again.

## 5. Proofs

| Theorem | Argument |
|---|---|
| `CpuExchangeProofs!TypeCorrect` | `TypeInv` adds that a CPU inside `cpuStep` has a step left, without which `stepsLeft` would not stay a number of calls |
| `MonitorModeIsExclusive`, `CpusNeverWaitForEachOther` | `ModeInv`, their conjunction, is inductive; `NextModeStep` reduces every action to three ways of changing the flags of one CPU |
| `ImplementsLock` | the same three ways mapped to the actions of `MonitorLock`, under `ModeInv` |
| `ErrorExitsEnterMonitor`, `ExnsAreHonoured` | `WordBoundary`: a CPU is stopped, between two words, or inside one that continues |
| `RequestsHaveWaiters` | `DeadstartOrder`: no PP runs between the operator's command and the reset of CPU 0; a request without its PP is on a CPU that is marked and not yet reset, or that missed the mark |
| `RequestsAreNotOverwritten` | each action, from the types |
| `NpuCouplerProofs!BuffersHaveOneOwner`, `BlocksQueueBehindPending` | `OwnInv`: the owners are pairwise apart and the queue injective |
| `HostAndNpuAlwaysAgree` | `AgreeInv`: a status loaded, or read and not yet acted on, names the HIP's state, and that state names the BIP's buffer |
| `BuffersLostOnlyByRestart` | `ReceiveInv`: only a restarted host orders output twice; no block is in hand outside dispatches |
| `ImplementsUplineQueue` | `CouplerInv`: with `AgreeInv` the block read is the pending one; with `OwnInv` no write touches a queued buffer; with `BlockInv` what is queued contains a block |
| `BlocksAreAnnounced` | `AnnounceInv`: where HIP and BIP are while a block that was displaced or refused waits to be announced again; with `AgreeInv`, the word of an order always finds the HIP idle |
| `CpuExchange180Proofs!WaitersAreInMonitorMode`, `ExitsLeaveMonitorMode` | `IInv`, one CPU at a time (`CpuOK`): no deadstart is asked for, and an exit is pending only at the end of a step or of the word that failed |
| `NpuConnectionProofs!RememberedTerminalIsLive` | `IInv`: the ties of ports and terminals, and `ForgottenInReset`, without which the second half of a reset would leave a port with an idle terminal; `MinIsOne` gives the least free number by well-founded induction |
| `TypesAreKept` | `TInv`: `QueuesOK` says which messages each side sends, and that the numbers in output queues are the host's |
| `QuietNpuAgrees`, `MessagesAreExpected` | `AInv`: for every connection one of a few phases (`Agreed`), each a pair of states of host and NPU with the messages of that connection still on the way, in order.  A step moves one connection to another phase and leaves the others' messages alone |
| `ConnectionsHaveTerminals` | `CInv` adds that a configuration under way is a token: a settled port with a connection has one terminal or one request or answer for it (`AllTied`), and that every port still settled in a reset is closed (`ClosedInReset`) |
| `BlocksAreInOnePlace` | `BInv` adds, for connections both ends have, the phases of a break, in which marks overtake data (`Flow`), and that numbers not yet acknowledged are distinct (`Held`); by kind, acknowledgements, output queue and messages down are the numbers the host waits for, in order |
| `NpuTrunkProofs!TypeCorrect`, `HostKnowsItsLinks` | `IInv` adds `LinkHasConnection`: nothing new is put on a port whose link is up |
| `LinksOwnTheirConnections` | `LInv`: each end of a connection has at most one holder, a port or an NCB that dials (`PortOK`, `NcbOK`, `Alone`); who has asked for a link waits for the answer or has it (`DiallerOK`), who has accepted is up (`AcceptorOK`); who lost the answer to an overflow is disconnected with the connection it has.  `EndsLeave` covers every step that closes ends, `Rebuilt` every step on an open connection |
| `CardReaderProofs!TypeCorrect`, `JobsEnd` | `IInv`: every slot between the indices holds a deck (`RingOK`), and file, station and head of the tray go together (`StationOK`) |
| `ReaderIsAQueue` | `QInv` adds that the card at the station is the successor of the one read last (`CardOK`) and that no deck is in the hopper twice (`HopperOK`, kept by `Removed`); `QueuedDrop` and `QueuedAppend` turn steps of the indices modulo the size into operations on a sequence |
| `PpChannelProofs!TypeCorrect`, `DisconnectsHaveOwners` | `IInv`: `Fits` says which device can be selected on which channel, `Safe` which function of the tape can have asked for the disconnect that is pending |
| `PpConservationProofs!InputIsConserved`, `OutputIsConserved` | `LInv`: `IInv` and, for every channel, accounts of words owed and offered that its slot and its device balance; `Origin` says whose word a slot can hold |
| `LastWordsReachTape` | from `IInv`, for the one step that matters: the last word is put with the status delay off, so that the tape takes it in that step |
| `NoWordLostByDisconnect` | `WInv`: a word beside a pending disconnect, for which a PP waits that has had its turn in this round, has the whole delay before it (`LastWordInv`) |
| `PanelIsLoaded` | `PInv`: as long as the load goes on the other PPs wait where the deadstart left them, PP 0 counts what the panel still owes, and channel 0 is active or the panel is taken (`LoadInv`) |

`DisconnectsHaveOwners` needs `Safe` because the property alone is not inductive:
without it a tape that is reading forward could have a disconnect after input
pending, the end of its record would make the channel inactive, and the
disconnect would be left without an owner.  `OneSlot` reduces the instructions to what they do to one
slot; `IoKeeps` covers the devices for all of them.

Assumptions are those on the constants, each named and evaluated by the runs:
one or two CPUs, at least one PP (two in PpChannel, with a channel each), any
step count, any set of buffers, any number of deadstarts, any record, buffer and
panel lengths, any ports, connection numbers, windows and resets, any
trunks between different systems, any decks and any size of tray, card and deck.
Delays are positive, and that of a disconnect at least two rounds, without which
`NoInputLostByDisconnect` is false (section 4); the code's is ten.
The theorems on NpuConnection, and those on CardReader, assume nothing of the order
in which the threads act.

The invariants of NpuConnection speak of sequences of messages.  What is left of a
queue when only some messages are looked at (`Selected`) is a recursive function;
what the proofs need of it - how it meets a concatenation, a tail, a message that
is appended - is proved once, at the head of the module.  The library's induction
theorem takes a property as parameter, which the provers cannot instantiate; the
module has its own, for sets of numbers (`InductionInNat`, from the least number
outside the set), and functions that select prefix by prefix (`Selects`) in place
of the recursive one.

Only model-checked: liveness, since the prover has neither fairness nor `ENABLED`:
`WaitsOnlyForHolder`, `ExchangeIsAnswered`, `UplineProgress`, `NobodyWaitsForever`,
`TransferEnds`, `HandshakeEnds`, `LinkReturns`, `DecksAreRead` and
`OperatorIsServed`.  The runs that end in a violation refute theirs; that of
NpuNetThread is proved of NpuCoupler alone, where the network thread is absent.

## 6. Findings

Four runs end in a violation.  Each checks what a comment or configuration file
says; `PROJECT.json` quotes it.  They are ordinary defects of rare interleavings:

* `CpuExchange180Wait`: two CPUs of a CYBER 180 wait for each other;
* `NpuNetThread`: the network thread uses the upline queue without protection, and
  a block is left behind nothing;
* `NpuConnectionShared`: two answers to configuration requests for one port leave a
  terminal connected to nobody, whom the next user of the port is given;
* `NpuTrunkCrossing`: two systems that dial each other at the same moment never
  have a link.

Further disagreements that the models contain and no run singles out:

* After a PP's exchange `cpuStep` looks at `isStopped` only (`cpu.c:933`): an error
  exit that the exchange's first fetch left pending is never taken, and a CPU that
  the exchange made wait executes one word first.
* An exit to 180 state that a failed fetch has initiated is discarded by the check
  for conditions at the start of the next step (`cpu180.c:1387`), and a trap that
  becomes an exchange records job mode (`cpu.c:871`).
* A load while a deck is being read closes that deck (`cr405.c:570`).  The rest of
  its cards is not read; the next load reads it from the beginning.  If the tray is
  then full, no load can start the reader again.  `fsmon.c:144` counts on "the EOJ
  processing on the card reader" to "pick up the next file in line".
* The 6/7/8/9 card that is faked at the end of a file is overwritten by the first
  card of the next deck (`cr405.c:1108`), or by a load before it is read.
* `load_cards` with `*` takes the newest file of the input directory
  (`cr405.c:687`), where its comments (`cr405.c:644`) say the oldest.
* A command typed to end a `pause` may be forgotten: `opRequest` clears `opActive`
  after the pause (`operator.c:478`), perhaps after the new command has set it.
* The host is told of a link before the response to the peer is sent
  (`npu_lip.c:648`), and is told nothing when it cannot be sent.
* A CPU clears the mark of a deadstart after its reset (`cpu.c:1392`): a deadstart
  that the operator commands in between is done by the PPs and not by this CPU, which
  keeps, and may serve, a request of a PP that was restarted.
* The function for an order makes the HIP idle (`npu_hip.c:572`) and only the order's
  word announces a displaced block again.  If the host is deadstarted before the word,
  or the word has a type without a case (`npu_hip.c:735`), the block and everything
  behind it wait for the next order.
* A port whose staging buffer overflows in the handshake is set to
  `StTrunkDisconnected` with its connection open (`npu_lip.c:273`, `npu_lip.c:300`).
  Nothing times it out, and what comes is discarded: while the other end does not
  close, an NCB that finds the port taken stays busy, and if the other end is a peer
  that has accepted the link, its host is told of a link on which nothing arrives.
* A peer's response that comes in one piece with a block is not recognised
  (`npu_lip.c:284`).  Every block or ping that follows puts the time-out off
  (`npu_lip.c:244`); if one happens to end with a line feed, the response is accepted
  and the blocks before it are lost, and otherwise the staging buffer overflows.
* `load_cards` of a file that lies in the input directory deletes the file
  (`operator.c:2864`, `cr405.c:758`) before it finds the tray full (`cr405.c:535`).

## 7. Not modelled

Data: instruction results, addresses, block contents, formatting, tracing.  The
arithmetic of the CPUs, 180 virtual memory and business data processing are most of
the lines of this repository; their properties are about operands, and test vectors
say more about them than small instances of a model.

Of the modelled components: the race of the network thread with a port that is
being reassigned (`npu_net.c:1442`, `npu_lip.c:678`); blocks and pings of a trunk
but for those that reach the staging buffer, with the partial writes of
`npu_lip.c:1040`; the thread that watches a reader's
input directory and loads decks itself, beside the main thread (`fsmon.c:324`);
two CPUs' stores and loads of the mode flags passing each other (`cpu.c:1604`); the
start and halt of a CYBER 180 processor, which leaves flags of the 170 context as
they were (`cpu180.c:2231`); a coupler that asks for a disconnect after input and
does not take it back (`npu_hip.c:669`), since PpChannel has the tape as its only
device.

Of the others: HASP, NJE and CCI, the other front ends, disks, tape positions,
punches and printers, extended memory.  See section 1 and the notes of the components in
`PROJECT.json`.
