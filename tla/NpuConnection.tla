---------------------------- MODULE NpuConnection ----------------------------
(***************************************************************************)
(* The connections of interactive terminals through the NPU (CCP): a user's *)
(* TCP connection takes a port (PCB), the service message module npu_svm.c *)
(* negotiates a connection number for it with the host, which gets a        *)
(* terminal (TCB) of npu_tip.c, and npu_async.c passes data, until the      *)
(* user, the host or a reset of the NPU ends it.                            *)
(*                                                                         *)
(* The network thread (npuNetThread) accepts connections.  Everything else *)
(* runs in the main thread: the poll of the ports, the blocks the host      *)
(* sends, and the reset, which is two steps here because the network thread *)
(* runs on beside it.  The coupler is a queue each way (NpuCoupler shows    *)
(* that blocks go upline in order).                                         *)
(*                                                                         *)
(* The host is external: it answers service messages, and ends connections *)
(* by the rules the NPU follows itself.  It numbers its blocks; the least   *)
(* number not outstanding stands for the next.  Input blocks, and answers   *)
(* of the NPU that the host only takes note of, are left out.               *)
(***************************************************************************)
EXTENDS Integers, SequencesExt, FiniteSetsExt

CONSTANTS PortCount,      \* the CLA ports of the connection type: numPorts
          CnCount,        \* the connection numbers: MaxTcbs - 1
          Window,         \* the blocks a host sends unacknowledged on a connection
          MaxInFlight,    \* bound: nobody begins anything new above so many messages
          MaxResets       \* bound: resets of the NPU

ASSUME PortsAssumption == PortCount \in Nat \ {0}
ASSUME CnsAssumption == CnCount \in Nat \ {0}
ASSUME WindowAssumption == Window \in Nat \ {0}
ASSUME BoundsAssumption == MaxInFlight \in Nat /\ MaxResets \in Nat

Ports == 1 .. PortCount
Cns   == 1 .. CnCount
Nobody == 0               \* no port, no terminal, no number

MarkNumber == Window + 1  \* the number of the block that answers a break
Numbers == 1 .. Window + 1

VARIABLES svmState,       \* supervision of the NPU by the host
          connFd,         \* a port's TCP connection; the user may have left it
          asyncTp,        \* the terminal a port remembers: controls.async.tp
          termState, pcbp,         \* a terminal's state and port
          outputQ,        \* its output: the number each buffer acknowledges, or Nobody
          breakPending,   \* its break is not yet answered by the host
          netPc, netPort, \* the network thread
          upline, downline,
          resetting, resets,
          hostState, unacked,      \* the host's side of each connection
          unsettled       \* history: ports whose connection was opened too early

portVars == <<connFd, asyncTp>>
flowVars == <<outputQ, breakPending>>
termVars == <<termState, pcbp, flowVars>>
netVars  == <<netPc, netPort, unsettled>>
lineVars == <<upline, downline>>
resetVars == <<resetting, resets>>
hostVars == <<hostState, unacked>>
vars == <<svmState, portVars, termVars, netVars, lineVars, resetVars, hostVars>>

TermStates == {"Idle", "RequestConnection", "Connected",
               "NpuRequestDisconnect", "HostRequestDisconnect"}

Init == /\ svmState = "StIdle"
        /\ connFd = [p \in Ports |-> "none"] /\ asyncTp = [p \in Ports |-> Nobody]
        /\ termState = [cn \in Cns |-> "Idle"] /\ pcbp = [cn \in Cns |-> Nobody]
        /\ outputQ = [cn \in Cns |-> <<>>]
        /\ breakPending = [cn \in Cns |-> FALSE]
        /\ netPc = "accepting" /\ netPort = Nobody /\ unsettled = {}
        /\ upline = <<>> /\ downline = <<>>
        /\ resetting = FALSE /\ resets = 0
        /\ hostState = [cn \in Cns |-> "idle"] /\ unacked = [cn \in Cns |-> <<>>]

-----------------------------------------------------------------------------
(* Messages, queues and the tables of ports and terminals.                 *)

\* id: a port in configuration messages, a connection number in all others.
Msg(kind, id, bsn) == [kind |-> kind, id |-> id, bsn |-> bsn]
Message(kind, id) == Msg(kind, id, Nobody)

\* The elements of sequence s that are in S.
Selected(s, S) ==
    LET prefix[i \in 0 .. Len(s)] ==
            IF i = 0 THEN <<>>
            ELSE IF s[i] \in S THEN Append(prefix[i - 1], s[i]) ELSE prefix[i - 1]
    IN  prefix[Len(s)]

Has(queue, kinds, id) ==
    \E i \in DOMAIN queue : queue[i].kind \in kinds /\ queue[i].id = id

\* The host has been asked to configure port p, or its answer is under way.
ConfigurationPending(p) ==
    Has(upline, {"CNF/R"}, p) \/ Has(downline, {"CNF/N", "CNF/E"}, p)

RoomForMore == Len(upline) + Len(downline) < MaxInFlight

TerminalsOn(p) == {cn \in Cns : termState[cn] # "Idle" /\ pcbp[cn] = p}

\* The terminal of a port: the one it remembers, else the first that refers to it.
FindTcb(p) == IF asyncTp[p] # Nobody \/ TerminalsOn(p) = {}
              THEN asyncTp[p] ELSE Min(TerminalsOn(p))

\* The acknowledgements for a sequence of buffers.
Acks(cn, buffers) ==
    LET numbered == Selected(buffers, Numbers)
    IN  [i \in DOMAIN numbered |-> Msg("BACK", cn, numbered[i])]

QueueOutputAlways(q) == Append(q, MarkNumber)  \* mutation: the number is never cleared

\* Output goes to the last buffer, unless that carries a number: then to a new one.
QueueOutput(q) == IF q # <<>> /\ Last(q) = Nobody THEN q ELSE Append(q, Nobody)
QueueAck(q, n) == [QueueOutput(q) EXCEPT ![Len(QueueOutput(q))] = n]

\* The connection of a port is closed, if there is one, and the port forgets its
\* terminal, whose output is released unacknowledged.  Queues q are those before.
CloseConnectionKeepingTcb(p, q) ==  \* mutation: the port remembers its terminal
    /\ connFd' = [connFd EXCEPT ![p] = "none"]
    /\ outputQ' = IF asyncTp[p] = Nobody THEN q ELSE [q EXCEPT ![asyncTp[p]] = <<>>]
    /\ UNCHANGED asyncTp

CloseConnection(p, q) ==
    /\ connFd' = [connFd EXCEPT ![p] = "none"]
    /\ asyncTp' = [asyncTp EXCEPT ![p] = Nobody]
    /\ outputQ' = IF asyncTp[p] = Nobody THEN q ELSE [q EXCEPT ![asyncTp[p]] = <<>>]

-----------------------------------------------------------------------------
(* The network thread: a user connects, and the host is asked to configure. *)

\* A connection arrives while the host supervises the NPU; else it is refused.
Accept == /\ netPc = "accepting" /\ svmState = "StReady" /\ RoomForMore
          /\ netPc' = "checked"
          /\ UNCHANGED <<svmState, portVars, termVars, netPort, unsettled, lineVars,
                         resetVars, hostVars>>

\* It gets the first free port, and is closed when there is none.
TakePort ==
    /\ netPc = "checked"
    /\ LET free == {p \in Ports : connFd[p] = "none"}
           p == Min(free)
       IN  \/ /\ free = {} /\ netPc' = "accepting"
              /\ UNCHANGED <<connFd, netPort, unsettled>>
           \/ /\ free # {} /\ netPc' = "opened" /\ netPort' = p
              /\ connFd' = [connFd EXCEPT ![p] = "open"]
              /\ unsettled' = IF ConfigurationPending(p) \/ resetting
                              THEN unsettled \cup {p} ELSE unsettled
    /\ UNCHANGED <<svmState, asyncTp, termVars, lineVars, resetVars, hostVars>>

\* The TIP is told: the port is reset and its configuration requested.
NotifyNetConnect ==
    /\ netPc = "opened"
    /\ netPc' = "accepting" /\ netPort' = Nobody
    /\ asyncTp' = [asyncTp EXCEPT ![netPort] = Nobody]
    /\ outputQ' = IF asyncTp[netPort] = Nobody THEN outputQ
                  ELSE [outputQ EXCEPT ![asyncTp[netPort]] = <<>>]
    /\ upline' = Append(upline, Message("CNF/R", netPort))
    /\ UNCHANGED <<svmState, connFd, termState, pcbp, breakPending, unsettled,
                   downline, resetVars, hostVars>>

\* The user of a connection goes away.
Leave(p) == /\ connFd[p] = "open" /\ connFd' = [connFd EXCEPT ![p] = "left"]
            /\ UNCHANGED <<svmState, asyncTp, termVars, netVars, lineVars, resetVars,
                           hostVars>>

-----------------------------------------------------------------------------
(* The poll of the ports in the main thread.                               *)

\* Some of the output queues q goes out to the terminal of port p, and the blocks
\* that are through are acknowledged behind the messages up.  XOFF stops it, but so
\* may the network at any time: the two are not told apart.
TryOutput(p, q, up) ==
    LET tp == FindTcb(p)
    IN  /\ asyncTp' = [asyncTp EXCEPT ![p] = tp]
        /\ \/ tp = Nobody /\ outputQ' = q /\ upline' = up
           \/ /\ tp # Nobody
              /\ \E k \in 0 .. Len(q[tp]) :
                   /\ outputQ' = [q EXCEPT ![tp] = SubSeq(@, k + 1, Len(@))]
                   /\ upline' = up \o Acks(tp, SubSeq(q[tp], 1, k))

\* A connected terminal's input is taken: text is echoed; a break is passed to the
\* host, once until it is answered, and purges the output.  Then output is tried.
CheckStatusOpen(p) ==
    /\ ~resetting /\ connFd[p] = "open"
    /\ LET tp == FindTcb(p)
           connected == tp # Nobody /\ termState[tp] = "Connected"
       IN  \/ TryOutput(p, outputQ, upline) /\ UNCHANGED breakPending
           \/ /\ connected /\ RoomForMore
              /\ TryOutput(p, [outputQ EXCEPT ![tp] = QueueOutput(@)], upline)
              /\ UNCHANGED breakPending
           \/ /\ connected /\ RoomForMore /\ ~breakPending[tp]
              /\ breakPending' = [breakPending EXCEPT ![tp] = TRUE]
              /\ TryOutput(p, [outputQ EXCEPT ![tp] = <<>>],
                           Append(upline, Message("BREAK", tp)) \o Acks(tp, outputQ[tp]))
    /\ UNCHANGED <<svmState, connFd, termState, pcbp, netVars, downline, resetVars,
                   hostVars>>

SendDiscRequestEarly(tp) ==  \* mutation: the host may not have accepted it yet
    IF termState[tp] \in {"RequestConnection", "Connected"}
    THEN /\ termState' = [termState EXCEPT ![tp] = "NpuRequestDisconnect"]
         /\ outputQ' = [outputQ EXCEPT ![tp] = <<>>]
         /\ upline' = Append(upline \o Acks(tp, outputQ[tp]), Message("TCN/R", tp))
    ELSE UNCHANGED <<termState, outputQ, upline>>

SendDiscRequestSilently(tp) ==  \* mutation: the output goes unacknowledged
    IF termState[tp] = "Connected"
    THEN /\ termState' = [termState EXCEPT ![tp] = "NpuRequestDisconnect"]
         /\ outputQ' = [outputQ EXCEPT ![tp] = <<>>]
         /\ upline' = Append(upline, Message("TCN/R", tp))
    ELSE UNCHANGED <<termState, outputQ, upline>>

\* The terminal of a port that lost its user is disconnected, if it is connected.
SendDiscRequest(tp) ==
    IF termState[tp] = "Connected"
    THEN /\ termState' = [termState EXCEPT ![tp] = "NpuRequestDisconnect"]
         /\ outputQ' = [outputQ EXCEPT ![tp] = <<>>]
         /\ upline' = Append(upline \o Acks(tp, outputQ[tp]), Message("TCN/R", tp))
    ELSE UNCHANGED <<termState, outputQ, upline>>

\* A port without a terminal is closed instead.
CheckStatusLeft(p) ==
    /\ ~resetting /\ connFd[p] = "left"
    /\ IF FindTcb(p) # Nobody
       THEN /\ SendDiscRequest(FindTcb(p))
            /\ asyncTp' = [asyncTp EXCEPT ![p] = FindTcb(p)]
            /\ UNCHANGED connFd
       ELSE CloseConnection(p, outputQ) /\ UNCHANGED <<termState, upline>>
    /\ UNCHANGED <<svmState, pcbp, breakPending, netVars, downline, resetVars, hostVars>>

-----------------------------------------------------------------------------
(* The messages the host sends.                                            *)

Reply(reply) == upline' = Append(upline, reply)

Receive(kind, id) == /\ ~resetting /\ downline # <<>>
                     /\ Head(downline).kind = kind /\ Head(downline).id = id
                     /\ downline' = Tail(downline)
                     /\ UNCHANGED <<netVars, resetVars, hostVars>>

EndTerminalKeepingConnection(cn) ==  \* mutation
    /\ termState' = [termState EXCEPT ![cn] = "Idle"]
    /\ UNCHANGED <<svmState, portVars, outputQ, pcbp, breakPending>>

\* A terminal ends, and its port's connection with it.
EndTerminal(cn) == /\ termState' = [termState EXCEPT ![cn] = "Idle"]
                   /\ CloseConnection(pcbp[cn], outputQ)
                   /\ UNCHANGED <<svmState, pcbp, breakPending>>

SupervisionReply ==
    /\ Receive("SUP/N", Nobody)
    /\ svmState' = IF svmState = "StWaitSupervision" THEN "StReady" ELSE svmState
    /\ UNCHANGED <<portVars, termVars, upline>>

FreeTerminals == {cn \in Cns : termState[cn] = "Idle"}

ConfigurableClosed(p) == FreeTerminals # {}  \* mutation: the port may be closed

\* A terminal can be configured for a port that still has a connection.
Configurable(p) == connFd[p] # "none" /\ FreeTerminals # {}

\* The port is configured, and gets the first free terminal, or is closed.
ConfigurationReply(p) ==
    /\ \/ Receive("CNF/N", p) \/ Receive("CNF/E", p)
    /\ LET cn == Min(FreeTerminals)
           usable == Head(downline).kind = "CNF/N" /\ Configurable(p)
       IN  \/ /\ usable
              /\ termState' = [termState EXCEPT ![cn] = "RequestConnection"]
              /\ pcbp' = [pcbp EXCEPT ![cn] = p]
              /\ outputQ' = [outputQ EXCEPT ![cn] = <<>>]
              /\ breakPending' = [breakPending EXCEPT ![cn] = FALSE]
              /\ Reply(Message("ICN/R", cn))
              /\ UNCHANGED <<svmState, portVars>>
           \/ /\ ~usable
              /\ CloseConnection(p, outputQ)
              /\ UNCHANGED <<svmState, termState, pcbp, breakPending, upline>>

\* The host accepts or rejects a connection; in any other state that is ignored.
ConnectionReply(cn) ==
    /\ UNCHANGED upline
    /\ \/ /\ Receive("ICN/N", cn) /\ termState[cn] = "RequestConnection"
          /\ termState' = [termState EXCEPT ![cn] = "Connected"]
          /\ UNCHANGED <<svmState, portVars, pcbp, flowVars>>
       \/ /\ Receive("ICN/E", cn) /\ termState[cn] = "RequestConnection"
          /\ EndTerminal(cn)
       \/ /\ Receive("ICN/N", cn) \/ Receive("ICN/E", cn)
          /\ termState[cn] # "RequestConnection"
          /\ UNCHANGED <<svmState, portVars, termVars>>

DisconnectRequestUnanswered(cn) ==  \* mutation: no reply unless connected
    /\ Receive("TCN/R", cn)
    /\ IF termState[cn] = "Connected"
       THEN /\ termState' = [termState EXCEPT ![cn] = "HostRequestDisconnect"]
            /\ Reply(Message("TERM", cn))
       ELSE UNCHANGED <<termState, upline>>
    /\ UNCHANGED <<svmState, portVars, pcbp, flowVars>>

\* The host asks for the end of a connection.
DisconnectRequest(cn) ==
    /\ Receive("TCN/R", cn)
    /\ IF termState[cn] = "Connected"
       THEN /\ termState' = [termState EXCEPT ![cn] = "HostRequestDisconnect"]
            /\ Reply(Message("TERM", cn))
       ELSE Reply(Message("TCN/N", cn)) /\ UNCHANGED termState
    /\ UNCHANGED <<svmState, portVars, pcbp, flowVars>>

\* The host agrees to the end of a connection.
DisconnectReply(cn) ==
    /\ Receive("TCN/N", cn) /\ UNCHANGED upline
    /\ IF termState[cn] = "NpuRequestDisconnect" THEN EndTerminal(cn)
       ELSE UNCHANGED <<svmState, portVars, termVars>>

TermBlock(cn) ==
    /\ Receive("TERM", cn)
    /\ \/ /\ termState[cn] = "HostRequestDisconnect"
          /\ Reply(Message("TCN/N", cn)) /\ EndTerminal(cn)
       \/ /\ termState[cn] = "NpuRequestDisconnect"
          /\ Reply(Message("TERM", cn)) /\ UNCHANGED <<svmState, portVars, termVars>>
       \/ /\ termState[cn] \notin {"HostRequestDisconnect", "NpuRequestDisconnect"}
          /\ UNCHANGED <<svmState, portVars, termVars, upline>>

\* Data for a connected terminal is queued, with its number in the last buffer, and
\* output tried at once; any other is acknowledged and dropped.
DataBlock(cn) ==
    /\ Receive("MSG", cn)
    /\ LET n == Head(downline).bsn
       IN  IF termState[cn] = "Connected"
           THEN TryOutput(pcbp[cn], [outputQ EXCEPT ![cn] = QueueAck(@, n)],
                          upline)
           ELSE Reply(Msg("BACK", cn, n)) /\ UNCHANGED <<asyncTp, outputQ>>
    /\ UNCHANGED <<svmState, connFd, termState, pcbp, breakPending>>

\* The host's answer to a break; commands are acknowledged at once.
Mark(cn) == /\ Receive("MARK", cn)
            /\ breakPending' = [breakPending EXCEPT ![cn] = FALSE]
            /\ Reply(Msg("BACK", cn, Head(downline).bsn))
            /\ UNCHANGED <<svmState, portVars, termState, pcbp, outputQ>>

\* The host interrupts the output.
Interrupt(cn) == /\ Receive("ICMD", cn)
                 /\ upline' = upline \o Acks(cn, outputQ[cn])
                 /\ outputQ' = [outputQ EXCEPT ![cn] = <<>>]
                 /\ UNCHANGED <<svmState, portVars, termState, pcbp, breakPending>>

ProcessDownline ==
    \/ SupervisionReply
    \/ \E p \in Ports : ConfigurationReply(p)
    \/ \E cn \in Cns : \/ ConnectionReply(cn) \/ DisconnectRequest(cn)
                       \/ DisconnectReply(cn) \/ TermBlock(cn)
                       \/ DataBlock(cn) \/ Mark(cn) \/ Interrupt(cn)

-----------------------------------------------------------------------------
(* The host (external).                                                    *)

HostSends(m) == downline' = Append(downline, m)

\* The host becomes available: the NPU asks to be supervised.
NotifyHostRegulation == /\ ~resetting /\ svmState = "StIdle"
                        /\ svmState' = "StWaitSupervision"
                        /\ upline' = Append(upline, Message("SUP/R", Nobody))
                        /\ UNCHANGED <<portVars, termVars, netVars, downline, resetVars,
                                       hostVars>>

HostReceive(kind, id) == /\ ~resetting /\ upline # <<>>
                         /\ Head(upline).kind = kind /\ Head(upline).id = id
                         /\ upline' = Tail(upline)
                         /\ UNCHANGED <<svmState, portVars, termVars, netVars, resetVars>>

HostSupervises == /\ HostReceive("SUP/R", Nobody)
                  /\ HostSends(Message("SUP/N", Nobody)) /\ UNCHANGED hostVars

HostConfigures(p) == /\ HostReceive("CNF/R", p) /\ UNCHANGED hostVars
                     /\ \E kind \in {"CNF/N", "CNF/E"} : HostSends(Message(kind, p))

HostConnects(cn) ==
    /\ HostReceive("ICN/R", cn) /\ UNCHANGED unacked
    /\ \/ /\ HostSends(Message("ICN/N", cn))
          /\ hostState' = [hostState EXCEPT ![cn] = "connected"]
       \/ HostSends(Message("ICN/E", cn)) /\ UNCHANGED hostState

HostEnds(cn) == /\ hostState' = [hostState EXCEPT ![cn] = "idle"]
                /\ unacked' = [unacked EXCEPT ![cn] = <<>>]

\* The messages that end a connection, and those the host does not expect.
HostDisconnects(cn) ==
    \/ /\ HostReceive("TCN/R", cn) /\ UNCHANGED unacked
       /\ \/ /\ hostState[cn] = "connected" /\ HostSends(Message("TERM", cn))
             /\ hostState' = [hostState EXCEPT ![cn] = "npuDisc"]
          \/ /\ hostState[cn] # "connected" /\ HostSends(Message("TCN/N", cn))
             /\ UNCHANGED hostState
    \/ /\ HostReceive("TERM", cn)
       /\ \/ /\ hostState[cn] = "npuDisc" /\ HostSends(Message("TCN/N", cn))
             /\ HostEnds(cn)
          \/ /\ hostState[cn] = "hostDisc" /\ HostSends(Message("TERM", cn))
             /\ UNCHANGED hostVars
    \/ /\ HostReceive("TCN/N", cn) /\ UNCHANGED downline
       /\ hostState[cn] = "hostDisc" /\ HostEnds(cn)

HostAcknowledged(cn) ==
    /\ HostReceive("BACK", cn) /\ UNCHANGED <<downline, hostState>>
    /\ unacked' = [unacked EXCEPT ![cn] = Selected(@, Numbers \ {Head(upline).bsn})]

\* A break is answered on a live connection.
HostMarks(cn) ==
    /\ HostReceive("BREAK", cn) /\ UNCHANGED hostState
    /\ \/ /\ hostState[cn] = "connected"
          /\ HostSends(Msg("MARK", cn, MarkNumber))
          /\ unacked' = [unacked EXCEPT ![cn] = Append(@, MarkNumber)]
       \/ hostState[cn] # "connected" /\ UNCHANGED <<downline, unacked>>

HostProcesses == \/ HostSupervises
                 \/ \E p \in Ports : HostConfigures(p)
                 \/ \E cn \in Cns : \/ HostConnects(cn) \/ HostDisconnects(cn)
                                    \/ HostAcknowledged(cn) \/ HostMarks(cn)

\* What the host does of its own accord on a connection: it ends it, sends a block
\* while its window is open, or interrupts the output.
HostAsksForEnd(cn) == /\ HostSends(Message("TCN/R", cn))
                      /\ hostState' = [hostState EXCEPT ![cn] = "hostDisc"]
                      /\ UNCHANGED unacked

HostSendsBlock(cn) == LET unused == (1 .. Window) \ ToSet(unacked[cn])
                      IN  /\ unused # {} /\ UNCHANGED hostState
                          /\ HostSends(Msg("MSG", cn, Min(unused)))
                          /\ unacked' = [unacked EXCEPT ![cn] = Append(@, Min(unused))]

HostInterrupts(cn) == HostSends(Message("ICMD", cn)) /\ UNCHANGED hostVars

HostActs(cn) ==
    /\ ~resetting /\ hostState[cn] = "connected" /\ RoomForMore
    /\ HostAsksForEnd(cn) \/ HostSendsBlock(cn) \/ HostInterrupts(cn)
    /\ UNCHANGED <<svmState, portVars, termVars, netVars, upline, resetVars>>

-----------------------------------------------------------------------------
(* The reset of the NPU.                                                   *)

\* The network is reset first: every connection is closed.
NetReset ==
    /\ ~resetting /\ resets < MaxResets
    /\ resetting' = TRUE /\ resets' = resets + 1
    /\ termState' = [cn \in Cns |-> IF pcbp[cn] # Nobody /\ connFd[pcbp[cn]] # "none"
                                    THEN "Idle" ELSE termState[cn]]
    /\ outputQ' = [cn \in Cns |-> IF \E p \in Ports : asyncTp[p] = cn
                                  THEN <<>> ELSE outputQ[cn]]
    /\ connFd' = [p \in Ports |-> "none"] /\ asyncTp' = [p \in Ports |-> Nobody]
    /\ unsettled' = {}
    /\ UNCHANGED <<svmState, pcbp, breakPending, netPc, netPort, lineVars, hostVars>>

\* Then the TIP, the SVM and the BIP.  The host starts its side anew.
ResetRest ==
    /\ resetting /\ resetting' = FALSE
    /\ termState' = [cn \in Cns |-> "Idle"] /\ pcbp' = [cn \in Cns |-> Nobody]
    /\ outputQ' = [cn \in Cns |-> <<>>]
    /\ breakPending' = [cn \in Cns |-> FALSE]
    /\ svmState' = "StIdle" /\ upline' = <<>> /\ downline' = <<>>
    /\ hostState' = [cn \in Cns |-> "idle"] /\ unacked' = [cn \in Cns |-> <<>>]
    /\ UNCHANGED <<portVars, netVars, resets>>

NetThread == Accept \/ TakePort \/ NotifyNetConnect
User == \E p \in Ports : Leave(p)
CheckStatus == \E p \in Ports : CheckStatusOpen(p) \/ CheckStatusLeft(p)
Host == NotifyHostRegulation \/ HostProcesses \/ \E cn \in Cns : HostActs(cn)
Reset == NetReset \/ ResetRest

Next == NetThread \/ User \/ CheckStatus \/ ProcessDownline \/ Host \/ Reset

Spec == Init /\ [][Next]_vars

\* The emulator polls every port and takes what the host sends; the host, which is
\* available, processes what it gets; the network thread and the reset go on.
FairSpec == /\ Spec
            /\ \A p \in Ports : WF_vars(CheckStatusLeft(p))
            /\ WF_vars(ProcessDownline) /\ WF_vars(HostProcesses)
            /\ WF_vars(NotifyHostRegulation) /\ WF_vars(ResetRest)
            /\ WF_vars(TakePort \/ NotifyNetConnect)

-----------------------------------------------------------------------------
(* Properties.                                                             *)

UplineMessages ==
    [kind : {"SUP/R"}, id : {Nobody}, bsn : {Nobody}]
    \cup [kind : {"CNF/R"}, id : Ports, bsn : {Nobody}]
    \cup [kind : {"ICN/R", "TCN/R", "TCN/N", "TERM", "BREAK"}, id : Cns, bsn : {Nobody}]
    \cup [kind : {"BACK"}, id : Cns, bsn : Numbers]

DownlineMessages ==
    [kind : {"SUP/N"}, id : {Nobody}, bsn : {Nobody}]
    \cup [kind : {"CNF/N", "CNF/E"}, id : Ports, bsn : {Nobody}]
    \cup [kind : {"ICN/N", "ICN/E", "TCN/R", "TCN/N", "TERM", "ICMD"}, id : Cns,
          bsn : {Nobody}]
    \cup [kind : {"MSG"}, id : Cns, bsn : 1 .. Window]
    \cup [kind : {"MARK"}, id : Cns, bsn : {MarkNumber}]

\* The type invariant.
TypeOK ==
    /\ svmState \in {"StIdle", "StWaitSupervision", "StReady"}
    /\ connFd \in [Ports -> {"none", "open", "left"}]
    /\ asyncTp \in [Ports -> Cns \cup {Nobody}]
    /\ termState \in [Cns -> TermStates] /\ pcbp \in [Cns -> Ports \cup {Nobody}]
    /\ outputQ \in [Cns -> Seq(1 .. Window \cup {Nobody})]
    /\ breakPending \in [Cns -> BOOLEAN]
    /\ netPc \in {"accepting", "checked", "opened"}
    /\ netPort \in Ports \cup {Nobody} /\ (netPc = "opened" => netPort # Nobody)
    /\ unsettled \subseteq Ports
    /\ upline \in Seq(UplineMessages) /\ downline \in Seq(DownlineMessages)
    /\ resetting \in BOOLEAN /\ resets \in 0 .. MaxResets
    /\ hostState \in [Cns -> {"idle", "connected", "hostDisc", "npuDisc"}]
    /\ unacked \in [Cns -> Seq(Numbers)]

\* The terminal a port remembers is in use and refers to the port, whatever was
\* closed, reused or reset in between (npu_async.c:1231 uses it unchecked).
RemembersLiveTerminal ==
    \A p \in Ports : LET tp == asyncTp[p]
                     IN  tp # Nobody => termState[tp] # "Idle" /\ pcbp[tp] = p

\* Every terminal in use has the network connection of its port to itself, and a
\* port with a connection has a terminal, or its configuration is on the way, but
\* never both.  Excepted are the ports whose connection was opened while an earlier
\* configuration of the port was on the way, or during a reset (npu_net.c:1495).
ConnectionHasTerminal ==
    resetting \/ \A p \in Ports \ unsettled :
        LET expecting == (netPc = "opened" /\ netPort = p) \/ ConfigurationPending(p)
        IN  \/ connFd[p] = "none" /\ TerminalsOn(p) = {}
            \/ connFd[p] # "none" /\ TerminalsOn(p) = {} /\ expecting
            \/ connFd[p] # "none" /\ Cardinality(TerminalsOn(p)) = 1 /\ ~expecting

\* When no message is under way, host and NPU agree on every connection: a user,
\* host or NPU that ends it at the same time as another does not leave one end
\* waiting (npu_svm.c:663).
QuietMeansAgreed ==
    upline = <<>> /\ downline = <<>> /\ ~resetting =>
        /\ svmState # "StWaitSupervision"
        /\ \A cn \in Cns : <<termState[cn], hostState[cn]>> \in
                               {<<"Idle", "idle">>, <<"Connected", "connected">>}

\* What each end is prepared to get in each state of a connection.
HostExpects ==
    [idle |-> {"ICN/R"}, connected |-> {"TCN/R", "BREAK", "BACK"},
     hostDisc |-> {"TCN/R", "TCN/N", "TERM", "BREAK", "BACK"}, npuDisc |-> {"TERM", "BACK"}]

NpuExpects ==
    [Idle |-> {}, RequestConnection |-> {"ICN/N", "ICN/E"},
     Connected |-> {"TCN/R", "MSG", "MARK", "ICMD"},
     NpuRequestDisconnect |-> {"TCN/R", "TCN/N", "TERM", "MSG", "MARK", "ICMD"},
     HostRequestDisconnect |-> {"TERM"}]

\* No message about a connection meets an end in a state that does not expect it
\* (logged as unexpected at npu_svm.c:635 and 706): a connection number is never
\* used anew while messages of its last connection are on the way.
NoUnexpectedMessage ==
    LET others == {"SUP/R", "SUP/N", "CNF/R", "CNF/N", "CNF/E"}
        About(queue) == queue # <<>> /\ Head(queue).kind \notin others
    IN  resetting
        \/ /\ About(upline) =>
                Head(upline).kind \in HostExpects[hostState[Head(upline).id]]
           /\ About(downline) =>
                Head(downline).kind \in NpuExpects[termState[Head(downline).id]]

NumbersIn(queue, kinds, cn) ==
    LET blocks == Selected(queue, [kind : kinds, id : {cn}, bsn : Numbers])
    IN  [i \in DOMAIN blocks |-> blocks[i].bsn]

\* On a connection, every block the host waits for an acknowledgement of is in one
\* place: on its way down, in the output queue, or acknowledged upline; data blocks
\* are in the order they were sent (a mark may overtake them).
BlockInOnePlace ==
    \A cn \in Cns :
        LET blocks == NumbersIn(upline, {"BACK"}, cn) \o outputQ[cn]
                      \o NumbersIn(downline, {"MSG", "MARK"}, cn)
        IN  \/ resetting \/ hostState[cn] = "idle"
            \/ termState[cn] \in {"Idle", "RequestConnection"} \/ pcbp[cn] \in unsettled
            \/ \A numbers \in {1 .. Window, {MarkNumber}} :
                   Selected(blocks, numbers) = Selected(unacked[cn], numbers)

\* A user waits at port p for a terminal, or left it and the port is not yet free.
Waits(p) == \/ connFd[p] = "left"
            \/ /\ connFd[p] = "open" /\ p \notin unsettled
               /\ \A cn \in TerminalsOn(p) : termState[cn] # "Connected"

\* A user who connects gets a terminal or is disconnected, and a port whose user goes
\* away becomes free, whatever state its connection is in, and whoever else ends it.
NobodyWaitsForever == \A p \in Ports : Waits(p) ~> ~Waits(p)

\* A terminal that is connected ("configured and connected", npu.h:753) has a network
\* connection.  It has none after its user left while the host was still configuring
\* the port, and the next user got the port.
ConnectedTerminalHasConnection ==
    resetting \/ \A cn \in Cns : termState[cn] = "Connected" => connFd[pcbp[cn]] # "none"

=============================================================================
