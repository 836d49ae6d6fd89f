-------------------------------- MODULE NpuTrunk --------------------------------
(***************************************************************************)
(* Trunks: NPUs of several systems joined by TCP connections, over which    *)
(* hosts exchange blocks (npu_lip.c).  Both ends run this code: both listen, *)
(* both may dial, and whichever connection is first through the CONNECT      *)
(* handshake becomes the link.                                               *)
(*                                                                         *)
(* A trunk has one port (PCB) and one control block for its connection (NCB). *)
(* The network thread dials and accepts (npu_net.c); its handling of a new   *)
(* connection is one step.  The main thread polls the ports and resets the   *)
(* NPU.  TCP is external: a dial is established or fails, messages arrive in *)
(* order, and an end that is closed is noticed by the other.  Programs other *)
(* than this one may call as well.  Blocks and pings count only where they    *)
(* reach a port that still waits for the response to CONNECT: a text that     *)
(* does not end with a line is kept in the staging buffer, until a line ends  *)
(* or the buffer is full.                                                    *)
(***************************************************************************)
EXTENDS Integers, FiniteSetsExt

CONSTANTS Trunks,         \* the trunk definitions, as <<own node, peer node>>
          Dialling,       \* those with the address of the peer; the others listen only
          Called,         \* the nodes that other programs call
          ConnCount,      \* bound: TCP connections at a time
          MaxStaged,      \* bound: pieces of text the staging buffer can hold
          MaxResets       \* bound: resets of NPUs

ASSUME TrunksAssumption == /\ Trunks \subseteq Nat \X Nat
                           /\ \A t \in Trunks : t[1] # t[2]
ASSUME DiallingAssumption == \A t \in Dialling : t \in Trunks /\ <<t[2], t[1]>> \in Trunks
ASSUME CalledAssumption == Called \subseteq Nat
ASSUME BoundsAssumption == ConnCount \in Nat /\ MaxStaged \in Nat /\ MaxResets \in Nat

Conns == 1 .. ConnCount
Node(t) == t[1]
Peer(t) == <<t[2], t[1]>>
Nodes == {Node(t) : t \in Trunks}

\* What a connection has for a trunk that another program has made.
Strangers == {<<-1, n>> : n \in Called \cap Nodes}

\* File descriptors: none; one that was closed, whose number may come back; and one
\* that is open, but forgotten.
NoFd == 0
StaleFd == -1
LostFd == -2

VARIABLES
  tcp,        \* the TCP connections
  connFd,     \* a port's connection: pcbp->connFd
  lip,        \* the state of its handshake: controls.lip.state
  staged,     \* the pieces of text in its staging buffer: controls.lip.stagingBufPtr
  ncbState, ncbFd,        \* state and connFd of the trunk's NCB
  hostLink,   \* the regulation level of the link the host was told last
  ready,      \* the host supervises the NPU: svmIsReady
  resets,
  misled      \* history: trunks whose host was told of a link that then failed

portVars == <<connFd, lip, staged>>
ncbVars  == <<ncbState, ncbFd>>
hostVars == <<hostLink, misled>>
npuVars  == <<ready, resets>>
vars == <<tcp, portVars, ncbVars, hostVars, npuVars>>

LipStates == {"Disconnected", "RcvConnReq", "RcvConnResp", "SndConnReq", "RcvBlock"}
NcbStates == {"Init", "Connecting", "Connected", "Busy"}

\* trunk: the one that dialled.  ends: those that are open.
Unused == [trunk |-> <<>>, phase |-> "unused", request |-> FALSE, response |-> "none",
           ends |-> {}]

Init == /\ tcp = [c \in Conns |-> Unused]
        /\ connFd = [t \in Trunks |-> NoFd]
        /\ lip = [t \in Trunks |-> "Disconnected"] /\ staged = [t \in Trunks |-> 0]
        /\ ncbState = [t \in Trunks |-> "Init"] /\ ncbFd = [t \in Trunks |-> NoFd]
        /\ hostLink = [t \in Trunks |-> "down"] /\ misled = {}
        /\ ready = [n \in Nodes |-> FALSE] /\ resets = 0

-----------------------------------------------------------------------------
(* TCP (external).                                                         *)

EndAt(c, n) == IF tcp[c].trunk[1] = n THEN "dialler" ELSE "acceptor"
OtherEnd(end) == IF end = "dialler" THEN "acceptor" ELSE "dialler"

\* A connection with one end closed: what was sent to it is gone.  Of a stranger's end no
\* more is said then.
WithoutEnd(conn, end) ==
    IF conn.ends \subseteq {end} \/ (conn.trunk \in Strangers /\ end = "acceptor") THEN Unused
    ELSE [conn EXCEPT !.ends = @ \ {end},
                      !.request = @ /\ end = "dialler",
                      !.response = IF end = "dialler" THEN "none" ELSE @]

\* Connections nobody will use any more.
Reusable ==
    {c \in Conns : /\ tcp[c].phase \notin {"dialling", "established"}
                   /\ \A t \in Trunks : /\ connFd[t] # c
                                        /\ ~(ncbState[t] = "Connecting" /\ ncbFd[t] = c)}

Establish(c) == /\ tcp[c].phase = "dialling"
                /\ tcp' = [tcp EXCEPT ![c].phase = "established",
                                      ![c].ends = {"dialler", "acceptor"}]
                /\ UNCHANGED <<portVars, ncbVars, hostVars, npuVars>>

\* The connection of a link is lost: both ends notice.
Break(c) == /\ Cardinality({t \in Trunks : connFd[t] = c /\ lip[t] = "RcvBlock"}) = 2
            /\ tcp[c].phase = "accepted"
            /\ tcp' = [tcp EXCEPT ![c].phase = "broken"]
            /\ UNCHANGED <<portVars, ncbVars, hostVars, npuVars>>

\* Another program calls, one at a time; it sends text whenever it likes, and it hangs up
\* or does not.
Call(c) == /\ c \in Reusable /\ \A d \in Reusable : c <= d
           /\ \A d \in Conns : tcp[d].trunk \notin Strangers
           /\ \E s \in Strangers :
                tcp' = [tcp EXCEPT ![c] = [Unused EXCEPT !.trunk = s, !.phase = "established",
                                                         !.ends = {"dialler", "acceptor"}]]
           /\ UNCHANGED <<portVars, ncbVars, hostVars, npuVars>>

HangUp(c) == /\ tcp[c].trunk \in Strangers /\ tcp[c].phase = "accepted"
             /\ "dialler" \in tcp[c].ends
             /\ tcp' = [tcp EXCEPT ![c] = WithoutEnd(@, "dialler")]
             /\ UNCHANGED <<portVars, ncbVars, hostVars, npuVars>>

-----------------------------------------------------------------------------
(* The network thread: dialling.                                           *)

\* A connection is put on a port, whose handshake begins.
NotifyNetConnect(t, c, state) ==
    /\ connFd' = [connFd EXCEPT ![t] = c] /\ lip' = [lip EXCEPT ![t] = state]
    /\ staged' = [staged EXCEPT ![t] = 0]

\* While its NCB is in the initial state a trunk dials, again and again.
Dial(t) == /\ t \in Dialling /\ ready[Node(t)] /\ ncbState[t] = "Init"
           /\ \E c \in Reusable :
                /\ \A d \in Reusable : c <= d
                /\ tcp' = [tcp EXCEPT ![c] = [Unused EXCEPT !.trunk = t, !.phase = "dialling",
                                                            !.ends = {"dialler"}]]
                /\ ncbFd' = [ncbFd EXCEPT ![t] = c]
           /\ ncbState' = [ncbState EXCEPT ![t] = "Connecting"]
           /\ UNCHANGED <<portVars, hostVars, npuVars>>

\* It fails, or is given up: connectionDeadline is never set, so at the next look.
DialFails(t) == /\ ready[Node(t)] /\ ncbState[t] = "Connecting"
                /\ tcp[ncbFd[t]].phase = "dialling"
                /\ tcp' = [tcp EXCEPT ![ncbFd[t]] = Unused]
                /\ ncbFd' = [ncbFd EXCEPT ![t] = NoFd]
                /\ ncbState' = [ncbState EXCEPT ![t] = "Init"]
                /\ UNCHANGED <<portVars, hostVars, npuVars>>

\* It succeeds, and the connection gets the trunk's port if that is free.
DialSucceeds(t) ==
    /\ ready[Node(t)] /\ ncbState[t] = "Connecting" /\ tcp[ncbFd[t]].phase # "dialling"
    /\ \/ /\ connFd[t] = NoFd
          /\ NotifyNetConnect(t, ncbFd[t], "SndConnReq")
          /\ ncbState' = [ncbState EXCEPT ![t] = "Connected"]
          /\ UNCHANGED <<tcp, ncbFd>>
       \/ /\ connFd[t] # NoFd
          /\ tcp' = [tcp EXCEPT ![ncbFd[t]] = WithoutEnd(@, "dialler")]
          /\ ncbFd' = [ncbFd EXCEPT ![t] = NoFd]
          /\ ncbState' = [ncbState EXCEPT ![t] = "Busy"]
          /\ UNCHANGED portVars
    /\ UNCHANGED <<hostVars, npuVars>>

-----------------------------------------------------------------------------
(* The network thread: accepting.                                          *)

\* Among some trunks of a node, those whose port is first: it has the peer's number.
First(trunks) == {t \in trunks : \A u \in trunks : t[2] <= u[2]}
TrunksOf(n) == {t \in Trunks : Node(t) = n}

\* The NCB of trunk t gets a state in place of one in which it was dialling: the
\* connection it dialled is forgotten.
Forgotten(t) == IF ncbState[t] = "Connecting" THEN LostFd ELSE ncbFd[t]

\* A connection put on a port may have the number of one the NCB still remembers.
Remembered(t, c) == IF Forgotten(t) = StaleFd THEN {StaleFd, c} ELSE {Forgotten(t)}

\* A peer's connection gets the first free port, whichever trunk it is for; if there
\* is none, or the host is not ready, it is closed, and the NCB that listens starts anew.
AcceptConnection(c) ==
    LET n == tcp[c].trunk[2]
        free == {t \in TrunksOf(n) : connFd[t] = NoFd}
    IN  /\ tcp[c].phase = "established"
        /\ \/ /\ ready[n]
              /\ tcp' = [tcp EXCEPT ![c].phase = "accepted"]
              /\ \E t \in First(free) :
                   /\ NotifyNetConnect(t, c, "RcvConnReq")
                   /\ ncbState' = [ncbState EXCEPT ![t] = "Connected"]
                   /\ \E fd \in Remembered(t, c) : ncbFd' = [ncbFd EXCEPT ![t] = fd]
           \/ /\ ~ready[n] \/ free = {}
              /\ tcp' = [tcp EXCEPT ![c] = WithoutEnd([@ EXCEPT !.phase = "accepted"],
                                                      "acceptor")]
              /\ \E listener \in First(TrunksOf(n)) :
                   /\ ncbState' = [ncbState EXCEPT ![listener] = "Init"]
                   /\ ncbFd' = [ncbFd EXCEPT ![listener] = Forgotten(listener)]
              /\ UNCHANGED portVars
        /\ UNCHANGED <<hostVars, npuVars>>

-----------------------------------------------------------------------------
(* The main thread's poll of a port.                                       *)

EndOf(t) == EndAt(connFd[t], Node(t))
PeerIsOpen(t) == /\ OtherEnd(EndOf(t)) \in tcp[connFd[t]].ends
                 /\ tcp[connFd[t]].phase # "broken"

\* A port's connection is closed.  Its NCB starts anew if it was the one it dialled.
CloseConnectionBusy(t, before) ==  \* mutation: an NCB that found its port taken stays busy
    /\ tcp' = [before EXCEPT ![connFd[t]] = WithoutEnd(@, EndOf(t))]
    /\ connFd' = [connFd EXCEPT ![t] = NoFd]
    /\ lip' = [lip EXCEPT ![t] = "Disconnected"] /\ staged' = [staged EXCEPT ![t] = 0]
    /\ IF connFd[t] = ncbFd[t]
       THEN ncbState' = [ncbState EXCEPT ![t] = "Init"] /\ ncbFd' = [ncbFd EXCEPT ![t] = StaleFd]
       ELSE UNCHANGED ncbVars

CloseConnection(t, before) ==
    /\ tcp' = [before EXCEPT ![connFd[t]] = WithoutEnd(@, EndOf(t))]
    /\ connFd' = [connFd EXCEPT ![t] = NoFd]
    /\ lip' = [lip EXCEPT ![t] = "Disconnected"] /\ staged' = [staged EXCEPT ![t] = 0]
    /\ ncbState' = IF connFd[t] = ncbFd[t] \/ ncbState[t] = "Busy"
                   THEN [ncbState EXCEPT ![t] = "Init"] ELSE ncbState
    /\ ncbFd' = IF connFd[t] = ncbFd[t] THEN [ncbFd EXCEPT ![t] = StaleFd] ELSE ncbFd

TellHost(t, level) == /\ hostLink' = [hostLink EXCEPT ![t] = level]
                      /\ misled' = misled \ {t}

\* Something has come that counts: a disconnected port discards what it receives.
HasInput(t) == /\ lip[t] # "Disconnected"
               /\ IF EndOf(t) = "dialler" THEN tcp[connFd[t]].response # "none"
                  ELSE tcp[connFd[t]].request

\* The other end has closed the connection, and nothing is left to read.
NotifyNetDisconnectSilently(t) ==  \* mutation: the host is not told of a link that is gone
    /\ connFd[t] # NoFd /\ ~PeerIsOpen(t) /\ ~HasInput(t)
    /\ CloseConnection(t, tcp)
    /\ UNCHANGED <<hostVars, npuVars>>

NotifyNetDisconnect(t) ==
    /\ connFd[t] # NoFd /\ ~PeerIsOpen(t) /\ ~HasInput(t)
    /\ CloseConnection(t, tcp)
    /\ IF lip[t] = "RcvBlock" THEN TellHost(t, "down") ELSE UNCHANGED hostVars
    /\ UNCHANGED npuVars

\* Fifteen seconds without a piece of text in the middle of the handshake.
TimeoutOfDialler(t) ==  \* mutation: an acceptor that has gone quiet is waited for
    /\ connFd[t] # NoFd /\ lip[t] = "RcvConnReq" /\ ~HasInput(t)
    /\ CloseConnection(t, tcp)
    /\ UNCHANGED <<hostVars, npuVars>>

Timeout(t) == /\ connFd[t] # NoFd /\ lip[t] \in {"RcvConnReq", "RcvConnResp"} /\ ~HasInput(t)
              /\ CloseConnection(t, tcp)
              /\ UNCHANGED <<hostVars, npuVars>>

\* The dialler asks for the link.  To an end that is closed that may fail, or not yet.
SendConnectRequest(t) ==
    /\ connFd[t] # NoFd /\ lip[t] = "SndConnReq"
    /\ \/ /\ tcp' = [tcp EXCEPT ![connFd[t]].request = PeerIsOpen(t)]
          /\ lip' = [lip EXCEPT ![t] = "RcvConnResp"]
          /\ UNCHANGED <<connFd, staged, ncbVars>>
       \/ ~PeerIsOpen(t) /\ CloseConnection(t, tcp)
    /\ UNCHANGED <<hostVars, npuVars>>

\* Text has come from something that is not a system.
StrangersText(t) == connFd[t] # NoFd /\ lip[t] = "RcvConnReq" /\ tcp[connFd[t]].trunk \in Strangers

\* The request that has arrived at port t is for trunk u; a stranger's is for none.
Requested(t, u) == /\ connFd[t] # NoFd /\ lip[t] = "RcvConnReq" /\ EndOf(t) = "acceptor"
                   /\ tcp[connFd[t]].request \/ StrangersText(t)
                   /\ u = Peer(tcp[connFd[t]].trunk)

AcceptableAgain(t, u) ==  \* mutation: a trunk that is connected already is connected again
    u \in Trunks /\ ready[Node(t)]

Acceptable(t, u) == /\ u \in Trunks /\ ready[Node(t)]
                    /\ u = t \/ connFd[u] = NoFd

\* The connection of port t when its request has been read and answered.
Answered(t, answer) ==
    [tcp EXCEPT ![connFd[t]].request = FALSE,
                ![connFd[t]].response = IF PeerIsOpen(t) THEN answer ELSE "none"]

\* A request is refused: none at all, no such trunk, already connected, or not ready.
RefuseRequest(t, u) == /\ Requested(t, u) /\ ~Acceptable(t, u)
                       /\ CloseConnection(t, Answered(t, "3xx"))
                       /\ UNCHANGED <<hostVars, npuVars>>

\* It is accepted: the host is told, the response sent, and the connection moved to the
\* port of its trunk.  The port it came to stays as it is, and so does its NCB.
AcceptRequest(t, u) ==
    /\ Requested(t, u) /\ Acceptable(t, u)
    /\ tcp' = Answered(t, "200")
    /\ connFd' = [connFd EXCEPT ![t] = NoFd, ![u] = connFd[t]]
    /\ lip' = [lip EXCEPT ![u] = "RcvBlock"] /\ staged' = [staged EXCEPT ![u] = 0]
    /\ ncbState' = [ncbState EXCEPT ![u] = "Connected"]
    /\ \E fd \in IF u = t THEN {Forgotten(u)} ELSE Remembered(u, connFd[t]) :
          ncbFd' = [ncbFd EXCEPT ![u] = fd]
    /\ TellHost(u, "up")
    /\ UNCHANGED npuVars

\* The host is told, but the response cannot be sent: the connection is closed.
AcceptRequestInVain(t, u) ==
    /\ Requested(t, u) /\ Acceptable(t, u) /\ ~PeerIsOpen(t)
    /\ CloseConnection(t, Answered(t, "200"))
    /\ hostLink' = [hostLink EXCEPT ![u] = "up"] /\ misled' = misled \cup {u}
    /\ UNCHANGED npuVars

Responded(t, response) == /\ connFd[t] # NoFd /\ lip[t] = "RcvConnResp"
                          /\ tcp[connFd[t]].response = response

\* The peer has accepted; its blocks may come in one piece with the response, and after it.
Accepted(t) == \/ Responded(t, "200")
               \/ connFd[t] # NoFd /\ lip[t] = "RcvConnResp" /\ staged[t] > 0

\* The connection of port t when what has come for it is read.
Emptied(t) == [tcp EXCEPT ![connFd[t]].request = FALSE, ![connFd[t]].response = "none"]

\* What has come ends with a line: the link is there.  Blocks read with the response are lost.
LinkAccepted(t) == /\ Accepted(t)
                   /\ tcp' = Emptied(t)
                   /\ lip' = [lip EXCEPT ![t] = "RcvBlock"] /\ staged' = [staged EXCEPT ![t] = 0]
                   /\ TellHost(t, "up")
                   /\ UNCHANGED <<connFd, ncbVars, npuVars>>

\* It does not: a block of the peer is its end, or it is a stranger's text.
EndsInMidLine(t) == Accepted(t) \/ StrangersText(t)

\* Then it is kept for the next piece to complete it,
StageText(t) == /\ EndsInMidLine(t) /\ staged[t] < MaxStaged
                /\ tcp' = Emptied(t) /\ staged' = [staged EXCEPT ![t] = @ + 1]
                /\ UNCHANGED <<connFd, lip, ncbVars, hostVars, npuVars>>

\* or the buffer overflows.  The port is disconnected, but its connection is left open.
OverflowStaging(t) == /\ EndsInMidLine(t)
                      /\ tcp' = Emptied(t) /\ lip' = [lip EXCEPT ![t] = "Disconnected"]
                      /\ staged' = [staged EXCEPT ![t] = 0]
                      /\ UNCHANGED <<connFd, ncbVars, hostVars, npuVars>>

LinkRefused(t) == /\ Responded(t, "3xx")
                  /\ CloseConnection(t, [tcp EXCEPT ![connFd[t]].response = "none"])
                  /\ UNCHANGED <<hostVars, npuVars>>

-----------------------------------------------------------------------------
(* The host resets the NPU, and supervises it.                             *)

\* Every port is closed, also those without a connection; the host loads the NPU and
\* knows of no link.
NpuReset(n) ==
    LET closed == {t \in TrunksOf(n) : connFd[t] = ncbFd[t] \/ ncbState[t] = "Busy"}
    IN  /\ resets < MaxResets /\ resets' = resets + 1
        /\ ready' = [ready EXCEPT ![n] = FALSE]
        /\ tcp' = [c \in Conns |-> IF \E t \in TrunksOf(n) : connFd[t] = c
                                   THEN WithoutEnd(tcp[c], EndAt(c, n)) ELSE tcp[c]]
        /\ connFd' = [t \in Trunks |-> IF Node(t) = n THEN NoFd ELSE connFd[t]]
        /\ lip' = [t \in Trunks |-> IF Node(t) = n THEN "Disconnected" ELSE lip[t]]
        /\ staged' = [t \in Trunks |-> IF Node(t) = n THEN 0 ELSE staged[t]]
        /\ ncbState' = [t \in Trunks |-> IF t \in closed THEN "Init" ELSE ncbState[t]]
        /\ ncbFd' = [t \in Trunks |-> IF t \in closed /\ connFd[t] = ncbFd[t] /\ ncbFd[t] # NoFd
                                      THEN StaleFd ELSE ncbFd[t]]
        /\ hostLink' = [t \in Trunks |-> IF Node(t) = n THEN "down" ELSE hostLink[t]]
        /\ misled' = misled \ TrunksOf(n)

Supervised(n) == /\ ~ready[n] /\ ready' = [ready EXCEPT ![n] = TRUE]
                 /\ UNCHANGED <<tcp, portVars, ncbVars, hostVars, resets>>

CreateConnections(t) == Dial(t) \/ DialFails(t) \/ DialSucceeds(t)

ProcessConnectRequest(t) ==
    \E u \in {Peer(tcp[c].trunk) : c \in Conns \cap {connFd[t]}} :
        RefuseRequest(t, u) \/ AcceptRequest(t, u) \/ AcceptRequestInVain(t, u)

ProcessConnectResponse(t) == LinkAccepted(t) \/ LinkRefused(t)

ProcessUplineData(t) == \/ ProcessConnectRequest(t) \/ ProcessConnectResponse(t)
                        \/ StageText(t) \/ OverflowStaging(t)

TryOutput(t) == Timeout(t) \/ SendConnectRequest(t)

CheckStatus(t) == NotifyNetDisconnect(t) \/ ProcessUplineData(t) \/ TryOutput(t)

Next == \/ \E c \in Conns : Establish(c) \/ Break(c) \/ AcceptConnection(c)
        \/ \E c \in Conns : Call(c) \/ HangUp(c)
        \/ \E t \in Trunks : CreateConnections(t) \/ CheckStatus(t)
        \/ \E n \in Nodes : NpuReset(n) \/ Supervised(n)

Spec == Init /\ [][Next]_vars

\* What a poll of the port does, that of what has come included.  No end is bound to send
\* more than the handshake: no stranger its text, no peer its blocks.
Poll(t) == \/ NotifyNetDisconnect(t) \/ TryOutput(t)
           \/ connFd[t] # NoFd /\ HasInput(t) /\ ProcessUplineData(t)

\* Each port is polled again and again, the network thread looks at every connection it
\* waits for, and the host supervises the NPU.
FairSpec ==
    /\ Spec
    /\ \A n \in Nodes : WF_vars(Supervised(n))
    /\ \A c \in Conns : WF_vars(Establish(c)) /\ WF_vars(AcceptConnection(c))
    /\ \A t \in Trunks : WF_vars(CreateConnections(t)) /\ WF_vars(Poll(t))

-----------------------------------------------------------------------------
(* Properties.                                                             *)

Connections == [trunk : Dialling \cup Strangers \cup {<<>>},
                phase : {"unused", "dialling", "established", "accepted", "broken"},
                request : BOOLEAN, response : {"none", "200", "3xx"},
                ends : SUBSET {"dialler", "acceptor"}]

\* The type invariant.
TypeOK ==
    /\ tcp \in [Conns -> Connections]
    /\ connFd \in [Trunks -> Conns \cup {NoFd}]
    /\ lip \in [Trunks -> LipStates] /\ staged \in [Trunks -> 0 .. MaxStaged]
    /\ ncbState \in [Trunks -> NcbStates]
    /\ ncbFd \in [Trunks -> Conns \cup {NoFd, StaleFd, LostFd}]
    /\ \A t \in Trunks : ncbState[t] = "Connecting" => ncbFd[t] \in Conns
    /\ hostLink \in [Trunks -> {"up", "down"}] /\ misled \subseteq Trunks
    /\ ready \in [Nodes -> BOOLEAN] /\ resets \in 0 .. MaxResets

\* The host's last news of a link is right: it is up when blocks can be sent and received
\* on it, although a connection may be moved to another port, refused, timed out or reset
\* on the way.  Excepted is a host that was told of a link before the response to the peer
\* could not be sent (npu_lip.c:668).
HostKnowsLink ==
    \A t \in Trunks \ misled : hostLink[t] = "up" <=> lip[t] = "RcvBlock"

\* A link has a connection between its two nodes to itself, open at its own end.  Unless
\* the other end is closed, the peer's port has the same one and is up too, or it is the
\* dialler's: then it may have yet to recognise the response, or have lost it when its
\* staging buffer overflowed.  However many connections both have dialled, a trunk is one
\* link.
LinkOwnsConnection ==
    \A t \in Trunks : lip[t] = "RcvBlock" =>
        /\ connFd[t] # NoFd
        /\ tcp[connFd[t]].trunk \in {t, Peer(t)} /\ EndOf(t) \in tcp[connFd[t]].ends
        /\ \A u \in TrunksOf(Node(t)) \ {t} : connFd[u] # connFd[t]
        /\ PeerIsOpen(t) =>
             /\ connFd[Peer(t)] = connFd[t]
             /\ \/ lip[Peer(t)] = "RcvBlock"
                \/ EndOf(t) = "acceptor" /\ lip[Peer(t)] \in {"RcvConnResp", "Disconnected"}

\* A port disconnected by an overflow, but not closed.
Overflowed(t) == connFd[t] # NoFd /\ lip[t] = "Disconnected"

\* A port taken by a connection that is no link, and not for the other end to let go.
IsTaken(t) == \/ connFd[t] # NoFd /\ lip[t] \in {"RcvConnReq", "RcvConnResp", "SndConnReq"}
              \/ Overflowed(t) /\ ~PeerIsOpen(t)

\* Every handshake ends, also with a peer that keeps the port from its time-out by sending
\* pieces of text, blocks or pings: with a link, closed, or disconnected by an overflow of
\* the staging buffer.  In the last case the port is free when the other end has closed.
HandshakeEnds == \A t \in Trunks : IsTaken(t) ~> ~IsTaken(t)

LinkIsUp(t) == lip[t] = "RcvBlock" /\ lip[Peer(t)] = "RcvBlock"
StillDials(t) == t \in Dialling /\ ncbState[t] # "Connected"

\* A port times out although the other end has yet to see, send or read something.
TimesOutEarly(t) ==
    /\ Timeout(t)
    /\ LET c == connFd[t]
           d == tcp[c].trunk
       IN  IF EndOf(t) = "acceptor"
           THEN /\ d \in Trunks
                /\ \/ ncbState[d] = "Connecting" /\ ncbFd[d] = c
                   \/ connFd[d] = c /\ lip[d] = "SndConnReq"
           ELSE \/ tcp[c].phase = "established"
                \/ \E u \in Trunks : connFd[u] = c /\ lip[u] = "RcvConnReq"

\* From some time on the network is quick: no dial fails, no handshake times out while
\* both ends take part in it, no response comes with a block that keeps it from being
\* recognised, no stranger calls, and no port is left that is disconnected but not closed.
NetworkIsQuick ==
    /\ <>[][/\ \A t \in Trunks : ~DialFails(t) /\ ~TimesOutEarly(t) /\ ~StageText(t)
            /\ \A c \in Conns : ~Call(c)]_vars
    /\ <>[](\A t \in Trunks : ~Overflowed(t))

\* From some time on an end does not dial while the other's connection is there.
NoMoreCrossing ==
    <>[][\A t \in Trunks : Dial(t) => \A c \in Conns : tcp[c].trunk # Peer(t)]_vars

\* A link comes up, again and again, as long as an end still dials and dials do not cross
\* for ever: a port busy with another connection, a refusal, a reset, a lost connection or
\* a descriptor the NCB still remembers delays it, but not for ever.
LinkReturns ==
    NetworkIsQuick /\ NoMoreCrossing =>
        \A t \in Dialling : []<>LinkIsUp(t) \/ <>[](~StillDials(t) /\ ~StillDials(Peer(t)))

\* "Listen for trunk connection requests on TCP port 2550, and attempt to make connection
\* requests to another NOS system" (cyber.ini:123): a link comes up, again and again, between
\* two systems that dial each other, while the network is quick.
LinkComesUp == NetworkIsQuick => \A t \in Dialling : []<>LinkIsUp(t)

=============================================================================
