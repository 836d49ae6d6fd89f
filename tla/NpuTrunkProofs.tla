--------------------------- MODULE NpuTrunkProofs ---------------------------
(***************************************************************************)
(* Proofs about NpuTrunk, for any trunks between any systems, any number   *)
(* of connections, pieces of text and resets, and any systems that other   *)
(* programs call: its types, that a host's last news of a link is right,   *)
(* and that a link has its connection to itself.                           *)
(***************************************************************************)
EXTENDS NpuTrunk, TLAPS

USE TrunksAssumption, DiallingAssumption, CalledAssumption, BoundsAssumption
    DEF Conns, NoFd, StaleFd, LostFd, LipStates, NcbStates

\* A port in the middle of a link has a connection: nothing new is put on it.
LinkHasConnection == \A t \in Trunks : lip[t] = "RcvBlock" => connFd[t] # NoFd

IInv == TypeOK /\ LinkHasConnection /\ HostKnowsLink

-----------------------------------------------------------------------------
(* The definitions the actions are built from.                             *)

\* A connection with an end closed is one.
LEMMA WithoutEndIsConnection ==
    ASSUME NEW conn \in Connections, NEW end
    PROVE  WithoutEnd(conn, end) \in Connections
  BY DEF WithoutEnd, Connections, Unused

\* So is one that is accepted, or on which something is sent or read.
LEMMA UpdatesAreConnections ==
    ASSUME NEW conn \in Connections, NEW b \in BOOLEAN, NEW r \in {"none", "200", "3xx"}
    PROVE  /\ [conn EXCEPT !.phase = "accepted"] \in Connections
           /\ [conn EXCEPT !.phase = "broken"] \in Connections
           /\ [conn EXCEPT !.phase = "established", !.ends = {"dialler", "acceptor"}]
                 \in Connections
           /\ [conn EXCEPT !.request = b] \in Connections
           /\ [conn EXCEPT !.response = r] \in Connections
           /\ [conn EXCEPT !.request = b, !.response = r] \in Connections
  BY DEF Connections

\* What is remembered of a descriptor is one, or a mark that there is none.
LEMMA RememberedIsFd ==
    ASSUME TypeOK, NEW t \in Trunks
    PROVE  /\ Forgotten(t) \in Conns \cup {NoFd, StaleFd, LostFd}
           /\ \A c \in Conns : Remembered(t, c) \subseteq Conns \cup {NoFd, StaleFd, LostFd}
  BY DEF TypeOK, Forgotten, Remembered

\* Closing the connection of a port keeps the types, and leaves other ports alone.
LEMMA CloseKeeps ==
    ASSUME TypeOK, NEW t \in Trunks, connFd[t] # NoFd,
           NEW before \in [Conns -> Connections], CloseConnection(t, before)
    PROVE  /\ tcp' \in [Conns -> Connections]
           /\ connFd' = [connFd EXCEPT ![t] = NoFd] /\ connFd' \in [Trunks -> Conns \cup {NoFd}]
           /\ lip' = [lip EXCEPT ![t] = "Disconnected"] /\ lip' \in [Trunks -> LipStates]
           /\ staged' \in [Trunks -> 0 .. MaxStaged]
           /\ ncbState' \in [Trunks -> NcbStates]
           /\ ncbFd' \in [Trunks -> Conns \cup {NoFd, StaleFd, LostFd}]
           /\ \A u \in Trunks : ncbState'[u] = "Connecting" => ncbFd'[u] \in Conns
<1>1. tcp' \in [Conns -> Connections]
  BY WithoutEndIsConnection DEF CloseConnection, TypeOK
<1>2. /\ connFd' = [connFd EXCEPT ![t] = NoFd]
      /\ lip' = [lip EXCEPT ![t] = "Disconnected"]
  BY DEF CloseConnection
<1>3. /\ connFd' \in [Trunks -> Conns \cup {NoFd}] /\ lip' \in [Trunks -> LipStates]
      /\ staged' \in [Trunks -> 0 .. MaxStaged]
  BY <1>2 DEF TypeOK, CloseConnection
<1>4. /\ ncbState' \in [Trunks -> NcbStates]
      /\ ncbFd' \in [Trunks -> Conns \cup {NoFd, StaleFd, LostFd}]
  BY DEF CloseConnection, TypeOK
<1>5. ASSUME NEW u \in Trunks, ncbState'[u] = "Connecting"
      PROVE  ncbFd'[u] \in Conns
  BY <1>5 DEF CloseConnection, TypeOK
<1> QED BY <1>1, <1>2, <1>3, <1>4, <1>5

-----------------------------------------------------------------------------
(* The steps.                                                              *)

\* TCP changes nothing but its connections.
LEMMA TcpKeeps ==
    ASSUME IInv, NEW c \in Conns, Establish(c) \/ Break(c) \/ Call(c) \/ HangUp(c)
    PROVE  IInv'
<1>1. UNCHANGED <<portVars, ncbVars, hostVars, npuVars>>
  BY DEF Establish, Break, Call, HangUp
<1>2. tcp[c] \in Connections
  BY DEF IInv, TypeOK
<1>3. tcp' \in [Conns -> Connections]
  <2>1. CASE Establish(c) \/ Break(c)
    <3>1. \/ tcp' = [tcp EXCEPT ![c] = [@ EXCEPT !.phase = "established",
                                                !.ends = {"dialler", "acceptor"}]]
          \/ tcp' = [tcp EXCEPT ![c] = [@ EXCEPT !.phase = "broken"]]
      BY <1>2, <2>1 DEF IInv, TypeOK, Establish, Break
    <3>2. PICK conn \in Connections : tcp' = [tcp EXCEPT ![c] = conn]
      BY <1>2, <3>1, UpdatesAreConnections
    <3> QED BY <3>2 DEF IInv, TypeOK
  <2>2. CASE Call(c)
    <3>1. PICK s \in Strangers :
            tcp' = [tcp EXCEPT ![c] = [Unused EXCEPT !.trunk = s, !.phase = "established",
                                                     !.ends = {"dialler", "acceptor"}]]
      BY <2>2 DEF Call
    <3>2. [Unused EXCEPT !.trunk = s, !.phase = "established",
                         !.ends = {"dialler", "acceptor"}] \in Connections
      BY DEF Connections, Unused
    <3> QED BY <3>1, <3>2 DEF IInv, TypeOK
  <2>3. CASE HangUp(c)
    BY <1>2, <2>3, WithoutEndIsConnection DEF HangUp, IInv, TypeOK
  <2> QED BY <2>1, <2>2, <2>3
<1> QED BY <1>1, <1>3 DEF IInv, TypeOK, LinkHasConnection, HostKnowsLink,
                          portVars, ncbVars, hostVars, npuVars

LEMMA DialKeeps ==
    ASSUME IInv, NEW t \in Trunks, Dial(t)
    PROVE  IInv'
<1>1. UNCHANGED <<portVars, hostVars, npuVars>>
  BY DEF Dial
<1>2. PICK c \in Reusable :
        /\ tcp' = [tcp EXCEPT ![c] = [Unused EXCEPT !.trunk = t, !.phase = "dialling",
                                                    !.ends = {"dialler"}]]
        /\ ncbFd' = [ncbFd EXCEPT ![t] = c]
  BY DEF Dial
<1>3. c \in Conns /\ t \in Dialling /\ ncbState' = [ncbState EXCEPT ![t] = "Connecting"]
  BY DEF Dial, Reusable
<1>4. tcp' \in [Conns -> Connections]
  BY <1>2, <1>3 DEF IInv, TypeOK, Connections, Unused
<1>5. /\ ncbState' \in [Trunks -> NcbStates]
      /\ ncbFd' \in [Trunks -> Conns \cup {NoFd, StaleFd, LostFd}]
      /\ \A u \in Trunks : ncbState'[u] = "Connecting" => ncbFd'[u] \in Conns
  BY <1>2, <1>3 DEF IInv, TypeOK
<1> QED BY <1>1, <1>4, <1>5 DEF IInv, TypeOK, LinkHasConnection, HostKnowsLink,
                               portVars, hostVars, npuVars

LEMMA DialFailsKeeps ==
    ASSUME IInv, NEW t \in Trunks, DialFails(t)
    PROVE  IInv'
<1>1. UNCHANGED <<portVars, hostVars, npuVars>>
  BY DEF DialFails
<1>2. tcp' \in [Conns -> Connections]
  BY DEF IInv, TypeOK, Connections, Unused, DialFails
<1>3. /\ ncbState' \in [Trunks -> NcbStates]
      /\ ncbFd' \in [Trunks -> Conns \cup {NoFd, StaleFd, LostFd}]
      /\ \A u \in Trunks : ncbState'[u] = "Connecting" => ncbFd'[u] \in Conns
  BY DEF IInv, TypeOK, DialFails
<1> QED BY <1>1, <1>2, <1>3 DEF IInv, TypeOK, LinkHasConnection, HostKnowsLink,
                                portVars, hostVars, npuVars

\* A port that gets a connection has none, and so no link.
LEMMA DialSucceedsKeeps ==
    ASSUME IInv, NEW t \in Trunks, DialSucceeds(t)
    PROVE  IInv'
<1>1. UNCHANGED <<hostVars, npuVars>> /\ ncbFd[t] \in Conns
  BY DEF DialSucceeds, IInv, TypeOK
<1>2. CASE /\ connFd[t] = NoFd
           /\ NotifyNetConnect(t, ncbFd[t], "SndConnReq")
           /\ ncbState' = [ncbState EXCEPT ![t] = "Connected"]
           /\ UNCHANGED <<tcp, ncbFd>>
  <2>3. 0 \in 0 .. MaxStaged
    OBVIOUS
  <2>1. TypeOK'
    BY <1>1, <1>2, <2>3 DEF IInv, TypeOK, NotifyNetConnect, hostVars, npuVars
  <2>2. LinkHasConnection' /\ HostKnowsLink'
    BY <1>1, <1>2 DEF IInv, TypeOK, LinkHasConnection, HostKnowsLink, NotifyNetConnect, hostVars
  <2> QED BY <2>1, <2>2 DEF IInv
<1>3. CASE /\ connFd[t] # NoFd
           /\ tcp' = [tcp EXCEPT ![ncbFd[t]] = WithoutEnd(@, "dialler")]
           /\ ncbFd' = [ncbFd EXCEPT ![t] = NoFd]
           /\ ncbState' = [ncbState EXCEPT ![t] = "Busy"]
           /\ UNCHANGED portVars
  <2>1. tcp' \in [Conns -> Connections]
    BY <1>3, WithoutEndIsConnection DEF IInv, TypeOK
  <2>2. /\ ncbState' \in [Trunks -> NcbStates]
        /\ ncbFd' \in [Trunks -> Conns \cup {NoFd, StaleFd, LostFd}]
        /\ \A u \in Trunks : ncbState'[u] = "Connecting" => ncbFd'[u] \in Conns
    BY <1>3 DEF IInv, TypeOK
  <2> QED BY <1>1, <1>3, <2>1, <2>2 DEF IInv, TypeOK, LinkHasConnection, HostKnowsLink,
                                        portVars, hostVars, npuVars
<1> QED BY <1>2, <1>3 DEF DialSucceeds

LEMMA AcceptConnectionKeeps ==
    ASSUME IInv, NEW c \in Conns, AcceptConnection(c)
    PROVE  IInv'
<1> DEFINE n == tcp[c].trunk[2]
           free == {t \in TrunksOf(n) : connFd[t] = NoFd}
<1>1. UNCHANGED <<hostVars, npuVars>>
  BY DEF AcceptConnection
<1>2. CASE /\ tcp' = [tcp EXCEPT ![c].phase = "accepted"]
           /\ \E t \in First(free) :
                   /\ NotifyNetConnect(t, c, "RcvConnReq")
                   /\ ncbState' = [ncbState EXCEPT ![t] = "Connected"]
                   /\ \E fd \in Remembered(t, c) : ncbFd' = [ncbFd EXCEPT ![t] = fd]
  <2>1. PICK t \in First(free) :
                   /\ NotifyNetConnect(t, c, "RcvConnReq")
                   /\ ncbState' = [ncbState EXCEPT ![t] = "Connected"]
                   /\ \E fd \in Remembered(t, c) : ncbFd' = [ncbFd EXCEPT ![t] = fd]
    BY <1>2
  <2>2. t \in Trunks /\ connFd[t] = NoFd
    BY DEF First, TrunksOf
  <2>3. PICK fd \in Conns \cup {NoFd, StaleFd, LostFd} : ncbFd' = [ncbFd EXCEPT ![t] = fd]
    BY <2>1, <2>2, RememberedIsFd DEF IInv
  <2>8. [tcp[c] EXCEPT !.phase = "accepted"] \in Connections
    BY UpdatesAreConnections DEF IInv, TypeOK
  <2>4. tcp' \in [Conns -> Connections]
    BY <1>2, <2>8 DEF IInv, TypeOK
  <2>7. /\ ncbState' \in [Trunks -> NcbStates]
        /\ ncbFd' \in [Trunks -> Conns \cup {NoFd, StaleFd, LostFd}]
        /\ \A u \in Trunks : ncbState'[u] = "Connecting" => ncbFd'[u] \in Conns
    BY <2>1, <2>2, <2>3 DEF IInv, TypeOK
  <2>5. TypeOK'
    <3>1. /\ connFd' \in [Trunks -> Conns \cup {NoFd}] /\ lip' \in [Trunks -> LipStates]
          /\ staged' \in [Trunks -> 0 .. MaxStaged]
      BY <2>1, <2>2 DEF IInv, TypeOK, NotifyNetConnect
    <3> QED BY <1>1, <2>4, <2>7, <3>1 DEF IInv, TypeOK, hostVars, npuVars
  <2>6. LinkHasConnection' /\ HostKnowsLink'
    BY <1>1, <2>1, <2>2 DEF IInv, TypeOK, LinkHasConnection, HostKnowsLink, NotifyNetConnect, hostVars
  <2> QED BY <2>5, <2>6 DEF IInv
<1>3. CASE /\ tcp' = [tcp EXCEPT ![c] = WithoutEnd([@ EXCEPT !.phase = "accepted"],
                                                   "acceptor")]
           /\ \E listener \in First(TrunksOf(n)) :
                   /\ ncbState' = [ncbState EXCEPT ![listener] = "Init"]
                   /\ ncbFd' = [ncbFd EXCEPT ![listener] = Forgotten(listener)]
           /\ UNCHANGED portVars
  <2>1. PICK listener \in First(TrunksOf(n)) :
                   /\ ncbState' = [ncbState EXCEPT ![listener] = "Init"]
                   /\ ncbFd' = [ncbFd EXCEPT ![listener] = Forgotten(listener)]
    BY <1>3
  <2>2. listener \in Trunks
    BY DEF First, TrunksOf
  <2>3. Forgotten(listener) \in Conns \cup {NoFd, StaleFd, LostFd}
    BY <2>2, RememberedIsFd DEF IInv
  <2>4. [tcp[c] EXCEPT !.phase = "accepted"] \in Connections
    BY UpdatesAreConnections DEF IInv, TypeOK
  <2>5. tcp' \in [Conns -> Connections]
    BY <1>3, <2>4, WithoutEndIsConnection DEF IInv, TypeOK
  <2>6. /\ ncbState' \in [Trunks -> NcbStates]
        /\ ncbFd' \in [Trunks -> Conns \cup {NoFd, StaleFd, LostFd}]
        /\ \A u \in Trunks : ncbState'[u] = "Connecting" => ncbFd'[u] \in Conns
    BY <2>1, <2>2, <2>3 DEF IInv, TypeOK
  <2> QED BY <1>1, <1>3, <2>5, <2>6 DEF IInv, TypeOK, LinkHasConnection, HostKnowsLink,
                                        portVars, hostVars, npuVars
<1> QED BY <1>2, <1>3 DEF AcceptConnection

\* Closing a port that is not in a link.
LEMMA CloseOtherKeeps ==
    ASSUME IInv, NEW t \in Trunks, connFd[t] # NoFd, lip[t] # "RcvBlock",
           NEW before \in [Conns -> Connections], CloseConnection(t, before),
           UNCHANGED <<hostVars, npuVars>>
    PROVE  IInv'
<1>1. TypeOK'
  BY CloseKeeps DEF IInv, TypeOK, hostVars, npuVars
<1>2. /\ connFd' = [connFd EXCEPT ![t] = NoFd] /\ lip' = [lip EXCEPT ![t] = "Disconnected"]
      /\ UNCHANGED <<hostLink, misled>>
  BY CloseKeeps DEF IInv, hostVars
<1>3. LinkHasConnection' /\ HostKnowsLink'
  BY <1>2 DEF IInv, TypeOK, LinkHasConnection, HostKnowsLink
<1> QED BY <1>1, <1>3 DEF IInv

\* A link that is gone is one the host is told of.
LEMMA NotifyNetDisconnectKeeps ==
    ASSUME IInv, NEW t \in Trunks, NotifyNetDisconnect(t)
    PROVE  IInv'
<1>1. CloseConnection(t, tcp) /\ connFd[t] # NoFd /\ UNCHANGED npuVars
      /\ tcp \in [Conns -> Connections]
  BY DEF NotifyNetDisconnect, IInv, TypeOK
<1>2. CASE lip[t] = "RcvBlock" /\ TellHost(t, "down")
  <2>1. TypeOK'
    BY <1>1, <1>2, CloseKeeps DEF IInv, TypeOK, TellHost, npuVars
  <2>2. /\ connFd' = [connFd EXCEPT ![t] = NoFd]
        /\ lip' = [lip EXCEPT ![t] = "Disconnected"]
    BY <1>1, CloseKeeps DEF IInv
  <2>3. LinkHasConnection' /\ HostKnowsLink'
    BY <1>2, <2>2 DEF IInv, TypeOK, LinkHasConnection, HostKnowsLink, TellHost
  <2> QED BY <2>1, <2>3 DEF IInv
<1>3. CASE lip[t] # "RcvBlock" /\ UNCHANGED hostVars
  BY <1>1, <1>3, CloseOtherKeeps
<1> QED BY <1>2, <1>3 DEF NotifyNetDisconnect

LEMMA TimeoutKeeps ==
    ASSUME IInv, NEW t \in Trunks, Timeout(t)
    PROVE  IInv'
  BY CloseOtherKeeps DEF Timeout, IInv, TypeOK

LEMMA SendConnectRequestKeeps ==
    ASSUME IInv, NEW t \in Trunks, SendConnectRequest(t)
    PROVE  IInv'
<1>1. connFd[t] \in Conns /\ lip[t] = "SndConnReq" /\ UNCHANGED <<hostVars, npuVars>>
  BY DEF SendConnectRequest, IInv, TypeOK
<1>2. CASE /\ tcp' = [tcp EXCEPT ![connFd[t]].request = PeerIsOpen(t)]
           /\ lip' = [lip EXCEPT ![t] = "RcvConnResp"]
           /\ UNCHANGED <<connFd, staged, ncbVars>>
  <2>1. PeerIsOpen(t) \in BOOLEAN
    BY DEF PeerIsOpen
  <2>2. [tcp[connFd[t]] EXCEPT !.request = PeerIsOpen(t)] \in Connections
    BY <1>1, <2>1, UpdatesAreConnections DEF IInv, TypeOK
  <2>3. tcp' \in [Conns -> Connections]
    BY <1>1, <1>2, <2>2 DEF IInv, TypeOK
  <2>4. TypeOK'
    BY <1>1, <1>2, <2>3 DEF IInv, TypeOK, ncbVars, hostVars, npuVars
  <2>5. LinkHasConnection' /\ HostKnowsLink'
    BY <1>1, <1>2 DEF IInv, TypeOK, LinkHasConnection, HostKnowsLink, hostVars
  <2> QED BY <2>4, <2>5 DEF IInv
<1>3. CASE CloseConnection(t, tcp)
  <2>1. tcp \in [Conns -> Connections] /\ connFd[t] # NoFd /\ lip[t] # "RcvBlock"
    BY <1>1 DEF IInv, TypeOK
  <2> QED BY <1>1, <1>3, <2>1, CloseOtherKeeps
<1> QED BY <1>2, <1>3 DEF SendConnectRequest

\* An answer to a request keeps the types.
LEMMA AnsweredIsConnections ==
    ASSUME IInv, NEW t \in Trunks, connFd[t] # NoFd, NEW answer \in {"200", "3xx"}
    PROVE  Answered(t, answer) \in [Conns -> Connections]
<1>1. connFd[t] \in Conns /\ tcp \in [Conns -> Connections]
  BY DEF IInv, TypeOK
<1> DEFINE response == IF PeerIsOpen(t) THEN answer ELSE "none"
<1>2. response \in {"none", "200", "3xx"}
  OBVIOUS
<1>3. [tcp[connFd[t]] EXCEPT !.request = FALSE, !.response = response] \in Connections
  BY <1>1, <1>2, UpdatesAreConnections
<1>4. Answered(t, answer) = [tcp EXCEPT ![connFd[t]] =
          [tcp[connFd[t]] EXCEPT !.request = FALSE, !.response = response]]
  BY <1>1 DEF Answered
<1> QED BY <1>1, <1>3, <1>4

LEMMA RefuseRequestKeeps ==
    ASSUME IInv, NEW t \in Trunks, NEW u, RefuseRequest(t, u)
    PROVE  IInv'
<1>1. connFd[t] # NoFd /\ lip[t] = "RcvConnReq"
  BY DEF RefuseRequest, Requested
<1> QED BY <1>1, AnsweredIsConnections, CloseOtherKeeps DEF RefuseRequest

\* The connection moves to the port of its trunk, and the host is told of that one.
LEMMA AcceptRequestKeeps ==
    ASSUME IInv, NEW t \in Trunks, NEW u, AcceptRequest(t, u)
    PROVE  IInv'
<1>1. /\ connFd[t] \in Conns /\ lip[t] = "RcvConnReq" /\ u \in Trunks
      /\ UNCHANGED npuVars
  BY DEF AcceptRequest, Requested, Acceptable, IInv, TypeOK
<1>2. tcp' \in [Conns -> Connections]
  BY <1>1, AnsweredIsConnections DEF AcceptRequest
<1>3. /\ connFd' = [connFd EXCEPT ![t] = NoFd, ![u] = connFd[t]]
      /\ lip' = [lip EXCEPT ![u] = "RcvBlock"] /\ staged' = [staged EXCEPT ![u] = 0]
      /\ ncbState' = [ncbState EXCEPT ![u] = "Connected"]
      /\ hostLink' = [hostLink EXCEPT ![u] = "up"] /\ misled' = misled \ {u}
  BY DEF AcceptRequest, TellHost
<1>4. PICK fd \in Conns \cup {NoFd, StaleFd, LostFd} : ncbFd' = [ncbFd EXCEPT ![u] = fd]
  BY <1>1, RememberedIsFd DEF IInv, AcceptRequest
<1>5. /\ ncbState' \in [Trunks -> NcbStates]
      /\ ncbFd' \in [Trunks -> Conns \cup {NoFd, StaleFd, LostFd}]
      /\ \A v \in Trunks : ncbState'[v] = "Connecting" => ncbFd'[v] \in Conns
  BY <1>1, <1>3, <1>4 DEF IInv, TypeOK
<1>6. /\ connFd' \in [Trunks -> Conns \cup {NoFd}] /\ lip' \in [Trunks -> LipStates]
      /\ staged' \in [Trunks -> 0 .. MaxStaged]
      /\ hostLink' \in [Trunks -> {"up", "down"}] /\ misled' \subseteq Trunks
  <2>1. connFd' \in [Trunks -> Conns \cup {NoFd}] /\ lip' \in [Trunks -> LipStates]
    BY <1>1, <1>3 DEF IInv, TypeOK
  <2>2. staged' \in [Trunks -> 0 .. MaxStaged]
    BY <1>1, <1>3 DEF IInv, TypeOK
  <2> QED BY <1>1, <1>3, <2>1, <2>2 DEF IInv, TypeOK
<1>7. TypeOK'
  BY <1>1, <1>2, <1>5, <1>6 DEF IInv, TypeOK, npuVars
<1>8. ASSUME NEW v \in Trunks
      PROVE  /\ lip'[v] = "RcvBlock" => connFd'[v] # NoFd
             /\ v \notin misled' => (hostLink'[v] = "up" <=> lip'[v] = "RcvBlock")
  <2>1. CASE v = u
    BY <1>1, <1>3, <2>1 DEF IInv, TypeOK
  <2>2. CASE v # u
    BY <1>1, <1>3, <2>2 DEF IInv, TypeOK, LinkHasConnection, HostKnowsLink
  <2> QED BY <2>1, <2>2
<1> QED BY <1>7, <1>8 DEF IInv, LinkHasConnection, HostKnowsLink

LEMMA AcceptRequestInVainKeeps ==
    ASSUME IInv, NEW t \in Trunks, NEW u, AcceptRequestInVain(t, u)
    PROVE  IInv'
<1>1. /\ connFd[t] # NoFd /\ lip[t] = "RcvConnReq" /\ u \in Trunks
      /\ UNCHANGED npuVars /\ CloseConnection(t, Answered(t, "200"))
      /\ hostLink' = [hostLink EXCEPT ![u] = "up"] /\ misled' = misled \cup {u}
  BY DEF AcceptRequestInVain, Requested, Acceptable
<1>2. Answered(t, "200") \in [Conns -> Connections]
  BY <1>1, AnsweredIsConnections
<1>3. TypeOK'
  BY <1>1, <1>2, CloseKeeps DEF IInv, TypeOK, npuVars
<1>4. connFd' = [connFd EXCEPT ![t] = NoFd] /\ lip' = [lip EXCEPT ![t] = "Disconnected"]
  BY <1>1, <1>2, CloseKeeps DEF IInv
<1>5. LinkHasConnection' /\ HostKnowsLink'
  BY <1>1, <1>4 DEF IInv, TypeOK, LinkHasConnection, HostKnowsLink
<1> QED BY <1>3, <1>5 DEF IInv

\* What has been read from a connection keeps the types.
LEMMA EmptiedIsConnections ==
    ASSUME IInv, NEW t \in Trunks, connFd[t] # NoFd
    PROVE  Emptied(t) \in [Conns -> Connections]
<1>1. connFd[t] \in Conns /\ tcp \in [Conns -> Connections]
  BY DEF IInv, TypeOK
<1>2. [tcp[connFd[t]] EXCEPT !.request = FALSE, !.response = "none"] \in Connections
  BY <1>1, UpdatesAreConnections
<1>3. Emptied(t) = [tcp EXCEPT ![connFd[t]] =
                        [tcp[connFd[t]] EXCEPT !.request = FALSE, !.response = "none"]]
  BY <1>1 DEF Emptied
<1> QED BY <1>1, <1>2, <1>3

LEMMA ProcessTextKeeps ==
    ASSUME IInv, NEW t \in Trunks, LinkAccepted(t) \/ StageText(t) \/ OverflowStaging(t)
    PROVE  IInv'
<1>1. /\ connFd[t] # NoFd /\ lip[t] \in {"RcvConnReq", "RcvConnResp"} /\ tcp' = Emptied(t)
      /\ UNCHANGED <<connFd, ncbVars, npuVars>>
  BY DEF LinkAccepted, StageText, OverflowStaging, EndsInMidLine, Accepted, Responded, StrangersText
<1>2. tcp' \in [Conns -> Connections]
  BY <1>1, EmptiedIsConnections
<1>3. CASE LinkAccepted(t)
  <2>1. /\ lip' = [lip EXCEPT ![t] = "RcvBlock"] /\ staged' = [staged EXCEPT ![t] = 0]
        /\ TellHost(t, "up")
    BY <1>3 DEF LinkAccepted
  <2>2. TypeOK'
    BY <1>1, <1>2, <2>1 DEF IInv, TypeOK, TellHost, ncbVars, npuVars
  <2>3. LinkHasConnection' /\ HostKnowsLink'
    BY <1>1, <2>1 DEF IInv, TypeOK, LinkHasConnection, HostKnowsLink, TellHost
  <2> QED BY <2>2, <2>3 DEF IInv
<1>4. CASE StageText(t)
  <2>1. /\ staged[t] < MaxStaged /\ staged' = [staged EXCEPT ![t] = @ + 1]
        /\ UNCHANGED <<lip, hostVars>>
    BY <1>4 DEF StageText
  <2>2. staged' \in [Trunks -> 0 .. MaxStaged]
    BY <2>1 DEF IInv, TypeOK
  <2> QED BY <1>1, <1>2, <2>1, <2>2 DEF IInv, TypeOK, LinkHasConnection, HostKnowsLink,
                                        ncbVars, hostVars, npuVars
<1>5. CASE OverflowStaging(t)
  <2>1. /\ lip' = [lip EXCEPT ![t] = "Disconnected"] /\ staged' = [staged EXCEPT ![t] = 0]
        /\ UNCHANGED hostVars
    BY <1>5 DEF OverflowStaging
  <2>2. TypeOK'
    BY <1>1, <1>2, <2>1 DEF IInv, TypeOK, ncbVars, hostVars, npuVars
  <2>3. LinkHasConnection' /\ HostKnowsLink'
    BY <1>1, <2>1 DEF IInv, TypeOK, LinkHasConnection, HostKnowsLink, hostVars
  <2> QED BY <2>2, <2>3 DEF IInv
<1> QED BY <1>3, <1>4, <1>5

LEMMA LinkRefusedKeeps ==
    ASSUME IInv, NEW t \in Trunks, LinkRefused(t)
    PROVE  IInv'
<1> DEFINE read == [tcp EXCEPT ![connFd[t]].response = "none"]
<1>1. /\ connFd[t] \in Conns /\ lip[t] = "RcvConnResp" /\ CloseConnection(t, read)
      /\ UNCHANGED <<hostVars, npuVars>>
  BY DEF LinkRefused, Responded, IInv, TypeOK
<1>2. read \in [Conns -> Connections]
  <2>1. [tcp[connFd[t]] EXCEPT !.response = "none"] \in Connections
    BY <1>1, UpdatesAreConnections DEF IInv, TypeOK
  <2> QED BY <1>1, <2>1 DEF IInv, TypeOK
<1> HIDE DEF read
<1> QED BY <1>1, <1>2, CloseOtherKeeps

LEMMA NpuResetKeeps ==
    ASSUME IInv, NEW n \in Nodes, NpuReset(n)
    PROVE  IInv'
<1> DEFINE closed == {t \in TrunksOf(n) : connFd[t] = ncbFd[t] \/ ncbState[t] = "Busy"}
<1>1. tcp' \in [Conns -> Connections]
  BY WithoutEndIsConnection DEF NpuReset, IInv, TypeOK
<1>2. /\ connFd' = [t \in Trunks |-> IF Node(t) = n THEN NoFd ELSE connFd[t]]
      /\ lip' = [t \in Trunks |-> IF Node(t) = n THEN "Disconnected" ELSE lip[t]]
      /\ staged' = [t \in Trunks |-> IF Node(t) = n THEN 0 ELSE staged[t]]
      /\ hostLink' = [t \in Trunks |-> IF Node(t) = n THEN "down" ELSE hostLink[t]]
      /\ misled' = misled \ TrunksOf(n)
  BY DEF NpuReset
<1>3. /\ ncbState' = [t \in Trunks |-> IF t \in closed THEN "Init" ELSE ncbState[t]]
      /\ ncbFd' = [t \in Trunks |-> IF t \in closed /\ connFd[t] = ncbFd[t]
                                       /\ ncbFd[t] # NoFd
                                    THEN StaleFd ELSE ncbFd[t]]
  BY DEF NpuReset
<1>4. ready' \in [Nodes -> BOOLEAN] /\ resets' \in 0 .. MaxResets
  BY DEF NpuReset, IInv, TypeOK
<1>5. /\ connFd' \in [Trunks -> Conns \cup {NoFd}] /\ lip' \in [Trunks -> LipStates]
      /\ staged' \in [Trunks -> 0 .. MaxStaged]
      /\ hostLink' \in [Trunks -> {"up", "down"}] /\ misled' \subseteq Trunks
  BY <1>2 DEF IInv, TypeOK
<1> HIDE DEF closed
<1>6. /\ ncbState' \in [Trunks -> NcbStates]
      /\ ncbFd' \in [Trunks -> Conns \cup {NoFd, StaleFd, LostFd}]
      /\ \A v \in Trunks : ncbState'[v] = "Connecting" => ncbFd'[v] \in Conns
  BY <1>3 DEF IInv, TypeOK
<1>7. TypeOK'
  BY <1>1, <1>4, <1>5, <1>6 DEF TypeOK
<1>8. LinkHasConnection' /\ HostKnowsLink'
  BY <1>2 DEF IInv, TypeOK, LinkHasConnection, HostKnowsLink, TrunksOf
<1> QED BY <1>7, <1>8 DEF IInv

LEMMA SupervisedKeeps ==
    ASSUME IInv, NEW n \in Nodes, Supervised(n)
    PROVE  IInv'
  BY DEF Supervised, IInv, TypeOK, LinkHasConnection, HostKnowsLink, portVars, ncbVars, hostVars

-----------------------------------------------------------------------------
(* The theorems.                                                           *)

LEMMA InitIInv == Init => IInv
<1> SUFFICES ASSUME Init PROVE IInv
  OBVIOUS
<1>1. Unused \in Connections
  BY DEF Unused, Connections
<1> QED BY <1>1 DEF Init, IInv, TypeOK, LinkHasConnection, HostKnowsLink

LEMMA NextIInv == IInv /\ [Next]_vars => IInv'
<1> SUFFICES ASSUME IInv, [Next]_vars PROVE IInv'
  OBVIOUS
<1>1. CASE UNCHANGED vars
  BY <1>1 DEF IInv, TypeOK, LinkHasConnection, HostKnowsLink, vars,
              portVars, ncbVars, hostVars, npuVars
<1>2. ASSUME NEW c \in Conns,
             \/ Establish(c) \/ Break(c) \/ AcceptConnection(c) \/ Call(c) \/ HangUp(c)
      PROVE  IInv'
  BY <1>2, TcpKeeps, AcceptConnectionKeeps
<1>3. ASSUME NEW t \in Trunks, CreateConnections(t) PROVE IInv'
  BY <1>3, DialKeeps, DialFailsKeeps, DialSucceedsKeeps DEF CreateConnections
<1>4. ASSUME NEW t \in Trunks, CheckStatus(t) PROVE IInv'
  <2>1. CASE ProcessConnectRequest(t)
    BY <2>1, RefuseRequestKeeps, AcceptRequestKeeps, AcceptRequestInVainKeeps
       DEF ProcessConnectRequest
  <2>2. CASE TryOutput(t)
    BY <2>2, TimeoutKeeps, SendConnectRequestKeeps DEF TryOutput
  <2> QED BY <1>4, <2>1, <2>2, NotifyNetDisconnectKeeps, ProcessTextKeeps, LinkRefusedKeeps
          DEF CheckStatus, ProcessUplineData, ProcessConnectResponse
<1>5. CASE \E n \in Nodes : NpuReset(n) \/ Supervised(n)
  BY <1>5, NpuResetKeeps, SupervisedKeeps
<1> QED BY <1>1, <1>2, <1>3, <1>4, <1>5 DEF Next

LEMMA Invariance == Spec => []IInv
  BY InitIInv, NextIInv, PTL DEF Spec

\* The types of NpuTrunk, for any trunks, connections and resets (npu_lip.c, npu_net.c).
THEOREM TypeCorrect == Spec => []TypeOK
  BY Invariance, PTL DEF IInv

\* A host's last news of a link is right, whatever connections are dialled, accepted,
\* moved to another port, refused, lost or reset (npuLipActivateTrunk,
\* npuLipDeactivateTrunk); except the host that npu_lip.c:668 misled.
THEOREM HostKnowsItsLinks == Spec => []HostKnowsLink
  BY Invariance, PTL DEF IInv

-----------------------------------------------------------------------------
(* A link has its connection to itself.                                    *)

ConnectionOK(c) ==
    LET conn == tcp[c]
    IN  /\ conn.phase = "unused" => conn.ends = {}
        /\ conn.phase # "unused" => conn.trunk \in Dialling \cup Strangers
        /\ conn.phase = "dialling" =>
             conn.trunk \in Dialling /\ ~conn.request /\ conn.response = "none" /\ conn.ends \subseteq {"dialler"}
        /\ conn.phase = "established" => "acceptor" \in conn.ends

\* A port's connection is one of its node, at the end the handshake says.
PortOK(t) ==
    LET conn == tcp[connFd[t]]
    IN  connFd[t] # NoFd =>
        /\ conn.phase \notin {"unused", "dialling"} /\ EndOf(t) \in conn.ends
        /\ EndOf(t) = "dialler" => conn.trunk = t
        /\ EndOf(t) = "acceptor" => conn.trunk[2] = Node(t) /\ conn.phase # "established"
        /\ lip[t] = "RcvConnReq" => EndOf(t) = "acceptor"
        /\ lip[t] \in {"SndConnReq", "RcvConnResp"} => EndOf(t) = "dialler"
        /\ lip[t] = "RcvBlock" => conn.trunk \in {t, Peer(t)}
        /\ EndOf(t) = "acceptor" /\ staged[t] > 0 => conn.trunk \in Strangers

\* No two ports of a node have the same connection.
Alone == \A t, u \in Trunks :
            Node(t) = Node(u) /\ connFd[t] = connFd[u] /\ connFd[t] # NoFd => t = u

\* An NCB that is dialling has the dialler's end, and its port has not.
NcbOK(t) ==
    ncbState[t] = "Connecting" =>
        /\ tcp[ncbFd[t]].trunk = t /\ "dialler" \in tcp[ncbFd[t]].ends
        /\ connFd[t] # ncbFd[t]

LinkOf(t, c) == connFd[t] = c /\ lip[t] = "RcvBlock"

\* The dialler has read the peer's acceptance, or the beginning of it.
HasAnswer(d, c) == connFd[d] = c /\ (lip[d] = "RcvBlock" \/ staged[d] > 0)

\* Who has asked for the link waits for the answer, has it, or has lost it.
DiallerOK(c) ==
    LET d == tcp[c].trunk
    IN  /\ d \in Dialling /\ "dialler" \in tcp[c].ends
        /\ tcp[c].request \/ \E t \in Trunks : Node(t) # Node(d) /\ LinkOf(t, c)
        => connFd[d] = c /\ lip[d] \in {"RcvConnResp", "RcvBlock", "Disconnected"}

\* Who has accepted it is up.
AcceptorOK(c) ==
    LET d == tcp[c].trunk
    IN  /\ d \in Dialling /\ "acceptor" \in tcp[c].ends
        /\ tcp[c].response = "200" \/ HasAnswer(d, c)
        => LinkOf(Peer(d), c)

LInv == /\ IInv
        /\ \A c \in Conns : ConnectionOK(c) /\ DiallerOK(c) /\ AcceptorOK(c)
        /\ \A t \in Trunks : PortOK(t) /\ NcbOK(t)
        /\ Alone

LEMMA PeerOf ==
    ASSUME NEW d \in Dialling
    PROVE  /\ d \in Trunks /\ Peer(d) \in Trunks /\ Peer(Peer(d)) = d
           /\ Node(d) = d[1] /\ Node(Peer(d)) = d[2] /\ d[1] # d[2]
<1>1. d \in Trunks /\ <<d[2], d[1]>> \in Trunks
  OBVIOUS
<1>2. d = <<d[1], d[2]>> /\ d[1] # d[2]
  BY <1>1
<1> QED BY <1>1, <1>2 DEF Peer, Node

\* A stranger is at no node, and none of the trunks.
LEMMA StrangerOf ==
    ASSUME NEW s \in Strangers
    PROVE  /\ s \notin Trunks /\ s \notin Dialling /\ s[2] \in Nat
           /\ \A t \in Trunks : s[1] # Node(t) /\ Peer(s) # t
<1>1. PICK n \in Called : s = <<-1, n>>
  BY DEF Strangers
<1>2. \A t \in Trunks : t = <<t[1], t[2]>> /\ t[1] \in Nat /\ t[2] \in Nat
  OBVIOUS
<1>3. -1 \notin Nat /\ s[1] = -1 /\ s[2] = n /\ n \in Nat
  BY <1>1
<1>4. \A t \in Trunks : s[1] # Node(t) /\ Peer(s) # t
  BY <1>2, <1>3 DEF Node, Peer
<1> QED BY <1>2, <1>3, <1>4

LEMMA LTypes ==
    ASSUME LInv
    PROVE  /\ tcp \in [Conns -> Connections] /\ connFd \in [Trunks -> Conns \cup {NoFd}]
           /\ lip \in [Trunks -> LipStates] /\ staged \in [Trunks -> 0 .. MaxStaged]
           /\ ncbState \in [Trunks -> NcbStates]
           /\ ncbFd \in [Trunks -> Conns \cup {NoFd, StaleFd, LostFd}]
           /\ \A t \in Trunks : ncbState[t] = "Connecting" => ncbFd[t] \in Conns
           /\ \A t \in Trunks : connFd[t] # NoFd => connFd[t] \in Conns
  BY DEF LInv, IInv, TypeOK

\* Two ports with the same connection have its two ends; an NCB that dials has another.
LEMMA OneAtEachEnd ==
    ASSUME LInv, NEW t \in Trunks, NEW u \in Trunks, connFd[t] # NoFd
    PROVE  /\ connFd[u] = connFd[t] /\ EndOf(u) = EndOf(t) => u = t
           /\ ncbState[u] = "Connecting" /\ ncbFd[u] = connFd[t] => EndOf(t) = "acceptor"
<1>1. PortOK(t) /\ PortOK(u) /\ NcbOK(u)
  BY DEF LInv
<1>2. EndOf(t) \in {"dialler", "acceptor"}
  BY DEF EndOf, EndAt
<1>3. ASSUME connFd[u] = connFd[t], EndOf(u) = EndOf(t) PROVE u = t
  <2>1. CASE EndOf(t) = "dialler"
    BY <1>1, <1>3, <2>1 DEF PortOK
  <2>2. CASE EndOf(t) = "acceptor"
    BY <1>1, <1>3, <2>2 DEF PortOK, LInv, Alone
  <2> QED BY <1>2, <2>1, <2>2
<1>4. ASSUME ncbState[u] = "Connecting", ncbFd[u] = connFd[t] PROVE EndOf(t) = "acceptor"
  <2> SUFFICES ASSUME EndOf(t) = "dialler" PROVE FALSE
    BY <1>2
  <2> QED BY <1>1, <1>4 DEF PortOK, NcbOK
<1> QED BY <1>3, <1>4

-----------------------------------------------------------------------------
(* Ends that leave.                                                        *)

\* End e of connection c is closed.
Leaves(c, e) ==
    /\ e \in tcp[c].ends
    /\ \/ tcp'[c].ends = tcp[c].ends \ {e}
       \/ tcp'[c].ends = {} /\ tcp[c].trunk \in Strangers /\ e = "acceptor"
    /\ tcp'[c].ends # {} =>
         /\ tcp'[c].trunk = tcp[c].trunk /\ tcp[c].phase # "dialling"
         /\ \/ tcp'[c].phase = tcp[c].phase
            \/ tcp[c].phase = "established" /\ tcp'[c].phase = "accepted"
         /\ e = "acceptor" => tcp'[c].phase # "established"
    /\ tcp'[c].ends = {} => tcp'[c].phase = "unused"
    /\ tcp'[c].request => tcp[c].request /\ e = "dialler"
    /\ e = "dialler" => tcp'[c].response = "none"

LEMMA EndsLeave ==
    ASSUME LInv, IInv', NEW gone \in [Conns -> {"dialler", "acceptor", "none"}],
           \A c \in Conns : IF gone[c] = "none" THEN tcp'[c] = tcp[c] ELSE Leaves(c, gone[c]),
           \A t \in Trunks :
               IF connFd[t] # NoFd /\ gone[connFd[t]] = EndOf(t) THEN connFd'[t] = NoFd
               ELSE /\ connFd'[t] = connFd[t]
                    /\ connFd[t] # NoFd => lip'[t] = lip[t] /\ staged'[t] = staged[t],
           \A t \in Trunks : ncbState'[t] = "Connecting" =>
               /\ ncbState[t] = "Connecting" /\ ncbFd'[t] = ncbFd[t]
               /\ gone[ncbFd[t]] # "dialler"
    PROVE  LInv'
<1>1. \A t \in Trunks : connFd[t] # NoFd =>
          connFd[t] \in Conns /\ EndOf(t) \in {"dialler", "acceptor"}
  BY LTypes DEF EndOf, EndAt
<1>2. ASSUME NEW t \in Trunks, connFd'[t] # NoFd
      PROVE  /\ connFd'[t] = connFd[t] /\ lip'[t] = lip[t] /\ staged'[t] = staged[t]
             /\ gone[connFd[t]] # EndOf(t)
             /\ connFd[t] \in Conns /\ EndOf(t) \in tcp'[connFd[t]].ends
             /\ tcp'[connFd[t]].trunk = tcp[connFd[t]].trunk /\ EndOf(t)' = EndOf(t)
             /\ PortOK(t)'
  <2>1. /\ connFd'[t] = connFd[t] /\ lip'[t] = lip[t] /\ staged'[t] = staged[t]
        /\ gone[connFd[t]] # EndOf(t) /\ connFd[t] \in Conns
    BY <1>1, <1>2
  <2>2. PortOK(t)
    BY DEF LInv
  <2>3. EndOf(t) \in tcp[connFd[t]].ends
    BY <1>2, <2>1, <2>2 DEF PortOK
  <2>4. CASE gone[connFd[t]] = "none"
    <3>1. tcp'[connFd[t]] = tcp[connFd[t]]
      BY <2>1, <2>4
    <3>2. EndOf(t)' = EndOf(t)
      BY <2>1, <3>1 DEF EndOf, EndAt
    <3> QED BY <1>2, <2>1, <2>2, <2>3, <3>1, <3>2 DEF PortOK
  <2>5. CASE gone[connFd[t]] # "none"
    <3>1. Leaves(connFd[t], gone[connFd[t]])
      BY <2>1, <2>5
    <3>5. EndOf(t) = "dialler" => tcp[connFd[t]].trunk \notin Strangers
      BY <1>2, <2>1, <2>2, StrangerOf DEF PortOK
    <3>2. EndOf(t) \in tcp'[connFd[t]].ends
      BY <1>1, <1>2, <2>1, <2>3, <3>1, <3>5 DEF Leaves
    <3>3. /\ tcp'[connFd[t]].trunk = tcp[connFd[t]].trunk
          /\ \/ tcp'[connFd[t]].phase = tcp[connFd[t]].phase
             \/ /\ tcp[connFd[t]].phase = "established"
                /\ tcp'[connFd[t]].phase = "accepted"
      BY <3>1, <3>2 DEF Leaves
    <3>4. EndOf(t)' = EndOf(t)
      BY <2>1, <3>3 DEF EndOf, EndAt
    <3> QED BY <1>2, <2>1, <2>2, <3>2, <3>3, <3>4 DEF PortOK
  <2> QED BY <2>4, <2>5
<1>3. ASSUME NEW t \in Trunks PROVE PortOK(t)' /\ NcbOK(t)'
  <2>1. PortOK(t)'
    BY <1>2 DEF PortOK
  <2>2. ASSUME ncbState'[t] = "Connecting"
        PROVE  /\ tcp'[ncbFd'[t]].trunk = t /\ "dialler" \in tcp'[ncbFd'[t]].ends
               /\ connFd'[t] # ncbFd'[t]
    <3>1. /\ ncbState[t] = "Connecting" /\ ncbFd'[t] = ncbFd[t] /\ gone[ncbFd[t]] # "dialler"
          /\ ncbFd[t] \in Conns /\ NcbOK(t)
      BY <2>2, LTypes DEF LInv
    <3>3. tcp[ncbFd[t]].trunk \notin Strangers
      BY <2>2, <3>1, StrangerOf DEF NcbOK
    <3>2. PICK k \in Conns : k = ncbFd[t]
      BY <3>1
    <3>4. tcp[k].trunk = t /\ "dialler" \in tcp[k].ends /\ connFd[t] # k
      BY <3>1, <3>2 DEF NcbOK
    <3>5. "dialler" \in tcp'[k].ends /\ tcp'[k].trunk = t
      <4>1. CASE gone[k] = "none"
        BY <3>4, <4>1
      <4>2. CASE gone[k] = "acceptor"
        <5>1. Leaves(k, "acceptor")
          BY <4>2
        <5>2. tcp'[k].ends = tcp[k].ends \ {"acceptor"}
          BY <3>2, <3>3, <5>1 DEF Leaves
        <5>3. "dialler" \in tcp'[k].ends
          BY <3>4, <5>2
        <5> QED BY <3>4, <5>1, <5>3 DEF Leaves
      <4> QED BY <3>1, <3>2, <4>1, <4>2
    <3> QED BY <1>1, <3>1, <3>2, <3>4, <3>5
  <2> QED BY <2>1, <2>2 DEF NcbOK
<1>4. Alone'
  BY <1>2 DEF LInv, Alone
<1>5. ASSUME NEW c \in Conns PROVE ConnectionOK(c)' /\ DiallerOK(c)' /\ AcceptorOK(c)'
  <2>1. ConnectionOK(c) /\ DiallerOK(c) /\ AcceptorOK(c)
    BY DEF LInv
  <2>2. ConnectionOK(c)'
    <3>1. CASE gone[c] = "none"
      BY <2>1, <3>1 DEF ConnectionOK
    <3>2. CASE gone[c] # "none"
      BY <2>1, <3>2 DEF ConnectionOK, Leaves
    <3> QED BY <3>1, <3>2
  <2>3. DiallerOK(c)'
    <3> DEFINE d == tcp'[c].trunk
    <3> SUFFICES ASSUME d \in Dialling, "dialler" \in tcp'[c].ends,
                        \/ tcp'[c].request
                        \/ \E t \in Trunks : Node(t) # Node(d) /\ connFd'[t] = c
                                                /\ lip'[t] = "RcvBlock"
                 PROVE  connFd'[d] = c /\ lip'[d] \in {"RcvConnResp", "RcvBlock", "Disconnected"}
      BY DEF DiallerOK, LinkOf
    <3>1. /\ gone[c] # "dialler" /\ d = tcp[c].trunk /\ "dialler" \in tcp[c].ends
          /\ tcp'[c].request => tcp[c].request
      BY DEF Leaves
    <3>2. \A t \in Trunks : connFd'[t] = c => connFd[t] = c /\ lip'[t] = lip[t]
      BY <1>2
    <3>3. connFd[d] = c /\ lip[d] \in {"RcvConnResp", "RcvBlock", "Disconnected"}
      BY <2>1, <3>1, <3>2 DEF DiallerOK, LinkOf
    <3>4. d \in Trunks
      BY PeerOf
    <3>5. EndOf(d) = "dialler"
      BY <3>1, <3>3 DEF EndOf, EndAt, Node
    <3>6. PICK e \in Trunks : e = d
      BY <3>4
    <3>7. connFd[e] = c /\ connFd[e] # NoFd /\ gone[connFd[e]] # EndOf(e)
      BY <3>1, <3>3, <3>5, <3>6 DEF Conns, NoFd
    <3>8. connFd'[e] = c /\ lip'[e] = lip[e]
      BY <3>7
    <3> QED BY <3>3, <3>6, <3>8
  <2>4. AcceptorOK(c)'
    <3> DEFINE d == tcp'[c].trunk
    <3> SUFFICES ASSUME d \in Dialling, "acceptor" \in tcp'[c].ends,
                        \/ tcp'[c].response = "200"
                        \/ connFd'[d] = c /\ (lip'[d] = "RcvBlock" \/ staged'[d] > 0)
                 PROVE  connFd'[Peer(d)] = c /\ lip'[Peer(d)] = "RcvBlock"
      BY DEF AcceptorOK, LinkOf, HasAnswer
    <3>1. /\ gone[c] # "acceptor" /\ d = tcp[c].trunk /\ "acceptor" \in tcp[c].ends
          /\ gone[c] = "none" => tcp'[c].response = tcp[c].response
          /\ gone[c] = "dialler" => tcp'[c].response # "200"
      BY DEF Leaves
    <3>2. d \in Trunks /\ Peer(d) \in Trunks /\ Node(Peer(d)) = d[2] /\ d[1] # d[2]
      BY PeerOf
    <3>3. connFd'[d] = c => /\ connFd[d] = c /\ lip'[d] = lip[d] /\ staged'[d] = staged[d]
                            /\ gone[c] # "dialler"
      <4>1. connFd[d] = c => EndOf(d) = "dialler"
        BY <3>1 DEF EndOf, EndAt, Node
      <4> QED BY <1>2, <3>2, <4>1
    <3>4. connFd[Peer(d)] = c /\ lip[Peer(d)] = "RcvBlock"
      BY <2>1, <3>1, <3>3 DEF AcceptorOK, LinkOf, HasAnswer
    <3>5. EndOf(Peer(d)) = "acceptor"
      BY <3>1, <3>2, <3>4 DEF EndOf, EndAt
    <3>6. gone[c] # EndOf(Peer(d)) /\ Peer(d) \in Trunks /\ connFd[Peer(d)] # NoFd
      BY <3>1, <3>2, <3>4, <3>5
    <3>7. PICK u \in Trunks : u = Peer(d)
      BY <3>6
    <3>8. connFd'[u] = connFd[u] /\ lip'[u] = lip[u]
      BY <3>4, <3>6, <3>7
    <3> HIDE DEF d
    <3> QED BY <3>4, <3>7, <3>8
  <2> QED BY <2>2, <2>3, <2>4
<1> QED BY <1>3, <1>4, <1>5 DEF LInv

LEMMA WithoutEndLeaves ==
    ASSUME NEW conn \in Connections, NEW e \in {"dialler", "acceptor"}, e \in conn.ends
    PROVE  LET w == WithoutEnd(conn, e)
           IN  /\ \/ w.ends = conn.ends \ {e}
                  \/ w.ends = {} /\ conn.trunk \in Strangers /\ e = "acceptor"
               /\ w.ends # {} => w.trunk = conn.trunk /\ w.phase = conn.phase
               /\ w.ends = {} => w.phase = "unused"
               /\ w.request => conn.request /\ e = "dialler"
               /\ e = "dialler" => w.response = "none"
<1>1. CASE conn.ends \subseteq {e} \/ (conn.trunk \in Strangers /\ e = "acceptor")
  <2>1. conn.ends \subseteq {e} => conn.ends \ {e} = {}
    OBVIOUS
  <2> QED BY <1>1, <2>1 DEF WithoutEnd, Unused
<1>2. CASE ~(conn.ends \subseteq {e} \/ (conn.trunk \in Strangers /\ e = "acceptor"))
  <2>1. WithoutEnd(conn, e) = [conn EXCEPT !.ends = @ \ {e}, !.request = @ /\ e = "dialler",
                                      !.response = IF e = "dialler" THEN "none" ELSE @]
    BY <1>2 DEF WithoutEnd
  <2>2. conn.ends \ {e} # {}
    BY <1>2
  <2> QED BY <2>1, <2>2 DEF Connections
<1> QED BY <1>1, <1>2

\* A port's connection is closed.
LEMMA CloseLeaves ==
    ASSUME LInv, IInv', NEW t \in Trunks, connFd[t] # NoFd,
           NEW before \in [Conns -> Connections], CloseConnection(t, before),
           \A c \in Conns : /\ before[c].trunk = tcp[c].trunk /\ before[c].phase = tcp[c].phase
                            /\ before[c].ends = tcp[c].ends
                            /\ before[c].request => tcp[c].request
                            /\ c # connFd[t] => before[c] = tcp[c]
    PROVE  LInv'
<1> DEFINE k == connFd[t]
           e == EndOf(t)
           gone == [c \in Conns |-> IF c = k THEN e ELSE "none"]
<1>1. /\ k \in Conns /\ e \in {"dialler", "acceptor"} /\ e \in tcp[k].ends
      /\ tcp[k].phase # "dialling" /\ (e = "acceptor" => tcp[k].phase # "established")
  BY LTypes DEF EndOf, EndAt, LInv, PortOK
<1>2. gone \in [Conns -> {"dialler", "acceptor", "none"}]
  BY <1>1
<1>3. ASSUME NEW c \in Conns
      PROVE  IF gone[c] = "none" THEN tcp'[c] = tcp[c] ELSE Leaves(c, gone[c])
  <2> DEFINE w == WithoutEnd(before[k], e)
  <2>1. tcp'[c] = IF c = k THEN w ELSE tcp[c]
    BY <1>1 DEF CloseConnection
  <2>2. CASE c = k
    <3>1. before[k] \in Connections /\ e \in before[k].ends
      BY <1>1
    <3> HIDE DEF e, k
    <3>2. /\ \/ w.ends = before[k].ends \ {e}
             \/ w.ends = {} /\ before[k].trunk \in Strangers /\ e = "acceptor"
          /\ w.ends # {} => w.trunk = before[k].trunk /\ w.phase = before[k].phase
          /\ w.ends = {} => w.phase = "unused"
          /\ w.request => before[k].request /\ e = "dialler"
          /\ e = "dialler" => w.response = "none"
      BY <1>1, <3>1, WithoutEndLeaves
    <3>3. tcp'[k] = w /\ gone[k] = e
      BY <1>1, <2>1, <2>2
    <3> HIDE DEF w, gone
    <3>4. /\ before[k].trunk = tcp[k].trunk /\ before[k].phase = tcp[k].phase
          /\ before[k].ends = tcp[k].ends /\ (before[k].request => tcp[k].request)
      BY <1>1
    <3>5. Leaves(k, e)
      BY <1>1, <3>2, <3>3, <3>4 DEF Leaves
    <3> QED BY <1>1, <2>2, <3>3, <3>5
  <2>3. CASE c # k
    BY <2>1, <2>3
  <2> QED BY <2>2, <2>3
<1>4. ASSUME NEW u \in Trunks
      PROVE  IF connFd[u] # NoFd /\ gone[connFd[u]] = EndOf(u) THEN connFd'[u] = NoFd
             ELSE /\ connFd'[u] = connFd[u]
                  /\ connFd[u] # NoFd => lip'[u] = lip[u] /\ staged'[u] = staged[u]
  <2>1. /\ connFd' = [connFd EXCEPT ![t] = NoFd] /\ lip' = [lip EXCEPT ![t] = "Disconnected"]
        /\ staged' = [staged EXCEPT ![t] = 0]
        /\ connFd \in [Trunks -> Conns \cup {NoFd}] /\ lip \in [Trunks -> LipStates]
        /\ staged \in [Trunks -> 0 .. MaxStaged]
    BY LTypes DEF CloseConnection
  <2>2. connFd[u] # NoFd => connFd[u] \in Conns /\ EndOf(u) # "none"
    BY LTypes DEF EndOf, EndAt
  <2>3. connFd[u] = k /\ EndOf(u) = e => u = t
    BY OneAtEachEnd
  <2>4. CASE u = t
    BY <1>1, <2>1, <2>4
  <2>5. CASE u # t
    <3>1. connFd[u] # NoFd => gone[connFd[u]] # EndOf(u)
      BY <2>2, <2>3, <2>5
    <3>2. connFd'[u] = connFd[u] /\ lip'[u] = lip[u] /\ staged'[u] = staged[u]
      BY <2>1, <2>5
    <3> QED BY <3>1, <3>2
  <2> QED BY <2>4, <2>5
<1>5. ASSUME NEW u \in Trunks, ncbState'[u] = "Connecting"
      PROVE  /\ ncbState[u] = "Connecting" /\ ncbFd'[u] = ncbFd[u]
             /\ gone[ncbFd[u]] # "dialler"
  <2>1. ncbState[u] = "Connecting"
    BY <1>5, LTypes DEF CloseConnection
  <2>2. ncbFd[u] \in Conns /\ connFd[u] # ncbFd[u]
    BY <2>1, LTypes DEF LInv, NcbOK
  <2>3. ncbFd'[u] = ncbFd[u]
    BY <2>2, LTypes DEF CloseConnection
  <2>4. ncbFd[u] = k => e = "acceptor"
    BY <2>1, OneAtEachEnd
  <2> QED BY <2>1, <2>2, <2>3, <2>4
<1> HIDE DEF gone
<1> QED BY <1>2, <1>3, <1>4, <1>5, EndsLeave

LEMMA AnsweredFields ==
    ASSUME LInv, NEW t \in Trunks, connFd[t] # NoFd, NEW answer \in {"200", "3xx"}
    PROVE  /\ Answered(t, answer) \in [Conns -> Connections]
           /\ \A c \in Conns :
                LET a == Answered(t, answer)[c]
                IN  /\ a.trunk = tcp[c].trunk /\ a.phase = tcp[c].phase /\ a.ends = tcp[c].ends
                    /\ a.request => tcp[c].request /\ c # connFd[t]
                    /\ c # connFd[t] => a = tcp[c]
                    /\ c = connFd[t] => a.response = IF PeerIsOpen(t) THEN answer ELSE "none"
<1>1. Answered(t, answer) \in [Conns -> Connections]
  BY AnsweredIsConnections DEF LInv
<1> DEFINE r == IF PeerIsOpen(t) THEN answer ELSE "none"
<1>2. Answered(t, answer) = [tcp EXCEPT ![connFd[t]].request = FALSE, ![connFd[t]].response = r]
  BY DEF Answered
<1>3. tcp \in [Conns -> Connections] /\ connFd[t] \in Conns
  BY LTypes
<1> HIDE DEF r
<1>4. \A c \in Conns :
        LET a == Answered(t, answer)[c]
        IN  /\ a.trunk = tcp[c].trunk /\ a.phase = tcp[c].phase /\ a.ends = tcp[c].ends
            /\ a.request => tcp[c].request /\ c # connFd[t]
            /\ c # connFd[t] => a = tcp[c]
            /\ c = connFd[t] => a.response = r
  BY <1>2, <1>3 DEF Connections
<1> QED BY <1>1, <1>4 DEF r

LEMMA ClosingSteps ==
    ASSUME LInv, IInv', NEW t \in Trunks,
           \/ NotifyNetDisconnect(t) \/ Timeout(t) \/ LinkRefused(t)
           \/ SendConnectRequest(t) /\ CloseConnection(t, tcp)
           \/ \E u : RefuseRequest(t, u) \/ AcceptRequestInVain(t, u)
    PROVE  LInv'
<1>1. tcp \in [Conns -> Connections]
  BY LTypes
<1>2. ASSUME connFd[t] # NoFd, CloseConnection(t, tcp) PROVE LInv'
  BY <1>1, <1>2, CloseLeaves
<1>3. ASSUME LinkRefused(t) PROVE LInv'
  <2> DEFINE b == [tcp EXCEPT ![connFd[t]].response = "none"]
  <2>1. connFd[t] \in Conns /\ CloseConnection(t, b) /\ connFd[t] # NoFd
    BY <1>3, LTypes DEF LinkRefused, Responded
  <2>2. /\ b \in [Conns -> Connections]
        /\ \A c \in Conns : /\ b[c].trunk = tcp[c].trunk /\ b[c].phase = tcp[c].phase
                            /\ b[c].ends = tcp[c].ends /\ b[c].request = tcp[c].request
                            /\ c # connFd[t] => b[c] = tcp[c]
    <3>1. [tcp[connFd[t]] EXCEPT !.response = "none"] \in Connections
      BY <1>1, <2>1, UpdatesAreConnections
    <3>2. b = [tcp EXCEPT ![connFd[t]] = [tcp[connFd[t]] EXCEPT !.response = "none"]]
      BY <1>1, <2>1
    <3>3. b \in [Conns -> Connections]
      BY <1>1, <2>1, <3>1, <3>2
    <3> QED BY <1>1, <2>1, <3>2, <3>3 DEF Connections
  <2> HIDE DEF b
  <2> QED BY <2>1, <2>2, CloseLeaves
<1>4. ASSUME NEW a \in {"200", "3xx"}, connFd[t] # NoFd, CloseConnection(t, Answered(t, a))
      PROVE  LInv'
  BY <1>4, AnsweredFields, CloseLeaves
<1> QED BY <1>2, <1>3, <1>4 DEF NotifyNetDisconnect, Timeout, SendConnectRequest, RefuseRequest,
                               AcceptRequestInVain, Requested

LEMMA DialFailsLeaves ==
    ASSUME LInv, IInv', NEW t \in Trunks, DialFails(t)
    PROVE  LInv'
<1> DEFINE k == ncbFd[t]
           gone == [c \in Conns |-> IF c = k THEN "dialler" ELSE "none"]
<1>1. /\ k \in Conns /\ tcp[k].trunk = t /\ "dialler" \in tcp[k].ends /\ tcp[k].phase = "dialling"
      /\ tcp[k].ends \subseteq {"dialler"} /\ UNCHANGED portVars
      /\ tcp' = [tcp EXCEPT ![k] = Unused] /\ ncbState' = [ncbState EXCEPT ![t] = "Init"]
      /\ ncbFd' = [ncbFd EXCEPT ![t] = NoFd]
  BY LTypes DEF DialFails, LInv, NcbOK, ConnectionOK
<1>2. gone \in [Conns -> {"dialler", "acceptor", "none"}]
  OBVIOUS
<1>3. ASSUME NEW c \in Conns
      PROVE  IF gone[c] = "none" THEN tcp'[c] = tcp[c] ELSE Leaves(c, gone[c])
  <2>1. CASE c = k
    <3>1. tcp'[c] = Unused
      BY <1>1, <2>1, LTypes
    <3> QED BY <1>1, <2>1, <3>1 DEF Leaves, Unused
  <2>2. CASE c # k
    BY <1>1, <2>2, LTypes
  <2> QED BY <2>1, <2>2
<1>4. ASSUME NEW u \in Trunks
      PROVE  IF connFd[u] # NoFd /\ gone[connFd[u]] = EndOf(u) THEN connFd'[u] = NoFd
             ELSE /\ connFd'[u] = connFd[u]
                  /\ connFd[u] # NoFd => lip'[u] = lip[u] /\ staged'[u] = staged[u]
  <2>1. connFd[u] # NoFd => connFd[u] \in Conns /\ connFd[u] # k
    BY <1>1, LTypes DEF LInv, PortOK
  <2>2. EndOf(u) # "none"
    BY DEF EndOf, EndAt
  <2> QED BY <1>1, <2>1, <2>2 DEF portVars
<1>5. ASSUME NEW u \in Trunks, ncbState'[u] = "Connecting"
      PROVE  /\ ncbState[u] = "Connecting" /\ ncbFd'[u] = ncbFd[u]
             /\ gone[ncbFd[u]] # "dialler"
  <2>1. u # t /\ ncbState[u] = "Connecting" /\ ncbFd'[u] = ncbFd[u] /\ ncbFd[u] \in Conns
    BY <1>1, <1>5, LTypes
  <2>2. tcp[ncbFd[u]].trunk = u
    BY <2>1 DEF LInv, NcbOK
  <2> QED BY <1>1, <2>1, <2>2
<1> HIDE DEF gone
<1> QED BY <1>2, <1>3, <1>4, <1>5, EndsLeave

\* A dialled connection whose port is taken.
LEMMA DialBusyLeaves ==
    ASSUME LInv, IInv', NEW t \in Trunks, DialSucceeds(t), connFd[t] # NoFd
    PROVE  LInv'
<1> DEFINE k == ncbFd[t]
           gone == [c \in Conns |-> IF c = k THEN "dialler" ELSE "none"]
<1>1. /\ ncbState[t] = "Connecting" /\ tcp[k].phase # "dialling"
      /\ tcp' = [tcp EXCEPT ![k] = WithoutEnd(@, "dialler")]
      /\ ncbFd' = [ncbFd EXCEPT ![t] = NoFd]
      /\ ncbState' = [ncbState EXCEPT ![t] = "Busy"] /\ UNCHANGED portVars
  BY DEF DialSucceeds
<1>2. /\ k \in Conns /\ tcp[k].trunk = t /\ "dialler" \in tcp[k].ends /\ connFd[t] # k
      /\ tcp[k] \in Connections
  BY <1>1, LTypes DEF LInv, NcbOK
<1>3. gone \in [Conns -> {"dialler", "acceptor", "none"}]
  OBVIOUS
<1>4. ASSUME NEW c \in Conns
      PROVE  IF gone[c] = "none" THEN tcp'[c] = tcp[c] ELSE Leaves(c, gone[c])
  <2>1. CASE c = k
    <3> DEFINE w == WithoutEnd(tcp[k], "dialler")
    <3>1. /\ w.ends = tcp[k].ends \ {"dialler"}
          /\ w.ends # {} => w.trunk = tcp[k].trunk /\ w.phase = tcp[k].phase
          /\ w.ends = {} => w.phase = "unused"
          /\ w.request => tcp[k].request
          /\ w.response = "none"
      BY <1>2, WithoutEndLeaves
    <3>2. tcp'[c] = w
      BY <1>1, <1>2, <2>1, LTypes
    <3> HIDE DEF w
    <3> QED BY <1>1, <1>2, <2>1, <3>1, <3>2 DEF Leaves
  <2>2. CASE c # k
    BY <1>1, <2>2, LTypes
  <2> QED BY <2>1, <2>2
<1>5. ASSUME NEW u \in Trunks
      PROVE  IF connFd[u] # NoFd /\ gone[connFd[u]] = EndOf(u) THEN connFd'[u] = NoFd
             ELSE /\ connFd'[u] = connFd[u]
                  /\ connFd[u] # NoFd => lip'[u] = lip[u] /\ staged'[u] = staged[u]
  <2>1. connFd[u] = k => EndOf(u) = "acceptor"
    BY <1>1, <1>2, OneAtEachEnd
  <2>2. EndOf(u) # "none" /\ (connFd[u] # NoFd => connFd[u] \in Conns)
    BY LTypes DEF EndOf, EndAt
  <2> QED BY <1>1, <2>1, <2>2 DEF portVars
<1>6. ASSUME NEW u \in Trunks, ncbState'[u] = "Connecting"
      PROVE  /\ ncbState[u] = "Connecting" /\ ncbFd'[u] = ncbFd[u]
             /\ gone[ncbFd[u]] # "dialler"
  <2>1. u # t /\ ncbState[u] = "Connecting" /\ ncbFd'[u] = ncbFd[u] /\ ncbFd[u] \in Conns
    BY <1>1, <1>6, LTypes
  <2>2. tcp[ncbFd[u]].trunk = u
    BY <2>1 DEF LInv, NcbOK
  <2> QED BY <1>2, <2>1, <2>2
<1> HIDE DEF gone
<1> QED BY <1>3, <1>4, <1>5, <1>6, EndsLeave

\* A connection that is not wanted: its acceptor's end is closed.
LEMMA NotWantedLeaves ==
    ASSUME LInv, IInv', NEW k \in Conns, tcp[k].phase = "established", UNCHANGED portVars,
           tcp' = [tcp EXCEPT ![k] = WithoutEnd([@ EXCEPT !.phase = "accepted"], "acceptor")],
           \A u \in Trunks : ncbState'[u] = "Connecting" =>
               ncbState[u] = "Connecting" /\ ncbFd'[u] = ncbFd[u]
    PROVE  LInv'
<1> DEFINE gone == [c \in Conns |-> IF c = k THEN "acceptor" ELSE "none"]
           b == [tcp[k] EXCEPT !.phase = "accepted"]
           w == WithoutEnd(b, "acceptor")
<1>1. gone \in [Conns -> {"dialler", "acceptor", "none"}]
  OBVIOUS
<1>2. /\ b \in Connections /\ b.ends = tcp[k].ends /\ b.trunk = tcp[k].trunk
      /\ b.phase = "accepted" /\ b.request = tcp[k].request /\ "acceptor" \in b.ends
  <2>1. tcp[k] \in Connections /\ "acceptor" \in tcp[k].ends
    BY LTypes DEF LInv, ConnectionOK
  <2>2. b \in Connections
    BY <2>1, UpdatesAreConnections
  <2> QED BY <2>1, <2>2 DEF Connections
<1>3. tcp' = [tcp EXCEPT ![k] = w]
  OBVIOUS
<1>4. ASSUME NEW c \in Conns
      PROVE  IF gone[c] = "none" THEN tcp'[c] = tcp[c] ELSE Leaves(c, gone[c])
  <2>1. CASE c = k
    <3> HIDE DEF b
    <3>1. /\ w.ends = b.ends \ {"acceptor"} \/ (w.ends = {} /\ b.trunk \in Strangers)
          /\ w.ends # {} => w.trunk = b.trunk /\ w.phase = b.phase
          /\ w.ends = {} => w.phase = "unused"
          /\ ~w.request
      BY <1>2, WithoutEndLeaves
    <3>2. tcp'[c] = w
      BY <1>3, <2>1, LTypes
    <3> HIDE DEF w
    <3> QED BY <1>2, <2>1, <3>1, <3>2 DEF Leaves
  <2>2. CASE c # k
    BY <2>2, LTypes
  <2> QED BY <2>1, <2>2
<1>5. ASSUME NEW u \in Trunks
      PROVE  IF connFd[u] # NoFd /\ gone[connFd[u]] = EndOf(u) THEN connFd'[u] = NoFd
             ELSE /\ connFd'[u] = connFd[u]
                  /\ connFd[u] # NoFd => lip'[u] = lip[u] /\ staged'[u] = staged[u]
  <2>1. connFd[u] = k => EndOf(u) # "acceptor"
    BY DEF LInv, PortOK
  <2>2. EndOf(u) # "none" /\ (connFd[u] # NoFd => connFd[u] \in Conns)
    BY LTypes DEF EndOf, EndAt
  <2> QED BY <2>1, <2>2 DEF portVars
<1>6. ASSUME NEW u \in Trunks, ncbState'[u] = "Connecting"
      PROVE  /\ ncbState[u] = "Connecting" /\ ncbFd'[u] = ncbFd[u]
             /\ gone[ncbFd[u]] # "dialler"
  BY <1>6, LTypes
<1> HIDE DEF gone
<1> QED BY <1>1, <1>4, <1>5, <1>6, EndsLeave

LEMMA NpuResetLeaves ==
    ASSUME LInv, IInv', NEW n \in Nodes, NpuReset(n)
    PROVE  LInv'
<1> DEFINE closed == {t \in TrunksOf(n) : connFd[t] = ncbFd[t] \/ ncbState[t] = "Busy"}
           held(c) == \E t \in TrunksOf(n) : connFd[t] = c
           gone == [c \in Conns |-> IF held(c) THEN EndAt(c, n) ELSE "none"]
<1>1. /\ tcp' = [c \in Conns |-> IF held(c) THEN WithoutEnd(tcp[c], EndAt(c, n)) ELSE tcp[c]]
      /\ connFd' = [t \in Trunks |-> IF Node(t) = n THEN NoFd ELSE connFd[t]]
      /\ lip' = [t \in Trunks |-> IF Node(t) = n THEN "Disconnected" ELSE lip[t]]
      /\ staged' = [t \in Trunks |-> IF Node(t) = n THEN 0 ELSE staged[t]]
      /\ ncbState' = [t \in Trunks |-> IF t \in closed THEN "Init" ELSE ncbState[t]]
      /\ ncbFd' = [t \in Trunks |-> IF t \in closed /\ connFd[t] = ncbFd[t] /\ ncbFd[t] # NoFd
                                    THEN StaleFd ELSE ncbFd[t]]
  BY DEF NpuReset
<1>2. gone \in [Conns -> {"dialler", "acceptor", "none"}]
  BY DEF EndAt
<1>3. \A t \in Trunks : connFd[t] # NoFd =>
          /\ connFd[t] \in Conns /\ EndOf(t) \in {"dialler", "acceptor"}
          /\ EndOf(t) = EndAt(connFd[t], Node(t)) /\ EndOf(t) \in tcp[connFd[t]].ends
          /\ tcp[connFd[t]].phase # "dialling"
          /\ EndOf(t) = "acceptor" => tcp[connFd[t]].phase # "established"
  BY LTypes DEF EndOf, EndAt, LInv, PortOK
<1>4. ASSUME NEW c \in Conns
      PROVE  IF gone[c] = "none" THEN tcp'[c] = tcp[c] ELSE Leaves(c, gone[c])
  <2>1. CASE held(c)
    <3> DEFINE e == EndAt(c, n)
               w == WithoutEnd(tcp[c], e)
    <3>1. /\ e \in {"dialler", "acceptor"} /\ e \in tcp[c].ends
          /\ tcp[c].phase # "dialling" /\ (e = "acceptor" => tcp[c].phase # "established")
      BY <1>3, <2>1 DEF TrunksOf
    <3>2. tcp[c] \in Connections /\ tcp'[c] = w /\ gone[c] = e
      BY <1>1, <2>1, LTypes
    <3> HIDE DEF e
    <3>3. /\ \/ w.ends = tcp[c].ends \ {e}
             \/ w.ends = {} /\ tcp[c].trunk \in Strangers /\ e = "acceptor"
          /\ w.ends # {} => w.trunk = tcp[c].trunk /\ w.phase = tcp[c].phase
          /\ w.ends = {} => w.phase = "unused"
          /\ w.request => tcp[c].request /\ e = "dialler"
          /\ e = "dialler" => w.response = "none"
      BY <3>1, <3>2, WithoutEndLeaves
    <3> HIDE DEF w, gone
    <3>4. Leaves(c, e)
      BY <3>1, <3>2, <3>3 DEF Leaves
    <3> QED BY <3>1, <3>2, <3>4
  <2>2. CASE ~held(c)
    BY <1>1, <2>2
  <2> QED BY <2>1, <2>2
<1>5. ASSUME NEW u \in Trunks
      PROVE  IF connFd[u] # NoFd /\ gone[connFd[u]] = EndOf(u) THEN connFd'[u] = NoFd
             ELSE /\ connFd'[u] = connFd[u]
                  /\ connFd[u] # NoFd => lip'[u] = lip[u] /\ staged'[u] = staged[u]
  <2>1. CASE Node(u) = n
    <3>1. connFd'[u] = NoFd
      BY <1>1, <2>1
    <3>2. connFd[u] # NoFd => gone[connFd[u]] = EndOf(u)
      BY <1>3, <2>1 DEF TrunksOf
    <3> QED BY <3>1, <3>2
  <2>2. CASE Node(u) # n
    <3>1. connFd'[u] = connFd[u] /\ lip'[u] = lip[u] /\ staged'[u] = staged[u]
      BY <1>1, <2>2
    <3>2. ASSUME connFd[u] # NoFd PROVE gone[connFd[u]] # EndOf(u)
      <4> SUFFICES ASSUME gone[connFd[u]] = EndOf(u) PROVE FALSE
        OBVIOUS
      <4>1. PICK t \in TrunksOf(n) : connFd[t] = connFd[u]
        BY <1>3, <3>2
      <4>2. t \in Trunks /\ Node(t) = n /\ EndOf(u) = EndOf(t)
        BY <1>3, <3>2, <4>1 DEF TrunksOf
      <4> QED BY <2>2, <3>2, <4>1, <4>2, OneAtEachEnd
    <3> QED BY <3>1, <3>2
  <2> QED BY <2>1, <2>2
<1>6. ASSUME NEW u \in Trunks, ncbState'[u] = "Connecting"
      PROVE  /\ ncbState[u] = "Connecting" /\ ncbFd'[u] = ncbFd[u]
             /\ gone[ncbFd[u]] # "dialler"
  <2>1. u \notin closed /\ ncbState[u] = "Connecting"
    BY <1>1, <1>6
  <2>2. ncbFd'[u] = ncbFd[u] /\ ncbFd[u] \in Conns
    BY <1>1, <2>1, LTypes
  <2>3. ASSUME held(ncbFd[u]) PROVE EndAt(ncbFd[u], n) # "dialler"
    <3>1. PICK t \in TrunksOf(n) : connFd[t] = ncbFd[u]
      BY <2>3
    <3>2. t \in Trunks /\ Node(t) = n /\ connFd[t] # NoFd
      BY <2>2, <3>1 DEF TrunksOf
    <3>3. EndOf(t) = "acceptor"
      BY <2>1, <3>1, <3>2, OneAtEachEnd
    <3> QED BY <3>1, <3>2, <3>3 DEF EndOf
  <2> QED BY <2>1, <2>2, <2>3
<1> HIDE DEF gone
<1> QED BY <1>2, <1>4, <1>5, <1>6, EndsLeave

-----------------------------------------------------------------------------
(* Steps on an open connection.                                            *)

\* What keeps every other connection, port and NCB as it was: a step on connection k, and
\* the ports in P, which have that connection or none, before and after.
Apart(k, P) ==
    /\ \A c \in Conns : c # k => tcp'[c] = tcp[c]
    /\ \A t \in Trunks : t \notin P => /\ connFd'[t] = connFd[t] /\ lip'[t] = lip[t]
                                       /\ staged'[t] = staged[t]
    /\ \A t \in Trunks : t \in P => connFd[t] \in {k, NoFd} /\ connFd'[t] \in {k, NoFd}
    /\ \A t \in Trunks : ncbState'[t] = "Connecting" /\ ncbFd'[t] # k =>
           ncbState[t] = "Connecting" /\ ncbFd'[t] = ncbFd[t]

LEMMA OthersStay ==
    ASSUME LInv, NEW k \in Conns, NEW P, Apart(k, P)
    PROVE  /\ \A c \in Conns \ {k} : ConnectionOK(c)' /\ DiallerOK(c)' /\ AcceptorOK(c)'
           /\ \A t \in Trunks : connFd'[t] # k => PortOK(t)'
           /\ \A t \in Trunks : ncbFd'[t] # k => NcbOK(t)'
           /\ \A t, u \in Trunks : Node(t) = Node(u) /\ connFd'[t] = connFd'[u] /\ connFd'[t] # NoFd
                                      /\ connFd'[t] # k => t = u
<1>1. \A t \in Trunks : connFd'[t] # k /\ connFd'[t] # NoFd =>
         /\ connFd'[t] = connFd[t] /\ lip'[t] = lip[t] /\ staged'[t] = staged[t]
         /\ connFd[t] \in Conns /\ tcp'[connFd[t]] = tcp[connFd[t]]
  BY LTypes DEF Apart
<1>2. ASSUME NEW t \in Trunks, connFd'[t] # k PROVE PortOK(t)'
  <2>1. PortOK(t)
    BY DEF LInv
  <2>2. CASE connFd'[t] = NoFd
    BY <2>2 DEF PortOK
  <2>3. CASE connFd'[t] # NoFd
    <3>1. /\ connFd'[t] = connFd[t] /\ lip'[t] = lip[t] /\ staged'[t] = staged[t]
          /\ tcp'[connFd'[t]] = tcp[connFd[t]]
      BY <1>1, <1>2, <2>3
    <3>2. EndOf(t)' = EndOf(t)
      BY <3>1 DEF EndOf, EndAt
    <3> QED BY <2>1, <3>1, <3>2 DEF PortOK
  <2> QED BY <2>2, <2>3
<1>3. ASSUME NEW t \in Trunks, ncbFd'[t] # k PROVE NcbOK(t)'
  <2> SUFFICES ASSUME ncbState'[t] = "Connecting" PROVE NcbOK(t)'
    BY DEF NcbOK
  <2>1. ncbState[t] = "Connecting" /\ ncbFd'[t] = ncbFd[t] /\ ncbFd[t] \in Conns /\ NcbOK(t)
    BY <1>3, LTypes DEF Apart, LInv
  <2>2. tcp'[ncbFd'[t]] = tcp[ncbFd[t]]
    BY <1>3, <2>1 DEF Apart
  <2>3. connFd'[t] # ncbFd'[t]
    BY <1>1, <1>3, <2>1 DEF NcbOK
  <2> QED BY <2>1, <2>2, <2>3 DEF NcbOK
<1>4. ASSUME NEW c \in Conns \ {k} PROVE ConnectionOK(c)' /\ DiallerOK(c)' /\ AcceptorOK(c)'
  <2>1. ConnectionOK(c) /\ DiallerOK(c) /\ AcceptorOK(c) /\ tcp'[c] = tcp[c]
    BY DEF LInv, Apart
  <2>2. \A t \in Trunks : /\ connFd'[t] = c <=> connFd[t] = c
                          /\ connFd[t] = c => lip'[t] = lip[t] /\ staged'[t] = staged[t]
    BY DEF Apart
  <2>3. tcp[c].trunk \in Dialling => tcp[c].trunk \in Trunks /\ Peer(tcp[c].trunk) \in Trunks
    BY PeerOf
  <2>4. ConnectionOK(c)'
    BY <2>1 DEF ConnectionOK
  <2>5. DiallerOK(c)'
    BY <2>1, <2>2, <2>3 DEF DiallerOK, LinkOf
  <2>6. AcceptorOK(c)'
    BY <2>1, <2>2, <2>3 DEF AcceptorOK, LinkOf, HasAnswer
  <2> QED BY <2>4, <2>5, <2>6
<1>5. ASSUME NEW t \in Trunks, NEW u \in Trunks, Node(t) = Node(u), connFd'[t] = connFd'[u],
             connFd'[t] # NoFd, connFd'[t] # k
      PROVE  t = u
  BY <1>1, <1>5 DEF LInv, Alone
<1> QED BY <1>2, <1>3, <1>4, <1>5

LEMMA Rebuilt ==
    ASSUME LInv, IInv', NEW k \in Conns, NEW P, Apart(k, P),
           ConnectionOK(k)', DiallerOK(k)', AcceptorOK(k)',
           \A t \in Trunks : connFd'[t] = k => PortOK(t)',
           \A t \in Trunks : ncbState'[t] = "Connecting" /\ ncbFd'[t] = k => NcbOK(t)',
           \A t, u \in Trunks : Node(t) = Node(u) /\ connFd'[t] = k /\ connFd'[u] = k => t = u
    PROVE  LInv'
<1>1. \A c \in Conns : ConnectionOK(c)' /\ DiallerOK(c)' /\ AcceptorOK(c)'
  BY OthersStay
<1>2. \A t \in Trunks : PortOK(t)'
  BY OthersStay
<1>3. \A t \in Trunks : NcbOK(t)'
  <2> SUFFICES ASSUME NEW t \in Trunks PROVE NcbOK(t)'
    OBVIOUS
  <2>1. CASE ncbState'[t] = "Connecting"
    BY <2>1, OthersStay
  <2>2. CASE ncbState'[t] # "Connecting"
    BY <2>2 DEF NcbOK
  <2> QED BY <2>1, <2>2
<1>4. Alone'
  <2> SUFFICES ASSUME NEW t \in Trunks, NEW u \in Trunks, Node(t) = Node(u),
                      connFd'[t] = connFd'[u], connFd'[t] # NoFd
               PROVE  t = u
    BY DEF Alone
  <2> QED BY OthersStay
<1> QED BY <1>1, <1>2, <1>3, <1>4 DEF LInv

\* Ports and NCBs that a step leaves alone, with the connection it is about.
LEMMA PortStays ==
    ASSUME LInv, NEW t \in Trunks, connFd[t] # NoFd, connFd'[t] = connFd[t], lip'[t] = lip[t],
           staged'[t] = staged[t],
           tcp'[connFd[t]].trunk = tcp[connFd[t]].trunk, tcp'[connFd[t]].ends = tcp[connFd[t]].ends,
           \/ tcp'[connFd[t]].phase = tcp[connFd[t]].phase
           \/ tcp'[connFd[t]].phase \in {"accepted", "broken"}
    PROVE  PortOK(t)' /\ EndOf(t)' = EndOf(t)
<1>1. PortOK(t)
  BY DEF LInv
<1>2. EndOf(t)' = EndOf(t)
  BY DEF EndOf, EndAt
<1> QED BY <1>1, <1>2 DEF PortOK

LEMMA TcpOpens ==
    ASSUME LInv, IInv', NEW k \in Conns, Establish(k) \/ Break(k)
    PROVE  LInv'
<1>1. /\ UNCHANGED <<connFd, lip, staged, ncbState, ncbFd>> /\ tcp \in [Conns -> Connections]
      /\ tcp[k] \in Connections
  BY LTypes DEF Establish, Break, portVars, ncbVars
<1>2. /\ \A c \in Conns : c # k => tcp'[c] = tcp[c]
      /\ tcp'[k].trunk = tcp[k].trunk /\ tcp'[k].request = tcp[k].request
      /\ tcp'[k].response = tcp[k].response
      /\ \/ /\ tcp[k].phase = "dialling" /\ tcp'[k].phase = "established"
            /\ tcp'[k].ends = {"dialler", "acceptor"}
         \/ /\ tcp[k].phase = "accepted" /\ tcp'[k].phase = "broken"
            /\ tcp'[k].ends = tcp[k].ends
  BY <1>1 DEF Establish, Break, Connections
<1>3. Apart(k, {})
  BY <1>1, <1>2 DEF Apart
<1>4. ConnectionOK(k) /\ DiallerOK(k) /\ AcceptorOK(k)
  BY DEF LInv
<1>5. tcp[k].phase = "dialling" => \A t \in Trunks : connFd[t] # k
  BY DEF LInv, PortOK
<1>6. tcp[k].trunk \in Dialling =>
          tcp[k].trunk \in Trunks /\ Peer(tcp[k].trunk) \in Trunks
  BY PeerOf
<1>7. ConnectionOK(k)'
  BY <1>2, <1>4 DEF ConnectionOK
<1>8. DiallerOK(k)' /\ AcceptorOK(k)'
  <2>1. CASE tcp[k].phase = "dialling"
    <3>1. ~tcp'[k].request /\ tcp'[k].response = "none" /\ \A t \in Trunks : connFd'[t] # k
      BY <1>1, <1>2, <1>4, <1>5, <2>1 DEF ConnectionOK
    <3> QED BY <1>2, <1>6, <3>1 DEF DiallerOK, AcceptorOK, LinkOf, HasAnswer
  <2>2. CASE tcp[k].phase # "dialling"
    BY <1>1, <1>2, <1>4, <2>2 DEF DiallerOK, AcceptorOK, LinkOf, HasAnswer
  <2> QED BY <2>1, <2>2
<1>9. ASSUME NEW t \in Trunks, connFd'[t] = k PROVE PortOK(t)'
  BY <1>1, <1>2, <1>5, <1>9, PortStays, SMTT(60)
<1>10. ASSUME NEW t \in Trunks, ncbFd'[t] = k PROVE NcbOK(t)'
  BY <1>1, <1>2, <1>10 DEF LInv, NcbOK
<1>11. \A t, u \in Trunks : Node(t) = Node(u) /\ connFd'[t] = k /\ connFd'[u] = k => t = u
  BY <1>1 DEF LInv, Alone
<1> QED BY <1>3, <1>7, <1>8, <1>9, <1>10, <1>11, Rebuilt

LEMMA DialOpens ==
    ASSUME LInv, IInv', NEW t \in Trunks, Dial(t)
    PROVE  LInv'
<1>1. PICK k \in Reusable :
        /\ tcp' = [tcp EXCEPT ![k] = [Unused EXCEPT !.trunk = t, !.phase = "dialling",
                                                    !.ends = {"dialler"}]]
        /\ ncbFd' = [ncbFd EXCEPT ![t] = k]
  BY DEF Dial
<1>2. /\ k \in Conns /\ t \in Dialling /\ ncbState' = [ncbState EXCEPT ![t] = "Connecting"]
      /\ UNCHANGED <<connFd, lip, staged>>
  BY DEF Dial, Reusable, portVars
<1>3. \A u \in Trunks : connFd[u] # k /\ ~(ncbState[u] = "Connecting" /\ ncbFd[u] = k)
  BY DEF Reusable
<1>4. /\ \A c \in Conns : c # k => tcp'[c] = tcp[c]
      /\ tcp'[k].trunk = t /\ tcp'[k].phase = "dialling" /\ tcp'[k].ends = {"dialler"}
      /\ tcp'[k].request = FALSE /\ tcp'[k].response = "none"
  BY <1>1, <1>2, LTypes DEF Unused
<1>5. Apart(k, {})
  BY <1>1, <1>2, <1>4, LTypes DEF Apart
<1>6. ConnectionOK(k)'
  BY <1>2, <1>4 DEF ConnectionOK
<1>7. DiallerOK(k)' /\ AcceptorOK(k)'
  BY <1>2, <1>3, <1>4 DEF DiallerOK, AcceptorOK, LinkOf, HasAnswer
<1>8. ASSUME NEW u \in Trunks, ncbState'[u] = "Connecting", ncbFd'[u] = k PROVE NcbOK(u)'
  <2>1. u = t
    BY <1>1, <1>2, <1>3, <1>8, LTypes
  <2> QED BY <1>2, <1>3, <1>4, <1>8, <2>1 DEF NcbOK
<1> QED BY <1>2, <1>3, <1>5, <1>6, <1>7, <1>8, Rebuilt

LEMMA DialSucceedsOpens ==
    ASSUME LInv, IInv', NEW t \in Trunks, DialSucceeds(t), connFd[t] = NoFd
    PROVE  LInv'
<1>0. PICK k \in Conns : k = ncbFd[t]
  BY LTypes DEF DialSucceeds
<1>1. /\ ncbState[t] = "Connecting" /\ tcp[k].phase # "dialling"
      /\ connFd' = [connFd EXCEPT ![t] = k] /\ lip' = [lip EXCEPT ![t] = "SndConnReq"]
      /\ staged' = [staged EXCEPT ![t] = 0]
      /\ ncbState' = [ncbState EXCEPT ![t] = "Connected"] /\ UNCHANGED <<tcp, ncbFd>>
  BY <1>0 DEF DialSucceeds, NotifyNetConnect
<1>2. k \in Conns /\ tcp[k].trunk = t /\ "dialler" \in tcp[k].ends /\ connFd[t] # k
  BY <1>0, <1>1 DEF LInv, NcbOK
<1>3. ConnectionOK(k) /\ DiallerOK(k) /\ AcceptorOK(k)
  BY <1>2 DEF LInv
<1>4. t \in Dialling /\ Peer(t) \in Trunks /\ Peer(t) # t /\ t[1] # t[2]
  <2>1. t \in Dialling
    BY <1>2, <1>3, StrangerOf DEF ConnectionOK
  <2> QED BY <2>1, PeerOf
<1>5. /\ connFd'[t] = k /\ lip'[t] = "SndConnReq" /\ staged'[t] = 0
      /\ \A u \in Trunks : u # t => /\ connFd'[u] = connFd[u] /\ lip'[u] = lip[u]
                                    /\ staged'[u] = staged[u]
  BY <1>1, LTypes
<1>6. Apart(k, {t})
  BY <1>1, <1>5, LTypes DEF Apart
<1>7. ConnectionOK(k)'
  BY <1>1, <1>3 DEF ConnectionOK
<1>8. DiallerOK(k)'
  <2>1. ~(tcp[k].request \/ \E u \in Trunks : Node(u) # Node(t) /\ LinkOf(u, k))
    <3>1. connFd[t] # k
      BY <1>2
    <3> QED BY <1>2, <1>3, <1>4, <3>1 DEF DiallerOK
  <2> QED BY <1>1, <1>2, <1>5, <2>1 DEF DiallerOK, LinkOf
<1>9. AcceptorOK(k)'
  BY <1>1, <1>2, <1>3, <1>4, <1>5 DEF AcceptorOK, LinkOf, HasAnswer
<1>10. ASSUME NEW u \in Trunks, connFd'[u] = k PROVE PortOK(u)'
  <2>1. CASE u = t
    <3>1. EndOf(t)' = "dialler"
      BY <1>1, <1>2, <1>5 DEF EndOf, EndAt, Node
    <3>2. tcp[k].phase \notin {"unused", "dialling"}
      BY <1>1, <1>2, <1>3 DEF ConnectionOK
    <3> QED BY <1>1, <1>2, <1>5, <2>1, <3>1, <3>2 DEF PortOK
  <2>2. CASE u # t
    BY <1>1, <1>2, <1>5, <1>10, <2>2, PortStays
  <2> QED BY <2>1, <2>2
<1>11. ASSUME NEW u \in Trunks, Node(u) = Node(t), connFd'[u] = k PROVE u = t
  <2> SUFFICES ASSUME u # t PROVE FALSE
    OBVIOUS
  <2>1. connFd[u] = k /\ connFd[u] # NoFd /\ EndOf(u) = "dialler"
    BY <1>2, <1>5, <1>11 DEF EndOf, EndAt, Node
  <2> QED BY <1>2, <2>1 DEF LInv, PortOK
<1>12. \A u, v \in Trunks : Node(u) = Node(v) /\ connFd'[u] = k /\ connFd'[v] = k => u = v
  BY <1>2, <1>5, <1>11 DEF LInv, Alone
<1>13. ASSUME NEW u \in Trunks, ncbState'[u] = "Connecting", ncbFd'[u] = k PROVE NcbOK(u)'
  <2>1. u # t /\ NcbOK(u) /\ ncbState[u] = "Connecting"
    BY <1>1, <1>13, LTypes DEF LInv
  <2> QED BY <1>1, <1>2, <1>13, <2>1 DEF NcbOK
<1> QED BY <1>2, <1>6, <1>7, <1>8, <1>9, <1>10, <1>12, <1>13, Rebuilt

\* A peer's connection is put on a free port of the node.
LEMMA AcceptOpens ==
    ASSUME LInv, IInv', NEW k \in Conns, tcp[k].phase = "established",
           NEW t \in Trunks, Node(t) = tcp[k].trunk[2], connFd[t] = NoFd,
           tcp' = [tcp EXCEPT ![k].phase = "accepted"], NotifyNetConnect(t, k, "RcvConnReq"),
           ncbState' = [ncbState EXCEPT ![t] = "Connected"],
           \E fd : ncbFd' = [ncbFd EXCEPT ![t] = fd]
    PROVE  LInv'
<1> DEFINE d == tcp[k].trunk
<1>1. ConnectionOK(k) /\ DiallerOK(k) /\ AcceptorOK(k) /\ tcp[k] \in Connections
  BY LTypes DEF LInv
<1>2. /\ d \in Dialling \cup Strangers /\ "acceptor" \in tcp[k].ends
      /\ d \in Dialling => d \in Trunks /\ Peer(d) \in Trunks
      /\ Node(t) = d[2] /\ d[1] # d[2] /\ d # t
  <2>1. d \in Dialling \cup Strangers /\ "acceptor" \in tcp[k].ends
    BY <1>1 DEF ConnectionOK
  <2>2. CASE d \in Dialling
    BY <2>1, <2>2, PeerOf
  <2>3. CASE d \in Strangers
    BY <2>1, <2>3, StrangerOf DEF Node
  <2> QED BY <2>1, <2>2, <2>3
<1>3. /\ \A c \in Conns : c # k => tcp'[c] = tcp[c]
      /\ tcp'[k].trunk = d /\ tcp'[k].phase = "accepted" /\ tcp'[k].ends = tcp[k].ends
      /\ tcp'[k].request = tcp[k].request /\ tcp'[k].response = tcp[k].response
  BY <1>1, LTypes DEF Connections
<1> HIDE DEF d
<1>4. /\ connFd'[t] = k /\ lip'[t] = "RcvConnReq" /\ ncbState'[t] = "Connected"
      /\ staged'[t] = 0
      /\ \A u \in Trunks : u # t => /\ connFd'[u] = connFd[u] /\ lip'[u] = lip[u]
                                    /\ staged'[u] = staged[u]
                                    /\ ncbState'[u] = ncbState[u] /\ ncbFd'[u] = ncbFd[u]
  BY LTypes DEF NotifyNetConnect
<1>5. Apart(k, {t})
  BY <1>3, <1>4 DEF Apart
<1>6. ConnectionOK(k)'
  BY <1>2, <1>3 DEF ConnectionOK
<1>7. DiallerOK(k)'
  BY <1>1, <1>2, <1>3, <1>4 DEF DiallerOK, LinkOf, d
<1>8. AcceptorOK(k)'
  BY <1>1, <1>2, <1>3, <1>4 DEF AcceptorOK, LinkOf, HasAnswer, d
<1>9. ASSUME NEW u \in Trunks, connFd'[u] = k PROVE PortOK(u)'
  <2>1. CASE u = t
    <3>1. EndOf(t)' = "acceptor"
      BY <1>2, <1>3, <1>4 DEF EndOf, EndAt
    <3> QED BY <1>2, <1>3, <1>4, <2>1, <3>1 DEF PortOK
  <2>2. CASE u # t
    BY <1>3, <1>4, <1>9, <2>2, PortStays DEF d
  <2> QED BY <2>1, <2>2
<1>10. ASSUME NEW u \in Trunks, ncbState'[u] = "Connecting", ncbFd'[u] = k PROVE NcbOK(u)'
  <2>1. u # t
    BY <1>4, <1>10
  <2>2. NcbOK(u) /\ ncbState[u] = "Connecting" /\ ncbFd[u] = k /\ connFd'[u] = connFd[u]
    BY <1>4, <1>10, <2>1 DEF LInv
  <2> QED BY <1>3, <1>10, <2>2 DEF NcbOK, d
<1>11. ASSUME NEW u \in Trunks, u # t, Node(u) = Node(t) PROVE connFd'[u] # k
  <2> SUFFICES ASSUME connFd[u] = k PROVE FALSE
    BY <1>4, <1>11
  <2>1. EndOf(u) = "acceptor"
    BY <1>2, <1>11 DEF EndOf, EndAt, d
  <2> QED BY <2>1 DEF LInv, PortOK
<1>12. \A u, v \in Trunks : Node(u) = Node(v) /\ connFd'[u] = k /\ connFd'[v] = k => u = v
  BY <1>4, <1>11 DEF LInv, Alone
<1> QED BY <1>5, <1>6, <1>7, <1>8, <1>9, <1>10, <1>12, Rebuilt

LEMMA AcceptConnectionOpens ==
    ASSUME LInv, IInv', NEW k \in Conns, AcceptConnection(k)
    PROVE  LInv'
<1> DEFINE n == tcp[k].trunk[2]
           free == {t \in TrunksOf(n) : connFd[t] = NoFd}
<1>1. CASE /\ tcp' = [tcp EXCEPT ![k].phase = "accepted"]
           /\ \E t \in First(free) :
                /\ NotifyNetConnect(t, k, "RcvConnReq")
                /\ ncbState' = [ncbState EXCEPT ![t] = "Connected"]
                /\ \E fd \in Remembered(t, k) : ncbFd' = [ncbFd EXCEPT ![t] = fd]
  <2>1. PICK t \in First(free) :
          /\ NotifyNetConnect(t, k, "RcvConnReq")
          /\ ncbState' = [ncbState EXCEPT ![t] = "Connected"]
          /\ \E fd \in Remembered(t, k) : ncbFd' = [ncbFd EXCEPT ![t] = fd]
    BY <1>1
  <2>2. t \in Trunks /\ Node(t) = n /\ connFd[t] = NoFd
    BY DEF First, TrunksOf
  <2>3. \E fd : ncbFd' = [ncbFd EXCEPT ![t] = fd]
    BY <2>1
  <2>4. tcp[k].phase = "established"
    BY DEF AcceptConnection
  <2> QED BY <1>1, <2>1, <2>2, <2>3, <2>4, AcceptOpens
<1>2. CASE /\ tcp' = [tcp EXCEPT ![k] = WithoutEnd([@ EXCEPT !.phase = "accepted"], "acceptor")]
           /\ \E listener \in First(TrunksOf(n)) :
                /\ ncbState' = [ncbState EXCEPT ![listener] = "Init"]
                /\ ncbFd' = [ncbFd EXCEPT ![listener] = Forgotten(listener)]
           /\ UNCHANGED portVars
  <2>1. tcp[k].phase = "established"
    BY DEF AcceptConnection
  <2>2. \A u \in Trunks : ncbState'[u] = "Connecting" =>
            ncbState[u] = "Connecting" /\ ncbFd'[u] = ncbFd[u]
    BY <1>2, LTypes
  <2> QED BY <1>2, <2>1, <2>2, NotWantedLeaves
<1> QED BY <1>1, <1>2 DEF AcceptConnection

\* The dialler's port asks for the link, or reads the answer.
LEMMA DiallerSteps ==
    ASSUME LInv, IInv', NEW t \in Trunks, NEW k \in Conns, k = connFd[t], EndOf(t) = "dialler",
           UNCHANGED <<connFd, ncbState, ncbFd>>,
           \A c \in Conns : c # k => tcp'[c] = tcp[c],
           tcp'[k].trunk = tcp[k].trunk, tcp'[k].phase = tcp[k].phase,
           tcp'[k].ends = tcp[k].ends, tcp'[k].response \in {tcp[k].response, "none"},
           NEW x \in {"RcvConnResp", "RcvBlock", "Disconnected"}, lip' = [lip EXCEPT ![t] = x],
           NEW n \in 0 .. MaxStaged, staged' = [staged EXCEPT ![t] = n],
           x = "RcvBlock" \/ n > 0 => tcp[k].response = "200" \/ staged[t] > 0
    PROVE  LInv'
<1>1. ConnectionOK(k) /\ DiallerOK(k) /\ AcceptorOK(k) /\ PortOK(t)
  BY DEF LInv
<1>2. /\ tcp[k].trunk = t /\ tcp[k].phase \notin {"unused", "dialling"}
      /\ "dialler" \in tcp[k].ends
  BY <1>1 DEF PortOK
<1>3. t \in Dialling /\ Peer(t) \in Trunks /\ Peer(t) # t
  <2>1. t \in Dialling
    BY <1>1, <1>2, StrangerOf DEF ConnectionOK
  <2> QED BY <2>1, PeerOf
<1>4. /\ lip'[t] = x /\ staged'[t] = n
      /\ \A u \in Trunks : u # t => lip'[u] = lip[u] /\ staged'[u] = staged[u]
  BY LTypes
<1>5. Apart(k, {t})
  BY <1>4 DEF Apart
<1>6. ConnectionOK(k)'
  BY <1>1, <1>2 DEF ConnectionOK
<1>7. DiallerOK(k)'
  BY <1>2, <1>4 DEF DiallerOK
<1>8. AcceptorOK(k)'
  BY <1>1, <1>2, <1>3, <1>4 DEF AcceptorOK, LinkOf, HasAnswer
<1>9. ASSUME NEW u \in Trunks, connFd'[u] = k PROVE PortOK(u)'
  <2>1. CASE u = t
    <3>1. EndOf(t)' = "dialler"
      BY DEF EndOf, EndAt
    <3> QED BY <1>2, <1>4, <2>1, <3>1 DEF PortOK
  <2>2. CASE u # t
    BY <1>4, <1>9, <2>2, PortStays
  <2> QED BY <2>1, <2>2
<1>10. ASSUME NEW u \in Trunks, ncbState'[u] = "Connecting", ncbFd'[u] = k PROVE NcbOK(u)'
  BY <1>10 DEF LInv, NcbOK
<1>11. \A u, v \in Trunks : Node(u) = Node(v) /\ connFd'[u] = k /\ connFd'[v] = k => u = v
  BY DEF LInv, Alone
<1> QED BY <1>5, <1>6, <1>7, <1>8, <1>9, <1>10, <1>11, Rebuilt

\* The acceptor's port answers, and the connection goes to the port of its trunk.
LEMMA AcceptRequestOpens ==
    ASSUME LInv, IInv', NEW t \in Trunks, NEW u \in Trunks, AcceptRequest(t, u)
    PROVE  LInv'
<1>1. PICK k \in Conns : k = connFd[t]
  BY LTypes DEF AcceptRequest, Requested
<1>2. PICK d : d = tcp[k].trunk
  OBVIOUS
<1>3. /\ connFd[t] = k /\ k # NoFd /\ EndOf(t) = "acceptor" /\ lip[t] = "RcvConnReq"
      /\ tcp[k].request \/ d \in Strangers
      /\ u = Peer(d) /\ (u = t \/ connFd[u] = NoFd)
      /\ connFd' = [connFd EXCEPT ![t] = NoFd, ![u] = k]
      /\ lip' = [lip EXCEPT ![u] = "RcvBlock"] /\ staged' = [staged EXCEPT ![u] = 0]
      /\ ncbState' = [ncbState EXCEPT ![u] = "Connected"]
      /\ \E fd : ncbFd' = [ncbFd EXCEPT ![u] = fd]
      /\ tcp' = Answered(t, "200")
  BY <1>1, <1>2 DEF AcceptRequest, Requested, StrangersText, Acceptable
<1>4. ConnectionOK(k) /\ DiallerOK(k) /\ PortOK(t)
  BY DEF LInv
<1>5. /\ tcp[k].phase \notin {"unused", "dialling", "established"} /\ d[2] = Node(t)
      /\ "acceptor" \in tcp[k].ends
  BY <1>2, <1>3, <1>4 DEF PortOK
<1>6. /\ d \in Dialling /\ d \in Trunks /\ Peer(u) = d /\ Node(d) = d[1]
      /\ Node(u) = d[2] /\ d[1] # d[2] /\ d # u /\ d # t
      /\ tcp[k].request
  <2>1. d \in Dialling
    BY <1>2, <1>3, <1>4, <1>5, StrangerOf DEF ConnectionOK
  <2> QED BY <1>3, <1>5, <2>1, PeerOf, StrangerOf
<1>7. /\ \A c \in Conns : c # k => tcp'[c] = tcp[c]
      /\ tcp'[k].trunk = d /\ tcp'[k].phase = tcp[k].phase /\ tcp'[k].ends = tcp[k].ends
  <2>1. connFd[t] # NoFd /\ "200" \in {"200", "3xx"} /\ tcp' = Answered(t, "200")
    BY <1>3
  <2>2. \A c \in Conns :
          /\ Answered(t, "200")[c].trunk = tcp[c].trunk
          /\ Answered(t, "200")[c].phase = tcp[c].phase
          /\ Answered(t, "200")[c].ends = tcp[c].ends
          /\ c # connFd[t] => Answered(t, "200")[c] = tcp[c]
    BY <2>1, AnsweredFields
  <2> QED BY <1>2, <1>3, <2>1, <2>2
<1>8. /\ connFd'[u] = k /\ lip'[u] = "RcvBlock" /\ ncbState'[u] = "Connected"
      /\ staged'[u] = 0 /\ (t # u => connFd'[t] = NoFd)
      /\ \A v \in Trunks : v # u => /\ lip'[v] = lip[v] /\ staged'[v] = staged[v] /\ ncbState'[v] = ncbState[v]
                                    /\ ncbFd'[v] = ncbFd[v]
                                    /\ v # t => connFd'[v] = connFd[v]
  BY <1>3, LTypes
<1>9. Apart(k, {t, u})
  <2>1. /\ connFd[u] \in {k, NoFd} /\ connFd'[u] \in {k, NoFd}
        /\ connFd[t] \in {k, NoFd} /\ connFd'[t] \in {k, NoFd}
    BY <1>3, <1>8
  <2>2. \A v \in Trunks : ncbState'[v] = "Connecting" => v # u
    BY <1>8
  <2> QED BY <1>7, <1>8, <2>1, <2>2 DEF Apart
<1>10. ConnectionOK(k)'
  BY <1>4, <1>5, <1>7, <1>2 DEF ConnectionOK
<1>11. DiallerOK(k)'
  <2>1. "dialler" \in tcp[k].ends =>
            connFd[d] = k /\ lip[d] \in {"RcvConnResp", "RcvBlock", "Disconnected"}
    BY <1>2, <1>3, <1>4, <1>6 DEF DiallerOK
  <2> QED BY <1>6, <1>7, <1>8, <2>1 DEF DiallerOK
<1>12. AcceptorOK(k)'
  BY <1>3, <1>7, <1>8 DEF AcceptorOK, LinkOf
<1>13. ASSUME NEW v \in Trunks, v # u, connFd'[v] = k PROVE v # t /\ connFd[v] = k
  <2>1. v # t
    BY <1>3, <1>8, <1>13
  <2> QED BY <1>8, <1>13, <2>1
<1>14. ASSUME NEW v \in Trunks, connFd'[v] = k PROVE PortOK(v)'
  <2>1. CASE v = u
    <3>1. EndOf(u)' = "acceptor"
      BY <1>6, <1>7, <1>8 DEF EndOf, EndAt
    <3>2. PortOK(u)'
      BY <1>5, <1>6, <1>7, <1>8, <3>1 DEF PortOK
    <3> QED BY <2>1, <3>2
  <2>2. CASE v # u
    <3>1. /\ connFd[v] = k /\ connFd'[v] = connFd[v] /\ lip'[v] = lip[v]
          /\ staged'[v] = staged[v]
      BY <1>8, <1>13, <1>14, <2>2
    <3>2. /\ connFd[v] # NoFd /\ tcp'[connFd[v]].trunk = tcp[connFd[v]].trunk
          /\ tcp'[connFd[v]].ends = tcp[connFd[v]].ends
          /\ tcp'[connFd[v]].phase = tcp[connFd[v]].phase
      BY <1>2, <1>3, <1>7, <3>1
    <3> QED BY <3>1, <3>2, PortStays
  <2> QED BY <2>1, <2>2
<1>15. ASSUME NEW v \in Trunks, ncbState'[v] = "Connecting", ncbFd'[v] = k PROVE NcbOK(v)'
  <2>1. v # u
    BY <1>8, <1>15
  <2>2. NcbOK(v) /\ ncbState[v] = "Connecting" /\ ncbFd[v] = k
    BY <1>8, <1>15, <2>1 DEF LInv
  <2>3. connFd'[v] # k
    BY <1>13, <2>1, <2>2 DEF NcbOK
  <2> QED BY <1>2, <1>7, <1>15, <2>2, <2>3 DEF NcbOK
<1>16. ASSUME NEW v \in Trunks, v # u, Node(v) = Node(u) PROVE connFd'[v] # k
  <2> SUFFICES ASSUME connFd'[v] = k PROVE FALSE
    OBVIOUS
  <2>1. v # t /\ connFd[v] = k
    BY <1>13, <1>16
  <2>2. Node(v) = Node(t)
    BY <1>5, <1>6, <1>16
  <2> QED BY <1>3, <2>1, <2>2 DEF LInv, Alone
<1>17. \A v, w \in Trunks : Node(v) = Node(w) /\ connFd'[v] = k /\ connFd'[w] = k => v = w
  <2> SUFFICES ASSUME NEW v \in Trunks, NEW w \in Trunks, Node(v) = Node(w),
                      connFd'[v] = k, connFd'[w] = k
               PROVE  v = w
    OBVIOUS
  <2>1. CASE v = u \/ w = u
    BY <1>16, <2>1
  <2>2. CASE v # u /\ w # u
    <3>1. connFd[v] = k /\ connFd[w] = k
      BY <1>13, <2>2
    <3> QED BY <1>3, <3>1 DEF LInv, Alone
  <2> QED BY <2>1, <2>2
<1> QED BY <1>9, <1>10, <1>11, <1>12, <1>14, <1>15, <1>17, Rebuilt

LEMMA SendConnectRequestOpens ==
    ASSUME LInv, IInv', NEW t \in Trunks, SendConnectRequest(t), ~CloseConnection(t, tcp)
    PROVE  LInv'
<1>1. PICK k \in Conns : k = connFd[t]
  BY LTypes DEF SendConnectRequest
<1>2. tcp[k] \in Connections /\ EndOf(t) = "dialler" /\ lip[t] = "SndConnReq"
  BY <1>1, LTypes DEF LInv, PortOK, SendConnectRequest
<1> DEFINE r == PeerIsOpen(t)
<1>3. /\ tcp' = [tcp EXCEPT ![k].request = r] /\ lip' = [lip EXCEPT ![t] = "RcvConnResp"]
      /\ UNCHANGED <<connFd, staged, ncbState, ncbFd>>
  BY <1>1 DEF SendConnectRequest, ncbVars
<1> HIDE DEF r
<1>4. /\ \A c \in Conns : c # k => tcp'[c] = tcp[c]
      /\ tcp'[k].trunk = tcp[k].trunk /\ tcp'[k].phase = tcp[k].phase
      /\ tcp'[k].ends = tcp[k].ends /\ tcp'[k].response \in {tcp[k].response, "none"}
  BY <1>2, <1>3, LTypes DEF Connections
<1>5. PICK n \in 0 .. MaxStaged : n = staged[t]
  BY LTypes
<1>6. staged' = [staged EXCEPT ![t] = n]
  BY <1>3, <1>5, LTypes
<1> QED BY <1>1, <1>2, <1>3, <1>4, <1>5, <1>6, DiallerSteps, ZenonT(60)

\* Text that is read changes nothing but the port and what was on its way.
LEMMA TextFields ==
    ASSUME LInv, NEW t \in Trunks, NEW k \in Conns, k = connFd[t], tcp' = Emptied(t)
    PROVE  /\ \A c \in Conns : c # k => tcp'[c] = tcp[c]
           /\ tcp'[k].trunk = tcp[k].trunk /\ tcp'[k].phase = tcp[k].phase
           /\ tcp'[k].ends = tcp[k].ends
           /\ ~tcp'[k].request /\ tcp'[k].response = "none"
<1>1. tcp \in [Conns -> Connections] /\ tcp[k] \in Connections
  BY LTypes
<1> QED BY <1>1 DEF Emptied, Connections

\* The dialler's port reads the answer.
LEMMA AcceptedText ==
    ASSUME LInv, IInv', NEW t \in Trunks, Accepted(t),
           LinkAccepted(t) \/ StageText(t) \/ OverflowStaging(t)
    PROVE  LInv'
<1>1. PICK k \in Conns : k = connFd[t]
  BY LTypes DEF Accepted, Responded
<1>2. /\ EndOf(t) = "dialler" /\ lip[t] = "RcvConnResp"
      /\ tcp[k].response = "200" \/ staged[t] > 0
  BY <1>1 DEF LInv, PortOK, Accepted, Responded
<1>3. tcp' = Emptied(t) /\ UNCHANGED <<connFd, ncbState, ncbFd>>
  BY DEF LinkAccepted, StageText, OverflowStaging, ncbVars
<1>4. /\ \A c \in Conns : c # k => tcp'[c] = tcp[c]
      /\ tcp'[k].trunk = tcp[k].trunk /\ tcp'[k].phase = tcp[k].phase
      /\ tcp'[k].ends = tcp[k].ends /\ tcp'[k].response \in {tcp[k].response, "none"}
  BY <1>1, <1>3, TextFields
<1>5. PICK x \in {"RcvConnResp", "RcvBlock", "Disconnected"} : lip' = [lip EXCEPT ![t] = x]
  <2>1. lip = [lip EXCEPT ![t] = "RcvConnResp"]
    BY <1>2, LTypes
  <2> QED BY <2>1 DEF LinkAccepted, StageText, OverflowStaging
<1>6. PICK n \in 0 .. MaxStaged : staged' = [staged EXCEPT ![t] = n]
  <2>1. CASE StageText(t)
    <3>1. staged[t] + 1 \in 0 .. MaxStaged
      BY <2>1, LTypes DEF StageText
    <3> QED BY <2>1, <3>1 DEF StageText
  <2>2. CASE LinkAccepted(t) \/ OverflowStaging(t)
    <3>1. 0 \in 0 .. MaxStaged
      OBVIOUS
    <3> QED BY <2>2, <3>1 DEF LinkAccepted, OverflowStaging
  <2> QED BY <2>1, <2>2
<1> QED BY <1>1, <1>2, <1>3, <1>4, <1>5, <1>6, DiallerSteps

\* The acceptor's port reads a text that is no system's.
LEMMA StrangersTextStays ==
    ASSUME LInv, IInv', NEW t \in Trunks, StrangersText(t), StageText(t) \/ OverflowStaging(t)
    PROVE  LInv'
<1>1. PICK k \in Conns : k = connFd[t]
  BY LTypes DEF StrangersText
<1>2. /\ tcp[k].trunk \in Strangers /\ lip[t] = "RcvConnReq"
      /\ tcp' = Emptied(t) /\ UNCHANGED <<connFd, ncbState, ncbFd>>
  BY <1>1 DEF StrangersText, StageText, OverflowStaging, ncbVars
<1>3. /\ \A c \in Conns : c # k => tcp'[c] = tcp[c]
      /\ tcp'[k].trunk = tcp[k].trunk /\ tcp'[k].phase = tcp[k].phase
      /\ tcp'[k].ends = tcp[k].ends /\ ~tcp'[k].request /\ tcp'[k].response = "none"
  BY <1>1, <1>2, TextFields
<1>4. /\ lip'[t] \in {"RcvConnReq", "Disconnected"}
      /\ \A u \in Trunks : u # t => lip'[u] = lip[u] /\ staged'[u] = staged[u]
  BY <1>2, LTypes DEF StageText, OverflowStaging
<1>5. ConnectionOK(k) /\ PortOK(t) /\ tcp[k].trunk \notin Dialling
  BY <1>2, StrangerOf DEF LInv
<1>6. Apart(k, {t})
  BY <1>1, <1>2, <1>3, <1>4 DEF Apart
<1>7. ConnectionOK(k)' /\ DiallerOK(k)' /\ AcceptorOK(k)'
  BY <1>3, <1>5 DEF ConnectionOK, DiallerOK, AcceptorOK
<1>8. ASSUME NEW u \in Trunks, connFd'[u] = k PROVE PortOK(u)'
  <2>1. CASE u = t
    <3>1. EndOf(t) = "acceptor" /\ EndOf(t)' = EndOf(t)
      BY <1>1, <1>2, <1>3, <1>5 DEF PortOK, EndOf, EndAt
    <3> QED BY <1>1, <1>2, <1>3, <1>4, <1>5, <2>1, <3>1 DEF PortOK
  <2>2. CASE u # t
    BY <1>2, <1>3, <1>4, <1>8, <2>2, PortStays
  <2> QED BY <2>1, <2>2
<1>9. ASSUME NEW u \in Trunks, ncbState'[u] = "Connecting", ncbFd'[u] = k PROVE NcbOK(u)'
  BY <1>2, <1>3, <1>9 DEF LInv, NcbOK
<1>10. \A u, v \in Trunks : Node(u) = Node(v) /\ connFd'[u] = k /\ connFd'[v] = k => u = v
  BY <1>2 DEF LInv, Alone
<1> QED BY <1>6, <1>7, <1>8, <1>9, <1>10, Rebuilt

\* Another program calls: no port has the connection yet.
LEMMA CallOpens ==
    ASSUME LInv, IInv', NEW k \in Conns, Call(k)
    PROVE  LInv'
<1>1. PICK s \in Strangers :
        tcp' = [tcp EXCEPT ![k] = [Unused EXCEPT !.trunk = s, !.phase = "established",
                                                 !.ends = {"dialler", "acceptor"}]]
  BY DEF Call
<1>2. /\ \A c \in Conns : c # k => tcp'[c] = tcp[c]
      /\ tcp'[k].trunk = s /\ tcp'[k].phase = "established"
      /\ tcp'[k].ends = {"dialler", "acceptor"}
  BY <1>1, LTypes DEF Unused
<1>3. UNCHANGED <<connFd, lip, staged, ncbState, ncbFd>>
  BY DEF Call, portVars, ncbVars
<1>4. \A u \in Trunks : connFd'[u] # k /\ ~(ncbState'[u] = "Connecting" /\ ncbFd'[u] = k)
  BY <1>3 DEF Call, Reusable
<1>5. Apart(k, {})
  BY <1>2, <1>3 DEF Apart
<1>6. ConnectionOK(k)' /\ DiallerOK(k)' /\ AcceptorOK(k)'
  BY <1>2, StrangerOf DEF ConnectionOK, DiallerOK, AcceptorOK
<1> QED BY <1>4, <1>5, <1>6, Rebuilt

\* It hangs up.
LEMMA HangUpLeaves ==
    ASSUME LInv, IInv', NEW k \in Conns, HangUp(k)
    PROVE  LInv'
<1> DEFINE gone == [c \in Conns |-> IF c = k THEN "dialler" ELSE "none"]
           w == WithoutEnd(tcp[k], "dialler")
<1>1. /\ tcp[k].trunk \in Strangers /\ tcp[k].phase = "accepted" /\ "dialler" \in tcp[k].ends
      /\ tcp' = [tcp EXCEPT ![k] = w] /\ tcp[k] \in Connections
      /\ UNCHANGED <<connFd, lip, staged, ncbState, ncbFd>>
  BY LTypes DEF HangUp, portVars, ncbVars
<1>2. gone \in [Conns -> {"dialler", "acceptor", "none"}]
  OBVIOUS
<1>3. ASSUME NEW c \in Conns
      PROVE  IF gone[c] = "none" THEN tcp'[c] = tcp[c] ELSE Leaves(c, gone[c])
  <2>1. CASE c = k
    <3>1. /\ w.ends = tcp[k].ends \ {"dialler"}
          /\ w.ends # {} => w.trunk = tcp[k].trunk /\ w.phase = tcp[k].phase
          /\ w.ends = {} => w.phase = "unused"
          /\ w.request => tcp[k].request
          /\ w.response = "none"
      BY <1>1, WithoutEndLeaves
    <3>2. tcp'[c] = w
      BY <1>1, <2>1, LTypes
    <3> HIDE DEF w
    <3> QED BY <1>1, <2>1, <3>1, <3>2 DEF Leaves
  <2>2. CASE c # k
    BY <1>1, <2>2, LTypes
  <2> QED BY <2>1, <2>2
<1>4. ASSUME NEW u \in Trunks
      PROVE  IF connFd[u] # NoFd /\ gone[connFd[u]] = EndOf(u) THEN connFd'[u] = NoFd
             ELSE /\ connFd'[u] = connFd[u]
                  /\ connFd[u] # NoFd => lip'[u] = lip[u] /\ staged'[u] = staged[u]
  <2>1. connFd[u] = k => EndOf(u) # "dialler"
    BY <1>1, StrangerOf DEF EndOf, EndAt
  <2>2. EndOf(u) # "none" /\ (connFd[u] # NoFd => connFd[u] \in Conns)
    BY LTypes DEF EndOf, EndAt
  <2> QED BY <1>1, <2>1, <2>2
<1>5. ASSUME NEW u \in Trunks, ncbState'[u] = "Connecting"
      PROVE  /\ ncbState[u] = "Connecting" /\ ncbFd'[u] = ncbFd[u]
             /\ gone[ncbFd[u]] # "dialler"
  <2>1. ncbState[u] = "Connecting" /\ ncbFd'[u] = ncbFd[u] /\ ncbFd[u] \in Conns
    BY <1>1, <1>5, LTypes
  <2>2. tcp[ncbFd[u]].trunk = u
    BY <2>1 DEF LInv, NcbOK
  <2> QED BY <1>1, <2>1, <2>2, StrangerOf
<1> HIDE DEF gone
<1> QED BY <1>2, <1>3, <1>4, <1>5, EndsLeave

-----------------------------------------------------------------------------
(* The invariant.                                                          *)

LEMMA InitLInv == Init => LInv
<1> SUFFICES ASSUME Init PROVE LInv
  OBVIOUS
<1>1. IInv
  BY InitIInv
<1>2. \A c \in Conns : tcp[c] = Unused
  BY DEF Init
<1>3. \A t \in Trunks : connFd[t] = NoFd /\ lip[t] = "Disconnected" /\ ncbState[t] = "Init"
  BY DEF Init
<1>4. \A c \in Conns : ConnectionOK(c) /\ DiallerOK(c) /\ AcceptorOK(c)
  BY <1>2 DEF ConnectionOK, DiallerOK, AcceptorOK, Unused
<1>5. \A t \in Trunks : PortOK(t) /\ NcbOK(t)
  BY <1>3 DEF PortOK, NcbOK
<1>6. Alone
  BY <1>3 DEF Alone
<1> QED BY <1>1, <1>4, <1>5, <1>6 DEF LInv

LEMMA NextLInv == LInv /\ [Next]_vars => LInv'
<1> SUFFICES ASSUME LInv, [Next]_vars PROVE LInv'
  OBVIOUS
<1>1. IInv'
  BY NextIInv DEF LInv
<1>2. ASSUME UNCHANGED <<tcp, connFd, lip, staged, ncbState, ncbFd>> PROVE LInv'
  BY <1>1, <1>2 DEF LInv, ConnectionOK, DiallerOK, AcceptorOK, PortOK, NcbOK, Alone, LinkOf,
                    HasAnswer, EndOf, EndAt
<1>3. CASE UNCHANGED vars
  BY <1>2, <1>3 DEF vars, portVars, ncbVars
<1>4. ASSUME NEW c \in Conns,
             \/ Establish(c) \/ Break(c) \/ AcceptConnection(c) \/ Call(c) \/ HangUp(c)
      PROVE  LInv'
  BY <1>1, <1>4, TcpOpens, AcceptConnectionOpens, CallOpens, HangUpLeaves
<1>5. ASSUME NEW t \in Trunks, CreateConnections(t) PROVE LInv'
  <2>1. CASE Dial(t)
    BY <1>1, <2>1, DialOpens
  <2>2. CASE DialFails(t)
    BY <1>1, <2>2, DialFailsLeaves
  <2>3. CASE DialSucceeds(t)
    BY <1>1, <2>3, DialSucceedsOpens, DialBusyLeaves
  <2> QED BY <1>5, <2>1, <2>2, <2>3 DEF CreateConnections
<1>6. ASSUME NEW t \in Trunks, CheckStatus(t) PROVE LInv'
  <2>1. CASE NotifyNetDisconnect(t)
    BY <1>1, <2>1, ClosingSteps
  <2>2. CASE ProcessConnectRequest(t)
    <3>1. PICK u : RefuseRequest(t, u) \/ AcceptRequest(t, u) \/ AcceptRequestInVain(t, u)
      BY <2>2 DEF ProcessConnectRequest
    <3>2. CASE AcceptRequest(t, u)
      <4>1. u \in Trunks
        BY <3>2 DEF AcceptRequest, Acceptable
      <4> QED BY <1>1, <3>2, <4>1, AcceptRequestOpens
    <3>3. CASE RefuseRequest(t, u) \/ AcceptRequestInVain(t, u)
      BY <1>1, <3>3, ClosingSteps
    <3> QED BY <3>1, <3>2, <3>3
  <2>3. CASE ProcessConnectResponse(t)
    BY <1>1, <2>3, ClosingSteps, AcceptedText DEF ProcessConnectResponse, LinkAccepted
  <2>4. CASE TryOutput(t)
    BY <1>1, <2>4, ClosingSteps, SendConnectRequestOpens DEF TryOutput
  <2>5. CASE StageText(t) \/ OverflowStaging(t)
    <3>1. Accepted(t) \/ StrangersText(t)
      BY <2>5 DEF StageText, OverflowStaging, EndsInMidLine
    <3> QED BY <1>1, <2>5, <3>1, AcceptedText, StrangersTextStays
  <2> QED BY <1>6, <2>1, <2>2, <2>3, <2>4, <2>5 DEF CheckStatus, ProcessUplineData
<1>7. ASSUME NEW n \in Nodes, NpuReset(n) PROVE LInv'
  BY <1>1, <1>7, NpuResetLeaves
<1>8. ASSUME NEW n \in Nodes, Supervised(n) PROVE LInv'
  BY <1>2, <1>8 DEF Supervised, portVars, ncbVars
<1> QED BY <1>3, <1>4, <1>5, <1>6, <1>7, <1>8 DEF Next

LEMMA OwnLinks == LInv => LinkOwnsConnection
<1> SUFFICES ASSUME LInv, NEW t \in Trunks, lip[t] = "RcvBlock"
             PROVE  /\ connFd[t] # NoFd
                    /\ tcp[connFd[t]].trunk \in {t, Peer(t)} /\ EndOf(t) \in tcp[connFd[t]].ends
                    /\ \A u \in TrunksOf(Node(t)) \ {t} : connFd[u] # connFd[t]
                    /\ PeerIsOpen(t) =>
                         /\ connFd[Peer(t)] = connFd[t]
                         /\ \/ lip[Peer(t)] = "RcvBlock"
                            \/ /\ EndOf(t) = "acceptor"
                               /\ lip[Peer(t)] \in {"RcvConnResp", "Disconnected"}
  BY DEF LinkOwnsConnection
<1>1. connFd[t] # NoFd /\ connFd[t] \in Conns
  BY LTypes DEF LInv, IInv, LinkHasConnection
<1> DEFINE c == connFd[t]
           d == tcp[c].trunk
<1>2. PortOK(t) /\ ConnectionOK(c) /\ DiallerOK(c) /\ AcceptorOK(c)
  BY <1>1 DEF LInv
<1>3. d \in {t, Peer(t)} /\ EndOf(t) \in tcp[c].ends /\ d \in Dialling
  <2>1. d \in {t, Peer(t)} /\ EndOf(t) \in tcp[c].ends /\ d \in Dialling \cup Strangers
    BY <1>1, <1>2 DEF PortOK, ConnectionOK
  <2>2. t = <<t[1], t[2]>> /\ t[1] \in Nat /\ t[2] \in Nat
    OBVIOUS
  <2>3. Peer(t)[1] \in Nat /\ t[1] \in Nat
    BY <2>2 DEF Peer
  <2>4. d \in Strangers => d[1] = -1
    BY DEF Strangers
  <2> QED BY <2>1, <2>3, <2>4
<1>4. \A u \in TrunksOf(Node(t)) \ {t} : connFd[u] # connFd[t]
  BY <1>1 DEF LInv, Alone, TrunksOf
<1>5. d \in Trunks /\ Peer(Peer(d)) = d /\ Node(d) = d[1] /\ Node(Peer(d)) = d[2] /\ d[1] # d[2]
  BY <1>3, PeerOf
<1>6. t = <<t[1], t[2]>>
  OBVIOUS
<1>7. ASSUME PeerIsOpen(t)
      PROVE  /\ connFd[Peer(t)] = connFd[t]
             /\ \/ lip[Peer(t)] = "RcvBlock"
                \/ EndOf(t) = "acceptor" /\ lip[Peer(t)] \in {"RcvConnResp", "Disconnected"}
  <2>1. CASE d = t
    <3>1. EndOf(t) = "dialler" /\ "acceptor" \in tcp[c].ends
      BY <1>7, <2>1 DEF EndOf, EndAt, Node, PeerIsOpen, OtherEnd
    <3> QED BY <1>2, <1>3, <2>1, <3>1 DEF AcceptorOK, LinkOf, HasAnswer
  <2>2. CASE d = Peer(t)
    <3>1. d[1] = t[2] /\ t[1] # t[2]
      BY <2>2 DEF Peer
    <3>2. EndOf(t) = "acceptor" /\ "dialler" \in tcp[c].ends
      BY <1>7, <3>1 DEF EndOf, EndAt, Node, PeerIsOpen, OtherEnd
    <3>3. Node(t) # Node(d)
      BY <3>1 DEF Node
    <3>4. LinkOf(t, c)
      BY DEF LinkOf
    <3> HIDE DEF c
    <3> QED BY <1>2, <1>3, <2>2, <3>2, <3>3, <3>4 DEF DiallerOK, c
  <2> QED BY <1>3, <2>1, <2>2
<1> QED BY <1>1, <1>3, <1>4, <1>7

\* A link has its connection to itself, and so has the peer's port at its other end, up, or
\* still to recognise the response, or disconnected by an overflow of its staging buffer
\* (npu_lip.c): whatever is dialled, accepted, refused, moved to the port of its trunk,
\* timed out, reset or lost meanwhile, at either end, and whoever else calls.
THEOREM LinksOwnTheirConnections == Spec => []LinkOwnsConnection
<1>1. Init => LInv
  BY InitLInv
<1>2. LInv /\ [Next]_vars => LInv'
  BY NextLInv
<1>3. LInv => LinkOwnsConnection
  BY OwnLinks
<1> QED BY <1>1, <1>2, <1>3, PTL DEF Spec

=============================================================================
