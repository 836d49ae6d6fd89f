-------------------------- MODULE NpuCouplerProofs --------------------------
(***************************************************************************)
(* Proofs about NpuCoupler, for any number of buffers, any contents and    *)
(* any host, restarted or not: its types, that a buffer has one owner,     *)
(* that blocks are queued only behind a pending one, that host and NPU     *)
(* agree about the transfer under way, that no pending block is left       *)
(* unannounced, and that the blocks that go upline implement UplineQueue.  *)
(***************************************************************************)
EXTENDS NpuCoupler, SequenceTheorems, TLAPS

USE BuffersAssumption, BlocksAssumption, ReportAssumption, RestartsAssumption

-----------------------------------------------------------------------------
(* The upline queue as a sequence.                                         *)

\* The set of a sequence's elements after an append, and without its head.
LEMMA ToSetAppend ==
  ASSUME NEW S, NEW s \in Seq(S), NEW e \in S
  PROVE  ToSet(Append(s, e)) = ToSet(s) \cup {e}
  BY AppendProperties, LenProperties DEF ToSet

LEMMA ToSetTail ==
  ASSUME NEW S, NEW s \in Seq(S), s # <<>>
  PROVE  /\ Head(s) \in ToSet(s)
         /\ ToSet(Tail(s)) \subseteq ToSet(s)
         /\ ToSet(s) = {Head(s)} \cup ToSet(Tail(s))
         /\ IsInjective(s) => Head(s) \notin ToSet(Tail(s)) /\ IsInjective(Tail(s))
  <1>1. /\ DOMAIN s = 1 .. Len(s) /\ Len(s) \in Nat \ {0}
        /\ DOMAIN Tail(s) = 1 .. Len(s) - 1
        /\ \A i \in 1 .. Len(s) - 1 : Tail(s)[i] = s[i + 1]
        /\ Head(s) = s[1]
    BY HeadTailProperties, LenProperties, EmptySeq
  <1>2. Head(s) \in ToSet(s) /\ ToSet(Tail(s)) \subseteq ToSet(s)
    BY <1>1 DEF ToSet
  <1>3. ASSUME NEW i \in 1 .. Len(s)
        PROVE  s[i] \in {Head(s)} \cup ToSet(Tail(s))
    <2>1. CASE i = 1
      BY <1>1, <2>1
    <2>2. CASE i # 1
      <3>1. i - 1 \in 1 .. Len(s) - 1 /\ Tail(s)[i - 1] = s[i]
        BY <1>1, <2>2
      <3>2. QED
        BY <1>1, <3>1 DEF ToSet
    <2>3. QED
      BY <2>1, <2>2
  <1>6. ToSet(s) \subseteq {Head(s)} \cup ToSet(Tail(s))
    BY <1>1, <1>3 DEF ToSet
  <1>4. ASSUME IsInjective(s)
        PROVE  Head(s) \notin ToSet(Tail(s)) /\ IsInjective(Tail(s))
    BY <1>1, <1>4 DEF ToSet, IsInjective
  <1>5. QED
    BY <1>2, <1>6, <1>4

LEMMA AppendIsInjective ==
  ASSUME NEW S, NEW s \in Seq(S), NEW e \in S, IsInjective(s), e \notin ToSet(s)
  PROVE  IsInjective(Append(s, e))
  BY AppendProperties, LenProperties DEF ToSet, IsInjective

\* Taking the next block from the queue.
LEMMA QueueExtract ==
  ASSUME bipUplineQueue \in Seq(Buffers)
  PROVE  /\ NextUpline \in Buffers \cup {None} /\ RestUpline \in Seq(Buffers)
         /\ NextUpline = None <=> bipUplineQueue = <<>>
         /\ ToSet(bipUplineQueue) = ToSet(RestUpline) \cup ({NextUpline} \ {None})
         /\ IsInjective(bipUplineQueue) =>
               IsInjective(RestUpline) /\ NextUpline \notin ToSet(RestUpline)
  <1>1. CASE bipUplineQueue = <<>>
    BY <1>1 DEF NextUpline, RestUpline, ToSet
  <1>2. CASE bipUplineQueue # <<>>
    BY <1>2, ToSetTail, HeadTailProperties DEF NextUpline, RestUpline
  <1>3. QED
    BY <1>1, <1>2

-----------------------------------------------------------------------------
(* Types.                                                                  *)

HipTypes == /\ hipState \in {"StHipInit", "StHipIdle", "StHipUpline", "StHipDownline"}
            /\ regNpuStatus \in Statuses /\ hipBuffer \in Buffers \cup {None}

UpTypes == bipUplineBuffer \in Buffers \cup {None} /\ bipUplineQueue \in Seq(Buffers)

DownTypes == /\ bipState \in {"BipIdle", "BipDownSvm", "BipDownData"}
             /\ bipDownlineBuffer \in Buffers \cup {None}

MemTypes == /\ bufPool \subseteq Buffers /\ held \subseteq Buffers
            /\ inHand \in Buffers \cup {None}
            /\ data \in [Buffers -> Blocks \cup {None}]

HostTypes == /\ initCount \in 0 .. ReportInitCount
             /\ phase \in {"pp", "check", "order", "dispatch"}
             /\ host \in {"watching", "sawInput", "ordering", "ordered", "sawReady", "restarted"}
             /\ lastRead \in Blocks \cup {None} /\ displaced \in Buffers \cup {None}

LEMMA TypeParts ==
  TypeOK <=> HipTypes /\ UpTypes /\ DownTypes /\ MemTypes /\ HostTypes
  BY DEF TypeOK, HipTypes, UpTypes, DownTypes, MemTypes, HostTypes

LEMMA EndTransferTypes ==
  ASSUME HipTypes, NEW next \in Buffers \cup {None}, EndTransfer(next)
  PROVE  HipTypes'
  BY DEF HipTypes, EndTransfer, Announce, Statuses

LEMMA RetryInputTypes ==
  ASSUME HipTypes, UpTypes, RetryInput
  PROVE  HipTypes'
  BY DEF HipTypes, UpTypes, RetryInput, UplineBlock, Announce, hipVars, Statuses

LEMMA RequestTypes ==
  ASSUME HipTypes, UpTypes, NEW b \in Buffers, RequestUplineTransfer(b)
  PROVE  HipTypes' /\ UpTypes'
  BY AppendProperties DEF HipTypes, UpTypes, RequestUplineTransfer, UplineBlock, Announce,
       hipVars, Statuses

LEMMA NotifyUplineSentTypes ==
  ASSUME HipTypes, UpTypes, MemTypes, NotifyUplineSent
  PROVE  HipTypes' /\ UpTypes' /\ bufPool' \subseteq Buffers
  BY QueueExtract, EndTransferTypes DEF UpTypes, MemTypes, NotifyUplineSent

LEMMA ResetTypes ==
  ASSUME TypeOK, Reset
  PROVE  HipTypes' /\ UpTypes' /\ DownTypes' /\ MemTypes' /\ initCount' \in 0 .. ReportInitCount
  BY LenProperties DEF TypeOK, HipTypes, UpTypes, DownTypes, MemTypes, Reset, Statuses, ToSet

LEMMA InitTypes == Init => TypeOK
  BY DEF Init, TypeOK, Statuses


LEMMA NextTypes ==
  ASSUME TypeOK, [Next]_vars
  PROVE  TypeOK'
  <1> USE DEF HipTypes, UpTypes, DownTypes, MemTypes, HostTypes,
              hipVars, upVars, downVars, memVars, hostVars
  <1>0. HipTypes /\ UpTypes /\ DownTypes /\ MemTypes /\ HostTypes
    BY TypeParts
  <1>1. SUFFICES HipTypes' /\ UpTypes' /\ DownTypes' /\ MemTypes' /\ HostTypes'
    BY TypeParts DEF TypeOK
  <1>2. CASE PollInit
    BY <1>0, <1>2 DEF PollInit, Statuses
  <1>3. CASE PollIdle \/ EndCheck
    BY <1>0, <1>3 DEF PollIdle, EndCheck, Statuses
  <1>4. CASE ReadNpuStatus
    BY <1>0, <1>4 DEF ReadNpuStatus, Statuses
  <1>5. CASE ReadBlock
    BY <1>0, <1>5, NotifyUplineSentTypes DEF ReadBlock
  <1>6. CASE \E state \in {"BipDownSvm", "BipDownData"} : OutputOrder(state)
    BY <1>0, <1>6 DEF OutputOrder, Statuses
  <1>7. CASE OrderFunction \/ RetryOrder \/ UnknownOrder
    BY <1>0, <1>7 DEF OrderFunction, RetryOrder, UnknownOrder, Statuses
  <1>8. CASE EndOrder
    BY <1>0, <1>8, RetryInputTypes DEF EndOrder
  <1>9. CASE AbortDownlineReceived
    <2>1. HipTypes'
      BY <1>0, <1>9, EndTransferTypes DEF AbortDownlineReceived
    <2>2. QED
      BY <1>0, <1>9, <2>1 DEF AbortDownlineReceived
  <1>10. CASE NotifyDownlineReceived
    BY <1>0, <1>10 DEF NotifyDownlineReceived
  <1>11. CASE EndDispatch
    <2>1. HipTypes'
      BY <1>0, <1>11, RetryInputTypes DEF EndDispatch
    <2>2. QED
      BY <1>0, <1>11, <2>1 DEF EndDispatch
  <1>12. CASE ClearNpu
    BY <1>0, <1>12, ResetTypes DEF ClearNpu
  <1>13. CASE HostRestart
    BY <1>0, <1>13 DEF HostRestart
  <1>14. CASE ClientRequest
    <2>1. HipTypes' /\ UpTypes'
      BY <1>0, <1>14, RequestTypes DEF ClientRequest
    <2>2. QED
      BY <1>0, <1>14, <2>1 DEF ClientRequest
  <1>15. CASE ClientHold \/ ClientRelease
    BY <1>0, <1>15 DEF ClientHold, ClientRelease
  <1>16. CASE ClientForward
    <2>1. HipTypes' /\ UpTypes'
      BY <1>0, <1>16, RequestTypes DEF ClientForward
    <2>2. QED
      BY <1>0, <1>16, <2>1 DEF ClientForward
  <1>17. CASE DispatchRelease \/ DispatchKeep
    BY <1>0, <1>17 DEF DispatchRelease, DispatchKeep
  <1>18. CASE DispatchForward
    <2>1. HipTypes' /\ UpTypes'
      BY <1>0, <1>18, RequestTypes DEF DispatchForward
    <2>2. QED
      BY <1>0, <1>18, <2>1 DEF DispatchForward
  <1>19. CASE DispatchReset
    BY <1>0, <1>19, ResetTypes DEF DispatchReset
  <1>20. CASE UNCHANGED vars
    BY <1>0, <1>20 DEF vars
  <1>21. QED
    BY <1>2, <1>3, <1>4, <1>5, <1>6, <1>7, <1>8, <1>9, <1>10, <1>11, <1>12, <1>13, <1>14,
       <1>15, <1>16, <1>17, <1>18, <1>19, <1>20 DEF Next, Host, Client

\* Every state of the coupler has the types of TypeOK.
THEOREM TypeCorrect == Spec => []TypeOK
  BY InitTypes, NextTypes, PTL DEF Spec

-----------------------------------------------------------------------------
(* A buffer has one owner.                                                 *)

\* OneOwner, owner by owner.
Apart == /\ \A b \in bufPool : /\ b \notin held /\ b \notin ToSet(bipUplineQueue)
                                /\ b \notin {bipUplineBuffer, bipDownlineBuffer, inHand}
         /\ \A b \in held : /\ b \notin ToSet(bipUplineQueue)
                             /\ b \notin {bipUplineBuffer, bipDownlineBuffer, inHand}
         /\ \A b \in ToSet(bipUplineQueue) :
               b \notin {bipUplineBuffer, bipDownlineBuffer, inHand}
         /\ bipUplineBuffer # None => bipUplineBuffer \notin {bipDownlineBuffer, inHand}
         /\ bipDownlineBuffer # None => bipDownlineBuffer # inHand

Injective == IsInjective(bipUplineQueue)

LEMMA QueueOfBuffers ==
  ASSUME bipUplineQueue \in Seq(Buffers)
  PROVE  ToSet(bipUplineQueue) \subseteq Buffers
  BY LenProperties DEF ToSet

LEMMA OwnersApart ==
  ASSUME TypeOK
  PROVE  OneOwner <=> Injective /\ Apart
  <1>1. /\ Owners[1] = bufPool /\ Owners[2] = held /\ Owners[3] = ToSet(bipUplineQueue)
        /\ Owners[4] = {bipUplineBuffer} \ {None}
        /\ Owners[5] = {bipDownlineBuffer} \ {None}
        /\ Owners[6] = {inHand} \ {None}
    BY DEF Owners
  <1>2. /\ bufPool \subseteq Buffers /\ held \subseteq Buffers
        /\ ToSet(bipUplineQueue) \subseteq Buffers
    BY QueueOfBuffers DEF TypeOK
  <1>3. ASSUME OneOwner
        PROVE  Injective /\ Apart
    <2>1. \A i, j \in 1 .. 6 : i < j => Owners[i] \cap Owners[j] = {}
      BY <1>3 DEF OneOwner
    <2>2. /\ \A j \in 2 .. 6 : Owners[1] \cap Owners[j] = {}
          /\ \A j \in 3 .. 6 : Owners[2] \cap Owners[j] = {}
          /\ \A j \in 4 .. 6 : Owners[3] \cap Owners[j] = {}
          /\ \A j \in 5 .. 6 : Owners[4] \cap Owners[j] = {}
          /\ Owners[5] \cap Owners[6] = {}
      BY <2>1
    <2>3. QED
      BY <1>1, <1>2, <1>3, <2>2 DEF OneOwner, Injective, Apart
  <1>4. ASSUME Injective, Apart
        PROVE  OneOwner
    <2>1. ASSUME NEW i \in 1 .. 6, NEW j \in 1 .. 6, i < j
          PROVE  Owners[i] \cap Owners[j] = {}
      <3>1. CASE i = 1
        BY <1>1, <1>2, <1>4, <2>1, <3>1 DEF Apart
      <3>2. CASE i = 2
        BY <1>1, <1>2, <1>4, <2>1, <3>2 DEF Apart
      <3>3. CASE i = 3
        BY <1>1, <1>2, <1>4, <2>1, <3>3 DEF Apart
      <3>4. CASE i = 4 \/ i = 5
        BY <1>1, <1>2, <1>4, <2>1, <3>4 DEF Apart
      <3>5. QED
        BY <2>1, <3>1, <3>2, <3>3, <3>4
    <2>2. QED
      BY <1>4, <2>1 DEF OneOwner, Injective
  <1>5. QED
    BY <1>3, <1>4

OwnInv == Injective /\ Apart /\ QueuedBehindPending

\* What a request and the end of a transfer do to the queue.
LEMMA RequestEffect ==
  ASSUME TypeOK, Injective, NEW b \in Buffers, b \notin ToSet(bipUplineQueue),
         RequestUplineTransfer(b)
  PROVE  \/ /\ bipUplineBuffer # None /\ UNCHANGED bipUplineBuffer
            /\ bipUplineQueue' = Append(bipUplineQueue, b)
            /\ ToSet(bipUplineQueue)' = ToSet(bipUplineQueue) \cup {b}
            /\ Injective'
         \/ /\ bipUplineBuffer = None /\ bipUplineBuffer' = b
            /\ UNCHANGED bipUplineQueue
  <1>1. bipUplineQueue \in Seq(Buffers)
    BY DEF TypeOK
  <1>2. CASE bipUplineBuffer # None
    <2>1. bipUplineQueue' = Append(bipUplineQueue, b) /\ UNCHANGED bipUplineBuffer
      BY <1>2 DEF RequestUplineTransfer
    <2>2. ToSet(bipUplineQueue)' = ToSet(bipUplineQueue) \cup {b}
      BY <1>1, <2>1, ToSetAppend
    <2>3. Injective'
      BY <1>1, <2>1, AppendIsInjective DEF Injective
    <2>4. QED
      BY <1>2, <2>1, <2>2, <2>3
  <1>3. CASE bipUplineBuffer = None
    BY <1>3 DEF RequestUplineTransfer
  <1>4. QED
    BY <1>2, <1>3

LEMMA SentEffect ==
  ASSUME TypeOK, Injective, NotifyUplineSent
  PROVE  /\ bufPool' = bufPool \cup ({bipUplineBuffer} \ {None})
         /\ bipUplineBuffer' \notin ToSet(bipUplineQueue)'
         /\ ToSet(bipUplineQueue) = ToSet(bipUplineQueue)' \cup ({bipUplineBuffer'} \ {None})
         /\ Injective' /\ QueuedBehindPending'
  <1>1. /\ bufPool' = bufPool \cup ({bipUplineBuffer} \ {None})
        /\ bipUplineBuffer' = NextUpline /\ bipUplineQueue' = RestUpline
    BY DEF NotifyUplineSent
  <1>2. /\ NextUpline = None <=> bipUplineQueue = <<>>
        /\ ToSet(bipUplineQueue) = ToSet(RestUpline) \cup ({NextUpline} \ {None})
        /\ IsInjective(RestUpline) /\ NextUpline \notin ToSet(RestUpline)
    BY QueueExtract DEF TypeOK, Injective
  <1>3. QueuedBehindPending'
    BY <1>1, <1>2 DEF QueuedBehindPending, RestUpline
  <1>4. QED
    BY <1>1, <1>2, <1>3 DEF Injective

LEMMA InitOwnInv == Init => OwnInv
  BY DEF Init, OwnInv, Injective, Apart, QueuedBehindPending, IsInjective, ToSet

\* An order or the end of one, of output or of its processing, leaves the queue
\* alone and moves a buffer at most.
LEMMA NextOwnInv ==
  ASSUME TypeOK, OwnInv, [Next]_vars
  PROVE  OwnInv'
  <1> USE DEF OwnInv, QueuedBehindPending, upVars, downVars, memVars
  <1>0. /\ bufPool \subseteq Buffers /\ held \subseteq Buffers
        /\ ToSet(bipUplineQueue) \subseteq Buffers
        /\ {bipUplineBuffer, bipDownlineBuffer, inHand} \subseteq Buffers \cup {None}
    BY QueueOfBuffers DEF TypeOK
  <1>1. CASE /\ UNCHANGED <<upVars, bufPool, held, inHand>>
             /\ UNCHANGED bipDownlineBuffer
    BY <1>1 DEF Injective, Apart
  <1>2. CASE ReadBlock
    <2>1. /\ NotifyUplineSent /\ UNCHANGED <<bipDownlineBuffer, held, inHand>>
      BY <1>2 DEF ReadBlock
    <2>2. QED
      BY <1>0, <2>1, SentEffect DEF Apart
  <1>3. CASE \E state \in {"BipDownSvm", "BipDownData"} : OutputOrder(state)
    BY <1>0, <1>3 DEF OutputOrder, Injective, Apart
  <1>4. CASE AbortDownlineReceived
    BY <1>0, <1>4 DEF AbortDownlineReceived, Injective, Apart
  <1>5. CASE NotifyDownlineReceived
    BY <1>0, <1>5 DEF NotifyDownlineReceived, Injective, Apart
  <1>6. CASE Reset
    BY <1>0, <1>6 DEF Reset, Injective, Apart, IsInjective, ToSet
  <1>7. CASE ClientRequest
    <2>1. PICK b \in bufPool : /\ bufPool' = bufPool \ {b} /\ RequestUplineTransfer(b)
                               /\ UNCHANGED <<bipDownlineBuffer, held, inHand>>
      BY <1>7 DEF ClientRequest
    <2>2. QED
      BY <1>0, <2>1, RequestEffect DEF Injective, Apart
  <1>8. CASE ClientHold \/ ClientRelease
    BY <1>0, <1>8 DEF ClientHold, ClientRelease, Injective, Apart
  <1>9. CASE ClientForward
    <2>1. PICK b \in held : /\ held' = held \ {b} /\ RequestUplineTransfer(b)
                            /\ UNCHANGED <<bipDownlineBuffer, bufPool, inHand>>
      BY <1>9 DEF ClientForward
    <2>2. QED
      BY <1>0, <2>1, RequestEffect DEF Injective, Apart
  <1>10. CASE DispatchRelease \/ DispatchKeep
    BY <1>0, <1>10 DEF DispatchRelease, DispatchKeep, Injective, Apart
  <1>11. CASE DispatchForward
    <2>1. /\ inHand \in Buffers /\ RequestUplineTransfer(inHand) /\ inHand' = None
          /\ UNCHANGED <<bipDownlineBuffer, bufPool, held>>
      BY <1>0, <1>11 DEF DispatchForward
    <2>2. QED
      BY <1>0, <2>1, RequestEffect DEF Injective, Apart
  <1>12. CASE PollInit \/ PollIdle \/ EndCheck \/ ReadNpuStatus \/ OrderFunction
              \/ RetryOrder \/ UnknownOrder \/ EndOrder \/ EndDispatch \/ HostRestart
              \/ UNCHANGED vars
    BY <1>1, <1>12 DEF PollInit, PollIdle, EndCheck, ReadNpuStatus, OrderFunction, RetryOrder,
         UnknownOrder, EndOrder, EndDispatch, HostRestart, vars
  <1>13. QED
    BY <1>2, <1>3, <1>4, <1>5, <1>6, <1>7, <1>8, <1>9, <1>10, <1>11, <1>12
       DEF Next, Host, Client, ClearNpu, DispatchReset

LEMMA OwnInvariant == Spec => [](TypeOK /\ OwnInv)
  <1>1. Init => TypeOK /\ OwnInv
    BY InitTypes, InitOwnInv
  <1>2. TypeOK /\ OwnInv /\ [Next]_vars => (TypeOK /\ OwnInv)'
    BY NextTypes, NextOwnInv
  <1>3. QED
    BY <1>1, <1>2, PTL DEF Spec

\* For any number of buffers, clients that use them as they like and a host that
\* may be restarted at any time, no buffer has two owners.
THEOREM BuffersHaveOneOwner == Spec => []OneOwner
  <1>1. TypeOK /\ OwnInv => OneOwner
    BY OwnersApart DEF OwnInv
  <1>2. QED
    BY <1>1, OwnInvariant, PTL

\* As long as one thread runs the NPU, no block is queued behind nothing.
THEOREM BlocksQueueBehindPending == Spec => []QueuedBehindPending
  BY OwnInvariant, PTL DEF OwnInv

-----------------------------------------------------------------------------
(* Host and NPU agree.                                                     *)

\* The HIP's state says whose buffer it is about to transfer; a status that is
\* loaded, or was read by the host and acted upon by nobody since, says the same.
AgreeInv ==
    /\ hipState = "StHipUpline" => bipUplineBuffer # None /\ hipBuffer = bipUplineBuffer
    /\ hipState = "StHipDownline" => bipDownlineBuffer # None /\ hipBuffer = bipDownlineBuffer
    /\ regNpuStatus = "inputAvail" => hipState = "StHipUpline"
    /\ regNpuStatus = "readyOutput" => hipState = "StHipDownline"
    /\ host = "ordering" => hipState = "StHipIdle"
    /\ host = "sawInput" => hipState = "StHipUpline"
    /\ host \in {"ordered", "sawReady"} => hipState = "StHipDownline"
    /\ host \in {"sawInput", "sawReady"} => regNpuStatus = "ignore"
    /\ phase # "pp" => hipState # "StHipDownline" /\ host \in {"watching", "restarted"}

LEMMA InitAgreeInv == Init => AgreeInv
  BY DEF Init, AgreeInv

\* Clients only ever announce a block on an idle coupler.
LEMMA RequestKeepsAgreement ==
  ASSUME TypeOK, AgreeInv, NEW b \in Buffers, RequestUplineTransfer(b), phase # "pp",
         UNCHANGED <<bipDownlineBuffer, phase, host>>
  PROVE  AgreeInv'
  BY DEF AgreeInv, RequestUplineTransfer, UplineBlock, Announce, hipVars

LEMMA RetryKeepsAgreement ==
  ASSUME TypeOK, AgreeInv, RetryInput, phase # "pp",
         UNCHANGED <<bipUplineBuffer, bipDownlineBuffer, host>>
  PROVE  AgreeInv'
  BY DEF AgreeInv, RetryInput, UplineBlock, Announce, hipVars

LEMMA NextAgreeInv ==
  ASSUME TypeOK, AgreeInv, [Next]_vars
  PROVE  AgreeInv'
  <1> USE DEF hipVars, upVars, downVars, memVars, hostVars
  <1>1. CASE UNCHANGED <<hipVars, bipUplineBuffer, bipDownlineBuffer, phase, host>>
    BY <1>1 DEF AgreeInv
  <1>2. CASE PollInit \/ PollIdle \/ EndCheck
    BY <1>2 DEF PollInit, PollIdle, EndCheck, AgreeInv, TypeOK
  <1>3. CASE ReadNpuStatus
    BY <1>3 DEF ReadNpuStatus, AgreeInv
  <1>4. CASE ReadBlock
    <2>1. /\ phase = "pp" /\ regNpuStatus = "ignore"
          /\ bipUplineBuffer' = NextUpline /\ EndTransfer(NextUpline)
          /\ host' = "watching" /\ phase' = "pp"
      BY <1>4 DEF ReadBlock, NotifyUplineSent, AgreeInv
    <2>2. ASSUME NEW next, bipUplineBuffer' = next, EndTransfer(next)
          PROVE  AgreeInv'
      BY <2>1, <2>2 DEF EndTransfer, Announce, AgreeInv
    <2>3. QED
      BY <2>1, <2>2
  <1>5. CASE \E state \in {"BipDownSvm", "BipDownData"} : OutputOrder(state)
    BY <1>5 DEF OutputOrder, AgreeInv, TypeOK
  <1>6. CASE OrderFunction \/ RetryOrder \/ UnknownOrder
    BY <1>6 DEF OrderFunction, RetryOrder, UnknownOrder, AgreeInv
  <1>7. CASE EndOrder \/ EndDispatch
    BY <1>7, RetryKeepsAgreement DEF EndOrder, EndDispatch
  <1>8. CASE AbortDownlineReceived
    BY <1>8 DEF AbortDownlineReceived, EndTransfer, Announce, AgreeInv
  <1>9. CASE NotifyDownlineReceived
    BY <1>9 DEF NotifyDownlineReceived, AgreeInv
  <1>10. CASE ClearNpu \/ DispatchReset
    BY <1>10 DEF ClearNpu, DispatchReset, Reset, AgreeInv
  <1>11. CASE HostRestart
    BY <1>11 DEF HostRestart, AgreeInv
  <1>12. CASE ClientRequest
    BY <1>12, RequestKeepsAgreement DEF ClientRequest, TypeOK
  <1>13. CASE ClientForward
    BY <1>13, RequestKeepsAgreement DEF ClientForward, TypeOK
  <1>14. CASE DispatchForward
    BY <1>14, RequestKeepsAgreement DEF DispatchForward, TypeOK
  <1>15. CASE ClientHold \/ ClientRelease \/ DispatchRelease \/ DispatchKeep \/ UNCHANGED vars
    BY <1>1, <1>15 DEF ClientHold, ClientRelease, DispatchRelease, DispatchKeep, vars
  <1>16. QED
    BY <1>2, <1>3, <1>4, <1>5, <1>6, <1>7, <1>8, <1>9, <1>10, <1>11, <1>12, <1>13, <1>14,
       <1>15 DEF Next, Host, Client

LEMMA AgreeInvariant == Spec => []AgreeInv
  <1>1. TypeOK /\ AgreeInv /\ [Next]_vars => AgreeInv'
    BY NextAgreeInv
  <1>2. QED
    BY InitAgreeInv, TypeCorrect, <1>1, PTL DEF Spec

\* Whatever the host was told, and whenever it was restarted, the transfer it
\* starts is the one that the NPU expects, with the BIP's buffer.
THEOREM HostAndNpuAlwaysAgree == Spec => []HostAndNpuAgree
  <1>1. AgreeInv => HostAndNpuAgree
    BY DEF AgreeInv, HostAndNpuAgree
  <1>2. QED
    BY <1>1, AgreeInvariant, PTL

-----------------------------------------------------------------------------
(* No block is left unannounced.                                           *)

\* Before the NPU is initialized no block is pending.  An idle coupler whose BIP is
\* idle too has a pending block only if an order displaced it and its word is still to
\* come, or while an order is processed, which announces it at its end.  The BIP is not
\* idle while it has the buffer of an output.
AnnounceInv ==
    /\ hipState = "StHipInit" => phase = "pp" /\ bipUplineBuffer = None
    /\ hipState = "StHipIdle" /\ bipState = "BipIdle"
         => phase = "order" \/ bipUplineBuffer \in {None, displaced}
    /\ bipDownlineBuffer # None => bipState # "BipIdle" /\ phase # "dispatch"

LEMMA InitAnnounceInv == Init => AnnounceInv
  BY DEF Init, AnnounceInv

\* A client's block is announced at once, or behind another, or after the output.
LEMMA RequestKeepsAnnounced ==
  ASSUME AnnounceInv, NEW b \in Buffers, RequestUplineTransfer(b), phase # "pp",
         UNCHANGED <<bipState, bipDownlineBuffer, phase, displaced>>
  PROVE  AnnounceInv'
  BY DEF AnnounceInv, RequestUplineTransfer, UplineBlock, Announce, hipVars

LEMMA NextAnnounceInv ==
  ASSUME TypeOK, AgreeInv, AnnounceInv, [Next]_vars
  PROVE  AnnounceInv'
  <1> USE DEF hipVars, upVars, downVars, memVars, hostVars, AnnounceInv
  <1>1. CASE PollInit \/ PollIdle \/ EndCheck \/ ReadNpuStatus \/ HostRestart
    BY <1>1 DEF PollInit, PollIdle, EndCheck, ReadNpuStatus, HostRestart
  <1>2. CASE ReadBlock
    <2>1. /\ EndTransfer(NextUpline) /\ bipUplineBuffer' = NextUpline
          /\ UNCHANGED <<bipState, bipDownlineBuffer, phase, displaced>>
      BY <1>2 DEF ReadBlock, NotifyUplineSent
    <2>2. QED
      BY <2>1 DEF EndTransfer, Announce
  <1>3. CASE \E state \in {"BipDownSvm", "BipDownData"} : OutputOrder(state)
    BY <1>3 DEF OutputOrder, AgreeInv
  <1>4. CASE OrderFunction \/ RetryOrder \/ UnknownOrder
    BY <1>4 DEF OrderFunction, RetryOrder, UnknownOrder, AgreeInv
  <1>5. CASE EndOrder \/ EndDispatch
    BY <1>5 DEF EndOrder, EndDispatch, RetryInput, UplineBlock, Announce
  <1>6. CASE AbortDownlineReceived
    BY <1>6 DEF AbortDownlineReceived, EndTransfer, Announce
  <1>7. CASE NotifyDownlineReceived
    BY <1>7 DEF NotifyDownlineReceived, AgreeInv
  <1>8. CASE ClearNpu \/ DispatchReset
    BY <1>8 DEF ClearNpu, DispatchReset, Reset
  <1>9. CASE ClientRequest \/ ClientForward \/ DispatchForward
    BY <1>9, RequestKeepsAnnounced DEF ClientRequest, ClientForward, DispatchForward, TypeOK
  <1>10. CASE ClientHold \/ ClientRelease \/ DispatchRelease \/ DispatchKeep \/ UNCHANGED vars
    BY <1>10 DEF ClientHold, ClientRelease, DispatchRelease, DispatchKeep, vars
  <1>11. QED
    BY <1>1, <1>2, <1>3, <1>4, <1>5, <1>6, <1>7, <1>8, <1>9, <1>10 DEF Next, Host, Client

\* A block that the HIP refused, because the coupler was busy, or whose announcement
\* an order took back, has been announced by the time the coupler is idle again
\* (npuBipRetryInput at every such place): a block that is not is the one that was
\* pending at a function for an order of which no word has come since, be it that the
\* host has not sent it yet, was deadstarted first, or sent one the HIP does not know.
THEOREM BlocksAreAnnounced == Spec => []NoneLeftUnannounced
  <1>1. TypeOK /\ AgreeInv /\ AnnounceInv /\ [Next]_vars => AnnounceInv'
    BY NextAnnounceInv
  <1>2. AnnounceInv => NoneLeftUnannounced
    BY DEF AnnounceInv, NoneLeftUnannounced
  <1>3. QED
    BY InitAnnounceInv, TypeCorrect, AgreeInvariant, <1>1, <1>2, PTL DEF Spec

-----------------------------------------------------------------------------
(* No buffer is lost.                                                      *)

\* Only a restarted host orders output while the BIP still has the buffer of an
\* earlier order, and only while a downline block is processed is one in hand.
ReceiveInv ==
    /\ inHand # None => phase = "dispatch"
    /\ ~HostRestarts => host # "restarted"
    /\ ~HostRestarts /\ bipDownlineBuffer # None => host \in {"ordered", "sawReady"}

LEMMA InitReceiveInv == Init => ReceiveInv
  BY DEF Init, ReceiveInv

LEMMA NextReceiveInv ==
  ASSUME TypeOK, AgreeInv, ReceiveInv, [Next]_vars
  PROVE  ReceiveInv'
  <1> USE DEF hipVars, upVars, downVars, memVars, hostVars, ReceiveInv
  <1>1. CASE PollInit \/ PollIdle \/ EndCheck
    BY <1>1 DEF PollInit, PollIdle, EndCheck
  <1>2. CASE ReadNpuStatus
    BY <1>2 DEF ReadNpuStatus, AgreeInv
  <1>3. CASE ReadBlock \/ EndOrder \/ EndDispatch
    BY <1>3 DEF ReadBlock, EndOrder, EndDispatch
  <1>12. CASE OrderFunction \/ RetryOrder \/ UnknownOrder
    BY <1>12 DEF OrderFunction, RetryOrder, UnknownOrder
  <1>4. CASE \E state \in {"BipDownSvm", "BipDownData"} : OutputOrder(state)
    BY <1>4 DEF OutputOrder
  <1>5. CASE AbortDownlineReceived \/ NotifyDownlineReceived
    BY <1>5 DEF AbortDownlineReceived, NotifyDownlineReceived
  <1>6. CASE ClearNpu \/ DispatchReset
    BY <1>6 DEF ClearNpu, DispatchReset, Reset
  <1>7. CASE HostRestart
    BY <1>7 DEF HostRestart
  <1>8. CASE ClientRequest \/ ClientHold \/ ClientRelease \/ ClientForward
    BY <1>8 DEF ClientRequest, ClientHold, ClientRelease, ClientForward
  <1>9. CASE DispatchRelease \/ DispatchKeep \/ DispatchForward
    BY <1>9 DEF DispatchRelease, DispatchKeep, DispatchForward
  <1>10. CASE UNCHANGED vars
    BY <1>10 DEF vars
  <1>11. QED
    BY <1>1, <1>2, <1>3, <1>4, <1>5, <1>6, <1>7, <1>8, <1>9, <1>10, <1>12
       DEF Next, Host, Client

LEMMA ReceiveInvariant == Spec => []ReceiveInv
  <1>1. TypeOK /\ AgreeInv /\ ReceiveInv /\ [Next]_vars => ReceiveInv'
    BY NextReceiveInv
  <1>2. QED
    BY InitReceiveInv, TypeCorrect, AgreeInvariant, <1>1, PTL DEF Spec

\* Owned, owner by owner, before and after a step.
LEMMA OwnedParts ==
  ASSUME NEW O1, NEW O2, NEW O3, NEW u, NEW d, NEW h
  PROVE  LET o == <<O1, O2, O3, {u} \ {None}, {d} \ {None}, {h} \ {None}>>
         IN  UNION {o[i] : i \in 1 .. 6} = O1 \cup O2 \cup O3 \cup ({u, d, h} \ {None})
  <1> DEFINE o == <<O1, O2, O3, {u} \ {None}, {d} \ {None}, {h} \ {None}>>
  <1>1. /\ o[1] = O1 /\ o[2] = O2 /\ o[3] = O3
        /\ o[4] = {u} \ {None} /\ o[5] = {d} \ {None} /\ o[6] = {h} \ {None}
    OBVIOUS
  <1> HIDE DEF o
  <1>2. UNION {o[i] : i \in 1 .. 6} = o[1] \cup o[2] \cup o[3] \cup o[4] \cup o[5] \cup o[6]
    OBVIOUS
  <1>3. UNION {o[i] : i \in 1 .. 6} = O1 \cup O2 \cup O3 \cup ({u, d, h} \ {None})
    BY <1>1, <1>2
  <1>4. QED
    BY <1>3 DEF o

LEMMA NextLoses ==
  ASSUME TypeOK, OwnInv, ReceiveInv, [Next]_vars
  PROVE  \A b \in Owned \ Owned' : b = bipDownlineBuffer /\ HostRestarts
  <1> USE DEF upVars, downVars, memVars, ReceiveInv
  <1> DEFINE O == bufPool \cup held \cup ToSet(bipUplineQueue)
                   \cup ({bipUplineBuffer, bipDownlineBuffer, inHand} \ {None})
  <1>0. Owned = O /\ Owned' = O'
    BY OwnedParts DEF Owned, Owners
  <1>1. SUFFICES \A b \in O \ O' : b = bipDownlineBuffer /\ HostRestarts
    BY <1>0
  <1>2. /\ {bipUplineBuffer, bipDownlineBuffer, inHand} \subseteq Buffers \cup {None}
        /\ bufPool \subseteq Buffers /\ held \subseteq Buffers
    BY DEF TypeOK
  <1>3. CASE UNCHANGED <<upVars, bufPool, held, inHand, bipDownlineBuffer>>
    BY <1>3
  <1>4. CASE ReadBlock
    <2>1. /\ NotifyUplineSent /\ UNCHANGED <<bipDownlineBuffer, held, inHand>>
      BY <1>4 DEF ReadBlock
    <2>2. QED
      BY <2>1, SentEffect DEF OwnInv
  <1>5. CASE \E state \in {"BipDownSvm", "BipDownData"} : OutputOrder(state)
    BY <1>2, <1>5 DEF OutputOrder
  <1>6. CASE AbortDownlineReceived
    BY <1>6 DEF AbortDownlineReceived
  <1>7. CASE NotifyDownlineReceived
    BY <1>7 DEF NotifyDownlineReceived
  <1>8. CASE Reset
    BY <1>8 DEF Reset
  <1>9. CASE ClientRequest
    <2>1. PICK b \in bufPool : /\ bufPool' = bufPool \ {b} /\ RequestUplineTransfer(b)
                               /\ UNCHANGED <<bipDownlineBuffer, held, inHand>>
      BY <1>9 DEF ClientRequest
    <2>2. QED
      BY <1>2, <2>1, RequestEffect DEF OwnInv, Apart
  <1>10. CASE ClientHold \/ ClientRelease
    BY <1>10 DEF ClientHold, ClientRelease
  <1>11. CASE ClientForward
    <2>1. PICK b \in held : /\ held' = held \ {b} /\ RequestUplineTransfer(b)
                            /\ UNCHANGED <<bipDownlineBuffer, bufPool, inHand>>
      BY <1>11 DEF ClientForward
    <2>2. QED
      BY <1>2, <2>1, RequestEffect DEF OwnInv, Apart
  <1>12. CASE DispatchRelease \/ DispatchKeep
    BY <1>12 DEF DispatchRelease, DispatchKeep
  <1>13. CASE DispatchForward
    <2>1. /\ inHand \in Buffers /\ inHand \notin ToSet(bipUplineQueue)
          /\ RequestUplineTransfer(inHand) /\ inHand' = None
          /\ UNCHANGED <<bipDownlineBuffer, bufPool, held>>
      BY <1>2, <1>13 DEF DispatchForward, OwnInv, Apart
    <2>2. QED
      BY <2>1, RequestEffect DEF OwnInv
  <1>14. CASE PollInit \/ PollIdle \/ EndCheck \/ ReadNpuStatus \/ OrderFunction
              \/ RetryOrder \/ UnknownOrder \/ EndOrder \/ EndDispatch \/ HostRestart
              \/ UNCHANGED vars
    BY <1>3, <1>14 DEF PollInit, PollIdle, EndCheck, ReadNpuStatus, OrderFunction, RetryOrder,
         UnknownOrder, EndOrder, EndDispatch, HostRestart, vars
  <1>15. QED
    BY <1>4, <1>5, <1>6, <1>7, <1>8, <1>9, <1>10, <1>11, <1>12, <1>13, <1>14
       DEF Next, Host, Client, ClearNpu, DispatchReset

\* No step loses a buffer, but for the output order of a restarted host.
THEOREM BuffersLostOnlyByRestart == Spec => LostOnlyByRestart
  <1>1. TypeOK /\ OwnInv /\ ReceiveInv /\ [Next]_vars =>
           [\A b \in Owned \ Owned' : b = bipDownlineBuffer /\ HostRestarts]_vars
    BY NextLoses
  <1>2. QED
    BY <1>1, OwnInvariant, ReceiveInvariant, PTL DEF Spec, LostOnlyByRestart

-----------------------------------------------------------------------------
(* The blocks that go upline are a queue.                                  *)

\* Every buffer that may go upline contains a block.
Filled == held \cup ToSet(bipUplineQueue) \cup ({bipUplineBuffer, inHand} \ {None})

BlockInv == \A b \in Filled : data[b] \in Blocks

\* The buffers that go upline as a sequence, and the blocks in them.
LEMMA UplineBuffersAre ==
  ASSUME TypeOK
  PROVE  /\ UplineBuffers \in Seq(Buffers)
         /\ ToSet(UplineBuffers) = ToSet(bipUplineQueue) \cup ({bipUplineBuffer} \ {None})
         /\ bipUplineBuffer = None => UplineBuffers = bipUplineQueue
  <1>1. CASE bipUplineBuffer = None
    <2>1. UplineBuffers = bipUplineQueue
      BY <1>1, ConcatEmptySeq DEF UplineBuffers, TypeOK
    <2>2. QED
      BY <1>1, <2>1 DEF TypeOK
  <1>2. CASE bipUplineBuffer # None
    <2> DEFINE q == bipUplineQueue
               u == bipUplineBuffer
               s == <<u>> \o q
    <2>1. u \in Buffers /\ q \in Seq(Buffers) /\ UplineBuffers = s
      BY <1>2 DEF UplineBuffers, TypeOK
    <2>2. /\ s \in Seq(Buffers) /\ Len(s) = 1 + Len(q) /\ Len(q) \in Nat
          /\ \A i \in 1 .. 1 + Len(q) : s[i] = IF i <= 1 THEN u ELSE q[i - 1]
      <3>1. <<u>> \in Seq(Buffers) /\ Len(<<u>>) = 1 /\ \A i \in 1 .. 1 : <<u>>[i] = u
        BY <2>1
      <3>2. QED
        BY <2>1, <3>1, ConcatProperties, LenProperties
    <2>3. ToSet(s) \subseteq ToSet(q) \cup {u}
      BY <2>1, <2>2, LenProperties DEF ToSet
    <2>4. u \in ToSet(s)
      BY <2>1, <2>2, LenProperties DEF ToSet
    <2>5. ASSUME NEW i \in 1 .. Len(q)
          PROVE  q[i] \in ToSet(s)
      <3>1. i + 1 \in 1 .. Len(s) /\ s[i + 1] = q[i]
        BY <2>2
      <3>2. QED
        BY <2>2, <3>1, LenProperties DEF ToSet
    <2>6. ToSet(q) \subseteq ToSet(s)
      BY <2>1, <2>5, LenProperties DEF ToSet
    <2>7. QED
      BY <1>2, <2>1, <2>2, <2>3, <2>4, <2>6
  <1>3. QED
    BY <1>1, <1>2

\* The contents of a sequence of buffers.
BlockOrNone == Blocks \cup {None}
Memory == [Buffers -> BlockOrNone]

Contents(s, d) == [i \in 1 .. Len(s) |-> d[s[i]]]

LEMMA ContentsIsSeq ==
  ASSUME NEW s \in Seq(Buffers), NEW d \in Memory
  PROVE  Contents(s, d) \in Seq(BlockOrNone) /\ Len(Contents(s, d)) = Len(s)
  <1>1. Len(s) \in Nat /\ \A i \in 1 .. Len(s) : s[i] \in Buffers
    BY LenProperties
  <1>2. Contents(s, d) \in [1 .. Len(s) -> BlockOrNone]
    BY <1>1 DEF Contents, Memory
  <1>3. Contents(s, d) \in Seq(BlockOrNone)
    BY <1>1, <1>2, SeqDef
  <1>4. DOMAIN Contents(s, d) = 1 .. Len(Contents(s, d)) /\ Len(Contents(s, d)) \in Nat
    BY <1>3, LenProperties
  <1>5. QED
    BY <1>1, <1>2, <1>3, <1>4

LEMMA ContentsAppend ==
  ASSUME NEW s \in Seq(Buffers), NEW d \in Memory, NEW b \in Buffers
  PROVE  Contents(Append(s, b), d) = Append(Contents(s, d), d[b])
  <1>1. /\ Append(s, b) \in Seq(Buffers) /\ Len(Append(s, b)) = Len(s) + 1
        /\ \A i \in 1 .. Len(s) : Append(s, b)[i] = s[i]
        /\ Append(s, b)[Len(s) + 1] = b /\ Len(s) \in Nat
    BY AppendProperties, LenProperties
  <1>2. /\ Contents(s, d) \in Seq(BlockOrNone) /\ Len(Contents(s, d)) = Len(s)
        /\ Contents(Append(s, b), d) \in Seq(BlockOrNone)
        /\ Len(Contents(Append(s, b), d)) = Len(s) + 1
    BY <1>1, ContentsIsSeq
  <1>3. /\ Append(Contents(s, d), d[b]) \in Seq(BlockOrNone)
        /\ Len(Append(Contents(s, d), d[b])) = Len(s) + 1
        /\ \A i \in 1 .. Len(s) : Append(Contents(s, d), d[b])[i] = Contents(s, d)[i]
        /\ Append(Contents(s, d), d[b])[Len(s) + 1] = d[b]
    BY <1>2, AppendProperties DEF Memory
  <1>4. ASSUME NEW i \in 1 .. Len(s) + 1
        PROVE  Contents(Append(s, b), d)[i] = Append(Contents(s, d), d[b])[i]
    <2>1. Contents(Append(s, b), d)[i] = d[Append(s, b)[i]]
      BY <1>1 DEF Contents
    <2>2. CASE i = Len(s) + 1
      <3>1. Append(s, b)[i] = b
        BY <1>1, <2>2
      <3>2. Append(Contents(s, d), d[b])[i] = d[b]
        BY <1>3, <2>2, Zenon
      <3>3. QED
        BY <2>1, <3>1, <3>2, Zenon
    <2>3. CASE i \in 1 .. Len(s)
      <3>1. Contents(s, d)[i] = d[s[i]]
        BY <2>3 DEF Contents
      <3>2. Append(s, b)[i] = s[i]
        BY <1>1, <2>3, Zenon
      <3>3. Append(Contents(s, d), d[b])[i] = Contents(s, d)[i]
        BY <1>3, <2>3, Zenon
      <3>4. QED
        BY <2>1, <3>1, <3>2, <3>3, Zenon
    <2>4. i = Len(s) + 1 \/ i \in 1 .. Len(s)
      BY <1>1
    <2>5. QED
      BY <2>2, <2>3, <2>4, Zenon
  <1>5. QED
    BY <1>2, <1>3, <1>4, SeqEqual

LEMMA ContentsTail ==
  ASSUME NEW s \in Seq(Buffers), NEW d \in Memory, s # <<>>
  PROVE  /\ Contents(s, d) # <<>> /\ Head(Contents(s, d)) = d[Head(s)]
         /\ Contents(Tail(s), d) = Tail(Contents(s, d))
  <1>1. /\ Tail(s) \in Seq(Buffers) /\ Len(Tail(s)) = Len(s) - 1 /\ Head(s) = s[1]
        /\ \A i \in 1 .. Len(Tail(s)) : Tail(s)[i] = s[i + 1]
        /\ Len(s) \in Nat \ {0}
    BY HeadTailProperties, LenProperties, EmptySeq
  <1>2. /\ Contents(s, d) \in Seq(BlockOrNone) /\ Len(Contents(s, d)) = Len(s)
        /\ Contents(Tail(s), d) \in Seq(BlockOrNone) /\ Len(Contents(Tail(s), d)) = Len(s) - 1
    BY <1>1, ContentsIsSeq
  <1>3. Contents(s, d) # <<>>
    BY <1>1, <1>2
  <1>4. /\ Tail(Contents(s, d)) \in Seq(BlockOrNone) /\ Len(Tail(Contents(s, d))) = Len(s) - 1
        /\ \A i \in 1 .. Len(s) - 1 : Tail(Contents(s, d))[i] = Contents(s, d)[i + 1]
    BY <1>2, <1>3, HeadTailProperties
  <1>5. Head(Contents(s, d)) = d[Head(s)]
    BY <1>1, <1>2, <1>3 DEF Contents
  <1>6. ASSUME NEW i \in 1 .. Len(s) - 1
        PROVE  Contents(Tail(s), d)[i] = Tail(Contents(s, d))[i]
    <2>1. i \in 1 .. Len(Tail(s)) /\ i + 1 \in 1 .. Len(s)
      BY <1>1
    <2>2. QED
      BY <1>1, <1>4, <2>1 DEF Contents
  <1>7. QED
    BY <1>2, <1>3, <1>4, <1>5, <1>6, SeqEqual

\* Writing into other buffers changes nothing.
LEMMA ContentsSame ==
  ASSUME NEW s \in Seq(Buffers), NEW d, NEW e, \A b \in ToSet(s) : e[b] = d[b]
  PROVE  Contents(s, e) = Contents(s, d)
  BY LenProperties DEF Contents, ToSet

\* What the actions do to the buffers that go upline.
LEMMA RequestAppends ==
  ASSUME TypeOK, OwnInv, NEW b \in Buffers, b \notin ToSet(UplineBuffers),
         RequestUplineTransfer(b)
  PROVE  UplineBuffers' = Append(UplineBuffers, b)
  <1> DEFINE q == bipUplineQueue
             u == bipUplineBuffer
  <1>1. q \in Seq(Buffers) /\ u \in Buffers \cup {None} /\ b # None
    BY DEF TypeOK
  <1>2. CASE u = None
    <2>1. q = <<>> /\ u' = b /\ q' = <<>>
      BY <1>2 DEF OwnInv, QueuedBehindPending, RequestUplineTransfer
    <2>2. UplineBuffers = <<>> /\ UplineBuffers' = <<b>>
      BY <1>1, <1>2, <2>1 DEF UplineBuffers
    <2>3. QED
      BY <2>2
  <1>3. CASE u # None
    <2>1. u' = u /\ q' = Append(q, b)
      BY <1>3 DEF RequestUplineTransfer
    <2>2. UplineBuffers = <<u>> \o q /\ UplineBuffers' = <<u>> \o (q \o <<b>>)
      BY <1>1, <1>3, <2>1, AppendIsConcat DEF UplineBuffers
    <2>3. <<u>> \in Seq(Buffers) /\ <<b>> \in Seq(Buffers)
      BY <1>1, <1>3
    <2>4. <<u>> \o (q \o <<b>>) = (<<u>> \o q) \o <<b>>
      BY <1>1, <2>3, ConcatAssociative
    <2>5. <<u>> \o q \in Seq(Buffers)
      BY <1>1, <2>3, ConcatProperties
    <2>6. QED
      BY <2>2, <2>4, <2>5, AppendIsConcat
  <1>4. QED
    BY <1>2, <1>3

LEMMA SentRemovesHead ==
  ASSUME TypeOK, OwnInv, bipUplineBuffer # None, NotifyUplineSent
  PROVE  /\ UplineBuffers # <<>> /\ Head(UplineBuffers) = bipUplineBuffer
         /\ UplineBuffers' = Tail(UplineBuffers)
  <1> DEFINE q == bipUplineQueue
             u == bipUplineBuffer
             s == <<u>> \o q
  <1>1. q \in Seq(Buffers) /\ u \in Buffers /\ UplineBuffers = s
    BY DEF TypeOK, UplineBuffers
  <1>2. <<u>> \in Seq(Buffers) /\ Len(<<u>>) = 1 /\ <<u>>[1] = u
    BY <1>1
  <1>3. /\ s \in Seq(Buffers) /\ Len(s) = 1 + Len(q) /\ Len(q) \in Nat /\ s[1] = u
        /\ \A i \in 1 .. Len(q) : s[i + 1] = q[i]
    BY <1>1, <1>2, ConcatProperties, LenProperties
  <1>4. s # <<>> /\ Head(s) = u
    BY <1>3, EmptySeq
  <1>5. Tail(s) \in Seq(Buffers) /\ Len(Tail(s)) = Len(q)
        /\ \A i \in 1 .. Len(q) : Tail(s)[i] = q[i]
    BY <1>3, <1>4, HeadTailProperties
  <1>6. Tail(s) = q
    BY <1>1, <1>5, SeqEqual
  <1>7. UplineBuffers' = q
    <2>1. CASE q = <<>>
      <3>1. u' = None /\ q' = <<>>
        BY <2>1 DEF NotifyUplineSent, NextUpline, RestUpline
      <3>2. QED
        BY <2>1, <3>1 DEF UplineBuffers
    <2>2. CASE q # <<>>
      <3>1. u' = Head(q) /\ q' = Tail(q) /\ Head(q) \in Buffers
        BY <1>1, <2>2, HeadTailProperties DEF NotifyUplineSent, NextUpline, RestUpline
      <3>2. UplineBuffers' = <<Head(q)>> \o Tail(q)
        BY <3>1 DEF UplineBuffers
      <3>3. Len(q) \in Nat \ {0}
        BY <1>1, <2>2, EmptySeq
      <3>4. /\ q[1] = Head(q) /\ SubSeq(q, 2, Len(q)) = Tail(q)
            /\ SubSeq(q, 1, Len(q)) = <<q[1]>> \o SubSeq(q, 1 + 1, Len(q))
        BY <1>1, <2>2, <3>3, TailIsSubSeq, SubSeqRecursiveFirst
      <3>5. SubSeq(q, 1, Len(q)) = q
        BY <1>1, SubSeqFull
      <3>6. QED
        BY <3>2, <3>4, <3>5
    <2>3. QED
      BY <2>1, <2>2
  <1>8. QED
    BY <1>1, <1>4, <1>6, <1>7

LEMMA InitBlockInv == Init => BlockInv
  BY DEF Init, BlockInv, Filled, ToSet

LEMMA NextBlockInv ==
  ASSUME TypeOK, OwnInv, AgreeInv, BlockInv, [Next]_vars
  PROVE  BlockInv'
  <1> USE DEF upVars, downVars, memVars, BlockInv
  <1>0. /\ bufPool \subseteq Buffers /\ held \subseteq Buffers
        /\ ToSet(bipUplineQueue) \subseteq Buffers
        /\ {bipUplineBuffer, bipDownlineBuffer, inHand} \subseteq Buffers \cup {None}
        /\ data \in [Buffers -> Blocks \cup {None}]
    BY QueueOfBuffers DEF TypeOK
  <1>1. CASE UNCHANGED <<upVars, held, inHand, data>>
    BY <1>1 DEF Filled
  <1>2. CASE ReadBlock
    <2>1. /\ NotifyUplineSent /\ UNCHANGED <<held, inHand, data>>
      BY <1>2 DEF ReadBlock
    <2>2. QED
      BY <2>1, SentEffect DEF Filled, OwnInv
  <1>3. CASE NotifyDownlineReceived
    <2>1. PICK m \in Blocks : data' = [data EXCEPT ![hipBuffer] = m]
      BY <1>3 DEF NotifyDownlineReceived
    <2>2. /\ inHand' = bipDownlineBuffer /\ UNCHANGED <<upVars, held>>
          /\ hipBuffer = bipDownlineBuffer /\ bipDownlineBuffer \in Buffers
      BY <1>0, <1>3 DEF NotifyDownlineReceived, AgreeInv
    <2>3. QED
      BY <1>0, <2>1, <2>2 DEF Filled
  <1>4. CASE Reset
    BY <1>4 DEF Reset, Filled, ToSet
  <1>5. CASE ClientRequest
    <2>1. PICK b \in bufPool, m \in Blocks :
             /\ data' = [data EXCEPT ![b] = m] /\ RequestUplineTransfer(b)
             /\ UNCHANGED <<held, inHand>>
      BY <1>5 DEF ClientRequest
    <2>2. Filled' \subseteq Filled \cup {b}
      BY <1>0, <2>1, RequestEffect DEF Filled, OwnInv, Apart
    <2>3. \A c \in Filled \cup {b} : c \in Buffers
      BY <1>0 DEF Filled
    <2>4. QED
      BY <1>0, <2>1, <2>2, <2>3
  <1>6. CASE ClientHold
    <2>1. PICK b \in bufPool, m \in Blocks :
             /\ data' = [data EXCEPT ![b] = m] /\ held' = held \cup {b}
             /\ UNCHANGED <<upVars, inHand>>
      BY <1>6 DEF ClientHold
    <2>2. QED
      BY <1>0, <2>1 DEF Filled
  <1>7. CASE ClientForward
    <2>1. PICK b \in held : /\ held' = held \ {b} /\ RequestUplineTransfer(b)
                            /\ UNCHANGED <<inHand, data>>
      BY <1>7 DEF ClientForward
    <2>2. Filled' \subseteq Filled
      BY <1>0, <2>1, RequestEffect DEF Filled, OwnInv, Apart
    <2>3. QED
      BY <2>1, <2>2
  <1>8. CASE ClientRelease \/ DispatchRelease \/ DispatchKeep
    BY <1>0, <1>8 DEF ClientRelease, DispatchRelease, DispatchKeep, Filled
  <1>9. CASE DispatchForward
    <2>1. /\ inHand \in Buffers /\ RequestUplineTransfer(inHand) /\ inHand' = None
          /\ UNCHANGED <<held, data>>
      BY <1>0, <1>9 DEF DispatchForward
    <2>2. Filled' \subseteq Filled
      BY <1>0, <2>1, RequestEffect DEF Filled, OwnInv, Apart
    <2>3. QED
      BY <2>1, <2>2
  <1>10. CASE PollInit \/ PollIdle \/ EndCheck \/ ReadNpuStatus \/ OrderFunction
              \/ RetryOrder \/ UnknownOrder \/ EndOrder \/ EndDispatch \/ HostRestart
              \/ AbortDownlineReceived \/ UNCHANGED vars
    BY <1>1, <1>10 DEF PollInit, PollIdle, EndCheck, ReadNpuStatus, OrderFunction, RetryOrder,
         UnknownOrder, EndOrder, EndDispatch, HostRestart, AbortDownlineReceived, vars
  <1>11. CASE \E state \in {"BipDownSvm", "BipDownData"} : OutputOrder(state)
    BY <1>1, <1>11 DEF OutputOrder
  <1>12. QED
    BY <1>2, <1>3, <1>4, <1>5, <1>6, <1>7, <1>8, <1>9, <1>10, <1>11
       DEF Next, Host, Client, ClearNpu, DispatchReset

CouplerInv == TypeOK /\ OwnInv /\ AgreeInv /\ BlockInv

LEMMA CouplerInvariant == Spec => []CouplerInv
  <1>1. TypeOK /\ OwnInv /\ AgreeInv /\ BlockInv /\ [Next]_vars => BlockInv'
    BY NextBlockInv
  <1>2. QED
    BY InitBlockInv, OwnInvariant, AgreeInvariant, <1>1, PTL DEF Spec, CouplerInv

-----------------------------------------------------------------------------
(* Every step of the coupler is a step of UplineQueue, or stutters.        *)

LEMMA BlocksAreContents ==
  /\ UplineBlocks = Contents(UplineBuffers, data)
  /\ UplineBlocks' = Contents(UplineBuffers', data')
  BY DEF UplineBlocks, Contents

LEMMA RequestStep ==
  ASSUME CouplerInv, NEW b \in Buffers, b \notin ToSet(UplineBuffers),
         RequestUplineTransfer(b), data' \in [Buffers -> Blocks \cup {None}],
         data'[b] \in Blocks, \A c \in Buffers \ {b} : data'[c] = data[c],
         UNCHANGED lastRead
  PROVE  Upline!Request
  <1>1. UplineBuffers' = Append(UplineBuffers, b)
    BY RequestAppends DEF CouplerInv
  <1>2. UplineBuffers \in Seq(Buffers) /\ \A c \in ToSet(UplineBuffers) : data'[c] = data[c]
    BY UplineBuffersAre, QueueOfBuffers DEF CouplerInv, TypeOK
  <1>3. Contents(UplineBuffers, data') = Contents(UplineBuffers, data)
    BY <1>2, ContentsSame
  <1>4. Contents(UplineBuffers', data') = Append(Contents(UplineBuffers, data'), data'[b])
    <2>1. data' \in Memory
      BY DEF Memory, BlockOrNone
    <2>2. Contents(Append(UplineBuffers, b), data') =
             Append(Contents(UplineBuffers, data'), data'[b])
      BY <1>2, <2>1, ContentsAppend
    <2>3. QED
      BY <1>1, <2>2
  <1>5. UplineBlocks' = Append(UplineBlocks, data'[b])
    BY <1>3, <1>4, BlocksAreContents
  <1>6. QED
    BY <1>5 DEF Upline!Request

LEMMA ReadStep ==
  ASSUME CouplerInv, ReadBlock
  PROVE  Upline!Deliver
  <1>1. /\ bipUplineBuffer # None /\ hipBuffer = bipUplineBuffer
        /\ NotifyUplineSent /\ lastRead' = data[bipUplineBuffer] /\ data' = data
    BY DEF CouplerInv, AgreeInv, ReadBlock
  <1>2. /\ UplineBuffers # <<>> /\ Head(UplineBuffers) = bipUplineBuffer
        /\ UplineBuffers' = Tail(UplineBuffers)
    BY <1>1, SentRemovesHead DEF CouplerInv
  <1>3. UplineBuffers \in Seq(Buffers) /\ data \in Memory
    BY UplineBuffersAre DEF CouplerInv, TypeOK, Memory, BlockOrNone
  <1>4. /\ UplineBlocks # <<>> /\ Head(UplineBlocks) = data[bipUplineBuffer]
        /\ UplineBlocks' = Tail(UplineBlocks)
    BY <1>1, <1>2, <1>3, ContentsTail, BlocksAreContents
  <1>5. QED
    BY <1>1, <1>4 DEF Upline!Deliver

LEMMA ResetStep ==
  ASSUME Reset, UNCHANGED lastRead
  PROVE  Upline!Reset
  <1>1. UplineBuffers' = <<>>
    BY DEF Reset, UplineBuffers
  <1>2. UplineBlocks' = <<>>
    BY <1>1 DEF UplineBlocks
  <1>3. QED
    BY <1>2 DEF Upline!Reset

LEMMA StutteringStep ==
  ASSUME CouplerInv, UNCHANGED <<upVars, lastRead>>,
         \A c \in ToSet(UplineBuffers) : data'[c] = data[c]
  PROVE  UNCHANGED Upline!queueVars
  <1>1. UplineBuffers' = UplineBuffers /\ UplineBuffers \in Seq(Buffers)
    BY UplineBuffersAre DEF UplineBuffers, upVars, CouplerInv
  <1>2. UplineBlocks' = UplineBlocks
    BY <1>1, ContentsSame, BlocksAreContents
  <1>3. QED
    BY <1>2 DEF Upline!queueVars

LEMMA NextRefines ==
  ASSUME CouplerInv, [Next]_vars
  PROVE  [Upline!Next]_(Upline!queueVars)
  <1> USE DEF memVars, downVars, hostVars
  <1>0. /\ bufPool \subseteq Buffers /\ held \subseteq Buffers
        /\ {bipUplineBuffer, bipDownlineBuffer, inHand} \subseteq Buffers \cup {None}
        /\ data \in [Buffers -> Blocks \cup {None}]
        /\ ToSet(UplineBuffers) = ToSet(bipUplineQueue) \cup ({bipUplineBuffer} \ {None})
        /\ ToSet(bipUplineQueue) \subseteq Buffers
    BY UplineBuffersAre, QueueOfBuffers DEF CouplerInv, TypeOK
  <1>1. CASE UNCHANGED <<upVars, lastRead, data>>
    BY <1>1, StutteringStep
  <1>2. CASE ReadBlock
    BY <1>2, ReadStep DEF Upline!Next
  <1>3. CASE ClearNpu \/ DispatchReset
    BY <1>3, ResetStep DEF ClearNpu, DispatchReset, Upline!Next
  <1>4. CASE ClientRequest
    <2>1. PICK b \in bufPool, m \in Blocks :
             /\ data' = [data EXCEPT ![b] = m] /\ RequestUplineTransfer(b)
             /\ UNCHANGED lastRead
      BY <1>4 DEF ClientRequest
    <2>2. b \in Buffers /\ b \notin ToSet(UplineBuffers)
      BY <1>0, <2>1 DEF CouplerInv, OwnInv, Apart
    <2>3. /\ data' \in [Buffers -> Blocks \cup {None}] /\ data'[b] \in Blocks
          /\ \A c \in Buffers \ {b} : data'[c] = data[c]
      BY <1>0, <2>1, <2>2
    <2>4. QED
      BY <2>1, <2>2, <2>3, RequestStep DEF Upline!Next
  <1>5. CASE ClientForward
    <2>1. PICK b \in held : RequestUplineTransfer(b) /\ UNCHANGED <<lastRead, data>>
      BY <1>5 DEF ClientForward
    <2>2. b \in Buffers /\ b \notin ToSet(UplineBuffers) /\ data[b] \in Blocks
      BY <1>0, <2>1 DEF CouplerInv, OwnInv, Apart, BlockInv, Filled
    <2>3. QED
      BY <1>0, <2>1, <2>2, RequestStep DEF Upline!Next
  <1>6. CASE DispatchForward
    <2>1. RequestUplineTransfer(inHand) /\ inHand # None /\ UNCHANGED <<lastRead, data>>
      BY <1>6 DEF DispatchForward
    <2>2. inHand \in Buffers /\ inHand \notin ToSet(UplineBuffers) /\ data[inHand] \in Blocks
      BY <1>0, <2>1 DEF CouplerInv, OwnInv, Apart, BlockInv, Filled
    <2>3. QED
      BY <1>0, <2>1, <2>2, RequestStep DEF Upline!Next
  <1>7. CASE NotifyDownlineReceived
    <2>1. PICK m \in Blocks : data' = [data EXCEPT ![hipBuffer] = m]
      BY <1>7 DEF NotifyDownlineReceived
    <2>2. /\ UNCHANGED <<upVars, lastRead>> /\ hipBuffer = bipDownlineBuffer
          /\ bipDownlineBuffer # None
      BY <1>7 DEF NotifyDownlineReceived, CouplerInv, AgreeInv
    <2>3. bipDownlineBuffer \notin ToSet(UplineBuffers)
      BY <1>0, <2>2 DEF CouplerInv, OwnInv, Apart
    <2>4. \A c \in ToSet(UplineBuffers) : data'[c] = data[c]
      BY <1>0, <2>1, <2>2, <2>3
    <2>5. QED
      BY <2>2, <2>4, StutteringStep
  <1>8. CASE ClientHold
    <2>1. PICK b \in bufPool, m \in Blocks :
             data' = [data EXCEPT ![b] = m] /\ UNCHANGED <<upVars, lastRead>>
      BY <1>8 DEF ClientHold
    <2>2. b \notin ToSet(UplineBuffers)
      BY <1>0, <2>1 DEF CouplerInv, OwnInv, Apart
    <2>3. \A c \in ToSet(UplineBuffers) : data'[c] = data[c]
      BY <1>0, <2>1, <2>2
    <2>4. QED
      BY <2>1, <2>3, StutteringStep
  <1>9. CASE PollInit \/ PollIdle \/ EndCheck \/ ReadNpuStatus \/ OrderFunction
             \/ RetryOrder \/ UnknownOrder \/ EndOrder \/ EndDispatch \/ HostRestart
             \/ AbortDownlineReceived \/ UNCHANGED vars
    BY <1>1, <1>9 DEF PollInit, PollIdle, EndCheck, ReadNpuStatus, OrderFunction, RetryOrder,
         UnknownOrder, EndOrder, EndDispatch, HostRestart, AbortDownlineReceived, vars
  <1>10. CASE \/ \E state \in {"BipDownSvm", "BipDownData"} : OutputOrder(state)
              \/ ClientRelease \/ DispatchRelease \/ DispatchKeep
    BY <1>1, <1>10 DEF OutputOrder, ClientRelease, DispatchRelease, DispatchKeep
  <1>11. QED
    BY <1>2, <1>3, <1>4, <1>5, <1>6, <1>7, <1>8, <1>9, <1>10 DEF Next, Host, Client

\* The blocks sent upline implement a queue: whatever transfers displace them and
\* whenever NPU and host are reset, the host reads each once and in order.
THEOREM ImplementsUplineQueue == Spec => UplineSpec
  <1>1. Init => Upline!Init
    BY DEF Init, Upline!Init, UplineBlocks, UplineBuffers
  <1>2. CouplerInv /\ [Next]_vars => [Upline!Next]_(Upline!queueVars)
    BY NextRefines
  <1>3. QED
    BY <1>1, <1>2, CouplerInvariant, PTL DEF Spec, UplineSpec, Upline!Spec

=============================================================================
