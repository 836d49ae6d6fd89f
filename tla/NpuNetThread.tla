---------------------------- MODULE NpuNetThread ----------------------------
(***************************************************************************)
(* The NPU with its network thread (npu_net.c).  The thread accepts the    *)
(* connections of terminals and asks the host, by a block sent upline, to  *)
(* configure each.  It calls the functions of npu_bip.c that the main      *)
(* thread uses, and no lock protects what they share.                      *)
(*                                                                         *)
(* The thread's request is cut between its accesses to the block           *)
(* interface's state; what the main thread does stays whole, so that every *)
(* behaviour here is one of the code, which has more.                      *)
(***************************************************************************)
EXTENDS NpuCoupler

VARIABLES netPc,      \* where the network thread is in its request
          netBuffer   \* the buffer it has allocated

netVars == <<netPc, netBuffer>>

InitNet == Init /\ netPc = "accept" /\ netBuffer = None

\* A terminal connects: the thread allocates a buffer and assembles the request.
NetRequestConfig ==
    /\ netPc = "accept" /\ netPc' = "request"
    /\ \E b \in bufPool : \E m \in Blocks :
          /\ bufPool' = bufPool \ {b} /\ netBuffer' = b
          /\ data' = [data EXCEPT ![b] = m]
    /\ UNCHANGED <<hipVars, initCount, upVars, downVars, held, inHand, phase, hostVars>>

\* It looks whether a block is pending ...
NetTestPending ==
    /\ netPc = "request"
    /\ netPc' = IF bipUplineBuffer # None THEN "append" ELSE "send"
    /\ UNCHANGED <<vars, netBuffer>>

\* ... and puts its own behind it, or makes it the pending one ...
NetAppend == /\ netPc = "append" /\ netPc' = "accept"
             /\ bipUplineQueue' = Append(bipUplineQueue, netBuffer) /\ netBuffer' = None
             /\ UNCHANGED <<hipVars, initCount, bipUplineBuffer, downVars, memVars, phase,
                            hostVars>>

NetSend == /\ netPc = "send" /\ netPc' = "announce"
           /\ bipUplineBuffer' = netBuffer /\ netBuffer' = None
           /\ UNCHANGED <<hipVars, initCount, bipUplineQueue, downVars, memVars, phase,
                          hostVars>>

\* ... and announces that.
NetAnnounce == /\ netPc = "announce" /\ netPc' = "accept"
               /\ IF bipState = "BipIdle" /\ bipUplineBuffer # None
                  THEN UplineBlock(bipUplineBuffer) ELSE UNCHANGED hipVars
               /\ UNCHANGED <<initCount, upVars, downVars, memVars, phase, hostVars, netBuffer>>

NetThread == NetRequestConfig \/ NetTestPending \/ NetAppend \/ NetSend \/ NetAnnounce

NextNet == NetThread \/ (Next /\ UNCHANGED netVars)

SpecNet == InitNet /\ [][NextNet]_<<vars, netVars>>

=============================================================================
