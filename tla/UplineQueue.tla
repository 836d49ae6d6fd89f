---------------------------- MODULE UplineQueue ----------------------------
(***************************************************************************)
(* What the NPU promises for the blocks its parts send to the host: a      *)
(* queue.  The host reads them one at a time, each once, in the order in   *)
(* which they were requested, until a reset discards what is left.         *)
(* NpuCoupler implements this.                                             *)
(***************************************************************************)
EXTENDS Sequences

CONSTANTS Blocks, NoBlock

VARIABLES pending,    \* the blocks requested and not yet read, oldest first
          lastRead    \* the block the host read last

queueVars == <<pending, lastRead>>

Init == pending = <<>> /\ lastRead = NoBlock

\* A block is requested.
Request == /\ \E m \in Blocks : pending' = Append(pending, m)
           /\ UNCHANGED lastRead

\* The host reads the oldest block.
Deliver == /\ pending # <<>>
           /\ lastRead' = Head(pending)
           /\ pending' = Tail(pending)

Reset == pending' = <<>> /\ UNCHANGED lastRead

Next == Request \/ Deliver \/ Reset

Spec == Init /\ [][Next]_queueVars

=============================================================================
