---------------------------- MODULE MonitorLock ----------------------------
(***************************************************************************)
(* What the two CPUs of a dual-processor CYBER promise each other about    *)
(* monitor mode: it is a lock.  At most one CPU holds it; the others are   *)
(* outside or queued without an order, and a newcomer may take a free lock *)
(* ahead of a CPU that is already waiting.  CpuExchange implements this.   *)
(***************************************************************************)
EXTENDS Integers

CONSTANT Cpus

VARIABLES holders,   \* the set of CPUs that hold monitor mode
          waiting    \* the set of CPUs waiting to begin executing in monitor mode

lockVars == <<holders, waiting>>

Init == holders = {} /\ waiting = {}

\* A CPU enters monitor mode, and finds it free.
Enter(c) == /\ holders = {} /\ c \notin waiting
            /\ holders' = {c}
            /\ UNCHANGED waiting

\* A CPU enters monitor mode while another CPU holds it.
Wait(c) == /\ holders \ {c} # {} /\ c \notin holders
           /\ waiting' = waiting \cup {c}
           /\ UNCHANGED holders

\* A waiting CPU obtains the lock.
Grant(c) == /\ holders = {} /\ c \in waiting
            /\ holders' = {c}
            /\ waiting' = waiting \ {c}

\* The holder returns to job mode, or is reset.
Leave(c) == /\ c \in holders
            /\ holders' = holders \ {c}
            /\ UNCHANGED waiting

\* A waiting CPU is taken out of monitor mode before it got the lock.
Abandon(c) == /\ c \in waiting
              /\ waiting' = waiting \ {c}
              /\ UNCHANGED holders

Next == \E c \in Cpus : Enter(c) \/ Wait(c) \/ Grant(c) \/ Leave(c) \/ Abandon(c)

Spec == Init /\ [][Next]_lockVars

=============================================================================
