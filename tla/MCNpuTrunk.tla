------------------------------ MODULE MCNpuTrunk ------------------------------
(* Instances of NpuTrunk for TLC.                                          *)
EXTENDS NpuTrunk

\* Systems 2 and 3 are joined by a trunk that both dial; 2 has another, to a system 1
\* that is not there, and so a port that gets the connections of 3 first.
JoinedTrunks == {<<2, 1>>, <<2, 3>>, <<3, 2>>}
JoinedDialling == {<<2, 3>>, <<3, 2>>}

\* Something else calls system 2, or nothing does.
OneCalled == {3}
NoneCalled == {}

===============================================================================
