---------------------------- MODULE MCFsReceive ----------------------------
(* Small instances of FsReceive for TLC.                                   *)
EXTENDS FsReceive

\* 0 is refused, 1 is below RecvLen, 5 exceeds the ring and makes it wrap; 3
\* leaves the ring half full.
MCTotals == {0, 1, 3, 5}

\* More than one packet.
MCLongTotals == {6, 7}
=============================================================================
