---------------------------- MODULE ByteChannel ----------------------------
(***************************************************************************)
(* What the UI-demo input cache promises to the demos that read from it: a *)
(* bounded FIFO of bytes.  A received chunk is stored as one unit, and the *)
(* only bytes lost are the tail of a chunk that did not fit.  The reader   *)
(* takes bytes in order; the only bytes it skips are line ends.            *)
(*                                                                         *)
(* UIDemoCache implements this module (see UIDemoCache!Channel).           *)
(***************************************************************************)
EXTENDS Integers, Sequences

CONSTANTS Capacity,   \* how many bytes the channel holds
          Chunks,     \* the chunks one receive callback may deliver
          Eol         \* the bytes that end a line

VARIABLES queue,      \* stored bytes not yet taken, oldest first
          line        \* what the current read has obtained so far

chVars == <<queue, line>>

\* The part of chunk c that fits into free bytes.
Fitting(c, free) == SubSeq(c, 1, IF Len(c) <= free THEN Len(c) ELSE free)

Init == queue = <<>> /\ line = <<>>

Store == /\ \E c \in Chunks : queue' = queue \o Fitting(c, Capacity - Len(queue))
         /\ UNCHANGED line

Begin == line' = <<>> /\ UNCHANGED queue

Take == /\ queue # <<>>
        /\ line' = Append(line, Head(queue))
        /\ queue' = Tail(queue)

Skip == /\ queue # <<>>
        /\ Head(queue) \in Eol
        /\ queue' = Tail(queue)
        /\ UNCHANGED line

Next == Store \/ Begin \/ Take \/ Skip

Spec == Init /\ [][Next]_chVars
=============================================================================
