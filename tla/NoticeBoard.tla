---------------------------- MODULE NoticeBoard ----------------------------
(***************************************************************************)
(* What the path of a short message promises: the notices the modem        *)
(* announces are shown in the order they were announced, each once at      *)
(* most.  A notice is lost only when nobody reads them yet, when the       *)
(* message it announces cannot be read in its turn, or when Room notices   *)
(* are already under way before it.  If the answers to the requests are    *)
(* exact, a notice is shown with its own message.                          *)
(***************************************************************************)
EXTENDS Integers, Sequences, SequencesExt

CONSTANTS Notices,   \* what can be announced
          Messages,  \* what can be shown for the notice of a new message
          Room,      \* the notices that may be under way without a loss
          Exact

VARIABLES
  waiting,  \* the notices that are neither shown nor lost, the oldest first
  open,     \* somebody reads the notices
  shown     \* the notice last shown and its message, or <<0, 0>>

vars == <<waiting, open, shown>>

Blank == <<0, 0>>

Init == waiting = <<>> /\ open = FALSE /\ shown = Blank

Open == open' = TRUE /\ UNCHANGED <<waiting, shown>>

Announce ==
  /\ \E n \in Notices : waiting' = Append(waiting, n)
  /\ UNCHANGED <<open, shown>>

\* Nobody reads the notices yet.
Unread == ~ open /\ waiting # <<>> /\ waiting' = Tail(waiting)

\* The message cannot be read, or not in time.
GiveUp ==
  /\ waiting # <<>> /\ Head(waiting).kind = "new"
  /\ waiting' = Tail(waiting)

\* Too many notices are under way already.
Crowd == \E i \in (Room + 1)..Len(waiting) : waiting' = RemoveAt(waiting, i)

Lose == (Unread \/ GiveUp \/ Crowd) /\ UNCHANGED <<open, shown>>

\* A flash message brings its own text, which has no index.
ShowFlash ==
  /\ waiting # <<>> /\ Head(waiting).kind = "flash"
  /\ waiting' = Tail(waiting) /\ shown' = Blank
  /\ UNCHANGED open

ShowNew ==
  /\ waiting # <<>> /\ Head(waiting).kind = "new"
  /\ waiting' = Tail(waiting)
  /\ \E m \in Messages : /\ Exact => m = Head(waiting).index
                         /\ shown' = <<Head(waiting).index, m>>
  /\ UNCHANGED open

Clear == shown' = Blank /\ UNCHANGED <<waiting, open>>

Next == Open \/ Announce \/ Lose \/ ShowFlash \/ ShowNew \/ Clear

Spec == Init /\ [][Next]_vars
=============================================================================
