---------------------------- MODULE FileTransfer ----------------------------
(***************************************************************************)
(* What receiving a file promises: transfers come one at a time; each is   *)
(* answered once, after its last byte; while it is sound, its file holds   *)
(* nothing but its bytes, in order and none before it came; it is answered *)
(* with success only for a file of exactly the bytes announced, and a      *)
(* sound one is never answered with failure; a failure leaves no file that *)
(* the transfer has opened.                                                *)
(***************************************************************************)
EXTENDS Integers, Sequences

CONSTANT Lengths

VARIABLES
  busy,    \* a transfer owes its answer
  id,      \* which transfer it is
  len,     \* the bytes announced
  sent,    \* and of those, how many were taken from the user
  sound,   \* nothing of it has gone wrong
  opened,  \* its file is open
  stored,  \* the contents of the file
  answer   \* what the user was told

vars == <<busy, id, len, sent, sound, opened, stored, answer>>

Bytes == {0, 1} \X Nat
Prefix(n) == [i \in 1..n |-> <<id, i>>]

Init ==
  /\ ~ busy /\ id = 0 /\ len = 0 /\ sent = 0 /\ ~ sound /\ ~ opened
  /\ stored = <<>> /\ answer = "none"

\* What went wrong in an earlier transfer may still make this one unsound.
Begin ==
  /\ ~ busy /\ busy' /\ id' = 1 - id
  /\ len' \in Lengths \ {0} /\ sent' = 0
  /\ sound' \in BOOLEAN
  /\ answer' = "none"
  /\ UNCHANGED <<opened, stored>>

\* While the transfer is under way it can become unsound at every step.
Working == busy /\ busy' /\ (sound' => sound) /\ UNCHANGED <<id, len, answer>>

Accept ==
  /\ Working
  /\ sent < sent' /\ sent' <= len
  /\ UNCHANGED <<opened, stored>>

\* The file of an earlier transfer is there until this one opens its own.
Open ==
  /\ Working
  /\ ~ opened /\ opened' /\ stored' = <<>>
  /\ UNCHANGED sent

\* A file is only added to; a sound one with the next bytes taken.
Store ==
  /\ Working
  /\ opened
  /\ stored' \in Seq(Bytes) /\ Len(stored) <= Len(stored')
  /\ SubSeq(stored', 1, Len(stored)) = stored
  /\ sound' => Len(stored') <= sent /\ stored' = Prefix(Len(stored'))
  /\ UNCHANGED <<sent, opened>>

Break == Working /\ ~ sound' /\ UNCHANGED <<sent, opened, stored>>

\* The transfer is over.
Over ==
  /\ busy /\ ~ busy' /\ sent = len
  /\ ~ sound' /\ ~ opened' /\ len' = 0 /\ sent' = 0
  /\ UNCHANGED id

Succeed ==
  /\ Over
  /\ opened /\ stored = Prefix(len)
  /\ answer' = "succ"
  /\ UNCHANGED stored

Fail ==
  /\ Over
  /\ ~ sound
  /\ stored' = IF opened THEN <<>> ELSE stored
  /\ answer' = "fail"

Next == Begin \/ Accept \/ Open \/ Store \/ Break \/ Succeed \/ Fail

Spec == Init /\ [][Next]_vars
=============================================================================
