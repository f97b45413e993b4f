---------------------------- MODULE PackageStore ----------------------------
(***************************************************************************)
(* What bringing a package into the partition promises: from the time the  *)
(* partition is opened its contents grow from nothing, by the next bytes   *)
(* of one package only; a success is reported only with as many bytes as   *)
(* were announced, and with none if less than none were; and if that is    *)
(* the length of the package, a failure leaves less than a package.        *)
(***************************************************************************)
EXTENDS Integers, Sequences

CONSTANT MaxLen

VARIABLES
  stored,  \* the contents of the partition
  source,  \* the package that is fetched, its length, and what is announced
  state    \* idle, writing or succeeded

vars == <<stored, source, state>>

Sources == [file : {0, 1}, length : 0..MaxLen, announced : -1..MaxLen]

\* The bytes after the first `from`; the last of a package is marked.
NextBytes(from, n) ==
  [k \in 1..n |->
     <<source.file, from + k, IF from + k = source.length THEN "last" ELSE "inner">>]

Left == source.length - Len(stored)

Init == stored = <<>> /\ source \in Sources /\ state = "idle"

\* Another package is chosen.
Choose ==
  /\ state # "writing" /\ state' = "idle"
  /\ source' \in Sources
  /\ UNCHANGED stored

\* The old contents are discarded.
Open ==
  /\ state # "writing" /\ state' = "writing"
  /\ source' \in Sources
  /\ stored' = <<>>

Write ==
  /\ state = "writing"
  /\ \E n \in 0..Left : stored' = stored \o NextBytes(Len(stored), n)
  /\ UNCHANGED <<source, state>>

\* Nobody need be told of the success.
Finish ==
  /\ state = "writing" /\ state' \in {"succeeded", "idle"}
  /\ Len(stored) = source.announced \/ (source.announced < 0 /\ stored = <<>>)
  /\ UNCHANGED <<stored, source>>

Fail ==
  /\ state = "writing" /\ state' = "idle"
  /\ \E n \in 0..Left :
       /\ source.announced = source.length => n < Left
       /\ stored' = stored \o NextBytes(Len(stored), n)
  /\ UNCHANGED source

Next == Choose \/ Open \/ Write \/ Finish \/ Fail

Spec == Init /\ [][Next]_vars
=============================================================================
