------------------------ MODULE FsReceiveRefinement ------------------------
(***************************************************************************)
(* FsReceive implements FileTransfer for a user who waits for the handler, *)
(* whatever the sizes, the lengths of the files and the calls that fail:   *)
(* every step of the two tasks begins, feeds, opens, stores, breaks or     *)
(* answers a transfer, or changes nothing that the user or the file sees.  *)
(***************************************************************************)
EXTENDS FsReceiveProofs

\* What FileTransfer sees.
Seen == <<Owing, xfer, IF Owing THEN total ELSE 0, IF Owing THEN received ELSE 0,
          SoundSoFar, handle, file, answer>>

TransferStep == Transfer!Next \/ UNCHANGED Seen

\* While a transfer is owed its answer its variables are in use; else the handler
\* is cleaning up or waiting, and the UI task may be arranging the next one.
LEMMA OwingFacts ==
  FsInv => /\ Owing => /\ pcS \notin Arranging /\ pcH \notin Cleaning
                       /\ total \in Nat /\ 0 < total /\ received \in Nat /\ received <= total
                       /\ valid = {"ring", "R", "W"}
           /\ ~ Owing => /\ owed = 0 /\ ~ handle
                         /\ pcS \in Arranging \cup {"idle"} /\ pcH \in Cleaning \cup {"wait"}
BY DEF FsInv, FsTypeOK, Phase, Owing

LEMMA PrefixIsSent == \A n : Transfer!Prefix(n) = Sent(n)
BY DEF Transfer!Prefix, Sent, Byte

\* The file of a sound transfer holds bytes that were received, in order.
LEMMA SoundFile ==
  FsInv /\ SoundSoFar /\ handle => Len(file) <= received /\ file = Sent(Len(file))
<1> SUFFICES ASSUME FsInv, SoundSoFar, handle
             PROVE  Len(file) <= received /\ file = Sent(Len(file))
  OBVIOUS
<1>1. FsTypeOK /\ Carried /\ owed = 1
  BY DEF SoundSoFar, Owing, FsInv
<1>2. /\ file \in Seq(TheBytes) /\ received \in Nat /\ totalWriteLen \in Nat /\ InPacket \in Nat
      /\ cached \in Nat /\ Len(file) \in Nat
  BY <1>1, FsSizeAssumption DEF FsTypeOK, InPacket, cached
<1>3. /\ totalWriteLen = Len(file) /\ Stale = 0
      /\ \A i \in 1..received : Content(Stale + i) = Byte(i)
  BY <1>1 DEF Carried, SoundSoFar
<1>4. Len(file) <= received
  BY <1>2, <1>3 DEF Stale
<1>5. ASSUME NEW i \in 1..Len(file) PROVE file[i] = Byte(i)
  <2>1. i \in 1..received /\ 0 + i = i /\ i <= totalWriteLen
    BY <1>2, <1>3, <1>4
  <2>2. Content(0 + i) = Byte(i)
    BY ONLY <1>3, <2>1
  <2> QED
    BY ONLY <2>1, <2>2 DEF Content
<1>6. file = [i \in 1..Len(file) |-> Byte(i)]
  BY <1>2, <1>5
<1> QED
  BY <1>4, <1>6 DEF Sent

LEMMA SeenStutter ==
  UNCHANGED <<owed, xfer, total, received, bFail, leftover, wild, handle, file, answer>>
    => UNCHANGED Seen
BY DEF Seen, Owing, SoundSoFar

\* While no transfer is owed its answer, arranging one and cleaning up after one
\* are not seen.
LEMMA IdleStutter ==
  ~ Owing /\ UNCHANGED <<owed, xfer, handle, file, answer>> => TransferStep
BY DEF TransferStep, Seen, Owing, SoundSoFar

LEMMA TransferInit == Init => Transfer!Init
BY DEF Init, Transfer!Init, Owing, SoundSoFar

\* A step of a transfer under way: it can only get worse.
LEMMA WorkingStep ==
  ASSUME FsInv, Owing, UNCHANGED <<owed, xfer, total, leftover, answer>>, bFail => bFail', ~ wild
  PROVE  Transfer!Working
BY DEF Transfer!Working, Owing, SoundSoFar

LEMMA BeginTransfers == FsInv /\ ~ wild /\ Begin => Transfer!Begin
<1> SUFFICES ASSUME FsInv, ~ wild, Begin PROVE Transfer!Begin
  OBVIOUS
<1> USE DEF Begin, handlerVars
<1>1. ~ Owing /\ owed = 0 /\ total \in Totals \ {0}
  BY OwingFacts DEF FsInv, Arranged, Arranging
<1>2. Owing' /\ xfer' = 1 - xfer /\ total' = total
  BY <1>1 DEF Owing
<1>3. received' = 0 /\ answer' = "none"
  OBVIOUS
<1>4. SoundSoFar' \in BOOLEAN
  BY DEF SoundSoFar
<1>5. handle' = handle /\ file' = file
  OBVIOUS
<1> QED
  BY ONLY <1>1, <1>2, <1>3, <1>4, <1>5 DEF Transfer!Begin

\* A refused piece counts as taken; the transfer is then unsound.
LEMMA StoreAccepts == FsInv /\ ~ wild /\ Store => Transfer!Accept
<1> SUFFICES ASSUME FsInv, ~ wild, Store PROVE Transfer!Accept
  OBVIOUS
<1> USE DEF Store, handlerVars, historyVars
<1>1. Owing
  BY OwingFacts DEF Arranging
<1>2. /\ received' = received + datalen /\ received \in Nat /\ datalen \in Nat /\ 0 < datalen
      /\ received + datalen <= total /\ total \in Nat
  BY <1>1, OwingFacts DEF FsInv, Phase, FsTypeOK, Owing
<1>3. UNCHANGED <<owed, xfer, total, leftover, answer, handle, file>>
  OBVIOUS
<1>4. bFail => bFail'
  OBVIOUS
<1>5. Transfer!Working
  BY <1>1, <1>3, <1>4, WorkingStep
<1>6. Owing' /\ received < received + datalen
  BY <1>1, <1>2, <1>3 DEF Owing
<1> QED
  BY ONLY <1>1, <1>2, <1>3, <1>5, <1>6 DEF Transfer!Accept

LEMMA EndIsUnseen == FsInv /\ ~ wild /\ End => UNCHANGED Seen
<1> SUFFICES ASSUME FsInv, ~ wild, End PROVE UNCHANGED Seen
  OBVIOUS
<1> USE DEF End, handlerVars, historyVars
<1>1. ~ received > total /\ bFail \in BOOLEAN
  BY OwingFacts DEF FsInv, FsTypeOK, Arranging
<1>2. bFail' = bFail
  <2>1. bFail' = bFail \/ bFail' = (bFail \/ received > total)
    OBVIOUS
  <2>2. (bFail \/ received > total) = bFail
    BY ONLY <1>1
  <2> QED
    BY ONLY <2>1, <2>2
<1>3. UNCHANGED <<owed, xfer, total, received, leftover, wild, handle, file, answer>>
  OBVIOUS
<1> QED
  BY <1>2, <1>3, SeenStutter

\* The first pass of a transfer opens its file, or breaks it.
LEMMA PrepareOpens == FsInv /\ ~ wild /\ Prepare => TransferStep
<1> SUFFICES ASSUME FsInv, ~ wild, Prepare PROVE TransferStep
  OBVIOUS
<1> USE DEF Prepare, sendVars
<1>1. Owing
  BY OwingFacts DEF Cleaning
<1>2. UNCHANGED <<owed, xfer, total, received, leftover, answer>>
  OBVIOUS
<1>3. Transfer!Working
  BY <1>1, <1>2, WorkingStep
<1>4. Owing' = Owing
  BY <1>2 DEF Owing
<1>5. PICK opened \in {handle, TRUE} :
        /\ handle' = opened
        /\ file' = IF ~ handle /\ opened THEN <<>> ELSE file
        /\ bFail' = ~ opened
  OBVIOUS
<1>6. handle \in BOOLEAN /\ bFail = FALSE /\ wild = FALSE
  BY DEF FsInv, FsTypeOK
<1>7. CASE ~ handle /\ opened
  <2>1. handle' /\ file' = <<>>
    BY <1>5, <1>7
  <2> QED
    BY ONLY <1>2, <1>3, <1>4, <1>7, <2>1 DEF Transfer!Open, Transfer!Next, TransferStep
<1>8. CASE ~ (~ handle /\ opened)
  <2>1. handle' = handle /\ file' = file
    BY <1>5, <1>6, <1>8
  <2>2. CASE bFail' \/ wild'
    <3>1. ~ SoundSoFar'
      BY <2>2 DEF SoundSoFar
    <3> QED
      BY ONLY <1>2, <1>3, <1>4, <2>1, <3>1 DEF Transfer!Break, Transfer!Next, TransferStep
  <2>3. CASE ~ bFail' /\ ~ wild'
    <3>1. SoundSoFar' = SoundSoFar
      BY <1>2, <1>4, <1>6, <2>3 DEF SoundSoFar
    <3> QED
      BY ONLY <1>2, <1>4, <2>1, <3>1 DEF Seen, TransferStep
  <2> QED
    BY <2>2, <2>3
<1> QED
  BY <1>7, <1>8

\* Moving bytes to the packet is not seen, unless it breaks the transfer.
LEMMA MoveIsUnseen == FsInv /\ ~ wild /\ Move => TransferStep
<1> SUFFICES ASSUME FsInv, ~ wild, Move PROVE TransferStep
  OBVIOUS
<1>1. /\ UNCHANGED <<owed, xfer, total, received, leftover, answer, handle, file>>
      /\ pcH = "move" /\ bFail' \in BOOLEAN
      /\ bFail => bFail'
      /\ wild' = TRUE \/ wild' = wild
  BY DEF Move, sendVars
<1>2. Owing /\ Owing' = Owing
  BY <1>1, OwingFacts DEF Cleaning, Owing
<1>3. Transfer!Working
  BY <1>1, <1>2, WorkingStep
<1>4. CASE SoundSoFar'
  <2>1. ~ bFail /\ ~ bFail' /\ ~ wild'
    BY <1>1, <1>4 DEF SoundSoFar
  <2>2. SoundSoFar' = SoundSoFar
    BY <1>1, <1>2, <1>4, <2>1 DEF SoundSoFar
  <2> QED
    BY ONLY <1>1, <1>2, <2>2 DEF Seen, TransferStep
<1>5. CASE ~ SoundSoFar'
  BY ONLY <1>1, <1>2, <1>3, <1>5 DEF Transfer!Break, Transfer!Next, TransferStep
<1> QED
  BY <1>4, <1>5

\* A packet is the next part of the file.
LEMMA WritePacketStores == FsInv /\ FsInv' /\ ~ wild /\ WritePacket => TransferStep
<1> SUFFICES ASSUME FsInv, FsInv', ~ wild, WritePacket PROVE TransferStep
  OBVIOUS
<1>1. /\ UNCHANGED <<owed, xfer, total, received, leftover, answer, handle, wild>>
      /\ pcH = "write"
  BY DEF WritePacket, sendVars
<1>2. PICK n \in 0..(bufLen - room) :
        /\ file' = IF handle THEN file \o SubSeq(packet, 1, n) ELSE file
        /\ bFail' = (bFail \/ n # bufLen - room)
  BY DEF WritePacket
<1>3. Owing /\ Owing' = Owing
  BY <1>1, OwingFacts DEF Cleaning, Owing
<1>4. Transfer!Working
  BY <1>1, <1>2, <1>3, WorkingStep
<1>5. CASE handle
  <2>1. /\ file \in Seq(TheBytes) /\ file' \in Seq(TheBytes) /\ packet \in Seq(TheBytes)
        /\ bufLen \in Nat /\ room \in Nat /\ Len(packet) = bufLen
    BY <1>1 DEF FsInv, FsTypeOK, Packet
  <2>2. SubSeq(packet, 1, n) \in Seq(TheBytes)
    BY ONLY <2>1, n \in 0..(bufLen - room)
  <2>3. file' = file \o SubSeq(packet, 1, n)
    BY <1>2, <1>5
  <2>4. Len(file) <= Len(file') /\ SubSeq(file', 1, Len(file)) = file
    BY ONLY <2>1, <2>2, <2>3
  <2>5. SoundSoFar' => Len(file') <= received /\ file' = Transfer!Prefix(Len(file'))
    <3>1. (FsInv /\ SoundSoFar /\ handle => Len(file) <= received /\ file = Sent(Len(file)))'
      BY SoundFile, PTL
    <3> QED
      BY <1>1, <1>5, <3>1 DEF Transfer!Prefix, Sent, Byte
  <2>6. file' \in Seq(Transfer!Bytes)
    BY ONLY <2>1 DEF Transfer!Bytes, TheBytes
  <2>7. SoundSoFar' => /\ Len(file') <= IF Owing THEN received ELSE 0
                       /\ file' = Transfer!Prefix(Len(file'))
    BY ONLY <1>3, <2>5
  <2>8. UNCHANGED <<IF Owing THEN received ELSE 0, handle>>
    BY ONLY <1>1, <1>3
  <2>9. Transfer!Store
    BY ONLY <1>4, <1>5, <2>4, <2>6, <2>7, <2>8 DEF Transfer!Store
  <2> QED
    BY ONLY <2>9 DEF Transfer!Next, TransferStep
<1>6. CASE ~ handle
  <2>1. bFail /\ bFail'
    BY <1>1, <1>2, <1>6 DEF FsInv, Packet
  <2>2. file' = file
    BY <1>2, <1>6
  <2>3. SoundSoFar' = SoundSoFar
    BY <2>1 DEF SoundSoFar
  <2> QED
    BY ONLY <1>1, <1>3, <2>2, <2>3 DEF Seen, TransferStep
<1> QED
  BY <1>5, <1>6

\* The answer comes after the last byte, and a sound transfer's is a success.
LEMMA AnswerAnswers == FsInv /\ FsInv' /\ ~ wild /\ Answer => Transfer!Succeed \/ Transfer!Fail
<1> SUFFICES ASSUME FsInv, FsInv', ~ wild, Answer PROVE Transfer!Succeed \/ Transfer!Fail
  OBVIOUS
<1>1. /\ UNCHANGED <<xfer, total, received, leftover, wild, transmitting>>
      /\ owed' = owed - 1 /\ ~ handle' /\ pcH = "answer" /\ pcH' = "clean"
      /\ bFail' = (bFail \/ totalWriteLen # total)
      /\ file' = IF bFail' /\ handle THEN <<>> ELSE file
      /\ answer' = IF bFail' THEN "fail" ELSE "succ"
  BY DEF Answer, sendVars
<1>2. FsTypeOK /\ Packet /\ Drained /\ Carried /\ SuccessMeansStored'
  BY DEF FsInv
<1>3. /\ owed = 1 /\ pcS = "idle" /\ received = total
      /\ total \in Nat /\ received \in Nat /\ totalWriteLen \in Nat
  BY <1>1 DEF FsInv, Phase, Ends, Told, Finished, FsTypeOK, Cleaning
<1>4. Owing /\ ~ Owing' /\ ~ SoundSoFar'
  BY <1>1, <1>3 DEF Owing, SoundSoFar
<1>5. Transfer!Over
  BY ONLY <1>1, <1>3, <1>4 DEF Transfer!Over
<1>6. CASE bFail'
  <2>1. ~ SoundSoFar
    <3> SUFFICES ASSUME SoundSoFar PROVE FALSE
      OBVIOUS
    <3>1. ~ bFail /\ ~ leftover
      BY DEF SoundSoFar
    <3>2. cached = 0 /\ InPacket = 0 /\ Stale = 0
      BY <1>1, <1>2, <1>3, <3>1 DEF Drained, Carried
    <3>3. totalWriteLen = total
      BY <1>3, <3>2 DEF Stale
    <3> QED
      BY ONLY <1>1, <1>6, <3>1, <3>3
  <2>2. file' = (IF handle THEN <<>> ELSE file) /\ answer' = "fail"
    BY ONLY <1>1, <1>6
  <2> QED
    BY ONLY <1>5, <2>1, <2>2 DEF Transfer!Fail
<1>7. CASE ~ bFail'
  <2>1. ~ bFail /\ file' = file /\ answer' = "succ"
    BY ONLY <1>1, <1>7
  <2>2. handle
    BY ONLY <1>1, <1>2, <2>1 DEF Packet
  <2>3. file = Transfer!Prefix(total)
    BY <1>1, <1>2, <1>3, <2>1 DEF SuccessMeansStored, Transfer!Prefix, Sent, Byte
  <2>4. total = IF Owing THEN total ELSE 0
    BY ONLY <1>4
  <2> QED
    BY ONLY <1>5, <2>1, <2>2, <2>3, <2>4 DEF Transfer!Succeed
<1> QED
  BY <1>6, <1>7

\* Every step maps to a step of FileTransfer or to a stutter.
LEMMA TransferNext ==
  WaitsForHandler /\ FsInv /\ FsInv' /\ [Next]_vars => [Transfer!Next]_Transfer!vars
<1> SUFFICES ASSUME WaitsForHandler, FsInv, FsInv', [Next]_vars PROVE TransferStep
  BY DEF TransferStep, Seen, Transfer!vars
<1>1. CASE ~ wild /\ Announce
  <2>1. ~ Owing
    BY <1>1 DEF Announce, MayBegin, Owing
  <2> QED
    BY <1>1, <2>1, IdleStutter DEF Announce, handlerVars, historyVars
<1>2. CASE ~ wild /\ (Refuse \/ Allocate \/ Arrange)
  <2>1. ~ Owing
    BY <1>2, OwingFacts DEF Refuse, Allocate, Arrange, Arranging
  <2> QED
    BY <1>2, <2>1, IdleStutter DEF Refuse, Allocate, Arrange, handlerVars, historyVars
<1>3. CASE ~ wild /\ (Begin \/ Ask \/ Store \/ End)
  <2>1. CASE Begin
    BY <1>3, <2>1, BeginTransfers DEF TransferStep, Transfer!Next
  <2>2. CASE Ask
    BY <2>2, SeenStutter DEF Ask, handlerVars, historyVars, TransferStep
  <2>3. CASE Store
    BY <1>3, <2>3, StoreAccepts DEF TransferStep, Transfer!Next
  <2>4. CASE End
    BY <1>3, <2>4, EndIsUnseen DEF TransferStep
  <2> QED
    BY <1>3, <2>1, <2>2, <2>3, <2>4
<1>4. CASE ~ wild /\ Handler
  <2>1. CASE Wait \/ Skip
    BY <2>1, SeenStutter DEF Wait, Skip, sendVars, historyVars, TransferStep
  <2>2. CASE Prepare
    BY <1>4, <2>2, PrepareOpens
  <2>3. CASE Move
    BY <1>4, <2>3, MoveIsUnseen
  <2>4. CASE WritePacket
    BY <1>4, <2>4, WritePacketStores
  <2>5. CASE Answer
    BY <1>4, <2>5, AnswerAnswers DEF TransferStep, Transfer!Next
  <2>6. CASE Clean \/ FreeRing \/ Stop \/ Flush
    <3>1. ~ Owing
      BY <2>6, OwingFacts DEF Clean, FreeRing, Stop, Flush, Cleaning
    <3> QED
      BY <2>6, <3>1, IdleStutter DEF Clean, FreeRing, Stop, Flush, historyVars
  <2> QED
    BY <1>4, <2>1, <2>2, <2>3, <2>4, <2>5, <2>6 DEF Handler
<1>5. CASE UNCHANGED vars
  BY <1>5, SeenStutter DEF vars, sendVars, handlerVars, historyVars, TransferStep
<1> QED
  BY <1>1, <1>2, <1>3, <1>4, <1>5 DEF Next, Sender, Undefined

\* What sRecvProcesser and sTask_FsHandeProcesser do to the file and tell the
\* user, in any order of their steps, is what FileTransfer allows.
THEOREM FsImplementsTransfer ==
  ASSUME WaitsForHandler
  PROVE  Spec => TransferSpec
<1>1. FsInv /\ FsInv' /\ [Next]_vars => [Transfer!Next]_Transfer!vars
  BY TransferNext
<1> QED
  BY <1>1, TransferInit, FsInvariant, PTL DEF Spec, TransferSpec, Transfer!Spec
=============================================================================
