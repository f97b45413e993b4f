-------------------------- MODULE FsReceiveProofs --------------------------
(***************************************************************************)
(* Proofs about FsReceive, whatever the sizes of ring, packet and pieces,  *)
(* the lengths of the files and the calls that fail.  FsInv is inductive   *)
(* for a user who waits for the handler; the invariants that the runs      *)
(* check follow, two of them for files of one packet only.                 *)
(***************************************************************************)
EXTENDS FsReceive, TLAPS

-----------------------------------------------------------------------------
(* The ring's offsets.                                                     *)

Offsets == 0..(RingSize - 1)

LEMMA ForwardFacts ==
  /\ \A a \in Offsets, n \in 0..RingSize : Forward(a, n) \in Offsets
  /\ \A a \in Offsets : Forward(a, 0) = a /\ Forward(a, RingSize) = a
  /\ \A a \in Offsets, n, m \in Nat :
       n + m <= RingSize /\ n < RingSize => Forward(Forward(a, n), m) = Forward(a, n + m)
BY FsSizeAssumption DEF Forward, Offsets

LEMMA ReadFacts ==
  ASSUME free \in 0..RingSize, NEW len \in Nat
  PROVE  /\ cached \in 0..RingSize
         /\ ReadLen(len) \in 0..cached /\ ReadLen(len) <= len
         /\ ReadLen(len) < cached => ReadLen(len) = len
         /\ ~ ReadFails(len) =>
              /\ ReadResult(len) \in Nat
              /\ ReadResult(len) > len <=> ReadLen(len) < cached
              /\ ReadResult(len) = IF ReadLen(len) < cached THEN ReadLen(len) + 1 ELSE ReadLen(len)
         /\ ReadFails(len) => ReadResult(len) = -1
<1>1. cached \in 0..RingSize
  BY FsSizeAssumption DEF cached
<1>2. ReadLen(len) \in 0..cached /\ ReadLen(len) <= len /\ ReadLen(len) \in {len, cached}
  BY <1>1 DEF ReadLen, MinOf
<1> QED
  BY <1>1, <1>2, FsSizeAssumption DEF ReadResult, cached

-----------------------------------------------------------------------------
(* The inductive invariant.                                                *)

LEMMA FlagFacts ==
  /\ {} \in FlagSets
  /\ \A s, t \in FlagSets : s \cup t \in FlagSets
  /\ \A f \in {"SYNC", "SUCCESS", "FAIL"} : {f} \in FlagSets
BY DEF FlagSets

LEMMA SyncFlags == \A n : Sync(n) \in FlagSets /\ Sync(n) \cap {"SUCCESS", "FAIL"} = {}
BY DEF Sync, FlagSets

LEMMA ByteFacts == /\ <<>> \in Seq(TheBytes) /\ Len(<<>>) = 0
                   /\ ZeroByte \in TheBytes
                   /\ [o \in 0..(RingSize - 1) |-> ZeroByte] \in [0..(RingSize - 1) -> TheBytes]
<1>1. ZeroByte \in TheBytes
  BY DEF ZeroByte, TheBytes
<1> QED
  BY <1>1

-----------------------------------------------------------------------------
(* Every step keeps the types.                                             *)

LEMMA InitTypes == Init => FsTypeOK
<1> SUFFICES ASSUME Init PROVE FsTypeOK
  OBVIOUS
<1> USE DEF Init
<1>1. FsTypeOK
  <2>1. total = 0 /\ received = 0 /\ datalen = 0 /\ totalWriteLen = 0 /\ owed = 0 /\ p = 0
    OBVIOUS
  <2>2. file \in Seq(TheBytes) /\ packet \in Seq(TheBytes)
    BY ByteFacts DEF NULL
  <2>3. ringMem \in [0..(RingSize - 1) -> TheBytes]
    BY ByteFacts
  <2>4. flags \in FlagSets /\ got \in FlagSets
    BY FlagFacts
  <2> QED
    BY <2>1, <2>2, <2>3, <2>4, FsSizeAssumption DEF FsTypeOK
<1> QED
  BY <1>1

LEMMA AskTypes == FsInv /\ ~ wild /\ Ask => FsTypeOK'
<1> SUFFICES ASSUME FsInv, ~ wild, Ask PROVE FsTypeOK'
  OBVIOUS
<1> USE DEF Ask, ringVars, sendVars, packetVars, handlerVars, historyVars
<1>0. FsTypeOK /\ Phase /\ Packet
  BY DEF FsInv
<1>m. datalen' \in Nat /\ pcS' \in {"store", "idle"}
  BY <1>0, FsSizeAssumption DEF FsTypeOK, MinOf
<1>1. FsTypeOK'
  <2>1. (total \in Nat /\ received \in Nat /\ datalen \in Nat /\ bufLen \in Nat /\ room \in Nat
        /\ p \in Int /\ totalWriteLen \in Nat)'
    BY <1>0, <1>m DEF FsTypeOK
  <2>2. (transmitting \in BOOLEAN /\ bFail \in BOOLEAN /\ ringOk \in BOOLEAN /\ handle \in BOOLEAN
        /\ cleared \in BOOLEAN)'
    BY <1>0 DEF FsTypeOK
  <2>3. (leftover \in BOOLEAN /\ faulted \in BOOLEAN /\ wild \in BOOLEAN)'
    BY <1>0 DEF FsTypeOK
  <2>4. (ringMem \in [0..(RingSize - 1) -> TheBytes] /\ free \in 0..RingSize
        /\ valid \in SUBSET {"ring", "R", "W"} /\ rdOff \in 0..(RingSize - 1) /\ wrOff \in 0..(RingSize - 1))'
    BY <1>0 DEF FsTypeOK
  <2>5. (flags \in FlagSets /\ got \in FlagSets)'
    BY <1>0 DEF FsTypeOK
  <2>6. (/\ pcS \in Arranging \cup {"idle", "ask", "store", "end"}
        /\ pcH \in Cleaning \cup {"wait", "test", "move", "write", "answer"}
        /\ xfer \in {0, 1} /\ owed \in 0..2 /\ answer \in {"none", "succ", "fail"})'
    BY <1>0 DEF FsTypeOK
  <2>7. (file \in Seq(TheBytes) /\ packet \in Seq(TheBytes))'
    BY <1>0 DEF FsTypeOK
  <2> QED
    BY ONLY <2>1, <2>2, <2>3, <2>4, <2>5, <2>6, <2>7 DEF FsTypeOK
<1> QED
  BY <1>1

LEMMA EndTypes == FsInv /\ ~ wild /\ End => FsTypeOK'
<1> SUFFICES ASSUME FsInv, ~ wild, End PROVE FsTypeOK'
  OBVIOUS
<1> USE DEF End, ringVars, sendVars, packetVars, handlerVars, historyVars
<1>0. FsTypeOK /\ Phase /\ Packet
  BY DEF FsInv
<1>1. FsTypeOK'
  <2>1. (total \in Nat /\ received \in Nat /\ datalen \in Nat /\ bufLen \in Nat /\ room \in Nat
        /\ p \in Int /\ totalWriteLen \in Nat)'
    BY <1>0 DEF FsTypeOK
  <2>2. (transmitting \in BOOLEAN /\ bFail \in BOOLEAN /\ ringOk \in BOOLEAN /\ handle \in BOOLEAN
        /\ cleared \in BOOLEAN)'
    <3>1. bFail' \in BOOLEAN
      BY <1>0 DEF FsTypeOK
    <3> QED
      BY <1>0, <3>1 DEF FsTypeOK
  <2>3. (leftover \in BOOLEAN /\ faulted \in BOOLEAN /\ wild \in BOOLEAN)'
    BY <1>0 DEF FsTypeOK
  <2>4. (ringMem \in [0..(RingSize - 1) -> TheBytes] /\ free \in 0..RingSize
        /\ valid \in SUBSET {"ring", "R", "W"} /\ rdOff \in 0..(RingSize - 1) /\ wrOff \in 0..(RingSize - 1))'
    BY <1>0 DEF FsTypeOK
  <2>5. (flags \in FlagSets /\ got \in FlagSets)'
    BY <1>0, FlagFacts DEF FsTypeOK
  <2>6. (/\ pcS \in Arranging \cup {"idle", "ask", "store", "end"}
        /\ pcH \in Cleaning \cup {"wait", "test", "move", "write", "answer"}
        /\ xfer \in {0, 1} /\ owed \in 0..2 /\ answer \in {"none", "succ", "fail"})'
    BY <1>0 DEF FsTypeOK
  <2>7. (file \in Seq(TheBytes) /\ packet \in Seq(TheBytes))'
    BY <1>0 DEF FsTypeOK
  <2> QED
    BY ONLY <2>1, <2>2, <2>3, <2>4, <2>5, <2>6, <2>7 DEF FsTypeOK
<1> QED
  BY <1>1

LEMMA WaitTypes == FsInv /\ ~ wild /\ Wait => FsTypeOK'
<1> SUFFICES ASSUME FsInv, ~ wild, Wait PROVE FsTypeOK'
  OBVIOUS
<1> USE DEF Wait, ringVars, sendVars, packetVars, handlerVars, historyVars
<1>0. FsTypeOK /\ Phase /\ Packet
  BY DEF FsInv
<1>1. FsTypeOK'
  <2>1. (total \in Nat /\ received \in Nat /\ datalen \in Nat /\ bufLen \in Nat /\ room \in Nat
        /\ p \in Int /\ totalWriteLen \in Nat)'
    BY <1>0 DEF FsTypeOK
  <2>2. (transmitting \in BOOLEAN /\ bFail \in BOOLEAN /\ ringOk \in BOOLEAN /\ handle \in BOOLEAN
        /\ cleared \in BOOLEAN)'
    BY <1>0 DEF FsTypeOK
  <2>3. (leftover \in BOOLEAN /\ faulted \in BOOLEAN /\ wild \in BOOLEAN)'
    BY <1>0 DEF FsTypeOK
  <2>4. (ringMem \in [0..(RingSize - 1) -> TheBytes] /\ free \in 0..RingSize
        /\ valid \in SUBSET {"ring", "R", "W"} /\ rdOff \in 0..(RingSize - 1) /\ wrOff \in 0..(RingSize - 1))'
    BY <1>0 DEF FsTypeOK
  <2>5. (flags \in FlagSets /\ got \in FlagSets)'
    BY <1>0, FlagFacts DEF FsTypeOK
  <2>6. (/\ pcS \in Arranging \cup {"idle", "ask", "store", "end"}
        /\ pcH \in Cleaning \cup {"wait", "test", "move", "write", "answer"}
        /\ xfer \in {0, 1} /\ owed \in 0..2 /\ answer \in {"none", "succ", "fail"})'
    BY <1>0 DEF FsTypeOK
  <2>7. (file \in Seq(TheBytes) /\ packet \in Seq(TheBytes))'
    BY <1>0 DEF FsTypeOK
  <2> QED
    BY ONLY <2>1, <2>2, <2>3, <2>4, <2>5, <2>6, <2>7 DEF FsTypeOK
<1> QED
  BY <1>1

LEMMA SkipTypes == FsInv /\ ~ wild /\ Skip => FsTypeOK'
<1> SUFFICES ASSUME FsInv, ~ wild, Skip PROVE FsTypeOK'
  OBVIOUS
<1> USE DEF Skip, ringVars, sendVars, packetVars, handlerVars, historyVars
<1>0. FsTypeOK /\ Phase /\ Packet
  BY DEF FsInv
<1>1. FsTypeOK'
  BY <1>0 DEF FsTypeOK
<1> QED
  BY <1>1

LEMMA PrepareTypes == FsInv /\ ~ wild /\ Prepare => FsTypeOK'
<1> SUFFICES ASSUME FsInv, ~ wild, Prepare PROVE FsTypeOK'
  OBVIOUS
<1> USE DEF Prepare, ringVars, sendVars, packetVars, handlerVars, historyVars
<1>0. FsTypeOK /\ Phase /\ Packet
  BY DEF FsInv
<1>o. PICK opened \in {handle, TRUE} :
        /\ handle' = opened
        /\ file' = IF ~ handle /\ opened THEN <<>> ELSE file
        /\ bFail' = ~ opened
        /\ faulted' = (faulted \/ ~ opened)
  OBVIOUS
<1>w. wild' \in BOOLEAN
  <2>1. (wild \/ "packet" \in Faults) \in BOOLEAN
    OBVIOUS
  <2>2. wild' \in {wild, wild \/ "packet" \in Faults} \/ wild' = wild
    OBVIOUS
  <2> QED
    BY <1>0, <2>1, <2>2 DEF FsTypeOK
<1>b. packet = NULL =>
        /\ bufLen' \in Nat /\ room' = bufLen' /\ p' = 0
        /\ packet' \in Seq(TheBytes) /\ Len(packet') = bufLen'
  <2> SUFFICES ASSUME packet = NULL
               PROVE  /\ bufLen' \in Nat /\ room' = bufLen' /\ p' = 0
                      /\ packet' \in Seq(TheBytes) /\ Len(packet') = bufLen'
    OBVIOUS
  <2> DEFINE size == MinOf(total, PacketSize)
  <2>1. bufLen' = size /\ size \in Nat
    BY <1>0, FsSizeAssumption DEF MinOf, FsTypeOK
  <2>2. packet' = Blank(size)
    BY <2>1
  <2> HIDE DEF size
  <2>3. Blank(size) \in Seq(TheBytes) /\ Len(Blank(size)) = size
    BY <2>1, ByteFacts DEF Blank
  <2> QED
    BY <2>1, <2>2, <2>3
<1>k. packet # NULL => UNCHANGED <<packet, bufLen, room, p>>
  OBVIOUS
<1>1. FsTypeOK'
  <2>1. (total \in Nat /\ received \in Nat /\ datalen \in Nat /\ bufLen \in Nat /\ room \in Nat
        /\ p \in Int /\ totalWriteLen \in Nat)'
    BY <1>0, <1>b, <1>k DEF FsTypeOK
  <2>2. (transmitting \in BOOLEAN /\ bFail \in BOOLEAN /\ ringOk \in BOOLEAN /\ handle \in BOOLEAN
        /\ cleared \in BOOLEAN)'
    BY <1>0, <1>o DEF FsTypeOK
  <2>3. (leftover \in BOOLEAN /\ faulted \in BOOLEAN /\ wild \in BOOLEAN)'
    <3>1. (faulted \/ ~ opened) \in BOOLEAN
      OBVIOUS
    <3> QED
      BY <1>0, <1>w, <1>o, <3>1 DEF FsTypeOK
  <2>4. (ringMem \in [0..(RingSize - 1) -> TheBytes] /\ free \in 0..RingSize
        /\ valid \in SUBSET {"ring", "R", "W"} /\ rdOff \in 0..(RingSize - 1) /\ wrOff \in 0..(RingSize - 1))'
    BY <1>0 DEF FsTypeOK
  <2>5. (flags \in FlagSets /\ got \in FlagSets)'
    BY <1>0 DEF FsTypeOK
  <2>6. (/\ pcS \in Arranging \cup {"idle", "ask", "store", "end"}
        /\ pcH \in Cleaning \cup {"wait", "test", "move", "write", "answer"}
        /\ xfer \in {0, 1} /\ owed \in 0..2 /\ answer \in {"none", "succ", "fail"})'
    BY <1>0 DEF FsTypeOK
  <2>7. (file \in Seq(TheBytes) /\ packet \in Seq(TheBytes))'
    BY <1>0, <1>b, <1>k, <1>o, ByteFacts DEF FsTypeOK
  <2> QED
    BY ONLY <2>1, <2>2, <2>3, <2>4, <2>5, <2>6, <2>7 DEF FsTypeOK
<1> QED
  BY <1>1

LEMMA WritePacketTypes == FsInv /\ ~ wild /\ WritePacket => FsTypeOK'
<1> SUFFICES ASSUME FsInv, ~ wild, WritePacket PROVE FsTypeOK'
  OBVIOUS
<1> USE DEF WritePacket, ringVars, sendVars, packetVars, handlerVars, historyVars
<1>0. FsTypeOK /\ Phase /\ Packet
  BY DEF FsInv
<1>a. pcH' \in {"move", "answer", "wait"} /\ (pcH' = "answer" => Finished)
  BY <1>0 DEF AfterPass, FsTypeOK
<1>w. Len(packet) = bufLen /\ bufLen \in Nat /\ room \in Nat
  BY <1>0 DEF Packet, FsTypeOK
<1>o. PICK n \in 0..(bufLen - room) :
        /\ file' = IF handle THEN file \o SubSeq(packet, 1, n) ELSE file
        /\ bFail' = (bFail \/ n # bufLen - room)
        /\ faulted' = (faulted \/ n # bufLen - room)
        /\ totalWriteLen' = totalWriteLen + n
  OBVIOUS
<1>1. FsTypeOK'
  <2>1. (total \in Nat /\ received \in Nat /\ datalen \in Nat /\ bufLen \in Nat /\ room \in Nat
        /\ p \in Int /\ totalWriteLen \in Nat)'
    BY <1>0, <1>o, <1>w DEF FsTypeOK
  <2>2. (transmitting \in BOOLEAN /\ bFail \in BOOLEAN /\ ringOk \in BOOLEAN /\ handle \in BOOLEAN
        /\ cleared \in BOOLEAN)'
    <3>1. (bFail \/ n # bufLen - room) \in BOOLEAN
      OBVIOUS
    <3> QED
      BY <1>0, <1>o, <3>1 DEF FsTypeOK
  <2>3. (leftover \in BOOLEAN /\ faulted \in BOOLEAN /\ wild \in BOOLEAN)'
    <3>1. (faulted \/ n # bufLen - room) \in BOOLEAN
      OBVIOUS
    <3> QED
      BY <1>0, <1>o, <3>1 DEF FsTypeOK
  <2>4. (ringMem \in [0..(RingSize - 1) -> TheBytes] /\ free \in 0..RingSize
        /\ valid \in SUBSET {"ring", "R", "W"} /\ rdOff \in 0..(RingSize - 1) /\ wrOff \in 0..(RingSize - 1))'
    BY <1>0 DEF FsTypeOK
  <2>5. (flags \in FlagSets /\ got \in FlagSets)'
    BY <1>0 DEF FsTypeOK
  <2>6. (/\ pcS \in Arranging \cup {"idle", "ask", "store", "end"}
        /\ pcH \in Cleaning \cup {"wait", "test", "move", "write", "answer"}
        /\ xfer \in {0, 1} /\ owed \in 0..2 /\ answer \in {"none", "succ", "fail"})'
    BY <1>0, <1>a DEF FsTypeOK
  <2>7. (file \in Seq(TheBytes) /\ packet \in Seq(TheBytes))'
    <3>1. SubSeq(packet, 1, n) \in Seq(TheBytes)
      BY <1>0, <1>o, <1>w DEF FsTypeOK
    <3> QED
      BY <1>0, <1>o, <3>1, ByteFacts DEF FsTypeOK, NULL
  <2> QED
    BY ONLY <2>1, <2>2, <2>3, <2>4, <2>5, <2>6, <2>7 DEF FsTypeOK
<1> QED
  BY <1>1

LEMMA AnswerTypes == FsInv /\ ~ wild /\ Answer => FsTypeOK'
<1> SUFFICES ASSUME FsInv, ~ wild, Answer PROVE FsTypeOK'
  OBVIOUS
<1> USE DEF Answer, ringVars, sendVars, packetVars, handlerVars, historyVars
<1>0. FsTypeOK /\ Phase /\ Packet
  BY DEF FsInv
<1>e. owed \in 1..2 /\ owed' = owed - 1
  BY <1>0 DEF Phase, Cleaning
<1>1. FsTypeOK'
  <2>1. (total \in Nat /\ received \in Nat /\ datalen \in Nat /\ bufLen \in Nat /\ room \in Nat
        /\ p \in Int /\ totalWriteLen \in Nat)'
    BY <1>0 DEF FsTypeOK
  <2>2. (transmitting \in BOOLEAN /\ bFail \in BOOLEAN /\ ringOk \in BOOLEAN /\ handle \in BOOLEAN
        /\ cleared \in BOOLEAN)'
    <3>1. (bFail \/ totalWriteLen # total) \in BOOLEAN
      OBVIOUS
    <3> QED
      BY <1>0, <3>1 DEF FsTypeOK
  <2>3. (leftover \in BOOLEAN /\ faulted \in BOOLEAN /\ wild \in BOOLEAN)'
    BY <1>0 DEF FsTypeOK
  <2>4. (ringMem \in [0..(RingSize - 1) -> TheBytes] /\ free \in 0..RingSize
        /\ valid \in SUBSET {"ring", "R", "W"} /\ rdOff \in 0..(RingSize - 1) /\ wrOff \in 0..(RingSize - 1))'
    BY <1>0 DEF FsTypeOK
  <2>5. (flags \in FlagSets /\ got \in FlagSets)'
    BY <1>0 DEF FsTypeOK
  <2>6. (/\ pcS \in Arranging \cup {"idle", "ask", "store", "end"}
        /\ pcH \in Cleaning \cup {"wait", "test", "move", "write", "answer"}
        /\ xfer \in {0, 1} /\ owed \in 0..2 /\ answer \in {"none", "succ", "fail"})'
    BY <1>0, <1>e DEF FsTypeOK, Cleaning
  <2>7. (file \in Seq(TheBytes) /\ packet \in Seq(TheBytes))'
    BY <1>0, ByteFacts DEF FsTypeOK
  <2> QED
    BY ONLY <2>1, <2>2, <2>3, <2>4, <2>5, <2>6, <2>7 DEF FsTypeOK
<1> QED
  BY <1>1

LEMMA PieceFacts ==
  ASSUME FsTypeOK, NEW piece, piece = [k \in 1..datalen |-> Byte(received + k)]
  PROVE  /\ piece \in Seq(TheBytes) /\ Len(piece) = datalen
         /\ \A k \in 1..datalen : piece[k] = Byte(received + k)
         /\ \A k \in Nat \ {0} : k <= Len(piece) => piece[k] \in TheBytes
<1>l. datalen \in Nat /\ received \in Nat /\ xfer \in {0, 1}
  BY DEF FsTypeOK
<1>1. \A k \in 1..datalen : Byte(received + k) \in TheBytes
  BY <1>l DEF Byte, TheBytes
<1>2. piece \in Seq(TheBytes) /\ Len(piece) = datalen
  BY <1>l, <1>1
<1>3. \A k \in 1..datalen : piece[k] = Byte(received + k)
  OBVIOUS
<1>4. \A k \in Nat \ {0} : k <= Len(piece) => k \in 1..datalen
  BY <1>l, <1>2
<1> QED
  BY ONLY <1>1, <1>2, <1>3, <1>4

\* The ring keeps its type when a piece is stored.
LEMMA WriteTypes ==
  ASSUME FsTypeOK, NEW piece, piece \in Seq(TheBytes), RingWrites(piece), RingWrite(piece)
  PROVE  /\ free' \in 0..RingSize /\ ringOk' = ringOk /\ valid' = valid
         /\ rdOff' \in 0..(RingSize - 1) /\ wrOff' \in 0..(RingSize - 1)
         /\ ringMem' \in [0..(RingSize - 1) -> TheBytes]
<1>1. Len(piece) \in 0..RingSize /\ Len(piece) <= free
  BY FsSizeAssumption DEF RingWrites, FsTypeOK
<1>2. free' \in 0..RingSize
  BY <1>1, FsSizeAssumption DEF RingWrite, FsTypeOK
<1>3. wrOff' \in 0..(RingSize - 1)
  BY <1>1, ForwardFacts DEF RingWrite, FsTypeOK, Offsets
<1>4. ringMem' \in [0..(RingSize - 1) -> TheBytes]
  <2> DEFINE K(o) == IF o >= wrOff THEN o - wrOff + 1 ELSE o + RingSize - wrOff + 1
  <2>1. ringMem' = [o \in 0..(RingSize - 1) |->
                      IF K(o) <= Len(piece) THEN piece[K(o)] ELSE ringMem[o]]
    BY DEF RingWrite
  <2>2. \A o \in 0..(RingSize - 1) : K(o) \in Nat \ {0} /\ ringMem[o] \in TheBytes
    BY FsSizeAssumption DEF FsTypeOK
  <2> HIDE DEF K
  <2>3. \A k \in Nat \ {0} : k <= Len(piece) => piece[k] \in TheBytes
    OBVIOUS
  <2>4. \A o \in 0..(RingSize - 1) :
          (IF K(o) <= Len(piece) THEN piece[K(o)] ELSE ringMem[o]) \in TheBytes
    BY ONLY <2>2, <2>3
  <2> QED
    BY ONLY <2>1, <2>4
<1> QED
  BY <1>2, <1>3, <1>4 DEF RingWrite, FsTypeOK

LEMMA StoreTypes == FsInv /\ ~ wild /\ Store => FsTypeOK'
<1> SUFFICES ASSUME FsInv, ~ wild, Store PROVE FsTypeOK'
  OBVIOUS
<1> USE DEF Store, ringVars, sendVars, packetVars, handlerVars, historyVars
<1>0. FsTypeOK /\ Phase /\ Packet
  BY DEF FsInv
<1> DEFINE piece == [k \in 1..datalen |-> Byte(received + k)]
<1>p. piece \in Seq(TheBytes)
  BY <1>0, PieceFacts
<1>r. \/ RingWrites(piece) /\ RingWrite(piece)
      \/ UNCHANGED ringVars /\ bFail' = TRUE
  OBVIOUS
<1>b. bFail' \in BOOLEAN
  <2>1. (received' > total) \in BOOLEAN
    OBVIOUS
  <2> QED
    BY <2>1
<1>f. \E n : flags' = flags \/ flags' = flags \cup Sync(n)
  BY DEF RingWrite
<1> HIDE DEF piece
<1>1. FsTypeOK'
  <2>1. (total \in Nat /\ received \in Nat /\ datalen \in Nat /\ bufLen \in Nat /\ room \in Nat
        /\ p \in Int /\ totalWriteLen \in Nat)'
    BY <1>0 DEF FsTypeOK
  <2>2. (transmitting \in BOOLEAN /\ bFail \in BOOLEAN /\ ringOk \in BOOLEAN /\ handle \in BOOLEAN
        /\ cleared \in BOOLEAN)'
    BY <1>0, <1>b, <1>r DEF FsTypeOK, RingWrite
  <2>3. (leftover \in BOOLEAN /\ faulted \in BOOLEAN /\ wild \in BOOLEAN)'
    BY <1>0 DEF FsTypeOK
  <2>4. (ringMem \in [0..(RingSize - 1) -> TheBytes] /\ free \in 0..RingSize
        /\ valid \in SUBSET {"ring", "R", "W"} /\ rdOff \in 0..(RingSize - 1) /\ wrOff \in 0..(RingSize - 1))'
    <3>1. CASE RingWrites(piece) /\ RingWrite(piece)
      BY <1>0, <1>p, <3>1, WriteTypes DEF FsTypeOK
    <3>2. CASE UNCHANGED ringVars
      BY <1>0, <3>2 DEF FsTypeOK
    <3> QED
      BY <1>r, <3>1, <3>2
  <2>5. (flags \in FlagSets /\ got \in FlagSets)'
    BY <1>0, <1>f, FlagFacts, SyncFlags DEF FsTypeOK
  <2>6. (/\ pcS \in Arranging \cup {"idle", "ask", "store", "end"}
        /\ pcH \in Cleaning \cup {"wait", "test", "move", "write", "answer"}
        /\ xfer \in {0, 1} /\ owed \in 0..2 /\ answer \in {"none", "succ", "fail"})'
    BY <1>0 DEF FsTypeOK
  <2>7. (file \in Seq(TheBytes) /\ packet \in Seq(TheBytes))'
    BY <1>0 DEF FsTypeOK
  <2> QED
    BY ONLY <2>1, <2>2, <2>3, <2>4, <2>5, <2>6, <2>7 DEF FsTypeOK
<1> QED
  BY <1>1

\* What n bytes of the ring, put behind p, make of the packet.
LEMMA MovedPacket ==
  ASSUME FsTypeOK, NEW n \in Int, n <= RingSize,
         n > 0 => ~ p < 0 /\ ~ p + n > Len(packet),
         packet' = [k \in 1..Len(packet) |->
                      IF k > p /\ k <= p + n THEN RingBytes(rdOff, n)[k - p] ELSE packet[k]]
  PROVE  /\ packet' \in Seq(TheBytes) /\ Len(packet') = Len(packet)
         /\ \A j \in 1..n : packet'[p + j] = ringMem[Forward(rdOff, j - 1)]
<1>0. /\ packet \in Seq(TheBytes) /\ p \in Int /\ rdOff \in Offsets
      /\ ringMem \in [Offsets -> TheBytes] /\ RingSize \in Nat
  BY FsSizeAssumption DEF FsTypeOK, Offsets
<1>1. \A j \in 1..n : /\ RingBytes(rdOff, n)[j] = ringMem[Forward(rdOff, j - 1)]
                      /\ RingBytes(rdOff, n)[j] \in TheBytes
  <2> SUFFICES ASSUME NEW j \in 1..n
               PROVE  /\ RingBytes(rdOff, n)[j] = ringMem[Forward(rdOff, j - 1)]
                      /\ RingBytes(rdOff, n)[j] \in TheBytes
    OBVIOUS
  <2>1. RingBytes(rdOff, n)[j] = ringMem[Forward(rdOff, j - 1)]
    BY DEF RingBytes
  <2>2. j - 1 \in 0..RingSize
    BY <1>0
  <2>3. Forward(rdOff, j - 1) \in Offsets
    BY ONLY <1>0, <2>2, ForwardFacts
  <2> QED
    BY ONLY <1>0, <2>1, <2>3
<1>2. \A k \in 1..Len(packet) : packet'[k] \in TheBytes
  <2> SUFFICES ASSUME NEW k \in 1..Len(packet) PROVE packet'[k] \in TheBytes
    OBVIOUS
  <2>1. packet[k] \in TheBytes
    BY ONLY <1>0
  <2>2. packet'[k] = IF k > p /\ k <= p + n THEN RingBytes(rdOff, n)[k - p] ELSE packet[k]
    OBVIOUS
  <2>3. k > p /\ k <= p + n => k - p \in 1..n
    BY ONLY <1>0, n \in Int
  <2> QED
    BY ONLY <1>1, <2>1, <2>2, <2>3
<1>3. packet' \in Seq(TheBytes) /\ Len(packet') = Len(packet)
  <2>1. packet' = [k \in 1..Len(packet) |-> packet'[k]] /\ Len(packet) \in Nat
    BY <1>0
  <2> QED
    BY ONLY <1>2, <2>1
<1>4. ASSUME NEW j \in 1..n PROVE packet'[p + j] = ringMem[Forward(rdOff, j - 1)]
  <2>1. /\ p + j \in 1..Len(packet) /\ p + j > p /\ p + j <= p + n /\ (p + j) - p = j
    BY <1>0
  <2>2. packet'[p + j] = RingBytes(rdOff, n)[(p + j) - p]
    BY <2>1
  <2> QED
    BY ONLY <1>1, <2>1, <2>2, j \in 1..n
<1> QED
  BY ONLY <1>3, <1>4

LEMMA MoveTypes == FsInv /\ ~ wild /\ Move => FsTypeOK'
<1> SUFFICES ASSUME FsInv, ~ wild, Move PROVE FsTypeOK'
  OBVIOUS
<1> USE DEF Move, ringVars, sendVars, packetVars, handlerVars, historyVars
<1>0. FsTypeOK /\ Phase /\ Packet
  BY DEF FsInv
<1> DEFINE res  == ReadResult(room)
           more == res > room
           n    == IF more THEN res - 1 ELSE res
<1>t. room \in Nat /\ bufLen \in Nat /\ p \in Int /\ free \in 0..RingSize
  BY <1>0 DEF FsTypeOK
<1>f. /\ ReadLen(room) \in 0..cached /\ cached \in 0..RingSize
      /\ IF ReadFails(room) THEN res = -1
         ELSE /\ res \in Nat /\ (more <=> ReadLen(room) < cached)
              /\ res = IF ReadLen(room) < cached THEN ReadLen(room) + 1 ELSE ReadLen(room)
      /\ ReadLen(room) <= room
  BY <1>t, ReadFacts
<1>n. n \in Int /\ n <= room /\ n <= RingSize /\ (room = 0 => res < 0)
  <2>1. CASE ReadFails(room)
    BY <1>f, <1>t, <2>1, FsSizeAssumption
  <2>2. CASE ~ ReadFails(room)
    <3>1. n = ReadLen(room) /\ room # 0
      BY <1>f, <2>2 DEF ReadFails
    <3> QED
      BY <1>f, <1>t, <3>1, FsSizeAssumption
  <2> QED
    BY <2>1, <2>2
<1>a. RingRead(room)
  OBVIOUS
<1>b. /\ bFail' = (bFail \/ res < 0)
      /\ cleared' = ~ (more /\ "SUCCESS" \in got)
      /\ p' = p + n
      /\ room' = room - n
  OBVIOUS
<1>u. UNCHANGED <<total, transmitting, pcS, received, datalen, got, handle,
                  file, bufLen, totalWriteLen, xfer, owed, answer, leftover, faulted>>
  OBVIOUS
<1>k. /\ pcH = "move" /\ pcH' \in {"write", "move", "answer", "wait"}
      /\ pcH' = "answer" => Finished
      /\ pcH' = "write" => res >= 0 /\ WritesOut(room', cleared')
  BY DEF AfterPass
<1>d. \/ /\ (n > 0 /\ (packet = NULL \/ p < 0 \/ p + n > Len(packet) \/ ReadOverruns(room))) \/ ReadStrays(room)
         /\ wild' = TRUE /\ packet' = packet
      \/ /\ ~ ((n > 0 /\ (packet = NULL \/ p < 0 \/ p + n > Len(packet) \/ ReadOverruns(room))) \/ ReadStrays(room))
         /\ packet' = [k \in 1..Len(packet) |->
                         IF k > p /\ k <= p + n THEN RingBytes(rdOff, n)[k - p] ELSE packet[k]]
         /\ wild' = wild
  OBVIOUS
<1> HIDE DEF Move, res, more, n
<1>x. /\ packet' \in Seq(TheBytes) /\ Len(packet') = Len(packet) /\ wild' \in BOOLEAN
      /\ ~ wild' => (n > 0 => packet # NULL)
  <2>1. CASE wild' = TRUE /\ packet' = packet
    BY <1>0, <2>1 DEF FsTypeOK
  <2>2. CASE /\ ~ ((n > 0 /\ (packet = NULL \/ p < 0 \/ p + n > Len(packet) \/ ReadOverruns(room))) \/ ReadStrays(room))
             /\ packet' = [k \in 1..Len(packet) |->
                             IF k > p /\ k <= p + n THEN RingBytes(rdOff, n)[k - p] ELSE packet[k]]
             /\ wild' = wild
    <3>1. packet' \in Seq(TheBytes) /\ Len(packet') = Len(packet)
      BY ONLY <1>0, <1>n, <2>2, MovedPacket
    <3> QED
      BY <1>0, <2>2, <3>1 DEF FsTypeOK
  <2> QED
    BY ONLY <1>d, <2>1, <2>2
<1>g. /\ free' \in 0..RingSize /\ ringOk' \in BOOLEAN /\ valid' \in SUBSET {"ring", "R", "W"}
      /\ rdOff' \in 0..(RingSize - 1) /\ wrOff' \in 0..(RingSize - 1)
      /\ ringMem' \in [0..(RingSize - 1) -> TheBytes]
      /\ flags' \in FlagSets /\ flags' \cap {"SUCCESS", "FAIL"} = flags \cap {"SUCCESS", "FAIL"}
  <2>1. CASE ~ ringOk \/ room <= 0
    <3>1. UNCHANGED <<ringVars, flags>>
      BY <1>a, <2>1 DEF RingRead
    <3> QED
      BY <1>0, <3>1 DEF FsTypeOK
  <2>2. CASE ~ (~ ringOk \/ room <= 0)
    <3>1. /\ free' = free + ReadLen(room)
          /\ rdOff' = IF ReadFails(room) \/ ReadLen(room) = RingSize THEN rdOff
                      ELSE Forward(rdOff, ReadLen(room))
          /\ flags' = flags \cup Sync(free + ReadLen(room))
          /\ UNCHANGED <<ringOk, ringMem, wrOff, valid>>
      BY ONLY <1>a, <2>2 DEF RingRead
    <3>2. free' \in 0..RingSize
      BY <1>f, <1>t, <3>1, FsSizeAssumption DEF cached
    <3>3. Forward(rdOff, ReadLen(room)) \in Offsets /\ rdOff \in Offsets
      <4>1. ReadLen(room) \in 0..RingSize
        BY <1>f, FsSizeAssumption
      <4> QED
        BY <1>0, <4>1, ForwardFacts DEF FsTypeOK, Offsets
    <3>4. flags' \in FlagSets /\ flags' \cap {"SUCCESS", "FAIL"} = flags \cap {"SUCCESS", "FAIL"}
      BY <1>0, <3>1, FlagFacts, SyncFlags DEF FsTypeOK
    <3> QED
      BY <1>0, <3>1, <3>2, <3>3, <3>4 DEF FsTypeOK, Offsets
  <2> QED
    BY <2>1, <2>2
<1>1. FsTypeOK'
  <2>1. (total \in Nat /\ received \in Nat /\ datalen \in Nat /\ bufLen \in Nat /\ room \in Nat
        /\ p \in Int /\ totalWriteLen \in Nat)'
    BY <1>0, <1>b, <1>n, <1>t, <1>u DEF FsTypeOK
  <2>2. (transmitting \in BOOLEAN /\ bFail \in BOOLEAN /\ ringOk \in BOOLEAN /\ handle \in BOOLEAN
        /\ cleared \in BOOLEAN)'
    <3>1. (bFail \/ res < 0) \in BOOLEAN /\ (~ (more /\ "SUCCESS" \in got)) \in BOOLEAN
      OBVIOUS
    <3> QED
      BY <1>0, <1>b, <1>g, <1>u, <3>1 DEF FsTypeOK
  <2>3. (leftover \in BOOLEAN /\ faulted \in BOOLEAN /\ wild \in BOOLEAN)'
    BY <1>0, <1>u, <1>x DEF FsTypeOK
  <2>4. (ringMem \in [0..(RingSize - 1) -> TheBytes] /\ free \in 0..RingSize
        /\ valid \in SUBSET {"ring", "R", "W"} /\ rdOff \in 0..(RingSize - 1) /\ wrOff \in 0..(RingSize - 1))'
    BY <1>g
  <2>5. (flags \in FlagSets /\ got \in FlagSets)'
    BY <1>0, <1>g, <1>u DEF FsTypeOK
  <2>6. (/\ pcS \in Arranging \cup {"idle", "ask", "store", "end"}
        /\ pcH \in Cleaning \cup {"wait", "test", "move", "write", "answer"}
        /\ xfer \in {0, 1} /\ owed \in 0..2 /\ answer \in {"none", "succ", "fail"})'
    BY <1>0, <1>k, <1>u DEF FsTypeOK
  <2>7. (file \in Seq(TheBytes) /\ packet \in Seq(TheBytes))'
    BY <1>0, <1>x, <1>u DEF FsTypeOK
  <2> QED
    BY ONLY <2>1, <2>2, <2>3, <2>4, <2>5, <2>6, <2>7 DEF FsTypeOK
<1> QED
  BY <1>1

-----------------------------------------------------------------------------
(* The inductive invariant for a user who waits.                           *)

LEMMA InitInv == Init => FsInv
<1> SUFFICES ASSUME Init PROVE FsInv
  OBVIOUS
<1> USE DEF Init
<1>1. FsTypeOK
  BY InitTypes
<1>2. Lands /\ SuccessMeansStored /\ Sound /\ Phase /\ Arranged
  BY DEF Lands, LandsInPacket, SuccessMeansStored, Sound, SoundSucceeds, Phase, Arranged, Arranging
<1>3. Ends
  BY DEF Ends, Told
<1>4. Packet /\ Ring /\ Fits /\ Drained /\ Carried
  BY DEF Packet, Ring, Fits, Drained, Carried, Working
<1> QED
  BY ONLY <1>1, <1>2, <1>3, <1>4 DEF FsInv

\* A step that touches neither the bytes nor where they are leaves them carried.
LEMMA CarriedFrame ==
  ASSUME Carried, owed' = 1 /\ ~ bFail' => owed = 1 /\ ~ bFail,
         UNCHANGED <<ringMem, rdOff, free, packet, p, totalWriteLen, handle, file,
                     received, xfer, leftover>>
  PROVE  Carried'
BY DEF Carried, Stale, Content, InPacket, cached, Byte

\* A step of arranging or of cleaning up leaves the packet alone, and no transfer
\* is under way before it or after it.
LEMMA IdleFrame ==
  ASSUME FsInv, ~ wild, owed = 0, FsTypeOK', Phase', Arranged',
         UNCHANGED <<owed, leftover, wild, packet, bufLen, room, p>>,
         pcH' \in (Cleaning \ {"clean"}) \cup {"wait"},
         pcS' = "idle" \/ (pcH' = "wait" /\ flags' = {})
  PROVE  FsInv'
<1>0. Lands /\ Phase /\ Packet
  BY DEF FsInv
<1>1. pcH' \notin {"clean", "test", "move", "write", "answer"}
  BY DEF Cleaning
<1>2. pcH \notin {"move", "write", "answer"}
  BY <1>0 DEF Phase, Cleaning
<1>3. owed' # 1
  OBVIOUS
<1>4. Lands'
  BY <1>0 DEF Lands, LandsInPacket
<1>5. SuccessMeansStored' /\ Sound'
  BY <1>1 DEF SuccessMeansStored, Sound, SoundSucceeds
<1>6. Ends'
  BY <1>1, <1>3 DEF Ends, Told
<1>7. Packet'
  BY <1>0, <1>1, <1>2, <1>3 DEF Packet
<1>8. Ring' /\ Fits' /\ Drained' /\ Carried'
  BY <1>1, <1>3 DEF Ring, Fits, Drained, Carried, Working
<1> QED
  BY ONLY <1>4, <1>5, <1>6, <1>7, <1>8, FsTypeOK', Phase', Arranged' DEF FsInv

LEMMA AnnounceInv == WaitsForHandler /\ FsInv /\ ~ wild /\ Announce => FsInv'
<1> SUFFICES ASSUME WaitsForHandler, FsInv, ~ wild, Announce PROVE FsInv'
  OBVIOUS
<1> USE DEF Announce, ringVars, sendVars, packetVars, handlerVars, historyVars
<1>0. FsTypeOK /\ Phase /\ Arranged
  BY DEF FsInv
<1>1. FsTypeOK'
  BY <1>0, ByteFacts, FlagFacts, FsSizeAssumption DEF FsTypeOK, Arranging, Cleaning, Aimed
<1>2. owed = 0
  BY <1>0 DEF Phase, Arranging, Cleaning, MayBegin
<1>3. Phase'
  BY <1>0, <1>2 DEF Phase, Arranging, Cleaning, MayBegin
<1>4. Arranged'
  BY <1>0, <1>2 DEF Arranged, Phase, Arranging, Cleaning, Aimed
<1> QED
  BY <1>0, <1>1, <1>2, <1>3, <1>4, IdleFrame DEF Phase, Arranging, Cleaning, MayBegin

LEMMA RefuseInv == FsInv /\ ~ wild /\ Refuse => FsInv'
<1> SUFFICES ASSUME FsInv, ~ wild, Refuse PROVE FsInv'
  OBVIOUS
<1> USE DEF Refuse, ringVars, sendVars, packetVars, handlerVars, historyVars
<1>0. FsTypeOK /\ Phase /\ Arranged
  BY DEF FsInv
<1>1. FsTypeOK'
  BY <1>0, ByteFacts, FlagFacts, FsSizeAssumption DEF FsTypeOK, Arranging, Cleaning, Aimed
<1>2. owed = 0
  BY <1>0 DEF Phase, Arranging, Cleaning
<1>3. Phase'
  BY <1>0, <1>2 DEF Phase, Arranging, Cleaning
<1>4. Arranged'
  BY <1>0, <1>2 DEF Arranged, Phase, Arranging, Cleaning, Aimed
<1> QED
  BY <1>0, <1>1, <1>2, <1>3, <1>4, IdleFrame DEF Phase, Arranging, Cleaning

LEMMA AllocateInv == FsInv /\ ~ wild /\ Allocate => FsInv'
<1> SUFFICES ASSUME FsInv, ~ wild, Allocate PROVE FsInv'
  OBVIOUS
<1> USE DEF Allocate, ringVars, sendVars, packetVars, handlerVars, historyVars
<1>0. FsTypeOK /\ Phase /\ Arranged
  BY DEF FsInv
<1>1. FsTypeOK'
  BY <1>0, ByteFacts, FlagFacts, FsSizeAssumption DEF FsTypeOK, Arranging, Cleaning, Aimed
<1>2. owed = 0
  BY <1>0 DEF Phase, Arranging, Cleaning
<1>3. Phase'
  BY <1>0, <1>2 DEF Phase, Arranging, Cleaning
<1>4. Arranged'
  BY <1>0, <1>2 DEF Arranged, Phase, Arranging, Cleaning, Aimed
<1> QED
  BY <1>0, <1>1, <1>2, <1>3, <1>4, IdleFrame DEF Phase, Arranging, Cleaning

LEMMA ArrangeInv == FsInv /\ ~ wild /\ Arrange => FsInv'
<1> SUFFICES ASSUME FsInv, ~ wild, Arrange PROVE FsInv'
  OBVIOUS
<1> USE DEF Arrange, ringVars, sendVars, packetVars, handlerVars, historyVars
<1>0. FsTypeOK /\ Phase /\ Arranged
  BY DEF FsInv
<1>1. FsTypeOK'
  BY <1>0, ByteFacts, FlagFacts, FsSizeAssumption DEF FsTypeOK, Arranging, Cleaning, Aimed
<1>2. owed = 0
  BY <1>0 DEF Phase, Arranging, Cleaning
<1>3. Phase'
  BY <1>0, <1>2 DEF Phase, Arranging, Cleaning
<1>4. Arranged'
  BY <1>0, <1>2 DEF Arranged, Phase, Arranging, Cleaning, Aimed
<1> QED
  BY <1>0, <1>1, <1>2, <1>3, <1>4, IdleFrame DEF Phase, Arranging, Cleaning

LEMMA BeginInv == FsInv /\ ~ wild /\ Begin => FsInv'
<1> SUFFICES ASSUME FsInv, ~ wild, Begin PROVE FsInv'
  OBVIOUS
<1> USE DEF Begin, ringVars, sendVars, packetVars, handlerVars, historyVars
<1>0. /\ FsTypeOK /\ Lands /\ Phase /\ Arranged /\ Packet
  BY DEF FsInv
<1>i. owed = 0 /\ owed' = 1 /\ ~ handle /\ pcH = "wait" /\ flags = {} /\ totalWriteLen = 0
  BY <1>0 DEF Phase, Arranging
<1>r. /\ ringOk /\ valid = {"ring", "R", "W"} /\ rdOff = 0 /\ wrOff = 0 /\ free = RingSize
      /\ transmitting /\ total \in Totals /\ 0 < total
  BY <1>0 DEF Arranged, Arranging, FsTypeOK
<1>l. leftover' \in BOOLEAN
  <2>1. (packet # NULL) \in BOOLEAN
    OBVIOUS
  <2> QED
    BY <2>1
<1>1. FsTypeOK'
  <2>1. (total \in Nat /\ received \in Nat /\ datalen \in Nat /\ bufLen \in Nat /\ room \in Nat
        /\ p \in Int /\ totalWriteLen \in Nat)'
    BY <1>0, FsSizeAssumption DEF FsTypeOK, Arranging
  <2>2. (transmitting \in BOOLEAN /\ bFail \in BOOLEAN /\ ringOk \in BOOLEAN /\ handle \in BOOLEAN
        /\ cleared \in BOOLEAN)'
    BY <1>0 DEF FsTypeOK
  <2>3. (leftover \in BOOLEAN /\ faulted \in BOOLEAN /\ wild \in BOOLEAN)'
    BY <1>0, <1>l DEF FsTypeOK
  <2>4. (ringMem \in [0..(RingSize - 1) -> TheBytes] /\ free \in 0..RingSize
        /\ valid \in SUBSET {"ring", "R", "W"} /\ rdOff \in 0..(RingSize - 1) /\ wrOff \in 0..(RingSize - 1))'
    BY <1>0, ByteFacts, FsSizeAssumption DEF FsTypeOK, Aimed
  <2>5. (flags \in FlagSets /\ got \in FlagSets)'
    BY <1>0, FlagFacts DEF FsTypeOK
  <2>6. (/\ pcS \in Arranging \cup {"idle", "ask", "store", "end"}
        /\ pcH \in Cleaning \cup {"wait", "test", "move", "write", "answer"}
        /\ xfer \in {0, 1} /\ owed \in 0..2 /\ answer \in {"none", "succ", "fail"})'
    BY <1>0 DEF FsTypeOK, Phase, Arranging, Cleaning
  <2>7. (file \in Seq(TheBytes) /\ packet \in Seq(TheBytes))'
    BY <1>0 DEF FsTypeOK
  <2> QED
    BY ONLY <2>1, <2>2, <2>3, <2>4, <2>5, <2>6, <2>7 DEF FsTypeOK
<1>2. Lands'
  BY <1>0 DEF Lands, LandsInPacket
<1>3. SuccessMeansStored'
  BY <1>i DEF SuccessMeansStored
<1>4. Sound'
  BY <1>i DEF Sound, SoundSucceeds
<1>5. Phase'
  BY <1>0, <1>i, <1>r, FsSizeAssumption DEF Phase, Arranging, Cleaning
<1>6. Ends'
  BY <1>i DEF Ends, Told
<1>7. Packet'
  BY <1>0, <1>i DEF Packet
<1>a. cached' = 0
  BY <1>r, FsSizeAssumption DEF cached
<1>b. leftover' <=> packet # NULL
  OBVIOUS
<1>8. Ring'
  BY <1>a, <1>r, FsSizeAssumption DEF Ring, Forward
<1>9. Fits'
  BY <1>0, <1>i, <1>a, <1>b DEF Fits, InPacket
<1>10. Drained'
  BY <1>i DEF Drained
<1>11. Carried'
  <2>1. cached' = 0 /\ totalWriteLen' = 0 /\ received' = 0 /\ ~ handle'
    BY <1>a, <1>i
  <2>3. Stale' = InPacket'
    BY <1>0, <2>1 DEF Stale, InPacket, FsTypeOK
  <2>4. InPacket' >= 0 /\ (~ leftover' => InPacket' = 0)
    BY <1>0, <1>b DEF InPacket, FsTypeOK
  <2> QED
    BY ONLY <2>1, <2>3, <2>4 DEF Carried
<1>12. Arranged'
  BY DEF Arranged, Arranging
<1> QED
  BY ONLY <1>1, <1>2, <1>3, <1>4, <1>5, <1>6, <1>7, <1>8, <1>9, <1>10, <1>11, <1>12 DEF FsInv

LEMMA AskInv == FsInv /\ ~ wild /\ Ask => FsInv'
<1> SUFFICES ASSUME FsInv, ~ wild, Ask PROVE FsInv'
  OBVIOUS
<1> USE DEF Ask, ringVars, sendVars, packetVars, handlerVars, historyVars
<1>0. /\ FsTypeOK /\ Lands /\ SuccessMeansStored /\ Sound
      /\ Phase /\ Arranged /\ Ends /\ Packet /\ Ring /\ Fits /\ Drained /\ Carried
  BY DEF FsInv
<1>m. datalen' \in Nat /\ 0 < datalen' /\ received + datalen' <= total
  BY <1>0, FsSizeAssumption DEF Phase, FsTypeOK, MinOf
<1>c. owed = 1 /\ pcH' # "clean"
  BY <1>0 DEF Phase, Arranging, Cleaning
<1>1. FsTypeOK'
  BY AskTypes
<1>2. Lands'
  BY <1>0 DEF Lands, LandsInPacket
<1>3. SuccessMeansStored'
  BY <1>c DEF SuccessMeansStored
<1>4. Sound'
  BY <1>c DEF Sound, SoundSucceeds
<1>5. Phase'
  BY <1>0, <1>m DEF Phase, Arranging, Cleaning, FsTypeOK
<1>6. Ends'
  BY <1>0 DEF Ends, Told, Finished
<1>7. Packet'
  BY <1>0 DEF Packet
<1>8. Ring'
  BY <1>0 DEF Ring, Working, cached
<1>9. Fits'
  BY <1>0 DEF Fits, Working, InPacket, cached
<1>10. Drained'
  BY <1>0 DEF Drained, InPacket, cached
<1>11. Carried'
  BY <1>0, CarriedFrame
<1>12. Arranged'
  BY <1>0 DEF Arranged, Phase, Arranging, Cleaning
<1> QED
  BY ONLY <1>1, <1>2, <1>3, <1>4, <1>5, <1>6, <1>7, <1>8, <1>9, <1>10, <1>11, <1>12 DEF FsInv

LEMMA EndInv == FsInv /\ ~ wild /\ End => FsInv'
<1> SUFFICES ASSUME FsInv, ~ wild, End PROVE FsInv'
  OBVIOUS
<1> USE DEF End, ringVars, sendVars, packetVars, handlerVars, historyVars
<1>0. /\ FsTypeOK /\ Lands /\ SuccessMeansStored /\ Sound
      /\ Phase /\ Arranged /\ Ends /\ Packet /\ Ring /\ Fits /\ Drained /\ Carried
  BY DEF FsInv
<1>c. owed = 1 /\ pcH' # "clean"
  BY <1>0 DEF Phase, Arranging, Cleaning
<1>1. FsTypeOK'
  BY EndTypes
<1>2. Lands'
  BY <1>0 DEF Lands, LandsInPacket
<1>3. SuccessMeansStored'
  BY <1>c DEF SuccessMeansStored
<1>4. Sound'
  BY <1>c DEF Sound, SoundSucceeds
<1>5. Phase'
  BY <1>0 DEF Phase, Arranging, Cleaning, FsTypeOK
<1>6. Ends'
  BY <1>0 DEF Ends, Told, Finished
<1>7. Packet'
  BY <1>0 DEF Packet
<1>8. Ring'
  BY <1>0 DEF Ring, Working, cached
<1>9. Fits'
  BY <1>0 DEF Fits, Working, InPacket, cached
<1>10. Drained'
  BY <1>0 DEF Drained, InPacket, cached
<1>11. Carried'
  BY <1>0, CarriedFrame
<1>12. Arranged'
  BY <1>0 DEF Arranged, Phase, Arranging, Cleaning
<1> QED
  BY ONLY <1>1, <1>2, <1>3, <1>4, <1>5, <1>6, <1>7, <1>8, <1>9, <1>10, <1>11, <1>12 DEF FsInv

LEMMA WaitInv == FsInv /\ ~ wild /\ Wait => FsInv'
<1> SUFFICES ASSUME FsInv, ~ wild, Wait PROVE FsInv'
  OBVIOUS
<1> USE DEF Wait, ringVars, sendVars, packetVars, handlerVars, historyVars
<1>0. /\ FsTypeOK /\ Lands /\ SuccessMeansStored /\ Sound
      /\ Phase /\ Arranged /\ Ends /\ Packet /\ Ring /\ Fits /\ Drained /\ Carried
  BY DEF FsInv
<1>1. FsTypeOK'
  BY WaitTypes
<1>2. Lands'
  BY <1>0 DEF Lands, LandsInPacket
<1>3. SuccessMeansStored'
  BY <1>0 DEF SuccessMeansStored, Ends
<1>4. Sound'
  BY <1>0 DEF Sound, SoundSucceeds, Ends
<1>5. Phase'
  BY <1>0 DEF Phase, Arranging, Cleaning
<1>6. Ends'
  BY <1>0 DEF Ends, Told, Finished
<1>7. Packet'
  BY <1>0 DEF Packet
<1>8. Ring'
  BY <1>0 DEF Ring, Working, cached
<1>9. Fits'
  BY <1>0 DEF Fits, Working, InPacket, cached
<1>10. Drained'
  BY <1>0 DEF Drained, InPacket, cached
<1>11. Carried'
  BY <1>0, CarriedFrame
<1>12. Arranged'
  BY <1>0 DEF Arranged, Phase
<1> QED
  BY ONLY <1>1, <1>2, <1>3, <1>4, <1>5, <1>6, <1>7, <1>8, <1>9, <1>10, <1>11, <1>12 DEF FsInv

LEMMA SkipInv == FsInv /\ ~ wild /\ Skip => FsInv'
<1> SUFFICES ASSUME FsInv, ~ wild, Skip PROVE FsInv'
  OBVIOUS
<1> USE DEF Skip, ringVars, sendVars, packetVars, handlerVars, historyVars
<1>0. /\ FsTypeOK /\ Lands /\ SuccessMeansStored /\ Sound
      /\ Phase /\ Arranged /\ Ends /\ Packet /\ Ring /\ Fits /\ Drained /\ Carried
  BY DEF FsInv
<1>1. FsTypeOK'
  BY SkipTypes
<1>2. Lands'
  BY <1>0 DEF Lands, LandsInPacket
<1>3. SuccessMeansStored'
  BY <1>0 DEF SuccessMeansStored, Ends
<1>4. Sound'
  BY <1>0 DEF Sound, SoundSucceeds, Ends
<1>5. Phase'
  BY <1>0 DEF Phase, Arranging, Cleaning
<1>6. Ends'
  BY <1>0 DEF Ends, Told, Finished
<1>7. Packet'
  BY <1>0 DEF Packet
<1>8. Ring'
  BY <1>0 DEF Ring, Working, cached
<1>9. Fits'
  BY <1>0 DEF Fits, Working, InPacket, cached
<1>10. Drained'
  BY <1>0 DEF Drained, InPacket, cached
<1>11. Carried'
  BY <1>0, CarriedFrame
<1>12. Arranged'
  BY <1>0 DEF Arranged, Phase
<1> QED
  BY ONLY <1>1, <1>2, <1>3, <1>4, <1>5, <1>6, <1>7, <1>8, <1>9, <1>10, <1>11, <1>12 DEF FsInv

LEMMA PrepareInv == FsInv /\ ~ wild /\ Prepare => FsInv'
<1> SUFFICES ASSUME FsInv, ~ wild, Prepare PROVE FsInv'
  OBVIOUS
<1> USE DEF Prepare, ringVars, sendVars, packetVars, handlerVars, historyVars
<1>0. /\ FsTypeOK /\ Lands /\ SuccessMeansStored /\ Sound
      /\ Phase /\ Arranged /\ Ends /\ Packet /\ Ring /\ Fits /\ Drained /\ Carried
  BY DEF FsInv
<1>o. PICK opened \in {handle, TRUE} :
        /\ handle' = opened
        /\ file' = IF ~ handle /\ opened THEN <<>> ELSE file
        /\ bFail' = ~ opened
        /\ faulted' = (faulted \/ ~ opened)
  OBVIOUS
<1>w. wild' \in BOOLEAN /\ ("packet" \notin Faults => wild' = FALSE)
  <2>1. wild = FALSE /\ (wild \/ "packet" \in Faults) \in BOOLEAN
    BY <1>0 DEF FsTypeOK
  <2>2. wild' \in {wild, wild \/ "packet" \in Faults} \/ wild' = wild
    OBVIOUS
  <2>3. "packet" \notin Faults => (wild \/ "packet" \in Faults) = FALSE
    BY ONLY <2>1
  <2> QED
    BY ONLY <2>1, <2>2, <2>3
<1>c. pcH' # "clean"
  OBVIOUS
<1>t. owed = 1 /\ ~ bFail
  BY <1>0 DEF Phase, Arranging, Cleaning
<1>n. packet # NULL => 0 < Len(packet)
  BY <1>0 DEF NULL, FsTypeOK
<1>b. packet = NULL =>
        /\ bufLen' = MinOf(total, PacketSize) /\ 0 < bufLen' /\ room' = bufLen' /\ p' = 0
        /\ packet' \in Seq(TheBytes) /\ Len(packet') = bufLen' /\ packet' # NULL
  <2> SUFFICES ASSUME packet = NULL
               PROVE  /\ bufLen' = MinOf(total, PacketSize) /\ 0 < bufLen'
                      /\ room' = bufLen' /\ p' = 0
                      /\ packet' \in Seq(TheBytes) /\ Len(packet') = bufLen' /\ packet' # NULL
    OBVIOUS
  <2> DEFINE size == MinOf(total, PacketSize)
  <2>1. bufLen' = size /\ size \in Nat /\ 0 < size
    BY <1>0, FsSizeAssumption DEF Phase, Arranging, Cleaning, MinOf, FsTypeOK
  <2>2. packet' = Blank(size)
    BY <2>1
  <2> HIDE DEF size
  <2>3. Blank(size) \in Seq(TheBytes) /\ Len(Blank(size)) = size
    BY <2>1, ByteFacts DEF Blank
  <2>4. Blank(size) # NULL
    BY <2>1, <2>3 DEF NULL
  <2> QED
    BY <2>1, <2>2, <2>3, <2>4 DEF size
<1>z. OnePacket => MinOf(total, PacketSize) = total
  BY <1>0, FsSizeAssumption DEF OnePacket, Phase, Arranging, Cleaning, MinOf, FsTypeOK
<1>k. packet # NULL => UNCHANGED <<packet, bufLen, room, p>>
  OBVIOUS
<1>1. FsTypeOK'
  BY PrepareTypes
<1>2. Lands'
  BY <1>w DEF Lands, LandsInPacket
<1>3. SuccessMeansStored'
  BY <1>c DEF SuccessMeansStored
<1>4. Sound'
  BY <1>c DEF Sound, SoundSucceeds
<1>5. Phase'
  BY <1>0 DEF Phase, Arranging, Cleaning
<1>6. Ends'
  BY <1>0 DEF Ends, Told, Finished
<1>7. Packet'
  <2>1. ~ bFail' => handle'
    BY <1>o
  <2>2. packet' # NULL /\ pcH' = "move"
    BY <1>b, <1>k
  <2>3. Len(packet') = bufLen' /\ p' + room' = bufLen' /\ 0 < room' /\ 0 < bufLen'
    <3>1. CASE packet = NULL
      <4>1. 0 + bufLen' = bufLen'
        <5>1. bufLen' \in Nat
          BY <1>b, <3>1
        <5>2. \A x \in Nat : 0 + x = x
          OBVIOUS
        <5> QED
          BY ONLY <5>1, <5>2
      <4> QED
        BY ONLY <1>b, <3>1, <4>1
    <3>2. CASE packet # NULL
      BY <1>k, <1>0, <1>n, <3>2 DEF Packet, FsTypeOK
    <3> QED
      BY ONLY <3>1, <3>2
  <2>4. owed' = 1 /\ ~ bFail' /\ ~ leftover' => 0 <= p'
    BY <1>0, <1>b, <1>k DEF Packet
  <2> QED
    BY ONLY <2>1, <2>2, <2>3, <2>4 DEF Packet
<1>8. Ring'
  BY <1>0 DEF Ring, Working, cached
<1>9. Fits'
  <2>1. InPacket' = InPacket
    BY <1>b, <1>k DEF InPacket
  <2>2. OnePacket /\ packet = NULL => bufLen' = total' /\ 0 <= p'
    BY <1>b, <1>z
  <2> QED
    BY <1>0, <1>b, <1>k, <2>1, <2>2 DEF Fits, Working, cached
<1>10. Drained'
  BY DEF Drained
<1>11. Carried'
  <2>1. InPacket' = InPacket
    BY <1>b, <1>k DEF InPacket
  <2>2. totalWriteLen' = IF handle' THEN Len(file') ELSE 0
    <3>1. totalWriteLen = IF handle THEN Len(file) ELSE 0
      BY <1>0, <1>t DEF Carried
    <3>2. CASE handle
      BY <1>o, <3>1, <3>2
    <3>3. CASE ~ handle /\ opened
      BY <1>o, <3>1, <3>3
    <3>4. CASE ~ handle /\ ~ opened
      BY <1>o, <3>1, <3>4
    <3> QED
      BY <3>2, <3>3, <3>4
  <2>3. Stale' = Stale /\ Stale \in Int
    BY <1>0, <2>1, FsSizeAssumption DEF Stale, cached, InPacket, FsTypeOK
  <2>4. ASSUME NEW k \in Nat \ {0} PROVE Content(k)' = Content(k)
    <3>1. k <= totalWriteLen => file' = file
      BY <1>0, <1>o, <1>t DEF Carried, FsTypeOK
    <3>a. UNCHANGED <<totalWriteLen, ringMem, rdOff>> /\ totalWriteLen \in Nat
      BY <1>0 DEF FsTypeOK
    <3>b. InPacket \in Nat
      BY <1>0 DEF InPacket, FsTypeOK
    <3>2. InPacket # 0 => packet' = packet
      BY <1>b, <1>k DEF InPacket
    <3> QED
      <4>1. CASE k <= totalWriteLen
        BY ONLY <3>a, <3>1, <4>1 DEF Content
      <4>2. CASE k > totalWriteLen /\ k <= totalWriteLen + InPacket
        <5>1. packet' = packet
          BY <4>2, <3>a, <3>b, <3>2
        <5> QED
          BY ONLY <3>a, <3>b, <2>1, <5>1, <4>2 DEF Content
      <4>3. CASE k > totalWriteLen + InPacket
        BY ONLY <3>a, <3>b, <2>1, <4>3 DEF Content, Forward
      <4> QED
        BY <4>1, <4>2, <4>3, <3>a, <3>b
  <2> QED
    BY <1>0, <2>2, <2>3, <2>4 DEF Carried, Byte, FsTypeOK
<1>12. Arranged'
  BY <1>0 DEF Arranged, Phase
<1> QED
  BY ONLY <1>1, <1>2, <1>3, <1>4, <1>5, <1>6, <1>7, <1>8, <1>9, <1>10, <1>11, <1>12 DEF FsInv

LEMMA WritePacketInv == FsInv /\ ~ wild /\ WritePacket => FsInv'
<1> SUFFICES ASSUME FsInv, ~ wild, WritePacket PROVE FsInv'
  OBVIOUS
<1> USE DEF WritePacket, ringVars, sendVars, packetVars, handlerVars, historyVars
<1>0. /\ FsTypeOK /\ Lands /\ SuccessMeansStored /\ Sound
      /\ Phase /\ Arranged /\ Ends /\ Packet /\ Ring /\ Fits /\ Drained /\ Carried
  BY DEF FsInv
<1>t. owed = 1
  BY <1>0 DEF Phase, Arranging, Cleaning
<1>a. pcH' \in {"move", "answer", "wait"} /\ (pcH' = "move" <=> ~ cleared)
      /\ (pcH' = "answer" => cleared /\ Finished)
  BY <1>0 DEF AfterPass, FsTypeOK
<1>c. pcH' # "clean"
  BY <1>a
<1>w. /\ packet # NULL /\ Len(packet) = bufLen /\ p = bufLen - room /\ 0 < p /\ room < bufLen
      /\ p <= Len(packet)
  BY <1>0 DEF Packet, FsTypeOK
<1>o. PICK n \in 0..(bufLen - room) :
        /\ n < bufLen - room => ~ handle \/ "write" \in Faults
        /\ file' = IF handle THEN file \o SubSeq(packet, 1, n) ELSE file
        /\ bFail' = (bFail \/ n # bufLen - room)
        /\ faulted' = (faulted \/ n # bufLen - room)
        /\ totalWriteLen' = totalWriteLen + n
  OBVIOUS
<1>1. FsTypeOK'
  BY WritePacketTypes
<1>2. Lands'
  BY <1>0 DEF Lands, LandsInPacket
<1>3. SuccessMeansStored'
  BY <1>c DEF SuccessMeansStored
<1>4. Sound'
  BY <1>c DEF Sound, SoundSucceeds
<1>5. Phase'
  BY <1>0, <1>a, <1>t DEF Phase, Cleaning
<1>6. Ends'
  <2>1. Told' \subseteq Told
    BY <1>a DEF Told
  <2>2. pcH' = "answer" => Finished'
    BY <1>a DEF Finished
  <2>3. bFail => bFail'
    BY <1>o
  <2>4. bFail' => bFail \/ faulted'
    BY <1>o
  <2>5. faulted => faulted'
    BY <1>o
  <2>6. UNCHANGED <<pcS, owed, leftover>>
    OBVIOUS
  <2> QED
    BY <1>0, <1>c, <2>1, <2>2, <2>3, <2>4, <2>5, <2>6 DEF Ends
<1>7. Packet'
  <2>1. pcH' = "move" => 0 < bufLen'
    BY <1>0 DEF Packet
  <2>2. packet' = NULL /\ room' >= bufLen' /\ pcH' # "write"
    BY <1>0, <1>a DEF FsTypeOK
  <2>3. ~ bFail' => handle'
    BY <1>0, <1>o DEF Packet
  <2> QED
    BY ONLY <2>1, <2>2, <2>3 DEF Packet
<1>8. Ring'
  BY <1>0 DEF Ring, Working, cached
<1>9. Fits'
  <2> SUFFICES ASSUME OnePacket PROVE Fits'
    BY DEF Fits
  <2>1. ~ leftover => pcH' # "move"
    BY <1>0, <1>a DEF Fits
  <2>2. InPacket' = 0 /\ packet' = NULL
    BY DEF InPacket
  <2>3. ~ leftover => cached' <= received'
    <3>1. InPacket \in Nat /\ cached \in Nat /\ received \in Nat /\ cached' = cached
      BY <1>0, FsSizeAssumption DEF InPacket, cached, FsTypeOK
    <3>2. ~ leftover => InPacket + cached <= received
      BY <1>0, <1>t DEF Fits, Working
    <3> QED
      BY <3>1, <3>2
  <2>4. pcH' # "write" /\ leftover' = leftover
    BY <1>a
  <2>5. cached' \in Int
    BY <1>0, FsSizeAssumption DEF cached, FsTypeOK
  <2> QED
    BY <2>1, <2>2, <2>3, <2>4, <2>5 DEF Fits
<1>10. Drained'
  <2>1. InPacket' = 0
    BY DEF InPacket
  <2>2. ~ bFail' /\ pcH' = "answer" => ~ bFail /\ cleared /\ Finished
    BY <1>o, <1>a
  <2>3. ~ bFail /\ Finished => "SUCCESS" \in got
    BY <1>0, <1>t DEF Ends, Told, Finished
  <2>4. ~ bFail' /\ pcH' = "answer" => cached' = 0
    BY <1>0, <2>2, <2>3 DEF Drained, cached
  <2>5. pcH' # "write"
    BY <1>a
  <2> QED
    BY <2>1, <2>4, <2>5 DEF Drained
<1>11. Carried'
  <2> SUFFICES ASSUME ~ bFail' PROVE Carried'
    BY DEF Carried
  <2>1. ~ bFail /\ n = p /\ handle /\ totalWriteLen = Len(file)
    BY <1>0, <1>o, <1>w, <1>t DEF Carried, Packet
  <2>2. /\ InPacket = p /\ InPacket' = 0 /\ totalWriteLen' = totalWriteLen + p
        /\ p \in Nat /\ Len(file) \in Nat
    <3>1. p \in Nat /\ Len(file) \in Nat
      BY <1>0, <1>w DEF FsTypeOK
    <3>2. totalWriteLen' = totalWriteLen + p
      BY <1>o, <2>1
    <3> QED
      BY <1>w, <3>1, <3>2 DEF InPacket
  <2>3. Stale' = Stale /\ Stale \in Int
    BY <1>0, <2>2, FsSizeAssumption DEF Stale, cached, FsTypeOK
  <2>4. /\ Len(file') = Len(file) + p
        /\ \A k \in 1..Len(file) : file'[k] = file[k]
        /\ \A k \in 1..p : file'[Len(file) + k] = packet[k]
    <3>1. file' = file \o SubSeq(packet, 1, p)
      BY <1>o, <2>1
    <3>2. /\ SubSeq(packet, 1, p) \in Seq(TheBytes) /\ Len(SubSeq(packet, 1, p)) = p
          /\ \A k \in 1..p : SubSeq(packet, 1, p)[k] = packet[k]
      <4>1. packet \in Seq(TheBytes) /\ p \in Nat /\ p <= Len(packet)
        BY <1>0, <1>w, <2>2 DEF FsTypeOK
      <4> QED
        BY ONLY <4>1
    <3>3. file \in Seq(TheBytes) /\ p \in Nat
      BY <1>0, <1>w DEF FsTypeOK
    <3> QED
      BY ONLY <3>1, <3>2, <3>3
  <2>5. ASSUME NEW k \in Nat \ {0} PROVE Content(k)' = Content(k)
    <3>a. UNCHANGED <<ringMem, rdOff>>
      OBVIOUS
    <3>1. CASE k <= totalWriteLen
      BY ONLY <2>1, <2>2, <2>4, <3>a, <3>1 DEF Content
    <3>2. CASE k > totalWriteLen /\ k <= totalWriteLen + p
      <4>1. k - totalWriteLen \in 1..p /\ Len(file) + (k - totalWriteLen) = k
        BY ONLY <2>1, <2>2, <3>2
      <4>2. file'[k] = packet[k - totalWriteLen]
        BY ONLY <2>4, <4>1
      <4> QED
        BY ONLY <2>1, <2>2, <3>2, <4>2 DEF Content
    <3>3. CASE k > totalWriteLen + p
      BY ONLY <2>1, <2>2, <3>a, <3>3 DEF Content, Forward
    <3> QED
      BY <3>1, <3>2, <3>3, <2>1, <2>2
  <2>6. /\ totalWriteLen' = (IF handle' THEN Len(file') ELSE 0) /\ received' = received
        /\ leftover' = leftover /\ xfer' = xfer
    BY <1>o, <2>1, <2>2, <2>4
  <2>7. /\ Stale >= 0 /\ (~ leftover => Stale = 0) /\ received \in Nat
        /\ \A i \in 1..received : Content(Stale + i) = Byte(i)
    BY <1>0, <1>t, <2>1 DEF Carried, FsTypeOK
  <2> HIDE DEF WritePacket
  <2>8. \A i \in 1..received : Content(Stale + i)' = Byte(i)'
    <3> TAKE i \in 1..received
    <3>1. Stale + i \in Nat \ {0}
      BY <2>3, <2>7
    <3>2. Content(Stale + i)' = Content(Stale + i)
      BY <2>3, <2>5, <3>1
    <3> QED
      BY <2>6, <2>7, <3>2 DEF Byte
  <2> QED
    BY ONLY <2>3, <2>6, <2>7, <2>8 DEF Carried
<1>12. Arranged'
  BY <1>0 DEF Arranged, Phase
<1> QED
  BY ONLY <1>1, <1>2, <1>3, <1>4, <1>5, <1>6, <1>7, <1>8, <1>9, <1>10, <1>11, <1>12 DEF FsInv

LEMMA AnswerInv == FsInv /\ ~ wild /\ Answer => FsInv'
<1> SUFFICES ASSUME FsInv, ~ wild, Answer PROVE FsInv'
  OBVIOUS
<1> USE DEF Answer, ringVars, sendVars, packetVars, handlerVars, historyVars
<1>0. /\ FsTypeOK /\ Lands /\ SuccessMeansStored /\ Sound
      /\ Phase /\ Arranged /\ Ends /\ Packet /\ Ring /\ Fits /\ Drained /\ Carried
  BY DEF FsInv
<1>t. owed = 1 /\ owed' = 0
  BY <1>0 DEF Phase, Arranging, Cleaning
<1>e. pcS = "idle"
  BY <1>0 DEF Ends, Told, Finished
<1>z. ~ bFail => /\ handle /\ totalWriteLen = Len(file) /\ Stale = totalWriteLen - received
                 /\ Stale >= 0 /\ (~ leftover => Stale = 0)
                 /\ (Stale = 0 => \A i \in 1..received : file[i] = Byte(i))
  <2> SUFFICES ASSUME ~ bFail
               PROVE  /\ handle /\ totalWriteLen = Len(file) /\ Stale = totalWriteLen - received
                      /\ Stale >= 0 /\ (~ leftover => Stale = 0)
                      /\ (Stale = 0 => \A i \in 1..received : file[i] = Byte(i))
    OBVIOUS
  <2>1. handle /\ cached = 0 /\ InPacket = 0
    BY <1>0 DEF Packet, Drained
  <2>2. /\ totalWriteLen = Len(file) /\ Stale >= 0 /\ (~ leftover => Stale = 0)
        /\ \A i \in 1..received : Content(Stale + i) = Byte(i)
    BY <1>0, <1>t, <2>1 DEF Carried
  <2>3. Stale = totalWriteLen - received /\ totalWriteLen \in Nat /\ received \in Nat
    BY <1>0, <2>1 DEF Stale, FsTypeOK
  <2>4. ASSUME Stale = 0, NEW i \in 1..received PROVE file[i] = Byte(i)
    <3>1. Content(i) = Byte(i)
      BY <2>2, <2>4
    <3> QED
      BY <2>3, <2>4, <3>1 DEF Content
  <2> QED
    BY <2>1, <2>2, <2>3, <2>4
<1>1. FsTypeOK'
  BY AnswerTypes
<1>2. Lands'
  BY <1>0 DEF Lands, LandsInPacket
<1>3. SuccessMeansStored'
  <2> SUFFICES ASSUME answer' = "succ" PROVE received = total /\ file' = Sent(received)
    BY DEF SuccessMeansStored, Sent, Byte
  <2>1. ~ bFail /\ totalWriteLen = total /\ file' = file
    OBVIOUS
  <2>2. received = total
    BY <1>0, <1>e DEF Phase, Arranging, Cleaning
  <2>3. /\ handle /\ totalWriteLen = Len(file) /\ Stale = 0
        /\ \A i \in 1..received : file[i] = Byte(i)
    BY <1>z, <2>1, <2>2
  <2>4. file = [i \in 1..received |-> Byte(i)]
    BY <1>0, <2>1, <2>2, <2>3 DEF FsTypeOK
  <2> QED
    BY <2>1, <2>2, <2>4 DEF Sent
<1>4. Sound'
  <2> SUFFICES ASSUME OnePacket, "SUCCESS" \in got, ~ leftover, ~ faulted PROVE answer' = "succ"
    BY DEF Sound, SoundSucceeds
  <2>1. ~ bFail
    BY <1>0, <1>t DEF Ends, Told
  <2>2. totalWriteLen = received /\ received = total
    BY <1>0, <1>t, <1>z, <1>e, <2>1 DEF Phase, FsTypeOK
  <2> QED
    BY <2>1, <2>2
<1>5. Phase'
  BY <1>e, <1>t DEF Phase, Cleaning
<1>6. Ends'
  BY <1>e, <1>t DEF Ends, Told
<1>7. Packet'
  BY <1>0, <1>t DEF Packet
<1>8. Ring'
  BY <1>t DEF Ring, Working
<1>9. Fits'
  BY <1>t DEF Fits, Working
<1>10. Drained'
  BY <1>0 DEF Drained, InPacket, cached
<1>11. Carried'
  BY <1>t DEF Carried
<1>12. Arranged'
  BY <1>e DEF Arranged, Arranging
<1> QED
  BY ONLY <1>1, <1>2, <1>3, <1>4, <1>5, <1>6, <1>7, <1>8, <1>9, <1>10, <1>11, <1>12 DEF FsInv

LEMMA CleanInv == FsInv /\ ~ wild /\ Clean => FsInv'
<1> SUFFICES ASSUME FsInv, ~ wild, Clean PROVE FsInv'
  OBVIOUS
<1> USE DEF Clean, ringVars, sendVars, packetVars, handlerVars, historyVars
<1>0. FsTypeOK /\ Phase /\ Arranged
  BY DEF FsInv
<1>1. FsTypeOK'
  BY <1>0, ByteFacts, FlagFacts, FsSizeAssumption DEF FsTypeOK, Arranging, Cleaning, Aimed
<1>2. owed = 0
  BY <1>0 DEF Phase, Arranging, Cleaning
<1>3. Phase'
  BY <1>0, <1>2 DEF Phase, Arranging, Cleaning
<1>4. Arranged'
  BY <1>0, <1>2 DEF Arranged, Phase, Arranging, Cleaning, Aimed
<1> QED
  BY <1>0, <1>1, <1>2, <1>3, <1>4, IdleFrame DEF Phase, Arranging, Cleaning

LEMMA FreeRingInv == FsInv /\ ~ wild /\ FreeRing => FsInv'
<1> SUFFICES ASSUME FsInv, ~ wild, FreeRing PROVE FsInv'
  OBVIOUS
<1> USE DEF FreeRing, ringVars, sendVars, packetVars, handlerVars, historyVars
<1>0. FsTypeOK /\ Phase /\ Arranged
  BY DEF FsInv
<1>1. FsTypeOK'
  BY <1>0, ByteFacts, FlagFacts, FsSizeAssumption DEF FsTypeOK, Arranging, Cleaning, Aimed
<1>2. owed = 0
  BY <1>0 DEF Phase, Arranging, Cleaning
<1>3. Phase'
  BY <1>0, <1>2 DEF Phase, Arranging, Cleaning
<1>4. Arranged'
  BY <1>0, <1>2 DEF Arranged, Phase, Arranging, Cleaning, Aimed
<1> QED
  BY <1>0, <1>1, <1>2, <1>3, <1>4, IdleFrame DEF Phase, Arranging, Cleaning

LEMMA StopInv == FsInv /\ ~ wild /\ Stop => FsInv'
<1> SUFFICES ASSUME FsInv, ~ wild, Stop PROVE FsInv'
  OBVIOUS
<1> USE DEF Stop, ringVars, sendVars, packetVars, handlerVars, historyVars
<1>0. FsTypeOK /\ Phase /\ Arranged
  BY DEF FsInv
<1>1. FsTypeOK'
  BY <1>0, ByteFacts, FlagFacts, FsSizeAssumption DEF FsTypeOK, Arranging, Cleaning, Aimed
<1>2. owed = 0
  BY <1>0 DEF Phase, Arranging, Cleaning
<1>3. Phase'
  BY <1>0, <1>2 DEF Phase, Arranging, Cleaning
<1>4. Arranged'
  BY <1>0, <1>2 DEF Arranged, Phase, Arranging, Cleaning, Aimed
<1> QED
  BY <1>0, <1>1, <1>2, <1>3, <1>4, IdleFrame DEF Phase, Arranging, Cleaning

LEMMA FlushInv == FsInv /\ ~ wild /\ Flush => FsInv'
<1> SUFFICES ASSUME FsInv, ~ wild, Flush PROVE FsInv'
  OBVIOUS
<1> USE DEF Flush, ringVars, sendVars, packetVars, handlerVars, historyVars
<1>0. FsTypeOK /\ Phase /\ Arranged
  BY DEF FsInv
<1>1. FsTypeOK'
  BY <1>0, ByteFacts, FlagFacts, FsSizeAssumption DEF FsTypeOK, Arranging, Cleaning, Aimed
<1>2. owed = 0
  BY <1>0 DEF Phase, Arranging, Cleaning
<1>3. Phase'
  BY <1>0, <1>2 DEF Phase, Arranging, Cleaning
<1>4. Arranged'
  BY <1>0, <1>2 DEF Arranged, Phase, Arranging, Cleaning, Aimed
<1> QED
  BY <1>0, <1>1, <1>2, <1>3, <1>4, IdleFrame DEF Phase, Arranging, Cleaning

LEMMA SumBound ==
  \A a, b, c, d, r \in Int : a + c <= r /\ b <= c + d => a + b <= r + d
OBVIOUS

\* Where a piece that fits is stored: behind what is cached, and nowhere else.
LEMMA StoreSlots ==
  ASSUME NEW bytes, NEW L \in Nat, Len(bytes) = L, 0 < L, L <= free, RingWrite(bytes),
         free \in 0..RingSize, rdOff \in Offsets, wrOff = Forward(rdOff, cached)
  PROVE  /\ wrOff' = Forward(rdOff, cached + L)
         /\ \A j \in 1..cached :
              ringMem'[Forward(rdOff, j - 1)] = ringMem[Forward(rdOff, j - 1)]
         /\ \A j \in 1..L : ringMem'[Forward(rdOff, cached + j - 1)] = bytes[j]
<1> DEFINE K(o) == IF o >= wrOff THEN o - wrOff + 1 ELSE o + RingSize - wrOff + 1
<1>1. cached \in 0..(RingSize - 1) /\ cached + L <= RingSize /\ RingSize \in Nat
  BY FsSizeAssumption DEF cached
<1>2. wrOff' = Forward(rdOff, cached + L)
  BY <1>1, FsSizeAssumption DEF RingWrite, Forward, Offsets
<1>3. \A o \in Offsets : ringMem'[o] = IF K(o) <= L THEN bytes[K(o)] ELSE ringMem[o]
  BY DEF RingWrite, Offsets
<1>4. ASSUME NEW j \in 1..cached
      PROVE  Forward(rdOff, j - 1) \in Offsets /\ ~ K(Forward(rdOff, j - 1)) <= L
  BY <1>1, <1>4, FsSizeAssumption DEF Forward, Offsets
<1>5. ASSUME NEW j \in 1..L
      PROVE  Forward(rdOff, cached + j - 1) \in Offsets /\ K(Forward(rdOff, cached + j - 1)) = j
  BY <1>1, <1>5, FsSizeAssumption DEF Forward, Offsets
<1> HIDE DEF K
<1>7. \A j \in 1..cached : ringMem'[Forward(rdOff, j - 1)] = ringMem[Forward(rdOff, j - 1)]
  BY <1>3, <1>4
<1>8. \A j \in 1..L : ringMem'[Forward(rdOff, cached + j - 1)] = bytes[j]
  BY <1>3, <1>5
<1> QED
  BY <1>2, <1>7, <1>8

LEMMA StoreInv == FsInv /\ ~ wild /\ Store => FsInv'
<1> SUFFICES ASSUME FsInv, ~ wild, Store PROVE FsInv'
  OBVIOUS
<1> USE DEF Store, ringVars, sendVars, packetVars, handlerVars, historyVars
<1>0. /\ FsTypeOK /\ Lands /\ SuccessMeansStored /\ Sound
      /\ Phase /\ Arranged /\ Ends /\ Packet /\ Ring /\ Fits /\ Drained /\ Carried
  BY DEF FsInv
<1> DEFINE piece == [k \in 1..datalen |-> Byte(received + k)]
           Fitting == ~ bFail /\ RingWrites(piece) /\ RingWrite(piece)
<1>t. owed = 1 /\ ringOk /\ {"ring", "W"} \subseteq valid
  BY <1>0 DEF Phase, Arranging, Cleaning
<1>l. /\ datalen \in Nat /\ 0 < datalen /\ received \in Nat /\ received' = received + datalen
      /\ total \in Nat /\ received' <= total
  BY <1>0 DEF Phase, Arranging, Cleaning, FsTypeOK
<1>p. /\ piece \in Seq(TheBytes) /\ Len(piece) = datalen
      /\ \A k \in 1..datalen : piece[k] = Byte(received + k)
      /\ \A k \in Nat \ {0} : k <= Len(piece) => piece[k] \in TheBytes
  BY <1>0, PieceFacts
<1>r. \/ Fitting /\ bFail' = FALSE
      \/ bFail' = TRUE /\ UNCHANGED ringVars
  <2>1. CASE ~ bFail /\ RingWrites(piece)
    <3>1. Fitting /\ bFail' = (received' > total)
      BY <2>1
    <3>2. ~ received' > total
      BY <1>l
    <3>3. (received' > total) = FALSE
      BY ONLY <3>2
    <3>4. bFail' = FALSE
      BY ONLY <3>1, <3>3
    <3> QED
      BY <3>1, <3>4
  <2>2. CASE ~ (~ bFail /\ RingWrites(piece))
    BY <2>2
  <2> QED
    BY <2>1, <2>2
<1>f. \E n : flags' = flags \/ flags' = flags \cup Sync(n)
  BY DEF RingWrite
<1>e. Told \cap {"SUCCESS", "FAIL"} = {} /\ pcH # "answer" /\ pcH \notin Cleaning
  BY <1>0, <1>t DEF Ends, Told, Finished, Phase
<1>c. pcH' # "clean"
  BY <1>e DEF Cleaning
<1>w. wild' = wild
  <2>1. WriteStrays = FALSE
    BY <1>t DEF WriteStrays
  <2>2. wild = FALSE /\ (wild \/ WriteStrays) = FALSE
    BY <1>0, <2>1 DEF FsTypeOK
  <2> QED
    BY <2>2
<1> HIDE DEF piece
<1>g. Fitting => /\ free' = free - datalen /\ datalen <= free
                 /\ wrOff' = Forward(rdOff, cached + datalen)
                 /\ \A j \in 1..cached :
                      ringMem'[Forward(rdOff, j - 1)] = ringMem[Forward(rdOff, j - 1)]
                 /\ \A j \in 1..datalen :
                      ringMem'[Forward(rdOff, cached + j - 1)] = piece[j]
  <2> SUFFICES ASSUME Fitting
               PROVE  /\ free' = free - datalen /\ datalen <= free
                      /\ wrOff' = Forward(rdOff, cached + datalen)
                      /\ \A j \in 1..cached :
                           ringMem'[Forward(rdOff, j - 1)] = ringMem[Forward(rdOff, j - 1)]
                      /\ \A j \in 1..datalen :
                           ringMem'[Forward(rdOff, cached + j - 1)] = piece[j]
    OBVIOUS
  <2>1. free' = free - datalen /\ datalen <= free
    BY <1>p, <1>l, <1>0 DEF RingWrite, RingWrites, FsTypeOK
  <2>2. wrOff = Forward(rdOff, cached) /\ rdOff \in Offsets /\ free \in 0..RingSize
    BY <1>0, <1>t DEF Ring, Working, FsTypeOK, Offsets
  <2> QED
    BY <1>l, <1>p, <2>1, <2>2, StoreSlots
<1> HIDE DEF Fitting
<1>1. FsTypeOK'
  BY StoreTypes
<1>2. Lands'
  BY <1>0, <1>w DEF Lands, LandsInPacket
<1>3. SuccessMeansStored'
  BY <1>c DEF SuccessMeansStored
<1>4. Sound'
  BY <1>c DEF Sound, SoundSucceeds
<1>5. Phase'
  BY <1>0, <1>r, <1>l, <1>t DEF Phase, Arranging, Cleaning, RingWrite, Fitting
<1>6. Ends'
  <2>1. Told' \cap {"SUCCESS", "FAIL"} = {}
    BY <1>f, <1>e, SyncFlags DEF Told
  <2> QED
    BY <1>e, <2>1 DEF Ends
<1>7. Packet'
  BY <1>0 DEF Packet
<1>8. Ring'
  <2>1. CASE UNCHANGED ringVars
    BY <1>0, <1>t, <1>r, <2>1 DEF Ring, Working, cached
  <2>2. CASE Fitting
    <3>1. cached' = cached + datalen
      BY <1>0, <1>g, <1>l, <2>2, FsSizeAssumption DEF cached, FsTypeOK
    <3>2. rdOff' = rdOff
      BY <2>2 DEF RingWrite, Fitting
    <3> QED
      BY <1>g, <2>2, <3>1, <3>2 DEF Ring, Forward
  <2> QED
    BY <1>r, <2>1, <2>2
<1>9. Fits'
  <2>1. InPacket' = InPacket /\ InPacket \in Int
    BY <1>0 DEF InPacket, FsTypeOK
  <2>2. cached' <= cached + datalen
    <3>1. CASE UNCHANGED ringVars
      BY <1>0, <1>l, <3>1, FsSizeAssumption DEF cached, FsTypeOK
    <3>2. CASE Fitting
      <4>1. free' = free - datalen
        BY ONLY <1>g, <3>2
      <4>2. free \in Int /\ RingSize \in Int /\ datalen \in Int
        BY <1>0, <1>l, FsSizeAssumption DEF FsTypeOK
      <4>3. cached' = RingSize - (free - datalen) /\ cached = RingSize - free
        BY ONLY <4>1 DEF cached
      <4> QED
        BY ONLY <4>2, <4>3
    <3> QED
      BY <1>r, <3>1, <3>2
  <2>3. cached \in Int /\ cached' \in Int
    <3>1. free \in Int /\ free' \in Int
      BY <1>0, <1>g, <1>l, <1>r DEF FsTypeOK
    <3> QED
      BY <3>1, FsSizeAssumption DEF cached
  <2>4. ASSUME OnePacket, ~ leftover, Working' PROVE InPacket' + cached' <= received'
    <3>1. InPacket + cached <= received
      BY <1>0, <1>r, <2>4 DEF Fits, Working
    <3>2. received \in Int /\ datalen \in Int /\ received' = received + datalen
      BY <1>l
    <3>3. InPacket + cached' <= received + datalen
      BY ONLY <2>1, <2>2, <2>3, <3>1, <3>2, SumBound
    <3> QED
      BY <2>1, <3>2, <3>3
  <2> QED
    BY <1>0, <2>4 DEF Fits
<1>10. Drained'
  BY <1>e DEF Drained, Told
<1>11. Carried'
  <2> SUFFICES ASSUME ~ bFail' PROVE Carried'
    BY DEF Carried
  <2>1. Fitting
    BY <1>r
  <2>2. /\ totalWriteLen = IF handle THEN Len(file) ELSE 0
        /\ Stale >= 0 /\ (~ leftover => Stale = 0)
        /\ \A i \in 1..received : Content(Stale + i) = Byte(i)
    BY <1>0, <1>r, <1>t, <1>e DEF Carried
  <2>3. /\ InPacket' = InPacket /\ InPacket \in Nat /\ cached' = cached + datalen
        /\ cached \in Nat /\ Stale \in Int /\ Stale' = Stale /\ totalWriteLen \in Nat
        /\ Stale + received = totalWriteLen + InPacket + cached
    <3>1. InPacket' = InPacket /\ InPacket \in Nat
      BY <1>0 DEF InPacket, FsTypeOK
    <3>2. cached' = cached + datalen /\ cached \in Nat
      BY <1>0, <1>g, <1>l, <2>1, FsSizeAssumption DEF cached, FsTypeOK
    <3>3. totalWriteLen \in Nat /\ received \in Nat
      BY <1>0 DEF FsTypeOK
    <3> QED
      BY <1>l, <3>1, <3>2, <3>3 DEF Stale
  <2>4. /\ \A j \in 1..cached :
             ringMem'[Forward(rdOff, j - 1)] = ringMem[Forward(rdOff, j - 1)]
        /\ \A j \in 1..datalen : ringMem'[Forward(rdOff, cached + j - 1)] = piece[j]
    BY <1>g, <2>1
  <2>a. UNCHANGED <<totalWriteLen, packet, file, handle, rdOff, xfer, leftover>>
    BY <2>1 DEF RingWrite, Fitting
  <2> HIDE DEF Store
  <2>5. ASSUME NEW k \in Nat \ {0}, k <= totalWriteLen + InPacket + cached
        PROVE  Content(k)' = Content(k)
    <3>1. CASE k <= totalWriteLen + InPacket
      BY <2>3, <2>a, <3>1 DEF Content
    <3>2. CASE k > totalWriteLen + InPacket
      <4> DEFINE j == k - totalWriteLen - InPacket
      <4>1. j \in 1..cached
        BY <2>3, <2>5, <3>2
      <4>2. Content(k) = ringMem[Forward(rdOff, j - 1)]
        BY <2>3, <3>2 DEF Content
      <4>3. Content(k)' = ringMem'[Forward(rdOff, j - 1)]
        BY <2>3, <2>a, <3>2 DEF Content, Forward
      <4> QED
        BY ONLY <2>4, <4>1, <4>2, <4>3
    <3> QED
      BY <2>3, <3>1, <3>2
  <2>6. ASSUME NEW i \in 1..datalen, NEW k \in Nat, k = totalWriteLen + InPacket + cached + i
        PROVE  Content(k)' = Byte(received + i)
    <3>1. k > totalWriteLen /\ k > totalWriteLen + InPacket
          /\ k - totalWriteLen - InPacket - 1 = cached + i - 1
      BY <1>l, <2>3, <2>6
    <3>2. ringMem'[Forward(rdOff, cached + i - 1)] = Byte(received + i)
      BY <1>p, <2>4, <2>6
    <3>3. Content(k)' = ringMem'[Forward(rdOff, cached + i - 1)]
      BY <2>3, <2>a, <3>1 DEF Content, Forward
    <3> QED
      BY <3>2, <3>3
  <2>7. \A i \in 1..received' : Content(Stale + i)' = Byte(i)'
    <3> SUFFICES ASSUME NEW i \in 1..received', NEW k, k = Stale + i
                 PROVE  Content(k)' = Byte(i)
      BY <2>3, <2>a DEF Byte
    <3>1. CASE i \in 1..received
      <4>1. k \in Nat \ {0} /\ k <= totalWriteLen + InPacket + cached
        BY <1>l, <2>2, <2>3, <3>1
      <4>2. Content(k) = Byte(i)
        BY <2>2, <3>1
      <4> QED
        BY <2>5, <4>1, <4>2
    <3>2. CASE i \notin 1..received
      <4>1. i - received \in 1..datalen /\ k = totalWriteLen + InPacket + cached + (i - received)
            /\ k \in Nat /\ received + (i - received) = i
        BY <1>l, <2>2, <2>3, <3>2
      <4>2. Content(k)' = Byte(received + (i - received))
        BY <2>6, <4>1
      <4> QED
        BY <4>1, <4>2
    <3> QED
      BY <3>1, <3>2
  <2> QED
    BY ONLY <2>2, <2>3, <2>7, <2>a DEF Carried
<1>12. Arranged'
  BY <1>0 DEF Arranged, Phase, Arranging, Cleaning
<1> QED
  BY ONLY <1>1, <1>2, <1>3, <1>4, <1>5, <1>6, <1>7, <1>8, <1>9, <1>10, <1>11, <1>12 DEF FsInv

LEMMA MoveInv == FsInv /\ ~ wild /\ Move => FsInv'
<1> SUFFICES ASSUME FsInv, ~ wild, Move PROVE FsInv'
  OBVIOUS
<1> USE DEF Move, ringVars, sendVars, packetVars, handlerVars, historyVars
<1>0. /\ FsTypeOK /\ Lands /\ SuccessMeansStored /\ Sound
      /\ Phase /\ Arranged /\ Ends /\ Packet /\ Ring /\ Fits /\ Drained /\ Carried
  BY DEF FsInv
<1> DEFINE res  == ReadResult(room)
           more == res > room
           n    == IF more THEN res - 1 ELSE res
<1>t. /\ owed = 1 /\ ringOk /\ valid = {"ring", "R", "W"} /\ pcH = "move"
      /\ room \in Nat /\ 0 < room /\ bufLen \in Nat /\ 0 < bufLen
  BY <1>0 DEF Phase, Arranging, Cleaning, Packet, FsTypeOK
<1>a. /\ free' = free + ReadLen(room)
      /\ rdOff' = IF ReadFails(room) \/ ReadLen(room) = RingSize THEN rdOff
                  ELSE Forward(rdOff, ReadLen(room))
      /\ flags' = flags \cup Sync(free + ReadLen(room))
      /\ UNCHANGED <<ringOk, ringMem, wrOff, valid>>
  <2>1. RingRead(room)
    OBVIOUS
  <2> QED
    <3>1. ~ (~ ringOk \/ room <= 0)
      BY ONLY <1>t
    <3> QED
      BY ONLY <2>1, <3>1 DEF RingRead
<1>f. /\ cached \in 0..RingSize
      /\ ReadLen(room) \in 0..cached /\ ReadLen(room) <= room
      /\ ReadLen(room) < cached => ReadLen(room) = room
      /\ ~ ReadFails(room) =>
           /\ ReadResult(room) \in Nat
           /\ ReadResult(room) > room <=> ReadLen(room) < cached
           /\ ReadResult(room) = IF ReadLen(room) < cached THEN ReadLen(room) + 1 ELSE ReadLen(room)
      /\ ReadFails(room) => ReadResult(room) = -1
  <2>1. free \in 0..RingSize
    BY <1>0 DEF FsTypeOK
  <2> QED
    BY ONLY <1>t, <2>1, ReadFacts
<1>n. \/ ~ ReadFails(room) /\ res >= 0 /\ n = ReadLen(room) /\ (more <=> ReadLen(room) < cached)
      \/ ReadFails(room) /\ res < 0 /\ n = -1 /\ ~ more
  BY <1>f, <1>t
<1>m. /\ cached \in 0..RingSize /\ ReadLen(room) \in 0..cached
      /\ n \in Int /\ n <= room /\ -1 <= n /\ res \in Int
  BY <1>f, <1>n, <1>t
<1>b. /\ bFail' = (bFail \/ res < 0)
      /\ cleared' = ~ (more /\ "SUCCESS" \in got)
      /\ p' = p + n
      /\ room' = room - n
  OBVIOUS
<1>v. /\ bFail' <=> bFail \/ ReadFails(room)
      /\ cleared' <=> ~ (more /\ "SUCCESS" \in got)
  <2>1. res < 0 <=> ReadFails(room)
    BY <1>f, <1>n
  <2> QED
    BY ONLY <1>b, <2>1
<1>u. UNCHANGED <<total, transmitting, ringOk, ringMem, wrOff, valid, pcS, received, datalen, got, handle,
                  file, bufLen, totalWriteLen, xfer, owed, answer, leftover, faulted>>
  BY <1>a
<1>k. /\ pcH' \in {"write", "move", "answer", "wait"}
      /\ pcH' = "move" => ~ cleared'
      /\ pcH' = "answer" => cleared' /\ Finished
      /\ pcH' = "write" => res >= 0 /\ WritesOut(room', cleared')
      /\ pcH' # "write" /\ res >= 0 => ~ WritesOut(room', cleared')
  BY DEF AfterPass
<1>d. \/ /\ (n > 0 /\ (packet = NULL \/ p < 0 \/ p + n > Len(packet) \/ ReadOverruns(room))) \/ ReadStrays(room)
         /\ wild' = TRUE /\ packet' = packet
      \/ /\ ~ ((n > 0 /\ (packet = NULL \/ p < 0 \/ p + n > Len(packet) \/ ReadOverruns(room))) \/ ReadStrays(room))
         /\ packet' = [k \in 1..Len(packet) |->
                         IF k > p /\ k <= p + n THEN RingBytes(rdOff, n)[k - p] ELSE packet[k]]
         /\ wild' = wild
  OBVIOUS
<1> HIDE DEF Move, res, more, n
<1>w. wild' \in BOOLEAN
  BY <1>0, <1>d DEF FsTypeOK
<1>x. /\ packet' \in Seq(TheBytes) /\ Len(packet') = Len(packet)
      /\ (packet' = NULL <=> packet = NULL)
      /\ ~ wild' => /\ n > 0 => packet # NULL /\ ~ p < 0
                    /\ \A k \in 1..InPacket : packet'[k] = packet[k]
                    /\ \A j \in 1..n : packet'[p + j] = ringMem[Forward(rdOff, j - 1)]
  <2>1. /\ packet \in Seq(TheBytes) /\ p \in Int /\ n \in Int /\ rdOff \in Offsets
        /\ n <= RingSize /\ ringMem \in [Offsets -> TheBytes]
    BY <1>0, <1>f, <1>n, FsSizeAssumption DEF FsTypeOK, Offsets
  <2>2. CASE wild' = TRUE /\ packet' = packet
    BY <2>1, <2>2
  <2>3. CASE /\ ~ (n > 0 /\ (packet = NULL \/ p < 0 \/ p + n > Len(packet) \/ ReadOverruns(room)))
             /\ packet' = [k \in 1..Len(packet) |->
                             IF k > p /\ k <= p + n THEN RingBytes(rdOff, n)[k - p] ELSE packet[k]]
    <3>1. n > 0 => packet # NULL /\ ~ p < 0 /\ ~ p + n > Len(packet)
      BY ONLY <2>3
    <3>2. /\ packet' \in Seq(TheBytes) /\ Len(packet') = Len(packet)
          /\ \A j \in 1..n : packet'[p + j] = ringMem[Forward(rdOff, j - 1)]
      BY ONLY <1>0, <2>1, <2>3, <3>1, MovedPacket
    <3>3. packet' = NULL <=> packet = NULL
      BY ONLY <2>1, <3>2 DEF NULL
    <3>4. \A k \in 1..InPacket : packet'[k] = packet[k]
      <4> SUFFICES ASSUME NEW k \in 1..InPacket PROVE packet'[k] = packet[k]
        OBVIOUS
      <4>1. packet # NULL /\ k <= p /\ 0 <= p /\ 1 <= k /\ k \in Int
        BY ONLY <2>1, k \in 1..InPacket DEF InPacket
      <4>2. k \in 1..Len(packet)
        <5>1. Len(packet) = bufLen /\ p + room = bufLen
          BY <1>0, <4>1 DEF Packet
        <5> QED
          BY <1>t, <2>1, <4>1, <5>1
      <4> QED
        BY ONLY <2>1, <2>3, <4>1, <4>2
    <3> QED
      BY ONLY <3>1, <3>2, <3>3, <3>4
  <2> QED
    BY ONLY <1>d, <2>2, <2>3
<1>s. OnePacket /\ ~ leftover =>
        /\ ~ ReadFails(room) /\ n = cached /\ ~ more /\ ~ wild'
        /\ packet # NULL /\ 0 <= p
  <2> SUFFICES ASSUME OnePacket, ~ leftover
               PROVE  /\ ~ ReadFails(room) /\ n = cached /\ ~ more /\ ~ wild'
                      /\ packet # NULL /\ 0 <= p
    OBVIOUS
  <2>1. packet # NULL /\ bufLen = total /\ 0 <= p /\ InPacket + cached <= received
    BY <1>0, <1>t DEF Fits, Working
  <2>2. /\ received <= total /\ Len(packet) = bufLen /\ p + room = bufLen
        /\ total \in Nat /\ received \in Nat /\ p \in Int /\ InPacket = p
    BY <1>0, <1>t, <2>1 DEF Phase, Packet, InPacket, FsTypeOK
  <2>3. cached <= room
    BY <1>f, <1>t, <2>1, <2>2
  <2>4. ReadLen(room) = cached
    BY <1>f, <1>t, <2>3
  <2>5. wrOff = Forward(rdOff, cached) /\ rdOff \in Offsets /\ cached \in Int
    BY <1>0, <1>f, <1>t DEF Ring, Working, FsTypeOK, Offsets
  <2>6. ~ ReadFails(room)
    <3>1. rdOff = wrOff => cached \in {0, RingSize}
      BY <1>f, <2>5, FsSizeAssumption DEF Forward, Offsets
    <3> QED
      BY <1>t, <2>4, <3>1 DEF ReadFails
  <2>7. ~ ReadOverruns(room)
    <3>1. rdOff > wrOff => cached >= RingSize - rdOff
      BY <1>f, <2>5, FsSizeAssumption DEF Forward, Offsets
    <3> QED
      BY <1>f, <2>4, <2>5, <3>1, FsSizeAssumption DEF ReadOverruns, Offsets
  <2>8. n = cached /\ ~ more
    BY <1>f, <1>n, <1>t, <2>4, <2>6
  <2>9. ~ wild'
    <3>1. ~ (n > 0 /\ (packet = NULL \/ p < 0 \/ p + n > Len(packet) \/ ReadOverruns(room)))
      BY <1>t, <2>1, <2>2, <2>3, <2>5, <2>7, <2>8
    <3>2. ~ ReadStrays(room)
      BY <1>t DEF ReadStrays
    <3> QED
      BY <1>d, <3>1, <3>2
  <2> QED
    BY <2>1, <2>6, <2>8, <2>9
<1>1. FsTypeOK'
  BY MoveTypes
<1>2. Lands'
  BY <1>s, <1>u DEF Lands, LandsInPacket
<1>3. SuccessMeansStored'
  BY <1>k DEF SuccessMeansStored
<1>4. Sound'
  BY <1>k DEF Sound, SoundSucceeds
<1>5. Phase'
  BY <1>0, <1>k, <1>t, <1>u DEF Phase, Arranging, Cleaning
<1>6. Ends'
  <2>1. Told' \cap {"SUCCESS", "FAIL"} \subseteq Told
    BY <1>a, <1>k, <1>t, <1>u, SyncFlags DEF Told
  <2>2. pcH' = "answer" => Finished'
    BY <1>k, <1>u DEF Finished
  <2>3. (bFail => bFail') /\ (OnePacket /\ ~ leftover /\ bFail' => bFail)
    BY ONLY <1>s, <1>v
  <2> QED
    BY <1>0, <1>k, <1>t, <1>u, <2>1, <2>2, <2>3 DEF Ends
<1>7. ~ wild' => Packet'
  <2> SUFFICES ASSUME ~ wild' PROVE Packet'
    OBVIOUS
  <2>1. CASE packet = NULL
    <3>1. packet' = NULL /\ room' >= bufLen'
      BY <1>0, <1>b, <1>m, <1>t, <1>u, <1>x, <2>1 DEF Packet
    <3>2. ~ WritesOut(room', cleared')
      <4>1. room' \in Int /\ bufLen' = bufLen /\ bufLen \in Nat /\ 0 < bufLen
        BY <1>b, <1>m, <1>t, <1>u
      <4> QED
        BY ONLY <3>1, <4>1 DEF WritesOut
    <3> QED
      <4>1. pcH' # "write" /\ bufLen' = bufLen
        BY ONLY <1>k, <1>u, <3>2
      <4>2. pcH' \in {"move", "write", "answer"} /\ ~ bFail' => handle'
        BY <1>0, <1>t, <1>u, <1>v DEF Packet
      <4> QED
        BY ONLY <1>t, <3>1, <4>1, <4>2 DEF Packet
  <2>2. CASE packet # NULL
    <3>1. packet' # NULL /\ Len(packet') = bufLen' /\ p' + room' = bufLen' /\ room' \in Nat
      BY <1>0, <1>b, <1>m, <1>u, <1>x, <2>2 DEF Packet, FsTypeOK
    <3>2. room' = 0 => pcH' = "write"
      BY <1>b, <1>k, <1>m, <1>n, <1>t, <2>2 DEF WritesOut
    <3>3. pcH' = "write" => room' < bufLen'
      BY <1>k, <1>t, <1>u DEF WritesOut
    <3> QED
      <4>1. pcH' # "write" => 0 < room'
        BY ONLY <3>1, <3>2
      <4>2. pcH' \in {"move", "write", "answer"} /\ ~ bFail' => handle'
        BY <1>0, <1>t, <1>u, <1>v DEF Packet
      <4>3. ~ bFail' /\ ~ leftover' => 0 <= p'
        <5>1. ~ bFail' /\ ~ leftover' => 0 <= p /\ 0 <= n
          BY <1>0, <1>f, <1>n, <1>t, <1>u, <1>v, <2>2 DEF Packet
        <5>2. p \in Int /\ n \in Int
          BY <1>0, <1>m DEF FsTypeOK
        <5> QED
          BY ONLY <1>b, <5>1, <5>2
      <4> QED
        BY ONLY <1>t, <1>u, <3>1, <3>3, <4>1, <4>2, <4>3 DEF Packet
  <2> QED
    BY <2>1, <2>2
<1>8. Ring'
  <2> SUFFICES ASSUME Working' PROVE wrOff' = Forward(rdOff', cached')
    BY DEF Ring
  <2>1. ~ ReadFails(room) /\ n = ReadLen(room)
    <3>1. pcH' = "move" \/ pcH' = "write" => ~ ReadFails(room)
      <4>1. pcH' = "move" => more
        BY ONLY <1>k, <1>v
      <4>2. pcH' = "write" => res >= 0
        BY ONLY <1>k
      <4> QED
        BY ONLY <1>n, <1>m, <4>1, <4>2
    <3>2. ~ bFail' => ~ ReadFails(room)
      BY ONLY <1>v
    <3> QED
      BY <1>n, <3>1, <3>2 DEF Working
  <2>2. wrOff' = Forward(rdOff, cached) /\ rdOff \in Offsets /\ cached \in 0..RingSize
    BY <1>0, <1>a, <1>m, <1>t DEF Ring, Working, FsTypeOK, Offsets
  <2>3. cached' = cached - n /\ n \in 0..cached
    BY <1>0, <1>a, <1>m, <2>1, FsSizeAssumption DEF cached, FsTypeOK
  <2>4. CASE n = RingSize
    <3>1. rdOff' = rdOff /\ cached = RingSize /\ cached' = 0
      BY <1>a, <2>1, <2>2, <2>3, <2>4, FsSizeAssumption
    <3>2. Forward(rdOff', cached') = rdOff /\ Forward(rdOff, cached) = rdOff
      BY <2>2, <3>1, ForwardFacts, FsSizeAssumption DEF Forward, Offsets
    <3> QED
      BY <2>2, <3>2
  <2>5. CASE n # RingSize
    <3>1. rdOff' = Forward(rdOff, n)
      BY <1>a, <2>1, <2>5
    <3>2. /\ n \in Nat /\ cached' \in Nat /\ n + cached' = cached /\ n + cached' <= RingSize
          /\ n < RingSize
      BY <2>2, <2>3, <2>5, FsSizeAssumption
    <3>3. Forward(Forward(rdOff, n), cached') = Forward(rdOff, n + cached')
      BY ONLY <2>2, <3>2, ForwardFacts
    <3> QED
      BY <2>2, <3>1, <3>2, <3>3 DEF Forward
  <2> QED
    BY <2>4, <2>5
<1>9. Fits'
  <2> SUFFICES ASSUME OnePacket, ~ leftover PROVE Fits'
    BY <1>u DEF Fits
  <2>1. packet' # NULL
    BY <1>s, <1>x
  <2>2. pcH' # "move" /\ (pcH' = "write" => cleared')
    BY <1>b, <1>k, <1>s
  <2>3. cached' = 0 /\ InPacket' = InPacket + cached /\ InPacket \in Nat /\ 0 <= p'
    BY <1>0, <1>a, <1>b, <1>m, <1>s, <1>n, <2>1, FsSizeAssumption DEF cached, InPacket, FsTypeOK
  <2>4. InPacket + cached <= received /\ bufLen = total
    BY <1>0, <1>t, <1>s DEF Fits, Working
  <2>5. cached \in Nat
    BY <1>m
  <2> QED
    BY <1>u, <2>1, <2>2, <2>3, <2>4, <2>5 DEF Fits
<1>10. ~ wild' => Drained'
  <2> SUFFICES ASSUME ~ wild', ~ bFail' PROVE Drained'
    BY DEF Drained
  <2>1. ~ bFail /\ res >= 0 /\ ~ ReadFails(room) /\ n = ReadLen(room)
    BY <1>b, <1>n
  <2>2. ~ more => cached' = 0
    BY <1>0, <1>a, <1>m, <1>n, <2>1, FsSizeAssumption DEF cached, FsTypeOK
  <2>3. cleared' /\ "SUCCESS" \in got => ~ more
    BY <1>b
  <2>4. pcH' = "answer" => cleared' /\ "SUCCESS" \in got /\ ~ WritesOut(room', cleared')
    BY <1>0, <1>k, <1>t, <2>1 DEF Ends, Told, Finished
  <2>5. pcH' = "answer" => InPacket' = 0
    <3>1. pcH' = "answer" => ~ room - n < bufLen
      BY ONLY <1>b, <1>u, <2>4 DEF WritesOut
    <3>2. packet # NULL => p + room = bufLen
      BY <1>0 DEF Packet
    <3>3. p \in Int /\ room \in Int /\ bufLen \in Int /\ n \in Int
      BY <1>0, <1>m DEF FsTypeOK
    <3>4. packet # NULL /\ pcH' = "answer" => p + n < 0 \/ p + n = 0
      BY ONLY <3>1, <3>2, <3>3
    <3>5. (packet' = NULL <=> packet = NULL) /\ p' = p + n
      BY ONLY <1>b, <1>x
    <3> QED
      BY ONLY <3>4, <3>5 DEF InPacket
  <2> QED
    BY <1>u, <2>2, <2>3, <2>4, <2>5 DEF Drained
<1>11. ~ wild' => Carried'
  <2> SUFFICES ASSUME ~ wild', ~ bFail' PROVE Carried'
    BY DEF Carried
  <2>1. ~ bFail /\ ~ ReadFails(room) /\ n = ReadLen(room)
    BY <1>b, <1>n
  <2>2. /\ totalWriteLen = IF handle THEN Len(file) ELSE 0
        /\ Stale >= 0 /\ (~ leftover => Stale = 0)
        /\ \A i \in 1..received : Content(Stale + i) = Byte(i)
    BY <1>0, <1>t, <2>1 DEF Carried
  <2>3. /\ InPacket \in Nat /\ InPacket' = InPacket + n /\ cached \in Nat /\ n \in 0..cached
        /\ cached' = cached - n /\ totalWriteLen \in Nat /\ received \in Nat
        /\ (n > 0 => p = InPacket)
    <3>1. n \in 0..cached /\ cached \in Nat
      BY <1>m, <2>1
    <3>2. InPacket \in Nat /\ totalWriteLen \in Nat /\ received \in Nat /\ p \in Int
      BY <1>0 DEF InPacket, FsTypeOK
    <3>3. cached' = cached - n
      BY <1>0, <1>a, <1>m, <2>1, FsSizeAssumption DEF cached, FsTypeOK
    <3>4. n > 0 => packet # NULL /\ 0 <= p
      BY <1>0, <1>x, <3>1 DEF FsTypeOK
    <3>5. InPacket' = InPacket + n /\ (n > 0 => p = InPacket)
      BY <1>b, <1>x, <3>1, <3>2, <3>4 DEF InPacket
    <3> QED
      BY <3>1, <3>2, <3>3, <3>5
  <2>4. Stale' = Stale /\ Stale \in Int /\ Stale + received = totalWriteLen + InPacket + cached
    BY <1>u, <2>3 DEF Stale
  <2>5. ASSUME NEW k \in Nat \ {0}, k <= totalWriteLen + InPacket + cached
        PROVE  Content(k)' = Content(k)
    <3>1. CASE k <= totalWriteLen
      BY <1>u, <2>3, <3>1 DEF Content
    <3>2. CASE k > totalWriteLen /\ k <= totalWriteLen + InPacket
      <4>1. k - totalWriteLen \in 1..InPacket
        BY <2>3, <3>2
      <4>2. packet'[k - totalWriteLen] = packet[k - totalWriteLen]
        BY <1>x, <4>1
      <4>3. k <= totalWriteLen' + InPacket' /\ ~ k <= totalWriteLen'
        BY <1>u, <2>3, <3>2
      <4> QED
        BY <1>u, <2>3, <3>2, <4>2, <4>3 DEF Content
    <3>3. CASE k > totalWriteLen + InPacket /\ k <= totalWriteLen + InPacket + n
      <4> DEFINE j == k - totalWriteLen - InPacket
      <4>1. /\ j \in 1..n /\ k - totalWriteLen = InPacket + j /\ n > 0 /\ p = InPacket
            /\ j - 1 = k - totalWriteLen - InPacket - 1
        BY <2>3, <3>3
      <4>2. packet'[p + j] = ringMem[Forward(rdOff, j - 1)]
        BY <1>x, <4>1
      <4>3. Content(k) = ringMem[Forward(rdOff, j - 1)]
        BY <2>3, <3>3, <4>1 DEF Content
      <4>4. k <= totalWriteLen' + InPacket' /\ ~ k <= totalWriteLen'
        BY <1>u, <2>3, <3>3
      <4>5. Content(k)' = packet'[k - totalWriteLen]
        BY <1>u, <4>4 DEF Content
      <4> QED
        BY ONLY <4>1, <4>2, <4>3, <4>5
    <3>4. CASE k > totalWriteLen + InPacket + n
      <4> DEFINE j == k - totalWriteLen - InPacket
      <4>1. /\ j - 1 \in Nat /\ j - 1 < cached /\ j - 1 - n \in Nat
            /\ j - 1 = k - totalWriteLen - InPacket - 1
            /\ j - 1 - n = k - totalWriteLen - (InPacket + n) - 1
        BY <2>3, <2>5, <3>4
      <4>2. Content(k) = ringMem[Forward(rdOff, j - 1)]
        BY <2>3, <3>4, <4>1 DEF Content
      <4>3. ~ k <= totalWriteLen' + InPacket' /\ ~ k <= totalWriteLen'
        BY <1>u, <2>3, <3>4
      <4>4. Content(k)' = ringMem[Forward(rdOff', j - 1 - n)]
        BY <1>a, <1>u, <2>3, <4>1, <4>3 DEF Content, Forward
      <4>5. Forward(rdOff', j - 1 - n) = Forward(rdOff, j - 1)
        <5>1. /\ rdOff \in Offsets /\ n \in Nat /\ j - 1 - n \in Nat
              /\ n + (j - 1 - n) = j - 1 /\ n + (j - 1 - n) <= RingSize /\ n < RingSize
          BY <1>0, <1>m, <2>3, <4>1, FsSizeAssumption DEF FsTypeOK, Offsets
        <5>2. rdOff' = Forward(rdOff, n)
          BY <1>a, <2>1, <5>1
        <5> HIDE DEF j
        <5>3. Forward(Forward(rdOff, n), j - 1 - n) = Forward(rdOff, n + (j - 1 - n))
          BY ONLY <5>1, ForwardFacts
        <5> QED
          BY ONLY <5>1, <5>2, <5>3
      <4> QED
        BY ONLY <4>2, <4>4, <4>5
    <3> QED
      BY <2>3, <2>5, <3>1, <3>2, <3>3, <3>4
  <2>6. \A i \in 1..received' : Content(Stale + i)' = Byte(i)'
    <3> SUFFICES ASSUME NEW i \in 1..received, NEW k, k = Stale + i
                 PROVE  Content(k)' = Byte(i)
      BY <1>u, <2>4 DEF Byte
    <3>1. k \in Nat \ {0} /\ k <= totalWriteLen + InPacket + cached
      BY <2>2, <2>3, <2>4
    <3>2. Content(k) = Byte(i)
      BY <2>2
    <3> QED
      BY <2>5, <3>1, <3>2
  <2> QED
    BY <1>u, <2>2, <2>4, <2>6 DEF Carried
<1>12. Arranged'
  <2>1. pcS' \notin Arranging
    BY <1>0, <1>t, <1>u DEF Phase
  <2> QED
    BY <2>1 DEF Arranged, Arranging
<1> QED
  BY ONLY <1>1, <1>2, <1>3, <1>4, <1>5, <1>6, <1>7, <1>8, <1>9, <1>10, <1>11, <1>12 DEF FsInv

LEMMA NextInv == WaitsForHandler /\ FsInv /\ [Next]_vars => FsInv'
<1> SUFFICES ASSUME WaitsForHandler, FsInv, [Next]_vars PROVE FsInv'
  OBVIOUS
<1>1. CASE ~ wild /\ Announce
  BY <1>1, AnnounceInv
<1>2. CASE ~ wild /\ (Refuse \/ Allocate \/ Arrange \/ Begin)
  BY <1>2, RefuseInv, AllocateInv, ArrangeInv, BeginInv
<1>3. CASE ~ wild /\ (Ask \/ Store \/ End)
  BY <1>3, AskInv, StoreInv, EndInv
<1>4. CASE ~ wild /\ Handler
  BY <1>4, WaitInv, SkipInv, PrepareInv, MoveInv, WritePacketInv, AnswerInv, CleanInv,
     FreeRingInv, StopInv, FlushInv DEF Handler
<1>5. CASE UNCHANGED vars
  <2> USE <1>5 DEF vars, ringVars, sendVars, packetVars, handlerVars, historyVars
  <2>1. Lands' /\ SuccessMeansStored' /\ Sound'
    BY DEF FsInv, Lands, LandsInPacket, SuccessMeansStored, Sound, SoundSucceeds,
           Finished, Byte, Sent
  <2>2. FsTypeOK' /\ Phase' /\ Arranged' /\ Ends'
    BY DEF FsInv, FsTypeOK, Phase, Arranged, Ends, Told, Finished
  <2>3. (~ wild => Packet /\ Ring /\ Fits /\ Drained /\ Carried)
          => (~ wild => Packet /\ Ring /\ Fits /\ Drained /\ Carried)'
    BY DEF Packet, Ring, Fits, Drained, Carried, Working, InPacket, Stale, Content, cached,
           Forward, Byte
  <2> QED
    BY <2>1, <2>2, <2>3 DEF FsInv
<1> QED
  BY <1>1, <1>2, <1>3, <1>4, <1>5 DEF Next, Sender, Undefined

\* For a user who waits for the handler, FsInv holds in every reachable state,
\* whatever the sizes, the lengths of the files and the calls that fail.
THEOREM FsInvariant ==
  ASSUME WaitsForHandler
  PROVE  Spec => []FsInv
<1>1. Init => FsInv
  BY InitInv
<1>2. FsInv /\ [Next]_vars => FsInv'
  BY NextInv
<1> QED
  BY <1>1, <1>2, PTL DEF Spec

-----------------------------------------------------------------------------
(* What follows from it.                                                   *)

\* Every variable has its type, the ring's offsets and the unsigned room of the
\* packet among them (sReceiveDataRW, sTask_FsHandeProcesser), also while a
\* transfer is arranged or cleaned up.
THEOREM FsTypeCorrect ==
  ASSUME WaitsForHandler
  PROVE  Spec => []FsTypeOK
<1>1. FsInv => FsTypeOK
  BY DEF FsInv
<1> QED
  BY <1>1, FsInvariant, PTL

\* The memcpy calls of sReceiveDataRW stay inside the packet that
\* sTask_FsHandeProcesser allocated, unless an earlier transfer left one behind.
THEOREM FsLandsInPacket ==
  ASSUME WaitsForHandler, OnePacket, "packet" \notin Faults
  PROVE  Spec => []LandsInPacket
<1>1. FsInv => LandsInPacket
  BY DEF FsInv, Lands
<1> QED
  BY <1>1, FsInvariant, PTL

\* A transfer reported as succeeded has exactly the sent bytes in its file,
\* even when an earlier transfer left its packet behind.
THEOREM FsSuccessMeansStored ==
  ASSUME WaitsForHandler
  PROVE  Spec => []SuccessMeansStored
<1>1. FsInv => SuccessMeansStored
  BY DEF FsInv
<1> QED
  BY <1>1, FsInvariant, PTL

\* A transfer that was told to be complete succeeds, unless a call of the file
\* system failed or an earlier transfer left its packet behind.
THEOREM FsSoundSucceeds ==
  ASSUME WaitsForHandler, OnePacket
  PROVE  Spec => []SoundSucceeds
<1>1. FsInv => SoundSucceeds
  BY DEF FsInv, Sound
<1> QED
  BY <1>1, FsInvariant, PTL

\* A sequence of the length of a concatenation is that concatenation when the
\* parts agree with it.
LEMMA Concatenation ==
  ASSUME NEW S, NEW a \in Seq(S), NEW b \in Seq(S), NEW c \in Seq(S), NEW s \in Seq(S),
         Len(s) = Len(a) + Len(b) + Len(c),
         \A k \in 1..Len(a) : a[k] = s[k],
         \A k \in 1..Len(b) : b[k] = s[Len(a) + k],
         \A k \in 1..Len(c) : c[k] = s[Len(a) + Len(b) + k]
  PROVE  a \o b \o c = s
<1> DEFINE t == a \o b \o c
<1>1. t \in Seq(S) /\ Len(t) = Len(s)
  OBVIOUS
<1>2. ASSUME NEW k \in 1..Len(s) PROVE t[k] = s[k]
  <2>1. CASE k <= Len(a)
    BY <2>1
  <2>2. CASE k > Len(a) /\ k <= Len(a) + Len(b)
    <3>1. k - Len(a) \in 1..Len(b) /\ Len(a) + (k - Len(a)) = k
      BY <2>2
    <3>2. t[k] = b[k - Len(a)]
      BY <2>2
    <3> QED
      BY ONLY <3>1, <3>2, \A j \in 1..Len(b) : b[j] = s[Len(a) + j]
  <2>3. CASE k > Len(a) + Len(b)
    <3>1. /\ k - (Len(a) + Len(b)) \in 1..Len(c)
          /\ Len(a) + Len(b) + (k - (Len(a) + Len(b))) = k
      BY <2>3
    <3>2. t[k] = c[k - (Len(a) + Len(b))]
      BY <2>3
    <3> QED
      BY ONLY <3>1, <3>2, \A j \in 1..Len(c) : c[j] = s[Len(a) + Len(b) + j]
  <2> QED
    BY <2>1, <2>2, <2>3
<1> HIDE DEF t
<1>3. t = s
  BY <1>1, <1>2
<1> QED
  BY <1>3 DEF t

\* Without a left-over packet, what the handler and the ring hold of a transfer
\* are the bytes received so far, in order.
LEMMA InOrderFromInv == FsInv => InOrder
<1> SUFFICES ASSUME FsInv, owed = 1, ~ bFail, ~ leftover, ~ faulted, ~ wild
             PROVE  (IF handle THEN file ELSE <<>>)
                      \o SubSeq(packet, 1, IF packet = NULL THEN 0 ELSE p)
                      \o RingBytes(rdOff, cached)
                    = Sent(received)
  BY DEF InOrder
<1> DEFINE a == IF handle THEN file ELSE <<>>
           q == IF packet = NULL THEN 0 ELSE p
           b == SubSeq(packet, 1, q)
           c == RingBytes(rdOff, cached)
           s == Sent(received)
<1>1. FsTypeOK /\ Packet /\ Carried
  BY DEF FsInv
<1>2. /\ file \in Seq(TheBytes) /\ packet \in Seq(TheBytes) /\ p \in Int /\ room \in Nat
      /\ bufLen \in Nat /\ received \in Nat /\ totalWriteLen \in Nat /\ xfer \in {0, 1}
      /\ cached \in 0..RingSize /\ rdOff \in Offsets /\ ringMem \in [Offsets -> TheBytes]
  BY <1>1, FsSizeAssumption DEF FsTypeOK, Offsets, cached
<1>3. a \in Seq(TheBytes) /\ Len(a) = totalWriteLen
  BY <1>1, <1>2, ByteFacts DEF Carried
<1>4. q \in 0..Len(packet) /\ q = InPacket
  <2>1. CASE packet = NULL
    BY <1>2, <2>1 DEF InPacket
  <2>2. CASE packet # NULL
    <3>1. 0 <= p /\ Len(packet) = bufLen /\ p + room = bufLen
      BY <1>1, <2>2 DEF Packet
    <3> QED
      BY <1>2, <2>2, <3>1 DEF InPacket
  <2> QED
    BY <2>1, <2>2
<1> HIDE DEF q
<1>5. b \in Seq(TheBytes) /\ Len(b) = q /\ \A k \in 1..q : b[k] = packet[k]
  BY <1>2, <1>4
<1>6. /\ c \in Seq(TheBytes) /\ Len(c) = cached
      /\ \A k \in 1..cached : c[k] = ringMem[Forward(rdOff, k - 1)]
  <2>1. \A k \in 1..cached : Forward(rdOff, k - 1) \in Offsets
    <3> SUFFICES ASSUME NEW k \in 1..cached PROVE Forward(rdOff, k - 1) \in Offsets
      OBVIOUS
    <3>1. k - 1 \in 0..RingSize
      BY <1>2, FsSizeAssumption
    <3> QED
      BY ONLY <1>2, <3>1, ForwardFacts
  <2>2. c = [k \in 1..cached |-> ringMem[Forward(rdOff, k - 1)]]
    BY DEF RingBytes
  <2>3. \A k \in 1..cached : ringMem[Forward(rdOff, k - 1)] \in TheBytes
    BY ONLY <1>2, <2>1
  <2>4. cached \in Nat
    BY ONLY <1>2, FsSizeAssumption
  <2> QED
    BY ONLY <2>2, <2>3, <2>4
<1>7. /\ s \in Seq(TheBytes) /\ Len(s) = received
      /\ \A i \in 1..received : s[i] = Byte(i)
  <2>1. \A i \in 1..received : Byte(i) \in TheBytes
    BY <1>2 DEF Byte, TheBytes
  <2> QED
    BY <1>2, <2>1 DEF Sent
<1> HIDE DEF a, b, c, s
<1>8. totalWriteLen + q + cached = received
  BY <1>1, <1>2, <1>4 DEF Carried, Stale
<1>9. ASSUME NEW i \in 1..received PROVE s[i] = Content(i)
  <2>1. Stale = 0
    BY <1>1 DEF Carried
  <2>2. Content(Stale + i) = Byte(i)
    BY <1>1 DEF Carried
  <2>3. 0 + i = i
    OBVIOUS
  <2> QED
    BY ONLY <1>7, <2>1, <2>2, <2>3, i \in 1..received
<1>10. Len(s) = Len(a) + Len(b) + Len(c)
  BY <1>2, <1>3, <1>5, <1>6, <1>7, <1>8
<1>11. ASSUME NEW k \in 1..Len(a) PROVE a[k] = s[k]
  <2>1. k \in 1..received /\ k <= totalWriteLen /\ Len(a) # 0
    BY <1>2, <1>3, <1>4, <1>8
  <2>2. handle
    BY <1>1, <1>3, <2>1 DEF Carried
  <2> QED
    BY <1>9, <2>1, <2>2 DEF Content, a
<1>12. ASSUME NEW k \in 1..Len(b) PROVE b[k] = s[Len(a) + k]
  <2>1. /\ totalWriteLen + k \in 1..received /\ ~ totalWriteLen + k <= totalWriteLen
        /\ totalWriteLen + k <= totalWriteLen + InPacket /\ (totalWriteLen + k) - totalWriteLen = k
        /\ k \in 1..q
    BY <1>2, <1>4, <1>5, <1>8
  <2>2. Content(totalWriteLen + k) = packet[k]
    BY ONLY <2>1 DEF Content
  <2>3. s[totalWriteLen + k] = Content(totalWriteLen + k)
    BY ONLY <1>9, <2>1
  <2>4. b[k] = packet[k] /\ Len(a) + k = totalWriteLen + k
    BY ONLY <1>3, <1>5, <2>1
  <2> QED
    BY ONLY <2>2, <2>3, <2>4
<1>13. ASSUME NEW k \in 1..Len(c) PROVE c[k] = s[Len(a) + Len(b) + k]
  <2> DEFINE m == totalWriteLen + InPacket + k
  <2>1. /\ m \in 1..received /\ ~ m <= totalWriteLen /\ ~ m <= totalWriteLen + InPacket
        /\ m - totalWriteLen - InPacket - 1 = k - 1 /\ k \in 1..cached
        /\ Len(a) + Len(b) + k = m
    BY <1>2, <1>3, <1>4, <1>5, <1>6, <1>8
  <2> HIDE DEF m
  <2>2. Content(m) = ringMem[Forward(rdOff, k - 1)]
    BY ONLY <2>1 DEF Content
  <2> QED
    BY ONLY <1>6, <1>9, <2>1, <2>2
<1>14. a \in Seq(TheBytes) /\ b \in Seq(TheBytes) /\ c \in Seq(TheBytes) /\ s \in Seq(TheBytes)
  BY ONLY <1>3, <1>5, <1>6, <1>7
<1>15. a \o b \o c = s
  BY ONLY <1>10, <1>11, <1>12, <1>13, <1>14, Concatenation
<1> QED
  BY <1>15 DEF a, b, c, s, q

\* Nothing of a transfer is lost, doubled or reordered on its way from the UI
\* task through ring and packet into the file.
THEOREM FsInOrder ==
  ASSUME WaitsForHandler
  PROVE  Spec => []InOrder
BY InOrderFromInv, FsInvariant, PTL
=============================================================================
