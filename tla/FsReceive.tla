----------------------------- MODULE FsReceive -----------------------------
(***************************************************************************)
(* Receiving a file over the UART: the RXFILE case of FsDemo,              *)
(* sRecvProcesser, sReceiveDataRW and sTask_FsHandeProcesser               *)
(* (src/sc_demo/V1/src/demo_file_system.c).  The UI task reads the bytes   *)
(* in pieces and puts them into a ring; the handler task moves them        *)
(* through a packet buffer into a file and says whether it worked.         *)
(* sReceiveDataRW holds a mutex from end to end and is one step; the other *)
(* variables of the file are shared without a lock, so that arranging a    *)
(* transfer and cleaning up after it are one step for each statement.      *)
(***************************************************************************)
EXTENDS Integers, Sequences

CONSTANTS RingSize,        \* RECV_DATA_BUFFER_SIZE
          PacketSize,      \* READ_FILE_PACKET_SIZE
          RecvLen,         \* RECV_LEN
          SyncMark,        \* the 1024 of sReceiveDataRW
          Totals,          \* the lengths the user announces
          Faults,          \* what may fail: fopen, fwrite, the malloc of ring or packet
          WaitsForHandler  \* the user waits until the handler has answered and cleaned up

ASSUME FsSizeAssumption ==
  /\ RingSize \in Nat \ {0} /\ PacketSize \in Nat \ {0} /\ RecvLen \in Nat \ {0}
  /\ SyncMark \in Nat
  /\ Totals \subseteq Nat

ASSUME FsFaultAssumption ==
  /\ Faults \subseteq {"open", "write", "ring", "packet"}
  /\ WaitsForHandler \in BOOLEAN

VARIABLES
  total,        \* gfile_len_total
  transmitting, \* gbFileTransmitting
  bFail,
  ringOk,       \* pRXDataBuffer # NULL
  ringMem,      \* its bytes
  rdOff, wrOff, \* pDataR and pDataW, as offsets
  free,         \* rxDataFreeSize
  valid,        \* which of pRXDataBuffer, pDataR, pDataW point into the allocated ring
  flags,        \* the event flag gReceiveDataPreparedFlagRef
  pcS,          \* where the UI task is in sRecvProcesser
  received,     \* receivedLength
  datalen,
  pcH,          \* where the handler task is
  got,          \* the flags its wait returned
  handle,       \* handle # NULL
  file,         \* the bytes of the file
  packet,       \* dataBuffer: NULL, or its bytes
  bufLen, room, \* bufferLength and bufferLengthFree
  p,            \* the write position, as an offset into the packet
  totalWriteLen,
  cleared,      \* bSuccessAndCleared
  xfer,         \* history: which transfer the bytes belong to
  owed,         \* history: transfers begun and not answered
  answer,       \* history: the last answer the user saw
  leftover,     \* history: a packet was left over when the transfer began
  faulted,      \* history: a call of the file system has failed since
  wild          \* history: memory outside the packet or the ring was used

ringVars    == <<ringOk, ringMem, rdOff, wrOff, free, valid>>
sendVars    == <<pcS, received, datalen>>
packetVars  == <<packet, bufLen, room, p>>
handlerVars == <<pcH, got, handle, file, packetVars, totalWriteLen, cleared>>
historyVars == <<xfer, owed, answer, leftover, faulted, wild>>
vars == <<total, transmitting, bFail, ringVars, flags, sendVars, handlerVars, historyVars>>

NULL    == <<>>
MinOf(a, b) == IF a < b THEN a ELSE b
Byte(i) == <<xfer, i>>
ZeroByte == <<0, 0>>
Blank(n) == [k \in 1..n |-> ZeroByte]
Sent(n) == [i \in 1..n |-> Byte(i)]

cached == RingSize - free

\* Where the UI task is while it arranges a transfer, and the handler while it
\* cleans up: each place is named for what its statement sets.
Arranging == {"alloc", "pDataR", "pDataW", "rxDataFreeSize", "gbFileTransmitting", "bFail"}
Cleaning  == {"clean", "free", "pRXDataBuffer", "pDataR", "pDataW", "rxDataFreeSize",
              "gbFileTransmitting", "flush"}
-----------------------------------------------------------------------------
(* Mutants: plausible bugs, which the properties must notice.              *)

\* The wrap-around test is off by one.
MutForward(off, n) == IF off + n > RingSize THEN off + n - RingSize ELSE off + n

\* A piece is stored without a look at the free space.
MutRingWrites(bytes) == ringOk

\* The write position is not set to the new packet.
MutPrepare ==
  /\ pcH = "test"
  /\ transmitting /\ ~ bFail
  /\ handle' = TRUE
  /\ file' = IF ~ handle THEN <<>> ELSE file
  /\ IF packet = NULL
     THEN /\ bufLen' = MinOf(total, PacketSize)
          /\ packet' = Blank(bufLen')
          /\ room' = bufLen'
     ELSE UNCHANGED <<packet, bufLen, room>>
  /\ pcH' = "move"
  /\ UNCHANGED <<total, transmitting, bFail, ringVars, flags, sendVars, got, p,
                 totalWriteLen, cleared, historyVars>>

\* The count is not compared with what was announced.
MutAnswer ==
  /\ pcH = "answer"
  /\ file' = IF bFail /\ handle THEN <<>> ELSE file
  /\ handle' = FALSE
  /\ answer' = IF bFail THEN "fail" ELSE "succ"
  /\ owed' = owed - 1
  /\ pcH' = "clean"
  /\ UNCHANGED <<total, transmitting, bFail, ringVars, flags, sendVars, got, packetVars,
                 totalWriteLen, cleared, xfer, leftover, faulted, wild>>

\* The count of the last transfer is kept.
MutClean ==
  /\ pcH = "clean" /\ pcH' = "free"
  /\ total' = 0
  /\ UNCHANGED <<transmitting, bFail, ringVars, flags, sendVars, got, handle, file,
                 packetVars, totalWriteLen, cleared, historyVars>>

\* The handler is told of a success only.
MutEnd ==
  /\ pcS = "end"
  /\ IF received >= total
     THEN /\ pcS' = "idle"
          /\ flags' = IF bFail THEN flags ELSE flags \cup {"SUCCESS"}
     ELSE pcS' = "ask" /\ UNCHANGED flags
  /\ UNCHANGED <<total, transmitting, bFail, ringVars, received, datalen, handlerVars,
                 historyVars>>

-----------------------------------------------------------------------------
(* sReceiveDataRW.                                                         *)

\* The ring offset after n more bytes.
Forward(off, n) == IF off + n >= RingSize THEN off + n - RingSize ELSE off + n

\* More than SyncMark bytes are cached: the handler is told.
Sync(free1) == IF RingSize - free1 > SyncMark THEN {"SYNC"} ELSE {}

\* The n bytes of the ring from offset off on.
RingBytes(off, n) == [k \in 1..n |-> ringMem[Forward(off, k - 1)]]

\* SC_DATA_WRITE.  Bytes that do not all fit are refused as a whole.
RingWrites(bytes) ==
  /\ ringOk
  /\ free >= Len(bytes)

WriteStrays == ~ {"ring", "W"} \subseteq valid

RingWrite(bytes) ==
  /\ ringMem' = [o \in 0..(RingSize - 1) |->
                   LET k == IF o >= wrOff THEN o - wrOff + 1 ELSE o + RingSize - wrOff + 1
                   IN  IF k <= Len(bytes) THEN bytes[k] ELSE ringMem[o]]
  /\ wrOff' = Forward(wrOff, Len(bytes))
  /\ free' = free - Len(bytes)
  /\ flags' = flags \cup Sync(free - Len(bytes))
  /\ UNCHANGED <<ringOk, rdOff, valid>>

\* SC_DATA_READ of len bytes: how many are taken out...
ReadLen(len) == MinOf(len, cached)

\* ...whether the read is one of the cases the code knows...
ReadFails(len) ==
  \/ ~ ringOk \/ len <= 0
  \/ rdOff = wrOff /\ ReadLen(len) \notin {0, RingSize}

\* ...whether it asks for less than the tail of the ring while the data wraps:
\* the tail is copied whole, and what is then left to copy is negative...
ReadOverruns(len) == rdOff > wrOff /\ ReadLen(len) < RingSize - rdOff

\* ...whether it uses a pointer that is not into the ring...
ReadStrays(len) == ringOk /\ len > 0 /\ valid # {"ring", "R", "W"}

\* ...and the value returned: one more when bytes are left in the ring.
ReadResult(len) ==
  IF ReadFails(len) THEN -1
  ELSE IF free + ReadLen(len) < RingSize
       THEN ReadLen(len) + 1 ELSE ReadLen(len)

\* What a read does to the ring.  The free size grows before the cases are
\* told apart; a whole-ring read leaves the read position where it is.
RingRead(len) ==
  IF ~ ringOk \/ len <= 0
  THEN UNCHANGED <<ringVars, flags>>
  ELSE /\ free' = free + ReadLen(len)
       /\ rdOff' = IF ReadFails(len) \/ ReadLen(len) = RingSize THEN rdOff
                   ELSE Forward(rdOff, ReadLen(len))
       /\ flags' = flags \cup Sync(free + ReadLen(len))
       /\ UNCHANGED <<ringOk, ringMem, wrOff, valid>>

-----------------------------------------------------------------------------
(* The UI task: FsDemo, case SC_FS_DEMO_RXFILE, and sRecvProcesser.        *)

\* A user who waits for the handler begins once the last transfer was answered
\* (428, 439) and cleaned up (441-456); nothing in the code makes him wait.
MayBegin == WaitsForHandler => pcH = "wait" /\ owed = 0

\* The length is read into the variable that the handler compares with.
Announce ==
  /\ pcS = "idle" /\ MayBegin
  /\ total' \in Totals
  /\ pcS' = "alloc"
  /\ UNCHANGED <<transmitting, bFail, ringVars, flags, received, datalen, handlerVars,
                 historyVars>>

\* The length is not acceptable, or there is no memory for the ring.
Refuse ==
  /\ pcS = "alloc" /\ pcS' = "idle"
  /\ \/ UNCHANGED <<ringOk, valid>>
     \/ /\ total > 0 /\ "ring" \in Faults
        /\ ringOk' = FALSE /\ valid' = valid \ {"ring"}
  /\ UNCHANGED <<total, transmitting, bFail, ringMem, rdOff, wrOff, free, flags,
                 received, datalen, handlerVars, historyVars>>

\* At most two transfers await an answer (a bound; a third is refused).
Allocate ==
  /\ pcS = "alloc" /\ pcS' = "pDataR"
  /\ total > 0 /\ owed < 2
  /\ ringOk' = TRUE /\ valid' = {"ring"}
  /\ ringMem' = [o \in 0..(RingSize - 1) |-> ZeroByte]
  /\ UNCHANGED <<total, transmitting, bFail, rdOff, wrOff, free, flags, received, datalen,
                 handlerVars, historyVars>>

\* A pointer set to pRXDataBuffer is as good as that one is.
Aimed(ptr) == IF "ring" \in valid THEN valid \cup {ptr} ELSE valid \ {ptr}

\* The ring is made empty, and the handler told that there is a transfer.
Arrange ==
  /\ \/ /\ pcS = "pDataR" /\ pcS' = "pDataW"
        /\ rdOff' = 0 /\ valid' = Aimed("R")
        /\ UNCHANGED <<wrOff, free, transmitting>>
     \/ /\ pcS = "pDataW" /\ pcS' = "rxDataFreeSize"
        /\ wrOff' = 0 /\ valid' = Aimed("W")
        /\ UNCHANGED <<rdOff, free, transmitting>>
     \/ /\ pcS = "rxDataFreeSize" /\ pcS' = "gbFileTransmitting"
        /\ free' = RingSize
        /\ UNCHANGED <<rdOff, wrOff, valid, transmitting>>
     \/ /\ pcS = "gbFileTransmitting" /\ pcS' = "bFail"
        /\ transmitting' = TRUE
        /\ UNCHANGED <<rdOff, wrOff, free, valid>>
  /\ UNCHANGED <<total, bFail, ringOk, ringMem, flags, received, datalen, handlerVars,
                 historyVars>>

\* The last statement before the bytes are read: the transfer has begun.
Begin ==
  /\ pcS = "bFail" /\ pcS' = "ask"
  /\ bFail' = FALSE
  /\ received' = 0 /\ datalen' = 0
  /\ xfer' = 1 - xfer /\ owed' = owed + 1 /\ answer' = "none"
  /\ leftover' = (packet # NULL) /\ faulted' = FALSE
  /\ UNCHANGED <<total, transmitting, ringVars, flags, handlerVars, wild>>

\* The next piece's length.  The subtraction is unsigned: with a total that
\* shrank below what was received it is a large number.
Ask ==
  /\ pcS = "ask"
  /\ datalen' = IF received <= total THEN MinOf(RecvLen, total - received) ELSE RecvLen
  /\ pcS' = IF datalen' > 0 THEN "store" ELSE "idle"
  /\ UNCHANGED <<total, transmitting, bFail, ringVars, flags, received,
                 handlerVars, historyVars>>

\* UartRead waited for the piece; unless the transfer failed already it goes
\* into the ring.  A piece that does not fit fails the transfer, and still
\* tells the handler of the bytes that are cached.
Store ==
  /\ pcS = "store"
  /\ received' = received + datalen
  /\ pcS' = "end"
  /\ LET piece == [k \in 1..datalen |-> Byte(received + k)]
     IN  IF ~ bFail /\ RingWrites(piece)
         THEN /\ RingWrite(piece)
              /\ bFail' = (received' > total)
              /\ wild' = (wild \/ WriteStrays)
         ELSE /\ bFail' = TRUE
              /\ flags' = IF bFail \/ ~ ringOk THEN flags ELSE flags \cup Sync(free)
              /\ UNCHANGED <<ringVars, wild>>
  /\ UNCHANGED <<total, transmitting, datalen, handlerVars, xfer, owed, answer, leftover,
                 faulted>>

\* Everything arrived: the handler is told how the transfer went.
End ==
  /\ pcS = "end"
  /\ IF received >= total
     THEN /\ pcS' = "idle"
          /\ bFail' = (bFail \/ received > total)
          /\ flags' = flags \cup {IF bFail' THEN "FAIL" ELSE "SUCCESS"}
     ELSE pcS' = "ask" /\ UNCHANGED <<bFail, flags>>
  /\ UNCHANGED <<total, transmitting, ringVars, received, datalen, handlerVars,
                 historyVars>>

-----------------------------------------------------------------------------
(* The handler task: sTask_FsHandeProcesser.                               *)

Finished == got \cap {"SUCCESS", "FAIL"} # {}

\* The wait returns whatever flags are set, and clears them.
Wait ==
  /\ pcH = "wait"
  /\ flags # {}
  /\ got' = flags /\ flags' = {}
  /\ pcH' = "test"
  /\ UNCHANGED <<total, transmitting, bFail, ringVars, sendVars, handle, file,
                 packetVars, totalWriteLen, cleared, historyVars>>

\* No transfer, or a failed one: nothing to move.
Skip ==
  /\ pcH = "test"
  /\ ~ transmitting \/ bFail
  /\ pcH' = IF transmitting /\ Finished THEN "answer" ELSE "wait"
  /\ UNCHANGED <<total, transmitting, bFail, ringVars, flags, sendVars, got, handle,
                 file, packetVars, totalWriteLen, cleared, historyVars>>

\* The file is opened and the packet allocated, if they are not there yet.
\* A failed open does not stop the pass; a failed malloc is followed by a
\* memset of NULL.
Prepare ==
  /\ pcH = "test"
  /\ transmitting /\ ~ bFail
  /\ \E opened \in {handle, TRUE} :
       /\ handle' = opened
       /\ file' = IF ~ handle /\ opened THEN <<>> ELSE file
       /\ bFail' = ~ opened
       /\ ~ opened => "open" \in Faults
       /\ faulted' = (faulted \/ ~ opened)
  /\ IF packet = NULL
     THEN /\ bufLen' = MinOf(total, PacketSize)
          /\ packet' = Blank(bufLen')
          /\ room' = bufLen' /\ p' = 0
          /\ wild' \in {wild, wild \/ "packet" \in Faults}
     ELSE UNCHANGED <<packetVars, wild>>
  /\ pcH' = "move"
  /\ UNCHANGED <<total, transmitting, ringVars, flags, sendVars, got, totalWriteLen,
                 cleared, xfer, owed, answer, leftover>>

\* Whether the pass writes the packet out, given what room and cleared are.
WritesOut(room1, cleared1) ==
  \/ room1 = 0
  \/ "SUCCESS" \in got /\ cleared1 /\ room1 < bufLen
  \/ "FAIL" \in got /\ room1 < bufLen

\* Where a pass goes on.
AfterPass(cleared1) == IF ~ cleared1 THEN "move" ELSE IF Finished THEN "answer" ELSE "wait"

\* Bytes are moved from the ring to the packet.  A result above the room says
\* that the ring holds more; after SUCCESS the pass is then repeated.
Move ==
  /\ pcH = "move"
  /\ LET res  == ReadResult(room)
         more == res > room
         n    == IF more THEN res - 1 ELSE res
     IN  /\ RingRead(room)
         /\ bFail' = (bFail \/ res < 0)
         /\ cleared' = ~ (more /\ "SUCCESS" \in got)
         /\ p' = p + n
         /\ room' = room - n
         /\ IF \/ n > 0 /\ (packet = NULL \/ p < 0 \/ p + n > Len(packet) \/ ReadOverruns(room))
               \/ ReadStrays(room)
            THEN wild' = TRUE /\ UNCHANGED packet
            ELSE /\ packet' = [k \in 1..Len(packet) |->
                                 IF k > p /\ k <= p + n
                                 THEN RingBytes(rdOff, n)[k - p] ELSE packet[k]]
                 /\ UNCHANGED wild
         /\ pcH' = IF res >= 0 /\ WritesOut(room', cleared') THEN "write"
                   ELSE AfterPass(cleared')
  /\ UNCHANGED <<total, transmitting, sendVars, got, handle, file, bufLen,
                 totalWriteLen, xfer, owed, answer, leftover, faulted>>

\* The packet is written and freed.  A short write (or no file to write to)
\* fails the transfer.
WritePacket ==
  /\ pcH = "write"
  /\ \E n \in 0..(bufLen - room) :
       /\ n < bufLen - room => ~ handle \/ "write" \in Faults
       /\ file' = IF handle THEN file \o SubSeq(packet, 1, n) ELSE file
       /\ bFail' = (bFail \/ n # bufLen - room)
       /\ faulted' = (faulted \/ n # bufLen - room)
       /\ totalWriteLen' = totalWriteLen + n
  /\ packet' = NULL
  /\ room' = bufLen
  /\ pcH' = AfterPass(cleared)
  /\ UNCHANGED <<total, transmitting, ringVars, flags, sendVars, got, handle, bufLen,
                 p, cleared, xfer, owed, answer, leftover, wild>>

\* The count is checked and the user told; a failed file is removed.
Answer ==
  /\ pcH = "answer"
  /\ bFail' = (bFail \/ totalWriteLen # total)
  /\ file' = IF bFail' /\ handle THEN <<>> ELSE file
  /\ handle' = FALSE
  /\ answer' = IF bFail' THEN "fail" ELSE "succ"
  /\ owed' = owed - 1
  /\ pcH' = "clean"
  /\ UNCHANGED <<total, transmitting, ringVars, flags, sendVars, got, packetVars,
                 totalWriteLen, cleared, xfer, leftover, faulted, wild>>

\* The clean-up: the length and the count are reset,...
Clean ==
  /\ pcH = "clean" /\ pcH' = "free"
  /\ total' = 0 /\ totalWriteLen' = 0
  /\ UNCHANGED <<transmitting, bFail, ringVars, flags, sendVars, got, handle, file,
                 packetVars, cleared, historyVars>>

\* ...the ring is freed and its pointers and free size are reset,...
FreeRing ==
  /\ \/ /\ pcH = "free" /\ pcH' = "pRXDataBuffer"
        /\ valid' = {}
        /\ UNCHANGED <<ringOk, rdOff, wrOff, free>>
     \/ /\ pcH = "pRXDataBuffer" /\ pcH' = "pDataR"
        /\ ringOk' = FALSE /\ valid' = valid \ {"ring"}
        /\ UNCHANGED <<rdOff, wrOff, free>>
     \/ /\ pcH = "pDataR" /\ pcH' = "pDataW"
        /\ rdOff' = 0 /\ valid' = valid \ {"R"}
        /\ UNCHANGED <<ringOk, wrOff, free>>
     \/ /\ pcH = "pDataW" /\ pcH' = "rxDataFreeSize"
        /\ wrOff' = 0 /\ valid' = valid \ {"W"}
        /\ UNCHANGED <<ringOk, rdOff, free>>
     \/ /\ pcH = "rxDataFreeSize" /\ pcH' = "gbFileTransmitting"
        /\ free' = 0
        /\ UNCHANGED <<ringOk, rdOff, wrOff, valid>>
  /\ UNCHANGED <<total, transmitting, bFail, ringMem, flags, sendVars, got, handle, file,
                 packetVars, totalWriteLen, cleared, historyVars>>

\* ...there is no transfer any more,...
Stop ==
  /\ pcH = "gbFileTransmitting" /\ pcH' = "flush"
  /\ transmitting' = FALSE
  /\ UNCHANGED <<total, bFail, ringVars, flags, sendVars, got, handle, file, packetVars,
                 totalWriteLen, cleared, historyVars>>

\* ...and the flags are cleared.
Flush ==
  /\ pcH = "flush" /\ pcH' = "wait"
  /\ got' = flags /\ flags' = {}
  /\ UNCHANGED <<total, transmitting, bFail, ringVars, sendVars, handle, file, packetVars,
                 totalWriteLen, cleared, historyVars>>

-----------------------------------------------------------------------------
Init ==
  /\ total = 0 /\ transmitting = FALSE /\ bFail = FALSE
  /\ ringOk = FALSE /\ ringMem = [o \in 0..(RingSize - 1) |-> ZeroByte]
  /\ rdOff = 0 /\ wrOff = 0 /\ free = 0 /\ valid = {}
  /\ flags = {}
  /\ pcS = "idle" /\ received = 0 /\ datalen = 0
  /\ pcH = "wait" /\ got = {} /\ handle = FALSE /\ file = <<>>
  /\ packet = NULL /\ bufLen = 0 /\ room = 0 /\ p = 0
  /\ totalWriteLen = 0 /\ cleared = TRUE
  /\ xfer = 0 /\ owed = 0 /\ answer = "none" /\ leftover = FALSE /\ faulted = FALSE /\ wild = FALSE

Sender  == Refuse \/ Allocate \/ Arrange \/ Begin \/ Ask \/ Store \/ End
Handler == Wait \/ Skip \/ Prepare \/ Move \/ WritePacket \/ Answer
           \/ Clean \/ FreeRing \/ Stop \/ Flush

\* Once memory outside packet and ring was used nothing more is said.
Undefined == wild /\ UNCHANGED vars

Next == (~ wild /\ (Announce \/ Sender \/ Handler)) \/ Undefined

Spec == Init /\ [][Next]_vars

\* Both tasks are scheduled, and the user sends the bytes he announced.
FairSpec == Spec /\ WF_vars(~ wild /\ Sender) /\ WF_vars(~ wild /\ Handler)

-----------------------------------------------------------------------------
(* Properties.                                                             *)

FlagSets == SUBSET {"SYNC", "SUCCESS", "FAIL"}
TheBytes == {0, 1} \X Nat

\* Every variable has its type; in particular the two ring offsets stay inside
\* the ring, and the unsigned room of the packet never goes below 0.
FsTypeOK ==
  /\ total \in Nat /\ transmitting \in BOOLEAN /\ bFail \in BOOLEAN
  /\ ringOk \in BOOLEAN /\ ringMem \in [0..(RingSize - 1) -> TheBytes]
  /\ rdOff \in 0..(RingSize - 1) /\ wrOff \in 0..(RingSize - 1)
  /\ free \in 0..RingSize /\ valid \in SUBSET {"ring", "R", "W"}
  /\ flags \in FlagSets /\ got \in FlagSets
  /\ pcS \in Arranging \cup {"idle", "ask", "store", "end"}
  /\ received \in Nat /\ datalen \in Nat
  /\ pcH \in Cleaning \cup {"wait", "test", "move", "write", "answer"}
  /\ handle \in BOOLEAN /\ file \in Seq(TheBytes) /\ packet \in Seq(TheBytes)
  /\ bufLen \in Nat /\ room \in Nat /\ p \in Int
  /\ totalWriteLen \in Nat /\ cleared \in BOOLEAN
  /\ xfer \in {0, 1} /\ owed \in 0..2 /\ answer \in {"none", "succ", "fail"}
  /\ leftover \in BOOLEAN /\ faulted \in BOOLEAN /\ wild \in BOOLEAN

\* Every byte moved out of the ring lands in a packet buffer that is allocated
\* and has room for it (the memcpy calls of sReceiveDataRW, lines 139-153,
\* trust their caller's p and length), unless an earlier transfer left its
\* packet behind.
LandsInPacket == ~ leftover => ~ wild

\* While a transfer is under way, the bytes in the file, in the packet and in
\* the ring are together exactly the bytes received so far, in order: nothing
\* is lost, doubled or reordered by the two tasks, whatever the wrap-around and
\* however many packets the file takes.
InOrder ==
  owed = 1 /\ ~ bFail /\ ~ leftover /\ ~ faulted /\ ~ wild =>
    (IF handle THEN file ELSE <<>>)
      \o SubSeq(packet, 1, IF packet = NULL THEN 0 ELSE p) \o RingBytes(rdOff, cached)
    = Sent(received)

\* "transfer file succ" (line 439) means that the file has exactly the bytes
\* announced and sent, whatever transfers and failures came before.
SuccessMeansStored ==
  pcH = "clean" /\ answer = "succ" => received = total /\ file = Sent(received)

\* A transfer all of whose bytes fitted into the ring succeeds, unless a call
\* to the file system failed or an earlier transfer left its packet behind.
SoundSucceeds ==
  pcH = "clean" /\ "SUCCESS" \in got /\ ~ leftover /\ ~ faulted => answer = "succ"

\* Every transfer whose bytes have all been sent is answered: the flags that
\* carry its end are not cleared unseen, and the handler does not get stuck.
EveryTransferAnswered == (owed > 0 /\ pcS = "idle") ~> (owed = 0 \/ wild)

\* The reception implements FileTransfer.  A transfer is sound while no step of
\* it has failed, its bytes stayed inside the packet, and no earlier transfer
\* left a packet behind.
Owing == owed = 1
SoundSoFar == Owing /\ ~ bFail /\ ~ leftover /\ ~ wild

Transfer == INSTANCE FileTransfer WITH
  Lengths <- Totals,
  busy <- Owing, id <- xfer, len <- IF Owing THEN total ELSE 0,
  sent <- IF Owing THEN received ELSE 0,
  sound <- SoundSoFar, opened <- handle, stored <- file

\* What the user and the file see, with the UI task and the handler task taking
\* turns in any order (sRecvProcesser, sTask_FsHandeProcesser), are the steps of
\* FileTransfer.
TransferSpec == Transfer!Spec
-----------------------------------------------------------------------------
(* The inductive invariant, for a user who waits for the handler, proved   *)
(* in FsReceiveProofs.  A transfer is under way while its answer is owed.  *)
(* What holds of files of one packet only says so.                         *)

OnePacket == Totals \subseteq 0..PacketSize

\* Where the two tasks can be: while a transfer is under way the sender has more
\* to send until everything was received; else the handler cleans up, or it waits
\* with nothing told and the next transfer may be arranged.
Phase ==
  /\ owed \in {0, 1}
  /\ IF owed = 1
     THEN /\ transmitting /\ ringOk /\ valid = {"ring", "R", "W"}
          /\ pcS \notin Arranging /\ pcH \notin Cleaning
          /\ 0 < total /\ total \in Totals /\ received <= total
          /\ pcS = "ask" => received < total
          /\ pcS = "store" => 0 < datalen /\ received + datalen <= total
          /\ pcS = "idle" => received = total
     ELSE /\ ~ handle
          /\ pcH # "clean" => totalWriteLen = 0
          /\ \/ pcH \in Cleaning /\ pcS = "idle"
             \/ pcH = "wait" /\ flags = {} /\ pcS \in Arranging \cup {"idle"}

\* What has been arranged so far.
Arranged ==
  /\ pcS \in Arranging => total \in Totals
  /\ pcS \in Arranging \ {"alloc"} => 0 < total /\ ringOk /\ "ring" \in valid
  /\ pcS \in Arranging \ {"alloc", "pDataR"} => rdOff = 0 /\ "R" \in valid
  /\ pcS \in {"rxDataFreeSize", "gbFileTransmitting", "bFail"} => wrOff = 0 /\ "W" \in valid
  /\ pcS \in {"gbFileTransmitting", "bFail"} => free = RingSize
  /\ pcS = "bFail" => transmitting

\* The flags the handler has not yet acted upon.
Told == flags \cup (IF pcH = "wait" THEN {} ELSE got)

\* An end is told after the last byte, and says what became of the transfer.
Ends ==
  /\ Told \cap {"SUCCESS", "FAIL"} # {} => pcS = "idle"
  /\ pcH = "answer" => Finished
  /\ owed = 1 /\ "FAIL" \in Told => bFail
  /\ OnePacket /\ owed = 1 /\ "SUCCESS" \in Told /\ ~ leftover /\ ~ faulted => ~ bFail

\* The handler may still move bytes of this transfer.
Working == owed = 1 /\ (~ bFail \/ pcH \in {"move", "write"})

\* What the packet holds: its fill and its room are its length.
Packet ==
  /\ pcH \in {"move", "write"} => 0 < bufLen
  /\ IF packet = NULL
     THEN room >= bufLen /\ pcH # "write"
     ELSE Len(packet) = bufLen /\ p + room = bufLen /\ (pcH # "write" => 0 < room)
  /\ pcH = "write" => room < bufLen
  /\ pcH \in {"move", "write", "answer"} /\ ~ bFail => handle
  /\ owed = 1 /\ ~ bFail /\ ~ leftover /\ packet # NULL => 0 <= p

InPacket == IF packet = NULL \/ p < 0 THEN 0 ELSE p

\* The offsets and the free size of the ring tell the same story.
Ring == Working => wrOff = Forward(rdOff, cached)

\* Without a left-over packet there is room for everything received of a file
\* of one packet.
Fits ==
  OnePacket /\ ~ leftover =>
    /\ Working => InPacket + cached <= received
    /\ owed = 1 /\ packet # NULL => bufLen = total /\ 0 <= p
    /\ pcH = "move" => packet # NULL
    /\ pcH = "write" => cleared

\* A transfer is answered when ring and packet are empty.
Drained ==
  ~ bFail => /\ pcH = "write" /\ cleared /\ "SUCCESS" \in got => cached = 0
             /\ pcH = "answer" => cached = 0 /\ InPacket = 0

\* The k-th byte of file, packet and ring together.
Content(k) ==
  IF k <= totalWriteLen THEN file[k]
  ELSE IF k <= totalWriteLen + InPacket THEN packet[k - totalWriteLen]
  ELSE ringMem[Forward(rdOff, k - totalWriteLen - InPacket - 1)]

\* Bytes of an earlier transfer, in a left-over packet.
Stale == totalWriteLen + InPacket + cached - received

\* The bytes received so far follow the stale ones, in order.
Carried ==
  owed = 1 /\ ~ bFail =>
    /\ totalWriteLen = IF handle THEN Len(file) ELSE 0
    /\ Stale >= 0 /\ (~ leftover => Stale = 0)
    /\ \A i \in 1..received : Content(Stale + i) = Byte(i)

Lands == OnePacket /\ "packet" \notin Faults => LandsInPacket
Sound == OnePacket => SoundSucceeds

FsInv ==
  /\ FsTypeOK /\ Lands /\ SuccessMeansStored /\ Sound
  /\ Phase /\ Arranged /\ Ends
  /\ ~ wild => Packet /\ Ring /\ Fits /\ Drained /\ Carried
=============================================================================
