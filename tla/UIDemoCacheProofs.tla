------------------------- MODULE UIDemoCacheProofs -------------------------
(***************************************************************************)
(* The invariants of UIDemoCache hold for every set of ports, cache length,*)
(* set of chunks and buffer lengths.                                       *)
(***************************************************************************)
EXTENDS UIDemoCache, TLAPS

USE SizeAssumption, ByteAssumption, PortAssumption DEF Inv, TypeOK, RingTypeOK, PortTypeOK, ReaderTypeOK

\* Offsets after h wrap around the cache, and no two of the same lap collide.
LEMMA SlotFacts ==
  ASSUME NEW h \in 0..(CacheLen - 1)
  PROVE  /\ SlotAt(h, 0) = h
         /\ \A k \in 0..CacheLen : SlotAt(h, k) \in 0..(CacheLen - 1)
         /\ \A j, k \in 0..(CacheLen - 1) : SlotAt(h, j) = SlotAt(h, k) => j = k
         /\ Advance(h) \in 0..(CacheLen - 1)
         /\ \A k \in 0..(CacheLen - 1) : /\ Advance(SlotAt(h, k)) = SlotAt(h, k + 1)
                                        /\ SlotAt(Advance(h), k) = SlotAt(h, k + 1)
BY DEF SlotAt, Advance

\* A call asks for a natural number of bytes, a line for at least one.
LEMMA CallFacts ==
  ASSUME NEW c \in Calls
  PROVE  /\ c.len \in Nat /\ c.op \in {"line", "value", "read", "poll"}
         /\ c.op \in {"line", "value"} => c.len > 0
<1>1. \/ c.op = "line" /\ c.len \in LineLens
      \/ c.op \in {"read", "poll"} /\ c.len \in ReadLens
      \/ c.op = "value" /\ c.len = ValueLen
  BY DEF Calls
<1>2. CASE c.op = "line" /\ c.len \in LineLens
  BY <1>2
<1>3. CASE c.op \in {"read", "poll"} /\ c.len \in ReadLens
  BY <1>3
<1>4. CASE c.op = "value" /\ c.len = ValueLen
  BY <1>4
<1> QED
  BY <1>1, <1>2, <1>3, <1>4

LEMMA CallLen ==
  ASSUME ReaderTypeOK
  PROVE  call.len \in Nat /\ (call.op \in {"line", "value"} => call.len > 0)
BY CallFacts DEF NoCall

LEMMA InitInv == Init => Inv
<1> SUFFICES ASSUME Init PROVE Inv
  OBVIOUS
<1>1. FlagTypeOK
  BY DEF Init, FlagTypeOK
<1>2. RingTypeOK /\ PortTypeOK /\ ReaderTypeOK
  BY DEF Init, PortPCs, ReaderPCs
<1>3. RingAgrees /\ LockHeld /\ CopyProgress
  BY DEF Init, RingAgrees, LockHeld, CopyProgress, Slot, SlotAt, used, Reader, NoOne
<1>4. StoredBytes
  BY DEF Init, StoredBytes, used
<1>5. ReadProgress /\ ReadResult
  BY DEF Init, ReadProgress, ReadResult, WakeMeansData, NoCall
<1> QED
  BY <1>1, <1>2, <1>3, <1>4, <1>5

-----------------------------------------------------------------------------
(* The callbacks.                                                          *)

LEMMA ReceiveInv ==
  ASSUME Inv, NEW p \in Ports, Receive(p)
  PROVE  Inv'
<1>1. FlagTypeOK'
  BY DEF Receive, FlagTypeOK
<1>2. RingTypeOK' /\ PortTypeOK' /\ ReaderTypeOK'
  BY SMTT(30) DEF Receive, PortPCs, ring, readVars
<1>3. RingAgrees' /\ LockHeld' /\ StoredBytes'
  <2>1. lock # p
    BY DEF LockHeld, Receive
  <2> QED
    BY <2>1 DEF Receive, RingAgrees, LockHeld, StoredBytes, Slot, used, ring, readVars
<1>4. CopyProgress'
  BY DEF Receive, CopyProgress, Clip, used, ring
<1>5. ReadProgress' /\ ReadResult'
  BY DEF Receive, ReadProgress, ReadResult, WakeMeansData, used, ring, readVars
<1> QED
  BY <1>1, <1>2, <1>3, <1>4, <1>5

LEMMA StoreLockInv ==
  ASSUME Inv, NEW p \in Ports, StoreLock(p)
  PROVE  Inv'
<1>1. Len(data[p]) \in Nat
  OBVIOUS
<1>2. FlagTypeOK'
  BY DEF StoreLock, FlagTypeOK
<1>3. RingTypeOK' /\ PortTypeOK' /\ ReaderTypeOK'
  BY <1>1 DEF StoreLock, PortPCs, ring, readVars, Clip
<1>4. RingAgrees' /\ LockHeld'
  BY DEF StoreLock, RingAgrees, LockHeld, Slot, used, ring, readVars, Reader, NoOne
<1>5. CopyProgress'
  BY <1>1 DEF StoreLock, CopyProgress, Clip, used, ring
<1>6. StoredBytes'
  <2>1. from'[p] = 0 /\ lock' = p /\ cache' = cache /\ head' = head /\ freelen' = freelen
    BY DEF StoreLock, CopyProgress, ring
  <2> QED
    BY <2>1 DEF StoredBytes, Slot, used
<1>7. ReadProgress' /\ ReadResult'
  BY DEF StoreLock, ReadProgress, ReadResult, WakeMeansData, used, ring, readVars
<1> QED
  BY <1>2, <1>3, <1>4, <1>5, <1>6, <1>7

LEMMA StoreByteInv ==
  ASSUME Inv, NEW p \in Ports, StoreByte(p)
  PROVE  Inv'
<1>1. /\ data[p] \in Seq(Bytes) /\ Len(data[p]) \in Nat
      /\ from[p] \in Nat /\ copylen[p] \in Nat \ {0}
      /\ from[p] < Len(data[p])
      /\ freelen \in 1..CacheLen /\ from[p] <= used
      /\ used \in 0..(CacheLen - 1) /\ tail = SlotAt(head, used)
      /\ head \in 0..(CacheLen - 1) /\ tail \in 0..(CacheLen - 1)
  BY SMTT(30) DEF StoreByte, CopyProgress, Clip, used, RingAgrees, Slot
<1>2. data[p][from[p] + 1] \in Bytes
  BY <1>1
<1>3. /\ head' = head /\ freelen' = freelen - 1 /\ used' = used + 1
      /\ tail' = Advance(tail)
      /\ cache' = [cache EXCEPT ![tail] = data[p][from[p] + 1]]
      /\ pcP' = pcP /\ data' = data /\ pcP[p] = "copy"
      /\ from' = [from EXCEPT ![p] = from[p] + 1]
      /\ copylen' = [copylen EXCEPT ![p] = copylen[p] - 1]
      /\ lock = p /\ lock' = lock /\ cacheOk' = cacheOk
      /\ UNCHANGED <<pcR, call, buf, want, ret>>
  BY <1>1 DEF StoreByte, LockHeld, used, readVars
<1>4. /\ \A k \in 0..CacheLen : SlotAt(head, k) \in 0..(CacheLen - 1)
      /\ \A k \in 0..(used - 1) : SlotAt(head, k) # tail
      /\ Advance(tail) = SlotAt(head, used + 1)
  <2>1. /\ \A k \in 0..CacheLen : SlotAt(head, k) \in 0..(CacheLen - 1)
        /\ \A j, k \in 0..(CacheLen - 1) : SlotAt(head, j) = SlotAt(head, k) => j = k
        /\ \A k \in 0..(CacheLen - 1) : Advance(SlotAt(head, k)) = SlotAt(head, k + 1)
    BY <1>1, SlotFacts
  <2> QED
    BY <1>1, <2>1
<1>5. FlagTypeOK'
  BY DEF StoreByte, FlagTypeOK
<1>6. RingTypeOK' /\ PortTypeOK' /\ ReaderTypeOK'
  <2>1. Advance(tail) \in 0..(CacheLen - 1)
    BY <1>1, <1>4
  <2>2. RingTypeOK'
    BY <1>1, <1>2, <1>3, <2>1
  <2>3. from' \in [Ports -> Nat] /\ copylen' \in [Ports -> Nat]
    <3>1. from \in [Ports -> Nat] /\ copylen \in [Ports -> Nat]
      OBVIOUS
    <3>2. \A n \in Nat : n + 1 \in Nat
      OBVIOUS
    <3>3. \A n \in Nat \ {0} : n - 1 \in Nat
      OBVIOUS
    <3> QED
      BY ONLY <1>1, <1>3, <3>1, <3>2, <3>3
  <2>4. PortTypeOK'
    BY <1>3, <2>3
  <2>5. ReaderTypeOK'
    BY <1>3
  <2> QED
    BY <2>2, <2>4, <2>5
<1>7. RingAgrees'
  BY <1>3, <1>4 DEF RingAgrees, Slot
<1>8. LockHeld'
  BY <1>3 DEF LockHeld
<1>9. CopyProgress'
  <2>1. /\ copylen[p] <= freelen
        /\ from[p] + copylen[p] = Clip(Len(data[p]), freelen + from[p])
        /\ data[p] # <<>>
    BY <1>3 DEF CopyProgress
  <2>2. /\ from'[p] = from[p] + 1 /\ copylen'[p] = copylen[p] - 1
        /\ from'[p] <= used' /\ copylen'[p] <= freelen'
        /\ freelen' + from'[p] = freelen + from[p]
        /\ from'[p] + copylen'[p] = from[p] + copylen[p]
    BY SMTT(30), <1>1, <1>3, <2>1
  <2>3. ASSUME NEW q \in Ports, q # p
        PROVE  pcP[q] # "copy" /\ from'[q] = from[q] /\ copylen'[q] = copylen[q]
    BY <1>3, <2>3 DEF LockHeld
  <2> QED
    BY <1>3, <2>1, <2>2, <2>3 DEF CopyProgress
<1>10. StoredBytes'
  <2>1. cache'[tail] = data[p][from[p] + 1]
    BY <1>1, <1>3
  <2>2. \A k \in 0..(used - 1) : cache'[SlotAt(head, k)] = cache[SlotAt(head, k)]
    BY <1>1, <1>3, <1>4
  <2>3. ASSUME NEW k \in 0..used
        PROVE  cache'[SlotAt(head, k)] \in Bytes
    <3>1. CASE k = used
      BY <1>1, <1>2, <2>1, <3>1
    <3>2. CASE k \in 0..(used - 1)
      BY <2>2, <3>2 DEF StoredBytes, Slot
    <3> QED
      BY <1>1, <3>1, <3>2
  <2>4. ASSUME NEW i \in 1..(from[p] + 1)
        PROVE  cache'[SlotAt(head, used - from[p] + i - 1)] = data[p][i]
    <3>1. CASE i = from[p] + 1
      <4>1. used - from[p] + i - 1 = used
        BY <1>1, <3>1
      <4> QED
        BY <1>1, <2>1, <3>1, <4>1
    <3>2. CASE i \in 1..from[p]
      <4>1. used - from[p] + i - 1 \in 0..(used - 1)
        BY SMTT(30), <1>1, <3>2
      <4>2. cache[SlotAt(head, used - from[p] + i - 1)] = data[p][i]
        BY <1>3, <3>2 DEF StoredBytes, Slot
      <4> QED
        BY <2>2, <4>1, <4>2
    <3> QED
      BY SMTT(30), <1>1, <3>1, <3>2
  <2>5. /\ from'[p] = from[p] + 1 /\ used' - from'[p] = used - from[p]
        /\ 0..(used' - 1) = 0..used
    BY <1>1, <1>3
  <2>6. \A k \in 0..(used' - 1) : cache'[SlotAt(head', k)] \in Bytes
    BY <1>3, <2>3, <2>5
  <2>7. \A i \in 1..from'[p] : cache'[SlotAt(head', used' - from'[p] + i - 1)] = data'[p][i]
    BY <1>3, <2>4, <2>5
  <2> QED
    BY <1>3, <2>6, <2>7 DEF StoredBytes, Slot
<1>11. ReadProgress' /\ ReadResult'
  <2>1. pcR \notin {"line", "line_take", "strip", "read_copy"}
    BY <1>3 DEF LockHeld, Reader
  <2>2. used \in Nat /\ used' > 0 /\ used' >= used
    BY <1>1, <1>3
  <2>3. WakeMeansData'
    BY <2>2 DEF WakeMeansData
  <2>4. ReadProgress'
    <3>1. pcR = "read_lock" => (call.op = "read" => call.len <= used')
      <4>1. call.len \in Nat \/ call.op # "read"
        BY CallFacts DEF NoCall
      <4> QED
        BY <1>1, <1>3, <4>1 DEF ReadProgress
    <3> QED
      BY <1>3, <2>1, <2>2, <2>3, <3>1 DEF ReadProgress
  <2>5. ReadResult'
    BY <1>3 DEF ReadResult
  <2> QED
    BY <2>4, <2>5
<1> QED
  BY <1>5, <1>6, <1>7, <1>8, <1>9, <1>10, <1>11

LEMMA StoreUnlockInv ==
  ASSUME Inv, NEW p \in Ports, StoreUnlock(p)
  PROVE  Inv'
<1>1. FlagTypeOK'
  BY DEF StoreUnlock, FlagTypeOK
<1>2. RingTypeOK' /\ PortTypeOK' /\ ReaderTypeOK'
  BY DEF StoreUnlock, CallbackReturns, PortPCs, ring, readVars
<1>3. RingAgrees' /\ LockHeld'
  BY DEF StoreUnlock, CallbackReturns, RingAgrees, LockHeld, Slot, used, ring, readVars,
         Reader, NoOne
<1>4. CopyProgress'
  BY DEF StoreUnlock, CallbackReturns, CopyProgress, Clip, used, ring
<1>5. StoredBytes'
  BY DEF StoreUnlock, CallbackReturns, StoredBytes, Slot, used, ring
<1>6. ReadProgress' /\ ReadResult'
  BY DEF StoreUnlock, ReadProgress, ReadResult, WakeMeansData, used, ring, readVars
<1> QED
  BY <1>1, <1>2, <1>3, <1>4, <1>5, <1>6

-----------------------------------------------------------------------------
(* The UI task.                                                            *)

\* What the reader's steps that take no byte leave alone.
Frame == /\ UNCHANGED <<cacheOk, ring, portVars>>
         /\ lock' = lock \/ lock' \notin Ports

LEMMA FrameInv ==
  ASSUME Inv, Frame
  PROVE  RingTypeOK' /\ RingAgrees' /\ CopyProgress' /\ StoredBytes'
<1>1. /\ cacheOk' = cacheOk /\ cache' = cache /\ head' = head /\ tail' = tail
      /\ freelen' = freelen /\ used' = used
      /\ pcP' = pcP /\ data' = data /\ from' = from /\ copylen' = copylen
  BY DEF Frame, ring, portVars, used
<1>2. RingTypeOK' /\ RingAgrees' /\ CopyProgress'
  BY <1>1 DEF RingAgrees, Slot, CopyProgress
<1>3. StoredBytes'
  BY <1>1 DEF Frame, StoredBytes, Slot
<1> QED
  BY <1>2, <1>3

LEMMA BeginCallInv ==
  ASSUME Inv, BeginCall
  PROVE  Inv'
<1>1. Frame
  BY DEF BeginCall, Frame, LockHeld, ring, portVars, Reader, NoOne
<1>2. FlagTypeOK'
  BY DEF BeginCall, FlagTypeOK
<1>3. PortTypeOK' /\ ReaderTypeOK'
  BY CallFacts DEF BeginCall, Entry, ReaderPCs, portVars
<1>4. LockHeld'
  BY DEF BeginCall, Entry, LockHeld, portVars, Reader, NoOne
<1>5. ReadProgress' /\ ReadResult'
  BY CallFacts DEF BeginCall, Entry, Calls, ReadProgress, ReadResult, WakeMeansData, ring, used
<1> QED
  BY <1>1, <1>2, <1>3, <1>4, <1>5, FrameInv

LEMMA LineLockInv ==
  ASSUME Inv, LineLock
  PROVE  Inv'
<1>1. Frame
  BY DEF LineLock, Frame, LockHeld, ring, portVars, Reader, NoOne
<1>2. FlagTypeOK'
  BY DEF LineLock, FlagTypeOK
<1>3. PortTypeOK' /\ ReaderTypeOK'
  BY CallFacts DEF LineLock, ReaderPCs, portVars
<1>4. LockHeld'
  BY DEF LineLock, LockHeld, portVars, Reader, NoOne
<1>5. ReadProgress' /\ ReadResult'
  BY CallFacts DEF LineLock, ReadProgress, ReadResult, WakeMeansData, ring, used
<1> QED
  BY <1>1, <1>2, <1>3, <1>4, <1>5, FrameInv

LEMMA LineFullInv ==
  ASSUME Inv, LineFull
  PROVE  Inv'
<1>1. Frame
  BY DEF LineFull, Return, Frame, LockHeld, ring, portVars, Reader, NoOne
<1>2. FlagTypeOK'
  BY DEF LineFull, FlagTypeOK
<1>3. PortTypeOK' /\ ReaderTypeOK'
  BY CallFacts DEF LineFull, Return, ReaderPCs, portVars
<1>4. LockHeld'
  BY DEF LineFull, Return, LockHeld, portVars, Reader, NoOne
<1>5. ReadProgress' /\ ReadResult'
  BY CallFacts DEF LineFull, Return, ReadProgress, ReadResult, WakeMeansData, ring, used
<1> QED
  BY <1>1, <1>2, <1>3, <1>4, <1>5, FrameInv

LEMMA LineEmptyInv ==
  ASSUME Inv, LineEmpty
  PROVE  Inv'
<1>1. Frame
  BY DEF LineEmpty, Frame, LockHeld, ring, portVars, Reader, NoOne
<1>2. FlagTypeOK'
  BY DEF LineEmpty, FlagTypeOK
<1>3. PortTypeOK' /\ ReaderTypeOK'
  BY CallFacts DEF LineEmpty, ReaderPCs, portVars
<1>4. LockHeld'
  BY DEF LineEmpty, LockHeld, portVars, Reader, NoOne
<1>5. ReadProgress' /\ ReadResult'
  BY CallFacts DEF LineEmpty, ReadProgress, ReadResult, WakeMeansData, ring, used
<1> QED
  BY <1>1, <1>2, <1>3, <1>4, <1>5, FrameInv

LEMMA LineClearInv ==
  ASSUME Inv, LineClear
  PROVE  Inv'
<1>1. Frame
  BY DEF LineClear, Frame, LockHeld, ring, portVars, Reader, NoOne
<1>2. FlagTypeOK'
  BY DEF LineClear, FlagTypeOK
<1>3. PortTypeOK' /\ ReaderTypeOK'
  BY CallFacts DEF LineClear, ReaderPCs, portVars
<1>4. LockHeld'
  BY DEF LineClear, LockHeld, portVars, Reader, NoOne
<1>5. ReadProgress' /\ ReadResult'
  BY CallFacts DEF LineClear, ReadProgress, ReadResult, WakeMeansData, ring, used
<1> QED
  BY <1>1, <1>2, <1>3, <1>4, <1>5, FrameInv

LEMMA LineWaitInv ==
  ASSUME Inv, LineWait
  PROVE  Inv'
<1>1. Frame
  BY DEF LineWait, Frame, LockHeld, ring, portVars, Reader, NoOne
<1>2. FlagTypeOK'
  BY DEF LineWait, FlagTypeOK
<1>3. PortTypeOK' /\ ReaderTypeOK'
  BY CallFacts DEF LineWait, ReaderPCs, portVars
<1>4. LockHeld'
  BY DEF LineWait, LockHeld, portVars, Reader, NoOne
<1>5. ReadProgress' /\ ReadResult'
  BY CallFacts DEF LineWait, ReadProgress, ReadResult, WakeMeansData, ring, used
<1> QED
  BY <1>1, <1>2, <1>3, <1>4, <1>5, FrameInv

LEMMA LineRelockInv ==
  ASSUME Inv, LineRelock
  PROVE  Inv'
<1>1. Frame
  BY DEF LineRelock, Frame, LockHeld, ring, portVars, Reader, NoOne
<1>2. FlagTypeOK'
  BY DEF LineRelock, FlagTypeOK
<1>3. PortTypeOK' /\ ReaderTypeOK'
  BY CallFacts DEF LineRelock, ReaderPCs, portVars
<1>4. LockHeld'
  BY DEF LineRelock, LockHeld, portVars, Reader, NoOne
<1>5. ReadProgress' /\ ReadResult'
  BY CallFacts DEF LineRelock, ReadProgress, ReadResult, WakeMeansData, ring, used
<1> QED
  BY <1>1, <1>2, <1>3, <1>4, <1>5, FrameInv

LEMMA StripDoneInv ==
  ASSUME Inv, StripDone
  PROVE  Inv'
<1>1. Frame
  BY DEF StripDone, Return, Frame, LockHeld, ring, portVars, Reader, NoOne
<1>2. FlagTypeOK'
  BY DEF StripDone, FlagTypeOK
<1>3. PortTypeOK' /\ ReaderTypeOK'
  BY CallFacts DEF StripDone, Return, ReaderPCs, portVars
<1>4. LockHeld'
  BY DEF StripDone, Return, LockHeld, portVars, Reader, NoOne
<1>5. ReadProgress' /\ ReadResult'
  BY CallFacts DEF StripDone, Return, ReadProgress, ReadResult, WakeMeansData, ring, used
<1> QED
  BY <1>1, <1>2, <1>3, <1>4, <1>5, FrameInv

LEMMA ValueCheckInv ==
  ASSUME Inv, ValueCheck
  PROVE  Inv'
<1>1. Frame
  BY DEF ValueCheck, Frame, LockHeld, ring, portVars, Reader, NoOne
<1>2. FlagTypeOK'
  BY DEF ValueCheck, FlagTypeOK
<1>3. PortTypeOK' /\ ReaderTypeOK'
  <2>1. buf' \in Seq(Bytes) /\ pcR' \in ReaderPCs
    <3>1. CASE buf' = <<>> /\ pcR' = "line_lock"
      BY <3>1 DEF ReaderPCs
    <3>2. CASE buf' = buf /\ pcR' = "idle"
      BY <3>2 DEF ReaderPCs
    <3> QED
      BY <3>1, <3>2 DEF ValueCheck
  <2> QED
    BY <2>1 DEF ValueCheck, portVars
<1>4. LockHeld'
  BY DEF ValueCheck, LockHeld, portVars, Reader, NoOne
<1>5. ReadProgress' /\ ReadResult'
  <2>1. call.op \in {"line", "value"} /\ call.len > 0
    BY CallLen DEF ValueCheck, ReadProgress
  <2>2. CASE buf' = <<>> /\ pcR' = "line_lock"
    BY CallLen, <2>1, <2>2 DEF ValueCheck, ReadProgress, ReadResult, WakeMeansData
  <2>3. CASE buf' = buf /\ pcR' = "idle"
    BY CallLen, <2>1, <2>3 DEF ValueCheck, ReadProgress, ReadResult, WakeMeansData
  <2> QED
    BY <2>2, <2>3 DEF ValueCheck
<1> QED
  BY <1>1, <1>2, <1>3, <1>4, <1>5, FrameInv

LEMMA ReadTestInv ==
  ASSUME Inv, ReadTest
  PROVE  Inv'
<1>1. Frame
  BY DEF ReadTest, Frame, LockHeld, ring, portVars, Reader, NoOne
<1>2. FlagTypeOK'
  BY DEF ReadTest, FlagTypeOK
<1>3. PortTypeOK' /\ ReaderTypeOK'
  BY CallFacts DEF ReadTest, ReaderPCs, portVars
<1>4. LockHeld'
  BY DEF ReadTest, LockHeld, portVars, Reader, NoOne
<1>5. ReadProgress' /\ ReadResult'
  <2>1. /\ pcR = "read_test" /\ buf = <<>> /\ call.op = "read"
        /\ UNCHANGED <<call, buf, want, ret>> /\ used' = used
    BY DEF ReadTest, ReadProgress, ring, used
  <2>2. call.len \in Nat /\ used \in Nat
    BY CallLen DEF used
  <2>3. CASE call.len > used /\ pcR' = "read_clear"
    BY <2>1, <2>3 DEF ReadProgress, ReadResult, WakeMeansData
  <2>4. CASE ~(call.len > used) /\ pcR' = "read_lock"
    BY <2>1, <2>2, <2>4 DEF ReadProgress, ReadResult, WakeMeansData
  <2> QED
    BY <2>3, <2>4 DEF ReadTest
<1> QED
  BY <1>1, <1>2, <1>3, <1>4, <1>5, FrameInv

LEMMA ReadClearInv ==
  ASSUME Inv, ReadClear
  PROVE  Inv'
<1>1. Frame
  BY DEF ReadClear, Frame, LockHeld, ring, portVars, Reader, NoOne
<1>2. FlagTypeOK'
  BY DEF ReadClear, FlagTypeOK
<1>3. PortTypeOK' /\ ReaderTypeOK'
  BY CallFacts DEF ReadClear, ReaderPCs, portVars
<1>4. LockHeld'
  BY DEF ReadClear, LockHeld, portVars, Reader, NoOne
<1>5. ReadProgress' /\ ReadResult'
  BY CallFacts DEF ReadClear, ReadProgress, ReadResult, WakeMeansData, ring, used
<1> QED
  BY <1>1, <1>2, <1>3, <1>4, <1>5, FrameInv

LEMMA ReadWaitInv ==
  ASSUME Inv, ReadWait
  PROVE  Inv'
<1>1. Frame
  BY DEF ReadWait, Frame, LockHeld, ring, portVars, Reader, NoOne
<1>2. FlagTypeOK'
  BY DEF ReadWait, FlagTypeOK
<1>3. PortTypeOK' /\ ReaderTypeOK'
  BY CallFacts DEF ReadWait, ReaderPCs, portVars
<1>4. LockHeld'
  BY DEF ReadWait, LockHeld, portVars, Reader, NoOne
<1>5. ReadProgress' /\ ReadResult'
  BY CallFacts DEF ReadWait, ReadProgress, ReadResult, WakeMeansData, ring, used
<1> QED
  BY <1>1, <1>2, <1>3, <1>4, <1>5, FrameInv

LEMMA ReadLockInv ==
  ASSUME Inv, ReadLock
  PROVE  Inv'
<1>1. Frame
  BY DEF ReadLock, Frame, LockHeld, ring, portVars, Reader, NoOne
<1>2. FlagTypeOK'
  BY DEF ReadLock, FlagTypeOK
<1>3. PortTypeOK' /\ ReaderTypeOK'
  <2>1. call.len \in Nat /\ used \in Nat
    BY CallLen DEF used
  <2>2. want' \in Nat
    BY <2>1 DEF ReadLock, Clip
  <2> QED
    BY <2>2 DEF ReadLock, ReaderPCs, portVars
<1>4. LockHeld'
  BY DEF ReadLock, LockHeld, portVars, Reader, NoOne
<1>5. ReadProgress' /\ ReadResult'
  <2>1. /\ pcR = "read_lock" /\ pcR' = "read_copy" /\ buf = <<>>
        /\ call.op \in {"read", "poll"} /\ (call.op = "read" => call.len <= used)
        /\ UNCHANGED <<call, buf, ret>> /\ used' = used
    BY DEF ReadLock, ReadProgress, ring, used
  <2>2. call.len \in Nat /\ used \in Nat
    BY CallLen DEF used
  <2>3. want' <= used /\ want' \in Nat /\ (call.op = "read" => want' = call.len)
    BY <2>1, <2>2 DEF ReadLock, Clip
  <2> QED
    BY <2>1, <2>2, <2>3 DEF ReadProgress, ReadResult, WakeMeansData
<1> QED
  BY <1>1, <1>2, <1>3, <1>4, <1>5, FrameInv

LEMMA ReadDoneInv ==
  ASSUME Inv, ReadDone
  PROVE  Inv'
<1>1. Frame
  BY DEF ReadDone, Return, Frame, LockHeld, ring, portVars, Reader, NoOne
<1>2. FlagTypeOK'
  BY DEF ReadDone, FlagTypeOK
<1>3. PortTypeOK' /\ ReaderTypeOK'
  BY CallFacts DEF ReadDone, Return, ReaderPCs, portVars
<1>4. LockHeld'
  BY DEF ReadDone, Return, LockHeld, portVars, Reader, NoOne
<1>5. ReadProgress' /\ ReadResult'
  BY CallFacts DEF ReadDone, Return, ReadProgress, ReadResult, WakeMeansData, ring, used
<1> QED
  BY <1>1, <1>2, <1>3, <1>4, <1>5, FrameInv

-----------------------------------------------------------------------------
(* The steps that take a byte.  The reader holds the lock, so no callback  *)
(* is copying.                                                             *)

LEMMA TakeHeadInv ==
  ASSUME Inv, lock = Reader, used > 0, TakeHead, UNCHANGED <<cacheOk, lock, portVars>>
  PROVE  /\ RingTypeOK' /\ PortTypeOK' /\ RingAgrees' /\ CopyProgress' /\ StoredBytes'
         /\ cache[head] \in Bytes /\ used' = used - 1 /\ used \in 1..CacheLen
<1>1. /\ cache' = cache /\ tail' = tail /\ head' = Advance(head) /\ freelen' = freelen + 1
      /\ pcP' = pcP /\ data' = data /\ from' = from /\ copylen' = copylen /\ lock' = lock
  BY DEF TakeHead, portVars
<1>2. /\ used \in 1..CacheLen /\ used' = used - 1 /\ freelen' \in 0..CacheLen
      /\ head \in 0..(CacheLen - 1)
  BY <1>1 DEF used
<1>3. /\ SlotAt(head, 0) = head /\ Advance(head) \in 0..(CacheLen - 1)
      /\ \A k \in 0..(CacheLen - 1) : SlotAt(Advance(head), k) = SlotAt(head, k + 1)
  BY <1>2, SlotFacts
<1>4. RingTypeOK' /\ PortTypeOK'
  BY <1>1, <1>2, <1>3
<1>5. RingAgrees'
  <2>1. SlotAt(Advance(head), used - 1) = SlotAt(head, used)
    BY <1>2, <1>3
  <2> QED
    BY <1>1, <1>2, <2>1 DEF RingAgrees, Slot
<1>6. lock \notin Ports /\ \A p \in Ports : pcP[p] # "copy"
  BY PortAssumption DEF LockHeld
<1>7. CopyProgress'
  BY <1>1, <1>6 DEF CopyProgress
<1>8. \A k \in 0..(used - 1) : cache[SlotAt(head, k)] \in Bytes
  BY DEF StoredBytes, Slot
<1>9. cache[head] \in Bytes
  <2>1. 0 \in 0..(used - 1)
    BY <1>2
  <2> QED
    BY <1>3, <1>8, <2>1
<1>10. StoredBytes'
  <2>1. ASSUME NEW k \in 0..(used' - 1)
        PROVE  cache[SlotAt(head', k)] \in Bytes
    <3>1. k \in 0..(CacheLen - 1) /\ k + 1 \in 0..(used - 1)
      BY <1>2
    <3> QED
      BY <1>1, <1>3, <1>8, <3>1
  <2> QED
    BY <1>1, <1>6, <2>1 DEF StoredBytes, Slot
<1> QED
  BY <1>2, <1>4, <1>5, <1>7, <1>9, <1>10

LEMMA LineTakeInv ==
  ASSUME Inv, LineTake
  PROVE  Inv'
<1>1. /\ lock = Reader /\ used > 0 /\ TakeHead /\ call.op \in {"line", "value"}
      /\ Len(buf) + 1 < call.len
      /\ pcR \in {"line", "line_take"}
      /\ \A i \in 1..Len(buf) : buf[i] \notin Eol
  BY DEF LineTake, LockHeld, ReadProgress, WakeMeansData, used
<1>2. UNCHANGED <<cacheOk, waitflag, lock, portVars, call, want>>
  BY DEF LineTake
<1>3. /\ RingTypeOK' /\ PortTypeOK' /\ RingAgrees' /\ CopyProgress' /\ StoredBytes'
      /\ cache[head] \in Bytes
  BY <1>1, <1>2, TakeHeadInv
<1>4. FlagTypeOK'
  BY <1>2 DEF FlagTypeOK
<1>5. \/ /\ cache[head] \notin Eol /\ buf' = Append(buf, cache[head])
         /\ pcR' = "line" /\ ret' = ret
      \/ /\ buf' = buf /\ pcR' = "strip"
         /\ ret' = Len(buf) \/ (ret' = -1 /\ buf = <<>>)
  <2>1. CASE cache[head] \notin Eol
    BY <2>1 DEF LineTake
  <2>2. CASE cache[head] \in Eol
    <3>1. pcR' = "strip"
      BY <2>2 DEF LineTake
    <3>2. PICK prev \in BOOLEAN :
            /\ PrevIsEol(prev)
            /\ ret' = IF prev THEN Len(buf) - 1 ELSE Len(buf)
            /\ buf' = IF prev /\ buf # <<>> THEN SubSeq(buf, 1, Len(buf) - 1) ELSE buf
      BY <2>2 DEF LineTake
    <3>3. CASE buf = <<>>
      BY <3>1, <3>2, <3>3
    <3>4. CASE buf # <<>>
      <4>1. buf[Len(buf)] \notin Eol
        <5>1. Len(buf) \in 1..Len(buf)
          BY <3>4
        <5> QED
          BY <1>1, <5>1
      <4>2. ~ prev
        BY <3>2, <3>4, <4>1 DEF PrevIsEol
      <4> QED
        BY <3>1, <3>2, <4>2
    <3> QED
      BY <3>3, <3>4
  <2> QED
    BY <2>1, <2>2
<1>6. ReaderTypeOK'
  <2>1. ret' \in Int
    BY <1>5
  <2>2. buf' \in Seq(Bytes)
    <3>1. CASE buf' = buf
      BY <3>1
    <3>2. CASE buf' = Append(buf, cache[head])
      BY <1>3, <3>2
    <3> QED
      BY <1>5, <3>1, <3>2
  <2> QED
    BY <1>2, <1>5, <2>1, <2>2 DEF ReaderPCs
<1>7. LockHeld'
  BY <1>1, <1>2, <1>5 DEF LockHeld, portVars
<1>8. /\ Len(buf') < call'.len
      /\ \A i \in 1..Len(buf') : buf'[i] \notin Eol
  <2>1. call' = call /\ call.len \in Nat /\ Len(buf) \in Nat
    BY <1>2, CallLen
  <2>2. CASE buf' = buf
    BY <1>1, <2>1, <2>2
  <2>3. CASE cache[head] \notin Eol /\ buf' = Append(buf, cache[head])
    <3>1. Len(buf') = Len(buf) + 1
      BY <2>3
    <3>2. ASSUME NEW i \in 1..Len(buf')
          PROVE  buf'[i] \notin Eol
      BY <1>1, <1>3, <2>3, <3>1
    <3> QED
      BY <1>1, <2>1, <3>1, <3>2
  <2> QED
    BY <1>5, <2>2, <2>3
<1>9. ReadProgress' /\ ReadResult'
  BY <1>1, <1>2, <1>5, <1>8 DEF ReadProgress, ReadResult, WakeMeansData
<1> QED
  BY <1>3, <1>4, <1>6, <1>7, <1>9

LEMMA StripEolInv ==
  ASSUME Inv, StripEol
  PROVE  Inv'
<1>1. lock = Reader /\ used > 0 /\ TakeHead /\ pcR = "strip"
  BY DEF StripEol, LockHeld, used
<1>2. UNCHANGED <<cacheOk, waitflag, lock, portVars, readVars>>
  BY DEF StripEol
<1>3. RingTypeOK' /\ PortTypeOK' /\ RingAgrees' /\ CopyProgress' /\ StoredBytes'
  BY <1>1, <1>2, TakeHeadInv
<1>4. FlagTypeOK'
  BY <1>2 DEF FlagTypeOK
<1>5. ReaderTypeOK' /\ LockHeld'
  BY <1>2 DEF readVars, portVars, LockHeld
<1>6. ReadProgress' /\ ReadResult'
  BY <1>1, <1>2 DEF ReadProgress, ReadResult, WakeMeansData, readVars
<1> QED
  BY <1>3, <1>4, <1>5, <1>6

LEMMA ReadCopyInv ==
  ASSUME Inv, ReadCopy
  PROVE  Inv'
<1>1. /\ lock = Reader /\ TakeHead /\ pcR = "read_copy"
      /\ want \in Nat /\ want > 0 /\ want <= used
      /\ call.op \in {"read", "poll"} /\ (call.op = "read" => Len(buf) + want = call.len)
  BY DEF ReadCopy, LockHeld, ReadProgress
<1>2. /\ UNCHANGED <<cacheOk, waitflag, lock, portVars, pcR, call, ret>>
      /\ buf' = Append(buf, cache[head]) /\ want' = want - 1
  BY DEF ReadCopy
<1>3. used > 0
  BY <1>1 DEF used
<1>4. /\ RingTypeOK' /\ PortTypeOK' /\ RingAgrees' /\ CopyProgress' /\ StoredBytes'
      /\ cache[head] \in Bytes /\ used' = used - 1 /\ used \in 1..CacheLen
  BY <1>1, <1>2, <1>3, TakeHeadInv
<1>5. FlagTypeOK'
  BY <1>2 DEF FlagTypeOK
<1>6. ReaderTypeOK' /\ LockHeld'
  BY <1>1, <1>2, <1>4 DEF portVars, LockHeld
<1>7. Len(buf') + want' = Len(buf) + want /\ want' <= used'
  <2>1. Len(buf') = Len(buf) + 1 /\ Len(buf) \in Nat
    BY <1>2, <1>4
  <2> QED
    BY <1>1, <1>2, <1>4, <2>1
<1>8. ReadProgress' /\ ReadResult'
  BY <1>1, <1>2, <1>7 DEF ReadProgress, ReadResult, WakeMeansData
<1> QED
  BY <1>4, <1>5, <1>6, <1>8

-----------------------------------------------------------------------------
\* The invariant is inductive.
LEMMA StepInv == Inv /\ [Next]_vars => Inv'
<1> SUFFICES ASSUME Inv, [Next]_vars PROVE Inv'
  OBVIOUS
<1>1. ASSUME NEW p \in Ports, Receive(p) \/ Callback(p)
      PROVE  Inv'
  BY <1>1, ReceiveInv, StoreLockInv, StoreByteInv, StoreUnlockInv DEF Callback
<1>2. ASSUME BeginCall
      PROVE  Inv'
  BY <1>2, BeginCallInv
<1>3. ASSUME ReaderStep
      PROVE  Inv'
  BY <1>3, LineLockInv, LineFullInv, LineEmptyInv, LineClearInv, LineWaitInv, LineRelockInv,
     LineTakeInv, StripEolInv, StripDoneInv, ValueCheckInv, ReadTestInv, ReadClearInv,
     ReadWaitInv, ReadLockInv, ReadCopyInv, ReadDoneInv DEF ReaderStep
<1>4. CASE UNCHANGED vars
  <2>1. /\ UNCHANGED <<cacheOk, waitflag, lock>>
        /\ UNCHANGED <<ring, portVars, readVars>>
    BY <1>4 DEF vars
  <2>2. FlagTypeOK'
    BY <2>1 DEF FlagTypeOK
  <2>3. RingTypeOK' /\ PortTypeOK' /\ ReaderTypeOK'
    BY <2>1 DEF ring, portVars, readVars
  <2>4. RingAgrees' /\ CopyProgress' /\ StoredBytes'
    BY <2>1, FrameInv DEF Frame
  <2>5. LockHeld' /\ ReadProgress' /\ ReadResult'
    BY <2>1 DEF ring, portVars, readVars, used, LockHeld, ReadProgress, ReadResult, WakeMeansData
  <2> QED
    BY <2>2, <2>3, <2>4, <2>5
<1> QED
  BY <1>1, <1>2, <1>3, <1>4 DEF Next

\* Everything the runs check as an invariant holds in every instance.
THEOREM CacheInvariant == Spec => []Inv
BY InitInv, StepInv, PTL DEF Spec

\* Type correctness: no offset or count ever leaves the cache, and no read
\* hands out a byte that was not received.
THEOREM CacheTypeOK == Spec => []TypeOK
BY CacheInvariant, PTL

\* The free count and the two offsets always agree.
THEOREM CacheRingAgrees == Spec => []RingAgrees
BY CacheInvariant, PTL

\* A wake-up means data: the byte read at line 272 without a look at freelen
\* is always there.
THEOREM CacheWakeMeansData == Spec => []WakeMeansData
<1>1. Inv => WakeMeansData
  BY DEF ReadProgress
<1> QED
  BY <1>1, CacheInvariant, PTL

\* The mutex discipline.
THEOREM CacheLockHeld == Spec => []LockHeld
BY CacheInvariant, PTL

\* What a read returns.
THEOREM CacheReadResult == Spec => []ReadResult
BY CacheInvariant, PTL

-----------------------------------------------------------------------------
(* The flag and the input it tells of.                                     *)

\* A callback sets the flag with every byte, or leaves the count alone.
LEMMA CallbackFlag ==
  ASSUME Inv, NEW p \in Ports, Receive(p) \/ Callback(p)
  PROVE  /\ UNCHANGED <<pcR, call>>
         /\ waitflag' \/ (waitflag' = waitflag /\ used' = used)
<1>1. CASE StoreByte(p)
  BY <1>1 DEF StoreByte, readVars
<1>2. CASE Receive(p) \/ StoreLock(p) \/ StoreUnlock(p)
  BY <1>2 DEF Receive, StoreLock, StoreUnlock, ring, readVars, used
<1> QED
  BY <1>1, <1>2 DEF Callback

\* The reader goes to clear the flag only when its input is not there.
LEMMA ReaderFlag ==
  ASSUME Inv, BeginCall \/ ReaderStep, pcR' \in {"line_clear", "read_clear"}
  PROVE  /\ pcR' = "line_clear" => used' = 0
         /\ pcR' = "read_clear" => ~ (used' >= call'.len)
<1>1. CacheLen \in Nat /\ freelen \in 0..CacheLen /\ used \in Nat
  BY SizeAssumption DEF Inv, TypeOK, RingTypeOK, used
<1>2. CASE LineEmpty
  BY <1>1, <1>2 DEF LineEmpty, ring, used
<1>3. CASE ReadTest
  <2>1. used' = used /\ call' = call
    BY <1>3 DEF ReadTest, ring, used
  <2>2. call.len \in Nat
    BY <1>3, CallLen DEF Inv, ReadTest, TypeOK, ReaderTypeOK, ReadProgress
  <2> QED
    BY <1>1, <1>3, <2>1, <2>2 DEF ReadTest
<1>4. CASE BeginCall
  BY <1>4 DEF BeginCall, Entry
<1>5. CASE LineLock \/ LineFull \/ LineClear \/ LineWait \/ LineRelock \/ LineTake
           \/ StripEol \/ StripDone \/ ValueCheck \/ ReadClear \/ ReadWait
           \/ ReadLock \/ ReadCopy \/ ReadDone
  BY <1>5 DEF LineLock, LineFull, LineClear, LineWait, LineRelock, LineTake, StripEol,
              StripDone, ValueCheck, ReadClear, ReadWait, ReadLock, ReadCopy, ReadDone,
              Return, readVars
<1> QED
  BY <1>2, <1>3, <1>4, <1>5 DEF ReaderStep

LEMMA FlagToldStep == Inv /\ FlagTold /\ [Next]_vars => FlagTold'
<1> SUFFICES ASSUME Inv, FlagTold, [Next]_vars PROVE FlagTold'
  OBVIOUS
<1>1. ASSUME NEW p \in Ports, Receive(p) \/ Callback(p)
      PROVE  FlagTold'
  BY <1>1, CallbackFlag DEF FlagTold
<1>2. CASE BeginCall \/ ReaderStep
  BY <1>2, ReaderFlag DEF FlagTold
<1>3. CASE UNCHANGED vars
  BY <1>3 DEF vars, ring, readVars, FlagTold, used
<1> QED
  BY <1>1, <1>2, <1>3 DEF Next

LEMMA FlagToldAlways == Spec => [](Inv /\ FlagTold)
<1>1. Init => FlagTold
  BY DEF Init, FlagTold
<1> QED
  BY <1>1, InitInv, StepInv, FlagToldStep, PTL DEF Spec

\* The reader falls asleep on its input in the two clearing steps only.
LEMMA ReaderLoses ==
  ASSUME Inv, FlagTold, BeginCall \/ ReaderStep, Stranded'
  PROVE  waitflag /\ (LineClear \/ ReadClear) /\ pcR \in {"line_clear", "read_clear"}
<1>1. pcR' \in {"line_wait", "read_wait"}
  BY DEF Stranded, Satisfied
<1>2. CASE LineClear
  BY <1>2 DEF LineClear, FlagTold, Stranded, Satisfied, ring, used
<1>3. CASE ReadClear
  BY <1>3 DEF ReadClear, FlagTold, Stranded, Satisfied, ring, used
<1>4. CASE StripEol
  BY <1>1, <1>4 DEF StripEol, readVars
<1>5. CASE ReadCopy
  BY <1>1, <1>5 DEF ReadCopy
<1>6. CASE BeginCall
  BY <1>1, <1>6 DEF BeginCall, Entry
<1>7. CASE LineLock \/ LineFull \/ LineEmpty \/ LineWait \/ LineRelock \/ LineTake
           \/ StripDone \/ ValueCheck \/ ReadTest \/ ReadWait \/ ReadLock \/ ReadDone
  BY <1>1, <1>7 DEF LineLock, LineFull, LineEmpty, LineWait, LineRelock, LineTake, StripDone,
              ValueCheck, ReadTest, ReadWait, ReadLock, ReadDone, Return
<1> QED
  BY <1>2, <1>3, <1>4, <1>5, <1>6, <1>7 DEF ReaderStep

\* A wake-up is lost in one way only, for every cache and number of ports: by
\* clearing a flag that told of the input (uart_api.c lines 226 and 270).
THEOREM CacheWakeupLostAtClearing == Spec => WakeupLostAtClearing
<1>1. Inv /\ FlagTold /\ [Next]_vars =>
        [~ Stranded /\ Stranded' =>
           waitflag /\ (LineClear \/ ReadClear) /\ pcR \in {"line_clear", "read_clear"}]_vars
  <2> SUFFICES ASSUME Inv, FlagTold, Next, ~ Stranded, Stranded'
               PROVE  /\ waitflag /\ (LineClear \/ ReadClear)
                      /\ pcR \in {"line_clear", "read_clear"}
    OBVIOUS
  <2>1. ASSUME NEW p \in Ports, Receive(p) \/ Callback(p)
        PROVE  FALSE
    BY <2>1, CallbackFlag DEF Stranded, Satisfied
  <2> QED
    BY <2>1, ReaderLoses DEF Next
<1> QED
  BY <1>1, FlagToldAlways, PTL DEF Spec, WakeupLostAtClearing
=============================================================================
