----------------------- MODULE UIDemoCacheRefinement -----------------------
(***************************************************************************)
(* UIDemoCache implements ByteChannel, for every value of its constants:   *)
(* each step of the ring, as the lock and the copy loops let it be seen,   *)
(* stores a chunk, takes a byte, skips a line end, begins a read, or       *)
(* changes nothing.                                                        *)
(***************************************************************************)
EXTENDS UIDemoCacheProofs, SequenceTheorems

USE SizeAssumption, ByteAssumption, PortAssumption

\* The n bytes of ring c from offset h on.
View(c, h, n) == [k \in 1..n |-> c[SlotAt(h, k - 1)]]

\* How many bytes the reader can see.
Visible == used - InFlight

LEMMA ViewFacts ==
  ASSUME NEW c, NEW h, NEW n \in Nat, \A k \in 0..(n - 1) : c[SlotAt(h, k)] \in Bytes
  PROVE  /\ View(c, h, n) \in Seq(Bytes)
         /\ Len(View(c, h, n)) = n
         /\ \A k \in 1..n : View(c, h, n)[k] = c[SlotAt(h, k - 1)]
<1>1. \A k \in 1..n : c[SlotAt(h, k - 1)] \in Bytes
  <2>1. ASSUME NEW k \in 1..n
        PROVE  c[SlotAt(h, k - 1)] \in Bytes
    <3>1. k - 1 \in 0..(n - 1)
      OBVIOUS
    <3> QED
      BY <3>1
  <2> QED
    BY <2>1
<1>2. View(c, h, n) \in [1..n -> Bytes]
  BY <1>1 DEF View
<1>3. View(c, h, n) \in Seq(Bytes) /\ Len(View(c, h, n)) = n
  BY <1>2
<1> QED
  BY <1>3 DEF View

\* The entries of a concatenation.
LEMMA ConcatEntry ==
  ASSUME NEW s \in Seq(Bytes), NEW t \in Seq(Bytes), NEW k \in 1..(Len(s) + Len(t))
  PROVE  (s \o t)[k] = IF k <= Len(s) THEN s[k] ELSE t[k - Len(s)]
BY ConcatProperties

\* Two views are equal when their bytes are.
LEMMA ViewEqual ==
  ASSUME NEW c, NEW d, NEW h, NEW n \in Nat,
         \A k \in 0..(n - 1) : c[SlotAt(h, k)] \in Bytes /\ d[SlotAt(h, k)] = c[SlotAt(h, k)]
  PROVE  View(d, h, n) = View(c, h, n)
<1>1. ASSUME NEW k \in 1..n
      PROVE  d[SlotAt(h, k - 1)] = c[SlotAt(h, k - 1)]
  <2>1. k - 1 \in 0..(n - 1)
    OBVIOUS
  <2> QED
    BY <2>1
<1> QED
  BY <1>1 DEF View

\* Without its first byte a view is the view from the next offset.
LEMMA ViewTail ==
  ASSUME NEW c, NEW h \in 0..(CacheLen - 1), NEW n \in 1..CacheLen,
         \A k \in 0..(n - 1) : c[SlotAt(h, k)] \in Bytes
  PROVE  /\ View(c, h, n) # <<>>
         /\ Head(View(c, h, n)) = c[h]
         /\ View(c, Advance(h), n - 1) = Tail(View(c, h, n))
<1>1. /\ View(c, h, n) \in Seq(Bytes) /\ Len(View(c, h, n)) = n
      /\ \A k \in 1..n : View(c, h, n)[k] = c[SlotAt(h, k - 1)]
  BY ViewFacts
<1>2. SlotAt(h, 0) = h /\ \A k \in 0..(n - 1) : SlotAt(Advance(h), k) = SlotAt(h, k + 1)
  BY SlotFacts
<1>3. View(c, h, n) # <<>>
  BY <1>1, EmptySeq
<1>4. Head(View(c, h, n)) = c[h]
  <2>1. View(c, h, n)[1] = c[SlotAt(h, 0)]
    BY <1>1
  <2> QED
    BY <1>1, <1>2, <1>3, <2>1
<1>5. \A k \in 0..(n - 2) : c[SlotAt(Advance(h), k)] \in Bytes
  <2>1. ASSUME NEW k \in 0..(n - 2)
        PROVE  c[SlotAt(Advance(h), k)] \in Bytes
    <3>1. k + 1 \in 0..(n - 1) /\ k \in 0..(n - 1)
      OBVIOUS
    <3> QED
      BY <1>2, <3>1
  <2> QED
    BY <2>1
<1>6. /\ View(c, Advance(h), n - 1) \in Seq(Bytes)
      /\ Len(View(c, Advance(h), n - 1)) = n - 1
      /\ \A k \in 1..(n - 1) : View(c, Advance(h), n - 1)[k] = c[SlotAt(Advance(h), k - 1)]
  <2> DEFINE m == n - 1
             g == Advance(h)
  <2>1. m \in Nat /\ \A k \in 0..(m - 1) : c[SlotAt(g, k)] \in Bytes
    BY <1>5
  <2> HIDE DEF m, g
  <2>2. /\ View(c, g, m) \in Seq(Bytes) /\ Len(View(c, g, m)) = m
        /\ \A k \in 1..m : View(c, g, m)[k] = c[SlotAt(g, k - 1)]
    BY <2>1, ViewFacts
  <2> QED
    BY <2>2 DEF m, g
<1>7. /\ Tail(View(c, h, n)) \in Seq(Bytes) /\ Len(Tail(View(c, h, n))) = n - 1
      /\ \A k \in 1..(n - 1) : Tail(View(c, h, n))[k] = View(c, h, n)[k + 1]
  BY <1>1, <1>3, HeadTailProperties
<1>8. ASSUME NEW k \in 1..(n - 1)
      PROVE  View(c, Advance(h), n - 1)[k] = Tail(View(c, h, n))[k]
  <2>1. k + 1 \in 1..n /\ k - 1 \in 0..(n - 1) /\ (k + 1) - 1 = k /\ (k - 1) + 1 = k
    OBVIOUS
  <2>2. Tail(View(c, h, n))[k] = c[SlotAt(h, k)]
    BY <1>1, <1>7, <2>1
  <2>3. View(c, Advance(h), n - 1)[k] = c[SlotAt(h, k)]
    BY <1>2, <1>6, <2>1
  <2> QED
    BY <2>2, <2>3
<1>9. View(c, Advance(h), n - 1) = Tail(View(c, h, n))
  BY <1>6, <1>7, <1>8, SeqEqual
<1> QED
  BY <1>3, <1>4, <1>9

-----------------------------------------------------------------------------
(* What the reader can see.                                                *)

LEMMA StoredView == /\ Stored = View(cache, head, Visible)
                    /\ Stored' = View(cache', head', Visible')
BY DEF Stored, View, Visible, Slot

LEMMA VisibleFacts ==
  ASSUME Inv
  PROVE  /\ used \in 0..CacheLen /\ InFlight \in 0..used
         /\ Visible \in 0..used /\ Visible = used - InFlight
         /\ \A k \in 0..(used - 1) : cache[SlotAt(head, k)] \in Bytes
         /\ \A k \in 0..(Visible - 1) : cache[SlotAt(head, k)] \in Bytes
<1>1. used \in 0..CacheLen
  BY DEF used, Inv, TypeOK, RingTypeOK
<1>2. InFlight \in 0..used
  <2>1. CASE lock \in Ports
    <3>1. pcP[lock] = "copy" /\ from[lock] \in Nat
      BY <2>1 DEF LockHeld, Inv, TypeOK, PortTypeOK
    <3>2. from[lock] <= used
      BY <2>1, <3>1 DEF Inv, CopyProgress
    <3> QED
      BY <1>1, <2>1, <3>1, <3>2 DEF InFlight
  <2>2. CASE lock \notin Ports
    BY <1>1, <2>2 DEF InFlight
  <2> QED
    BY <2>1, <2>2
<1>3. \A k \in 0..(used - 1) : cache[SlotAt(head, k)] \in Bytes
  BY DEF Inv, StoredBytes, Slot
<1>4. Visible \in 0..used /\ Visible = used - InFlight
  BY <1>1, <1>2 DEF Visible
<1>5. \A k \in 0..(Visible - 1) : cache[SlotAt(head, k)] \in Bytes
  <2>1. ASSUME NEW k \in 0..(Visible - 1) PROVE k \in 0..(used - 1)
    BY <1>1, <1>4
  <2> QED
    BY <1>3, <2>1
<1> QED
  BY <1>1, <1>2, <1>3, <1>4, <1>5

LEMMA InitChannel == Init => Channel!Init
<1> SUFFICES ASSUME Init PROVE Channel!Init
  OBVIOUS
<1>1. Visible = 0
  BY DEF Init, Visible, used, InFlight, NoOne
<1>2. Stored = View(cache, head, 0)
  BY <1>1, StoredView
<1>3. Stored \in Seq(Bytes) /\ Len(Stored) = 0
  BY <1>2, ViewFacts
<1>4. Stored = <<>>
  BY <1>3, EmptySeq
<1> QED
  BY <1>4 DEF Init, Channel!Init

\* A step that touches neither the ring nor the bytes in flight.
LEMMA HiddenStep ==
  ASSUME Inv, UNCHANGED ring, InFlight' = InFlight
  PROVE  Stored' = Stored
BY StoredView DEF ring, Visible, used

\* The lock is not a port's: nothing is in flight.
LEMMA NothingInFlight ==
  /\ lock \notin Ports => InFlight = 0
  /\ lock' \notin Ports => InFlight' = 0
BY DEF InFlight

-----------------------------------------------------------------------------
(* The callbacks.                                                          *)

LEMMA StoreByteStep ==
  ASSUME Inv, NEW p \in Ports, StoreByte(p)
  PROVE  Stored' = Stored
<1>1. /\ lock = p /\ lock' = p /\ InFlight = from[p] /\ from[p] \in Nat
      /\ head \in 0..(CacheLen - 1) /\ tail = SlotAt(head, used)
      /\ cache \in [0..(CacheLen - 1) -> Bytes \cup {Junk}]
  BY DEF StoreByte, InFlight, Inv, LockHeld, TypeOK, RingTypeOK, PortTypeOK, RingAgrees, Slot
<1>2. InFlight' = InFlight + 1
  <2>1. from'[p] = from[p] + 1
    BY DEF StoreByte, Inv, TypeOK, PortTypeOK
  <2> QED
    BY <1>1, <2>1 DEF InFlight
<1>3. used' = used + 1 /\ head' = head /\ used < CacheLen
  BY DEF StoreByte, used, Inv, TypeOK, RingTypeOK, PortTypeOK, CopyProgress
<1>4. Visible' = Visible /\ Visible \in 0..used /\ used \in 0..(CacheLen - 1)
  BY <1>2, <1>3, VisibleFacts DEF Visible
<1>5. ASSUME NEW k \in 0..(Visible - 1)
      PROVE  cache[SlotAt(head, k)] \in Bytes /\ cache'[SlotAt(head, k)] = cache[SlotAt(head, k)]
  <2>1. k \in 0..(CacheLen - 1) /\ k # used
    BY <1>4
  <2>2. SlotAt(head, k) # tail /\ SlotAt(head, k) \in 0..(CacheLen - 1)
    <3>1. \A i, j \in 0..(CacheLen - 1) : SlotAt(head, i) = SlotAt(head, j) => i = j
      BY <1>1, SlotFacts
    <3>2. SlotAt(head, k) \in 0..(CacheLen - 1)
      BY <1>1, <2>1 DEF SlotAt
    <3> QED
      BY <1>1, <1>4, <2>1, <3>1, <3>2
  <2>3. cache' = [cache EXCEPT ![tail] = data[p][from[p] + 1]]
    BY DEF StoreByte
  <2> QED
    BY <1>1, <2>2, <2>3, VisibleFacts
<1>6. View(cache', head, Visible) = View(cache, head, Visible)
  <2> DEFINE v == Visible
  <2>1. v \in Nat
    BY <1>4
  <2> HIDE DEF v
  <2>2. \A k \in 0..(v - 1) : cache[SlotAt(head, k)] \in Bytes
                               /\ cache'[SlotAt(head, k)] = cache[SlotAt(head, k)]
    BY <1>5 DEF v
  <2>3. View(cache', head, v) = View(cache, head, v)
    BY <2>1, <2>2, ViewEqual
  <2> QED
    BY <2>3 DEF v
<1> QED
  BY <1>3, <1>4, <1>6, StoredView

LEMMA StoreUnlockStep ==
  ASSUME Inv, NEW p \in Ports, StoreUnlock(p)
  PROVE  Stored' = Stored \o Channel!Fitting(data[p], CacheLen - Len(Stored))
<1> DEFINE c == data[p]
           n == from[p]
           v == Visible
           w == View(cache, head, used)
<1>1. /\ lock = p /\ pcP[p] = "copy" /\ c \in Seq(Bytes) /\ Len(c) \in Nat
      /\ n \in Nat /\ InFlight = n /\ freelen \in Nat
  <2>1. lock = p /\ pcP[p] = "copy"
    BY DEF StoreUnlock, Inv, LockHeld
  <2>2. c \in Chunks \cup {<<>>} /\ n \in Nat
    BY DEF Inv, TypeOK, PortTypeOK
  <2>3. freelen \in Nat
    BY DEF Inv, TypeOK, RingTypeOK
  <2>4. c \in Seq(Bytes) /\ Len(c) \in Nat
    BY <2>2, EmptySeq, LenProperties
  <2> QED
    BY <2>1, <2>2, <2>3, <2>4 DEF InFlight
<1>2. n = Clip(Len(c), freelen + n) /\ n <= Len(c)
  <2>1. n + copylen[p] = Clip(Len(c), freelen + n) /\ copylen[p] = 0
    BY <1>1 DEF StoreUnlock, Inv, CopyProgress
  <2> QED
    BY <1>1, <2>1 DEF Clip
<1>3. /\ used \in 0..CacheLen /\ v \in 0..used /\ v = used - n
      /\ CacheLen - v = freelen + n
  BY <1>1, VisibleFacts DEF used
<1>4. Stored = View(cache, head, v) /\ Stored' = w
  <2>1. UNCHANGED ring /\ lock' = NoOne
    BY DEF StoreUnlock
  <2>2. InFlight' = 0
    BY <2>1, NothingInFlight
  <2>3. cache' = cache /\ head' = head /\ Visible' = used
    BY <1>3, <2>1, <2>2 DEF ring, Visible, used
  <2> QED
    BY <2>3, StoredView
<1>5. /\ Stored \in Seq(Bytes) /\ Len(Stored) = v
      /\ \A k \in 1..v : Stored[k] = cache[SlotAt(head, k - 1)]
  <2>1. v \in Nat /\ \A k \in 0..(v - 1) : cache[SlotAt(head, k)] \in Bytes
    BY <1>3, VisibleFacts
  <2> HIDE DEF v
  <2> QED
    BY <1>4, <2>1, ViewFacts
<1>6. /\ w \in Seq(Bytes) /\ Len(w) = used
      /\ \A k \in 1..used : w[k] = cache[SlotAt(head, k - 1)]
  <2> DEFINE u == used
  <2>1. u \in Nat /\ \A k \in 0..(u - 1) : cache[SlotAt(head, k)] \in Bytes
    BY <1>3, VisibleFacts
  <2> HIDE DEF u
  <2>2. /\ View(cache, head, u) \in Seq(Bytes) /\ Len(View(cache, head, u)) = u
        /\ \A k \in 1..u : View(cache, head, u)[k] = cache[SlotAt(head, k - 1)]
    BY <2>1, ViewFacts
  <2> QED
    BY <2>2 DEF u
<1>7. Channel!Fitting(c, CacheLen - Len(Stored)) = SubSeq(c, 1, n)
  BY <1>2, <1>3, <1>5 DEF Channel!Fitting, Clip
<1>8. /\ SubSeq(c, 1, n) \in Seq(Bytes) /\ Len(SubSeq(c, 1, n)) = n
      /\ \A i \in 1..n : SubSeq(c, 1, n)[i] = c[i]
  <2>1. \A i \in 1..n : c[i] \in Bytes
    BY <1>1, <1>2
  <2> HIDE DEF c, n
  <2> QED
    BY <1>1, <2>1, SubSeqProperties
<1>9. \A i \in 1..n : cache[SlotAt(head, v + i - 1)] = c[i]
  BY <1>1, <1>3 DEF Inv, StoredBytes, Slot
<1> HIDE DEF c, n, v, w
<1>10. ASSUME NEW k \in 1..used
       PROVE  w[k] = (Stored \o SubSeq(c, 1, n))[k]
  <2>1. (Stored \o SubSeq(c, 1, n))[k] = IF k <= v THEN Stored[k] ELSE SubSeq(c, 1, n)[k - v]
    <3>1. k \in 1..(Len(Stored) + Len(SubSeq(c, 1, n)))
      BY <1>1, <1>3, <1>5, <1>8
    <3> DEFINE s == Stored
               t == SubSeq(c, 1, n)
    <3>2. s \in Seq(Bytes) /\ t \in Seq(Bytes) /\ Len(s) = v /\ k \in 1..(Len(s) + Len(t))
      BY <1>5, <1>8, <3>1
    <3> HIDE DEF s, t
    <3>3. (s \o t)[k] = IF k <= Len(s) THEN s[k] ELSE t[k - Len(s)]
      BY <3>2, ConcatEntry
    <3> QED
      BY <3>2, <3>3 DEF s, t
  <2>2. CASE k <= v
    <3>1. k \in 1..v
      BY <1>3, <2>2
    <3>2. Stored[k] = cache[SlotAt(head, k - 1)]
      BY <1>5, <3>1
    <3> QED
      BY <1>6, <2>1, <2>2, <3>2
  <2>3. CASE k > v
    <3>1. k - v \in 1..n /\ v + (k - v) - 1 = k - 1
      BY <1>1, <1>3, <2>3
    <3>2. cache[SlotAt(head, k - 1)] = c[k - v]
      BY <1>9, <3>1
    <3>3. SubSeq(c, 1, n)[k - v] = c[k - v]
      BY <1>8, <3>1
    <3>4. ~ (k <= v)
      BY <1>3, <2>3
    <3> QED
      BY <1>6, <2>1, <3>2, <3>3, <3>4
  <2>4. k <= v \/ k > v
    BY <1>3
  <2> QED
    BY <2>2, <2>3, <2>4
<1>11. /\ Stored \o SubSeq(c, 1, n) \in Seq(Bytes)
       /\ Len(Stored \o SubSeq(c, 1, n)) = used
  BY <1>1, <1>3, <1>5, <1>8, ConcatProperties
<1> QED
  <2>1. w = Stored \o SubSeq(c, 1, n)
    BY <1>6, <1>10, <1>11, SeqEqual
  <2> QED
    BY <1>4, <1>7, <2>1 DEF c

-----------------------------------------------------------------------------
(* The reader.                                                             *)

\* A byte leaves the ring: it is the channel's head.
LEMMA TakeHeadStep ==
  ASSUME Inv, lock = Reader, lock' = Reader, used > 0, TakeHead
  PROVE  /\ Stored # <<>> /\ Head(Stored) = cache[head] /\ Stored' = Tail(Stored)
<1>1. /\ InFlight = 0 /\ InFlight' = 0
  BY NothingInFlight
<1>2. /\ cache' = cache /\ head' = Advance(head) /\ used' = used - 1
  BY DEF TakeHead, used, Inv, TypeOK, RingTypeOK
<1>3. /\ used \in 1..CacheLen /\ Visible = used /\ Visible' = used - 1
      /\ head \in 0..(CacheLen - 1)
  BY <1>1, <1>2, VisibleFacts DEF Visible, Inv, TypeOK, RingTypeOK
<1> DEFINE n == used
<1>4. n \in 1..CacheLen /\ \A k \in 0..(n - 1) : cache[SlotAt(head, k)] \in Bytes
  BY <1>3, VisibleFacts
<1> HIDE DEF n
<1>5. /\ View(cache, head, n) # <<>> /\ Head(View(cache, head, n)) = cache[head]
      /\ View(cache, Advance(head), n - 1) = Tail(View(cache, head, n))
  BY <1>3, <1>4, ViewTail
<1> QED
  BY <1>2, <1>3, <1>5, StoredView DEF n

LEMMA LineTakeStep ==
  ASSUME Inv, LineTake
  PROVE  Channel!Take \/ Channel!Skip
<1>1. /\ lock = Reader /\ lock' = Reader /\ used > 0 /\ TakeHead
      /\ \A i \in 1..Len(buf) : buf[i] \notin Eol
      /\ buf \in Seq(Bytes)
  BY DEF LineTake, Inv, TypeOK, RingTypeOK, ReaderTypeOK, LockHeld, ReadProgress, WakeMeansData, used
<1>2. /\ Stored # <<>> /\ Head(Stored) = cache[head] /\ Stored' = Tail(Stored)
  BY <1>1, TakeHeadStep
<1>3. CASE cache[head] \notin Eol
  BY <1>2, <1>3 DEF LineTake, Channel!Take
<1>4. CASE cache[head] \in Eol
  <2>1. PICK prev \in BOOLEAN :
          /\ PrevIsEol(prev)
          /\ buf' = IF prev /\ buf # <<>> THEN SubSeq(buf, 1, Len(buf) - 1) ELSE buf
    BY <1>4 DEF LineTake
  <2>2. buf # <<>> => ~ prev
    <3>1. ASSUME buf # <<>>
          PROVE  buf[Len(buf)] \notin Eol
      <4>1. Len(buf) \in 1..Len(buf)
        BY <1>1, <3>1, EmptySeq
      <4> QED
        BY <1>1, <4>1
    <3> QED
      BY <2>1, <3>1 DEF PrevIsEol
  <2>3. buf' = buf
    BY <2>1, <2>2
  <2> QED
    BY <1>2, <1>4, <2>3 DEF Channel!Skip
<1> QED
  BY <1>3, <1>4

LEMMA StripEolStep ==
  ASSUME Inv, StripEol
  PROVE  Channel!Skip
<1>1. /\ lock = Reader /\ lock' = Reader /\ used > 0 /\ TakeHead /\ buf' = buf
      /\ cache[head] \in Eol
  BY DEF StripEol, Inv, TypeOK, RingTypeOK, LockHeld, used, readVars
<1> QED
  BY <1>1, TakeHeadStep DEF Channel!Skip

LEMMA ReadCopyStep ==
  ASSUME Inv, ReadCopy
  PROVE  Channel!Take
<1>1. /\ lock = Reader /\ lock' = Reader /\ used > 0 /\ TakeHead
      /\ buf' = Append(buf, cache[head])
  <2>1. want > 0 /\ want \in Nat /\ want <= used /\ used \in 0..CacheLen
    BY VisibleFacts DEF ReadCopy, Inv, TypeOK, ReaderTypeOK, ReadProgress
  <2> QED
    BY <2>1 DEF ReadCopy, Inv, LockHeld
<1> QED
  BY <1>1, TakeHeadStep DEF Channel!Take

\* The steps that move the lock, the flag and the program counter only.
Quiet == \/ LineLock \/ LineFull \/ LineEmpty \/ LineClear \/ LineWait \/ LineRelock
         \/ StripDone \/ ReadTest \/ ReadClear \/ ReadWait \/ ReadLock \/ ReadDone

LEMMA QuietStep ==
  ASSUME Inv, Quiet
  PROVE  UNCHANGED Channel!chVars
<1>1. UNCHANGED ring /\ from' = from /\ buf' = buf
  BY DEF Quiet, LineLock, LineFull, LineEmpty, LineClear, LineWait, LineRelock, StripDone,
         ReadTest, ReadClear, ReadWait, ReadLock, ReadDone, portVars
<1>2. \/ lock' = lock
      \/ lock \notin Ports /\ lock' \notin Ports
  BY DEF Quiet, LineLock, LineFull, LineEmpty, LineClear, LineWait, LineRelock, StripDone,
         ReadTest, ReadClear, ReadWait, ReadLock, ReadDone, Return, Inv, LockHeld
<1>3. InFlight' = InFlight
  BY <1>1, <1>2 DEF InFlight
<1> QED
  BY <1>1, <1>3, HiddenStep DEF Channel!chVars

LEMMA CallStep ==
  ASSUME Inv, BeginCall \/ ValueCheck
  PROVE  [Channel!Next]_(Channel!chVars)
<1>1. UNCHANGED ring /\ lock' = lock /\ from' = from /\ (buf' = <<>> \/ buf' = buf)
  BY DEF BeginCall, ValueCheck, portVars
<1>2. Stored' = Stored
  BY <1>1, HiddenStep DEF InFlight
<1> QED
  BY <1>1, <1>2 DEF Channel!Next, Channel!Begin, Channel!chVars

-----------------------------------------------------------------------------
\* Every step is a step of the channel or changes nothing of it.
LEMMA ChannelStep == Inv /\ [Next]_vars => [Channel!Next]_(Channel!chVars)
<1> SUFFICES ASSUME Inv, [Next]_vars PROVE [Channel!Next]_(Channel!chVars)
  OBVIOUS
<1>1. ASSUME NEW p \in Ports, Receive(p) \/ StoreLock(p) \/ StoreByte(p)
      PROVE  UNCHANGED Channel!chVars
  <2>1. CASE StoreByte(p)
    BY <2>1, StoreByteStep DEF StoreByte, readVars, Channel!chVars
  <2>2. CASE Receive(p)
    <3>1. UNCHANGED ring /\ lock' = lock /\ from' = from /\ buf' = buf
      BY <2>2 DEF Receive, readVars
    <3> QED
      BY <3>1, HiddenStep DEF InFlight, Channel!chVars
  <2>3. CASE StoreLock(p)
    <3>1. UNCHANGED ring /\ lock = NoOne /\ lock' = p /\ from'[p] = 0 /\ buf' = buf
      BY <2>3 DEF StoreLock, readVars, Inv, CopyProgress
    <3>2. InFlight' = InFlight
      BY <3>1 DEF InFlight
    <3> QED
      BY <3>1, <3>2, HiddenStep DEF Channel!chVars
  <2> QED
    BY <1>1, <2>1, <2>2, <2>3
<1>2. ASSUME NEW p \in Ports, StoreUnlock(p)
      PROVE  Channel!Store
  <2>1. data[p] \in Chunks
    BY <1>2 DEF StoreUnlock, Inv, TypeOK, PortTypeOK, CopyProgress
  <2>2. Stored' = Stored \o Channel!Fitting(data[p], CacheLen - Len(Stored)) /\ buf' = buf
    BY <1>2, StoreUnlockStep DEF StoreUnlock, readVars
  <2> QED
    BY <2>1, <2>2 DEF Channel!Store
<1>3. CASE BeginCall
  BY <1>3, CallStep
<1>4. CASE ReaderStep
  BY <1>4, CallStep, QuietStep, LineTakeStep, StripEolStep, ReadCopyStep
  DEF ReaderStep, Quiet, Channel!Next
<1>5. CASE UNCHANGED vars
  <2>1. UNCHANGED ring /\ lock' = lock /\ from' = from /\ buf' = buf
    BY <1>5 DEF vars, portVars, readVars
  <2> QED
    BY <2>1, HiddenStep DEF InFlight, Channel!chVars
<1> QED
  BY <1>1, <1>2, <1>3, <1>4, <1>5 DEF Next, Callback, Channel!Next

\* The cache is a bounded FIFO of bytes: chunks are stored whole but for the
\* tail that does not fit, bytes are taken in order, and only line ends are
\* skipped (CacheDataToUIDemo, UartRead and UartReadLine together).
THEOREM CacheImplementsChannel == Spec => ChannelSpec
<1>1. Spec => []Inv
  BY CacheInvariant
<1> QED
  BY <1>1, InitChannel, ChannelStep, PTL DEF Spec, ChannelSpec, Channel!Spec
=============================================================================
