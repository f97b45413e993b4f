---------------------------- MODULE UIDemoCache ----------------------------
(***************************************************************************)
(* The input path of the V1 demo (src/sc_demo/V1/src/uart_api.c): the UART *)
(* receive callbacks put bytes into the ring buffer UIDemoDatacache, the   *)
(* one UI task takes them out with UartReadLine, UartRead and              *)
(* UartReadValue.  A mutex guards the ring, an event flag tells the reader *)
(* that bytes arrived.                                                     *)
(*                                                                         *)
(* One action is one step between two points where another task can run:   *)
(* a lock, an unlock, a flag call, and one byte of a copy loop (each byte  *)
(* stored sets the flag, and the reader waits on the flag without holding  *)
(* the lock).  Pointers are offsets into the cache.                        *)
(***************************************************************************)
EXTENDS Integers, Sequences, FiniteSets

CONSTANTS Ports,      \* the ports whose callback feeds the cache
          CacheLen,   \* UIDEMO_CACHE_MAXLEN
          Bytes,      \* what a byte can be, as far as the readers tell apart
          Eol,        \* '\r' and '\n'
          Digits,     \* what isdigit accepts
          Chunks,     \* what one callback may read from its port
          LineLens,   \* the maxLen of UartReadLine's callers
          ReadLens,   \* the len of UartRead's callers
          ValueLen    \* the buffer length of UartReadValue

Reader == "reader"
NoOne  == "none"
Junk   == "junk"      \* an uninitialised cache slot

ASSUME SizeAssumption ==
  /\ CacheLen \in Nat \ {0}
  /\ \A n \in LineLens : n \in Nat /\ n > 0
  /\ \A n \in ReadLens : n \in Nat
  /\ ValueLen \in Nat /\ ValueLen > 0

ASSUME ByteAssumption ==
  /\ Eol \subseteq Bytes /\ Digits \subseteq Bytes /\ Eol \cap Digits = {}
  /\ Junk \notin Bytes
  /\ Chunks \subseteq Seq(Bytes) \ {<<>>}

ASSUME PortAssumption == Reader \notin Ports /\ NoOne \notin Ports

VARIABLES
  cacheOk,   \* the malloc of UIDemoDAtacacheInit succeeded (cache # NULL)
  cache,     \* the bytes of the ring
  head,      \* the offset the reader takes from
  tail,      \* the offset a callback writes to
  freelen,   \* the free bytes, as the code counts them
  waitflag,  \* bit 1 of the event flag
  lock,      \* who holds the mutex
  pcP,       \* where each port's callback is
  data,      \* the chunk each callback is caching
  from,      \* how many bytes of it are copied
  copylen,   \* how many it still has to copy
  pcR,       \* where the UI task is
  call,      \* the read it is making
  buf,       \* the bytes the read has obtained
  want,      \* what UartRead still has to copy
  ret        \* the value of the last read

ring     == <<cache, head, tail, freelen>>
portVars == <<pcP, data, from, copylen>>
readVars == <<pcR, call, buf, want, ret>>
vars     == <<cacheOk, ring, waitflag, lock, portVars, readVars>>

NoCall == [op |-> "none", len |-> 0]
Calls  == [op : {"line"}, len : LineLens]
            \cup [op : {"read", "poll"}, len : ReadLens]
            \cup [op : {"value"}, len : {ValueLen}]

used == CacheLen - freelen

-----------------------------------------------------------------------------
(* Mutants: plausible bugs, which the properties must notice.              *)

\* The wrap-around test is off by one.
MutAdvance(i) == IF i + 1 > CacheLen THEN 0 ELSE i + 1

\* The length is not clipped to the free space.
MutClip(len, free) == len

\* The chunk is copied without the lock.
MutStoreLock(p) ==
  /\ pcP[p] = "lock"
  /\ lock' = p
  /\ pcP' = [pcP EXCEPT ![p] = "copy"]
  /\ copylen' = [copylen EXCEPT ![p] = IF Len(data[p]) <= freelen THEN Len(data[p]) ELSE freelen]
  /\ UNCHANGED <<cacheOk, ring, waitflag, data, from, readVars>>

\* The flag is set only when the cache was empty.
MutStoreByte(p) ==
  /\ pcP[p] = "copy"
  /\ copylen[p] > 0
  /\ cache' = [cache EXCEPT ![tail] = data[p][from[p] + 1]]
  /\ tail' = IF tail + 1 >= CacheLen THEN 0 ELSE tail + 1
  /\ from' = [from EXCEPT ![p] = @ + 1]
  /\ copylen' = [copylen EXCEPT ![p] = @ - 1]
  /\ freelen' = freelen - 1
  /\ waitflag' = (waitflag \/ used = 0)
  /\ UNCHANGED <<cacheOk, head, lock, pcP, data, readVars>>

\* A read does not give the byte's place back.
MutTakeHead == head' = (IF head + 1 >= CacheLen THEN 0 ELSE head + 1)
               /\ UNCHANGED <<cache, tail, freelen>>

\* The reader waits for input with the lock held.
MutLineEmpty ==
  /\ pcR = "line"
  /\ Len(buf) + 1 < call.len
  /\ freelen >= CacheLen
  /\ pcR' = "line_clear"
  /\ UNCHANGED <<cacheOk, ring, waitflag, lock, portVars, call, buf, want, ret>>

\* An old flag is not cleared before the wait.
MutLineClear ==
  /\ pcR = "line_clear"
  /\ pcR' = "line_wait"
  /\ UNCHANGED <<cacheOk, ring, waitflag, lock, portVars, call, buf, want, ret>>

\* The wait for len bytes is an if, not a while.
MutReadWait ==
  /\ pcR = "read_wait"
  /\ waitflag
  /\ waitflag' = FALSE
  /\ pcR' = "read_lock"
  /\ UNCHANGED <<cacheOk, ring, lock, portVars, call, buf, want, ret>>
-----------------------------------------------------------------------------

\* The ring offset after i.
Advance(i) == IF i + 1 >= CacheLen THEN 0 ELSE i + 1

\* How much of a chunk is copied when free bytes are left.
Clip(len, free) == IF len <= free THEN len ELSE free

\* A port's callback gives up the lock and returns.
CallbackReturns(p) ==
  /\ pcP' = [pcP EXCEPT ![p] = "idle"]
  /\ data' = [data EXCEPT ![p] = <<>>]
  /\ from' = [from EXCEPT ![p] = 0]
  /\ copylen' = [copylen EXCEPT ![p] = 0]

-----------------------------------------------------------------------------
(* The callbacks: UartCBFunc and CacheDataToUIDemo.                        *)

\* The driver calls back with a chunk; without a cache it is dropped.
Receive(p) ==
  /\ pcP[p] = "idle"
  /\ \E c \in Chunks :
       IF cacheOk
       THEN /\ pcP' = [pcP EXCEPT ![p] = "lock"]
            /\ data' = [data EXCEPT ![p] = c]
       ELSE UNCHANGED <<pcP, data>>
  /\ UNCHANGED <<cacheOk, ring, waitflag, lock, from, copylen, readVars>>

\* The lock is taken and the length clipped to the free space.
StoreLock(p) ==
  /\ pcP[p] = "lock"
  /\ lock = NoOne
  /\ lock' = p
  /\ pcP' = [pcP EXCEPT ![p] = "copy"]
  /\ copylen' = [copylen EXCEPT ![p] = Clip(Len(data[p]), freelen)]
  /\ UNCHANGED <<cacheOk, ring, waitflag, data, from, readVars>>

\* One turn of the copy loop: a byte is stored, and the flag is set.
StoreByte(p) ==
  /\ pcP[p] = "copy"
  /\ copylen[p] > 0
  /\ cache' = [cache EXCEPT ![tail] = data[p][from[p] + 1]]
  /\ tail' = Advance(tail)
  /\ from' = [from EXCEPT ![p] = @ + 1]
  /\ copylen' = [copylen EXCEPT ![p] = @ - 1]
  /\ freelen' = freelen - 1
  /\ waitflag' = TRUE
  /\ UNCHANGED <<cacheOk, head, lock, pcP, data, readVars>>

StoreUnlock(p) ==
  /\ pcP[p] = "copy"
  /\ copylen[p] = 0
  /\ lock' = NoOne
  /\ CallbackReturns(p)
  /\ UNCHANGED <<cacheOk, ring, waitflag, readVars>>

-----------------------------------------------------------------------------
(* The UI task.                                                            *)

\* Where a call starts once its buffer is cleared.
Entry(op) == IF op = "read" THEN "read_test"
             ELSE IF op = "poll" THEN "read_lock" ELSE "line_lock"

\* A demo asks for input.  Without a cache every call returns 0 at once,
\* except UartReadValue, which asks again.
BeginCall ==
  /\ pcR = "idle"
  /\ \E c \in Calls :
       /\ call' = c
       /\ buf' = <<>>
       /\ ret' = 0
       /\ pcR' = IF cacheOk THEN Entry(c.op)
                 ELSE IF c.op = "value" THEN "spin" ELSE "idle"
  /\ UNCHANGED <<cacheOk, ring, waitflag, lock, portVars, want>>

\* The head byte leaves the ring.
TakeHead == head' = Advance(head) /\ freelen' = freelen + 1
            /\ UNCHANGED <<cache, tail>>

\* A read gives up the lock with result r; UartReadValue looks at it first.
Return(r) ==
  /\ lock' = NoOne
  /\ ret' = r
  /\ pcR' = IF call.op = "value" THEN "check" ELSE "idle"

LineLock ==
  /\ pcR = "line_lock"
  /\ lock = NoOne
  /\ lock' = Reader
  /\ pcR' = "line"
  /\ UNCHANGED <<cacheOk, ring, waitflag, portVars, call, buf, want, ret>>

\* The loop test fails: the buffer holds maxLen - 1 bytes.
LineFull ==
  /\ pcR = "line"
  /\ Len(buf) + 1 >= call.len
  /\ Return(Len(buf))
  /\ UNCHANGED <<cacheOk, ring, waitflag, portVars, call, buf, want>>

\* The cache is empty: the lock is released to wait for input.
LineEmpty ==
  /\ pcR = "line"
  /\ Len(buf) + 1 < call.len
  /\ freelen >= CacheLen
  /\ lock' = NoOne
  /\ pcR' = "line_clear"
  /\ UNCHANGED <<cacheOk, ring, waitflag, portVars, call, buf, want, ret>>

\* FlagWait(SC_NO_SUSPEND): whatever the flag held is forgotten.
LineClear ==
  /\ pcR = "line_clear"
  /\ waitflag' = FALSE
  /\ pcR' = "line_wait"
  /\ UNCHANGED <<cacheOk, ring, lock, portVars, call, buf, want, ret>>

\* FlagWait(SC_SUSPEND).
LineWait ==
  /\ pcR = "line_wait"
  /\ waitflag
  /\ waitflag' = FALSE
  /\ pcR' = "line_relock"
  /\ UNCHANGED <<cacheOk, ring, lock, portVars, call, buf, want, ret>>

\* The lock is taken again; the byte is read without a second look at freelen.
LineRelock ==
  /\ pcR = "line_relock"
  /\ lock = NoOne
  /\ lock' = Reader
  /\ pcR' = "line_take"
  /\ UNCHANGED <<cacheOk, ring, waitflag, portVars, call, buf, want, ret>>

\* What the test of *(to - 2) sees.  With nothing in the buffer it reads the
\* byte before it, which may be anything.
PrevIsEol(prev) == buf # <<>> => (prev <=> buf[Len(buf)] \in Eol)

\* A byte is taken.  A line end is dropped from the buffer, with a line end
\* before it if there seems to be one; what is left is the result.
LineTake ==
  /\ \/ pcR = "line_take"
     \/ pcR = "line" /\ Len(buf) + 1 < call.len /\ freelen < CacheLen
  /\ TakeHead
  /\ IF cache[head] \in Eol
     THEN /\ \E prev \in BOOLEAN :
               /\ PrevIsEol(prev)
               /\ ret' = IF prev THEN Len(buf) - 1 ELSE Len(buf)
               /\ buf' = IF prev /\ buf # <<>> THEN SubSeq(buf, 1, Len(buf) - 1) ELSE buf
          /\ pcR' = "strip"
     ELSE /\ buf' = Append(buf, cache[head])
          /\ pcR' = "line"
          /\ UNCHANGED ret
  /\ UNCHANGED <<cacheOk, waitflag, lock, portVars, call, want>>

\* After a line end: the line ends that follow it are removed as well...
StripEol ==
  /\ pcR = "strip"
  /\ freelen < CacheLen
  /\ cache[head] \in Eol
  /\ TakeHead
  /\ UNCHANGED <<cacheOk, waitflag, lock, portVars, readVars>>

\* ...as far as they are in the cache by now.
StripDone ==
  /\ pcR = "strip"
  /\ freelen < CacheLen => cache[head] \notin Eol
  /\ Return(ret)
  /\ UNCHANGED <<cacheOk, ring, waitflag, portVars, call, buf, want>>

\* UartReadValue: only a non-empty line of digits is accepted.
AllDigits(s) == \A i \in 1..Len(s) : s[i] \in Digits

ValueCheck ==
  /\ pcR = "check"
  /\ IF ret <= 0 \/ ~ AllDigits(buf)
     THEN pcR' = "line_lock" /\ buf' = <<>>
     ELSE pcR' = "idle" /\ UNCHANGED buf
  /\ UNCHANGED <<cacheOk, ring, waitflag, lock, portVars, call, want, ret>>

\* UartRead(suspend): wait until len bytes are cached; freelen is read
\* without the lock.
ReadTest ==
  /\ pcR = "read_test"
  /\ pcR' = IF call.len > used THEN "read_clear" ELSE "read_lock"
  /\ UNCHANGED <<cacheOk, ring, waitflag, lock, portVars, call, buf, want, ret>>

ReadClear ==
  /\ pcR = "read_clear"
  /\ waitflag' = FALSE
  /\ pcR' = "read_wait"
  /\ UNCHANGED <<cacheOk, ring, lock, portVars, call, buf, want, ret>>

ReadWait ==
  /\ pcR = "read_wait"
  /\ waitflag
  /\ waitflag' = FALSE
  /\ pcR' = "read_test"
  /\ UNCHANGED <<cacheOk, ring, lock, portVars, call, buf, want, ret>>

ReadLock ==
  /\ pcR = "read_lock"
  /\ lock = NoOne
  /\ lock' = Reader
  /\ want' = Clip(call.len, used)
  /\ pcR' = "read_copy"
  /\ UNCHANGED <<cacheOk, ring, waitflag, portVars, call, buf, ret>>

ReadCopy ==
  /\ pcR = "read_copy"
  /\ want > 0
  /\ TakeHead
  /\ buf' = Append(buf, cache[head])
  /\ want' = want - 1
  /\ UNCHANGED <<cacheOk, waitflag, lock, portVars, pcR, call, ret>>

ReadDone ==
  /\ pcR = "read_copy"
  /\ want = 0
  /\ Return(Len(buf))
  /\ UNCHANGED <<cacheOk, ring, waitflag, portVars, call, buf, want>>

-----------------------------------------------------------------------------
(* UIDemoDAtacacheInit; sDemo_UartInit registers the callbacks after it.   *)
Init ==
  /\ cacheOk \in BOOLEAN
  /\ cache = [i \in 0..(CacheLen - 1) |-> Junk]
  /\ head = 0 /\ tail = 0 /\ freelen = CacheLen
  /\ waitflag = FALSE /\ lock = NoOne
  /\ pcP = [p \in Ports |-> "idle"]
  /\ data = [p \in Ports |-> <<>>]
  /\ from = [p \in Ports |-> 0]
  /\ copylen = [p \in Ports |-> 0]
  /\ pcR = "idle" /\ call = NoCall /\ buf = <<>> /\ want = 0 /\ ret = 0

Callback(p) == StoreLock(p) \/ StoreByte(p) \/ StoreUnlock(p)

ReaderStep == \/ LineLock \/ LineFull \/ LineEmpty \/ LineClear \/ LineWait
              \/ LineRelock \/ LineTake \/ StripEol \/ StripDone \/ ValueCheck
              \/ ReadTest \/ ReadClear \/ ReadWait \/ ReadLock \/ ReadCopy
              \/ ReadDone

Next == \/ \E p \in Ports : Receive(p) \/ Callback(p)
        \/ BeginCall \/ ReaderStep

Spec == Init /\ [][Next]_vars

-----------------------------------------------------------------------------
(* Fairness.  The driver task and the UI task are scheduled while they can *)
(* run; the mutex is created SC_FIFO, so a waiter gets it in its turn.     *)
(* Nothing says that the user ever types: Receive and BeginCall are unfair.*)
TaskFairness ==
  /\ \A p \in Ports : SF_vars(StoreLock(p)) /\ WF_vars(Callback(p))
  /\ SF_vars(LineLock \/ LineRelock \/ ReadLock)
  /\ WF_vars(ReaderStep)

FairSpec == Spec /\ TaskFairness

-----------------------------------------------------------------------------
(* Properties.                                                             *)

PortPCs   == {"idle", "lock", "copy"}
ReaderPCs == {"idle", "spin", "check", "strip", "line_lock", "line", "line_clear",
              "line_wait", "line_relock", "line_take", "read_test", "read_clear",
              "read_wait", "read_lock", "read_copy"}

FlagTypeOK == cacheOk \in BOOLEAN /\ waitflag \in BOOLEAN

RingTypeOK ==
  /\ cache \in [0..(CacheLen - 1) -> Bytes \cup {Junk}]
  /\ head \in 0..(CacheLen - 1) /\ tail \in 0..(CacheLen - 1)
  /\ freelen \in 0..CacheLen

PortTypeOK ==
  /\ lock \in Ports \cup {Reader, NoOne}
  /\ pcP \in [Ports -> PortPCs]
  /\ data \in [Ports -> Chunks \cup {<<>>}]
  /\ from \in [Ports -> Nat] /\ copylen \in [Ports -> Nat]

ReaderTypeOK ==
  /\ pcR \in ReaderPCs /\ call \in Calls \cup {NoCall}
  /\ buf \in Seq(Bytes) /\ want \in Nat /\ ret \in Int

\* Every variable has its type; in particular the two offsets stay inside
\* the cache, freelen never leaves 0..CacheLen, and a read hands out only
\* bytes that were received.
TypeOK == FlagTypeOK /\ RingTypeOK /\ PortTypeOK /\ ReaderTypeOK

\* The offset k places after offset h.
SlotAt(h, k) == IF h + k < CacheLen THEN h + k ELSE h + k - CacheLen

\* The offset of the k-th stored byte, the oldest having k = 0.
Slot(k) == SlotAt(head, k)

\* The count and the two offsets tell the same story: freelen is updated
\* apart from head and tail, by different tasks, and must agree with them.
RingAgrees == tail = Slot(used)

\* The reader comes out of its flag wait to a byte, though it never looks at
\* freelen again (line 272 takes it at once): a wake-up means that a byte
\* was stored after the last look.
WakeMeansData == pcR \in {"line_relock", "line_take"} => used > 0

\* While a callback copies, or the reader walks over the ring, no one else
\* holds the lock; nobody waits for input with the lock held.
LockHeld ==
  /\ \A p \in Ports : pcP[p] = "copy" <=> lock = p
  /\ pcR \in {"line", "line_take", "strip", "read_copy"} <=> lock = Reader

\* UartRead with suspend returns exactly the bytes asked for; a line never
\* contains a line end, fits its buffer, and its length is right -- except
\* that an empty line may be reported as -1 (the read of *(to - 2)).
ReadResult ==
  pcR \in {"idle", "check"} /\ call.op # "none" /\ cacheOk =>
    /\ ret = Len(buf) \/ (ret = -1 /\ buf = <<>> /\ call.op \in {"line", "value"})
    /\ call.op = "read" => ret = call.len
    /\ call.op \in {"line", "value"} =>
         /\ Len(buf) < call.len
         /\ \A i \in 1..Len(buf) : buf[i] \notin Eol

\* The bytes of the chunk being copied: the reader cannot see them yet.
InFlight == IF lock \in Ports THEN from[lock] ELSE 0

Stored == [k \in 1..(used - InFlight) |-> cache[Slot(k - 1)]]

Channel == INSTANCE ByteChannel WITH Capacity <- CacheLen, queue <- Stored, line <- buf

\* The cache is a bounded FIFO to which chunks are added whole, except for
\* the tail that does not fit, whoever calls back in between.
ChannelSpec == Channel!Spec

\* A callback that needs the lock always gets it and returns: the driver
\* must not be blocked ("do not run delay\sleep or blocking API inside this
\* callback", line 349), so nobody may wait for input with the lock held.
CallbackReturnsEventually ==
  \A p \in Ports : (pcP[p] # "idle") ~> (pcP[p] = "idle")

\* A callback has a byte to store that finds room.
Storing == \E p \in Ports : pcP[p] = "copy" /\ copylen[p] > 0

\* A lost wake-up is made up for by the next chunk that finds room, even when
\* the cache is not empty then: a read that sleeps while a byte is stored
\* comes out of its wait (line 204 sets the flag with every byte).
StoringWakesReader ==
  \A pc \in {"line_wait", "read_wait"} : (pcR = pc /\ Storing) ~> pcR # pc

\* The read that sleeps has all the input it waits for in the cache.
Satisfied == \/ pcR = "line_wait" /\ used > 0
             \/ pcR = "read_wait" /\ used >= call.len

\* "Read received data, ... then send received data to UI demo task" (line
\* 346): a read does not sleep on input that is in the cache.
DataReachesReader == Satisfied ~> pcR \notin {"line_wait", "read_wait"}

\* It does so, with nothing to wake it, only because the flag that told of that
\* input was cleared between the look at the cache and the wait (lines 270 and
\* 226): no other step, of a callback or of the reader, loses a wake-up.
Stranded == Satisfied /\ ~ waitflag
WakeupLostAtClearing ==
  [][~ Stranded /\ Stranded' =>
       waitflag /\ (LineClear \/ ReadClear) /\ pcR \in {"line_clear", "read_clear"}]_vars
-----------------------------------------------------------------------------
(* The inductive invariant of UIDemoCacheProofs.                           *)

\* A callback's progress: what it copied and still has to copy is the part of
\* its chunk that fitted when it took the lock, and that much room is left.
CopyProgress ==
  \A p \in Ports :
    /\ pcP[p] # "copy" => from[p] = 0 /\ copylen[p] = 0
    /\ pcP[p] = "idle" <=> data[p] = <<>>
    /\ pcP[p] = "copy" =>
         /\ from[p] <= used
         /\ copylen[p] <= freelen
         /\ from[p] + copylen[p] = Clip(Len(data[p]), freelen + from[p])

\* The stored bytes were all received; the newest are the ones in flight.
StoredBytes ==
  /\ \A k \in 0..(used - 1) : cache[Slot(k)] \in Bytes
  /\ lock \in Ports =>
       \A i \in 1..from[lock] : cache[Slot(used - from[lock] + i - 1)] = data[lock][i]

\* The reader's progress: the flag promises a byte while it is waited for; a
\* line so far has no line end and leaves room for the terminator.
ReadProgress ==
  /\ WakeMeansData
  /\ pcR = "line_wait" /\ waitflag => used > 0
  /\ pcR = "read_copy" =>
       /\ want <= used
       /\ call.op = "read" => Len(buf) + want = call.len
  /\ pcR = "read_lock" => buf = <<>> /\ (call.op = "read" => call.len <= used)
  /\ pcR \in {"read_test", "read_clear", "read_wait"} => buf = <<>> /\ call.op = "read"
  /\ pcR \in {"read_lock", "read_copy"} => call.op \in {"read", "poll"}
  /\ pcR \in {"line_lock", "line", "line_clear", "line_wait", "line_relock",
              "line_take", "strip", "check"} => call.op \in {"line", "value"}
  /\ pcR \in {"line_clear", "line_wait", "line_relock", "line_take"} =>
       Len(buf) + 1 < call.len
  /\ pcR = "strip" => ret = Len(buf) \/ (ret = -1 /\ buf = <<>>)
  /\ pcR \notin {"idle", "spin"} /\ call.op \in {"line", "value"} =>
       /\ Len(buf) < call.len
       /\ \A i \in 1..Len(buf) : buf[i] \notin Eol
  /\ pcR # "idle" => call.op # "none"

\* A reader about to clear the flag has it set if its input came meanwhile.
FlagTold ==
  /\ pcR = "line_clear" /\ used > 0 => waitflag
  /\ pcR = "read_clear" /\ used >= call.len => waitflag

Inv == TypeOK /\ RingAgrees /\ LockHeld /\ CopyProgress /\ StoredBytes
       /\ ReadProgress /\ ReadResult
=============================================================================
