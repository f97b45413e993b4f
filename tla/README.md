# TLA+ models of the A7672S OpenSDK demo application

The repository is the OpenSDK of a SIMCom A7672S LTE module: the C application
that customers start from, the headers of a closed library (`simcom_os.h` and
the `sAPI_` functions), boot configuration and build output.  What is built is
`src/sc_application.c` and `src/sc_demo/V1` (`SIMCOM_PROTOCOL_V1`, `HAS_DEMO`,
`HAS_UART`, `HAS_URC`, `HAS_USB` and `SIMCOM_UI_DEMO_TO_UART1_PORT` in
`src/config/userspaceConfig.h`).  This directory models the parts of it in
which tasks share state or a failure has to be survived, checks them with TLC
and proves their safety properties with TLAPS.

## 1. Inventory

`userSpace_Main` starts the tasks; after that they meet only in shared
variables, event flags and message queues.

| component | state | operations | meets |
|---|---|---|---|
| UI input cache, `uart_api.c` | ring `UIDemoDatacache` (cache, head, tail, freelen), flag, mutex | `CacheDataToUIDemo` from the UART callbacks; `UartRead`, `UartReadLine`, `UartReadValue` | driver task and UI task, on every byte typed |
| UI dispatcher, `simcom_demo.c` | table of demos | read a number, call that demo | runs every demo in one task, so at most one demo is active |
| File reception, `demo_file_system.c` | 20 KB ring, packet buffer, file, `gfile_len_total`, `bFail`, `gbFileTransmitting`, flag group | `FsDemo` case RXFILE, `sRecvProcesser`, `sReceiveDataRW`, `sTask_FsHandeProcesser` | UI task and handler task; reads through the input cache |
| URC processor, `cus_urc.c` | `gUrcMsgQueue` | log the event; forward notices of short messages | modem, SMS demo |
| Short messages, `demo_sms.c` | three queues, `gSmsDemohasinited` | `SmsDemoInit`, some ten requests, `sTask_SmsUrcProcessor` | UI task, notice task, URC task, modem |
| Voice calls, `demo_call.c` | one queue | dial, answer, end, auto answer | UI task, modem |
| TCP/UDP, `demo_tcpip.c` | one client socket, its shared descriptor, two queues | connect, send, close; receive task | UI task and receive task |
| MQTT, `demo_mqtt.c` | client, receive queue of four, lost-connection callback | start, connect, subscribe, publish, release | UI task, two MQTT tasks, library callback |
| Application download and update, `demo_app_download.c`, `demo_app_updater.c` | sockets, buffers, counts; the package partition | fetch over HTTP or FTP, or copy from a file; verify; reset | UI task, server, partition, power |
| Firmware download, `demo_fota.c` | inside the library | fetch, hand on | UI task, network |
| other demos | none between two calls | one library call per menu option | UI task |
| V2 framework, examples, SDK headers, boot files | not built, or closed | | |

What is hard, and what makes each component correct:

* **Input cache.**  A callback and a reader update the free count and the two
  offsets under a mutex, and use an event flag that is cleared in one place and
  set in another.  Correct when no byte is lost, doubled or reordered except
  the tail of a chunk that does not fit; when a wake-up means data; when data
  leads to a wake-up; when the callback, which must not block, never waits for
  a reader that waits for it; and when a read returns what its caller relies
  on (`UartRead` with suspend exactly `len` bytes, a line without line ends).
* **File reception.**  Two tasks share nine variables, one mutex guards three
  of them.  Correct when the file has the bytes sent, in order; when a success
  that is announced is one; when a transfer is always answered; and when no
  transfer disturbs the next one, failures of the file system included.
* **Short messages.**  Requests are answered by messages with a timeout; an
  answer is matched to a request by nothing but its place in the queue, and the
  queues are deleted and created while a task may wait on them.  Correct when
  what is shown belongs to the notice or request it is shown for, and when no
  task waits for ever.
* **TCP client.**  Two tasks close the same socket, its number is kept in a
  shared and in a local variable, and other tasks are given numbers that became
  free.  Correct when there is one client, the shared number is its own, none is
  forgotten or taken for open, and a TCP client is watched.
* **Downloads.**  The server, the memory, the partition or the power can fail at
  every step, and some twenty error exits share one clean-up.  Correct when the
  partition gets the bytes of one package in order, however the stream is cut
  into pieces; when a success is one; when what a failure left is never started;
  and when all that was acquired is given back once.

The hazards, one by one with their lines, are in `PROJECT.json`.

## 2. Modules

| module | models | role |
|---|---|---|
| `ByteChannel` | nothing | what the cache promises: a bounded FIFO, chunks stored whole but for what does not fit |
| `UIDemoCache` | `uart_api.c` | the ring, its callbacks and its readers, lock by lock and byte by byte |
| `UIDemoCacheProofs` | | the inductive invariant and its theorems |
| `UIDemoCacheRefinement` | | `UIDemoCache` implements `ByteChannel` |
| `FsReceive` | `demo_file_system.c`, RXFILE | file reception |
| `FileTransfer` | nothing | what receiving a file promises: one answer for each transfer, and a true one |
| `FsReceiveProofs` | | its invariants, for a user who waits for the handler |
| `FsReceiveRefinement` | | `FsReceive` implements `FileTransfer` |
| `SmsNotify` | `demo_sms.c`, `cus_urc.c` | short message notices and requests |
| `NoticeBoard` | nothing | what the way of a notice to the screen promises: order, no doubles, no loss without a reason, its own message |
| `SmsNotifyProofs` | | its invariants, for answers that are not late |
| `SmsNotifyRefinement` | | `SmsNotify` implements `NoticeBoard` |
| `TcpClient` | `demo_tcpip.c` | the client socket, the UI task and the receive task |
| `TcpClientProofs` | | its invariants: who watches the client for any user, the others for one who takes things in turn |
| `PackageStore` | nothing | what a download promises of the partition |
| `AppDownload` | `demo_app_download.c`, `demo_app_updater.c` | download over HTTP and FTP, update from a file |
| `AppDownloadProofs` | | its invariants, and that it implements `PackageStore` |
| `MCUIDemoCache`, `MCFsReceive`, `MCSmsNotify` | | small instances for TLC |

### UIDemoCache

An action is one step between two points where another task can run: taking or
releasing the mutex, a call on the event flag, one byte of a copy loop.

| actions | code |
|---|---|
| `Receive`, `StoreLock`, `StoreByte`, `StoreUnlock` | `UartCBFunc` and its like; `CacheDataToUIDemo` 166-207 |
| `LineLock` ... `StripDone` | `UartReadLine` 251-314, one action per lock, unlock, flag call, and byte |
| `ValueCheck` | the loop of `UartReadValue` 331-343 |
| `ReadTest` ... `ReadDone` | `UartRead` 209-249 |
| `BeginCall` | the demos that call them |

Pointers are offsets.  A byte is one of a small set: `Eol` is CR and LF,
`Digits` what `isdigit` accepts.  The event flag is one Boolean, since one bit
of it is used.  `malloc` of the cache may fail: `cacheOk`.  The read of
`*(to - 2)` before the caller's buffer (line 285) sees either answer; the write
that may follow it, one byte before the caller's buffer, is not modelled
further.  The echo of each byte (`PrintfRespData`) is left out.  `freelen` is
read without the lock at 183 (only for a log) and 224 (`ReadTest`).

Refinement mapping: the channel's queue is what the reader could take,
`Stored`: the bytes of the ring without those of a chunk being copied
(`InFlight`), since the mutex hides these until `StoreUnlock`.  The channel's
line is `buf`.

### FsReceive

`sReceiveDataRW` holds its mutex from end to end and is one step, a part of
`Store` or of `Move`; all other variables are shared without a lock, and the
two tasks interleave between any two actions.  Arranging a transfer (813-845)
and cleaning up after it (441-456) set a dozen of these variables one after the
other, and are one step for each statement; such a place is named for the
variable its statement sets (`Arranging`, `Cleaning`).

| actions | code |
|---|---|
| `Announce`, `Refuse`, `Allocate`, `Arrange`, `Begin` | `FsDemo`, case RXFILE, 795-891: the length, the ring, its two pointers and its free size, `gbFileTransmitting`, `bFail` |
| `Ask`, `Store`, `End` | `sRecvProcesser` 240-296, one turn of its loop |
| `Wait`, `Skip`, `Prepare`, `Move`, `WritePacket`, `Answer` | `sTask_FsHandeProcesser` 304-439 |
| `Clean`, `FreeRing`, `Stop`, `Flush` | its clean-up 441-456 |
| `RingWrites`, `RingWrite`, `ReadLen`, `ReadFails`, `ReadOverruns`, `ReadResult`, `RingRead` | `sReceiveDataRW` 104-232 |

A user who lets them overlap may store through a pointer to a ring that was
freed, or through one that is still NULL: `valid` says which of `pRXDataBuffer`,
`pDataR` and `pDataW` point into the ring that is allocated (`WriteStrays`,
`ReadStrays`).

The quirks of the ring are kept: the free size grows before the cases of a read
are told apart; a whole-ring read leaves the read position; a result is one
larger when bytes are left.  A byte is a pair of its transfer and its number,
so that a byte of an earlier transfer is told from one of this one.  `Store`
relies on `UartRead` with suspend returning exactly what was asked, which is
`ReadResult` of `UIDemoCache` (theorem `CacheReadResult`).

Once memory outside the packet or the ring would be used (`wild`) the program's
behaviour is undefined: the model stops (`Undefined`).  `xfer`, `owed`,
`answer`, `leftover`, `faulted` and `wild` are history variables: no action's
guard reads one except `wild`, and `owed`, which bounds how many transfers may
be begun before an answer and, with `WaitsForHandler`, says that the user waits.
Nothing in the code makes him wait, and what he can see is the answer (428, 439)
only; `WaitsForHandler` has him wait for the clean-up, too, which follows it at
once.  The time in between is what `fs_overlap` is about.

Refinement mapping to `FileTransfer`: a transfer is under way while its answer
is owed (`Owing`), so that it is over with the message of 428 or 439 and before
the clean-up; what it announced and received count while it is; its file is
`file`, open while `handle` is.  It is sound (`SoundSoFar`) while `bFail` is
not set, no earlier transfer has left its packet and nothing was written
outside a packet.

### SmsNotify

The modem and the message queues are external and modelled from their use: a
send does not block and fails on a full queue; an answer goes to the queue its
request named, if that creation (`gen`) still exists; requests may be answered
in any order.  `Forward` is the SMS part of `sTask_UrcProcesser`;
`TaskReceive` ... `TaskTimeout` are `sTask_SmsUrcProcessor`, with the two reads
of the answer queue's handle (238, 243) as steps of their own; `InitDemo` and
`DeInit` are `SmsDemoInit`; an answer that finds its queue full is dropped
(`AnswerCap`); `Request`, `RequestAnswer` and `RequestTimeout` are
the common shape of `SMSDemo`'s operations.

Refinement mapping to `NoticeBoard`: the notices under way (`UnderWay`) are the
one the notice task has taken and not done with, then its queue, then the
queue of the URC processor; the way is open once `SmsDemoInit` has run
(`procUp`); what is shown is `shown`.  The board's `Room` is the length of the
notice queue, so that a notice may be lost to a full queue only with as many
others before it.

### TcpClient

An action is what a task does between two points where the other can see it: a
call on a socket, the shared number (read or written under its mutex), the
queue.

| actions | code |
|---|---|
| `Enter`, `Back`, `Activate`, `OpenCheck`, `UseCheck`, `Deactivate`, `ServerOpen` | what the user chooses: `TcpipDemo`, its menu and the checks at the head of each option |
| `Connect`, `Publish`, `Enqueue`, `Refused` | option TCP connect: the socket, the shared number, the message to the receive task, and the clean-up when the queue is full |
| `UdpSocket`, `UdpSend`, `TcpSend`, `CloseClient`, `CloseShared`, `Forget`, `Accept` | the other options, step by step |
| `Take`, `Fails`, `CloseWatched`, `ResetShared` | `tcp_udp_process` |
| `Others` | external: other tasks open and close sockets of their own |

`owner` says what each descriptor is at the moment; the code cannot see it.
`hasty` is a history variable: the user came back to the demo with a client
open, or opened one while the receive task still had the last one.  No guard
reads it.

### AppDownload

One task, one action per call that can fail in a way of its own; the choice
within an action is the outcome of the call.  `contentlen` and `packeglen` are
the code's counts (`file_size` and `total_size` in the FTP case), `pos` is the
place in the stream, `held` what was acquired and not given back, `part` the
partition.  `Begin` chooses the server: what it has, and what it will announce.
`Lookup`, `Open`, `Complete`, `Exit`, `Crc` are common to both protocols;
`Http...` and `Ftp...` are the parts that differ; `ReceiveNothing` and
`RecvError` are a connection that was closed and one that fails; `UpdateBegin`,
`UpdateCopy`, `UpdateEnd` are `AppUpdateDemo`.  `Restart` is the reset at the
end and the power failure at any moment: only the partition survives.  A byte is
its package, its number, and whether it is the last; `Whole` is then what the
checksum decides (external: assumed to be right for exactly the complete
packages).

`fd` tells descriptor 0 from the others, because the exit closes `fd > 0` only
(1132), and `live` says whether it names an open socket of this call: after
failed connects it does not, the number may be another task's by then, and the
code goes on with it (804), so that the request may succeed elsewhere.  With
more bytes than were announced the length of the next receive is negative
(896-899): what comes is written as long as it fits into the buffer, and with
more than that `Overrun` writes past it; nothing is said after it.  An FTP
server's reply to SIZE may come to a number below 0 (1022).  `done` is a history
variable: all of a package was written since the partition was last opened.

Refinement mapping to `PackageStore`: the partition is `part`; the store is
writing while the code is between opening the partition and leaving the copy
loop; it has succeeded when `demo_AppDownload` has returned success.

## 3. What the runs check

| run | question | result |
|---|---|---|
| `cache_ring` | One port, a cache of 3 bytes, chunks of 1-2 bytes of 3 kinds, a line of up to 2 bytes, a read of 2: do offsets and count agree, does a wake-up mean data, do the reads return what they promise, is it a FIFO, and is a read stranded by nothing but its own clearing of the flag? | holds |
| `cache_ports` | Two callbacks at once, as with UART4: is a chunk ever interleaved, has the lock one holder, does a callback always return, and does a sleeping read wake when a byte is stored, so that a lost wake-up lasts no longer than to the next chunk that finds room? | holds |
| `cache_lost` | Does a read never sleep on input that is in the cache? | violated, see below |
| `fs_ring` | Files up to 5 bytes through a ring of 4 into packets of 5, in pieces of 2, transfer after transfer, with failing opens, writes and ring allocations: order, landing in the packet, truth of a success, success when nothing failed, an answer for each transfer, a `FileTransfer`? | holds |
| `fs_packet` | Files longer than a packet: do bytes land in a packet? | violated |
| `fs_overlap` | A user who does not wait for the handler: is each transfer answered? | violated |
| `sms_prompt` | A modem that answers in time or not at all, full queues, the demo closed and opened again under a waiting task: does what is shown belong to its notice or request, does each wait end, is a notice lost only before the first initialisation, unread or behind a full queue, is it a `NoticeBoard`? | holds |
| `sms_late` | Late answers: is the message shown the one announced? | violated |
| `download_all` | HTTP and FTP downloads and updates from a file, one after another, with every call failing and the power cut anywhere: is the partition right, is a success one, is what a failure, an earlier call or a power cut left never started, is everything but descriptor 0 given back, does it end, is it a `PackageStore`? | holds |
| `tcp_turns` | Both tasks close the client, others reuse its number: is a TCP client watched whatever the user does; and for one who takes things in turn, is there one client, and known, does "busy" end, and is no other task's socket closed while there is one? | holds |
| `tcp_two` | Is there never more than one client? | violated |

Deadlock is checked in every run; no cfg switches it off.

### Bounds

*Cache of 2-3 bytes* instead of 10240: full, empty, and wrapped at each offset
all occur, with chunks that fit exactly, overflow by one, and find it full.  A
line of 3 (two bytes and a terminator) is filled up and cut short; `UartReadValue`
accepts and rejects.  `ReadLens` is at most the cache length, as all callers'
lengths are.  *Ring 4, packet 5, piece 2, mark 1* instead of
20480, 131072 (`READ_FILE_PACKET_SIZE`), 50 (`RECV_LEN`) and 1024, in the same
order of size: the ring fills, wraps on either side and is emptied whole, a SYNC
comes before the end or with it.  `fs_ring` sends files of at most one packet,
which isolates what happens within a packet; `fs_packet` sends longer ones.
At most two transfers are begun before an answer.  *SMS*: two creations
of the queues, two unanswered requests, a notice queue and answer queues of two
instead of four and an URC queue of one: notices overflow both of their queues,
and a queue is deleted and created with an answer on its way.  *TCP*: three descriptors, so that the client, the server
and another task can each have one, or another task has taken the one that was
closed.  *Download*: a buffer of 4, a header of 2 and packages of up to 7 bytes:
the header comes in one piece or two, up to two body bytes come with it, which
may be more than was announced, what is still to come is then less or more than
the buffer, a package takes up to seven receives; announced lengths are right,
too short, too long, missing or below 0.

### Fairness

`TaskFairness`: the driver task and the UI task run while they can (the OS is
preemptive and neither is starved: each blocks on its flag or lock), and the
mutex, created `SC_FIFO`, is granted to a waiter in its turn, hence the strong
fairness of its locks.  Nothing obliges the user to type.  In `FsReceive` both tasks are scheduled and
the user sends the bytes he announced.  In `SmsNotify` the tasks are scheduled
and a timed wait ends; the modem either answers a request or drops it for good,
and its choice is free.  In `TcpClient` a chosen option is carried through, the
receive task runs, and `select` on a number that is not open fails (it is called
again after each timeout); nothing makes a user choose, a peer connect or a
living connection fail.  In `AppDownload` the task runs, a server sends what it
has, and the reset takes place; nothing makes a server send more, and so
`DownloadEnds` is about servers that have what they announce: with one that
closes early `recv` returns 0, which is written and counted for ever (hazard at
`demo_app_download.c` 902).  Nothing makes another task's socket send, either:
a request that went there may wait for ever (`Elsewhere`).

### What the violated runs show

1. `cache_lost`: between `UartRead`'s look at what is cached (`uart_api.c` 224)
   and its clearing of the flag (226) a callback may store bytes and set the
   flag; the flag is then cleared, and the reader sleeps on input it already has
   until something more is typed.  With the last piece of a file nothing more
   comes.  `UartReadLine` has the same window between 267-269 and 270.
2. `fs_packet`: after a packet is written and freed (`demo_file_system.c`
   400-403) the loop that is to empty the ring reads through the old pointer;
   a wrapped read shorter than the ring's tail copies the whole tail.
3. `fs_overlap`: the handler's clean-up (441-456) runs between the statements
   that arrange the next transfer (813-845), or after them, and clears its
   length, frees its ring or clears its flags; it is never answered.
4. `sms_late`: an answer that comes after the timeout stays in the queue, and is
   shown as the message of the next notice; from then on each is off by one.
5. `tcp_two`: entered again with a client open, `TcpipDemo` has a new local
   number (-1); a failing send then closes -1 and resets the shared number
   (666), the socket stays open and a second client can be opened, though the
   demo says that it supports one (613, 704).  The same comes of a receive task
   that resets the number of the next client (428).

Some behaviour is in the models without a run that calls it wrong, because no
text of the repository says what should happen.  A packet that a SYNC or SUCCESS
pass allocated for an empty ring, or that a failed transfer left, is kept with
its old length, and a longer transfer after it may fail although all its bytes
were taken (`leftover`; `SuccessMeansStored` holds all the same).  Descriptor 0
is never closed by a download, nor is the address list after a failing
`setsockopt` (the exceptions of `HttpReleases`).  A server that closes early
keeps an HTTP download in its loop (the premise of `DownloadEnds`).

## 4. What is proved

`UIDemoCacheProofs`, for every cache length, any set of ports, any chunks of
bytes and any lengths of the reads, from `SizeAssumption` (sizes are positive),
`ByteAssumption` (line ends and digits are bytes and disjoint, a chunk is not
empty) and `PortAssumption` (a port is neither the reader nor nobody):

* `CacheInvariant`: `Spec => []Inv`;
* `CacheTypeOK`, `CacheRingAgrees`, `CacheWakeMeansData`, `CacheLockHeld`,
  `CacheReadResult`: the invariants of `cache_ring`, which follow from it;
* `CacheWakeupLostAtClearing`: `Spec => WakeupLostAtClearing`.

`UIDemoCacheRefinement`: `CacheImplementsChannel`, `Spec => ChannelSpec`.

`Inv` adds to the checked invariants what makes them inductive.
`CopyProgress`: what a callback has copied and still has to copy is the part of
its chunk that fitted when it took the lock, and there is still room for it
(without it `freelen` could go below 0).  `StoredBytes`: every slot between head
and tail holds a received byte, and the newest ones are the chunk in flight
(without it a read might hand out junk, and the channel's `Store` would not be
the chunk).  `ReadProgress`: while the reader waits in `line_wait`, a set flag
means a stored byte (the flag was cleared with the cache empty or after, and
only the reader takes bytes), so that `WakeMeansData` survives the wait; and
what is in the buffer leaves room for the terminator.

The proof has one lemma per action.  `SlotFacts` is the arithmetic of wrapping;
`FrameInv` covers actions that leave the ring alone, `TakeHeadInv` those that
take a byte.  In the refinement, `ViewFacts`, `ViewEqual` and `ViewTail` are
about a ring seen as a sequence; `StoreByteStep` (a byte is added at both ends
of a difference), `StoreUnlockStep` (the chunk appears at once) and
`TakeHeadStep` carry the argument, the rest is stuttering.

`WakeupLostAtClearing` is the other side of `cache_lost`: a read is `Stranded`
when it waits with its flag down and what it waits for in the cache, and the
only step that strands one is its own `LineClear` or `ReadClear` of a flag that
was up.  A callback that stores may be overtaken at any point, and the two
ports by each other; the flag goes up with the byte that satisfies the read or
is up already.  The inductive part is `FlagTold`: a reader that found too little
and is about to clear the flag has it set if its input has come since.

`TcpClientProofs`, for any number of descriptors (`TcpAssumption`): the
inductive invariant `TcpInv`, from which `TcpTypeOK`, `OneClientInTurn` and
`SharedIsClient` follow, and `TcpClientIsWatched`, which holds for any user: it
is preserved by every step next to `TcpInv`.  `Turn` is its core: place by place, who has the client.  Between two
options it is a UDP client nobody watches, a TCP client whose message is in the
queue or which is watched, or it is gone and only the shared number is still to
be reset.  Without the last case `SharedIsClient` would not survive the receive
task's close.  `TcpOthersKeepTheirSockets` is an action property and needs the
invariant of the state before the step only: by `Turn` a number that either
task is about to close, while there is a client, is the client's
(`ClosesClient`).

`AppDownloadProofs`, for every size of buffer, header and package
(`DlAssumption`): the inductive invariant `DlInv`, from which the six invariants
of `download_all` follow, and `DlImplementsStore`, `Spec => StoreSpec`, which
also covers a call that writes more than was announced.
`Stage` ties the counts to the place in the code (in the body loop `packeglen`
is `BodyPos`, whatever came with the header), `Stored` says what the partition
then holds, `Sockets` and `Held` what is open and held.  The facts about
packages are `Slice...`: slices join to a slice, and a proper part of a package
is not `Whole`.  So a partition passes the checksum only if all of a package was
written since it was last opened (`Whole(part) => done` in `Stored`, which no
other call, failure or power cut in between disturbs), and this is what makes
`FailedIsNotRun` true although the caller looks at the checksum only.

`SmsNotifyProofs`: `SmsTypeCorrect` always; `ResultIsOfRequest` and
`NoStaleAnswer` under `Prompt` (no answer is late), and `ShownIsAnnounced` if
besides the indices have at most two digits, as the code cuts them to two; for
any requests, queue lengths and number of creations.  (With late answers
`sms_late` refutes it.)  The inductive invariant is `SmsInv`: `RspOnly` and
`DemoOnly` say that of the requests that name an existing queue one at most is
unanswered or has its answer in the queue, and that its reader waits for it;
`OlderGens`, that no request names a queue still to be created, so that what was
asked before a deletion cannot be answered after it; `ShownByDigits`, that what
is shown is the message with the index as the code writes it, two digits long.

`SmsNotifyRefinement`: `SmsImplementsBoard`, `Spec => BoardSpec`, with no
hypothesis.  Order, "once at most" and the reasons of a loss hold whatever the
modem does, and follow from `SmsBase` (the types, and that nothing is in the
notice queue before it is created); that a notice is shown with its own message is
asked of exact answers only (`Exact` is `Prompt` and two-digit indices) and
comes from `SmsInv`.  Each action is one step of the board: a queue that is full
is `Crowd`, one that is not there yet `Unread`, a refused request and a timeout
`GiveUp`; the first `InitDemo` is `Open`; `Forward` moves a notice
along `UnderWay`, a stutter, and `TaskReceive` of a new message is `Clear`, which
is what the lemmas on `Append`, `Head` and concatenation are for.

`FsReceiveProofs`, from `WaitsForHandler` (`fs_overlap` shows why):
`FsInvariant`, and with it `FsTypeCorrect`, `FsInOrder` and `FsSuccessMeansStored`, for files of
any length and any calls failing;
`FsSoundSucceeds` for files of one packet, and `FsLandsInPacket` for files of one
packet whose allocation does not fail (`fs_packet` shows why).  Sizes of ring,
packet and pieces and the mark are arbitrary.  `FsInv` adds `Phase` (where the
two tasks can be, and what is owed), `Arranged` (what the statements that
arrange a transfer have set so far), `Ends` (an end is told after the last byte
and says what became of the transfer), `Packet` and `Ring` (fill, room and
offsets agree), `Fits` (for a file of one packet without a left-over one there
is room for everything received, so that each pass takes the whole ring),
`Drained` (a transfer is answered when ring and packet are empty) and `Carried`
(the bytes of file, packet and ring, read one after the other, are the bytes
received, after those of an earlier transfer that a left-over packet may still
hold).  `Packet` to `Carried` are claimed until memory outside the packet was
written.  `StoreSlots` is the arithmetic of a write that wraps, `Concatenation`
turns `Carried` into `InOrder`.  `SuccessMeansStored` has no exception for
left-over packets: with stale bytes in the file the count differs from what was
announced, and the transfer fails.

`FsReceiveRefinement`: `FsImplementsTransfer`, `Spec => TransferSpec` from
`WaitsForHandler` alone.  `Succeed` asks for `stored = Prefix(len)`, which is
`Carried` at the answer with `Drained`; a sound transfer's file grows by the
next bytes, which is `Carried` before and after a `WritePacket`; `Fail` is for
transfers that are not sound, since `Ends` gives an answered one `SUCCESS` or
`bFail`.  The file of an unsound transfer may hold anything, but it only grows,
and is removed with the failure if it was opened.

Model-checked only: the liveness properties (`CallbackReturnsEventually`,
`StoringWakesReader`, `EveryTransferAnswered`, `WaitsEnd`, `BusyEnds`,
`DownloadEnds`), which are out of the prover's reach.

## 5. Not modelled, and why

* UART2 and UART3: their callbacks read and drop; the transmit queue
  `sc_uartmsgq` is off in the build.
* The first transfer's creation of mutex, flag and handler task, which may fail
  and leave references to deleted objects.
* The other cases of `FsDemo`; the parameters and texts of the SMS requests;
  the other cases of `sTask_UrcProcesser`, which log.
* The text of an FTP or HTTP reply: only what the code makes of it; TLS, which
  is not built; what is received on a socket, which is printed.
* The server side of `demo_tcpip.c` beyond its sockets: `server_process` waits
  on a queue to which nothing is ever sent.
* *MQTT*: one task issues library calls in the order of the menu; the
  connection, the subscriptions and what feeds the receive queue are state of
  the closed library, and src/ does not show enough of it to model.  The
  lost-connection callback only waits and prints.
* *Voice calls*: the request/answer part of `SmsNotify` with one queue that is
  never deleted; a module of its own would say nothing new.
* *Firmware download, HTTPS, FTPS, NTP, ping, SSL*: sequences of library calls,
  each with one answer; the state is in the library.
* The other components marked `not_modelled` in `PROJECT.json`: no state between
  two calls, not in the build, vendored, or no behaviour.

## 6. What is left

1. A user who does not wait for the handler is model-checked only (`fs_overlap`).
   What is left of `InOrder` and of the types for him is not proved: the clean-up
   may undo any of the statements that arrange his transfer, and an invariant
   would have to say which of two transfers each variable belongs to.
2. What the URC processor does when a notice queue is deleted while it sends
   (the send then names a deleted queue): this needs to be known of the closed
   operating system layer, not of this code.
3. Liveness stays with TLC on small instances (section 4).
