---------------------------- MODULE AppDownload ----------------------------
(***************************************************************************)
(* Bringing a new application into the package partition: demo_AppDownload *)
(* over HTTP and FTP with its caller AppDownloadDemo                       *)
(* (src/sc_demo/V1/src/demo_app_download.c), and AppUpdateDemo, which      *)
(* copies it from a file (demo_app_updater.c).  All of it runs in the UI   *)
(* task; what varies is the server, the memory, the partition and the      *)
(* power.  TLS is not built in (neither FEATURE_SIMCOM_MSSL nor            *)
(* SIMCOM_OPENSDK_SSL is defined).                                         *)
(*                                                                         *)
(* External: the server, the sockets, and the partition.  Opening it for   *)
(* writing discards the old package, a failed write may have stored a      *)
(* part, and its checksum is right for exactly the complete packages.      *)
(***************************************************************************)
EXTENDS Integers, Sequences

CONSTANTS BufSize,   \* SC_APP_DOWNLOAD_BUF_SIZE
          HeadLen,   \* the length of the header of an HTTP answer
          MaxLen     \* bound: the longest package, and the longest announced

ASSUME DlAssumption ==
  /\ BufSize \in Nat \ {0}
  /\ HeadLen \in 1..BufSize
  /\ MaxLen \in Nat \ {0}

VARIABLES
  pc,         \* where the UI task is
  mod,        \* "http" or "ftp", "file" for AppUpdateDemo, or "none"
  ret,        \* what demo_AppDownload returns
  fd,         \* its socket's variable: -1, descriptor 0, or 1 for any other number
  live,       \* whether that names an open socket of this call
  held,       \* what has been acquired and not given back
  contentlen, \* the length the server announces; file_size in the FTP case
  pos,        \* how many bytes were taken from the (data) connection
  packeglen,  \* how many were written; total_size in the FTP case
  part,       \* the partition
  done,       \* history: since it was last opened all of a package was written
  file,       \* which package is being fetched
  served,     \* its length
  connected,  \* history: a server was reached
  opened,     \* history: this call opened the partition
  stray       \* history: a descriptor was closed a second time

source   == <<contentlen, served, file>>
netVars  == <<source, mod, connected>>
sockVars == <<fd, live, stray>>
partVars == <<packeglen, part, done, opened>>
vars == <<pc, ret, held, pos, netVars, sockVars, partVars>>

Modes == {"none", "http", "ftp", "file"}
Codes == {"none", "SUCESSED", "PDP_ACTIVE_FAIL", "CONN_REJECT", "SEND_ERR", "RECV_ERR",
          "PARAM_INVALID", "UNKNOWN_ERR", "OPEN_PARTITION_FAIL", "WRITE_PARTITION_FAIL",
          "NO_MEMORY", "FILE_NOT_EXIST", "COUNT"}
Things == {"url", "pdp", "addrs", "fd", "data_fd", "header", "recvbuf", "buf",
           "partition"}

\* The n bytes of package f, which has the given length, after the first `from`;
\* its end is marked.
Slice(f, length, from, n) ==
  [k \in 1..n |-> <<f, from + k, IF from + k = length THEN "last" ELSE "inner">>]
Piece(from, n) == Slice(file, served, from, n)

\* sAPI_AppPackageCrc: all bytes of one package, from the first to the last.
Whole(p) ==
  /\ p # <<>>
  /\ \A k \in 1..Len(p) : p[k] = <<p[1][1], k, IF k = Len(p) THEN "last" ELSE "inner">>

\* Mutant of BodyPos: the length of the header is not taken off.
MutBodyPos == pos

\* The position in the body of an HTTP answer, or in an FTP data connection.
BodyPos == IF mod = "http" THEN pos - HeadLen ELSE pos

\* Leaving demo_AppDownload by its common exit, or by a return of its own.
Leave(code)  == ret' = code /\ pc' = "exit"
Return(code) == ret' = code /\ pc' = "crc"

\* What is local to a call ends with it.
Forget ==
  /\ ret' = "none" /\ fd' = -1 /\ live' = FALSE /\ pos' = 0 /\ packeglen' = 0
  /\ mod' = "none" /\ connected' = FALSE /\ opened' = FALSE /\ stray' = FALSE

SmallerOf(a, b) == IF a < b THEN a ELSE b
\* sAPI_AppPackageWrite of the n bytes after the first `from`...
Writes(from, n) ==
  /\ part' = part \o Piece(from, n)
  /\ packeglen' = packeglen + n
  /\ done' = (packeglen' = served)

\* ...and when it fails.
WriteFails(from, n) ==
  /\ \E k \in 0..(n - 1) : part' = part \o Piece(from, k)
  /\ Leave("WRITE_PARTITION_FAIL")
  /\ UNCHANGED <<packeglen, done>>

-----------------------------------------------------------------------------
(* Mutants: plausible bugs, which the properties must notice.              *)

\* What followed the header in the buffer is thrown away with it.
MutHttpFirst ==
  /\ pc = "first" /\ pc' = "body"
  /\ UNCHANGED <<netVars, sockVars, partVars, ret, held, pos>>

\* It is written, but not counted.
MutHttpFirstUncounted ==
  /\ pc = "first" /\ pc' = "body"
  /\ part' = part \o Piece(0, BodyPos)
  /\ UNCHANGED <<netVars, sockVars, packeglen, done, opened, ret, held, pos>>

\* The header is counted towards the announced length.
MutComplete ==
  /\ pc = "body" /\ pos = contentlen
  /\ Leave("SUCESSED")
  /\ UNCHANGED <<netVars, sockVars, partVars, held, pos>>

\* Whatever came beyond the announced length is taken for a success.
MutCompleteBeyond ==
  /\ pc = "body" /\ packeglen >= contentlen
  /\ Leave("SUCESSED")
  /\ UNCHANGED <<netVars, sockVars, partVars, held, pos>>

\* The partition is opened without discarding what it holds.
MutOpen ==
  /\ pc = "open"
  /\ held' = held \cup {"partition"} /\ opened' = TRUE /\ done' = FALSE
  /\ pc' = IF BodyPos > 0 THEN "first" ELSE "body"
  /\ UNCHANGED <<netVars, sockVars, ret, pos, packeglen, part>>

\* The loop over the addresses does not stop at the one that answers.
MutHttpConnect ==
  /\ pc = "http" /\ pc' = "request"
  /\ fd' \in {0, 1} /\ live' = FALSE /\ connected' \in BOOLEAN
  /\ held' = held \ {"addrs"}
  /\ UNCHANGED <<source, mod, ret, pos, partVars, stray>>

\* The exit forgets the buffer of the request.
MutExit ==
  /\ pc = "exit" /\ pc' = "crc"
  /\ stray' = (fd > 0 /\ ~ live) /\ live' = (live /\ fd = 0)
  /\ held' = held \ ({"recvbuf", "buf", "pdp"}
                        \cup (IF fd > 0 THEN {"fd"} ELSE {})
                        \cup (IF opened THEN {"partition"} ELSE {}))
  /\ UNCHANGED <<netVars, partVars, ret, pos, fd>>

-----------------------------------------------------------------------------
(* AppDownloadDemo, and the part of demo_AppDownload both protocols share. *)

\* The user names a URL and the context is activated.  What the server has and
\* what it will announce is settled here; a length below 0 is no length at all or
\* a status other than 200, or what an FTP server's reply to SIZE comes to.
Begin ==
  /\ pc = "menu"
  /\ mod' \in {"http", "ftp"} /\ file' = 1 - file
  /\ served' \in 0..MaxLen /\ contentlen' \in -1..MaxLen
  /\ \/ held' = (held \cap {"partition"}) \cup {"url", "pdp"}
        /\ pc' = "lookup" /\ UNCHANGED ret
     \/ held' = (held \cap {"partition", "pdp"}) \cup {"url"}
        /\ Return("PDP_ACTIVE_FAIL")
  /\ UNCHANGED <<sockVars, partVars, pos, connected>>

\* The URL is parsed and the server's name resolved.  Over FTP the list of
\* addresses is never freed.
Lookup ==
  /\ pc = "lookup"
  /\ \/ /\ pc' = mod /\ UNCHANGED ret
        /\ held' = held \cup {"addrs"}
     \/ /\ Leave("PARAM_INVALID") /\ UNCHANGED held
     \/ /\ Leave(IF mod = "http" THEN "UNKNOWN_ERR" ELSE "CONN_REJECT")
        /\ UNCHANGED held
  /\ UNCHANGED <<netVars, sockVars, partVars, pos>>

\* The common exit closes fd if it is above 0: never descriptor 0, but also a
\* number whose socket was closed already.
Exit ==
  /\ pc = "exit"
  /\ stray' = (fd > 0 /\ ~ live) /\ live' = (live /\ fd = 0)
  /\ held' = held \ ({"header", "recvbuf", "buf", "pdp"}
                       \cup (IF fd > 0 THEN {"fd"} ELSE {})
                       \cup (IF opened THEN {"partition"} ELSE {}))
  /\ pc' = "crc"
  /\ UNCHANGED <<netVars, partVars, ret, pos, fd>>

\* Whatever was returned, the checksum decides on the reset.
Crc ==
  /\ pc = "crc"
  /\ held' = held \ {"url"}
  /\ IF Whole(part)
     THEN pc' = "reset" /\ UNCHANGED <<ret, pos, packeglen, opened, mod, connected, sockVars>>
     ELSE pc' = "menu" /\ Forget
  /\ UNCHANGED <<source, part, done>>

\* sAPI_SysReset, or a power failure at any time: only the partition is left.
Restart ==
  /\ pc # "menu"
  /\ pc' = "menu" /\ Forget /\ held' = {}
  /\ UNCHANGED <<source, part, done>>

-----------------------------------------------------------------------------
(* HTTP.                                                                   *)

\* The addresses are tried in turn.  When none answers fd still names the last
\* socket, which the loop has closed, or is -1, and the code goes on.
HttpConnect ==
  /\ pc = "http"
  /\ \/ /\ fd' \in {0, 1} /\ live' = TRUE /\ connected' = TRUE
        /\ \/ held' = (held \ {"addrs"}) \cup {"fd"} /\ pc' = "request" /\ UNCHANGED ret
           \/ held' = held \cup {"fd"} /\ Leave("UNKNOWN_ERR")
     \/ /\ fd' \in {-1, 0, 1} /\ live' = FALSE /\ UNCHANGED connected
        /\ held' = held \ {"addrs"}
        /\ pc' = "request" /\ UNCHANGED ret
  /\ UNCHANGED <<source, mod, partVars, pos, stray>>

\* A closed number may be another task's socket by now: the request then goes
\* there, and what comes from there is taken for the answer.
HttpRequest ==
  /\ pc = "request"
  /\ \/ Leave("NO_MEMORY") /\ UNCHANGED held
     \/ Leave("SEND_ERR") /\ held' = held \cup {"header"}
     \/ fd >= 0 /\ Leave("NO_MEMORY") /\ held' = held \cup {"header"}
     \/ /\ fd >= 0
        /\ pc' = "head" /\ held' = held \cup {"header", "recvbuf"} /\ UNCHANGED ret
  /\ UNCHANGED <<netVars, sockVars, partVars, pos>>

\* Bytes are collected until the header is complete; body bytes may follow it
\* in the buffer.
HttpHead ==
  /\ pc = "head"
  /\ \E n \in 1..SmallerOf(BufSize - pos, HeadLen + served - pos) : pos' = pos + n
  /\ IF pos' < HeadLen
     THEN UNCHANGED <<pc, ret>>
     ELSE IF contentlen <= 0 THEN Leave("FILE_NOT_EXIST")
          ELSE pc' = "open" /\ UNCHANGED ret
  /\ UNCHANGED <<netVars, sockVars, partVars, held>>

\* How much the next receive may take: never more than is still to come, unless
\* more than was announced came already.  The length is then negative, which is a
\* very large one, and within the buffer is what does no harm.
HttpWanted ==
  IF packeglen > contentlen THEN BufSize ELSE SmallerOf(BufSize, contentlen - packeglen)

-----------------------------------------------------------------------------
(* FTP.  A failing SIZE or PASV returns past the exit.                     *)

\* The connection's own exit leaves descriptor 0 open too, and fd at -1.
FtpLogin ==
  /\ pc = "ftp"
  /\ \/ /\ Leave("CONN_REJECT") /\ held' \in {held, held \cup {"fd"}}
        /\ UNCHANGED <<fd, live, connected>>
     \/ /\ fd' \in {0, 1} /\ live' = TRUE /\ connected' = TRUE
        /\ held' = held \cup {"fd"}
        /\ \/ Leave("CONN_REJECT")
           \/ pc' = "size" /\ UNCHANGED ret
  /\ UNCHANGED <<source, mod, partVars, pos, stray>>

FtpSize ==
  /\ pc = "size"
  /\ \/ Leave("NO_MEMORY") /\ held' \in {held, held \cup {"recvbuf"}}
     \/ /\ held' = held \cup {"recvbuf", "buf"}
        /\ \/ Return("UNKNOWN_ERR")
           \/ pc' = "retr" /\ UNCHANGED ret
  /\ UNCHANGED <<netVars, sockVars, partVars, pos>>

FtpRetr ==
  /\ pc = "retr"
  /\ \/ Leave("CONN_REJECT") /\ held' \in {held, held \cup {"data_fd"}}
     \/ pc' = "open" /\ held' = held \cup {"data_fd"} /\ UNCHANGED ret
  /\ UNCHANGED <<netVars, sockVars, partVars, pos>>

-----------------------------------------------------------------------------
(* The body, which both protocols write to the partition.                  *)

Open ==
  /\ pc = "open"
  /\ \/ Leave("OPEN_PARTITION_FAIL") /\ UNCHANGED <<held, part, done, opened>>
     \/ /\ held' = held \cup {"partition"} /\ opened' = TRUE
        /\ part' = <<>> /\ done' = FALSE
        /\ pc' = IF BodyPos > 0 THEN "first" ELSE "body"
        /\ UNCHANGED ret
  /\ UNCHANGED <<netVars, sockVars, pos, packeglen>>

\* What followed the header in the buffer.
HttpFirst ==
  /\ pc = "first"
  /\ \/ Writes(0, BodyPos) /\ pc' = "body" /\ UNCHANGED ret
     \/ WriteFails(0, BodyPos)
  /\ UNCHANGED <<netVars, sockVars, held, pos, opened>>

\* Everything announced was written.
Complete ==
  /\ pc = "body" /\ packeglen = contentlen
  /\ Leave("SUCESSED")
  /\ UNCHANGED <<netVars, sockVars, partVars, held, pos>>

\* Bytes are received and written.
HttpBody ==
  /\ pc = "body" /\ mod = "http" /\ packeglen # contentlen
  /\ \E n \in 1..SmallerOf(HttpWanted, served - BodyPos) :
       /\ pos' = pos + n
       /\ \/ Writes(BodyPos, n) /\ UNCHANGED <<pc, ret>>
          \/ WriteFails(BodyPos, n)
  /\ UNCHANGED <<netVars, sockVars, held, opened>>

\* The same for FTP, which asks for a full buffer.  With more bytes than
\* announced the loop ends and the last count is returned.
FtpBody ==
  /\ pc = "body" /\ mod = "ftp" /\ packeglen # contentlen
  /\ \E n \in 1..SmallerOf(BufSize, served - pos) :
       /\ pos' = pos + n
       /\ \/ /\ Writes(pos, n)
             /\ IF packeglen' > contentlen THEN Leave("COUNT") ELSE UNCHANGED <<pc, ret>>
          \/ WriteFails(pos, n)
  /\ UNCHANGED <<netVars, sockVars, held, opened>>

\* The server has closed the connection: 0 bytes are received and written, for
\* ever or until that fails.  If the FTP server announced less than nothing the
\* loop ends, and the count returned, 0, is that of success.
ReceiveNothing ==
  /\ pc = "body" /\ packeglen # contentlen
  /\ \/ Leave("WRITE_PARTITION_FAIL")
     \/ mod = "ftp" /\ packeglen > contentlen /\ Leave("SUCESSED")
  /\ UNCHANGED <<netVars, sockVars, partVars, held, pos>>

\* A receive fails, or times out in the FTP case (HTTP then tries again).  Beyond
\* the announced length FTP writes the -1 bytes it got, which no partition takes.
RecvError ==
  /\ pc = "head" \/ (pc = "body" /\ packeglen # contentlen)
  /\ Leave(IF pc = "body" /\ mod = "ftp" /\ packeglen > contentlen
           THEN "WRITE_PARTITION_FAIL" ELSE "RECV_ERR")
  /\ UNCHANGED <<netVars, sockVars, partVars, held, pos>>

\* A receive of negative length finds more than the buffer holds, and writes past
\* recvbuf.
Overrun ==
  /\ pc = "body" /\ mod = "http" /\ packeglen > contentlen
  /\ served - BodyPos > BufSize
  /\ pc' = "wild"
  /\ UNCHANGED <<netVars, sockVars, partVars, ret, held, pos>>

-----------------------------------------------------------------------------
(* AppUpdateDemo: from the file system to the partition.                   *)

\* Before the partition is open a failure changes nothing that lasts.
UpdateBegin ==
  /\ pc = "menu"
  /\ mod' = "file" /\ file' = 1 - file
  /\ served' \in 0..MaxLen /\ contentlen' = served'
  /\ held' = held \cup {"partition"}
  /\ opened' = TRUE /\ part' = <<>> /\ done' = FALSE
  /\ pc' = "copy"
  /\ UNCHANGED <<sockVars, ret, pos, packeglen, connected>>

\* A failed write leaves the partition open.
UpdateCopy ==
  /\ pc = "copy"
  /\ \E n \in 1..SmallerOf(BufSize, served - pos) :
       \/ /\ Writes(pos, n) /\ pos' = pos + n
          /\ UNCHANGED <<pc, ret, opened, mod, connected, sockVars>>
       \/ /\ \E k \in 0..(n - 1) : part' = part \o Piece(pos, k)
          /\ pc' = "menu" /\ Forget /\ UNCHANGED done
  /\ UNCHANGED <<source, held>>

\* Nothing more can be read.  The checksum's result is only logged.
UpdateEnd ==
  /\ pc = "copy"
  /\ held' \in {held, held \ {"partition"}}
  /\ pc' = "menu" /\ Forget
  /\ UNCHANGED <<source, part, done>>

-----------------------------------------------------------------------------
Init ==
  /\ pc = "menu" /\ mod = "none" /\ ret = "none" /\ held = {}
  /\ fd = -1 /\ live = FALSE /\ stray = FALSE
  /\ contentlen = 0 /\ pos = 0 /\ packeglen = 0
  /\ part = <<>> /\ done = FALSE /\ file = 0 /\ served = 0
  /\ connected = FALSE /\ opened = FALSE

Http == HttpConnect \/ HttpRequest \/ HttpHead \/ HttpFirst \/ HttpBody
Ftp  == FtpLogin \/ FtpSize \/ FtpRetr \/ FtpBody
Download == Lookup \/ Http \/ Ftp \/ Open \/ Complete \/ Exit \/ Crc
Update == UpdateCopy \/ UpdateEnd

\* After an overrun nothing is said any more, until the power is cut.
Next == Begin \/ Download \/ ReceiveNothing \/ RecvError \/ Overrun
          \/ UpdateBegin \/ Update \/ Restart

Spec == Init /\ [][Next]_vars

\* Waiting on a socket that is not this call's.
Elsewhere == pc \in {"head", "body"} /\ ~ live

\* The task runs, the server it reached sends what it has, and a reset takes place.
FairSpec == Spec /\ WF_vars(~ Elsewhere /\ Download) /\ WF_vars(Update)
                 /\ WF_vars(pc = "reset" /\ Restart)

-----------------------------------------------------------------------------
(* Properties.                                                             *)

\* The download implements PackageStore: before the partition is open, and once
\* it is left, nothing is being written.
Busy == {"first", "body", "copy", "wild"}
StoreState ==
  IF pc \in Busy THEN "writing"
  ELSE IF pc \in {"exit", "crc", "reset"} /\ ret = "SUCESSED" THEN "succeeded" ELSE "idle"

Store == INSTANCE PackageStore WITH
           stored <- part,
           source <- [file |-> file, length |-> served, announced |-> contentlen],
           state  <- StoreState

\* Whatever the server sends, the heap refuses, the partition rejects or the power
\* interrupts, writing, success and failure are those of PackageStore.
StoreSpec == Store!Spec

Places == {"menu", "lookup", "http", "request", "head", "ftp", "size", "retr", "open",
           "first", "body", "exit", "crc", "reset", "wild", "copy"}
PackageBytes == {0, 1} \X (1..MaxLen) \X {"inner", "last"}
Contents == Seq(PackageBytes)

FlagsOK ==
  /\ live \in BOOLEAN /\ done \in BOOLEAN
  /\ connected \in BOOLEAN /\ opened \in BOOLEAN /\ stray \in BOOLEAN

\* Every variable has its type; the count of written bytes never exceeds what
\* the server has, nor the counted position in its stream.
DlTypeOK ==
  /\ pc \in Places /\ mod \in Modes /\ ret \in Codes
  /\ fd \in {-1, 0, 1} /\ held \subseteq Things
  /\ contentlen \in -1..MaxLen /\ served \in 0..MaxLen
  /\ pos \in 0..(HeadLen + MaxLen) /\ packeglen \in 0..served
  /\ part \in Contents /\ file \in {0, 1}
  /\ FlagsOK

\* As long as a download or an update writes, the partition holds the first
\* packeglen bytes of its package and nothing else: none is lost between the
\* buffer of the header and the first receive, doubled or taken from an older
\* package, in any split of the stream.
StoredIsPrefix ==
  pc \in {"body", "copy"} => part = Piece(0, packeglen)

\* "app download success." (line 1308) from a server that announces the right
\* length means that the whole package is in the partition.
SuccessMeansWhole ==
  pc = "crc" /\ ret = "SUCESSED" /\ served = contentlen =>
    part = Piece(0, served)

\* The caller resets on the checksum alone (line 1313), whatever the download
\* returned and whatever an earlier one, an update or a power failure left in the
\* partition: it does so only if all of a package was written since the partition
\* was last opened, and never after a call of its own that wrote and failed.
FailedIsNotRun ==
  pc = "reset" => done /\ (opened /\ served = contentlen => ret = "SUCESSED")

\* A download that reached its server closes no descriptor twice (line 1132;
\* another task may own the number by then).
ClosesOwnSocket == stray => ~ connected

\* When an HTTP download is over, everything it acquired has been given back, but
\* for descriptor 0, which the exit does not close (line 1132), and for the list
\* of addresses after a failing setsockopt (line 757).
HttpReleases ==
  pc = "crc" /\ mod = "http" /\ ret # "PDP_ACTIVE_FAIL" =>
    held \subseteq {"url"} \cup (IF ret = "UNKNOWN_ERR" /\ connected THEN {"addrs"} ELSE {})
                        \cup (IF fd = 0 /\ live THEN {"fd"} ELSE {})
                        \cup (IF opened THEN {} ELSE {"partition"})

\* A download from a server that sends what it announces ends, whatever fails
\* on the way, unless its request went to another task's socket.
DownloadEnds == (pc # "menu" /\ served = contentlen) ~> (pc = "menu" \/ Elsewhere)

-----------------------------------------------------------------------------
(* The inductive invariant behind the properties, proved in                *)
(* AppDownloadProofs.                                                      *)

BeforeOpen == {"lookup", "http", "request", "head", "ftp", "size", "retr", "open"}
InHttp     == {"http", "request", "head", "first"}
InFtp      == {"ftp", "size", "retr"}

\* What the place in the code says of the counts.
Stage ==
  /\ pc = "menu" => /\ ret = "none" /\ mod = "none" /\ fd = -1 /\ ~ live /\ pos = 0 /\ packeglen = 0
                    /\ ~ connected /\ ~ opened /\ ~ stray
  /\ pc \in BeforeOpen => packeglen = 0 /\ ~ opened
  /\ pc \in BeforeOpen \ {"head", "open"} => pos = 0
  /\ pc \in InHttp => mod = "http"
  /\ pc \in InFtp => mod = "ftp"
  /\ pc = "copy" => mod = "file" /\ contentlen = served
  /\ pc \in BeforeOpen \cup {"body", "wild"} => mod \in {"http", "ftp"}
  /\ pc = "head" => pos < HeadLen
  /\ pc = "open" => BodyPos \in 0..served /\ (mod = "ftp" => pos = 0)
  /\ pc = "first" => BodyPos \in 1..served /\ packeglen = 0
  /\ pc \in {"body", "wild", "copy"} => packeglen = BodyPos
  /\ pc = "wild" => packeglen > contentlen
  /\ pc = "body" /\ mod = "ftp" => packeglen <= contentlen \/ packeglen = 0
  /\ pc \in BeforeOpen \cup Busy => ret = "none"

\* What it says of the partition.  Part of a package is never all of it.
Partial == \E k \in 0..(served - 1) : part = Piece(0, k)

Stored ==
  /\ pc \in Busy => /\ part = Piece(0, packeglen)
                    /\ packeglen > 0 /\ packeglen = served => done
  /\ Whole(part) => done
  /\ pc \in {"exit", "crc", "reset"} =>
       IF ret = "SUCESSED"
       THEN /\ part = Piece(0, packeglen)
            /\ packeglen = contentlen \/ (contentlen < 0 /\ packeglen = 0)
       ELSE opened /\ served = contentlen => Partial
  /\ FailedIsNotRun

\* What it says of the socket.
Sockets ==
  /\ stray => ~ connected
  /\ pc \notin {"crc", "reset", "menu"} /\ fd > 0 /\ ~ live => ~ connected
  /\ pc \in {"lookup", "http", "ftp"} => fd = -1 /\ ~ connected /\ ~ stray
  /\ mod = "http" /\ "fd" \in held /\ pc \notin {"crc", "reset", "menu"} =>
       live /\ fd >= 0

\* What an HTTP download holds on its way.
Kept == {"url", "pdp", "partition", "fd", "header", "recvbuf"}
Held ==
  mod = "http" =>
    /\ pc \in {"lookup", "request", "head", "open", "first", "body"} => held \subseteq Kept
    /\ pc = "http" => held \subseteq Kept \cup {"addrs"}
    /\ pc = "exit" => held \subseteq Kept \cup
         (IF ret = "UNKNOWN_ERR" /\ connected THEN {"addrs"} ELSE {})
    /\ HttpReleases

DlInv == DlTypeOK /\ Stage /\ Stored /\ Sockets /\ Held
=============================================================================
