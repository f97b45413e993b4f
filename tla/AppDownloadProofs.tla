------------------------- MODULE AppDownloadProofs -------------------------
(***************************************************************************)
(* The invariants of AppDownload, and its refinement of PackageStore, for  *)
(* every size of the buffer, of the header and of the package.             *)
(***************************************************************************)
EXTENDS AppDownload, SequenceTheorems, TLAPS

USE DlAssumption

-----------------------------------------------------------------------------
(* Pieces of a package.                                                    *)

BytesOf(f) == {f} \X Nat \X {"inner", "last"}

\* A slice is a sequence of its length, and within the longest package of bytes
\* that occur in one.
LEMMA SliceFacts ==
  \A f, len, from, n : len \in Nat /\ from \in Nat /\ n \in Nat =>
    /\ Slice(f, len, from, n) \in Seq(BytesOf(f))
    /\ Len(Slice(f, len, from, n)) = n
    /\ f \in {0, 1} /\ from + n <= MaxLen => Slice(f, len, from, n) \in Contents
<1> SUFFICES ASSUME NEW f, NEW len \in Nat, NEW from \in Nat, NEW n \in Nat
             PROVE  /\ Slice(f, len, from, n) \in Seq(BytesOf(f))
                    /\ Len(Slice(f, len, from, n)) = n
                    /\ f \in {0, 1} /\ from + n <= MaxLen =>
                         Slice(f, len, from, n) \in Contents
  OBVIOUS
<1>1. ASSUME NEW k \in 1..n, NEW m \in {"inner", "last"}
      PROVE  /\ <<f, from + k, m>> \in BytesOf(f)
             /\ f \in {0, 1} /\ from + n <= MaxLen => <<f, from + k, m>> \in PackageBytes
  BY DEF BytesOf, PackageBytes
<1>2. /\ Slice(f, len, from, n) \in [1..n -> BytesOf(f)]
      /\ f \in {0, 1} /\ from + n <= MaxLen =>
           Slice(f, len, from, n) \in [1..n -> PackageBytes]
  BY <1>1 DEF Slice
<1> QED
  BY <1>2 DEF Slice, Contents

LEMMA SliceEmpty ==
  ASSUME NEW f, NEW len, NEW from
  PROVE  Slice(f, len, from, 0) = <<>>
BY DEF Slice

LEMMA BytesConcat ==
  ASSUME NEW f, NEW s \in Seq(BytesOf(f)), NEW t \in Seq(BytesOf(f))
  PROVE  /\ s \o t \in Seq(BytesOf(f)) /\ Len(s \o t) = Len(s) + Len(t)
         /\ \A k \in 1..(Len(s) + Len(t)) :
              (s \o t)[k] = IF k <= Len(s) THEN s[k] ELSE t[k - Len(s)]
BY ConcatProperties

Joined(s, t) == s \o t

\* Two slices that follow each other are one.
LEMMA SliceConcat ==
  \A f, len, a, b : len \in Nat /\ a \in Nat /\ b \in Nat =>
    Joined(Slice(f, len, 0, a), Slice(f, len, a, b)) = Slice(f, len, 0, a + b)
<1> SUFFICES ASSUME NEW f, NEW len \in Nat, NEW a \in Nat, NEW b \in Nat
             PROVE  Joined(Slice(f, len, 0, a), Slice(f, len, a, b))
                      = Slice(f, len, 0, a + b)
  OBVIOUS
<1> DEFINE u == Slice(f, len, 0, a)
           v == Slice(f, len, a, b)
           t == Slice(f, len, 0, a + b)
           at(k) == <<f, k, IF k = len THEN "last" ELSE "inner">>
<1>1. u \in Seq(BytesOf(f)) /\ Len(u) = a
  BY SliceFacts
<1>2. v \in Seq(BytesOf(f)) /\ Len(v) = b
  BY SliceFacts
<1>3. a + b \in Nat /\ t \in Seq(BytesOf(f)) /\ Len(t) = a + b
  <2>1. a + b \in Nat
    OBVIOUS
  <2> QED
    BY <2>1, SliceFacts
<1>4. ASSUME NEW k \in 1..(a + b)
      PROVE  t[k] = IF k <= a THEN u[k] ELSE v[k - a]
  <2>1. t[k] = at(k)
    BY DEF Slice
  <2>2. CASE k <= a
    <3>1. k \in 1..a
      BY <2>2
    <3>2. u[k] = at(k)
      BY <3>1 DEF Slice
    <3> QED
      BY <2>1, <2>2, <3>2
  <2>3. CASE ~ (k <= a)
    <3>1. k - a \in 1..b /\ a + (k - a) = k
      BY <2>3
    <3>2. v[k - a] = at(k)
      BY <3>1 DEF Slice
    <3> QED
      BY <2>1, <2>3, <3>2
  <2> QED
    BY <2>2, <2>3
<1> HIDE DEF u, v, t
<1>5. /\ u \o v \in Seq(BytesOf(f)) /\ Len(u \o v) = a + b
      /\ \A k \in 1..(a + b) : (u \o v)[k] = IF k <= a THEN u[k] ELSE v[k - a]
  BY <1>1, <1>2, BytesConcat
<1>6. u \o v = t
  BY <1>3, <1>4, <1>5, SeqEqual
<1> QED
  BY <1>6 DEF u, v, t, Joined

\* The checksum does not take a part for the package.
LEMMA PartialNotWhole ==
  ASSUME NEW f, NEW len \in Nat, NEW k \in 0..(len - 1)
  PROVE  ~ Whole(Slice(f, len, 0, k))
<1> DEFINE p == Slice(f, len, 0, k)
<1>1. CASE k = 0
  BY <1>1, SliceEmpty DEF Whole
<1>2. CASE k > 0
  <2>1. k \in Nat /\ k \in 1..k /\ k # len
    BY <1>2
  <2>0. Len(p) = k
    BY <2>1, SliceFacts
  <2>2. p[k] = <<f, k, "inner">>
    BY <2>1 DEF Slice
  <2> HIDE DEF p
  <2>3. p[k] # <<p[1][1], k, IF k = Len(p) THEN "last" ELSE "inner">>
    BY <2>0, <2>1, <2>2
  <2> QED
    BY <2>0, <2>1, <2>3 DEF Whole, p
<1> QED
  BY <1>1, <1>2

LEMMA EmptyNotWhole == ~ Whole(<<>>)
BY DEF Whole

LEMMA SmallerFacts ==
  ASSUME NEW a \in Int, NEW b \in Int, NEW n \in 1..SmallerOf(a, b)
  PROVE  n \in Nat /\ n >= 1 /\ n <= a /\ n <= b
BY DEF SmallerOf
-----------------------------------------------------------------------------
(* What a write leaves in the partition.                                   *)

LEMMA NoBytes == <<>> \in Contents
BY DEF Contents

\* More bytes of the package follow those that are there.
LEMMA PartGrows ==
  ASSUME DlTypeOK, part = Piece(0, packeglen), NEW n \in Nat,
         packeglen + n <= served, part' = Joined(part, Piece(packeglen, n))
  PROVE  /\ part' = Slice(file, served, 0, packeglen + n)
         /\ part' \in Contents
<1>1. /\ file \in {0, 1} /\ served \in Nat /\ served <= MaxLen
      /\ packeglen \in Nat /\ packeglen + n \in Nat /\ packeglen + n <= MaxLen
      /\ 0 \in Nat /\ 0 + (packeglen + n) = packeglen + n
  BY DEF DlTypeOK
<1>2. part' = Slice(file, served, 0, packeglen + n)
  <2>1. Joined(Slice(file, served, 0, packeglen), Slice(file, served, packeglen, n))
          = Slice(file, served, 0, packeglen + n)
    BY <1>1, SliceConcat
  <2> QED
    BY <2>1 DEF Piece
<1>3. Slice(file, served, 0, packeglen + n) \in Contents
  BY <1>1, SliceFacts
<1> QED
  BY <1>2, <1>3

\* A partition that passes the checksum after a write has got all of the package.
LEMMA WholeIsDone ==
  ASSUME NEW f, NEW len \in Nat, NEW k \in 0..len, k < len \/ done',
         part' = Slice(f, len, 0, k)
  PROVE  Whole(part') => done'
<1>1. CASE k < len
  <2>1. k \in 0..(len - 1)
    BY <1>1
  <2> QED
    BY <2>1, PartialNotWhole
<1>2. CASE done'
  BY <1>2
<1> QED
  BY <1>1, <1>2

-----------------------------------------------------------------------------
(* Every action preserves the invariant.                                   *)

LEMMA InitInv == Init => DlInv
<1> SUFFICES ASSUME Init PROVE DlInv
  OBVIOUS
<1> USE DEF Init
<1>1. DlTypeOK
  <2>1. FlagsOK
    BY DEF FlagsOK
  <2> QED
    BY <2>1, NoBytes DEF DlTypeOK, Places, Modes, Codes, Things
<1>2. Stage
  BY DEF Stage, BeforeOpen, InHttp, InFtp, Busy
<1>3. Stored
  BY EmptyNotWhole DEF Stored, Busy, FailedIsNotRun
<1>4. Sockets
  BY DEF Sockets, Stage, BeforeOpen
<1>5. Held
  BY DEF Held, HttpReleases
<1> QED
  BY <1>1, <1>2, <1>3, <1>4, <1>5 DEF DlInv

LEMMA BeginInv == DlInv /\ Begin => DlInv'
<1> SUFFICES ASSUME DlInv, Begin PROVE DlInv'
  OBVIOUS
<1> USE DEF DlInv, Begin, source, netVars, sockVars, partVars, Return
<1>1. DlTypeOK'
  <2>1. pc' \in Places /\ mod' \in Modes /\ ret' \in Codes
    BY DEF Places, Modes, Codes, DlTypeOK
  <2>2. held' \subseteq Things
    BY DEF DlTypeOK, Things
  <2>3. FlagsOK'
    BY DEF FlagsOK, DlTypeOK
  <2> QED
    BY <2>1, <2>2, <2>3 DEF DlTypeOK, Stage
<1>2. Stage'
  BY DEF DlTypeOK, Stage, BeforeOpen, InHttp, InFtp, Busy, BodyPos
<1>3. Stored'
  BY DEF DlTypeOK, Stage, BeforeOpen, Stored, Busy, Partial, Piece, FailedIsNotRun
<1>4. Sockets'
  BY DEF Sockets, Stage, BeforeOpen
<1>5. Held'
  BY DEF Stage, BeforeOpen, InHttp, InFtp, Held, Kept, HttpReleases
<1> QED
  BY <1>1, <1>2, <1>3, <1>4, <1>5

LEMMA LookupInv == DlInv /\ Lookup => DlInv'
<1> SUFFICES ASSUME DlInv, Lookup PROVE DlInv'
  OBVIOUS
<1> USE DEF DlInv, Lookup, source, netVars, sockVars, partVars, Leave
<1>1. DlTypeOK'
  <2>1. FlagsOK'
    BY DEF FlagsOK, DlTypeOK
  <2> QED
    BY <2>1 DEF DlTypeOK, Places, Modes, Codes, Things, Stage, BeforeOpen, BodyPos
<1>2. Stage'
  BY DEF DlTypeOK, Stage, BeforeOpen, InHttp, InFtp, Busy, BodyPos
<1>3. Stored'
  BY DEF DlTypeOK, Stage, BeforeOpen, Stored, Busy, Partial, Piece, FailedIsNotRun
<1>4. Sockets'
  BY DEF Sockets, Stage, BeforeOpen
<1>5. Held'
  BY DEF Stage, BeforeOpen, InHttp, InFtp, Held, Kept, HttpReleases
<1> QED
  BY <1>1, <1>2, <1>3, <1>4, <1>5

LEMMA ExitInv == DlInv /\ Exit => DlInv'
<1> SUFFICES ASSUME DlInv, Exit PROVE DlInv'
  OBVIOUS
<1> USE DEF DlInv, Exit, source, netVars, sockVars, partVars
<1>1. DlTypeOK'
  <2>1. FlagsOK'
    BY DEF FlagsOK, DlTypeOK
  <2> QED
    BY <2>1 DEF DlTypeOK, Places, Modes, Codes, Things, Stage, BeforeOpen, BodyPos
<1>2. Stage'
  BY DEF DlTypeOK, Stage, BeforeOpen, InHttp, InFtp, Busy, BodyPos
<1>3. Stored'
  BY DEF DlTypeOK, Stage, BeforeOpen, Stored, Busy, Partial, Piece, FailedIsNotRun
<1>4. Sockets'
  BY DEF Sockets, Stage, BeforeOpen
<1>5. Held'
  <2>1. pc' = "crc" /\ UNCHANGED <<mod, ret, opened, connected, fd>>
    OBVIOUS
  <2>2. CASE mod = "http"
    <3>1. held \subseteq Kept \cup (IF ret = "UNKNOWN_ERR" /\ connected THEN {"addrs"} ELSE {})
      BY <2>2 DEF Held
    <3>2. "fd" \in held' => fd = 0 /\ live'
      <4>1. "fd" \in held' => "fd" \in held /\ ~ (fd > 0)
        OBVIOUS
      <4>2. "fd" \in held => live /\ fd >= 0
        BY <2>2 DEF Sockets
      <4>3. ~ (fd > 0) /\ fd >= 0 => fd = 0
        BY DEF DlTypeOK
      <4>4. live /\ fd = 0 => live'
        OBVIOUS
      <4> QED
        BY <4>1, <4>2, <4>3, <4>4
    <3>3. held' \subseteq held \ {"header", "recvbuf", "buf", "pdp",
                                  IF opened THEN "partition" ELSE "pdp"}
      OBVIOUS
    <3>4. HttpReleases'
      BY <2>1, <3>1, <3>2, <3>3 DEF HttpReleases, Kept
    <3> QED
      BY <2>1, <3>4 DEF Held
  <2> QED
    BY <2>1, <2>2 DEF Held
<1> QED
  BY <1>1, <1>2, <1>3, <1>4, <1>5

LEMMA CrcInv == DlInv /\ Crc => DlInv'
<1> SUFFICES ASSUME DlInv, Crc PROVE DlInv'
  OBVIOUS
<1> USE DEF DlInv, Crc, Forget, source, netVars, sockVars, partVars
<1>1. DlTypeOK'
  <2>1. FlagsOK'
    BY DEF FlagsOK, DlTypeOK
  <2> QED
    BY <2>1 DEF DlTypeOK, Places, Modes, Codes, Things, Stage, BeforeOpen, BodyPos
<1>2. Stage'
  BY DEF DlTypeOK, Stage, BeforeOpen, InHttp, InFtp, Busy, BodyPos
<1>3. Stored'
  <2>1. ASSUME Partial
        PROVE  ~ Whole(part)
    BY <2>1, PartialNotWhole DEF Partial, Piece, DlTypeOK
  <2> QED
    BY <2>1 DEF Stored, Busy, Partial, Piece, FailedIsNotRun
<1>4. Sockets'
  BY DEF Sockets, Stage, BeforeOpen
<1>5. Held'
  BY DEF Stage, BeforeOpen, InHttp, InFtp, Held, Kept, HttpReleases
<1> QED
  BY <1>1, <1>2, <1>3, <1>4, <1>5

LEMMA RestartInv == DlInv /\ Restart => DlInv'
<1> SUFFICES ASSUME DlInv, Restart PROVE DlInv'
  OBVIOUS
<1> USE DEF DlInv, Restart, Forget, source, netVars, sockVars, partVars
<1>1. DlTypeOK'
  <2>1. FlagsOK'
    BY DEF FlagsOK, DlTypeOK
  <2> QED
    BY <2>1 DEF DlTypeOK, Places, Modes, Codes, Things
<1>2. Stage'
  BY DEF DlTypeOK, Stage, BeforeOpen, InHttp, InFtp, Busy, BodyPos
<1>3. Stored'
  BY DEF DlTypeOK, Stage, BeforeOpen, Stored, Busy, Partial, Piece, FailedIsNotRun
<1>4. Sockets'
  BY DEF Sockets, Stage, BeforeOpen
<1>5. Held'
  BY DEF Stage, BeforeOpen, InHttp, InFtp, Held, Kept, HttpReleases
<1> QED
  BY <1>1, <1>2, <1>3, <1>4, <1>5

LEMMA HttpConnectInv == DlInv /\ HttpConnect => DlInv'
<1> SUFFICES ASSUME DlInv, HttpConnect PROVE DlInv'
  OBVIOUS
<1> USE DEF DlInv, HttpConnect, source, netVars, sockVars, partVars, Leave
<1>1. DlTypeOK'
  <2>1. FlagsOK'
    BY DEF FlagsOK, DlTypeOK
  <2> QED
    BY <2>1 DEF DlTypeOK, Places, Modes, Codes, Things, Stage, BeforeOpen, BodyPos
<1>2. Stage'
  BY DEF DlTypeOK, Stage, BeforeOpen, InHttp, InFtp, Busy, BodyPos
<1>3. Stored'
  BY DEF DlTypeOK, Stage, BeforeOpen, Stored, Busy, Partial, Piece, FailedIsNotRun
<1>4. Sockets'
  BY DEF Sockets, Stage, BeforeOpen
<1>5. Held'
  BY DEF Stage, BeforeOpen, InHttp, InFtp, Held, Kept, HttpReleases
<1> QED
  BY <1>1, <1>2, <1>3, <1>4, <1>5

LEMMA HttpRequestInv == DlInv /\ HttpRequest => DlInv'
<1> SUFFICES ASSUME DlInv, HttpRequest PROVE DlInv'
  OBVIOUS
<1> USE DEF DlInv, HttpRequest, source, netVars, sockVars, partVars, Leave
<1>1. DlTypeOK'
  <2>1. FlagsOK'
    BY DEF FlagsOK, DlTypeOK
  <2> QED
    BY <2>1 DEF DlTypeOK, Places, Modes, Codes, Things, Stage, BeforeOpen, BodyPos
<1>2. Stage'
  BY DEF DlTypeOK, Stage, BeforeOpen, InHttp, InFtp, Busy, BodyPos
<1>3. Stored'
  BY DEF DlTypeOK, Stage, BeforeOpen, Stored, Busy, Partial, Piece, FailedIsNotRun
<1>4. Sockets'
  BY DEF Sockets, Stage, BeforeOpen
<1>5. Held'
  BY DEF Stage, BeforeOpen, InHttp, InFtp, Held, Kept, HttpReleases
<1> QED
  BY <1>1, <1>2, <1>3, <1>4, <1>5

LEMMA HttpHeadInv == DlInv /\ HttpHead => DlInv'
<1> SUFFICES ASSUME DlInv, HttpHead PROVE DlInv'
  OBVIOUS
<1> USE DEF DlInv, HttpHead, source, netVars, sockVars, partVars, Leave
<1>0. PICK n \in 1..SmallerOf(BufSize - pos, HeadLen + served - pos) : pos' = pos + n
  OBVIOUS
<1>a. n \in Nat /\ n >= 1 /\ n <= HeadLen + served - pos
  <2>1. BufSize - pos \in Int /\ HeadLen + served - pos \in Int
    BY DEF DlTypeOK
  <2> QED
    BY <2>1, SmallerFacts
<1>b. /\ pos' \in 0..(HeadLen + MaxLen) /\ pos' <= HeadLen + served
      /\ mod = "http" /\ packeglen = 0
  BY <1>0, <1>a DEF DlTypeOK, Stage, BeforeOpen, InHttp
<1>1. DlTypeOK'
  <2>1. FlagsOK'
    BY DEF FlagsOK, DlTypeOK
  <2> QED
    BY <1>b, <2>1 DEF DlTypeOK, Places, Codes
<1>2. Stage'
  BY <1>b DEF DlTypeOK, Stage, BeforeOpen, InHttp, InFtp, Busy, BodyPos
<1>3. Stored'
  BY DEF DlTypeOK, Stage, BeforeOpen, Stored, Busy, Partial, Piece, FailedIsNotRun
<1>4. Sockets'
  BY DEF Sockets, Stage, BeforeOpen
<1>5. Held'
  BY DEF Stage, BeforeOpen, InHttp, InFtp, Held, Kept, HttpReleases
<1> QED
  BY <1>1, <1>2, <1>3, <1>4, <1>5

LEMMA FtpLoginInv == DlInv /\ FtpLogin => DlInv'
<1> SUFFICES ASSUME DlInv, FtpLogin PROVE DlInv'
  OBVIOUS
<1> USE DEF DlInv, FtpLogin, source, netVars, sockVars, partVars, Leave
<1>1. DlTypeOK'
  <2>1. FlagsOK'
    BY DEF FlagsOK, DlTypeOK
  <2> QED
    BY <2>1 DEF DlTypeOK, Places, Modes, Codes, Things, Stage, BeforeOpen, BodyPos
<1>2. Stage'
  BY DEF DlTypeOK, Stage, BeforeOpen, InHttp, InFtp, Busy, BodyPos
<1>3. Stored'
  BY DEF DlTypeOK, Stage, BeforeOpen, Stored, Busy, Partial, Piece, FailedIsNotRun
<1>4. Sockets'
  BY DEF Sockets, Stage, BeforeOpen, InFtp
<1>5. Held'
  BY DEF Stage, BeforeOpen, InHttp, InFtp, Held, Kept, HttpReleases
<1> QED
  BY <1>1, <1>2, <1>3, <1>4, <1>5

LEMMA FtpSizeInv == DlInv /\ FtpSize => DlInv'
<1> SUFFICES ASSUME DlInv, FtpSize PROVE DlInv'
  OBVIOUS
<1> USE DEF DlInv, FtpSize, source, netVars, sockVars, partVars, Leave, Return
<1>1. DlTypeOK'
  <2>1. FlagsOK'
    BY DEF FlagsOK, DlTypeOK
  <2> QED
    BY <2>1 DEF DlTypeOK, Places, Modes, Codes, Things, Stage, BeforeOpen, BodyPos
<1>2. Stage'
  BY DEF DlTypeOK, Stage, BeforeOpen, InHttp, InFtp, Busy, BodyPos
<1>3. Stored'
  BY DEF DlTypeOK, Stage, BeforeOpen, Stored, Busy, Partial, Piece, FailedIsNotRun
<1>4. Sockets'
  BY DEF Sockets, Stage, BeforeOpen
<1>5. Held'
  BY DEF Stage, BeforeOpen, InHttp, InFtp, Held, Kept, HttpReleases
<1> QED
  BY <1>1, <1>2, <1>3, <1>4, <1>5

LEMMA FtpRetrInv == DlInv /\ FtpRetr => DlInv'
<1> SUFFICES ASSUME DlInv, FtpRetr PROVE DlInv'
  OBVIOUS
<1> USE DEF DlInv, FtpRetr, source, netVars, sockVars, partVars, Leave
<1>1. DlTypeOK'
  <2>1. FlagsOK'
    BY DEF FlagsOK, DlTypeOK
  <2> QED
    BY <2>1 DEF DlTypeOK, Places, Modes, Codes, Things, Stage, BeforeOpen, BodyPos
<1>2. Stage'
  BY DEF DlTypeOK, Stage, BeforeOpen, InHttp, InFtp, Busy, BodyPos
<1>3. Stored'
  BY DEF DlTypeOK, Stage, BeforeOpen, Stored, Busy, Partial, Piece, FailedIsNotRun
<1>4. Sockets'
  BY DEF Sockets, Stage, BeforeOpen
<1>5. Held'
  BY DEF Stage, BeforeOpen, InHttp, InFtp, Held, Kept, HttpReleases
<1> QED
  BY <1>1, <1>2, <1>3, <1>4, <1>5

LEMMA OpenInv == DlInv /\ Open => DlInv'
<1> SUFFICES ASSUME DlInv, Open PROVE DlInv'
  OBVIOUS
<1> USE DEF DlInv, Open, source, netVars, sockVars, partVars, Leave
<1>1. DlTypeOK'
  <2>1. FlagsOK'
    BY DEF FlagsOK, DlTypeOK
  <2> QED
    BY <2>1, NoBytes DEF DlTypeOK, Places, Modes, Codes, Things, Stage, BeforeOpen, BodyPos
<1>2. Stage'
  BY DEF DlTypeOK, Stage, BeforeOpen, InHttp, InFtp, Busy, BodyPos
<1>3. Stored'
  BY SliceEmpty, EmptyNotWhole DEF DlTypeOK, Stage, BeforeOpen, Stored, Busy, Partial, Piece,
     FailedIsNotRun
<1>4. Sockets'
  BY DEF Sockets, Stage, BeforeOpen
<1>5. Held'
  BY DEF Stage, BeforeOpen, InHttp, InFtp, Held, Kept, HttpReleases
<1> QED
  BY <1>1, <1>2, <1>3, <1>4, <1>5

LEMMA CompleteInv == DlInv /\ Complete => DlInv'
<1> SUFFICES ASSUME DlInv, Complete PROVE DlInv'
  OBVIOUS
<1> USE DEF DlInv, Complete, source, netVars, sockVars, partVars, Leave
<1>1. DlTypeOK'
  <2>1. FlagsOK'
    BY DEF FlagsOK, DlTypeOK
  <2> QED
    BY <2>1 DEF DlTypeOK, Places, Modes, Codes, Things, Stage, BeforeOpen, BodyPos
<1>2. Stage'
  BY DEF DlTypeOK, Stage, BeforeOpen, InHttp, InFtp, Busy, BodyPos
<1>3. Stored'
  BY DEF DlTypeOK, Stage, BeforeOpen, Stored, Busy, Partial, Piece, FailedIsNotRun
<1>4. Sockets'
  BY DEF Sockets, Stage, BeforeOpen
<1>5. Held'
  BY DEF Stage, BeforeOpen, InHttp, InFtp, Held, Kept, HttpReleases
<1> QED
  BY <1>1, <1>2, <1>3, <1>4, <1>5

LEMMA RecvErrorInv == DlInv /\ RecvError => DlInv'
<1> SUFFICES ASSUME DlInv, RecvError PROVE DlInv'
  OBVIOUS
<1> USE DEF DlInv, RecvError, source, netVars, sockVars, partVars, Leave
<1>1. DlTypeOK'
  <2>1. FlagsOK'
    BY DEF FlagsOK, DlTypeOK
  <2> QED
    BY <2>1 DEF DlTypeOK, Places, Modes, Codes, Things, Stage, BeforeOpen, BodyPos
<1>2. Stage'
  BY DEF DlTypeOK, Stage, BeforeOpen, InHttp, InFtp, Busy, BodyPos
<1>3. Stored'
  BY DEF DlTypeOK, Stage, BeforeOpen, Stored, Busy, Partial, Piece, FailedIsNotRun
<1>4. Sockets'
  BY DEF Sockets, Stage, BeforeOpen
<1>5. Held'
  BY DEF Stage, BeforeOpen, InHttp, InFtp, Held, Kept, HttpReleases
<1> QED
  BY <1>1, <1>2, <1>3, <1>4, <1>5

LEMMA OverrunInv == DlInv /\ Overrun => DlInv'
<1> SUFFICES ASSUME DlInv, Overrun PROVE DlInv'
  OBVIOUS
<1> USE DEF DlInv, Overrun, source, netVars, sockVars, partVars
<1>1. DlTypeOK'
  <2>1. FlagsOK'
    BY DEF FlagsOK, DlTypeOK
  <2> QED
    BY <2>1 DEF DlTypeOK, Places, Modes, Codes, Things, Stage, BeforeOpen, BodyPos
<1>2. Stage'
  BY DEF DlTypeOK, Stage, BeforeOpen, InHttp, InFtp, Busy, BodyPos
<1>3. Stored'
  BY DEF DlTypeOK, Stage, BeforeOpen, Stored, Busy, Partial, Piece, FailedIsNotRun
<1>4. Sockets'
  BY DEF Sockets, Stage, BeforeOpen
<1>5. Held'
  BY DEF Stage, BeforeOpen, InHttp, InFtp, Held, Kept, HttpReleases
<1> QED
  BY <1>1, <1>2, <1>3, <1>4, <1>5

LEMMA UpdateBeginInv == DlInv /\ UpdateBegin => DlInv'
<1> SUFFICES ASSUME DlInv, UpdateBegin PROVE DlInv'
  OBVIOUS
<1> USE DEF DlInv, UpdateBegin, source, netVars, sockVars, partVars
<1>1. DlTypeOK'
  <2>1. FlagsOK'
    BY DEF FlagsOK, DlTypeOK
  <2> QED
    BY <2>1, NoBytes DEF DlTypeOK, Places, Modes, Codes, Things, Stage
<1>2. Stage'
  BY DEF DlTypeOK, Stage, BeforeOpen, InHttp, InFtp, Busy, BodyPos
<1>3. Stored'
  BY SliceEmpty, EmptyNotWhole DEF DlTypeOK, Stage, BeforeOpen, Stored, Busy, Partial, Piece,
     FailedIsNotRun
<1>4. Sockets'
  BY DEF Sockets, Stage, BeforeOpen
<1>5. Held'
  BY DEF Stage, BeforeOpen, InHttp, InFtp, Held, Kept, HttpReleases
<1> QED
  BY <1>1, <1>2, <1>3, <1>4, <1>5

LEMMA UpdateEndInv == DlInv /\ UpdateEnd => DlInv'
<1> SUFFICES ASSUME DlInv, UpdateEnd PROVE DlInv'
  OBVIOUS
<1> USE DEF DlInv, UpdateEnd, Forget, source, netVars, sockVars, partVars
<1>1. DlTypeOK'
  <2>1. FlagsOK'
    BY DEF FlagsOK, DlTypeOK
  <2> QED
    BY <2>1 DEF DlTypeOK, Places, Modes, Codes, Things, Stage, BeforeOpen, BodyPos
<1>2. Stage'
  BY DEF DlTypeOK, Stage, BeforeOpen, InHttp, InFtp, Busy, BodyPos
<1>3. Stored'
  BY DEF DlTypeOK, Stage, BeforeOpen, Stored, Busy, Partial, Piece, FailedIsNotRun
<1>4. Sockets'
  BY DEF Sockets, Stage, BeforeOpen
<1>5. Held'
  BY DEF Stage, BeforeOpen, InHttp, InFtp, Held, Kept, HttpReleases
<1> QED
  BY <1>1, <1>2, <1>3, <1>4, <1>5

LEMMA ReceiveNothingInv == DlInv /\ ReceiveNothing => DlInv'
<1> SUFFICES ASSUME DlInv, ReceiveNothing PROVE DlInv'
  OBVIOUS
<1> USE DEF DlInv, ReceiveNothing, source, netVars, sockVars, partVars, Leave
<1>1. DlTypeOK'
  <2>1. FlagsOK'
    BY DEF FlagsOK, DlTypeOK
  <2> QED
    BY <2>1 DEF DlTypeOK, Places, Modes, Codes
<1>2. Stage'
  BY DEF DlTypeOK, Stage, BeforeOpen, InHttp, InFtp, Busy, BodyPos
<1>3. Stored'
  <2>1. mod = "ftp" /\ packeglen > contentlen => packeglen = 0 /\ contentlen < 0
    BY DEF Stage, DlTypeOK
  <2>2. part = Piece(0, packeglen) /\ Piece(0, packeglen)' = Piece(0, packeglen)
    BY DEF Stored, Busy, Piece
  <2>3. ret' # "SUCESSED" /\ served = contentlen => packeglen \in 0..(served - 1)
    BY DEF DlTypeOK
  <2> QED
    BY <2>1, <2>2, <2>3 DEF Stored, Busy, Partial, Piece, FailedIsNotRun
<1>4. Sockets'
  BY DEF Sockets
<1>5. Held'
  BY DEF Held, Kept, HttpReleases
<1> QED
  BY <1>1, <1>2, <1>3, <1>4, <1>5

LEMMA HttpFirstInv == DlInv /\ HttpFirst => DlInv'
<1> SUFFICES ASSUME DlInv, HttpFirst PROVE DlInv'
  OBVIOUS
<1> USE DEF DlInv, HttpFirst, source, netVars, sockVars, Leave
<1>1. /\ packeglen = 0 /\ BodyPos \in Nat /\ BodyPos >= 1
      /\ packeglen + BodyPos <= served /\ packeglen + BodyPos = BodyPos
      /\ part = Piece(0, packeglen) /\ served \in Nat
  BY DEF DlTypeOK, Stage, Stored, Busy, BodyPos
<1>2. CASE Writes(0, BodyPos) /\ pc' = "body" /\ UNCHANGED ret
  <2> USE <1>2
  <2>1. packeglen' = packeglen + BodyPos /\ packeglen' = BodyPos
    BY <1>1 DEF Writes
  <2>2. /\ part' = Slice(file, served, 0, packeglen + BodyPos)
        /\ part' \in Contents
    BY <1>1, PartGrows DEF Writes, Joined
  <2>3. DlTypeOK'
    <3>1. FlagsOK'
      BY DEF FlagsOK, DlTypeOK, Writes
    <3> QED
      BY <1>1, <2>1, <2>2, <3>1 DEF DlTypeOK, Places
  <2>4. Stage'
    BY <1>1, <2>1 DEF DlTypeOK, Stage, BeforeOpen, InHttp, InFtp, Busy, BodyPos
  <2>5. Stored'
    <3>1. done' <=> packeglen + BodyPos = served
      BY <2>1 DEF Writes
    <3>2. Whole(part') => done'
      <4>1. packeglen + BodyPos \in 0..served /\ (packeglen + BodyPos < served \/ done')
        BY <1>1, <3>1
      <4> QED
        BY <1>1, <2>2, <4>1, WholeIsDone
    <3> QED
      BY <1>1, <2>1, <2>2, <3>1, <3>2 DEF Stored, Busy, Piece, FailedIsNotRun
  <2>6. Sockets'
    BY DEF Sockets
  <2>7. Held'
    BY DEF Held, Kept, HttpReleases
  <2> QED
    BY <2>3, <2>4, <2>5, <2>6, <2>7
<1>3. CASE WriteFails(0, BodyPos)
  <2> USE <1>3
  <2>1. PICK k \in 0..(BodyPos - 1) : part' = Joined(part, Piece(packeglen, k))
    BY <1>1 DEF WriteFails, Joined
  <2>2. k \in Nat /\ packeglen + k <= served /\ packeglen + k \in 0..(served - 1)
    BY <1>1 DEF DlTypeOK
  <2>3. /\ part' = Slice(file, served, 0, packeglen + k)
        /\ part' \in Contents
    BY <1>1, <2>1, <2>2, PartGrows
  <2>4. DlTypeOK'
    <3>1. FlagsOK'
      BY DEF FlagsOK, DlTypeOK, WriteFails
    <3> QED
      BY <2>3, <3>1 DEF DlTypeOK, WriteFails, Places, Codes
  <2>5. Stage'
    BY DEF WriteFails, Stage, BeforeOpen, InHttp, InFtp, Busy
  <2>6. Stored'
    <3>1. ~ Whole(part')
      BY <1>1, <2>2, <2>3, PartialNotWhole
    <3> QED
      BY <2>2, <2>3, <3>1 DEF WriteFails, Stored, Busy, Partial, Piece, FailedIsNotRun
  <2>7. Sockets'
    BY DEF Sockets, WriteFails
  <2>8. Held'
    BY DEF Held, Kept, HttpReleases, WriteFails
  <2> QED
    BY <2>4, <2>5, <2>6, <2>7, <2>8
<1> QED
  BY <1>2, <1>3

\* A turn of either loop: it takes the next bytes, and writes them or fails.
LEMMA BodyInv == DlInv /\ (HttpBody \/ FtpBody) => DlInv'
<1> SUFFICES ASSUME DlInv, HttpBody \/ FtpBody PROVE DlInv'
  OBVIOUS
<1> USE DEF DlInv, source, netVars, sockVars
<1> DEFINE wrote(m) == /\ Writes(packeglen, m)
                       /\ \/ UNCHANGED <<pc, ret>> /\ (mod = "ftp" => packeglen' <= contentlen)
                          \/ Leave("COUNT") /\ packeglen' > contentlen
<1>1. PICK n \in Nat :
        /\ n >= 1 /\ n <= served - packeglen
        /\ pos' = pos + n
        /\ wrote(n) \/ WriteFails(packeglen, n)
  <2>1. BodyPos = packeglen /\ (mod = "ftp" => pos = packeglen) /\ pc = "body"
    BY DEF Stage, BodyPos, HttpBody, FtpBody
  <2>2. /\ BufSize \in Int /\ HttpWanted \in Int
        /\ served - BodyPos \in Int /\ served - pos \in Int
    BY <2>1 DEF DlTypeOK, HttpWanted, SmallerOf
  <2>3. CASE HttpBody
    <3>1. PICK n \in 1..SmallerOf(HttpWanted, served - BodyPos) :
            /\ pos' = pos + n
            /\ \/ Writes(BodyPos, n) /\ UNCHANGED <<pc, ret>>
               \/ WriteFails(BodyPos, n)
      BY <2>3 DEF HttpBody
    <3>2. n \in Nat /\ n >= 1 /\ n <= served - BodyPos
      BY <2>2, SmallerFacts
    <3> QED
      BY <2>1, <2>3, <3>1, <3>2 DEF HttpBody
  <2>4. CASE FtpBody
    <3>1. PICK n \in 1..SmallerOf(BufSize, served - pos) :
            /\ pos' = pos + n
            /\ \/ /\ Writes(pos, n)
                  /\ IF packeglen' > contentlen THEN Leave("COUNT")
                     ELSE UNCHANGED <<pc, ret>>
               \/ WriteFails(pos, n)
      BY <2>4 DEF FtpBody
    <3>2. n \in Nat /\ n >= 1 /\ n <= served - pos
      BY <2>2, SmallerFacts
    <3>3. Writes(pos, n) => packeglen' \in Int /\ contentlen \in Int
      BY <3>2 DEF Writes, DlTypeOK
    <3> QED
      BY <2>1, <2>4, <3>1, <3>2, <3>3 DEF FtpBody
  <2> QED
    BY <2>3, <2>4
<1>2. /\ pc = "body" /\ mod \in {"http", "ftp"} /\ packeglen = BodyPos
      /\ part = Piece(0, packeglen) /\ ret = "none"
      /\ UNCHANGED <<mod, contentlen, served, file, connected, fd, live, stray, held, opened>>
  BY DEF Stage, Stored, BeforeOpen, Busy, HttpBody, FtpBody
<1>3. /\ packeglen + n <= served /\ pos' \in 0..(HeadLen + MaxLen)
      /\ BodyPos' = packeglen + n /\ served \in Nat
      /\ packeglen + n \in 0..served
  BY <1>1, <1>2 DEF DlTypeOK, BodyPos
<1>4. CASE wrote(n)
  <2> USE <1>4 DEF Leave
  <2>1. packeglen' = packeglen + n
    BY DEF Writes
  <2>2. /\ part' = Slice(file, served, 0, packeglen + n)
        /\ part' \in Contents
    BY <1>2, <1>3, PartGrows DEF Writes, Joined
  <2>3. DlTypeOK'
    <3>1. FlagsOK'
      BY <1>2 DEF FlagsOK, DlTypeOK, Writes
    <3> QED
      BY <1>1, <1>2, <1>3, <2>1, <2>2, <3>1 DEF DlTypeOK, Places, Codes
  <2>4. Stage'
    BY <1>2, <1>3, <2>1 DEF DlTypeOK, Stage, BeforeOpen, InHttp, InFtp, Busy
  <2>5. Stored'
    <3>1. done' <=> packeglen + n = served
      BY <1>2, <2>1 DEF Writes
    <3>2. Whole(part') => done'
      <4>1. packeglen + n < served \/ done'
        BY <1>3, <3>1
      <4> QED
        BY <1>3, <2>2, <4>1, WholeIsDone
    <3>3. CASE UNCHANGED <<pc, ret>>
      BY <1>2, <2>1, <2>2, <3>1, <3>2, <3>3 DEF Stored, Busy, Piece, FailedIsNotRun
    <3>4. CASE Leave("COUNT") /\ packeglen' > contentlen
      <4>1. served' # contentlen'
        BY <1>2, <1>3, <2>1, <3>4 DEF DlTypeOK
      <4> QED
        BY <1>2, <3>2, <3>4, <4>1 DEF Stored, Busy, FailedIsNotRun
    <3> QED
      BY <3>3, <3>4
  <2>6. Sockets'
    BY <1>2 DEF Sockets
  <2>7. Held'
    BY <1>2 DEF Held, Kept, HttpReleases
  <2> QED
    BY <2>3, <2>4, <2>5, <2>6, <2>7
<1>5. CASE WriteFails(packeglen, n)
  <2> USE <1>5 DEF Leave, WriteFails
  <2>1. PICK k \in 0..(n - 1) : part' = Joined(part, Piece(packeglen, k))
    BY <1>1 DEF Joined
  <2>2. k \in Nat /\ packeglen + k <= served /\ packeglen + k \in 0..(served - 1)
    BY <1>1, <1>3 DEF DlTypeOK
  <2>3. /\ part' = Slice(file, served, 0, packeglen + k)
        /\ part' \in Contents
    BY <1>2, <2>1, <2>2, PartGrows
  <2>4. DlTypeOK'
    <3>1. FlagsOK'
      BY <1>2 DEF FlagsOK, DlTypeOK
    <3> QED
      BY <1>2, <1>3, <2>3, <3>1 DEF DlTypeOK, Places, Codes
  <2>5. Stage'
    BY <1>2 DEF Stage, BeforeOpen, InHttp, InFtp, Busy
  <2>6. Stored'
    <3>1. ~ Whole(part')
      BY <1>3, <2>2, <2>3, PartialNotWhole
    <3> QED
      BY <1>2, <2>2, <2>3, <3>1 DEF Stored, Busy, Partial, Piece, FailedIsNotRun
  <2>7. Sockets'
    BY <1>2 DEF Sockets
  <2>8. Held'
    BY <1>2 DEF Held, Kept, HttpReleases
  <2> QED
    BY <2>4, <2>5, <2>6, <2>7, <2>8
<1> HIDE DEF DlInv, source, netVars, sockVars, wrote
<1> QED
  BY <1>1, <1>4, <1>5

LEMMA UpdateCopyInv == DlInv /\ UpdateCopy => DlInv'
<1> SUFFICES ASSUME DlInv, UpdateCopy PROVE DlInv'
  OBVIOUS
<1> USE DEF DlInv, source, sockVars
<1> DEFINE copied(m) == /\ Writes(packeglen, m) /\ pos' = packeglen + m
                        /\ UNCHANGED <<pc, ret, opened, mod, connected, sockVars>>
           failed(m) == /\ \E k \in 0..(m - 1) : part' = part \o Piece(packeglen, k)
                        /\ pc' = "menu" /\ Forget /\ UNCHANGED done
<1>2. /\ pc = "copy" /\ mod = "file" /\ contentlen = served /\ pos = packeglen
      /\ part = Piece(0, packeglen) /\ ret = "none" /\ served \in Nat
      /\ UNCHANGED <<contentlen, served, file, held>>
  BY DEF Stage, Stored, Busy, BodyPos, UpdateCopy, DlTypeOK
<1>1. PICK n \in 1..SmallerOf(BufSize, served - pos) : copied(n) \/ failed(n)
  BY <1>2 DEF UpdateCopy
<1>3. /\ n \in Nat /\ n >= 1 /\ packeglen + n <= served
      /\ packeglen + n \in 0..(HeadLen + MaxLen) /\ packeglen + n \in 0..served
  <2>1. BufSize \in Int /\ served - pos \in Int
    BY DEF DlTypeOK
  <2>2. n \in Nat /\ n >= 1 /\ n <= served - pos
    BY <2>1, SmallerFacts
  <2> QED
    BY <1>2, <2>2 DEF DlTypeOK
<1>4. CASE copied(n)
  <2> USE <1>4
  <2>1. packeglen' = packeglen + n /\ pos' = packeglen + n
    BY DEF Writes
  <2>2. /\ part' = Slice(file, served, 0, packeglen + n)
        /\ part' \in Contents
    BY <1>2, <1>3, PartGrows DEF Writes, Joined
  <2>3. DlTypeOK'
    <3>1. FlagsOK'
      BY <1>2 DEF FlagsOK, DlTypeOK, Writes
    <3> QED
      BY <1>2, <1>3, <2>1, <2>2, <3>1 DEF DlTypeOK
  <2>4. Stage'
    BY <1>2, <1>3, <2>1 DEF Stage, BeforeOpen, InHttp, InFtp, Busy, BodyPos
  <2>5. Stored'
    <3>1. done' <=> packeglen + n = served
      BY <1>2, <2>1 DEF Writes
    <3>2. Whole(part') => done'
      <4>1. packeglen + n < served \/ done'
        BY <1>3, <3>1 DEF DlTypeOK
      <4> QED
        BY <1>2, <1>3, <2>2, <4>1, WholeIsDone
    <3> QED
      BY <1>2, <2>1, <2>2, <3>1, <3>2 DEF Stored, Busy, Piece, FailedIsNotRun
  <2>6. Sockets'
    BY <1>2 DEF Sockets
  <2>7. Held'
    BY <1>2 DEF Held
  <2> QED
    BY <2>3, <2>4, <2>5, <2>6, <2>7
<1>5. CASE failed(n)
  <2> USE <1>5 DEF Forget
  <2>1. PICK k \in 0..(n - 1) : part' = Joined(part, Piece(packeglen, k))
    BY <1>2 DEF Joined
  <2>2. k \in Nat /\ packeglen + k <= served /\ packeglen + k \in 0..(served - 1)
    BY <1>2, <1>3 DEF DlTypeOK
  <2>3. part' \in Contents /\ part' = Slice(file, served, 0, packeglen + k)
    BY <1>2, <2>1, <2>2, PartGrows
  <2>4. DlTypeOK'
    <3>1. FlagsOK'
      BY <1>2 DEF FlagsOK, DlTypeOK
    <3> QED
      BY <1>2, <1>3, <2>3, <3>1 DEF DlTypeOK, Places, Codes, Modes
  <2>5. Stage'
    BY <1>2 DEF Stage, BeforeOpen, InHttp, InFtp, Busy
  <2>6. Stored'
    <3>1. ~ Whole(part')
      BY <1>2, <2>2, <2>3, PartialNotWhole
    <3> QED
      BY <3>1 DEF Stored, Busy, FailedIsNotRun
  <2>7. Sockets'
    BY <1>2 DEF Sockets
  <2>8. Held'
    BY <1>2 DEF Held
  <2> QED
    BY <2>4, <2>5, <2>6, <2>7, <2>8
<1> HIDE DEF DlInv, source, sockVars, copied, failed
<1> QED
  BY <1>1, <1>4, <1>5

LEMMA NextInv == DlInv /\ [Next]_vars => DlInv'
<1>1. CASE Next
  BY <1>1, BeginInv, LookupInv, ExitInv, CrcInv, RestartInv, HttpConnectInv,
     HttpRequestInv, HttpHeadInv, FtpLoginInv, FtpSizeInv, FtpRetrInv, OpenInv,
     HttpFirstInv, CompleteInv, BodyInv, ReceiveNothingInv,
     RecvErrorInv, OverrunInv, UpdateBeginInv, UpdateCopyInv, UpdateEndInv
     DEF Next, Download, Http, Ftp, Update
<1>2. CASE UNCHANGED vars
  BY <1>2 DEF vars, source, netVars, sockVars, partVars, DlInv, DlTypeOK, FlagsOK, Stage, BodyPos, Stored, Partial, Piece,
     FailedIsNotRun, Sockets, Held, HttpReleases
<1> QED
  BY <1>1, <1>2

-----------------------------------------------------------------------------
(* The invariants.                                                         *)

\* The inductive invariant: what the place in demo_AppDownload says of the counts,
\* the partition, the socket and the things held.
THEOREM DlInvariant == Spec => []DlInv
<1> QED
  BY InitInv, NextInv, PTL DEF Spec

\* Types; no more bytes are counted as written than the server has.
THEOREM DlTypeCorrect == Spec => []DlTypeOK
<1>1. DlInv => DlTypeOK
  BY DEF DlInv
<1> QED
  BY <1>1, DlInvariant, PTL

\* The partition holds the first packeglen bytes of the package while it is
\* written, in any split of the stream (demo_AppDownload, lines 914 to 1100).
THEOREM DlStoredIsPrefix == Spec => []StoredIsPrefix
<1>1. DlInv => StoredIsPrefix
  BY DEF DlInv, Stored, Busy, StoredIsPrefix
<1> QED
  BY <1>1, DlInvariant, PTL

\* "app download success." is true when the announced length was.
THEOREM DlSuccessMeansWhole == Spec => []SuccessMeansWhole
<1>1. DlInv => SuccessMeansWhole
  BY DEF DlInv, DlTypeOK, Stored, SuccessMeansWhole
<1> QED
  BY <1>1, DlInvariant, PTL

\* The caller resets on the checksum alone (line 1313), and still only with a
\* partition that got all of a package since it was last opened, whichever calls
\* failed and wherever the power was cut, and never after a failed write of its own.
THEOREM DlFailedIsNotRun == Spec => []FailedIsNotRun
<1>1. DlInv => FailedIsNotRun
  BY DEF DlInv, Stored
<1> QED
  BY <1>1, DlInvariant, PTL

\* No descriptor is closed twice once a server was reached.
THEOREM DlClosesOwnSocket == Spec => []ClosesOwnSocket
<1>1. DlInv => ClosesOwnSocket
  BY DEF DlInv, Sockets, ClosesOwnSocket
<1> QED
  BY <1>1, DlInvariant, PTL

\* An HTTP download gives back all it acquired, but for descriptor 0 (line 1132)
\* and one list of addresses (line 757).
THEOREM DlHttpReleases == Spec => []HttpReleases
<1>1. DlInv => HttpReleases
  BY DEF DlInv, Held, HttpReleases
<1> QED
  BY <1>1, DlInvariant, PTL
-----------------------------------------------------------------------------
(* The refinement of PackageStore.                                         *)

Source == [file |-> file, length |-> served, announced |-> contentlen]

\* A step of PackageStore, or one that it does not see.
StoreStep == Store!Next \/ UNCHANGED <<part, Source, StoreState>>

\* The state that PackageStore sees, from the place in the code.
LEMMA StoreStates ==
  /\ DlInv => /\ Source \in Store!Sources
              /\ Source.length = served /\ Source.announced = contentlen
              /\ Source.file = file
  /\ pc \in Busy => StoreState = "writing"
  /\ pc \notin Busy => StoreState \in {"idle", "succeeded"}
  /\ pc \notin Busy /\ ret # "SUCESSED" => StoreState = "idle"
  /\ pc = "menu" => StoreState = "idle"
  /\ pc' \in Busy => StoreState' = "writing"
BY DEF Source, Store!Sources, DlInv, DlTypeOK, StoreState, Busy

\* While it is written the partition's length is what was counted.
LEMMA StoreLength ==
  ASSUME DlInv, pc \in Busy
  PROVE  Len(part) = packeglen /\ Store!Left = served - packeglen
<1>1. served \in Nat /\ packeglen \in Nat /\ part = Slice(file, served, 0, packeglen)
  BY DEF DlInv, DlTypeOK, Stored, Piece
<1>2. Len(part) = packeglen
  BY <1>1, SliceFacts
<1> QED
  BY <1>2 DEF Store!Left

\* A package is chosen, or left alone.
LEMMA StoreChoose ==
  ASSUME DlInv', pc \notin Busy, pc' \notin Busy, UNCHANGED part, StoreState' = "idle"
  PROVE  StoreStep
<1>1. Source' \in Store!Sources
  BY DEF Source, Store!Sources, DlInv, DlTypeOK
<1> QED
  BY <1>1, StoreStates DEF StoreStep, Store!Next, Store!Choose, Source

LEMMA StoreOpen ==
  ASSUME DlInv', pc \notin Busy, pc' \in Busy, part' = <<>>
  PROVE  StoreStep
<1>1. Source' \in Store!Sources
  BY DEF Source, Store!Sources, DlInv, DlTypeOK
<1>2. StoreState # "writing" /\ StoreState' = "writing"
  BY DEF StoreState, Busy
<1> QED
  BY <1>1, <1>2 DEF StoreStep, Store!Next, Store!Open, Source

\* The next n bytes are written.
LEMMA StoreWrite ==
  ASSUME DlInv, pc \in Busy, pc' \in Busy, UNCHANGED <<file, served, contentlen>>,
         NEW n \in Nat, packeglen + n <= served, part' = part \o Piece(packeglen, n)
  PROVE  StoreStep
<1>1. n \in 0..Store!Left /\ Len(part) = packeglen
  BY StoreLength DEF DlInv, DlTypeOK
<1>2. Piece(packeglen, n) = Store!NextBytes(Len(part), n)
  BY <1>1 DEF Piece, Slice, Store!NextBytes
<1>3. StoreState = "writing" /\ StoreState' = "writing" /\ UNCHANGED Source
  BY DEF StoreState, Busy, Source
<1> QED
  BY <1>1, <1>2, <1>3 DEF StoreStep, Store!Next, Store!Write, Source

\* Writing ends with n more bytes, which are not the last ones if the announced
\* length was right.
LEMMA StoreFail ==
  ASSUME DlInv, pc \in Busy, pc' \notin Busy, StoreState' = "idle",
         UNCHANGED <<file, served, contentlen>>,
         NEW n \in Nat, packeglen + n <= served, part' = part \o Piece(packeglen, n),
         contentlen = served => packeglen + n < served
  PROVE  StoreStep
<1>1. /\ n \in 0..Store!Left /\ Len(part) = packeglen
      /\ contentlen = served => n < Store!Left
  BY StoreLength DEF DlInv, DlTypeOK
<1>2. Piece(packeglen, n) = Store!NextBytes(Len(part), n)
  BY <1>1 DEF Piece, Slice, Store!NextBytes
<1>3. StoreState = "writing" /\ UNCHANGED Source
  BY DEF StoreState, Busy, Source
<1> QED
  BY <1>1, <1>2, <1>3 DEF StoreStep, Store!Next, Store!Fail, Source

\* Writing ends where it is: complete, or not.
LEMMA StoreEnd ==
  ASSUME DlInv, pc \in Busy, pc' \notin Busy, UNCHANGED <<part, file, served, contentlen>>,
         \/ StoreState' = "idle"
         \/ /\ StoreState' = "succeeded"
            /\ packeglen = contentlen \/ (contentlen < 0 /\ packeglen = 0)
  PROVE  StoreStep
<1>1. Len(part) = packeglen
  BY StoreLength
<1>2. StoreState = "writing" /\ UNCHANGED Source
  BY DEF StoreState, Busy, Source
<1>3. CASE packeglen = contentlen \/ (contentlen < 0 /\ packeglen = 0)
  <2>1. packeglen = 0 => part = <<>>
    BY SliceEmpty DEF DlInv, Stored, Piece
  <2> QED
    BY <1>1, <1>2, <1>3, <2>1 DEF StoreStep, Store!Next, Store!Finish, Source
<1>4. CASE ~ (packeglen = contentlen \/ (contentlen < 0 /\ packeglen = 0))
  <2>1. /\ 0 \in Nat /\ packeglen + 0 <= served
        /\ contentlen = served => packeglen + 0 < served
    BY <1>4 DEF DlInv, DlTypeOK
  <2>2. part' = part \o Piece(packeglen, 0)
    <3>1. Piece(packeglen, 0) = <<>>
      BY SliceEmpty DEF Piece
    <3>2. part \in Seq(PackageBytes)
      BY DEF DlInv, DlTypeOK, Contents
    <3> QED
      BY <3>1, <3>2
  <2> QED
    BY <1>4, <2>1, <2>2, StoreFail
<1> QED
  BY <1>3, <1>4

\* What PackageStore does not see.
LEMMA StoreStutter ==
  ASSUME UNCHANGED <<part, file, served, contentlen>>, StoreState' = StoreState
  PROVE  StoreStep
BY DEF StoreStep, Source
-----------------------------------------------------------------------------
(* Every step maps to a step of PackageStore or to a stutter.              *)

LEMMA BeforeOpenSteps ==
  ASSUME DlInv, \/ Lookup \/ HttpConnect \/ HttpRequest \/ HttpHead \/ FtpLogin
                \/ FtpSize \/ FtpRetr \/ Exit \/ Overrun
  PROVE  StoreStep
<1>1. UNCHANGED <<part, file, served, contentlen>>
  BY DEF Lookup, HttpConnect, HttpRequest, HttpHead, FtpLogin, FtpSize, FtpRetr, Exit,
     Overrun, source, netVars, sockVars, partVars
<1>2. CASE Exit \/ Overrun
  BY <1>1, <1>2, StoreStutter DEF Exit, Overrun, StoreState, Busy
<1>3. CASE ~ (Exit \/ Overrun)
  <2>1. pc \in BeforeOpen
    BY <1>3 DEF BeforeOpen, Lookup, HttpConnect, HttpRequest, HttpHead, FtpLogin, FtpSize,
       FtpRetr
  <2>2. pc' \notin Busy /\ ret' # "SUCESSED"
    BY <1>3, <2>1 DEF DlInv, Stage, BeforeOpen, Busy, Leave, Return, Lookup, HttpConnect,
       HttpRequest, HttpHead, FtpLogin, FtpSize, FtpRetr, InHttp, InFtp, DlTypeOK
  <2>3. StoreState = "idle" /\ StoreState' = "idle"
    BY <2>1, <2>2 DEF StoreState, BeforeOpen, Busy
  <2> QED
    BY <1>1, <2>3, StoreStutter
<1> QED
  BY <1>2, <1>3

LEMMA OpenSteps ==
  ASSUME DlInv, DlInv', Begin \/ Crc \/ Open \/ UpdateBegin
  PROVE  StoreStep
<1>1. CASE Begin
  BY <1>1, StoreChoose DEF Begin, Return, partVars, StoreState, Busy
<1>2. CASE Crc
  <2>1. CASE pc' = "menu"
    BY <1>2, <2>1, StoreChoose DEF Crc, StoreState, Busy
  <2>2. CASE pc' = "reset"
    BY <1>2, <2>2, StoreStutter DEF Crc, source, netVars, sockVars, partVars, StoreState, Busy
  <2> QED
    BY <1>2, <2>1, <2>2 DEF Crc
<1>3. CASE Open
  <2>1. CASE Leave("OPEN_PARTITION_FAIL") /\ UNCHANGED <<held, part, opened>>
    BY <1>3, <2>1, StoreStutter DEF Open, Leave, source, netVars, sockVars, partVars, StoreState, Busy
  <2>2. CASE part' = <<>> /\ pc' = IF BodyPos > 0 THEN "first" ELSE "body"
    BY <1>3, <2>2, StoreOpen DEF Open, Busy
  <2> QED
    BY <1>3, <2>1, <2>2 DEF Open
<1>4. CASE UpdateBegin
  BY <1>4, StoreOpen DEF UpdateBegin, Busy
<1> QED
  BY <1>1, <1>2, <1>3, <1>4

LEMMA EndSteps ==
  ASSUME DlInv, DlInv', Restart \/ Complete \/ RecvError \/ ReceiveNothing \/ UpdateEnd
  PROVE  StoreStep
<1>1. UNCHANGED <<part, file, served, contentlen>> /\ pc' \notin Busy
  BY DEF Restart, Complete, RecvError, ReceiveNothing, UpdateEnd, Leave, source, netVars,
     partVars, Busy
<1>2. CASE Complete
  BY <1>1, <1>2, StoreEnd DEF Complete, Leave, StoreState, Busy
<1>3. CASE ReceiveNothing
  <2>1. pc \in Busy
    BY <1>3 DEF ReceiveNothing, Busy
  <2>2. packeglen > contentlen /\ mod = "ftp" => packeglen = 0 /\ contentlen < 0
    BY <1>3 DEF DlInv, DlTypeOK, Stage, ReceiveNothing
  <2> QED
    BY <1>1, <1>3, <2>1, <2>2, StoreEnd DEF ReceiveNothing, Leave, StoreState, Busy
<1>4. CASE Restart \/ RecvError \/ UpdateEnd
  <2>1. StoreState' = "idle"
    BY <1>4 DEF Restart, RecvError, UpdateEnd, Leave, StoreState, Busy
  <2>2. CASE pc \in Busy
    BY <1>1, <2>1, <2>2, StoreEnd
  <2>3. CASE pc \notin Busy
    BY <1>1, <2>1, <2>3, StoreChoose
  <2> QED
    BY <2>2, <2>3
<1> QED
  BY <1>2, <1>3, <1>4

LEMMA CopySteps ==
  ASSUME DlInv, UpdateCopy
  PROVE  StoreStep
<1>1. PICK n \in 1..SmallerOf(BufSize, served - pos) :
        \/ Writes(pos, n) /\ pc' = pc
        \/ /\ \E k \in 0..(n - 1) : part' = part \o Piece(pos, k)
           /\ pc' = "menu"
  BY DEF UpdateCopy
<1>2. /\ pc = "copy" /\ pos = packeglen /\ pc \in Busy
      /\ UNCHANGED <<file, served, contentlen>>
  BY DEF DlInv, Stage, Busy, BodyPos, UpdateCopy, source, netVars, sockVars, partVars
<1>3. n \in Nat /\ n >= 1 /\ packeglen + n <= served
  <2>1. BufSize \in Int /\ served - pos \in Int
    BY DEF DlInv, DlTypeOK
  <2>2. n \in Nat /\ n >= 1 /\ n <= served - pos
    BY <2>1, SmallerFacts
  <2> QED
    BY <1>2, <2>2 DEF DlInv, DlTypeOK
<1>4. CASE Writes(pos, n) /\ pc' = pc
  BY <1>2, <1>3, <1>4, StoreWrite DEF Writes
<1>5. CASE /\ \E k \in 0..(n - 1) : part' = part \o Piece(pos, k)
           /\ pc' = "menu"
  <2>1. PICK k \in 0..(n - 1) : part' = part \o Piece(packeglen, k)
    BY <1>2, <1>5
  <2>2. k \in Nat /\ packeglen + k <= served /\ packeglen + k < served
    BY <1>3 DEF DlInv, DlTypeOK
  <2>3. pc' \notin Busy /\ StoreState' = "idle"
    BY <1>5 DEF Busy, StoreState
  <2> QED
    BY <1>2, <2>1, <2>2, <2>3, StoreFail
<1> QED
  BY <1>1, <1>4, <1>5

\* A write in the loop, or of what followed the header.
LEMMA BodySteps ==
  ASSUME DlInv, HttpFirst \/ HttpBody \/ FtpBody
  PROVE  StoreStep
<1> DEFINE failed(m) == /\ \E k \in 0..(m - 1) : part' = part \o Piece(packeglen, k)
                        /\ Leave("WRITE_PARTITION_FAIL")
           counted(m) == /\ Writes(packeglen, m) /\ Leave("COUNT")
                         /\ contentlen # served
           wrote(m) == Writes(packeglen, m) /\ pc' = "body"
<1>1. /\ pc \in Busy /\ UNCHANGED <<file, served, contentlen>>
      /\ served \in Nat /\ packeglen \in Nat
  BY DEF Busy, HttpFirst, HttpBody, FtpBody, source, netVars, sockVars, partVars, DlInv, DlTypeOK
<1>2. PICK n \in Nat : /\ n >= 1 /\ packeglen + n <= served
                       /\ wrote(n) \/ counted(n) \/ failed(n)
  <2>1. CASE HttpFirst
    <3>1. /\ BodyPos \in Nat /\ BodyPos >= 1 /\ packeglen = 0
          /\ packeglen + BodyPos <= served
      BY <2>1 DEF DlInv, DlTypeOK, Stage, HttpFirst, BodyPos
    <3>2. wrote(BodyPos) \/ failed(BodyPos)
      BY <2>1, <3>1 DEF HttpFirst, WriteFails
    <3> QED
      BY <3>1, <3>2
  <2>2. CASE HttpBody
    <3>1. BodyPos = packeglen /\ pc = "body"
      BY <2>2 DEF DlInv, Stage, HttpBody
    <3>2. HttpWanted \in Int /\ served - BodyPos \in Int
      BY <3>1 DEF DlInv, DlTypeOK, HttpWanted, SmallerOf
    <3>3. PICK n \in 1..SmallerOf(HttpWanted, served - BodyPos) :
            (Writes(BodyPos, n) /\ UNCHANGED <<pc, ret>>) \/ WriteFails(BodyPos, n)
      BY <2>2 DEF HttpBody
    <3>4. n \in Nat /\ n >= 1 /\ n <= served - BodyPos
      BY <3>2, SmallerFacts
    <3>5. wrote(n) \/ failed(n)
      BY <3>1, <3>3 DEF WriteFails
    <3>6. packeglen + n <= served
      BY <1>1, <3>1, <3>4
    <3> QED
      BY <3>4, <3>5, <3>6
  <2>3. CASE FtpBody
    <3>1. pos = packeglen /\ pc = "body"
      BY <2>3 DEF DlInv, Stage, BodyPos, FtpBody
    <3>2. BufSize \in Int /\ served - pos \in Int
      BY <3>1 DEF DlInv, DlTypeOK
    <3>3. PICK n \in 1..SmallerOf(BufSize, served - pos) :
            \/ /\ Writes(pos, n)
               /\ IF packeglen' > contentlen THEN Leave("COUNT") ELSE UNCHANGED <<pc, ret>>
            \/ WriteFails(pos, n)
      BY <2>3 DEF FtpBody
    <3>4. n \in Nat /\ n >= 1 /\ n <= served - pos
      BY <3>2, SmallerFacts
    <3>5. packeglen + n <= served
      BY <1>1, <3>1, <3>4
    <3>6. Writes(packeglen, n) => packeglen' = packeglen + n
      BY DEF Writes
    <3>7. wrote(n) \/ counted(n) \/ failed(n)
      <4>1. CASE Writes(packeglen, n) /\ packeglen' > contentlen /\ Leave("COUNT")
        <5>1. contentlen # served
          BY <1>1, <3>4, <3>5, <3>6, <4>1
        <5> QED
          BY <4>1, <5>1
      <4>2. CASE Writes(packeglen, n) /\ UNCHANGED <<pc, ret>>
        BY <3>1, <4>2
      <4>3. CASE WriteFails(packeglen, n)
        BY <4>3 DEF WriteFails
      <4> QED
        BY <3>1, <3>3, <4>1, <4>2, <4>3
    <3> QED
      BY <3>4, <3>5, <3>7
  <2> QED
    BY <2>1, <2>2, <2>3
<1>3. CASE wrote(n)
  BY <1>1, <1>2, <1>3, StoreWrite DEF Writes, Busy
<1>4. CASE counted(n)
  <2>1. pc' \notin Busy /\ StoreState' = "idle"
    BY <1>4 DEF Leave, Busy, StoreState
  <2> QED
    BY <1>1, <1>2, <1>4, <2>1, StoreFail DEF Writes
<1>5. CASE failed(n)
  <2>1. pc' \notin Busy /\ StoreState' = "idle"
    BY <1>5 DEF Leave, Busy, StoreState
  <2>2. PICK k \in 0..(n - 1) : part' = part \o Piece(packeglen, k)
    BY <1>5
  <2>3. k \in Nat /\ packeglen + k <= served /\ packeglen + k < served
    BY <1>1, <1>2
  <2> QED
    BY <1>1, <2>1, <2>2, <2>3, StoreFail
<1> QED
  BY <1>2, <1>3, <1>4, <1>5

LEMMA StoreInit == Init => Store!Init
BY DEF Init, Store!Init, Store!Sources, StoreState, Busy

LEMMA StoreNext == DlInv /\ DlInv' /\ [Next]_vars => [Store!Next]_Store!vars
<1> SUFFICES ASSUME DlInv, DlInv', [Next]_vars PROVE StoreStep
  BY DEF StoreStep, Store!vars, Source
<1>1. CASE Next
  BY <1>1, BeforeOpenSteps, OpenSteps, EndSteps, CopySteps, BodySteps
     DEF Next, Download, Http, Ftp, Update
<1>2. CASE UNCHANGED vars
  BY <1>2, StoreStutter DEF vars, netVars, sockVars, partVars, source, StoreState
<1> QED
  BY <1>1, <1>2

\* The download and the update implement PackageStore.
THEOREM DlImplementsStore == Spec => StoreSpec
<1>1. DlInv /\ DlInv' /\ [Next]_vars => [Store!Next]_Store!vars
  BY StoreNext
<1> QED
  BY <1>1, StoreInit, DlInvariant, PTL DEF Spec, StoreSpec, Store!Spec
=============================================================================
