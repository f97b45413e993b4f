------------------------ MODULE SmsNotifyRefinement ------------------------
(***************************************************************************)
(* SmsNotify implements NoticeBoard, whatever the modem does: every step   *)
(* announces, loses or shows a notice, clears what is shown, opens the     *)
(* way, or changes nothing of the notices under way; none is lost without  *)
(* a reason NoticeBoard allows; and if no answer is late, a notice is      *)
(* shown with its own message.                                             *)
(***************************************************************************)
EXTENDS SmsNotifyProofs

-----------------------------------------------------------------------------
(* Sequences.                                                              *)

LEMMA OneSeq ==
  ASSUME NEW S, NEW e \in S
  PROVE  <<e>> \in Seq(S) /\ Len(<<e>>) = 1 /\ <<e>>[1] = e
OBVIOUS

\* An element put in front of a sequence.
LEMMA FrontFacts ==
  ASSUME NEW S, NEW e \in S, NEW s \in Seq(S)
  PROVE  /\ <<e>> \o s \in Seq(S) /\ <<e>> \o s # <<>>
         /\ Head(<<e>> \o s) = e /\ Tail(<<e>> \o s) = s
<1> DEFINE w == <<e>> \o s
<1>1. /\ w \in Seq(S) /\ Len(w) = 1 + Len(s) /\ Len(s) \in Nat
      /\ \A i \in 1..(1 + Len(s)) : w[i] = IF i <= 1 THEN <<e>>[i] ELSE s[i - 1]
  BY OneSeq, ConcatProperties, LenProperties
<1> HIDE DEF w
<1>2. w # <<>> /\ w[1] = e
  BY <1>1, EmptySeq
<1>3. /\ Tail(w) \in Seq(S) /\ Len(Tail(w)) = Len(s)
      /\ \A i \in 1..Len(s) : Tail(w)[i] = w[i + 1]
  BY <1>1, <1>2, HeadTailProperties
<1>4. \A i \in 1..Len(s) : Tail(w)[i] = s[i]
  <2>1. ASSUME NEW i \in 1..Len(s) PROVE w[i + 1] = s[i]
    <3>1. i + 1 \in 1..(1 + Len(s)) /\ ~ (i + 1 <= 1) /\ (i + 1) - 1 = i
      BY <1>1
    <3> QED
      BY ONLY <1>1, <3>1
  <2> QED
    BY <1>3, <2>1
<1>5. Tail(w) = s
  BY <1>3, <1>4, SeqEqual
<1>6. Head(w) = e
  BY <1>1, <1>2
<1> QED
  BY <1>1, <1>2, <1>5, <1>6 DEF w

\* A sequence is its head in front of its tail.
LEMMA HeadInFront ==
  ASSUME NEW S, NEW s \in Seq(S), s # <<>>
  PROVE  Head(s) \in S /\ Tail(s) \in Seq(S) /\ s = <<Head(s)>> \o Tail(s)
<1>1. Head(s) \in S /\ Tail(s) \in Seq(S) /\ Len(s) \in Nat \ {0}
  BY HeadTailProperties, EmptySeq
<1>2. s = SubSeq(s, 1, Len(s))
  BY SubSeqFull
<1>3. SubSeq(s, 1, Len(s)) = <<s[1]>> \o SubSeq(s, 2, Len(s))
  <2>1. 1 \in 1..Len(s) /\ Len(s) \in 1..Len(s) /\ 1 + 1 = 2
    BY <1>1
  <2> QED
    BY <2>1, SubSeqRecursiveFirst
<1>4. SubSeq(s, 2, Len(s)) = Tail(s) /\ s[1] = Head(s)
  BY TailIsSubSeq
<1> QED
  BY <1>1, <1>2, <1>3, <1>4

\* Removing the element after s.
LEMMA RemoveAfter ==
  ASSUME NEW S, NEW s \in Seq(S), NEW e \in S, NEW t \in Seq(S)
  PROVE  /\ Len(s) + 1 \in 1..Len(s \o (<<e>> \o t))
         /\ RemoveAt(s \o (<<e>> \o t), Len(s) + 1) = s \o t
<1> DEFINE et == <<e>> \o t
           w == s \o et
           k == Len(s) + 1
<1>1. /\ et \in Seq(S) /\ Len(et) = 1 + Len(t) /\ Len(t) \in Nat
      /\ \A i \in 1..(1 + Len(t)) : et[i] = IF i <= 1 THEN <<e>>[i] ELSE t[i - 1]
  BY OneSeq, ConcatProperties, LenProperties
<1> HIDE DEF et
<1>2. /\ w \in Seq(S) /\ Len(w) = Len(s) + Len(et) /\ Len(s) \in Nat
      /\ \A i \in 1..(Len(s) + Len(et)) : w[i] = IF i <= Len(s) THEN s[i] ELSE et[i - Len(s)]
  BY <1>1, ConcatProperties, LenProperties
<1> HIDE DEF w
<1>3. /\ s \o t \in Seq(S) /\ Len(s \o t) = Len(s) + Len(t)
      /\ \A i \in 1..(Len(s) + Len(t)) : (s \o t)[i] = IF i <= Len(s) THEN s[i] ELSE t[i - Len(s)]
  BY ConcatProperties
<1>4. k \in 1..Len(w) /\ k \in Nat
  BY <1>1, <1>2
<1>5. /\ RemoveAt(w, k) \in Seq(S) /\ Len(RemoveAt(w, k)) = Len(w) - 1
      /\ \A j \in 1..(Len(w) - 1) : RemoveAt(w, k)[j] = IF j < k THEN w[j] ELSE w[j + 1]
  BY <1>2, <1>4, RemoveAtFacts
<1>6. Len(w) - 1 = Len(s) + Len(t)
  BY <1>1, <1>2
<1>7. ASSUME NEW j \in 1..(Len(s) + Len(t))
      PROVE  RemoveAt(w, k)[j] = (s \o t)[j]
  <2>1. CASE j <= Len(s)
    <3>1. j < k /\ j \in 1..(Len(s) + Len(et))
      BY <1>1, <1>2, <2>1
    <3> QED
      BY ONLY <1>2, <1>3, <1>5, <1>6, <1>7, <2>1, <3>1
  <2>2. CASE ~ (j <= Len(s))
    <3>1. /\ ~ (j < k) /\ j + 1 \in 1..(Len(s) + Len(et)) /\ ~ (j + 1 <= Len(s))
          /\ (j + 1) - Len(s) \in 1..(1 + Len(t)) /\ ~ ((j + 1) - Len(s) <= 1)
          /\ ((j + 1) - Len(s)) - 1 = j - Len(s)
      BY <1>1, <1>2, <2>2
    <3>2. RemoveAt(w, k)[j] = et[(j + 1) - Len(s)]
      BY ONLY <1>2, <1>5, <1>6, <1>7, <3>1
    <3>3. et[(j + 1) - Len(s)] = t[j - Len(s)]
      BY ONLY <1>1, <3>1
    <3> QED
      BY ONLY <1>3, <1>7, <2>2, <3>2, <3>3
  <2> QED
    BY <2>1, <2>2
<1>8. RemoveAt(w, k) = s \o t
  BY <1>3, <1>5, <1>6, <1>7, SeqEqual
<1> QED
  BY <1>4, <1>8 DEF w, et

-----------------------------------------------------------------------------
(* The notices under way.                                                  *)

\* What the task handles, as a sequence.
Handling == IF pcT = "recv" THEN <<>> ELSE <<cur>>

LEMMA UnderWayFacts ==
  SmsBase => /\ UnderWay = Handling \o procQ \o urcQ
             /\ UnderWay = Handling \o (procQ \o urcQ)
             /\ Handling \in Seq(Notice) /\ procQ \in Seq(Notice) /\ urcQ \in Seq(Notice)
             /\ procQ \o urcQ \in Seq(Notice) /\ Handling \o procQ \in Seq(Notice)
             /\ UnderWay \in Seq(Notice)
<1> SUFFICES ASSUME SmsBase
             PROVE  /\ UnderWay = Handling \o procQ \o urcQ
                    /\ UnderWay = Handling \o (procQ \o urcQ)
                    /\ Handling \in Seq(Notice) /\ procQ \in Seq(Notice) /\ urcQ \in Seq(Notice)
                    /\ procQ \o urcQ \in Seq(Notice) /\ Handling \o procQ \in Seq(Notice)
                    /\ UnderWay \in Seq(Notice)
  OBVIOUS
<1>1. procQ \in Seq(Notice) /\ urcQ \in Seq(Notice)
  BY DEF SmsBase, SmsTypeOK
<1>2. Handling \in Seq(Notice)
  <2>1. pcT # "recv" => cur \in Notice
    BY DEF SmsBase, Notice
  <2>2. CASE pcT = "recv"
    BY <2>2, EmptySeq DEF Handling
  <2>3. CASE pcT # "recv"
    BY <2>1, <2>3, OneSeq DEF Handling
  <2> QED
    BY <2>2, <2>3
<1>3. UnderWay = Handling \o procQ \o urcQ
  BY DEF UnderWay, Handling
<1> HIDE DEF Handling
<1> QED
  BY <1>1, <1>2, <1>3, ConcatAssociative, ConcatProperties

\* A notice the task handles is the oldest.
LEMMA HandledFirst ==
  SmsBase /\ pcT # "recv" => /\ cur \in Notice /\ cur.kind = "new"
                             /\ UnderWay = <<cur>> \o (procQ \o urcQ)
<1> SUFFICES ASSUME SmsBase, pcT # "recv"
             PROVE  /\ cur \in Notice /\ cur.kind = "new"
                    /\ UnderWay = <<cur>> \o (procQ \o urcQ)
  OBVIOUS
<1>1. UnderWay = <<cur>> \o (procQ \o urcQ)
  BY UnderWayFacts DEF Handling
<1>2. cur \in [kind : {"new"}, index : Indices]
  BY DEF SmsBase
<1> QED
  BY <1>1, <1>2 DEF Notice

LEMMA NothingHandled ==
  SmsBase /\ pcT = "recv" => UnderWay = procQ \o urcQ
<1> SUFFICES ASSUME SmsBase, pcT = "recv" PROVE UnderWay = procQ \o urcQ
  OBVIOUS
<1> QED
  BY UnderWayFacts, ConcatEmptySeq DEF Handling

BoardStep == Board!Next \/ UNCHANGED <<UnderWay, procUp, shown>>

\* The handled notice is given up.
LEMMA GivenUp ==
  ASSUME SmsBase, SmsBase', pcT # "recv", pcT' = "recv",
         UNCHANGED <<procQ, urcQ, procUp, shown>>
  PROVE  Board!Lose
<1>1. /\ cur \in Notice /\ cur.kind = "new" /\ UnderWay = <<cur>> \o (procQ \o urcQ)
      /\ procQ \o urcQ \in Seq(Notice)
  BY HandledFirst, UnderWayFacts
<1>2. (SmsBase /\ pcT = "recv" => UnderWay = procQ \o urcQ)'
  BY NothingHandled, PTL
<1>3. UnderWay' = procQ \o urcQ
  BY <1>2
<1>4. UnderWay # <<>> /\ Head(UnderWay) = cur /\ Tail(UnderWay) = procQ \o urcQ
  BY <1>1, FrontFacts
<1>5. Board!GiveUp
  BY ONLY <1>1, <1>3, <1>4 DEF Board!GiveUp
<1> QED
  BY <1>5 DEF Board!Lose

-----------------------------------------------------------------------------
(* The steps.                                                              *)

LEMMA AnnounceAnnounces == SmsBase /\ Announce => Board!Announce
<1> SUFFICES ASSUME SmsBase, Announce PROVE Board!Announce
  OBVIOUS
<1>1. PICK n \in Notice : urcQ' = Append(urcQ, n)
  BY DEF Announce
<1>2. UNCHANGED <<procQ, pcT, cur, shown>>
  BY DEF Announce, taskVars
<1> DEFINE h == Handling \o procQ
<1>3. h \in Seq(Notice) /\ urcQ \in Seq(Notice) /\ UnderWay = h \o urcQ
  BY UnderWayFacts
<1>4. UnderWay' = h \o urcQ'
  BY <1>2 DEF UnderWay, Handling
<1> HIDE DEF h
<1>5. <<n>> \in Seq(Notice) /\ urcQ' = urcQ \o <<n>>
  BY <1>1, <1>3, OneSeq, AppendIsConcat
<1>6. h \o urcQ' = UnderWay \o <<n>>
  BY <1>3, <1>5, ConcatAssociative
<1>7. UnderWay' = Append(UnderWay, n)
  <2>1. UnderWay \in Seq(Notice)
    BY UnderWayFacts
  <2> QED
    BY <1>4, <1>6, <2>1, AppendIsConcat
<1> QED
  BY <1>2, <1>7 DEF Board!Announce, Announce

\* A notice that is sent on stays where it is; one that finds no queue, or no
\* room in it, is lost.
LEMMA ForwardMoves == SmsBase /\ Forward => BoardStep
<1> SUFFICES ASSUME SmsBase, Forward PROVE BoardStep
  OBVIOUS
<1> DEFINE n == Head(urcQ)
           h == Handling \o procQ
<1>1. /\ urcQ # <<>> /\ urcQ' = Tail(urcQ)
      /\ procQ' = IF procUp /\ Len(procQ) < ProcCap THEN Append(procQ, n) ELSE procQ
      /\ UNCHANGED <<pcT, cur, procUp, shown>>
  BY DEF Forward, taskVars
<1>2. /\ urcQ \in Seq(Notice) /\ procQ \in Seq(Notice) /\ Handling \in Seq(Notice)
      /\ h \in Seq(Notice) /\ UnderWay = h \o urcQ
  BY UnderWayFacts
<1>3. n \in Notice /\ Tail(urcQ) \in Seq(Notice) /\ urcQ = <<n>> \o Tail(urcQ)
  BY <1>1, <1>2, HeadInFront
<1>4. UnderWay' = Handling \o procQ' \o urcQ'
  BY <1>1 DEF UnderWay, Handling
<1> HIDE DEF n
<1>5. CASE procUp /\ Len(procQ) < ProcCap
  <2>0. procQ' = Append(procQ, n)
    BY <1>1, <1>5
  <2>1. <<n>> \in Seq(Notice) /\ procQ' = procQ \o <<n>>
    BY <1>2, <1>3, <2>0, OneSeq, AppendIsConcat
  <2>2. Handling \o procQ' = h \o <<n>>
    BY <1>2, <2>1, ConcatAssociative
  <2> HIDE DEF h
  <2>3. (h \o <<n>>) \o Tail(urcQ) = h \o (<<n>> \o Tail(urcQ))
    <3> DEFINE one == <<n>>
               t == Tail(urcQ)
    <3>1. h \in Seq(Notice) /\ one \in Seq(Notice) /\ t \in Seq(Notice)
      BY ONLY <1>2, <1>3, <2>1
    <3> HIDE DEF one, t
    <3>2. (h \o one) \o t = h \o (one \o t)
      BY ONLY <3>1, ConcatAssociative
    <3> QED
      BY <3>2 DEF one, t
  <2>4. (h \o <<n>>) \o Tail(urcQ) = h \o urcQ
    BY ONLY <1>3, <2>3
  <2>5. UnderWay' = UnderWay
    BY ONLY <1>1, <1>2, <1>4, <2>2, <2>4
  <2> QED
    BY <1>1, <2>5 DEF BoardStep
<1>6. CASE ~ procUp
  <2>1. procQ = <<>> /\ procQ' = <<>> /\ Handling = <<>>
    BY <1>1, <1>6 DEF SmsBase, Handling
  <2>2. UnderWay = urcQ /\ UnderWay' = urcQ'
    BY ONLY <1>1, <1>2, <1>4, <2>1, EmptySeq, ConcatEmptySeq
  <2>3. Board!Unread
    BY ONLY <1>1, <1>6, <2>2 DEF Board!Unread
  <2> QED
    BY <1>1, <2>3 DEF BoardStep, Board!Next, Board!Lose
<1>7. CASE procUp /\ ~ (Len(procQ) < ProcCap)
  <2>0. procQ' = procQ
    BY <1>1, <1>7
  <2>1. UnderWay' = h \o Tail(urcQ)
    BY <1>1, <1>4, <2>0
  <2>2. Len(h) \in Nat /\ Len(h) >= ProcCap
    <3>1. Len(h) = Len(Handling) + Len(procQ)
      BY <1>2, ConcatProperties
    <3>2. Len(Handling) \in Nat /\ Len(procQ) \in Nat
      BY <1>2, LenProperties
    <3> QED
      BY ONLY <1>7, <3>1, <3>2, SmsAssumption
  <2> HIDE DEF h
  <2>3. /\ Len(h) + 1 \in 1..Len(h \o (<<n>> \o Tail(urcQ)))
        /\ RemoveAt(h \o (<<n>> \o Tail(urcQ)), Len(h) + 1) = h \o Tail(urcQ)
    BY <1>2, <1>3, RemoveAfter
  <2>4. /\ Len(h) + 1 \in 1..Len(UnderWay)
        /\ UnderWay' = RemoveAt(UnderWay, Len(h) + 1)
    BY ONLY <1>2, <1>3, <2>1, <2>3
  <2>5. Len(UnderWay) \in Nat
    BY UnderWayFacts, LenProperties
  <2>6. Len(h) + 1 \in (ProcCap + 1)..Len(UnderWay)
    BY ONLY <2>2, <2>4, <2>5, SmsAssumption
  <2>7. \E i \in (ProcCap + 1)..Len(UnderWay) : UnderWay' = RemoveAt(UnderWay, i)
    BY ONLY <2>4, <2>6
  <2>8. Board!Crowd
    BY ONLY <2>7 DEF Board!Crowd, Board!RemoveAt, RemoveAt
  <2> QED
    BY <1>1, <2>8 DEF BoardStep, Board!Next, Board!Lose
<1> QED
  BY <1>5, <1>6, <1>7

\* A flash message is shown; another notice is the one handled from now on.
LEMMA ReceiveShows == SmsBase /\ SmsBase' /\ TaskReceive => BoardStep
<1> SUFFICES ASSUME SmsBase, SmsBase', TaskReceive PROVE BoardStep
  OBVIOUS
<1> DEFINE n == Head(procQ)
<1>1. /\ pcT = "recv" /\ procQ # <<>> /\ procQ' = Tail(procQ)
      /\ urcQ' = urcQ /\ procUp' = procUp
  BY DEF TaskReceive
<1>2. /\ procQ \in Seq(Notice) /\ urcQ \in Seq(Notice) /\ UnderWay = procQ \o urcQ
  BY <1>1, UnderWayFacts, NothingHandled
<1>3. n \in Notice /\ Tail(procQ) \in Seq(Notice) /\ procQ = <<n>> \o Tail(procQ)
  BY <1>1, <1>2, HeadInFront
<1>4. <<n>> \in Seq(Notice)
  BY <1>3, OneSeq
<1> HIDE DEF n
<1>5. UnderWay = <<n>> \o (Tail(procQ) \o urcQ) /\ Tail(procQ) \o urcQ \in Seq(Notice)
  BY <1>2, <1>3, <1>4, ConcatAssociative, ConcatProperties
<1>6. CASE n.kind = "flash"
  <2>1. n.index = 0
    BY <1>3, <1>6 DEF Notice
  <2>2. shown' = <<0, 0>> /\ pcT' = "recv"
    BY <1>1, <1>6, <2>1 DEF TaskReceive, n
  <2>3. (SmsBase /\ pcT = "recv" => UnderWay = procQ \o urcQ)'
    BY NothingHandled, PTL
  <2>4. UnderWay' = Tail(procQ) \o urcQ
    BY <1>1, <2>2, <2>3
  <2>5. UnderWay # <<>> /\ Head(UnderWay) = n /\ Tail(UnderWay) = Tail(procQ) \o urcQ
    BY <1>3, <1>5, FrontFacts
  <2>6. Board!ShowFlash
    BY <1>1, <1>6, <2>2, <2>4, <2>5 DEF Board!ShowFlash, Board!Blank
  <2> QED
    BY <2>6 DEF BoardStep, Board!Next
<1>7. CASE n.kind # "flash"
  <2>1. shown' = <<0, 0>> /\ pcT' # "recv" /\ cur' = n
    BY <1>7 DEF TaskReceive, n
  <2>2. (SmsBase /\ pcT # "recv" => UnderWay = <<cur>> \o (procQ \o urcQ))'
    BY HandledFirst, PTL
  <2>3. UnderWay' = UnderWay
    BY <1>1, <1>5, <2>1, <2>2
  <2>4. Board!Clear
    BY <1>1, <2>1, <2>3 DEF Board!Clear, Board!Blank
  <2> QED
    BY <2>4 DEF BoardStep, Board!Next
<1> QED
  BY <1>6, <1>7

\* The answer is shown with the notice it was asked for.
LEMMA AnswerShows ==
  SmsBase /\ SmsBase' /\ (Prompt => SmsInv) /\ TaskAnswer => Board!ShowNew
<1> SUFFICES ASSUME SmsBase, SmsBase', Prompt => SmsInv, TaskAnswer PROVE Board!ShowNew
  OBVIOUS
<1>1. /\ pcT = "await" /\ pcT' = "recv" /\ rspQ # <<>>
      /\ shown' = <<cur.index, Head(rspQ)>> /\ UNCHANGED <<procQ, urcQ, procUp>>
  BY DEF TaskAnswer
<1>2. /\ cur \in Notice /\ cur.kind = "new" /\ UnderWay = <<cur>> \o (procQ \o urcQ)
      /\ procQ \o urcQ \in Seq(Notice)
  BY <1>1, HandledFirst, UnderWayFacts
<1>3. (SmsBase /\ pcT = "recv" => UnderWay = procQ \o urcQ)'
  BY NothingHandled, PTL
<1>4. UnderWay' = procQ \o urcQ
  BY <1>1, <1>3
<1>5. UnderWay # <<>> /\ Head(UnderWay) = cur /\ Tail(UnderWay) = procQ \o urcQ
  BY <1>2, FrontFacts
<1>6. rspQ \in Seq(Index) /\ Head(rspQ) \in Index /\ Head(rspQ) = rspQ[1]
  BY <1>1, TailFacts DEF SmsBase, SmsTypeOK
<1>7. Prompt /\ Indices \subseteq 0..99 => Head(rspQ) = cur.index
  <2> SUFFICES ASSUME Prompt, Indices \subseteq 0..99 PROVE Head(rspQ) = cur.index
    OBVIOUS
  <2>1. Head(rspQ) = TwoDigits(cur.index)
    BY <1>1, <1>6 DEF SmsInv, RspOnly, OnlyAnswer
  <2>2. cur.index \in 0..99
    BY <1>1 DEF SmsBase
  <2> QED
    BY <2>1, <2>2, TwoDigitsSame
<1>8. \E m \in Index : /\ Prompt /\ Indices \subseteq 0..99 => m = cur.index
                       /\ shown' = <<cur.index, m>>
  BY <1>1, <1>6, <1>7
<1> QED
  BY <1>1, <1>2, <1>4, <1>5, <1>8 DEF Board!ShowNew

LEMMA BoardNext ==
  SmsBase /\ SmsBase' /\ (Prompt => SmsInv) /\ [Next]_vars => BoardStep
<1> SUFFICES ASSUME SmsBase, SmsBase', Prompt => SmsInv, [Next]_vars PROVE BoardStep
  OBVIOUS
<1> DEFINE Seen == <<procQ, urcQ, procUp, pcT, cur, shown>>
<1>1. UNCHANGED Seen => BoardStep
  BY DEF BoardStep, UnderWay
<1>2. CASE Announce
  BY <1>2, AnnounceAnnounces DEF BoardStep, Board!Next
<1>3. CASE Forward
  BY <1>3, ForwardMoves
<1>4. CASE TaskReceive
  BY <1>4, ReceiveShows
<1>5. CASE TaskRead
  <2>1. CASE pcT' = "enter"
    <3>1. UNCHANGED <<procQ, urcQ, procUp, cur, shown>> /\ pcT = "read"
      BY <1>5 DEF TaskRead, queueVars
    <3> QED
      BY <2>1, <3>1 DEF BoardStep, UnderWay
  <2>2. CASE pcT' = "recv"
    <3>1. pcT # "recv" /\ UNCHANGED <<procQ, urcQ, procUp, shown>>
      BY <1>5 DEF TaskRead, queueVars
    <3> QED
      BY <2>2, <3>1, GivenUp DEF BoardStep, Board!Next
  <2> QED
    BY <1>5, <2>1, <2>2 DEF TaskRead
<1>6. CASE TaskEnter
  <2>1. UNCHANGED <<procQ, urcQ, procUp, cur, shown>> /\ pcT = "enter" /\ pcT' = "await"
    BY <1>6 DEF TaskEnter, queueVars
  <2> QED
    BY <2>1 DEF BoardStep, UnderWay
<1>7. CASE TaskAnswer
  BY <1>7, AnswerShows DEF BoardStep, Board!Next
<1>8. CASE TaskTimeout
  <2>1. pcT # "recv" /\ pcT' = "recv" /\ UNCHANGED <<procQ, urcQ, procUp, shown>>
    BY <1>8 DEF TaskTimeout, queueVars
  <2> QED
    BY <2>1, GivenUp DEF BoardStep, Board!Next
<1>9. CASE \E to \in Receivers : Modem(to)
  BY <1>1, <1>9 DEF Modem, AnswerRequest, LeaveUnanswered, queueVars, taskVars
<1>10. CASE Demo
  <2>1. CASE InitDemo
    <3>1. procUp' = TRUE /\ UNCHANGED <<procQ, urcQ, pcT, cur, shown>>
      BY <2>1 DEF InitDemo, taskVars
    <3>2. Board!Open
      BY <3>1 DEF Board!Open, UnderWay
    <3> QED
      BY <3>2 DEF BoardStep, Board!Next
  <2>2. CASE ~ InitDemo
    BY <1>1, <1>10, <2>2 DEF Demo, DeInit, Request, RequestAnswer, RequestTimeout,
                             queueVars, taskVars
  <2> QED
    BY <2>1, <2>2
<1>11. CASE UNCHANGED vars
  BY <1>1, <1>11 DEF vars, queueVars, taskVars
<1> QED
  BY <1>2, <1>3, <1>4, <1>5, <1>6, <1>7, <1>8, <1>9, <1>10, <1>11 DEF Next, Task

LEMMA BoardInit == Init => Board!Init
<1> SUFFICES ASSUME Init PROVE Board!Init
  OBVIOUS
<1>1. UnderWay = <<>> \o <<>> \o <<>>
  BY DEF Init, UnderWay
<1>2. <<>> \o <<>> = <<>>
  BY EmptySeq, ConcatEmptySeq
<1> QED
  BY <1>1, <1>2 DEF Init, Board!Init, Board!Blank

\* Whatever the modem does, sTask_UrcProcesser and sTask_SmsUrcProcessor show
\* the notices in their order, each once at most, and lose none but before the
\* first initialisation, by an answer that does not come, or with ProcCap notices
\* before it; and each is shown with its own message if no answer is late and the
\* indices have two digits.
THEOREM SmsImplementsBoard == Spec => BoardSpec
<1>1. SmsBase /\ SmsBase' /\ (Prompt => SmsInv) /\ [Next]_vars => [Board!Next]_Board!vars
  BY BoardNext DEF BoardStep, Board!vars
<1>2. Spec => [](Prompt => SmsInv)
  <2>1. CASE Prompt
    <3>1. Spec => []SmsInv
      BY <2>1, SmsInvariant
    <3>2. SmsInv => (Prompt => SmsInv)
      OBVIOUS
    <3> QED
      BY <3>1, <3>2, PTL
  <2>2. CASE ~ Prompt
    <3>1. Prompt => SmsInv
      BY <2>2
    <3> QED
      BY <3>1, PTL
  <2> QED
    BY <2>1, <2>2
<1> QED
  BY <1>1, <1>2, BoardInit, SmsBaseInvariant, PTL DEF Spec, BoardSpec, Board!Spec
=============================================================================
