-------------------------- MODULE SmsNotifyProofs --------------------------
(***************************************************************************)
(* The invariants of SmsNotify, for any messages, requests and queue       *)
(* lengths: the types always, and the answers as long as none is late.     *)
(***************************************************************************)
EXTENDS SmsNotify, SequenceTheorems, TLAPS

USE SmsAssumption

-----------------------------------------------------------------------------
(* Sequences.                                                              *)

LEMMA RemoveAtFacts ==
  ASSUME NEW S, NEW s \in Seq(S), NEW i \in 1..Len(s)
  PROVE  /\ RemoveAt(s, i) \in Seq(S)
         /\ Len(RemoveAt(s, i)) = Len(s) - 1
         /\ \A j \in 1..(Len(s) - 1) :
              RemoveAt(s, i)[j] = IF j < i THEN s[j] ELSE s[j + 1]
<1> DEFINE u == SubSeq(s, 1, i - 1)
           v == SubSeq(s, i + 1, Len(s))
<1>0. Len(s) \in Nat /\ i \in Nat /\ i >= 1 /\ i <= Len(s)
  OBVIOUS
<1>1. u \in Seq(S) /\ Len(u) = i - 1 /\ \A j \in 1..(i - 1) : u[j] = s[j]
  BY <1>0
<1>2. v \in Seq(S) /\ Len(v) = Len(s) - i /\ \A j \in 1..(Len(s) - i) : v[j] = s[i + j]
  BY <1>0
<1> HIDE DEF u, v
<1> DEFINE w == u \o v
<1>3. /\ w \in Seq(S) /\ Len(w) = Len(u) + Len(v)
      /\ \A j \in 1..(Len(u) + Len(v)) :
           w[j] = IF j <= Len(u) THEN u[j] ELSE v[j - Len(u)]
  BY <1>1, <1>2, ConcatProperties
<1> HIDE DEF w
<1>4. ASSUME NEW j \in 1..(Len(s) - 1)
      PROVE  w[j] = IF j < i THEN s[j] ELSE s[j + 1]
  <2>1. w[j] = IF j <= i - 1 THEN u[j] ELSE v[j - (i - 1)]
    BY <1>0, <1>1, <1>2, <1>3
  <2>2. CASE j < i
    BY <1>0, <1>1, <2>1, <2>2
  <2>3. CASE ~ (j < i)
    <3>1. j - (i - 1) \in 1..(Len(s) - i) /\ i + (j - (i - 1)) = j + 1
      BY <1>0, <2>3
    <3>2. v[j - (i - 1)] = s[j + 1]
      BY <1>2, <3>1
    <3> QED
      BY <1>0, <2>1, <2>3, <3>2
  <2> QED
    BY <2>2, <2>3
<1>5. RemoveAt(s, i) = w
  BY DEF RemoveAt, u, v, w
<1> QED
  BY <1>0, <1>1, <1>2, <1>3, <1>4, <1>5

\* Adding to the end and taking from the front.
LEMMA AppendFacts ==
  ASSUME NEW S, NEW s \in Seq(S), NEW e \in S
  PROVE  /\ Append(s, e) \in Seq(S) /\ Len(Append(s, e)) = Len(s) + 1
         /\ \A i \in 1..Len(s) : Append(s, e)[i] = s[i]
         /\ Append(s, e)[Len(s) + 1] = e
BY AppendProperties

LEMMA TailFacts ==
  ASSUME NEW S, NEW s \in Seq(S), s # <<>>
  PROVE  Head(s) \in S /\ Tail(s) \in Seq(S) /\ Len(Tail(s)) = Len(s) - 1 /\ Head(s) = s[1]
BY HeadTailProperties

-----------------------------------------------------------------------------
(* Every action preserves the types.                                       *)

LEMMA NotEmpty == \A S : <<>> \in Seq(S) /\ Len(<<>>) = 0
OBVIOUS

LEMMA BaseInit == Init => SmsBase
<1> SUFFICES ASSUME Init PROVE SmsBase
  OBVIOUS
<1>1. procUp \in BOOLEAN /\ inited \in BOOLEAN
  BY DEF Init
<1>2. /\ urcQ \in Seq(Notice) /\ Len(urcQ) = 0 /\ procQ \in Seq(Notice) /\ Len(procQ) = 0
      /\ rspQ \in Seq(Index) /\ Len(rspQ) = 0 /\ demoQ \in Seq(Ops) /\ Len(demoQ) = 0
      /\ pending \in Seq(Requests)
  BY NotEmpty DEF Init
<1>3. SmsTypeOK
  BY <1>1, <1>2 DEF Init, SmsTypeOK
<1> QED
  BY <1>3 DEF Init, SmsBase

LEMMA AnnounceBase == SmsBase /\ Announce => SmsBase'
<1> SUFFICES ASSUME SmsBase, Announce PROVE SmsBase'
  OBVIOUS
<1> USE DEF SmsBase, Announce, queueVars, taskVars, demoVars
<1>1. SmsTypeOK'
  BY AppendFacts DEF SmsTypeOK
<1>2. (pcT # "recv" => cur \in [kind : {"new"}, index : Indices])'
  OBVIOUS
<1>3. (pcD = "await" => inited /\ op \in Ops)'
  OBVIOUS
<1>4. (~ inited => rspQ = <<>> /\ demoQ = <<>>)'
  OBVIOUS
<1>5. (~ procUp => procQ = <<>> /\ pcT = "recv")'
  OBVIOUS
<1> QED
  BY <1>1, <1>2, <1>3, <1>4, <1>5

LEMMA AnswerRequestBase ==
  ASSUME NEW to \in Receivers PROVE
  SmsBase /\ AnswerRequest(to) => SmsBase'
<1> SUFFICES ASSUME SmsBase, AnswerRequest(to) PROVE SmsBase'
  OBVIOUS
<1> USE DEF SmsBase, AnswerRequest, queueVars, taskVars, demoVars
<1>0. PICK i \in 1..Len(pending) :
        /\ pending[i].to = to
        /\ pending' = RemoveAt(pending, i)
        /\ rspQ' = IF to = "rsp" /\ inited /\ pending[i].gen = gen /\ Len(rspQ) < AnswerCap
                   THEN Append(rspQ, pending[i].what) ELSE rspQ
        /\ demoQ' = IF to = "demo" /\ inited /\ pending[i].gen = gen /\ Len(demoQ) < AnswerCap
                    THEN Append(demoQ, pending[i].what) ELSE demoQ
  OBVIOUS
<1>a. pending[i] \in Requests
  BY DEF SmsTypeOK
<1>b. /\ to = "rsp" => pending[i].what \in Index
      /\ to = "demo" => pending[i].what \in Ops
  BY <1>0, <1>a DEF Requests
<1>c. pending' \in Seq(Requests)
  BY <1>0, RemoveAtFacts DEF SmsTypeOK
<1>d. rspQ' \in Seq(Index) /\ Len(rspQ') <= AnswerCap
  <2>1. CASE rspQ' = rspQ
    BY <2>1 DEF SmsTypeOK
  <2>2. CASE /\ to = "rsp" /\ Len(rspQ) < AnswerCap
             /\ rspQ' = Append(rspQ, pending[i].what)
    BY <1>b, <2>2, AppendFacts DEF SmsTypeOK
  <2> QED
    BY <1>0, <2>1, <2>2
<1>e. demoQ' \in Seq(Ops) /\ Len(demoQ') <= AnswerCap
  <2>1. CASE demoQ' = demoQ
    BY <2>1 DEF SmsTypeOK
  <2>2. CASE /\ to = "demo" /\ Len(demoQ) < AnswerCap
             /\ demoQ' = Append(demoQ, pending[i].what)
    BY <1>b, <2>2, AppendFacts DEF SmsTypeOK
  <2> QED
    BY <1>0, <2>1, <2>2
<1>1. SmsTypeOK'
  BY <1>c, <1>d, <1>e DEF SmsTypeOK
<1>2. (pcT # "recv" => cur \in [kind : {"new"}, index : Indices])'
  OBVIOUS
<1>3. (pcD = "await" => inited /\ op \in Ops)'
  OBVIOUS
<1>4. (~ inited => rspQ = <<>> /\ demoQ = <<>>)'
  BY <1>0
<1>5. (~ procUp => procQ = <<>> /\ pcT = "recv")'
  OBVIOUS
<1> QED
  BY <1>1, <1>2, <1>3, <1>4, <1>5

LEMMA LeaveUnansweredBase ==
  ASSUME NEW to \in Receivers PROVE
  SmsBase /\ LeaveUnanswered(to) => SmsBase'
<1> SUFFICES ASSUME SmsBase, LeaveUnanswered(to) PROVE SmsBase'
  OBVIOUS
<1> USE DEF SmsBase, LeaveUnanswered, queueVars, taskVars, demoVars
<1>1. SmsTypeOK'
  BY RemoveAtFacts DEF SmsTypeOK
<1>2. (pcT # "recv" => cur \in [kind : {"new"}, index : Indices])'
  OBVIOUS
<1>3. (pcD = "await" => inited /\ op \in Ops)'
  OBVIOUS
<1>4. (~ inited => rspQ = <<>> /\ demoQ = <<>>)'
  OBVIOUS
<1>5. (~ procUp => procQ = <<>> /\ pcT = "recv")'
  OBVIOUS
<1> QED
  BY <1>1, <1>2, <1>3, <1>4, <1>5

LEMMA ForwardBase == SmsBase /\ Forward => SmsBase'
<1> SUFFICES ASSUME SmsBase, Forward PROVE SmsBase'
  OBVIOUS
<1> USE DEF SmsBase, Forward, queueVars, taskVars, demoVars
<1>a. /\ urcQ' \in Seq(Notice) /\ Len(urcQ') <= UrcCap
      /\ procQ' \in Seq(Notice) /\ Len(procQ') <= ProcCap
  <2>1. /\ Head(urcQ) \in Notice /\ Tail(urcQ) \in Seq(Notice)
        /\ Len(Tail(urcQ)) = Len(urcQ) - 1
    BY TailFacts DEF SmsTypeOK
  <2>2. /\ Append(procQ, Head(urcQ)) \in Seq(Notice)
        /\ Len(Append(procQ, Head(urcQ))) = Len(procQ) + 1
    BY <2>1, AppendFacts DEF SmsTypeOK
  <2> QED
    BY <2>1, <2>2 DEF SmsTypeOK
<1>1. SmsTypeOK'
  BY <1>a DEF SmsTypeOK
<1>2. (pcT # "recv" => cur \in [kind : {"new"}, index : Indices])'
  OBVIOUS
<1>3. (pcD = "await" => inited /\ op \in Ops)'
  OBVIOUS
<1>4. (~ inited => rspQ = <<>> /\ demoQ = <<>>)'
  OBVIOUS
<1>5. (~ procUp => procQ = <<>> /\ pcT = "recv")'
  OBVIOUS
<1> QED
  BY <1>1, <1>2, <1>3, <1>4, <1>5

LEMMA TaskReceiveBase == SmsBase /\ TaskReceive => SmsBase'
<1> SUFFICES ASSUME SmsBase, TaskReceive PROVE SmsBase'
  OBVIOUS
<1> USE DEF SmsBase, TaskReceive, queueVars, taskVars, demoVars
<1>a. /\ Head(procQ) \in Notice
      /\ procQ' \in Seq(Notice) /\ Len(procQ') <= ProcCap
  BY TailFacts DEF SmsTypeOK
<1>1. SmsTypeOK'
  BY <1>a DEF SmsTypeOK
<1>2. (pcT # "recv" => cur \in [kind : {"new"}, index : Indices])'
  BY <1>a DEF Notice
<1>3. (pcD = "await" => inited /\ op \in Ops)'
  OBVIOUS
<1>4. (~ inited => rspQ = <<>> /\ demoQ = <<>>)'
  OBVIOUS
<1>5. (~ procUp => procQ = <<>> /\ pcT = "recv")'
  OBVIOUS
<1> QED
  BY <1>1, <1>2, <1>3, <1>4, <1>5

LEMMA TaskReadBase == SmsBase /\ TaskRead => SmsBase'
<1> SUFFICES ASSUME SmsBase, TaskRead PROVE SmsBase'
  OBVIOUS
<1> USE DEF SmsBase, TaskRead, queueVars, taskVars, demoVars
<1>a. pending' \in Seq(Requests)
  <2>1. CASE UNCHANGED pending
    BY <2>1 DEF SmsTypeOK
  <2>2. CASE Ask("rsp", IF inited THEN gen ELSE 0, TwoDigits(cur.index))
    <3>1. cur.index \in Indices /\ TwoDigits(cur.index) \in Index
      BY DEF Index
    <3>2. (IF inited THEN gen ELSE 0) \in 0..MaxGen
      BY DEF SmsTypeOK
    <3>3. [to |-> "rsp", gen |-> IF inited THEN gen ELSE 0, what |-> TwoDigits(cur.index)]
            \in Requests
      BY <3>1, <3>2 DEF Requests
    <3> QED
      BY <2>2, <3>3, AppendFacts DEF Ask, SmsTypeOK
  <2> QED
    BY <2>1, <2>2
<1>1. SmsTypeOK'
  BY <1>a DEF SmsTypeOK
<1>2. (pcT # "recv" => cur \in [kind : {"new"}, index : Indices])'
  OBVIOUS
<1>3. (pcD = "await" => inited /\ op \in Ops)'
  OBVIOUS
<1>4. (~ inited => rspQ = <<>> /\ demoQ = <<>>)'
  OBVIOUS
<1>5. (~ procUp => procQ = <<>> /\ pcT = "recv")'
  OBVIOUS
<1> QED
  BY <1>1, <1>2, <1>3, <1>4, <1>5

LEMMA TaskEnterBase == SmsBase /\ TaskEnter => SmsBase'
<1> SUFFICES ASSUME SmsBase, TaskEnter PROVE SmsBase'
  OBVIOUS
<1> USE DEF SmsBase, TaskEnter, queueVars, taskVars, demoVars
<1>1. SmsTypeOK'
  BY DEF SmsTypeOK
<1>2. (pcT # "recv" => cur \in [kind : {"new"}, index : Indices])'
  OBVIOUS
<1>3. (pcD = "await" => inited /\ op \in Ops)'
  OBVIOUS
<1>4. (~ inited => rspQ = <<>> /\ demoQ = <<>>)'
  OBVIOUS
<1>5. (~ procUp => procQ = <<>> /\ pcT = "recv")'
  OBVIOUS
<1> QED
  BY <1>1, <1>2, <1>3, <1>4, <1>5

LEMMA TaskAnswerBase == SmsBase /\ TaskAnswer => SmsBase'
<1> SUFFICES ASSUME SmsBase, TaskAnswer PROVE SmsBase'
  OBVIOUS
<1> USE DEF SmsBase, TaskAnswer, queueVars, taskVars, demoVars
<1>a. rspQ' \in Seq(Index) /\ Len(rspQ') <= AnswerCap
  BY TailFacts DEF SmsTypeOK, Take
<1>1. SmsTypeOK'
  BY <1>a DEF SmsTypeOK
<1>2. (pcT # "recv" => cur \in [kind : {"new"}, index : Indices])'
  OBVIOUS
<1>3. (pcD = "await" => inited /\ op \in Ops)'
  OBVIOUS
<1>4. (~ inited => rspQ = <<>> /\ demoQ = <<>>)'
  OBVIOUS
<1>5. (~ procUp => procQ = <<>> /\ pcT = "recv")'
  OBVIOUS
<1> QED
  BY <1>1, <1>2, <1>3, <1>4, <1>5

LEMMA TaskTimeoutBase == SmsBase /\ TaskTimeout => SmsBase'
<1> SUFFICES ASSUME SmsBase, TaskTimeout PROVE SmsBase'
  OBVIOUS
<1> USE DEF SmsBase, TaskTimeout, queueVars, taskVars, demoVars
<1>1. SmsTypeOK'
  BY DEF SmsTypeOK
<1>2. (pcT # "recv" => cur \in [kind : {"new"}, index : Indices])'
  OBVIOUS
<1>3. (pcD = "await" => inited /\ op \in Ops)'
  OBVIOUS
<1>4. (~ inited => rspQ = <<>> /\ demoQ = <<>>)'
  OBVIOUS
<1>5. (~ procUp => procQ = <<>> /\ pcT = "recv")'
  OBVIOUS
<1> QED
  BY <1>1, <1>2, <1>3, <1>4, <1>5

LEMMA InitDemoBase == SmsBase /\ InitDemo => SmsBase'
<1> SUFFICES ASSUME SmsBase, InitDemo PROVE SmsBase'
  OBVIOUS
<1> USE DEF SmsBase, InitDemo, queueVars, taskVars, demoVars
<1>1. SmsTypeOK'
  <2>1. procUp' \in BOOLEAN /\ inited' \in BOOLEAN
    OBVIOUS
  <2> QED
    BY <2>1 DEF SmsTypeOK
<1>2. (pcT # "recv" => cur \in [kind : {"new"}, index : Indices])'
  OBVIOUS
<1>3. (pcD = "await" => inited /\ op \in Ops)'
  OBVIOUS
<1>4. (~ inited => rspQ = <<>> /\ demoQ = <<>>)'
  OBVIOUS
<1>5. (~ procUp => procQ = <<>> /\ pcT = "recv")'
  OBVIOUS
<1> QED
  BY <1>1, <1>2, <1>3, <1>4, <1>5

LEMMA DeInitBase == SmsBase /\ DeInit => SmsBase'
<1> SUFFICES ASSUME SmsBase, DeInit PROVE SmsBase'
  OBVIOUS
<1> USE DEF SmsBase, DeInit, queueVars, taskVars, demoVars
<1>1. SmsTypeOK'
  <2>1. inited' \in BOOLEAN
    OBVIOUS
  <2> QED
    BY <2>1, NotEmpty DEF SmsTypeOK
<1>2. (pcT # "recv" => cur \in [kind : {"new"}, index : Indices])'
  OBVIOUS
<1>3. (pcD = "await" => inited /\ op \in Ops)'
  OBVIOUS
<1>4. (~ inited => rspQ = <<>> /\ demoQ = <<>>)'
  OBVIOUS
<1>5. (~ procUp => procQ = <<>> /\ pcT = "recv")'
  OBVIOUS
<1> QED
  BY <1>1, <1>2, <1>3, <1>4, <1>5

LEMMA RequestBase == SmsBase /\ Request => SmsBase'
<1> SUFFICES ASSUME SmsBase, Request PROVE SmsBase'
  OBVIOUS
<1> USE DEF SmsBase, Request, queueVars, taskVars, demoVars
<1>0. PICK o \in Ops : op' = o /\ Ask("demo", gen, o)
  OBVIOUS
<1>a. pending' \in Seq(Requests)
  <2>1. [to |-> "demo", gen |-> gen, what |-> o] \in Requests
    BY DEF Requests, SmsTypeOK
  <2> QED
    BY <1>0, <2>1, AppendFacts DEF Ask, SmsTypeOK
<1>1. SmsTypeOK'
  BY <1>0, <1>a DEF SmsTypeOK
<1>2. (pcT # "recv" => cur \in [kind : {"new"}, index : Indices])'
  OBVIOUS
<1>3. (pcD = "await" => inited /\ op \in Ops)'
  BY <1>0
<1>4. (~ inited => rspQ = <<>> /\ demoQ = <<>>)'
  OBVIOUS
<1>5. (~ procUp => procQ = <<>> /\ pcT = "recv")'
  OBVIOUS
<1> QED
  BY <1>1, <1>2, <1>3, <1>4, <1>5

LEMMA RequestAnswerBase == SmsBase /\ RequestAnswer => SmsBase'
<1> SUFFICES ASSUME SmsBase, RequestAnswer PROVE SmsBase'
  OBVIOUS
<1> USE DEF SmsBase, RequestAnswer, queueVars, taskVars, demoVars
<1>a. demoQ' \in Seq(Ops) /\ Len(demoQ') <= AnswerCap
  BY TailFacts DEF SmsTypeOK, Take
<1>1. SmsTypeOK'
  BY <1>a DEF SmsTypeOK
<1>2. (pcT # "recv" => cur \in [kind : {"new"}, index : Indices])'
  OBVIOUS
<1>3. (pcD = "await" => inited /\ op \in Ops)'
  OBVIOUS
<1>4. (~ inited => rspQ = <<>> /\ demoQ = <<>>)'
  OBVIOUS
<1>5. (~ procUp => procQ = <<>> /\ pcT = "recv")'
  OBVIOUS
<1> QED
  BY <1>1, <1>2, <1>3, <1>4, <1>5

LEMMA RequestTimeoutBase == SmsBase /\ RequestTimeout => SmsBase'
<1> SUFFICES ASSUME SmsBase, RequestTimeout PROVE SmsBase'
  OBVIOUS
<1> USE DEF SmsBase, RequestTimeout, queueVars, taskVars, demoVars
<1>1. SmsTypeOK'
  BY DEF SmsTypeOK
<1>2. (pcT # "recv" => cur \in [kind : {"new"}, index : Indices])'
  OBVIOUS
<1>3. (pcD = "await" => inited /\ op \in Ops)'
  OBVIOUS
<1>4. (~ inited => rspQ = <<>> /\ demoQ = <<>>)'
  OBVIOUS
<1>5. (~ procUp => procQ = <<>> /\ pcT = "recv")'
  OBVIOUS
<1> QED
  BY <1>1, <1>2, <1>3, <1>4, <1>5

LEMMA BaseNext == SmsBase /\ [Next]_vars => SmsBase'
<1>1. CASE Next
  BY <1>1, AnnounceBase, AnswerRequestBase, LeaveUnansweredBase, ForwardBase,
     TaskReceiveBase, TaskReadBase, TaskEnterBase, TaskAnswerBase, TaskTimeoutBase,
     InitDemoBase, DeInitBase,
     RequestBase, RequestAnswerBase, RequestTimeoutBase DEF Next, Modem, Task, Demo
<1>2. CASE UNCHANGED vars
  BY <1>2 DEF vars, queueVars, taskVars, demoVars, SmsBase, SmsTypeOK
<1> QED
  BY <1>1, <1>2

THEOREM SmsBaseInvariant == Spec => []SmsBase
BY BaseInit, BaseNext, PTL DEF Spec

\* Whatever the modem does, no queue outgrows its creation, and a wait for an
\* answer finds one of its own kind.
THEOREM SmsTypeCorrect == Spec => []SmsTypeOK
<1>1. SmsBase => SmsTypeOK
  BY DEF SmsBase
<1> QED
  BY <1>1, SmsBaseInvariant, PTL

-----------------------------------------------------------------------------
(* With answers that are not late.                                         *)

LEMMA TwoDigitsSame == \A i \in 0..99 : TwoDigits(i) = i
BY DEF TwoDigits

LEMMA OneTaken == \A q, e : q = <<e>> => Tail(q) = <<>> /\ Head(q) = e
OBVIOUS

\* Where request j was before request i was removed.
Old(i, j) == IF j < i THEN j ELSE j + 1

LEMMA RemovedAt ==
  ASSUME SmsBase, NEW i \in 1..Len(pending), pending' = RemoveAt(pending, i)
  PROVE  /\ \A j \in 1..Len(pending') :
              /\ Old(i, j) \in 1..Len(pending) /\ Old(i, j) # i
              /\ pending'[j] = pending[Old(i, j)]
         /\ \A j, k \in 1..Len(pending') : Old(i, j) = Old(i, k) => j = k
<1>1. pending \in Seq(Requests)
  BY DEF SmsBase, SmsTypeOK
<1>2. /\ Len(pending') = Len(pending) - 1
      /\ \A j \in 1..(Len(pending) - 1) :
           pending'[j] = IF j < i THEN pending[j] ELSE pending[j + 1]
  BY <1>1, RemoveAtFacts
<1>3. Len(pending) \in Nat
  BY <1>1
<1> QED
  BY <1>2, <1>3 DEF Old

\* A request that goes away without an answer takes nothing with it.
LEMMA RemovedOnly ==
  ASSUME SmsBase, OlderGens, RspOnly, DemoOnly,
         NEW i \in 1..Len(pending), pending' = RemoveAt(pending, i),
         UNCHANGED <<gen, inited>>
  PROVE  /\ OlderGens'
         /\ UNCHANGED <<rspQ, taskVars>> => RspOnly'
         /\ UNCHANGED <<demoQ, demoVars>> => DemoOnly'
<1>1. /\ \A j \in 1..Len(pending') :
           /\ Old(i, j) \in 1..Len(pending)
           /\ pending'[j] = pending[Old(i, j)]
      /\ \A j, k \in 1..Len(pending') : Old(i, j) = Old(i, k) => j = k
  BY RemovedAt
<1>2. OlderGens'
  BY <1>1 DEF OlderGens
<1>3. ASSUME UNCHANGED <<rspQ, taskVars>> PROVE RspOnly'
  <2>1. \A j \in 1..Len(pending') : Waits("rsp", j)' => Waits("rsp", Old(i, j))
    BY <1>1 DEF Waits
  <2>2. UNCHANGED Reading /\ UNCHANGED cur
    BY <1>3 DEF Reading, taskVars
  <2> QED
    BY <1>1, <1>3, <2>1, <2>2 DEF RspOnly, OnlyAnswer
<1>4. ASSUME UNCHANGED <<demoQ, demoVars>> PROVE DemoOnly'
  <2>1. \A j \in 1..Len(pending') : Waits("demo", j)' => Waits("demo", Old(i, j))
    BY <1>1 DEF Waits
  <2> QED
    BY <1>1, <1>4, <2>1 DEF DemoOnly, OnlyAnswer, demoVars
<1> QED
  BY <1>2, <1>3, <1>4

LEMMA InitInv == Prompt /\ Init => SmsInv
<1> SUFFICES ASSUME Init PROVE SmsInv
  OBVIOUS
<1>1. SmsBase
  BY BaseInit
<1>2. OlderGens /\ RspOnly /\ DemoOnly /\ ShownByDigits /\ ResultIsOfRequest
  BY DEF Init, OlderGens, RspOnly, DemoOnly, OnlyAnswer, Waits, ShownByDigits, TwoDigits,
     ResultIsOfRequest
<1> QED
  BY <1>1, <1>2 DEF SmsInv

LEMMA AnnounceInv ==
  Prompt /\ SmsInv /\ SmsBase' /\ Announce => SmsInv'
<1> SUFFICES ASSUME Prompt, SmsInv, SmsBase', Announce PROVE SmsInv'
  OBVIOUS
<1> USE DEF Announce, queueVars, taskVars, demoVars
<1>0. /\ SmsBase /\ OlderGens /\ RspOnly /\ DemoOnly
      /\ ShownByDigits /\ ResultIsOfRequest
  BY DEF SmsInv
<1>1. OlderGens'
  BY <1>0 DEF OlderGens
<1>2. RspOnly'
  BY <1>0 DEF RspOnly, OnlyAnswer, Waits, Reading
<1>3. DemoOnly'
  BY <1>0 DEF DemoOnly, OnlyAnswer, Waits
<1>4. ShownByDigits'
  BY <1>0 DEF ShownByDigits, TwoDigits
<1>5. ResultIsOfRequest'
  BY <1>0 DEF ResultIsOfRequest
<1>6. SmsBase'
  OBVIOUS
<1> QED
  BY ONLY <1>1, <1>2, <1>3, <1>4, <1>5, <1>6 DEF SmsInv

LEMMA AnswerRequestInv ==
  ASSUME NEW to \in Receivers PROVE
  Prompt /\ SmsInv /\ SmsBase' /\ AnswerRequest(to) => SmsInv'
<1> SUFFICES ASSUME Prompt, SmsInv, SmsBase', AnswerRequest(to) PROVE SmsInv'
  OBVIOUS
<1> USE DEF AnswerRequest, queueVars, taskVars, demoVars
<1>0. /\ SmsBase /\ OlderGens /\ RspOnly /\ DemoOnly
      /\ ShownByDigits /\ ResultIsOfRequest
  BY DEF SmsInv
<1>a. PICK i \in 1..Len(pending) :
        /\ pending[i].to = to
        /\ pending' = RemoveAt(pending, i)
        /\ rspQ' = IF to = "rsp" /\ inited /\ pending[i].gen = gen /\ Len(rspQ) < AnswerCap
                   THEN Append(rspQ, pending[i].what) ELSE rspQ
        /\ demoQ' = IF to = "demo" /\ inited /\ pending[i].gen = gen /\ Len(demoQ) < AnswerCap
                    THEN Append(demoQ, pending[i].what) ELSE demoQ
  OBVIOUS
<1>b. \A j \in 1..Len(pending') : /\ Old(i, j) \in 1..Len(pending) /\ Old(i, j) # i
                                  /\ pending'[j] = pending[Old(i, j)]
  BY <1>0, <1>a, RemovedAt
<1>c. \A e : Len(Append(<<>>, e)) = 1 /\ Append(<<>>, e)[1] = e /\ Append(<<>>, e) # <<>>
  OBVIOUS
<1>d. \A q : q = <<>> => Len(q) < AnswerCap
  BY NotEmpty
<1>1. OlderGens'
  BY <1>0, <1>a, RemovedOnly
<1>2. RspOnly'
  <2>1. CASE Waits("rsp", i)
    <3>1. Reading /\ rspQ = <<>> /\ pending[i].what = TwoDigits(cur.index)
      BY <1>0, <2>1 DEF RspOnly, OnlyAnswer
    <3>2. rspQ' = Append(<<>>, TwoDigits(cur.index))
      BY <1>a, <1>d, <2>1, <3>1 DEF Waits
    <3>3. /\ rspQ' # <<>> /\ Len(rspQ') = 1 /\ rspQ'[1] = TwoDigits(cur'.index) /\ Reading'
      BY <1>c, <3>1, <3>2 DEF Reading
    <3>4. ASSUME NEW j \in 1..Len(pending'), Waits("rsp", j)' PROVE FALSE
      BY <1>0, <1>b, <2>1, <3>4 DEF RspOnly, OnlyAnswer, Waits
    <3> QED
      BY <3>3, <3>4 DEF RspOnly, OnlyAnswer
  <2>2. CASE ~ Waits("rsp", i)
    <3>1. UNCHANGED rspQ
      BY <1>a, <2>2 DEF Waits
    <3> QED
      BY <1>0, <1>a, <3>1, RemovedOnly
  <2> QED
    BY <2>1, <2>2
<1>3. DemoOnly'
  <2>1. CASE Waits("demo", i)
    <3>1. pcD = "await" /\ demoQ = <<>> /\ pending[i].what = op
      BY <1>0, <2>1 DEF DemoOnly, OnlyAnswer
    <3>2. demoQ' = Append(<<>>, op)
      BY <1>a, <1>d, <2>1, <3>1 DEF Waits
    <3>3. demoQ' # <<>> /\ Len(demoQ') = 1 /\ demoQ'[1] = op' /\ pcD' = "await"
      BY <1>c, <3>1, <3>2
    <3>4. ASSUME NEW j \in 1..Len(pending'), Waits("demo", j)' PROVE FALSE
      BY <1>0, <1>b, <2>1, <3>4 DEF DemoOnly, OnlyAnswer, Waits
    <3> QED
      BY <3>3, <3>4 DEF DemoOnly, OnlyAnswer
  <2>2. CASE ~ Waits("demo", i)
    <3>1. UNCHANGED demoQ
      BY <1>a, <2>2 DEF Waits
    <3> QED
      BY <1>0, <1>a, <3>1, RemovedOnly
  <2> QED
    BY <2>1, <2>2
<1>4. ShownByDigits'
  BY <1>0 DEF ShownByDigits, TwoDigits
<1>5. ResultIsOfRequest'
  BY <1>0 DEF ResultIsOfRequest
<1>6. SmsBase'
  OBVIOUS
<1> QED
  BY ONLY <1>1, <1>2, <1>3, <1>4, <1>5, <1>6 DEF SmsInv

LEMMA LeaveUnansweredInv ==
  ASSUME NEW to \in Receivers PROVE
  Prompt /\ SmsInv /\ SmsBase' /\ LeaveUnanswered(to) => SmsInv'
<1> SUFFICES ASSUME Prompt, SmsInv, SmsBase', LeaveUnanswered(to) PROVE SmsInv'
  OBVIOUS
<1> USE DEF LeaveUnanswered, queueVars, taskVars, demoVars
<1>0. /\ SmsBase /\ OlderGens /\ RspOnly /\ DemoOnly
      /\ ShownByDigits /\ ResultIsOfRequest
  BY DEF SmsInv
<1>1. OlderGens'
  BY <1>0, RemovedOnly
<1>2. RspOnly'
  BY <1>0, RemovedOnly
<1>3. DemoOnly'
  BY <1>0, RemovedOnly
<1>4. ShownByDigits'
  BY <1>0 DEF ShownByDigits, TwoDigits
<1>5. ResultIsOfRequest'
  BY <1>0 DEF ResultIsOfRequest
<1>6. SmsBase'
  OBVIOUS
<1> QED
  BY ONLY <1>1, <1>2, <1>3, <1>4, <1>5, <1>6 DEF SmsInv

LEMMA ForwardInv ==
  Prompt /\ SmsInv /\ SmsBase' /\ Forward => SmsInv'
<1> SUFFICES ASSUME Prompt, SmsInv, SmsBase', Forward PROVE SmsInv'
  OBVIOUS
<1> USE DEF Forward, queueVars, taskVars, demoVars
<1>0. /\ SmsBase /\ OlderGens /\ RspOnly /\ DemoOnly
      /\ ShownByDigits /\ ResultIsOfRequest
  BY DEF SmsInv
<1>1. OlderGens'
  BY <1>0 DEF OlderGens
<1>2. RspOnly'
  BY <1>0 DEF RspOnly, OnlyAnswer, Waits, Reading
<1>3. DemoOnly'
  BY <1>0 DEF DemoOnly, OnlyAnswer, Waits
<1>4. ShownByDigits'
  BY <1>0 DEF ShownByDigits, TwoDigits
<1>5. ResultIsOfRequest'
  BY <1>0 DEF ResultIsOfRequest
<1>6. SmsBase'
  OBVIOUS
<1> QED
  BY ONLY <1>1, <1>2, <1>3, <1>4, <1>5, <1>6 DEF SmsInv

LEMMA TaskReceiveInv ==
  Prompt /\ SmsInv /\ SmsBase' /\ TaskReceive => SmsInv'
<1> SUFFICES ASSUME Prompt, SmsInv, SmsBase', TaskReceive PROVE SmsInv'
  OBVIOUS
<1> USE DEF TaskReceive, queueVars, taskVars, demoVars
<1>0. /\ SmsBase /\ OlderGens /\ RspOnly /\ DemoOnly
      /\ ShownByDigits /\ ResultIsOfRequest
  BY DEF SmsInv
<1>1. OlderGens'
  BY <1>0 DEF OlderGens
<1>2. RspOnly'
  <2>1. ~ Reading /\ rspQ = <<>>
    BY <1>0 DEF RspOnly, OnlyAnswer, Reading
  <2> QED
    BY <1>0, <2>1 DEF RspOnly, OnlyAnswer, Waits
<1>3. DemoOnly'
  BY <1>0 DEF DemoOnly, OnlyAnswer, Waits
<1>4. ShownByDigits'
  <2>1. Head(procQ) \in Notice
    BY <1>0 DEF SmsBase, SmsTypeOK
  <2>2. Head(procQ).kind = "flash" => Head(procQ).index = 0
    BY <2>1 DEF Notice
  <2> QED
    BY <2>2 DEF ShownByDigits, TwoDigits
<1>5. ResultIsOfRequest'
  BY <1>0 DEF ResultIsOfRequest
<1>6. SmsBase'
  OBVIOUS
<1> QED
  BY ONLY <1>1, <1>2, <1>3, <1>4, <1>5, <1>6 DEF SmsInv

LEMMA TaskReadInv ==
  Prompt /\ SmsInv /\ SmsBase' /\ TaskRead => SmsInv'
<1> SUFFICES ASSUME Prompt, SmsInv, SmsBase', TaskRead PROVE SmsInv'
  OBVIOUS
<1> USE DEF TaskRead, queueVars, taskVars, demoVars
<1>0. /\ SmsBase /\ OlderGens /\ RspOnly /\ DemoOnly
      /\ ShownByDigits /\ ResultIsOfRequest
  BY DEF SmsInv
<1>a. /\ Len(pending') \in Nat /\ Len(pending) \in Nat
      /\ \A j \in 1..Len(pending') :
           \/ j \in 1..Len(pending) /\ pending'[j] = pending[j]
           \/ /\ j = Len(pending) + 1 /\ pcT' = "enter"
              /\ pending'[j] = [to |-> "rsp", gen |-> IF inited THEN gen ELSE 0,
                                what |-> TwoDigits(cur.index)]
  <2>1. CASE UNCHANGED pending /\ pcT' = "recv"
    BY <1>0, <2>1 DEF SmsBase, SmsTypeOK
  <2>2. CASE Ask("rsp", IF inited THEN gen ELSE 0, TwoDigits(cur.index)) /\ pcT' = "enter"
    <3> DEFINE r == [to |-> "rsp", gen |-> IF inited THEN gen ELSE 0,
                     what |-> TwoDigits(cur.index)]
    <3>1. pending \in Seq(Requests) /\ Append(pending, r) \in Seq(Requests)
      BY <1>0, <2>2 DEF SmsBase, SmsTypeOK, Ask
    <3>2. pending' = Append(pending, r)
      BY <2>2 DEF Ask
    <3> HIDE DEF r
    <3>3. /\ Len(pending) \in Nat /\ Len(pending') = Len(pending) + 1
          /\ \A j \in 1..Len(pending) : pending'[j] = pending[j]
          /\ pending'[Len(pending) + 1] = r
      BY <3>1, <3>2
    <3> QED
      BY <2>2, <3>3 DEF r
  <2> QED
    BY <2>1, <2>2
<1>b. ~ Reading /\ rspQ = <<>> /\ \A j \in 1..Len(pending) : ~ Waits("rsp", j)
  BY <1>0 DEF RspOnly, OnlyAnswer, Reading
<1>c. gen \in Nat /\ (pcT' = "recv" => ~ Reading')
  BY <1>0 DEF SmsBase, SmsTypeOK, Reading
<1>1. OlderGens'
  BY <1>0, <1>a, <1>c DEF OlderGens
<1>2. RspOnly'
  <2>1. \A j \in 1..Len(pending') : Waits("rsp", j)' =>
          /\ j = Len(pending) + 1 /\ pcT' = "enter"
          /\ pending'[j].what = TwoDigits(cur.index)
    BY <1>a, <1>b DEF Waits
  <2>2. (rspQ' = <<>> /\ cur' = cur) \/ pcT' = "recv"
    BY <1>b
  <2>3. pcT' = "enter" => Reading'
    BY DEF Reading
  <2>4. rspQ' = <<>>
    BY <1>b
  <2>5. \A j \in 1..Len(pending') : Waits("rsp", j)' => cur' = cur
    BY ONLY <2>1, <2>2
  <2>6. \A j \in 1..Len(pending') : Waits("rsp", j)' =>
          Reading' /\ rspQ' = <<>> /\ pending'[j].what = TwoDigits(cur'.index)
    BY ONLY <2>1, <2>3, <2>4, <2>5
  <2>7. \A i, j \in 1..Len(pending') : Waits("rsp", i)' /\ Waits("rsp", j)' => i = j
    BY ONLY <2>1
  <2>8. TwoDigits(cur.index)' = TwoDigits(cur'.index)
    BY DEF TwoDigits
  <2> QED
    BY ONLY <2>4, <2>6, <2>7, <2>8 DEF RspOnly, OnlyAnswer
<1>3. DemoOnly'
  <2>1. \A j \in 1..Len(pending') : Waits("demo", j)' =>
          j \in 1..Len(pending) /\ pending'[j] = pending[j] /\ Waits("demo", j)
    BY <1>a DEF Waits
  <2>2. demoQ' = demoQ /\ pcD' = pcD /\ op' = op
    OBVIOUS
  <2> QED
    BY ONLY <1>0, <2>1, <2>2 DEF DemoOnly, OnlyAnswer
<1>4. ShownByDigits'
  BY <1>0 DEF ShownByDigits, TwoDigits
<1>5. ResultIsOfRequest'
  BY <1>0 DEF ResultIsOfRequest
<1>6. SmsBase'
  OBVIOUS
<1> QED
  BY ONLY <1>1, <1>2, <1>3, <1>4, <1>5, <1>6 DEF SmsInv

LEMMA TaskEnterInv ==
  Prompt /\ SmsInv /\ SmsBase' /\ TaskEnter => SmsInv'
<1> SUFFICES ASSUME Prompt, SmsInv, SmsBase', TaskEnter PROVE SmsInv'
  OBVIOUS
<1> USE DEF TaskEnter, queueVars, taskVars, demoVars
<1>0. /\ SmsBase /\ OlderGens /\ RspOnly /\ DemoOnly
      /\ ShownByDigits /\ ResultIsOfRequest
  BY DEF SmsInv
<1>1. OlderGens'
  BY <1>0 DEF OlderGens
<1>2. RspOnly'
  BY <1>0 DEF RspOnly, OnlyAnswer, Waits, Reading
<1>3. DemoOnly'
  BY <1>0 DEF DemoOnly, OnlyAnswer, Waits
<1>4. ShownByDigits'
  BY <1>0 DEF ShownByDigits, TwoDigits
<1>5. ResultIsOfRequest'
  BY <1>0 DEF ResultIsOfRequest
<1>6. SmsBase'
  OBVIOUS
<1> QED
  BY ONLY <1>1, <1>2, <1>3, <1>4, <1>5, <1>6 DEF SmsInv

LEMMA TaskAnswerInv ==
  Prompt /\ SmsInv /\ SmsBase' /\ TaskAnswer => SmsInv'
<1> SUFFICES ASSUME Prompt, SmsInv, SmsBase', TaskAnswer PROVE SmsInv'
  OBVIOUS
<1> USE DEF TaskAnswer, queueVars, taskVars, demoVars
<1>0. /\ SmsBase /\ OlderGens /\ RspOnly /\ DemoOnly
      /\ ShownByDigits /\ ResultIsOfRequest
  BY DEF SmsInv
<1>a. rspQ = <<rspQ[1]>> /\ rspQ[1] = TwoDigits(cur.index)
  BY <1>0 DEF RspOnly, OnlyAnswer, SmsBase, SmsTypeOK
<1>b. rspQ' = <<>> /\ Head(rspQ) = TwoDigits(cur.index)
  <2>1. rspQ' = Tail(rspQ)
    BY DEF Take
  <2> QED
    BY <1>a, <2>1, OneTaken
<1>c. cur.index \in Indices
  BY <1>0 DEF SmsBase
<1>d. \A j \in 1..Len(pending) : ~ Waits("rsp", j)
  BY <1>0 DEF RspOnly, OnlyAnswer
<1>1. OlderGens'
  BY <1>0 DEF OlderGens
<1>2. RspOnly'
  BY <1>b, <1>d DEF RspOnly, OnlyAnswer, Waits
<1>3. DemoOnly'
  BY <1>0 DEF DemoOnly, OnlyAnswer, Waits
<1>4. ShownByDigits'
  BY <1>b, <1>c DEF ShownByDigits, TwoDigits
<1>5. ResultIsOfRequest'
  BY <1>0 DEF ResultIsOfRequest
<1>6. SmsBase'
  OBVIOUS
<1> QED
  BY ONLY <1>1, <1>2, <1>3, <1>4, <1>5, <1>6 DEF SmsInv

LEMMA TaskTimeoutInv ==
  Prompt /\ SmsInv /\ SmsBase' /\ TaskTimeout => SmsInv'
<1> SUFFICES ASSUME Prompt, SmsInv, SmsBase', TaskTimeout PROVE SmsInv'
  OBVIOUS
<1> USE DEF TaskTimeout, queueVars, taskVars, demoVars
<1>0. /\ SmsBase /\ OlderGens /\ RspOnly /\ DemoOnly
      /\ ShownByDigits /\ ResultIsOfRequest
  BY DEF SmsInv
<1>a. rspQ = <<>> /\ \A j \in 1..Len(pending) : ~ Waits("rsp", j)
  BY <1>0 DEF TimesOut, Prompt, RspOnly, OnlyAnswer, Waits, Reading, SmsBase
<1>1. OlderGens'
  BY <1>0 DEF OlderGens
<1>2. RspOnly'
  BY <1>a DEF RspOnly, OnlyAnswer, Waits
<1>3. DemoOnly'
  BY <1>0 DEF DemoOnly, OnlyAnswer, Waits
<1>4. ShownByDigits'
  BY <1>0 DEF ShownByDigits, TwoDigits
<1>5. ResultIsOfRequest'
  BY <1>0 DEF ResultIsOfRequest
<1>6. SmsBase'
  OBVIOUS
<1> QED
  BY ONLY <1>1, <1>2, <1>3, <1>4, <1>5, <1>6 DEF SmsInv

LEMMA InitDemoInv ==
  Prompt /\ SmsInv /\ SmsBase' /\ InitDemo => SmsInv'
<1> SUFFICES ASSUME Prompt, SmsInv, SmsBase', InitDemo PROVE SmsInv'
  OBVIOUS
<1> USE DEF InitDemo, queueVars, taskVars, demoVars
<1>0. /\ SmsBase /\ OlderGens /\ RspOnly /\ DemoOnly
      /\ ShownByDigits /\ ResultIsOfRequest
  BY DEF SmsInv
<1>a. \A j \in 1..Len(pending) : ~ Waits("rsp", j)' /\ ~ Waits("demo", j)'
  BY <1>0 DEF OlderGens, Waits, SmsBase, SmsTypeOK, Requests
<1>b. rspQ' = <<>> /\ demoQ' = <<>> /\ gen \in Nat /\ pending \in Seq(Requests)
  BY <1>0 DEF SmsBase, SmsTypeOK
<1>c. \A j \in 1..Len(pending) : pending[j].gen \in Nat
  BY <1>b DEF Requests
<1>1. OlderGens'
  BY <1>0, <1>b, <1>c DEF OlderGens
<1>2. RspOnly'
  BY <1>a, <1>b DEF RspOnly, OnlyAnswer
<1>3. DemoOnly'
  BY <1>a, <1>b DEF DemoOnly, OnlyAnswer
<1>4. ShownByDigits'
  BY <1>0 DEF ShownByDigits, TwoDigits
<1>5. ResultIsOfRequest'
  BY <1>0 DEF ResultIsOfRequest
<1>6. SmsBase'
  OBVIOUS
<1> QED
  BY ONLY <1>1, <1>2, <1>3, <1>4, <1>5, <1>6 DEF SmsInv

LEMMA DeInitInv ==
  Prompt /\ SmsInv /\ SmsBase' /\ DeInit => SmsInv'
<1> SUFFICES ASSUME Prompt, SmsInv, SmsBase', DeInit PROVE SmsInv'
  OBVIOUS
<1> USE DEF DeInit, queueVars, taskVars, demoVars
<1>0. /\ SmsBase /\ OlderGens /\ RspOnly /\ DemoOnly
      /\ ShownByDigits /\ ResultIsOfRequest
  BY DEF SmsInv
<1>1. OlderGens'
  BY <1>0 DEF OlderGens
<1>2. RspOnly'
  BY <1>0 DEF RspOnly, OnlyAnswer, Waits, Reading
<1>3. DemoOnly'
  BY <1>0 DEF DemoOnly, OnlyAnswer, Waits
<1>4. ShownByDigits'
  BY <1>0 DEF ShownByDigits, TwoDigits
<1>5. ResultIsOfRequest'
  BY <1>0 DEF ResultIsOfRequest
<1>6. SmsBase'
  OBVIOUS
<1> QED
  BY ONLY <1>1, <1>2, <1>3, <1>4, <1>5, <1>6 DEF SmsInv

LEMMA RequestInv ==
  Prompt /\ SmsInv /\ SmsBase' /\ Request => SmsInv'
<1> SUFFICES ASSUME Prompt, SmsInv, SmsBase', Request PROVE SmsInv'
  OBVIOUS
<1> USE DEF Request, queueVars, taskVars, demoVars
<1>0. /\ SmsBase /\ OlderGens /\ RspOnly /\ DemoOnly
      /\ ShownByDigits /\ ResultIsOfRequest
  BY DEF SmsInv
<1>o. PICK o \in Ops : op' = o /\ Ask("demo", gen, o)
  OBVIOUS
<1>a. /\ Len(pending') \in Nat /\ Len(pending) \in Nat
      /\ \A j \in 1..Len(pending') :
           \/ j \in 1..Len(pending) /\ pending'[j] = pending[j]
           \/ /\ j = Len(pending) + 1
              /\ pending'[j] = [to |-> "demo", gen |-> gen, what |-> o]
  <2> DEFINE r == [to |-> "demo", gen |-> gen, what |-> o]
  <2>1. pending \in Seq(Requests) /\ pending' = Append(pending, r)
    BY <1>0, <1>o DEF SmsBase, SmsTypeOK, Ask
  <2>2. Append(pending, r) \in Seq(Requests)
    BY <2>1 DEF SmsBase, SmsTypeOK
  <2> HIDE DEF r
  <2>3. /\ Len(pending) \in Nat /\ Len(pending') = Len(pending) + 1
        /\ \A j \in 1..Len(pending) : pending'[j] = pending[j]
        /\ pending'[Len(pending) + 1] = r
    BY <2>1, <2>2
  <2> QED
    BY <2>3 DEF r
<1>b. demoQ = <<>> /\ \A j \in 1..Len(pending) : ~ Waits("demo", j)
  BY <1>0 DEF DemoOnly, OnlyAnswer
<1>c. gen \in Nat
  BY <1>0 DEF SmsBase, SmsTypeOK
<1>1. OlderGens'
  BY <1>0, <1>a, <1>c DEF OlderGens
<1>2. RspOnly'
  <2>1. \A j \in 1..Len(pending') : Waits("rsp", j)' =>
          j \in 1..Len(pending) /\ Waits("rsp", j) /\ pending'[j] = pending[j]
    BY <1>a DEF Waits
  <2> QED
    BY <1>0, <2>1 DEF RspOnly, OnlyAnswer, Reading
<1>3. DemoOnly'
  <2>1. \A j \in 1..Len(pending') : Waits("demo", j)' =>
          j = Len(pending) + 1 /\ pending'[j].what = op'
    BY <1>a, <1>b, <1>o DEF Waits
  <2>2. demoQ' = <<>> /\ pcD' = "await"
    BY <1>b
  <2> QED
    BY <2>1, <2>2 DEF DemoOnly, OnlyAnswer
<1>4. ShownByDigits'
  BY <1>0 DEF ShownByDigits, TwoDigits
<1>5. ResultIsOfRequest'
  BY <1>0 DEF ResultIsOfRequest
<1>6. SmsBase'
  OBVIOUS
<1> QED
  BY ONLY <1>1, <1>2, <1>3, <1>4, <1>5, <1>6 DEF SmsInv

LEMMA RequestAnswerInv ==
  Prompt /\ SmsInv /\ SmsBase' /\ RequestAnswer => SmsInv'
<1> SUFFICES ASSUME Prompt, SmsInv, SmsBase', RequestAnswer PROVE SmsInv'
  OBVIOUS
<1> USE DEF RequestAnswer, queueVars, taskVars, demoVars
<1>0. /\ SmsBase /\ OlderGens /\ RspOnly /\ DemoOnly
      /\ ShownByDigits /\ ResultIsOfRequest
  BY DEF SmsInv
<1>a. demoQ = <<demoQ[1]>> /\ demoQ[1] = op
  BY <1>0 DEF DemoOnly, OnlyAnswer, SmsBase, SmsTypeOK
<1>b. demoQ' = <<>> /\ Head(demoQ) = op
  <2>1. demoQ' = Tail(demoQ)
    BY DEF Take
  <2> QED
    BY <1>a, <2>1, OneTaken
<1>c. \A j \in 1..Len(pending) : ~ Waits("demo", j)
  BY <1>0 DEF DemoOnly, OnlyAnswer
<1>1. OlderGens'
  BY <1>0 DEF OlderGens
<1>2. RspOnly'
  BY <1>0 DEF RspOnly, OnlyAnswer, Waits, Reading
<1>3. DemoOnly'
  BY <1>b, <1>c DEF DemoOnly, OnlyAnswer, Waits
<1>4. ShownByDigits'
  BY <1>0 DEF ShownByDigits, TwoDigits
<1>5. ResultIsOfRequest'
  BY <1>b DEF ResultIsOfRequest
<1>6. SmsBase'
  OBVIOUS
<1> QED
  BY ONLY <1>1, <1>2, <1>3, <1>4, <1>5, <1>6 DEF SmsInv

LEMMA RequestTimeoutInv ==
  Prompt /\ SmsInv /\ SmsBase' /\ RequestTimeout => SmsInv'
<1> SUFFICES ASSUME Prompt, SmsInv, SmsBase', RequestTimeout PROVE SmsInv'
  OBVIOUS
<1> USE DEF RequestTimeout, queueVars, taskVars, demoVars
<1>0. /\ SmsBase /\ OlderGens /\ RspOnly /\ DemoOnly
      /\ ShownByDigits /\ ResultIsOfRequest
  BY DEF SmsInv
<1>a. demoQ = <<>> /\ \A j \in 1..Len(pending) : ~ Waits("demo", j)
  BY <1>0 DEF TimesOut, Prompt, DemoOnly, OnlyAnswer, Waits, SmsBase
<1>1. OlderGens'
  BY <1>0 DEF OlderGens
<1>2. RspOnly'
  BY <1>0 DEF RspOnly, OnlyAnswer, Waits, Reading
<1>3. DemoOnly'
  BY <1>a DEF DemoOnly, OnlyAnswer, Waits
<1>4. ShownByDigits'
  BY <1>0 DEF ShownByDigits, TwoDigits
<1>5. ResultIsOfRequest'
  BY <1>0 DEF ResultIsOfRequest
<1>6. SmsBase'
  OBVIOUS
<1> QED
  BY ONLY <1>1, <1>2, <1>3, <1>4, <1>5, <1>6 DEF SmsInv

LEMMA NextInv == Prompt /\ SmsInv /\ [Next]_vars => SmsInv'
<1> SUFFICES ASSUME Prompt, SmsInv, [Next]_vars PROVE SmsInv'
  OBVIOUS
<1>0. SmsBase'
  BY BaseNext DEF SmsInv
<1>1. CASE Next
  BY <1>0, <1>1, AnnounceInv, AnswerRequestInv, LeaveUnansweredInv, ForwardInv,
     TaskReceiveInv, TaskReadInv, TaskEnterInv, TaskAnswerInv, TaskTimeoutInv, InitDemoInv,
     DeInitInv, RequestInv, RequestAnswerInv, RequestTimeoutInv DEF Next, Modem, Task, Demo
<1>2. CASE UNCHANGED vars
  BY <1>0, <1>2 DEF vars, queueVars, taskVars, demoVars, SmsInv, OlderGens, RspOnly,
     DemoOnly, OnlyAnswer, Waits, Reading, ShownByDigits, ResultIsOfRequest
<1> QED
  BY <1>1, <1>2

\* The inductive invariant: one answer at most is on its way to a queue or in it,
\* and its reader waits for it.
THEOREM SmsInvariant ==
  ASSUME Prompt PROVE Spec => []SmsInv
<1>1. Init => SmsInv
  BY InitInv
<1>2. SmsInv /\ [Next]_vars => SmsInv'
  BY NextInv
<1> QED
  BY <1>1, <1>2, PTL DEF Spec

\* The message shown as new is the one the notice announced, when two characters
\* hold its index.
THEOREM SmsShownIsAnnounced ==
  ASSUME Prompt, Indices \subseteq 0..99 PROVE Spec => []ShownIsAnnounced
<1>1. SmsInv => ShownIsAnnounced
  <2> SUFFICES ASSUME SmsInv PROVE ShownIsAnnounced
    OBVIOUS
  <2>1. shown[1] \in 0..99 /\ shown[2] = TwoDigits(shown[1])
    <3>1. ShownByDigits /\ 0 \in 0..99
      BY DEF SmsInv
    <3> QED
      BY ONLY <3>1, Indices \subseteq 0..99 DEF ShownByDigits
  <2> QED
    BY ONLY <2>1, TwoDigitsSame DEF ShownIsAnnounced
<1> QED
  BY <1>1, SmsInvariant, PTL

\* The SMS demo shows the answer to its request, or nothing.
THEOREM SmsResultIsOfRequest ==
  ASSUME Prompt PROVE Spec => []ResultIsOfRequest
<1>1. SmsInv => ResultIsOfRequest
  BY DEF SmsInv
<1> QED
  BY <1>1, SmsInvariant, PTL

\* A task that waits finds no answer of another request in its queue, also when
\* the queues were deleted and created again in between.
THEOREM SmsNoStaleAnswer ==
  ASSUME Prompt PROVE Spec => []NoStaleAnswer
<1>1. SmsInv => NoStaleAnswer
  BY DEF SmsInv, SmsBase, SmsTypeOK, RspOnly, DemoOnly, OnlyAnswer, Reading, NoStaleAnswer
<1> QED
  BY <1>1, SmsInvariant, PTL
=============================================================================
