----------------------------- MODULE SmsNotify -----------------------------
(***************************************************************************)
(* How an incoming short message reaches the user: the modem puts a URC    *)
(* into gUrcMsgQueue, sTask_UrcProcesser (cus_urc.c) forwards it to        *)
(* g_sms_demo_urc_process_msgQ, and sTask_SmsUrcProcessor (demo_sms.c)     *)
(* asks the modem for the message and waits for the answer with a timeout. *)
(* The SMS demo in the UI task creates and deletes the queues              *)
(* (SmsDemoInit) and makes requests of its own the same way.               *)
(*                                                                         *)
(* External, modelled from their use and from simcom_os.h: the modem and   *)
(* the message queues.  A send never blocks; a send to or a receive from a *)
(* deleted queue returns an error.                                         *)
(***************************************************************************)
EXTENDS Integers, Sequences, SequencesExt

CONSTANTS Indices,      \* the storage indices the modem announces
          Ops,          \* the requests of the SMS demo (write, read, send, ...)
          UrcCap,       \* the 20 of gUrcMsgQueue
          ProcCap,      \* the 4 of g_sms_demo_urc_process_msgQ
          AnswerCap,    \* the 4 of g_sms_demo_urc_rsp_msgQ and of g_sms_demo_msgQ
          MaxGen,       \* bound: how often the demo is initialised
          MaxPending,   \* bound: the requests the modem has not answered
          LateAnswers   \* an answer may come after its timeout

ASSUME SmsAssumption ==
  /\ Indices \subseteq Nat
  /\ UrcCap \in Nat \ {0} /\ ProcCap \in Nat \ {0} /\ AnswerCap \in Nat \ {0}
  /\ MaxGen \in Nat \ {0}
  /\ MaxPending \in Nat \ {0}
  /\ LateAnswers \in BOOLEAN

VARIABLES
  urcQ,      \* gUrcMsgQueue
  procQ,     \* g_sms_demo_urc_process_msgQ
  procUp,    \* it was created, and the task that reads it
  gen,       \* which creation of the other two queues their handles name
  inited,    \* gSmsDemohasinited: these queues exist
  rspQ,      \* g_sms_demo_urc_rsp_msgQ
  demoQ,     \* g_sms_demo_msgQ
  pending,   \* requests the modem has not answered
  pcT, cur,  \* sTask_SmsUrcProcessor and the notice it handles
  waitT,     \* the generation of the queue it waits on
  pcD, op,   \* the UI task in SMSDemo and its request
  shown,     \* history: the notice last handled and the message shown for it, or <<0, 0>>
  result     \* history: the last request and the answer shown for it

queueVars == <<urcQ, procQ, procUp, gen, inited, rspQ, demoQ>>
taskVars  == <<pcT, cur, waitT>>
demoVars  == <<pcD, op>>
vars == <<queueVars, pending, taskVars, demoVars, shown, result>>

Nothing == "nothing"
Notice  == [kind : {"new"}, index : Indices] \cup [kind : {"flash"}, index : {0}]
NoNotice == [kind |-> "none", index |-> 0]

-----------------------------------------------------------------------------
(* Mutants: plausible bugs, which the properties must notice.              *)

\* The answer is looked at, not taken out of its queue.
MutTake(q) == q

\* The wait for the answer has no timeout.
MutTimesOut(w, q, who) == ~ inited \/ w # gen

\* The timeout is shorter than the modem needs.
MutTimesOutEarly(w, q, who) == ~ inited \/ w # gen \/ q = <<>>

\* The status of the send to the notice queue is not needed: it always fits.
MutForward ==
  /\ urcQ # <<>>
  /\ urcQ' = Tail(urcQ)
  /\ procQ' = Append(procQ, Head(urcQ))
  /\ UNCHANGED <<procUp, gen, inited, rspQ, demoQ, pending, taskVars, demoVars,
                 shown, result>>

\* The notice queue takes one less than it was created for.
MutForwardShort ==
  /\ urcQ # <<>>
  /\ urcQ' = Tail(urcQ)
  /\ procQ' = IF procUp /\ Len(procQ) < ProcCap - 1
              THEN Append(procQ, Head(urcQ)) ELSE procQ
  /\ UNCHANGED <<procUp, gen, inited, rspQ, demoQ, pending, taskVars, demoVars,
                 shown, result>>

-----------------------------------------------------------------------------
(* The modem.                                                              *)

\* A request for what, to be answered to a queue of generation g.
Ask(to, g, what) ==
  /\ Len(pending) < MaxPending
  /\ pending' = Append(pending, [to |-> to, gen |-> g, what |-> what])

Announce ==
  /\ Len(urcQ) < UrcCap
  /\ \E n \in Notice : urcQ' = Append(urcQ, n)
  /\ UNCHANGED <<procQ, procUp, gen, inited, rspQ, demoQ, pending, taskVars,
                 demoVars, shown, result>>

\* Requests are answered in any order, each to the queue it named, if that
\* still exists and has room.
AnswerRequest(to) ==
  \E i \in 1..Len(pending) :
    LET r == pending[i]
        arrives(q, has) == r.to = q /\ inited /\ r.gen = gen /\ Len(has) < AnswerCap
    IN  /\ r.to = to
        /\ pending' = RemoveAt(pending, i)
        /\ rspQ' = IF arrives("rsp", rspQ) THEN Append(rspQ, r.what) ELSE rspQ
        /\ demoQ' = IF arrives("demo", demoQ) THEN Append(demoQ, r.what) ELSE demoQ
        /\ UNCHANGED <<urcQ, procQ, procUp, gen, inited, taskVars, demoVars, shown, result>>

\* A request that is never answered.
LeaveUnanswered(to) ==
  \E i \in 1..Len(pending) :
    /\ pending[i].to = to
    /\ pending' = RemoveAt(pending, i)
    /\ UNCHANGED <<queueVars, taskVars, demoVars, shown, result>>

-----------------------------------------------------------------------------
(* sTask_UrcProcesser.                                                     *)

\* The index is read from two characters of the notice.
TwoDigits(i) == IF i < 100 THEN i ELSE i \div 10

\* A notice is forwarded, unless nobody has created the queue or it is full.
Forward ==
  /\ urcQ # <<>>
  /\ urcQ' = Tail(urcQ)
  /\ procQ' = IF procUp /\ Len(procQ) < ProcCap
              THEN Append(procQ, Head(urcQ)) ELSE procQ
  /\ UNCHANGED <<procUp, gen, inited, rspQ, demoQ, pending, taskVars, demoVars,
                 shown, result>>

-----------------------------------------------------------------------------
(* sTask_SmsUrcProcessor.                                                  *)

\* What is left of an answer queue when its head was received.
Take(q) == Tail(q)

\* Whether a wait for an answer in queue q of generation w may end without
\* one: the queue was deleted, or the answer is late.
TimesOut(w, q, who) ==
  \/ ~ inited \/ w # gen
  \/ q = <<>> /\ (LateAnswers \/ \A i \in 1..Len(pending) :
                                ~ (pending[i].to = who /\ pending[i].gen = w))

\* A flash message carries its text and is shown at once.
TaskReceive ==
  /\ pcT = "recv" /\ procQ # <<>>
  /\ procQ' = Tail(procQ)
  /\ IF Head(procQ).kind = "flash"
     THEN shown' = <<Head(procQ).index, Head(procQ).index>> /\ UNCHANGED <<pcT, cur>>
     ELSE pcT' = "read" /\ cur' = Head(procQ) /\ shown' = <<0, 0>>
  /\ UNCHANGED <<urcQ, procUp, gen, inited, rspQ, demoQ, pending, waitT, demoVars,
                 result>>

\* sAPI_SmsReadMsg: the request is accepted or refused.  The handle may name
\* a queue that is gone (generation 0).
TaskRead ==
  /\ pcT = "read"
  /\ \/ /\ Ask("rsp", IF inited THEN gen ELSE 0, TwoDigits(cur.index))
        /\ pcT' = "enter"
     \/ pcT' = "recv" /\ UNCHANGED pending
  /\ UNCHANGED <<queueVars, cur, waitT, demoVars, shown, result>>

\* The wait reads the queue's handle anew.
TaskEnter ==
  /\ pcT = "enter"
  /\ waitT' = gen
  /\ pcT' = "await"
  /\ UNCHANGED <<queueVars, pending, cur, demoVars, shown, result>>

TaskAnswer ==
  /\ pcT = "await" /\ inited /\ waitT = gen /\ rspQ # <<>>
  /\ rspQ' = Take(rspQ)
  /\ shown' = <<cur.index, Head(rspQ)>>
  /\ pcT' = "recv" /\ cur' = NoNotice
  /\ UNCHANGED <<urcQ, procQ, procUp, gen, inited, demoQ, pending, waitT, demoVars,
                 result>>

\* Nothing is shown when no answer comes in time.
TaskTimeout ==
  /\ pcT = "await" /\ TimesOut(waitT, rspQ, "rsp")
  /\ pcT' = "recv" /\ cur' = NoNotice
  /\ UNCHANGED <<queueVars, pending, waitT, demoVars, shown, result>>

-----------------------------------------------------------------------------
(* The UI task: SMSDemo and SmsDemoInit.                                   *)

\* The first call creates the notice queue and its task as well.
InitDemo ==
  /\ pcD = "idle" /\ ~ inited /\ gen < MaxGen
  /\ inited' = TRUE /\ gen' = gen + 1
  /\ procUp' = TRUE
  /\ UNCHANGED <<urcQ, procQ, rspQ, demoQ, pending, taskVars, demoVars, shown, result>>

\* Two of the three queues are deleted; their handles stay.
DeInit ==
  /\ pcD = "idle" /\ inited
  /\ inited' = FALSE
  /\ rspQ' = <<>> /\ demoQ' = <<>>
  /\ UNCHANGED <<urcQ, procQ, procUp, gen, pending, taskVars, demoVars, shown, result>>

Request ==
  /\ pcD = "idle" /\ inited
  /\ \E o \in Ops :
       /\ op' = o
       /\ Ask("demo", gen, o)
  /\ pcD' = "await" /\ result' = <<Nothing, Nothing>>
  /\ UNCHANGED <<queueVars, taskVars, shown>>

RequestAnswer ==
  /\ pcD = "await" /\ demoQ # <<>>
  /\ demoQ' = Take(demoQ)
  /\ result' = <<op, Head(demoQ)>>
  /\ pcD' = "idle" /\ op' = Nothing
  /\ UNCHANGED <<urcQ, procQ, procUp, gen, inited, rspQ, pending, taskVars, shown>>

\* The status of the receive is not looked at: an empty answer is shown.
RequestTimeout ==
  /\ pcD = "await" /\ TimesOut(gen, demoQ, "demo")
  /\ result' = <<op, Nothing>>
  /\ pcD' = "idle" /\ op' = Nothing
  /\ UNCHANGED <<queueVars, pending, taskVars, shown>>

-----------------------------------------------------------------------------
Init ==
  /\ urcQ = <<>> /\ procQ = <<>> /\ procUp = FALSE
  /\ gen = 0 /\ inited = FALSE /\ rspQ = <<>> /\ demoQ = <<>>
  /\ pending = <<>>
  /\ pcT = "recv" /\ cur = NoNotice /\ waitT = 0
  /\ pcD = "idle" /\ op = Nothing
  /\ shown = <<0, 0>> /\ result = <<Nothing, Nothing>>

Task == TaskReceive \/ TaskRead \/ TaskEnter \/ TaskAnswer \/ TaskTimeout
Demo == InitDemo \/ DeInit \/ Request \/ RequestAnswer \/ RequestTimeout

Receivers == {"rsp", "demo"}
Modem(to) == AnswerRequest(to) \/ LeaveUnanswered(to)

Next == Announce \/ (\E to \in Receivers : Modem(to)) \/ Forward \/ Task \/ Demo

Spec == Init /\ [][Next]_vars

\* The tasks are scheduled, a timed wait ends, and with time a request is
\* answered or will never be.
FairSpec == Spec /\ WF_vars(Forward) /\ WF_vars(Task)
                 /\ WF_vars(RequestAnswer \/ RequestTimeout)
                 /\ \A to \in Receivers : WF_vars(Modem(to))

-----------------------------------------------------------------------------
(* Properties.                                                             *)

Index == {TwoDigits(i) : i \in Indices}
Requests == [to : {"rsp"}, gen : 0..MaxGen, what : Index]
              \cup [to : {"demo"}, gen : 0..MaxGen, what : Ops]

\* Every variable has its type, and no queue outgrows its creation.
SmsTypeOK ==
  /\ urcQ \in Seq(Notice) /\ Len(urcQ) <= UrcCap
  /\ procQ \in Seq(Notice) /\ Len(procQ) <= ProcCap
  /\ procUp \in BOOLEAN /\ inited \in BOOLEAN
  /\ gen \in 0..MaxGen /\ waitT \in 0..MaxGen
  /\ rspQ \in Seq(Index) /\ Len(rspQ) <= AnswerCap
  /\ demoQ \in Seq(Ops) /\ Len(demoQ) <= AnswerCap
  /\ pending \in Seq(Requests)
  /\ pcT \in {"recv", "read", "enter", "await"} /\ cur \in Notice \cup {NoNotice}
  /\ pcD \in {"idle", "await"} /\ op \in Ops \cup {Nothing}

\* The message shown as new is the one the notice announced ("send msg to
\* process task and read this msg", cus_urc.c line 176).
ShownIsAnnounced == shown[1] = shown[2]

\* What the SMS demo shows as the answer to a request is the answer to that
\* request, or nothing.
ResultIsOfRequest == result[2] \in {result[1], Nothing}

\* A task that waits for an answer finds no answer of another request in its
\* queue: what was asked before a timeout, or before the queues were deleted
\* and created again, has been taken or has gone with its queue.
NoStaleAnswer ==
  /\ pcT = "await" /\ waitT = gen /\ inited =>
       \A i \in 1..Len(rspQ) : rspQ[i] = TwoDigits(cur.index)
  /\ pcD = "await" => \A i \in 1..Len(demoQ) : demoQ[i] = op

\* The modem answers in time or never.
Prompt == ~ LateAnswers

\* The notices under way: the one being handled, and those in the two queues.
UnderWay == (IF pcT = "recv" THEN <<>> ELSE <<cur>>) \o procQ \o urcQ

Board == INSTANCE NoticeBoard WITH
           Notices <- Notice, Messages <- Index,
           Room <- ProcCap, Exact <- Prompt /\ Indices \subseteq 0..99,
           waiting <- UnderWay, open <- procUp

\* Through two queues and two tasks, with refused and unanswered requests and
\* queues deleted meanwhile, no notice overtakes another, comes twice or is
\* shown with the message of another, unless an answer was late; and once the
\* demo was initialised one is lost only when its message cannot be read or
\* when g_sms_demo_urc_process_msgQ is full of older ones.
BoardSpec == Board!Spec

\* Neither task is stuck in its wait, whether the modem answers or not.
WaitsEnd == /\ (pcT = "await") ~> (pcT = "recv")
            /\ (pcD = "await") ~> (pcD = "idle")

-----------------------------------------------------------------------------
(* The inductive invariants, proved in SmsNotifyProofs.                    *)

\* Whatever the modem does: the task asks about a notice of a new message,
\* queues that were deleted are empty, and no notice has come through before
\* the first initialisation.
SmsBase ==
  /\ SmsTypeOK
  /\ pcT # "recv" => cur \in [kind : {"new"}, index : Indices]
  /\ pcD = "await" => inited /\ op \in Ops
  /\ ~ inited => rspQ = <<>> /\ demoQ = <<>>
  /\ ~ procUp => procQ = <<>> /\ pcT = "recv"

\* The request at place i still waits for an answer to an existing queue.
Waits(to, i) == inited /\ pending[i].to = to /\ pending[i].gen = gen

\* With answers that are not late: one answer is on its way to a queue or in it,
\* at most, and it is the one its reader waits for.
OnlyAnswer(to, q, reading, what) ==
  /\ \A i \in 1..Len(pending) :
       Waits(to, i) => reading /\ q = <<>> /\ pending[i].what = what
  /\ \A i, j \in 1..Len(pending) : Waits(to, i) /\ Waits(to, j) => i = j
  /\ q # <<>> => reading /\ Len(q) = 1 /\ q[1] = what

Reading   == pcT = "enter" \/ (pcT = "await" /\ waitT = gen)
RspOnly   == OnlyAnswer("rsp", rspQ, Reading, TwoDigits(cur.index))
DemoOnly  == OnlyAnswer("demo", demoQ, pcD = "await", op)
OlderGens == \A i \in 1..Len(pending) : pending[i].gen <= gen

\* The message shown is the one that the two characters name.
ShownByDigits == shown[1] \in Indices \cup {0} /\ shown[2] = TwoDigits(shown[1])

SmsInv == /\ SmsBase /\ OlderGens /\ RspOnly /\ DemoOnly
          /\ ShownByDigits /\ ResultIsOfRequest
=============================================================================
