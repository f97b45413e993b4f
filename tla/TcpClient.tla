----------------------------- MODULE TcpClient -----------------------------
(***************************************************************************)
(* The TCP and UDP demo (src/sc_demo/V1/src/demo_tcpip.c).  One client     *)
(* socket is shared by the UI task (TcpipDemo), which opens, uses and      *)
(* closes it, and by a receive task (tcp_udp_process), which is told of a  *)
(* TCP socket through a queue of one message, watches it and closes it     *)
(* when the connection is gone.  The number of the socket is kept twice:   *)
(* in g_tcp_udp_client_sockfd, under a mutex, and in a local variable of   *)
(* TcpipDemo, which is new in each call of the demo.                       *)
(*                                                                         *)
(* External: lwip's descriptors, which other tasks use as well.  A new     *)
(* socket may get any number that is free; closing, sending on or          *)
(* selecting a number that is not open fails.                              *)
(***************************************************************************)
EXTENDS Integers, Sequences

CONSTANT MaxFd   \* the last descriptor number

ASSUME TcpAssumption == MaxFd \in Nat

VARIABLES
  owner,  \* what each descriptor is: free, a TCP or UDP client, of the server, of others
  g,      \* g_tcp_udp_client_sockfd
  sockfd, \* the local variable of TcpipDemo
  pcU,    \* where the UI task is
  pdp,    \* the context is active
  queue,  \* gClientMsgQueue
  pcR,    \* where the receive task is
  rfd,    \* the descriptor it watches
  hasty   \* history: the user came back to the demo with a client, or opened one
          \* while the receive task still had the last one

uiVars   == <<sockfd, pcU, pdp, hasty>>
taskVars == <<pcR, rfd>>
vars     == <<owner, g, sockfd, pcU, pdp, queue, pcR, rfd, hasty>>

Fds    == 0..MaxFd
Closed == -1
Clients == {f \in Fds : owner[f] \in {"tcp", "udp"}}

Usable(f) == f \in Fds /\ owner[f] # "free"

\* The receive task has nothing to do with any socket.
Idle == queue = <<>> /\ pcR = "wait"

-----------------------------------------------------------------------------
(* Descriptors.                                                            *)

\* socket() returns f.
Allocate(f, who) == owner[f] = "free" /\ owner' = [owner EXCEPT ![f] = who]

Close(f) == owner' = [k \in Fds |-> IF k = f THEN "free" ELSE owner[k]]

\* Other tasks open and close sockets of their own.
Others ==
  /\ \E f \in Fds : \/ Allocate(f, "other")
                    \/ owner[f] = "other" /\ Close(f)
  /\ UNCHANGED <<g, uiVars, queue, taskVars>>

-----------------------------------------------------------------------------
(* Mutants: plausible bugs, which the properties must notice.              *)

\* "socket is busy" is not asked.
MutOpenCheck ==
  /\ pcU = "menu" /\ pcU' \in {"connect", "socket"}
  /\ hasty' = (hasty \/ ~ Idle)
  /\ UNCHANGED <<owner, g, sockfd, pdp, queue, taskVars>>

\* A client that is given up is not closed.
MutRefuse ==
  /\ pcU = "enqueue"
  /\ IF queue = <<>> THEN queue' = <<sockfd>> /\ pcU' = "menu"
     ELSE pcU' = "refused" /\ UNCHANGED queue
  /\ UNCHANGED <<owner, g, sockfd, pdp, taskVars, hasty>>

\* The queue holds two messages.
MutEnqueue ==
  /\ pcU = "enqueue" /\ pcU' = "menu"
  /\ Len(queue) < 2 /\ queue' = Append(queue, sockfd)
  /\ UNCHANGED <<owner, g, sockfd, pdp, taskVars, hasty>>

\* A send error resets the descriptor without closing the socket.
MutTcpSend ==
  /\ pcU = "send" /\ pcU' \in {"menu", "forget"}
  /\ UNCHANGED <<owner, g, sockfd, pdp, queue, taskVars, hasty>>

\* The receive task leaves the shared descriptor to the user.
MutResetShared ==
  /\ pcR = "reset" /\ pcR' = "wait"
  /\ rfd' = Closed
  /\ UNCHANGED <<owner, g, uiVars, queue>>

-----------------------------------------------------------------------------
(* The UI task.  Each option first looks at the shared descriptor.         *)

Goto(next) == pcU = "menu" /\ pcU' = next

\* tcp_demo_task_init makes the queue and the task on the first entry.
Enter ==
  /\ pcU = "out" /\ pcU' = "menu"
  /\ sockfd' = Closed
  /\ hasty' = (hasty \/ g # Closed)
  /\ UNCHANGED <<owner, g, pdp, queue, taskVars>>

Back ==
  /\ Goto("out")
  /\ UNCHANGED <<owner, g, sockfd, pdp, queue, taskVars, hasty>>

Activate ==
  /\ pcU = "menu" /\ pdp' = TRUE
  /\ UNCHANGED <<owner, g, sockfd, pcU, queue, taskVars, hasty>>

\* Options 2 and 5: "socket is busy" unless there is no client.
OpenCheck ==
  /\ g = Closed
  /\ \/ Goto("connect") \/ Goto("socket")
  /\ hasty' = (hasty \/ ~ Idle)
  /\ UNCHANGED <<owner, g, sockfd, pdp, queue, taskVars>>

\* The sockets of addresses that do not answer are closed, and the local
\* variable keeps its value.
Connect ==
  /\ pcU = "connect"
  /\ \/ \E f \in Fds : Allocate(f, "tcp") /\ sockfd' = f /\ pcU' = "publish_tcp"
     \/ pcU' = "menu" /\ UNCHANGED <<owner, sockfd>>
  /\ UNCHANGED <<g, pdp, queue, taskVars, hasty>>

UdpSocket ==
  /\ pcU = "socket"
  /\ \/ \E f \in Fds : Allocate(f, "udp") /\ sockfd' = f /\ pcU' = "publish_udp"
     \/ sockfd' = Closed /\ pcU' = "menu" /\ UNCHANGED owner
  /\ UNCHANGED <<g, pdp, queue, taskVars, hasty>>

Publish ==
  /\ pcU \in {"publish_tcp", "publish_udp"}
  /\ g' = sockfd
  /\ pcU' = IF pcU = "publish_tcp" THEN "enqueue" ELSE "menu"
  /\ UNCHANGED <<owner, sockfd, pdp, queue, taskVars, hasty>>

\* The receive task is told; with a message it has not taken yet the client
\* is given up.
Enqueue ==
  /\ pcU = "enqueue"
  /\ \/ queue = <<>> /\ queue' = <<sockfd>> /\ pcU' = "menu" /\ UNCHANGED owner
     \/ queue # <<>> /\ Close(sockfd) /\ pcU' = "refused" /\ UNCHANGED queue
  /\ UNCHANGED <<g, sockfd, pdp, taskVars, hasty>>

Refused ==
  /\ pcU = "refused"
  /\ g' = Closed /\ sockfd' = Closed
  /\ pcU' = "menu"
  /\ UNCHANGED <<owner, pdp, queue, taskVars, hasty>>

\* Options 3, 4, 6 and 10 go on when there is a client.
UseCheck ==
  /\ g # Closed
  /\ \E next \in {"send", "close", "udpsend", "deinit"} : Goto(next)
  /\ UNCHANGED <<owner, g, sockfd, pdp, queue, taskVars, hasty>>

\* Option 3 sends on the local variable's socket; an error closes it.
TcpSend ==
  /\ pcU = "send"
  /\ \/ Usable(sockfd) /\ pcU' = "menu" /\ UNCHANGED owner
     \/ Close(sockfd) /\ pcU' = "forget"
  /\ UNCHANGED <<g, sockfd, pdp, queue, taskVars, hasty>>

\* Option 4 closes the local variable's socket; the shared descriptor is
\* reset only if that succeeds.
CloseClient ==
  /\ pcU = "close"
  /\ Close(sockfd)
  /\ pcU' = IF Usable(sockfd) THEN "forget" ELSE "menu"
  /\ UNCHANGED <<g, sockfd, pdp, queue, taskVars, hasty>>

\* Option 6 uses the shared descriptor.  A send that would block, or a name
\* that is not resolved, closes it; an error of the socket does not.
UdpSend ==
  /\ pcU = "udpsend"
  /\ \/ g # Closed /\ pcU' = "menu"
     \/ pcU' = "deinit"
  /\ UNCHANGED <<owner, g, sockfd, pdp, queue, taskVars, hasty>>

\* Option 10, and a failed option 6: the shared descriptor is read once more.
CloseShared ==
  /\ pcU = "deinit"
  /\ Close(g)
  /\ pcU' = "forget"
  /\ UNCHANGED <<g, sockfd, pdp, queue, taskVars, hasty>>

Forget ==
  /\ pcU = "forget"
  /\ g' = Closed
  /\ pcU' = "menu"
  /\ UNCHANGED <<owner, sockfd, pdp, queue, taskVars, hasty>>

\* Option 10 without a client.
Deactivate ==
  /\ pcU = "menu" /\ g = Closed
  /\ pdp' = FALSE
  /\ UNCHANGED <<owner, g, sockfd, pcU, queue, taskVars, hasty>>

\* Option 8.  Descriptor 0 is taken for an error, and neither socket is ever
\* closed.
ServerOpen ==
  /\ \E f \in Fds : Allocate(f, "server") /\ Goto(IF f > 0 THEN "accept" ELSE "menu")
  /\ UNCHANGED <<g, sockfd, pdp, queue, taskVars, hasty>>

Accept ==
  /\ pcU = "accept" /\ pcU' = "menu"
  /\ (\E f \in Fds : Allocate(f, "server")) \/ UNCHANGED owner
  /\ UNCHANGED <<g, sockfd, pdp, queue, taskVars, hasty>>

-----------------------------------------------------------------------------
(* The receive task.                                                       *)

Take ==
  /\ pcR = "wait" /\ queue # <<>>
  /\ rfd' = Head(queue) /\ queue' = Tail(queue)
  /\ pcR' = "select"
  /\ UNCHANGED <<owner, g, uiVars>>

\* select or recvfrom fails: the peer is gone, or the number is not open.
Fails ==
  /\ pcR = "select"
  /\ pcR' = "close"
  /\ UNCHANGED <<owner, g, uiVars, queue, rfd>>

CloseWatched ==
  /\ pcR = "close"
  /\ Close(rfd)
  /\ pcR' = "reset"
  /\ UNCHANGED <<g, uiVars, queue, rfd>>

ResetShared ==
  /\ pcR = "reset"
  /\ g' = Closed
  /\ pcR' = "wait" /\ rfd' = Closed
  /\ UNCHANGED <<owner, uiVars, queue>>

-----------------------------------------------------------------------------
Init ==
  /\ owner = [f \in Fds |-> "free"]
  /\ g = Closed /\ sockfd = Closed /\ pcU = "out" /\ pdp = FALSE
  /\ queue = <<>> /\ pcR = "wait" /\ rfd = Closed
  /\ hasty = FALSE

\* What the user chooses at the menu, and what then follows by itself.
Choose == Enter \/ Back \/ Activate \/ OpenCheck \/ UseCheck \/ Deactivate \/ ServerOpen
GoOn   == Connect \/ UdpSocket \/ Publish \/ Enqueue \/ Refused \/ TcpSend \/ CloseClient
            \/ UdpSend \/ CloseShared \/ Forget
Receiver == Take \/ Fails \/ CloseWatched \/ ResetShared

Next == Others \/ Choose \/ GoOn \/ Accept \/ Receiver

Spec == Init /\ [][Next]_vars

\* Both tasks run; a watched number that is not a client any more fails at the
\* latest when select times out and is called again.  Nothing makes a user
\* choose, a peer connect, or a living connection fail.
FairSpec ==
  /\ Spec
  /\ WF_vars(GoOn) /\ WF_vars(Take) /\ WF_vars(CloseWatched) /\ WF_vars(ResetShared)
  /\ WF_vars(~ Usable(rfd) /\ Fails)

-----------------------------------------------------------------------------
(* Properties.                                                             *)

UiPlaces == {"out", "menu", "connect", "publish_tcp", "enqueue", "refused", "send", "close",
             "socket", "publish_udp", "udpsend", "deinit", "forget", "accept"}

\* Every variable has its type; no message but the last is waiting.
TcpTypeOK ==
  /\ owner \in [Fds -> {"free", "tcp", "udp", "server", "other"}]
  /\ g \in Fds \cup {Closed} /\ sockfd \in Fds \cup {Closed}
  /\ pcU \in UiPlaces /\ pdp \in BOOLEAN /\ hasty \in BOOLEAN
  /\ queue = <<>> \/ \E f \in Fds : queue = <<f>>
  /\ pcR \in {"wait", "select", "close", "reset"}
  /\ rfd \in Fds \cup {Closed} /\ (rfd = Closed <=> pcR = "wait")

\* "The demo only supports one tcp or one udp client" (lines 613 and 704).
AtMostOneClient == \A e, f \in Clients : e = f

\* That much holds as long as the user leaves the demo without a client only, and
\* opens one when the receive task is done with the last.
OneClientInTurn == ~ hasty => AtMostOneClient

\* Between two options, with the receive task not in the middle of its own
\* clean-up, the shared descriptor is the client's, and there is a client if
\* and only if it is set: none is forgotten, and none is taken for open that
\* the two tasks have closed between them.
SharedIsClient ==
  ~ hasty /\ pcU \in {"out", "menu"} /\ pcR = "wait" /\ queue = <<>> =>
    Clients = (IF g = Closed THEN {} ELSE {g})

\* Whatever the user does, in turn or not, and though the queue to the receive
\* task may be full: every open TCP client is being handed over, waits in the
\* queue or is watched, so that a connection that is gone is noticed without the
\* user sending, and one that cannot be handed over is not left open (line 629).
TcpIsWatched ==
  \A f \in Clients : owner[f] = "tcp" =>
    \/ pcU \in {"publish_tcp", "enqueue"} /\ f = sockfd
    \/ queue = <<f>>
    \/ pcR \in {"select", "close"} /\ rfd = f

\* While there is a client, the two tasks that share it close no socket but the
\* client's.  (Without one they may: the second of them to close a number, lines
\* 427, 685 and 750, does not know that the first did, and the number may be
\* another task's by then.)
OthersKeepTheirSockets ==
  [][~ hasty /\ Clients # {} =>
       Others \/ \A f \in Fds : owner[f] \in {"other", "server"} => owner'[f] = owner[f]]_vars

\* A descriptor that is set although its socket was closed, by whichever task,
\* is reset in the end: the demo does not stay busy with nothing.
BusyEnds == (~ hasty /\ g # Closed /\ g \notin Clients) ~> (g = Closed \/ hasty)

-----------------------------------------------------------------------------
(* The inductive invariant behind the properties, proved in                *)
(* TcpClientProofs: who may have the client, place by place.               *)

Only(f, kind) == f \in Fds /\ owner[f] = kind /\ Clients = {f}

\* A client between two options, or gone but for the reset of its descriptor.
UdpClient == Only(g, "udp") /\ Idle
TcpWatched == /\ Only(g, "tcp")
              /\ \/ queue = <<g>> /\ pcR = "wait"
                 \/ queue = <<>> /\ pcR \in {"select", "close"} /\ rfd = g
Gone == Clients = {} /\ queue = <<>> /\ pcR = "reset"

Turn ==
  /\ pcU \in {"connect", "socket"} => g = Closed /\ Clients = {} /\ Idle
  /\ pcU = "publish_tcp" => g = Closed /\ Only(sockfd, "tcp") /\ Idle
  /\ pcU = "publish_udp" => g = Closed /\ Only(sockfd, "udp") /\ Idle
  /\ pcU = "enqueue" => g = sockfd /\ Only(sockfd, "tcp") /\ Idle
  /\ pcU # "refused"
  /\ pcU = "forget" => Clients = {}
  /\ pcU \in {"out", "menu", "accept", "send", "close", "udpsend", "deinit"} =>
       IF g = Closed THEN Clients = {}
       ELSE sockfd = g /\ (UdpClient \/ TcpWatched \/ Gone)

TcpInv ==
  /\ TcpTypeOK
  /\ pcU \in {"publish_tcp", "publish_udp", "enqueue"} => sockfd \in Fds
  /\ ~ hasty => Turn
=============================================================================
