-------------------------- MODULE TcpClientProofs --------------------------
(***************************************************************************)
(* The invariants of TcpClient hold for any number of descriptors.         *)
(***************************************************************************)
EXTENDS TcpClient, TLAPS

USE TcpAssumption DEF Fds, Closed, Clients, Idle, Only

LEMMA TcpInitInv == Init => TcpInv
BY DEF Init, TcpInv, TcpTypeOK, UiPlaces, Turn

\* Closing frees one descriptor at most, and makes nobody a client.
LEMMA CloseFacts ==
  ASSUME owner \in [Fds -> {"free", "tcp", "udp", "server", "other"}],
         NEW f, Close(f)
  PROVE  /\ owner' \in [Fds -> {"free", "tcp", "udp", "server", "other"}]
         /\ Clients' = Clients \ {f}
         /\ \A e \in Fds : e # f => owner'[e] = owner[e]
BY DEF Close

\* A descriptor that was free has its new owner, and the others keep theirs.
LEMMA AllocateFacts ==
  ASSUME owner \in [Fds -> {"free", "tcp", "udp", "server", "other"}],
         NEW f \in Fds, NEW who \in {"tcp", "udp", "server", "other"},
         Allocate(f, who)
  PROVE  /\ owner' \in [Fds -> {"free", "tcp", "udp", "server", "other"}]
         /\ owner'[f] = who /\ f \notin Clients
         /\ who \in {"server", "other"} => Clients' = Clients
         /\ who \in {"tcp", "udp"} => Clients' = Clients \cup {f}
         /\ \A e \in Fds : e # f => owner'[e] = owner[e]
BY DEF Allocate

-----------------------------------------------------------------------------
(* Steps that leave the clients alone.                                     *)

\* What others, or the server, do with descriptors of their own.
LEMMA OthersInv ==
  ASSUME TcpInv, Others
  PROVE  TcpInv'
<1>1. /\ owner' \in [Fds -> {"free", "tcp", "udp", "server", "other"}]
      /\ Clients' = Clients
      /\ \A e \in Clients : owner'[e] = owner[e]
  <2>1. CASE \E f \in Fds : Allocate(f, "other")
    BY <2>1, AllocateFacts DEF TcpInv, TcpTypeOK
  <2>2. CASE \E f \in Fds : owner[f] = "other" /\ Close(f)
    BY <2>2, CloseFacts DEF TcpInv, TcpTypeOK
  <2> QED
    BY <2>1, <2>2 DEF Others
<1>2. TcpTypeOK'
  BY <1>1 DEF Others, TcpInv, TcpTypeOK, uiVars, taskVars
<1>3. \A f, kind : Only(f, kind) => Only(f, kind)'
  BY <1>1
<1>4. Turn => Turn'
  BY <1>1, <1>3 DEF Others, Turn, UdpClient, TcpWatched, Gone, uiVars, taskVars
<1> QED
  BY <1>2, <1>4 DEF Others, TcpInv, uiVars

LEMMA ServerInv ==
  ASSUME TcpInv, ServerOpen \/ Accept
  PROVE  TcpInv'
<1>1. /\ owner' \in [Fds -> {"free", "tcp", "udp", "server", "other"}]
      /\ Clients' = Clients
      /\ \A e \in Clients : owner'[e] = owner[e]
  <2>1. CASE \E f \in Fds : Allocate(f, "server")
    BY <2>1, AllocateFacts DEF TcpInv, TcpTypeOK
  <2>2. CASE UNCHANGED owner
    BY <2>2 DEF TcpInv, TcpTypeOK
  <2> QED
    BY <2>1, <2>2 DEF ServerOpen, Accept
<1>2. /\ pcU \in {"menu", "accept"} /\ pcU' \in {"menu", "accept"}
      /\ UNCHANGED <<g, sockfd, pdp, queue, taskVars, hasty>>
  BY DEF ServerOpen, Accept, Goto
<1>3. TcpTypeOK'
  BY <1>1, <1>2 DEF TcpInv, TcpTypeOK, UiPlaces, taskVars
<1>4. \A f, kind : Only(f, kind) => Only(f, kind)'
  BY <1>1
<1>5. Turn => Turn'
  BY <1>1, <1>2, <1>4 DEF Turn, UdpClient, TcpWatched, Gone, taskVars
<1> QED
  BY <1>2, <1>3, <1>5 DEF TcpInv

\* Choices at the menu, and options that find nothing to do.
LEMMA MenuInv ==
  ASSUME TcpInv, Enter \/ Back \/ Activate \/ OpenCheck \/ UseCheck \/ Deactivate
  PROVE  TcpInv'
<1>1. TcpTypeOK'
  BY DEF TcpInv, TcpTypeOK, UiPlaces, Goto, taskVars,
         Enter, Back, Activate, OpenCheck, UseCheck, Deactivate
<1>2. ~ hasty' => Turn'
  BY DEF TcpInv, Turn, UdpClient, TcpWatched, Gone, Goto, taskVars,
         Enter, Back, Activate, OpenCheck, UseCheck, Deactivate
<1> QED
  BY <1>1, <1>2 DEF TcpInv, Goto, Enter, Back, Activate, OpenCheck, UseCheck, Deactivate

-----------------------------------------------------------------------------
(* The UI task opens a client.                                             *)

LEMMA ConnectInv ==
  ASSUME TcpInv, Connect
  PROVE  TcpInv'
<1>1. CASE pcU' = "menu" /\ UNCHANGED <<owner, sockfd>>
  BY <1>1 DEF Connect, TcpInv, TcpTypeOK, UiPlaces, Turn, taskVars
<1>2. ASSUME NEW f \in Fds, Allocate(f, "tcp"), sockfd' = f, pcU' = "publish_tcp"
      PROVE  TcpInv'
  <2>1. TcpTypeOK'
    BY <1>2, AllocateFacts DEF Connect, TcpInv, TcpTypeOK, UiPlaces, taskVars
  <2>2. ~ hasty => Turn'
    BY <1>2, AllocateFacts DEF Connect, TcpInv, TcpTypeOK, Turn, taskVars
  <2> QED
    BY <1>2, <2>1, <2>2 DEF Connect, TcpInv
<1> QED
  BY <1>1, <1>2 DEF Connect

LEMMA UdpSocketInv ==
  ASSUME TcpInv, UdpSocket
  PROVE  TcpInv'
<1>1. CASE sockfd' = Closed /\ pcU' = "menu" /\ UNCHANGED owner
  BY <1>1 DEF UdpSocket, TcpInv, TcpTypeOK, UiPlaces, Turn, taskVars
<1>2. ASSUME NEW f \in Fds, Allocate(f, "udp"), sockfd' = f, pcU' = "publish_udp"
      PROVE  TcpInv'
  <2>1. TcpTypeOK'
    BY <1>2, AllocateFacts DEF UdpSocket, TcpInv, TcpTypeOK, UiPlaces, taskVars
  <2>2. ~ hasty => Turn'
    BY <1>2, AllocateFacts DEF UdpSocket, TcpInv, TcpTypeOK, Turn, taskVars
  <2> QED
    BY <1>2, <2>1, <2>2 DEF UdpSocket, TcpInv
<1> QED
  BY <1>1, <1>2 DEF UdpSocket

LEMMA PublishInv ==
  ASSUME TcpInv, Publish
  PROVE  TcpInv'
<1>1. TcpTypeOK'
  BY DEF Publish, TcpInv, TcpTypeOK, UiPlaces, taskVars
<1>2. ~ hasty => Turn'
  BY DEF Publish, TcpInv, Turn, UdpClient, taskVars
<1> QED
  BY <1>1, <1>2 DEF Publish, TcpInv

LEMMA EnqueueInv ==
  ASSUME TcpInv, Enqueue
  PROVE  TcpInv'
<1>1. TcpTypeOK'
  BY CloseFacts DEF Enqueue, TcpInv, TcpTypeOK, UiPlaces, taskVars
<1>2. ~ hasty => Turn'
  BY DEF Enqueue, TcpInv, Turn, TcpWatched, taskVars
<1> QED
  BY <1>1, <1>2 DEF Enqueue, TcpInv

LEMMA RefusedInv ==
  ASSUME TcpInv, Refused
  PROVE  TcpInv'
BY DEF Refused, TcpInv, TcpTypeOK, UiPlaces, Turn, taskVars

-----------------------------------------------------------------------------
(* The UI task uses the client and closes it.                              *)

\* The client that a send or a close names is the one there is.
LEMMA SendInv ==
  ASSUME TcpInv, TcpSend \/ CloseClient
  PROVE  TcpInv'
<1>1. /\ pcU \in {"send", "close"} /\ pcU' \in {"menu", "forget"}
      /\ UNCHANGED <<g, sockfd, pdp, queue, taskVars, hasty>>
  BY DEF TcpSend, CloseClient
<1>2. CASE UNCHANGED owner /\ pcU' = "menu"
  <2>1. TcpTypeOK'
    BY <1>1, <1>2 DEF TcpInv, TcpTypeOK, UiPlaces, taskVars
  <2>2. ~ hasty => Turn'
    BY <1>1, <1>2 DEF TcpInv, Turn, UdpClient, TcpWatched, Gone, taskVars
  <2> QED
    BY <1>1, <2>1, <2>2 DEF TcpInv
<1>3. CASE Close(sockfd) /\ (pcU' = "menu" => ~ Usable(sockfd))
  <2>1. TcpTypeOK' /\ Clients' = Clients \ {sockfd}
    BY <1>1, <1>3, CloseFacts DEF TcpInv, TcpTypeOK, UiPlaces, taskVars
  <2>2. ~ hasty => Clients' = {}
    BY <1>1, <2>1 DEF TcpInv, Turn, UdpClient, TcpWatched, Gone
  <2>3. ASSUME ~ hasty, pcU' = "menu", g # Closed PROVE Gone'
    BY <1>1, <1>3, <2>2, <2>3 DEF TcpInv, Turn, UdpClient, TcpWatched, Gone, Usable, taskVars
  <2>4. ~ hasty => Turn'
    BY <1>1, <2>2, <2>3 DEF TcpInv, Turn, taskVars
  <2> QED
    BY <1>1, <2>1, <2>4 DEF TcpInv
<1> QED
  BY <1>2, <1>3 DEF TcpSend, CloseClient

LEMMA UdpSendInv ==
  ASSUME TcpInv, UdpSend
  PROVE  TcpInv'
<1>1. TcpTypeOK'
  BY DEF UdpSend, TcpInv, TcpTypeOK, UiPlaces, taskVars
<1>2. ~ hasty => Turn'
  BY DEF UdpSend, TcpInv, Turn, UdpClient, TcpWatched, Gone, taskVars
<1> QED
  BY <1>1, <1>2 DEF UdpSend, TcpInv

LEMMA CloseSharedInv ==
  ASSUME TcpInv, CloseShared
  PROVE  TcpInv'
<1>1. TcpTypeOK' /\ Clients' = Clients \ {g}
  BY CloseFacts DEF CloseShared, TcpInv, TcpTypeOK, UiPlaces, taskVars
<1>2. ~ hasty => Clients' = {}
  BY <1>1 DEF CloseShared, TcpInv, Turn, UdpClient, TcpWatched, Gone
<1> QED
  BY <1>1, <1>2 DEF CloseShared, TcpInv, Turn

LEMMA ForgetInv ==
  ASSUME TcpInv, Forget
  PROVE  TcpInv'
BY DEF Forget, TcpInv, TcpTypeOK, UiPlaces, Turn, taskVars

-----------------------------------------------------------------------------
(* The receive task.                                                       *)

LEMMA TakeInv ==
  ASSUME TcpInv, Take
  PROVE  TcpInv'
<1>1. PICK f \in Fds : queue = <<f>>
  BY DEF Take, TcpInv, TcpTypeOK
<1>2. rfd' = f /\ queue' = <<>>
  BY <1>1 DEF Take
<1>3. TcpTypeOK'
  BY <1>2 DEF Take, TcpInv, TcpTypeOK, uiVars
<1>4. Turn => Turn'
  BY <1>1, <1>2 DEF Take, Turn, UdpClient, TcpWatched, Gone, uiVars
<1> QED
  BY <1>3, <1>4 DEF Take, TcpInv, uiVars

LEMMA FailsInv ==
  ASSUME TcpInv, Fails
  PROVE  TcpInv'
<1>1. TcpTypeOK'
  BY DEF Fails, TcpInv, TcpTypeOK, uiVars
<1>2. Turn => Turn'
  BY DEF Fails, Turn, UdpClient, TcpWatched, Gone, uiVars
<1> QED
  BY <1>1, <1>2 DEF Fails, TcpInv, uiVars

LEMMA CloseWatchedInv ==
  ASSUME TcpInv, CloseWatched
  PROVE  TcpInv'
<1>1. TcpTypeOK' /\ Clients' = Clients \ {rfd}
  BY CloseFacts DEF CloseWatched, TcpInv, TcpTypeOK, uiVars
<1>2. Turn => Turn'
  BY <1>1 DEF CloseWatched, Turn, UdpClient, TcpWatched, Gone, uiVars
<1> QED
  BY <1>1, <1>2 DEF CloseWatched, TcpInv, uiVars

LEMMA ResetSharedInv ==
  ASSUME TcpInv, ResetShared
  PROVE  TcpInv'
<1>1. TcpTypeOK'
  BY DEF ResetShared, TcpInv, TcpTypeOK, uiVars
<1>2. Turn => Turn'
  BY DEF ResetShared, Turn, UdpClient, TcpWatched, Gone, uiVars
<1> QED
  BY <1>1, <1>2 DEF ResetShared, TcpInv, uiVars

-----------------------------------------------------------------------------
LEMMA TcpNextInv == TcpInv /\ [Next]_vars => TcpInv'
<1> SUFFICES ASSUME TcpInv, [Next]_vars PROVE TcpInv'
  OBVIOUS
<1>1. CASE Others
  BY <1>1, OthersInv
<1>2. CASE Choose \/ Accept
  BY <1>2, MenuInv, ServerInv DEF Choose
<1>3. CASE GoOn
  BY <1>3, ConnectInv, UdpSocketInv, PublishInv, EnqueueInv, RefusedInv, SendInv, UdpSendInv,
     CloseSharedInv, ForgetInv DEF GoOn
<1>4. CASE Receiver
  BY <1>4, TakeInv, FailsInv, CloseWatchedInv, ResetSharedInv DEF Receiver
<1>5. CASE UNCHANGED vars
  BY <1>5 DEF vars, taskVars, TcpInv, TcpTypeOK, Turn, UdpClient, TcpWatched, Gone
<1> QED
  BY <1>1, <1>2, <1>3, <1>4, <1>5 DEF Next

\* With a client, the numbers that the two tasks close are the client's.
LEMMA ClosesClient ==
  ASSUME TcpInv, ~ hasty, Clients # {}
  PROVE  /\ pcU \in {"enqueue", "send", "close"} => sockfd \in Clients
         /\ pcU = "deinit" => g \in Clients
         /\ pcR = "close" => rfd \in Clients
BY DEF TcpInv, TcpTypeOK, UiPlaces, Turn, UdpClient, TcpWatched, Gone

LEMMA OthersKeepStep ==
  ASSUME TcpInv, [Next]_vars, ~ hasty, Clients # {}, ~ Others,
         NEW f \in Fds, owner[f] \in {"other", "server"}
  PROVE  owner'[f] = owner[f]
<1>1. f \notin Clients /\ owner[f] # "free"
  OBVIOUS
<1>2. owner \in [Fds -> {"free", "tcp", "udp", "server", "other"}]
  BY DEF TcpInv, TcpTypeOK
<1>3. ASSUME NEW e, Close(e), e \in Clients PROVE owner'[f] = owner[f]
  BY <1>1, <1>2, <1>3, CloseFacts
<1>4. ASSUME NEW e \in Fds, NEW who \in {"tcp", "udp", "server", "other"}, Allocate(e, who)
      PROVE  owner'[f] = owner[f]
  BY <1>1, <1>2, <1>4 DEF Allocate
<1>5. CASE UNCHANGED owner
  BY <1>5
<1>6. CASE Enqueue \/ TcpSend \/ CloseClient
  BY <1>3, <1>5, <1>6, ClosesClient DEF Enqueue, TcpSend, CloseClient
<1>7. CASE CloseShared
  BY <1>3, <1>7, ClosesClient DEF CloseShared
<1>8. CASE CloseWatched
  BY <1>3, <1>8, ClosesClient DEF CloseWatched
<1>9. CASE Connect \/ UdpSocket \/ ServerOpen \/ Accept
  BY <1>4, <1>5, <1>9 DEF Connect, UdpSocket, ServerOpen, Accept
<1>10. CASE Publish \/ Refused \/ UdpSend \/ Forget \/ Take \/ Fails \/ ResetShared
  BY <1>5, <1>10 DEF Publish, Refused, UdpSend, Forget, Take, Fails, ResetShared
<1>11. CASE Enter \/ Back \/ Activate \/ OpenCheck \/ UseCheck \/ Deactivate
  BY <1>5, <1>11 DEF Enter, Back, Activate, OpenCheck, UseCheck, Deactivate
<1>12. CASE UNCHANGED vars
  BY <1>5, <1>12 DEF vars
<1> QED
  BY <1>6, <1>7, <1>8, <1>9, <1>10, <1>11, <1>12 DEF Next, Choose, GoOn, Receiver

\* Every TCP client stays with the receive task, or on its way there.
LEMMA WatchedNext == TcpInv /\ TcpIsWatched /\ [Next]_vars => TcpIsWatched'
<1> SUFFICES ASSUME TcpInv, TcpIsWatched, [Next]_vars, NEW f \in Fds, owner'[f] = "tcp"
             PROVE  \/ pcU' \in {"publish_tcp", "enqueue"} /\ f = sockfd'
                    \/ queue' = <<f>>
                    \/ pcR' \in {"select", "close"} /\ rfd' = f
  BY DEF TcpIsWatched
<1> DEFINE Watched == \/ pcU \in {"publish_tcp", "enqueue"} /\ f = sockfd
                      \/ queue = <<f>>
                      \/ pcR \in {"select", "close"} /\ rfd = f
<1>1. /\ owner \in [Fds -> {"free", "tcp", "udp", "server", "other"}]
      /\ queue = <<>> \/ \E e \in Fds : queue = <<e>>
  BY DEF TcpInv, TcpTypeOK
<1>2. owner[f] = "tcp" => Watched
  BY DEF TcpIsWatched
<1>3. ASSUME NEW e, Close(e) PROVE e # f /\ owner[f] = "tcp"
  BY <1>1, <1>3 DEF Close
<1>4. ASSUME NEW e \in Fds, NEW who \in {"udp", "server", "other"}, Allocate(e, who)
      PROVE  owner[f] = "tcp"
  BY <1>1, <1>4, AllocateFacts
<1>5. UNCHANGED owner => owner[f] = "tcp"
  OBVIOUS
<1> HIDE DEF Watched
<1>6. CASE Others
  BY <1>2, <1>3, <1>4, <1>6 DEF Others, Watched, uiVars, taskVars
<1>7. CASE ServerOpen \/ Accept
  BY <1>2, <1>4, <1>5, <1>7 DEF ServerOpen, Accept, Goto, Watched, taskVars
<1>8. CASE Enter \/ Back \/ Activate \/ OpenCheck \/ UseCheck \/ Deactivate
  BY <1>2, <1>5, <1>8
     DEF Enter, Back, Activate, OpenCheck, UseCheck, Deactivate, Goto, Watched, taskVars
<1>9. CASE Connect
  <2>1. CASE UNCHANGED <<owner, sockfd>>
    BY <1>2, <1>5, <1>9, <2>1 DEF Connect, Watched, taskVars
  <2>2. ASSUME NEW e \in Fds, Allocate(e, "tcp"), sockfd' = e, pcU' = "publish_tcp"
        PROVE  owner[f] = "tcp" \/ f = sockfd'
    BY <1>1, <2>2, AllocateFacts
  <2> QED
    BY <1>2, <1>9, <2>1, <2>2 DEF Connect, Watched, taskVars
<1>10. CASE UdpSocket
  BY <1>2, <1>4, <1>5, <1>10 DEF UdpSocket, Watched, taskVars
<1>11. CASE Publish
  BY <1>2, <1>5, <1>11 DEF Publish, Watched, taskVars
<1>12. CASE Enqueue
  BY <1>1, <1>2, <1>3, <1>5, <1>12 DEF Enqueue, Watched, taskVars
<1>13. CASE TcpSend \/ CloseClient \/ CloseShared
  BY <1>2, <1>3, <1>5, <1>13 DEF TcpSend, CloseClient, CloseShared, Watched, taskVars
<1>14. CASE Refused \/ UdpSend \/ Forget
  BY <1>2, <1>5, <1>14 DEF Refused, UdpSend, Forget, Watched, taskVars
<1>15. CASE Take
  <2>1. owner[f] = "tcp" /\ Watched /\ pcU' = pcU /\ sockfd' = sockfd
    BY <1>2, <1>5, <1>15 DEF Take, uiVars
  <2>2. pcR = "wait" /\ pcR' = "select" /\ (queue = <<f>> => rfd' = f)
    BY <1>15 DEF Take
  <2> QED
    BY <2>1, <2>2 DEF Watched
<1>16. CASE Fails \/ CloseWatched \/ ResetShared
  BY <1>2, <1>3, <1>5, <1>16 DEF Fails, CloseWatched, ResetShared, Watched, uiVars
<1>17. CASE UNCHANGED vars
  BY <1>2, <1>5, <1>17 DEF vars, Watched, taskVars
<1> QED
  BY <1>6, <1>7, <1>8, <1>9, <1>10, <1>11, <1>12, <1>13, <1>14, <1>15, <1>16, <1>17
     DEF Next, Choose, GoOn, Receiver

\* In every reachable state the client, if there is one, has exactly the owners
\* that Turn names for the place the UI task has reached.
THEOREM TcpInvariant == Spec => []TcpInv
<1> QED
  BY TcpInitInv, TcpNextInv, PTL DEF Spec

\* Type correctness, and a queue of one message (demo_tcpip.c line 484).
THEOREM TcpTypeCorrect == Spec => []TcpTypeOK
<1>1. TcpInv => TcpTypeOK
  BY DEF TcpInv
<1> QED
  BY <1>1, TcpInvariant, PTL

\* One client at most, with any number of descriptors, for a user who takes
\* things in turn (the comment of demo_tcpip.c line 613).
THEOREM TcpOneClientInTurn == Spec => []OneClientInTurn
<1>1. TcpInv => OneClientInTurn
  BY DEF TcpInv, TcpTypeOK, UiPlaces, Turn, UdpClient, TcpWatched, Gone,
         OneClientInTurn, AtMostOneClient
<1> QED
  BY <1>1, TcpInvariant, PTL

\* The shared descriptor names the client, and no closed socket, whichever task
\* closed it (demo_tcpip.c lines 427, 685, 750).
THEOREM TcpSharedIsClient == Spec => []SharedIsClient
<1>1. TcpInv => SharedIsClient
  BY DEF TcpInv, Turn, UdpClient, TcpWatched, Gone, SharedIsClient
<1> QED
  BY <1>1, TcpInvariant, PTL

\* No TCP client is left without the receive task, whatever the user does: one
\* that its queue has no room for is closed (demo_tcpip.c lines 484 and 629).
THEOREM TcpClientIsWatched == Spec => []TcpIsWatched
<1>1. Init => TcpIsWatched
  BY DEF Init, TcpIsWatched
<1> QED
  BY <1>1, WatchedNext, TcpInvariant, PTL DEF Spec

\* As long as there is a client, nobody else's socket is closed by the demo, in
\* whatever order the user, the receive task and the other tasks act
\* (demo_tcpip.c line 427).
THEOREM TcpOthersKeepTheirSockets == Spec => OthersKeepTheirSockets
<1>1. TcpInv /\ [Next]_vars =>
        [~ hasty /\ Clients # {} =>
           Others \/ \A f \in Fds : owner[f] \in {"other", "server"} => owner'[f] = owner[f]]_vars
  BY OthersKeepStep
<1> QED
  BY <1>1, TcpInvariant, PTL DEF Spec, OthersKeepTheirSockets
=============================================================================
