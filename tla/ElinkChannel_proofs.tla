----------------------- MODULE ElinkChannel_proofs -----------------------
(***************************************************************************)
(* Proofs about module ElinkChannel.  Watched and LoginIsNamed are         *)
(* inductive by themselves.  Admitted needs to know that a gateway that    *)
(* takes itself for connected has a connection, and the one the client is  *)
(* waiting on, unless the send thread is at work (Held), and that it has   *)
(* no login connection left to close (LoginClosed).                        *)
(***************************************************************************)
EXTENDS ElinkChannel, TLAPS

LEMMA ModRange ==
    ASSUME NEW a \in Nat, NEW b \in Nat \ {0}
    PROVE  a % b \in 0 .. b - 1
  OBVIOUS

LEMMA Numbers ==
    /\ 0 \in 0 .. LoginTries + 1 /\ 0 \in 0 .. HeartBeat - 1 /\ 0 \in Nat
    /\ HeartTime \in 0 .. Wrapped /\ 0 \in 0 .. Wrapped
  BY ElinkAssumption DEF ElinkAssumption, Wrapped

LEMMA ClosedWorld ==
    ASSUME WorldOK, NEW fd, Closed(fd)
    PROVE  WorldOK'
  BY DEF WorldOK, Closed, Peers

LEMMA PushQueue ==
    ASSUME queue \in Seq(Frames), NEW fd \in Fds \cup {NoFd}, NEW kind \in Kinds,
           Push(Frame(fd, kind))
    PROVE  queue' \in Seq(Frames)
  BY DEF Push, Frame, Frames

LEMMA InitType == Init => TypeOK
<1> SUFFICES ASSUME Init PROVE TypeOK
  OBVIOUS
<1>1. ClientOK
  <2>1. tcpHost \in BOOLEAN
    BY DEF Init
  <2> QED
    BY <2>1, Numbers DEF Init, ClientOK
<1>2. QueueOK
  BY DEF Init, QueueOK, Idle
<1>3. WorldOK
  BY DEF Init, WorldOK, Peers
<1> QED
  BY <1>1, <1>2, <1>3 DEF TypeOK

LEMMA StepType == TypeOK /\ [Next]_vars => TypeOK'
<1> SUFFICES ASSUME ClientOK, QueueOK, WorldOK, [Next]_vars PROVE TypeOK'
  BY DEF TypeOK
<1> USE ElinkAssumption DEF ElinkAssumption
<1>1. CASE Watch
  <2>1. ClientOK'
    BY <1>1
    DEF ClientOK, Watch, Wrapped, login, link, heart, others, world
  <2>2. QueueOK'
    BY <1>1
    DEF QueueOK, Watch, login, link, heart, others, world
  <2>3. WorldOK'
    BY <1>1 DEF WorldOK, Watch, login, link, heart, others, world
  <2> QED
    BY <2>1, <2>2, <2>3 DEF TypeOK
<1>2. CASE LoggedIn
  <2>1. ClientOK'
    BY <1>2 DEF ClientOK, LoggedIn, login, link, heart, others, world
  <2>2. QueueOK'
    BY <1>2 DEF QueueOK, LoggedIn, login, link, heart, others, world
  <2>3. WorldOK'
    BY <1>2 DEF WorldOK, LoggedIn, login, link, heart, others, world
  <2> QED
    BY <2>1, <2>2, <2>3 DEF TypeOK
<1>3. CASE LoginConnect
  <2>1. ClientOK'
    BY <1>3
    DEF ClientOK, LoginConnect, Connected, ConnectFails, Free, login, link,
        heart, others, world
  <2>2. QueueOK'
    BY <1>3
    DEF QueueOK, LoginConnect, Connected, ConnectFails, Free, login, link,
        heart, others, world
  <2>3. WorldOK'
    BY <1>3
    DEF WorldOK, LoginConnect, Connected, ConnectFails, Free, Peers, login,
        link, heart, others, world
  <2> QED
    BY <2>1, <2>2, <2>3 DEF TypeOK
<1>4. CASE LoginAsk
  <2>1. ClientOK'
    BY <1>4 DEF ClientOK, LoginAsk, LoginExit, login, link, heart, others, world
  <2>2. QueueOK'
    BY <1>4, ClientOK, PushQueue
    DEF QueueOK, LoginAsk, LoginExit, ClientOK, Kinds, login, link, heart,
        others, world
  <2>3. WorldOK'
    BY <1>4, ClosedWorld
    DEF WorldOK, LoginAsk, LoginExit, login, link, heart, others, world
  <2> QED
    BY <2>1, <2>2, <2>3 DEF TypeOK
<1>5. CASE LoginNoAnswer
  <2>1. ClientOK'
    BY <1>5
    DEF ClientOK, LoginNoAnswer, LoginExit, login, link, heart, others, world
  <2>2. QueueOK'
    BY <1>5
    DEF QueueOK, LoginNoAnswer, LoginExit, login, link, heart, others, world
  <2>3. WorldOK'
    BY <1>5, ClosedWorld
    DEF WorldOK, LoginNoAnswer, LoginExit, login, link, heart, others, world
  <2> QED
    BY <2>1, <2>2, <2>3 DEF TypeOK
<1>6. CASE LoginSucceeds
  <2>1. ClientOK'
    BY <1>6 DEF ClientOK, LoginSucceeds, login, link, heart, others, world
  <2>2. QueueOK'
    BY <1>6 DEF QueueOK, LoginSucceeds, login, link, heart, others, world
  <2>3. WorldOK'
    BY <1>6 DEF WorldOK, LoginSucceeds, login, link, heart, others, world
  <2> QED
    BY <2>1, <2>2, <2>3 DEF TypeOK
<1>7. CASE LoginReset
  <2>1. ClientOK'
    BY <1>7 DEF ClientOK, LoginReset, login, link, heart, others, world
  <2>2. QueueOK'
    BY <1>7 DEF QueueOK, LoginReset, login, link, heart, others, world
  <2>3. WorldOK'
    BY <1>7 DEF WorldOK, LoginReset, login, link, heart, others, world
  <2> QED
    BY <2>1, <2>2, <2>3 DEF TypeOK
<1>8. CASE LoginBadAnswer
  <2>1. ClientOK'
    BY <1>8, ModRange
    DEF ClientOK, LoginBadAnswer, LoginExit, login, link, heart, others, world
  <2>2. QueueOK'
    BY <1>8
    DEF QueueOK, LoginBadAnswer, LoginExit, login, link, heart, others, world
  <2>3. WorldOK'
    BY <1>8, ClosedWorld
    DEF WorldOK, LoginBadAnswer, LoginExit, login, link, heart, others, world
  <2> QED
    BY <2>1, <2>2, <2>3 DEF TypeOK
<1>9. CASE CloseLogin
  <2>1. ClientOK'
    BY <1>9 DEF ClientOK, CloseLogin, login, link, heart, others, world
  <2>2. QueueOK'
    BY <1>9 DEF QueueOK, CloseLogin, login, link, heart, others, world
  <2>3. WorldOK'
    BY <1>9, ClosedWorld
    DEF WorldOK, CloseLogin, login, link, heart, others, world
  <2> QED
    BY <2>1, <2>2, <2>3 DEF TypeOK
<1>10. CASE DevConnect
  <2>1. ClientOK'
    BY <1>10
    DEF ClientOK, DevConnect, Connected, ConnectFails, Free, login, link, heart,
        others, world
  <2>2. QueueOK'
    BY <1>10
    DEF QueueOK, DevConnect, Connected, ConnectFails, Free, login, link, heart,
        others, world
  <2>3. WorldOK'
    BY <1>10
    DEF WorldOK, DevConnect, Connected, ConnectFails, Free, Peers, login, link,
        heart, others, world
  <2> QED
    BY <2>1, <2>2, <2>3 DEF TypeOK
<1>11. CASE DevFrame
  <2>1. ClientOK'
    BY <1>11, ModRange DEF ClientOK, DevFrame, login, link, heart, others, world
  <2>2. QueueOK'
    BY <1>11, ClientOK, PushQueue
    DEF QueueOK, DevFrame, ClientOK, Kinds, login, link, heart, others, world
  <2>3. WorldOK'
    BY <1>11 DEF WorldOK, DevFrame, login, link, heart, others, world
  <2> QED
    BY <2>1, <2>2, <2>3 DEF TypeOK
<1>12. CASE DevNothing
  <2>1. ClientOK'
    BY <1>12 DEF ClientOK, DevNothing, login, link, heart, others, world
  <2>2. QueueOK'
    BY <1>12 DEF QueueOK, DevNothing, login, link, heart, others, world
  <2>3. WorldOK'
    BY <1>12 DEF WorldOK, DevNothing, login, link, heart, others, world
  <2> QED
    BY <2>1, <2>2, <2>3 DEF TypeOK
<1>13. CASE DevFails
  <2>1. ClientOK'
    BY <1>13 DEF ClientOK, DevFails, DevExit, login, link, heart, others, world
  <2>2. QueueOK'
    BY <1>13 DEF QueueOK, DevFails, DevExit, login, link, heart, others, world
  <2>3. WorldOK'
    BY <1>13, ClosedWorld
    DEF WorldOK, DevFails, DevExit, login, link, heart, others, world
  <2> QED
    BY <2>1, <2>2, <2>3 DEF TypeOK
<1>14. CASE ConnectEcho
  <2>1. ClientOK'
    <3>1. tcpHost' \in BOOLEAN
      BY <1>14 DEF ClientOK, ConnectEcho
    <3>2. /\ UNCHANGED <<tcp_fd, loginFlag, loginTcpFd, loginFailCount>>
          /\ UNCHANGED <<errCount, devConnectFd, authSucess, g_heatflag, g_heattimeout>>
      BY <1>14 DEF ConnectEcho, login
    <3>3. client' = "echoed" /\ rounds' = 0 /\ devConnectFlag' = 1
      BY <1>14 DEF ConnectEcho
    <3> QED
      BY <3>1, <3>2, <3>3, Numbers DEF ClientOK
  <2>2. QueueOK'
    BY <1>14
    DEF QueueOK, ConnectEcho, Waiting, Answered, login, link, heart, others,
        world
  <2>3. WorldOK'
    BY <1>14
    DEF WorldOK, ConnectEcho, Waiting, Answered, Peer, login, link, heart,
        others, world
  <2> QED
    BY <2>1, <2>2, <2>3 DEF TypeOK
<1>15. CASE HeartReport
  <2>1. ClientOK'
    <3>1. tcpHost' \in BOOLEAN
      BY <1>15 DEF ClientOK, HeartReport, link
    <3>2. /\ UNCHANGED <<loginFlag, loginTcpFd, loginFailCount, devConnectFd>>
          /\ UNCHANGED <<devConnectFlag, authSucess, rounds>>
      BY <1>15 DEF HeartReport, login, link
    <3>3. /\ client' = "top" /\ tcp_fd' = NoFd /\ errCount' = 0
          /\ g_heatflag' = 1 /\ g_heattimeout' = HeartTime
      BY <1>15 DEF HeartReport
    <3> QED
      BY <3>1, <3>2, <3>3, Numbers DEF ClientOK
  <2>2. QueueOK'
    BY <1>15, ClientOK, PushQueue
    DEF QueueOK, HeartReport, ClientOK, Kinds, login, link, heart, others, world
  <2>3. WorldOK'
    BY <1>15 DEF WorldOK, HeartReport, login, link, heart, others, world
  <2> QED
    BY <2>1, <2>2, <2>3 DEF TypeOK
<1>16. CASE HeartEcho
  <2>1. ClientOK'
    BY <1>16
    DEF ClientOK, HeartEcho, Waiting, Answered, login, link, heart, others,
        world
  <2>2. QueueOK'
    BY <1>16
    DEF QueueOK, HeartEcho, Waiting, Answered, login, link, heart, others, world
  <2>3. WorldOK'
    BY <1>16
    DEF WorldOK, HeartEcho, Waiting, Answered, login, link, heart, others, world
  <2> QED
    BY <2>1, <2>2, <2>3 DEF TypeOK
<1>17. CASE Order
  <2>1. ClientOK'
    BY <1>17 DEF ClientOK, Order, Waiting, login, link, heart, others, world
  <2>2. QueueOK'
    BY <1>17, ClientOK, PushQueue
    DEF QueueOK, Order, Waiting, ClientOK, Kinds, login, link, heart, others,
        world
  <2>3. WorldOK'
    BY <1>17 DEF WorldOK, Order, Waiting, login, link, heart, others, world
  <2> QED
    BY <2>1, <2>2, <2>3 DEF TypeOK
<1>18. CASE BadMessage
  <2>1. ClientOK'
    BY <1>18, ModRange
    DEF ClientOK, BadMessage, Waiting, DevExit, login, link, heart, others,
        world
  <2>2. QueueOK'
    BY <1>18, ClientOK, PushQueue
    DEF QueueOK, BadMessage, Waiting, DevExit, ClientOK, Kinds, login, link,
        heart, others, world
  <2>3. WorldOK'
    BY <1>18, ClosedWorld
    DEF WorldOK, BadMessage, Waiting, DevExit, login, link, heart, others, world
  <2> QED
    BY <2>1, <2>2, <2>3 DEF TypeOK
<1>19. CASE Send
  <2>1. ClientOK'
    BY <1>19 DEF ClientOK, Send, login, link, heart, others, world
  <2>2. QueueOK'
    <3>1. queue' \in Seq(Frames)
      BY <1>19 DEF QueueOK, Send
    <3>2. sender' \in {"idle", "failing", "closed", "cleared"}
      BY <1>19 DEF QueueOK, Send
    <3>3. failed' \in Fds \cup {NoFd}
      <4>1. Head(queue) \in Frames
        BY <1>19 DEF QueueOK, Send
      <4>2. Head(queue).fd \in Fds \cup {NoFd}
        BY <4>1 DEF Frames
      <4>3. failed' \in {failed, Head(queue).fd}
        BY <1>19 DEF Send
      <4> QED
        BY <4>2, <4>3 DEF QueueOK
    <3>4. UNCHANGED report
      BY <1>19 DEF Send
    <3> QED
      BY <3>1, <3>2, <3>3, <3>4 DEF QueueOK
  <2>3. WorldOK'
    BY <1>19 DEF WorldOK, Send
  <2> QED
    BY <2>1, <2>2, <2>3 DEF TypeOK
<1>20. CASE SendClose
  <2>1. ClientOK'
    BY <1>20 DEF ClientOK, SendClose, login, link, heart, others, world
  <2>2. QueueOK'
    BY <1>20 DEF QueueOK, SendClose, login, link, heart, others, world
  <2>3. WorldOK'
    BY <1>20, ClosedWorld DEF SendClose
  <2> QED
    BY <2>1, <2>2, <2>3 DEF TypeOK
<1>21. CASE SendClear
  <2>1. ClientOK'
    BY <1>21 DEF ClientOK, SendClear, login, link, heart, others, world
  <2>2. QueueOK'
    BY <1>21 DEF QueueOK, SendClear, login, link, heart, others, world
  <2>3. WorldOK'
    BY <1>21 DEF WorldOK, SendClear, login, link, heart, others, world
  <2> QED
    BY <2>1, <2>2, <2>3 DEF TypeOK
<1>22. CASE SendLogout
  <2>1. ClientOK'
    BY <1>22 DEF ClientOK, SendLogout, login, link, heart, others, world
  <2>2. QueueOK'
    BY <1>22 DEF QueueOK, SendLogout, login, link, heart, others, world
  <2>3. WorldOK'
    BY <1>22 DEF WorldOK, SendLogout, login, link, heart, others, world
  <2> QED
    BY <2>1, <2>2, <2>3 DEF TypeOK
<1>23. CASE Report
  <2>1. ClientOK'
    BY <1>23 DEF ClientOK, Report, login, link, heart, others, world
  <2>2. QueueOK'
    BY <1>23, ClientOK
    DEF QueueOK, Report, ClientOK, login, link, heart, others, world
  <2>3. WorldOK'
    BY <1>23 DEF WorldOK, Report, login, link, heart, others, world
  <2> QED
    BY <2>1, <2>2, <2>3 DEF TypeOK
<1>24. CASE ReportPush
  <2>1. ClientOK'
    BY <1>24 DEF ClientOK, ReportPush, Idle, login, link, heart, others, world
  <2>2. QueueOK'
    BY <1>24, ClientOK, PushQueue
    DEF QueueOK, ReportPush, Idle, ClientOK, Kinds, login, link, heart, others,
        world
  <2>3. WorldOK'
    BY <1>24 DEF WorldOK, ReportPush, Idle, login, link, heart, others, world
  <2> QED
    BY <2>1, <2>2, <2>3 DEF TypeOK
<1>25. CASE Lose
  <2>1. ClientOK'
    BY <1>25 DEF ClientOK, Lose, login, link, heart, others, world
  <2>2. QueueOK'
    BY <1>25 DEF QueueOK, Lose, login, link, heart, others, world
  <2>3. WorldOK'
    BY <1>25 DEF WorldOK, Lose, Peers, login, link, heart, others, world
  <2> QED
    BY <2>1, <2>2, <2>3 DEF TypeOK
<1>26. CASE UNCHANGED vars
  BY <1>26
  DEF TypeOK, ClientOK, QueueOK, WorldOK, vars, login, link, heart, others,
      world
<1> QED
  BY <1>1, <1>2, <1>3, <1>4, <1>5, <1>6, <1>7, <1>8, <1>9, <1>10, <1>11, <1>12,
     <1>13, <1>14, <1>15, <1>16, <1>17, <1>18, <1>19, <1>20, <1>21, <1>22,
     <1>23, <1>24, <1>25, <1>26
  DEF Next, Client, Sender, Reporter

---------------------------------------------------------------------------

(* The login connection is closed before the other one is used. *)
LoginClosed ==
    /\ loginFlag = 1 /\ devConnectFlag = 1 /\ client # "accepted"
          => loginTcpFd = NoFd
    /\ client \in {"connect", "frame", "wait", "echoed"} => loginTcpFd = NoFd

(* Only the send thread takes a connection away under the client, and then it *)
(* ends the login as well. *)
Held ==
    loginFlag = 1 /\ sender \in {"idle", "failing"} =>
        /\ devConnectFlag = 1 /\ client # "accepted" => devConnectFd # NoFd
        /\ client \in {"frame", "wait", "echoed"} => devConnectFd # NoFd
        /\ client \in {"wait", "echoed"} => devConnectFd = tcp_fd

LEMMA StepWatched ==
    ASSUME TypeOK, Watched, [Next]_vars
    PROVE  Watched'
<1> USE ElinkAssumption DEF ElinkAssumption, NoFd
<1>1. CASE Watch
  BY <1>1
  DEF TypeOK, ClientOK, WorldOK, Watched, Ahead, Watch, login, link, heart,
      others, world
<1>2. CASE LoggedIn
  BY <1>2
  DEF TypeOK, ClientOK, WorldOK, Watched, Ahead, LoggedIn, login, link, heart,
      others, world
<1>3. CASE LoginConnect
  BY <1>3
  DEF TypeOK, ClientOK, WorldOK, Watched, Ahead, LoginConnect, Connected,
      ConnectFails, Free, login, link, heart, others, world
<1>4. CASE LoginAsk
  BY <1>4
  DEF TypeOK, ClientOK, WorldOK, Watched, Ahead, LoginAsk, LoginExit, Closed,
      login, link, heart, others, world
<1>5. CASE LoginNoAnswer
  BY <1>5
  DEF TypeOK, ClientOK, WorldOK, Watched, Ahead, LoginNoAnswer, LoginExit,
      Closed, login, link, heart, others, world
<1>6. CASE LoginSucceeds
  BY <1>6
  DEF TypeOK, ClientOK, WorldOK, Watched, Ahead, LoginSucceeds, login, link,
      heart, others, world
<1>7. CASE LoginReset
  BY <1>7
  DEF TypeOK, ClientOK, WorldOK, Watched, Ahead, LoginReset, login, link, heart,
      others, world
<1>8. CASE LoginBadAnswer
  BY <1>8
  DEF TypeOK, ClientOK, WorldOK, Watched, Ahead, LoginBadAnswer, LoginExit,
      Closed, login, link, heart, others, world
<1>9. CASE CloseLogin
  BY <1>9
  DEF TypeOK, ClientOK, WorldOK, Watched, Ahead, CloseLogin, Closed, login,
      link, heart, others, world
<1>10. CASE DevConnect
  BY <1>10
  DEF TypeOK, ClientOK, WorldOK, Watched, Ahead, DevConnect, Connected,
      ConnectFails, Free, login, link, heart, others, world
<1>11. CASE DevFrame
  BY <1>11
  DEF TypeOK, ClientOK, WorldOK, Watched, Ahead, DevFrame, login, link, heart,
      others, world
<1>12. CASE DevNothing
  BY <1>12
  DEF TypeOK, ClientOK, WorldOK, Watched, Ahead, DevNothing, login, link, heart,
      others, world
<1>13. CASE DevFails
  BY <1>13
  DEF TypeOK, ClientOK, WorldOK, Watched, Ahead, DevFails, DevExit, Closed,
      login, link, heart, others, world
<1>14. CASE ConnectEcho
  BY <1>14
  DEF TypeOK, ClientOK, WorldOK, Watched, Ahead, ConnectEcho, Waiting, Answered,
      Peer, login, link, heart, others, world
<1>15. CASE HeartReport
  BY <1>15
  DEF TypeOK, ClientOK, WorldOK, Watched, Ahead, HeartReport, login, link,
      heart, others, world
<1>16. CASE HeartEcho
  BY <1>16
  DEF TypeOK, ClientOK, WorldOK, Watched, Ahead, HeartEcho, Waiting, Answered,
      login, link, heart, others, world
<1>17. CASE Order
  BY <1>17
  DEF TypeOK, ClientOK, WorldOK, Watched, Ahead, Order, Waiting, login, link,
      heart, others, world
<1>18. CASE BadMessage
  BY <1>18
  DEF TypeOK, ClientOK, WorldOK, Watched, Ahead, BadMessage, Waiting, DevExit,
      Closed, Peer, login, link, heart, others, world
<1>19. CASE Send
  BY <1>19
  DEF TypeOK, ClientOK, WorldOK, Watched, Ahead, Send, Closed, Peer, login,
      link, heart, others, world
<1>20. CASE SendClose
  BY <1>20
  DEF TypeOK, ClientOK, WorldOK, Watched, Ahead, SendClose, Closed, login, link,
      heart, others, world
<1>21. CASE SendClear
  BY <1>21
  DEF TypeOK, ClientOK, WorldOK, Watched, Ahead, SendClear, login, link, heart,
      others, world
<1>22. CASE SendLogout
  BY <1>22
  DEF TypeOK, ClientOK, WorldOK, Watched, Ahead, SendLogout, login, link, heart,
      others, world
<1>23. CASE Report
  BY <1>23
  DEF TypeOK, ClientOK, WorldOK, Watched, Ahead, Report, login, link, heart,
      others, world
<1>24. CASE ReportPush
  BY <1>24
  DEF TypeOK, ClientOK, WorldOK, Watched, Ahead, ReportPush, login, link, heart,
      others, world
<1>25. CASE Lose
  BY <1>25
  DEF TypeOK, ClientOK, WorldOK, Watched, Ahead, Lose, login, link, heart,
      others, world
<1>26. CASE UNCHANGED vars
  BY <1>26 DEF Watched, Ahead, vars, login, link, heart, others, world
<1> QED
  BY <1>1, <1>2, <1>3, <1>4, <1>5, <1>6, <1>7, <1>8, <1>9, <1>10, <1>11, <1>12,
     <1>13, <1>14, <1>15, <1>16, <1>17, <1>18, <1>19, <1>20, <1>21, <1>22,
     <1>23, <1>24, <1>25, <1>26
  DEF Next, Client, Sender, Reporter

LEMMA StepNamed ==
    ASSUME TypeOK, LoginIsNamed, [Next]_vars
    PROVE  LoginIsNamed'
<1> USE ElinkAssumption DEF ElinkAssumption, NoFd
<1>1. CASE Watch
  BY <1>1
  DEF TypeOK, ClientOK, WorldOK, LoginIsNamed, Watch, login, link, heart,
      others, world
<1>2. CASE LoggedIn
  BY <1>2
  DEF TypeOK, ClientOK, WorldOK, LoginIsNamed, LoggedIn, login, link, heart,
      others, world
<1>3. CASE LoginConnect
  BY <1>3
  DEF TypeOK, ClientOK, WorldOK, LoginIsNamed, LoginConnect, Connected,
      ConnectFails, Free, login, link, heart, others, world
<1>4. CASE LoginAsk
  BY <1>4
  DEF TypeOK, ClientOK, WorldOK, LoginIsNamed, LoginAsk, LoginExit, Closed,
      login, link, heart, others, world
<1>5. CASE LoginNoAnswer
  BY <1>5
  DEF TypeOK, ClientOK, WorldOK, LoginIsNamed, LoginNoAnswer, LoginExit, Closed,
      login, link, heart, others, world
<1>6. CASE LoginSucceeds
  BY <1>6
  DEF TypeOK, ClientOK, WorldOK, LoginIsNamed, LoginSucceeds, login, link,
      heart, others, world
<1>7. CASE LoginReset
  BY <1>7
  DEF TypeOK, ClientOK, WorldOK, LoginIsNamed, LoginReset, login, link, heart,
      others, world
<1>8. CASE LoginBadAnswer
  BY <1>8
  DEF TypeOK, ClientOK, WorldOK, LoginIsNamed, LoginBadAnswer, LoginExit,
      Closed, login, link, heart, others, world
<1>9. CASE CloseLogin
  BY <1>9
  DEF TypeOK, ClientOK, WorldOK, LoginIsNamed, CloseLogin, Closed, login, link,
      heart, others, world
<1>10. CASE DevConnect
  BY <1>10
  DEF TypeOK, ClientOK, WorldOK, LoginIsNamed, DevConnect, Connected,
      ConnectFails, Free, login, link, heart, others, world
<1>11. CASE DevFrame
  BY <1>11
  DEF TypeOK, ClientOK, WorldOK, LoginIsNamed, DevFrame, login, link, heart,
      others, world
<1>12. CASE DevNothing
  BY <1>12
  DEF TypeOK, ClientOK, WorldOK, LoginIsNamed, DevNothing, login, link, heart,
      others, world
<1>13. CASE DevFails
  BY <1>13
  DEF TypeOK, ClientOK, WorldOK, LoginIsNamed, DevFails, DevExit, Closed, login,
      link, heart, others, world
<1>14. CASE ConnectEcho
  BY <1>14
  DEF TypeOK, ClientOK, WorldOK, LoginIsNamed, ConnectEcho, Waiting, Answered,
      Peer, login, link, heart, others, world
<1>15. CASE HeartReport
  BY <1>15
  DEF TypeOK, ClientOK, WorldOK, LoginIsNamed, HeartReport, login, link, heart,
      others, world
<1>16. CASE HeartEcho
  BY <1>16
  DEF TypeOK, ClientOK, WorldOK, LoginIsNamed, HeartEcho, Waiting, Answered,
      login, link, heart, others, world
<1>17. CASE Order
  BY <1>17
  DEF TypeOK, ClientOK, WorldOK, LoginIsNamed, Order, Waiting, login, link,
      heart, others, world
<1>18. CASE BadMessage
  BY <1>18
  DEF TypeOK, ClientOK, WorldOK, LoginIsNamed, BadMessage, Waiting, DevExit,
      Closed, Peer, login, link, heart, others, world
<1>19. CASE Send
  BY <1>19
  DEF TypeOK, ClientOK, WorldOK, LoginIsNamed, Send, Closed, Peer, login, link,
      heart, others, world
<1>20. CASE SendClose
  BY <1>20
  DEF TypeOK, ClientOK, WorldOK, LoginIsNamed, SendClose, Closed, login, link,
      heart, others, world
<1>21. CASE SendClear
  BY <1>21
  DEF TypeOK, ClientOK, WorldOK, LoginIsNamed, SendClear, login, link, heart,
      others, world
<1>22. CASE SendLogout
  BY <1>22
  DEF TypeOK, ClientOK, WorldOK, LoginIsNamed, SendLogout, login, link, heart,
      others, world
<1>23. CASE Report
  BY <1>23
  DEF TypeOK, ClientOK, WorldOK, LoginIsNamed, Report, login, link, heart,
      others, world
<1>24. CASE ReportPush
  BY <1>24
  DEF TypeOK, ClientOK, WorldOK, LoginIsNamed, ReportPush, login, link, heart,
      others, world
<1>25. CASE Lose
  BY <1>25
  DEF TypeOK, ClientOK, WorldOK, LoginIsNamed, Lose, login, link, heart, others,
      world
<1>26. CASE UNCHANGED vars
  BY <1>26 DEF LoginIsNamed, vars, login, link, heart, others, world
<1> QED
  BY <1>1, <1>2, <1>3, <1>4, <1>5, <1>6, <1>7, <1>8, <1>9, <1>10, <1>11, <1>12,
     <1>13, <1>14, <1>15, <1>16, <1>17, <1>18, <1>19, <1>20, <1>21, <1>22,
     <1>23, <1>24, <1>25, <1>26
  DEF Next, Client, Sender, Reporter

LEMMA StepClosed ==
    ASSUME TypeOK, LoginClosed, [Next]_vars
    PROVE  LoginClosed'
<1> USE ElinkAssumption DEF ElinkAssumption, NoFd
<1>1. CASE Watch
  BY <1>1
  DEF TypeOK, ClientOK, WorldOK, LoginClosed, Watch, login, link, heart, others,
      world
<1>2. CASE LoggedIn
  BY <1>2
  DEF TypeOK, ClientOK, WorldOK, LoginClosed, LoggedIn, login, link, heart,
      others, world
<1>3. CASE LoginConnect
  BY <1>3
  DEF TypeOK, ClientOK, WorldOK, LoginClosed, LoginConnect, Connected,
      ConnectFails, Free, login, link, heart, others, world
<1>4. CASE LoginAsk
  BY <1>4
  DEF TypeOK, ClientOK, WorldOK, LoginClosed, LoginAsk, LoginExit, Closed,
      login, link, heart, others, world
<1>5. CASE LoginNoAnswer
  BY <1>5
  DEF TypeOK, ClientOK, WorldOK, LoginClosed, LoginNoAnswer, LoginExit, Closed,
      login, link, heart, others, world
<1>6. CASE LoginSucceeds
  BY <1>6
  DEF TypeOK, ClientOK, WorldOK, LoginClosed, LoginSucceeds, login, link, heart,
      others, world
<1>7. CASE LoginReset
  BY <1>7
  DEF TypeOK, ClientOK, WorldOK, LoginClosed, LoginReset, login, link, heart,
      others, world
<1>8. CASE LoginBadAnswer
  BY <1>8
  DEF TypeOK, ClientOK, WorldOK, LoginClosed, LoginBadAnswer, LoginExit, Closed,
      login, link, heart, others, world
<1>9. CASE CloseLogin
  BY <1>9
  DEF TypeOK, ClientOK, WorldOK, LoginClosed, CloseLogin, Closed, login, link,
      heart, others, world
<1>10. CASE DevConnect
  BY <1>10
  DEF TypeOK, ClientOK, WorldOK, LoginClosed, DevConnect, Connected,
      ConnectFails, Free, login, link, heart, others, world
<1>11. CASE DevFrame
  BY <1>11
  DEF TypeOK, ClientOK, WorldOK, LoginClosed, DevFrame, login, link, heart,
      others, world
<1>12. CASE DevNothing
  BY <1>12
  DEF TypeOK, ClientOK, WorldOK, LoginClosed, DevNothing, login, link, heart,
      others, world
<1>13. CASE DevFails
  BY <1>13
  DEF TypeOK, ClientOK, WorldOK, LoginClosed, DevFails, DevExit, Closed, login,
      link, heart, others, world
<1>14. CASE ConnectEcho
  BY <1>14
  DEF TypeOK, ClientOK, WorldOK, LoginClosed, ConnectEcho, Waiting, Answered,
      Peer, login, link, heart, others, world
<1>15. CASE HeartReport
  BY <1>15
  DEF TypeOK, ClientOK, WorldOK, LoginClosed, HeartReport, login, link, heart,
      others, world
<1>16. CASE HeartEcho
  BY <1>16
  DEF TypeOK, ClientOK, WorldOK, LoginClosed, HeartEcho, Waiting, Answered,
      login, link, heart, others, world
<1>17. CASE Order
  BY <1>17
  DEF TypeOK, ClientOK, WorldOK, LoginClosed, Order, Waiting, login, link,
      heart, others, world
<1>18. CASE BadMessage
  BY <1>18
  DEF TypeOK, ClientOK, WorldOK, LoginClosed, BadMessage, Waiting, DevExit,
      Closed, Peer, login, link, heart, others, world
<1>19. CASE Send
  BY <1>19
  DEF TypeOK, ClientOK, WorldOK, LoginClosed, Send, Closed, Peer, login, link,
      heart, others, world
<1>20. CASE SendClose
  BY <1>20
  DEF TypeOK, ClientOK, WorldOK, LoginClosed, SendClose, Closed, login, link,
      heart, others, world
<1>21. CASE SendClear
  BY <1>21
  DEF TypeOK, ClientOK, WorldOK, LoginClosed, SendClear, login, link, heart,
      others, world
<1>22. CASE SendLogout
  BY <1>22
  DEF TypeOK, ClientOK, WorldOK, LoginClosed, SendLogout, login, link, heart,
      others, world
<1>23. CASE Report
  BY <1>23
  DEF TypeOK, ClientOK, WorldOK, LoginClosed, Report, login, link, heart,
      others, world
<1>24. CASE ReportPush
  BY <1>24
  DEF TypeOK, ClientOK, WorldOK, LoginClosed, ReportPush, login, link, heart,
      others, world
<1>25. CASE Lose
  BY <1>25
  DEF TypeOK, ClientOK, WorldOK, LoginClosed, Lose, login, link, heart, others,
      world
<1>26. CASE UNCHANGED vars
  BY <1>26 DEF LoginClosed, vars, login, link, heart, others, world
<1> QED
  BY <1>1, <1>2, <1>3, <1>4, <1>5, <1>6, <1>7, <1>8, <1>9, <1>10, <1>11, <1>12,
     <1>13, <1>14, <1>15, <1>16, <1>17, <1>18, <1>19, <1>20, <1>21, <1>22,
     <1>23, <1>24, <1>25, <1>26
  DEF Next, Client, Sender, Reporter

LEMMA StepHeld ==
    ASSUME TypeOK, Held, [Next]_vars
    PROVE  Held'
<1> USE ElinkAssumption DEF ElinkAssumption, NoFd
<1>1. CASE Watch
  BY <1>1
  DEF TypeOK, ClientOK, WorldOK, Held, Watch, login, link, heart, others, world
<1>2. CASE LoggedIn
  BY <1>2
  DEF TypeOK, ClientOK, WorldOK, Held, LoggedIn, login, link, heart, others,
      world
<1>3. CASE LoginConnect
  BY <1>3
  DEF TypeOK, ClientOK, WorldOK, Held, LoginConnect, Connected, ConnectFails,
      Free, login, link, heart, others, world
<1>4. CASE LoginAsk
  BY <1>4
  DEF TypeOK, ClientOK, WorldOK, Held, LoginAsk, LoginExit, Closed, login, link,
      heart, others, world
<1>5. CASE LoginNoAnswer
  BY <1>5
  DEF TypeOK, ClientOK, WorldOK, Held, LoginNoAnswer, LoginExit, Closed, login,
      link, heart, others, world
<1>6. CASE LoginSucceeds
  BY <1>6
  DEF TypeOK, ClientOK, WorldOK, Held, LoginSucceeds, login, link, heart,
      others, world
<1>7. CASE LoginReset
  BY <1>7
  DEF TypeOK, ClientOK, WorldOK, Held, LoginReset, login, link, heart, others,
      world
<1>8. CASE LoginBadAnswer
  BY <1>8
  DEF TypeOK, ClientOK, WorldOK, Held, LoginBadAnswer, LoginExit, Closed, login,
      link, heart, others, world
<1>9. CASE CloseLogin
  BY <1>9
  DEF TypeOK, ClientOK, WorldOK, Held, CloseLogin, Closed, login, link, heart,
      others, world
<1>10. CASE DevConnect
  BY <1>10
  DEF TypeOK, ClientOK, WorldOK, Held, DevConnect, Connected, ConnectFails,
      Free, login, link, heart, others, world
<1>11. CASE DevFrame
  BY <1>11
  DEF TypeOK, ClientOK, WorldOK, Held, DevFrame, login, link, heart, others,
      world
<1>12. CASE DevNothing
  BY <1>12
  DEF TypeOK, ClientOK, WorldOK, Held, DevNothing, login, link, heart, others,
      world
<1>13. CASE DevFails
  BY <1>13
  DEF TypeOK, ClientOK, WorldOK, Held, DevFails, DevExit, Closed, login, link,
      heart, others, world
<1>14. CASE ConnectEcho
  BY <1>14
  DEF TypeOK, ClientOK, WorldOK, Held, ConnectEcho, Waiting, Answered, Peer,
      login, link, heart, others, world
<1>15. CASE HeartReport
  BY <1>15
  DEF TypeOK, ClientOK, WorldOK, Held, HeartReport, login, link, heart, others,
      world
<1>16. CASE HeartEcho
  BY <1>16
  DEF TypeOK, ClientOK, WorldOK, Held, HeartEcho, Waiting, Answered, login,
      link, heart, others, world
<1>17. CASE Order
  BY <1>17
  DEF TypeOK, ClientOK, WorldOK, Held, Order, Waiting, login, link, heart,
      others, world
<1>18. CASE BadMessage
  BY <1>18
  DEF TypeOK, ClientOK, WorldOK, Held, BadMessage, Waiting, DevExit, Closed,
      Peer, login, link, heart, others, world
<1>19. CASE Send
  BY <1>19
  DEF TypeOK, ClientOK, WorldOK, Held, Send, Closed, Peer, login, link, heart,
      others, world
<1>20. CASE SendClose
  BY <1>20
  DEF TypeOK, ClientOK, WorldOK, Held, SendClose, Closed, login, link, heart,
      others, world
<1>21. CASE SendClear
  BY <1>21
  DEF TypeOK, ClientOK, WorldOK, Held, SendClear, login, link, heart, others,
      world
<1>22. CASE SendLogout
  BY <1>22
  DEF TypeOK, ClientOK, WorldOK, Held, SendLogout, login, link, heart, others,
      world
<1>23. CASE Report
  BY <1>23
  DEF TypeOK, ClientOK, WorldOK, Held, Report, login, link, heart, others, world
<1>24. CASE ReportPush
  BY <1>24
  DEF TypeOK, ClientOK, WorldOK, Held, ReportPush, login, link, heart, others,
      world
<1>25. CASE Lose
  BY <1>25
  DEF TypeOK, ClientOK, WorldOK, Held, Lose, login, link, heart, others, world
<1>26. CASE UNCHANGED vars
  BY <1>26 DEF Held, vars, login, link, heart, others, world
<1> QED
  BY <1>1, <1>2, <1>3, <1>4, <1>5, <1>6, <1>7, <1>8, <1>9, <1>10, <1>11, <1>12,
     <1>13, <1>14, <1>15, <1>16, <1>17, <1>18, <1>19, <1>20, <1>21, <1>22,
     <1>23, <1>24, <1>25, <1>26
  DEF Next, Client, Sender, Reporter

LEMMA StepAdmitted ==
    ASSUME TypeOK, LoginClosed, Held, Admitted, [Next]_vars
    PROVE  Admitted'
<1> USE ElinkAssumption DEF ElinkAssumption, NoFd
<1>1. CASE Watch
  BY <1>1
  DEF TypeOK, ClientOK, WorldOK, Admitted, LoginClosed, Held, Watch, login,
      link, heart, others, world
<1>2. CASE LoggedIn
  BY <1>2
  DEF TypeOK, ClientOK, WorldOK, Admitted, LoginClosed, Held, LoggedIn, login,
      link, heart, others, world
<1>3. CASE LoginConnect
  BY <1>3
  DEF TypeOK, ClientOK, WorldOK, Admitted, LoginClosed, Held, LoginConnect,
      Connected, ConnectFails, Free, login, link, heart, others, world
<1>4. CASE LoginAsk
  BY <1>4
  DEF TypeOK, ClientOK, WorldOK, Admitted, LoginClosed, Held, LoginAsk,
      LoginExit, Closed, login, link, heart, others, world
<1>5. CASE LoginNoAnswer
  BY <1>5
  DEF TypeOK, ClientOK, WorldOK, Admitted, LoginClosed, Held, LoginNoAnswer,
      LoginExit, Closed, login, link, heart, others, world
<1>6. CASE LoginSucceeds
  BY <1>6
  DEF TypeOK, ClientOK, WorldOK, Admitted, LoginClosed, Held, LoginSucceeds,
      login, link, heart, others, world
<1>7. CASE LoginReset
  BY <1>7
  DEF TypeOK, ClientOK, WorldOK, Admitted, LoginClosed, Held, LoginReset, login,
      link, heart, others, world
<1>8. CASE LoginBadAnswer
  BY <1>8
  DEF TypeOK, ClientOK, WorldOK, Admitted, LoginClosed, Held, LoginBadAnswer,
      LoginExit, Closed, login, link, heart, others, world
<1>9. CASE CloseLogin
  BY <1>9
  DEF TypeOK, ClientOK, WorldOK, Admitted, LoginClosed, Held, CloseLogin,
      Closed, login, link, heart, others, world
<1>10. CASE DevConnect
  BY <1>10
  DEF TypeOK, ClientOK, WorldOK, Admitted, LoginClosed, Held, DevConnect,
      Connected, ConnectFails, Free, login, link, heart, others, world
<1>11. CASE DevFrame
  BY <1>11
  DEF TypeOK, ClientOK, WorldOK, Admitted, LoginClosed, Held, DevFrame, login,
      link, heart, others, world
<1>12. CASE DevNothing
  BY <1>12
  DEF TypeOK, ClientOK, WorldOK, Admitted, LoginClosed, Held, DevNothing, login,
      link, heart, others, world
<1>13. CASE DevFails
  BY <1>13
  DEF TypeOK, ClientOK, WorldOK, Admitted, LoginClosed, Held, DevFails, DevExit,
      Closed, login, link, heart, others, world
<1>14. CASE ConnectEcho
  BY <1>14
  DEF TypeOK, ClientOK, WorldOK, Admitted, LoginClosed, Held, ConnectEcho,
      Waiting, Answered, Peer, login, link, heart, others, world
<1>15. CASE HeartReport
  BY <1>15
  DEF TypeOK, ClientOK, WorldOK, Admitted, LoginClosed, Held, HeartReport,
      login, link, heart, others, world
<1>16. CASE HeartEcho
  BY <1>16
  DEF TypeOK, ClientOK, WorldOK, Admitted, LoginClosed, Held, HeartEcho,
      Waiting, Answered, login, link, heart, others, world
<1>17. CASE Order
  BY <1>17
  DEF TypeOK, ClientOK, WorldOK, Admitted, LoginClosed, Held, Order, Waiting,
      login, link, heart, others, world
<1>18. CASE BadMessage
  BY <1>18
  DEF TypeOK, ClientOK, WorldOK, Admitted, LoginClosed, Held, BadMessage,
      Waiting, DevExit, Closed, Peer, login, link, heart, others, world
<1>19. CASE Send
  BY <1>19
  DEF TypeOK, ClientOK, WorldOK, Admitted, LoginClosed, Held, Send, Closed,
      Peer, login, link, heart, others, world
<1>20. CASE SendClose
  BY <1>20
  DEF TypeOK, ClientOK, WorldOK, Admitted, LoginClosed, Held, SendClose, Closed,
      login, link, heart, others, world
<1>21. CASE SendClear
  BY <1>21
  DEF TypeOK, ClientOK, WorldOK, Admitted, LoginClosed, Held, SendClear, login,
      link, heart, others, world
<1>22. CASE SendLogout
  BY <1>22
  DEF TypeOK, ClientOK, WorldOK, Admitted, LoginClosed, Held, SendLogout, login,
      link, heart, others, world
<1>23. CASE Report
  BY <1>23
  DEF TypeOK, ClientOK, WorldOK, Admitted, LoginClosed, Held, Report, login,
      link, heart, others, world
<1>24. CASE ReportPush
  BY <1>24
  DEF TypeOK, ClientOK, WorldOK, Admitted, LoginClosed, Held, ReportPush, login,
      link, heart, others, world
<1>25. CASE Lose
  BY <1>25
  DEF TypeOK, ClientOK, WorldOK, Admitted, LoginClosed, Held, Lose, login, link,
      heart, others, world
<1>26. CASE UNCHANGED vars
  BY <1>26 DEF Admitted, vars, login, link, heart, others, world
<1> QED
  BY <1>1, <1>2, <1>3, <1>4, <1>5, <1>6, <1>7, <1>8, <1>9, <1>10, <1>11, <1>12,
     <1>13, <1>14, <1>15, <1>16, <1>17, <1>18, <1>19, <1>20, <1>21, <1>22,
     <1>23, <1>24, <1>25, <1>26
  DEF Next, Client, Sender, Reporter

---------------------------------------------------------------------------

IInv == Watched /\ LoginIsNamed /\ LoginClosed /\ Held /\ Admitted

LEMMA InitInv == Init => IInv
  BY ElinkAssumption DEF ElinkAssumption, Init, IInv, Watched, LoginIsNamed,
     LoginClosed, Held, Admitted

\* Every reachable state is typed; no more than LoginTries + 1 login frames
\* are sent between two successful logins.
THEOREM TypeCorrect == Spec => []TypeOK
<1>1. Init => TypeOK
  BY InitType
<1>2. TypeOK /\ [Next]_vars => TypeOK'
  BY StepType
<1> QED
  BY <1>1, <1>2, PTL DEF Spec

LEMMA Invariance == Spec => []IInv
<1>1. TypeOK /\ IInv /\ [Next]_vars => IInv'
  BY StepWatched, StepNamed, StepClosed, StepHeld, StepAdmitted DEF IInv
<1> QED
  BY InitInv, TypeCorrect, <1>1, PTL DEF Spec

\* The watch over the heartbeat cannot have run out unnoticed while the gateway
\* takes itself for connected.  Between two assignments of the client thread
\* (Ahead) it may have, but that thread is the only one to look at it, and winds
\* it up (1712) or forgets the connection (749) before it does.
THEOREM AlwaysWatched == Spec => []Watched
  BY Invariance, PTL DEF IInv

\* A connection is taken for admitted only when the platform has answered on
\* it, whatever was lost or given up before, but for the moments in which the
\* send thread gives one up (1817-1819) and a login that has just succeeded
\* forgets the one before (747-750).
THEOREM AlwaysAdmitted == Spec => []Admitted
  BY Invariance, PTL DEF IInv

\* A connection to the login server is never lost track of.
THEOREM LoginAlwaysNamed == Spec => []LoginIsNamed
  BY Invariance, PTL DEF IInv
============================================================================
