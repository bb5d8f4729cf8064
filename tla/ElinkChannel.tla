--------------------------- MODULE ElinkChannel ---------------------------
(***************************************************************************)
(* The gateway's connection to the eLink platform                          *)
(* (eLink/elink_logic_devchanel_deal.c, elink_protocol_chanel.c).  Three   *)
(* kinds of tasks share its state without a lock: tcp_client_thread logs   *)
(* in, connects to the service host and handles what it receives;          *)
(* tcp_send_thread writes the frames queued for both connections to their  *)
(* sockets; the other tasks report what the lock does.                     *)
(*                                                                         *)
(* External: the sockets, the two servers and the network.  A server may   *)
(* answer late, not at all, or close; an answer may arrive cut in two, or  *)
(* together with another one.  A message is what parsing it leads to.      *)
(*                                                                         *)
(* A definition whose comment starts with "Slip" is an action with a       *)
(* plausible programming error and not part of the model.                  *)
(***************************************************************************)
EXTENDS Integers, Sequences, FiniteSets

CONSTANTS
    Fds,          \* descriptors of sockets
    LoginTries,   \* login frames that may go unanswered (3, line 678)
    LoginErrors,  \* bad answers upon which the login starts over (10)
    ConnectErrors,\* bad messages upon which the connection is closed (5)
    HeartTime,    \* MAX_HEART_TIME (10)
    HeartBeat,    \* rounds between two heartbeats (sent by the server)
    LoginAnswers, \* what the login server answers, out of Logins
    isOperSuccess,\* a lock is bound (in flash: it does not change here)
    QueueMax      \* bound: frames waiting to be sent; the last place is the
                  \* client's, so that reports do not hold it up for ever

Logins == {"accepted", "refused", "garbled", "cut"}
NoFd == -1

ASSUME ElinkAssumption ==
    /\ Fds \subseteq Nat
    /\ LoginTries \in Nat /\ LoginErrors \in Nat \ {0}
    /\ ConnectErrors \in Nat \ {0}
    /\ HeartTime \in Nat \ {0} /\ HeartBeat \in Nat \ {0}
    /\ LoginAnswers \subseteq Logins
    /\ isOperSuccess \in BOOLEAN
    /\ QueueMax \in Nat

VARIABLES
    client,         \* where tcp_client_thread is
    tcp_fd,         \* its copy of devConnectFd
    loginFlag, loginTcpFd, loginFailCount, errCount,
    tcpHost,        \* tcpHost holds the host a login server has returned
    devConnectFd, devConnectFlag, authSucess,
    g_heatflag, g_heattimeout,
    rounds,         \* (temptime - loginlasttime) % heartBeat
    queue,          \* tcp_send_queue
    sender,         \* where tcp_send_thread is: its last frame was sent, or is
                    \* "failing", "closed", and devConnectFd "cleared"
    failed,         \* the descriptor it is about to close
    report,         \* a report under way, with the descriptor it has read
    sock,           \* external: what a descriptor is connected to
    asked,          \* external: requests a server has still to answer
    admitted        \* external: connections the platform has admitted

login == <<loginFlag, loginTcpFd, loginFailCount>>
link == <<devConnectFd, devConnectFlag, tcpHost>>
heart == <<g_heatflag, g_heattimeout, rounds>>
others == <<sender, failed, report>>
world == <<sock, asked, admitted>>

vars == <<client, tcp_fd, login, errCount, link, authSucess, heart, queue,
          others, world>>

\* g_heattimeout after it was counted below 0: 2^32 - 1 and downwards.
Wrapped == HeartTime + 1

Idle == [on |-> FALSE, fd |-> NoFd]
Frame(fd, kind) == [fd |-> fd, kind |-> kind]
Kinds == {"login", "connect", "heart", "other"}
Frames == [fd : Fds \cup {NoFd}, kind : Kinds]
Peers == {"free", "half", "login", "dev", "gone"}

\* tcp_push_node under g_elink_send_mutex.
Push(frame) ==
    /\ Len(queue) < QueueMax
    /\ queue' = Append(queue, frame)

Closed(fd) ==
    /\ sock' = IF fd \in Fds THEN [sock EXCEPT ![fd] = "free"] ELSE sock
    /\ asked' = IF fd \in Fds THEN [asked EXCEPT ![fd] = {}] ELSE asked
    /\ admitted' = admitted \ {fd}

\* What a descriptor is connected to; no descriptor is no socket's.
Peer(fd) == IF fd \in Fds THEN sock[fd] ELSE "none"

Free == {fd \in Fds : sock[fd] = "free"}

\* st_connect_tcp_server: a new connection to a server, or a socket that is
\* left as it is when connect fails, or none.
Connected(fd, peer) ==
    /\ fd \in Free
    /\ sock' = [sock EXCEPT ![fd] = peer]
ConnectFails ==
    \/ Free = {} /\ UNCHANGED sock
    \/ \E fd \in Free : Connected(fd, "half")

---------------------------------------------------------------------------
(* tcp_client_thread: the watch over the heartbeat.                        *)

\* Slip: the watch gives up the connection but not the login.
SlipWatch ==
    /\ client = "top"
    /\ IF g_heatflag = 1
         THEN /\ g_heattimeout' = IF g_heattimeout \in {0, Wrapped}
                                    THEN Wrapped ELSE g_heattimeout - 1
              /\ devConnectFd' = IF g_heattimeout = 1 THEN NoFd
                                                      ELSE devConnectFd
         ELSE UNCHANGED <<g_heattimeout, devConnectFd>>
    /\ client' = "login"
    /\ UNCHANGED <<tcp_fd, login, errCount, devConnectFlag, tcpHost, authSucess,
                   g_heatflag, rounds, queue, others, world>>

Watch ==
    /\ client = "top"
    /\ IF g_heatflag = 1
         THEN /\ g_heattimeout' = IF g_heattimeout \in {0, Wrapped}
                                    THEN Wrapped ELSE g_heattimeout - 1
              /\ devConnectFd' = IF g_heattimeout = 1 THEN NoFd
                                                      ELSE devConnectFd
              /\ loginFlag' = IF g_heattimeout = 1 THEN 0 ELSE loginFlag
         ELSE UNCHANGED <<g_heattimeout, devConnectFd, loginFlag>>
    /\ client' = "login"
    /\ UNCHANGED <<tcp_fd, loginTcpFd, loginFailCount, errCount, devConnectFlag,
                   tcpHost, authSucess, g_heatflag, rounds, queue, others,
                   world>>

---------------------------------------------------------------------------
(* st_login_tcphost_deal.                                                  *)

LoginExit ==
    /\ Closed(loginTcpFd)
    /\ loginTcpFd' = NoFd
    /\ loginFlag' = 0
    /\ client' = "top"

LoggedIn ==
    /\ client = "login" /\ loginFlag = 1
    /\ client' = "joined"
    /\ UNCHANGED <<tcp_fd, login, errCount, link, authSucess, heart, queue,
                   others, world>>

LoginConnect ==
    /\ client = "login" /\ loginFlag = 0 /\ loginTcpFd = NoFd
    /\ \/ \E fd \in Fds : Connected(fd, "login") /\ loginTcpFd' = fd
          /\ client' = "ask"
       \/ ConnectFails /\ client' = "top" /\ UNCHANGED loginTcpFd
    /\ UNCHANGED <<tcp_fd, loginFlag, loginFailCount, errCount, link, authSucess,
                   heart, queue, others, asked, admitted>>

\* Slip: login frames are not counted against LoginTries.
SlipLoginAsk ==
    /\ \/ client = "login" /\ loginFlag = 0 /\ loginTcpFd # NoFd
       \/ client = "ask"
    /\ Push(Frame(loginTcpFd, "login"))
    /\ loginFailCount' = loginFailCount + 1
    /\ client' = "answer"
    /\ UNCHANGED <<tcp_fd, loginFlag, loginTcpFd, errCount, link, authSucess,
                   heart, others, world>>

LoginAsk ==
    /\ \/ client = "login" /\ loginFlag = 0 /\ loginTcpFd # NoFd
       \/ client = "ask"
    /\ \/ /\ loginFailCount > LoginTries
          /\ LoginExit
          /\ UNCHANGED <<loginFailCount, queue>>
       \/ /\ loginFailCount <= LoginTries
          /\ Push(Frame(loginTcpFd, "login"))
          /\ loginFailCount' = loginFailCount + 1
          /\ client' = "answer"
          /\ UNCHANGED <<loginFlag, loginTcpFd, world>>
    /\ UNCHANGED <<tcp_fd, errCount, link, authSucess, heart, others>>

\* select and recv on loginTcpFd: no answer within a second, or an error.
LoginNoAnswer ==
    /\ client = "answer"
    /\ \/ /\ sock[loginTcpFd] = "login"
          /\ client' = "joined"
          /\ UNCHANGED <<loginFlag, loginTcpFd, world>>
       \/ /\ sock[loginTcpFd] # "login"
          /\ LoginExit
    /\ UNCHANGED <<tcp_fd, loginFailCount, errCount, link, authSucess, heart,
                   queue, others>>

\* An echo counts as a success whatever its result says, and so does a message
\* without "CTS", the second part of one that was cut.
LoginSucceeds ==
    /\ client = "answer" /\ sock[loginTcpFd] = "login"
    /\ \E reply \in (LoginAnswers \cap {"accepted", "refused"}) \cup {"tail"} :
          /\ (IF reply = "tail" THEN "tail" ELSE "login") \in asked[loginTcpFd]
          /\ asked' = [asked EXCEPT ![loginTcpFd] =
                          @ \ {IF reply = "tail" THEN "tail" ELSE "login"}]
          /\ tcpHost' = (tcpHost \/ reply = "accepted")
    /\ errCount' = 0
    /\ loginFlag' = 1
    /\ client' = "accepted"
    /\ UNCHANGED <<tcp_fd, loginTcpFd, loginFailCount, devConnectFlag, devConnectFd,
                   authSucess, heart, queue, others, sock, admitted>>

\* Slip: devConnectFlag is kept for the connection to come.
SlipLoginReset ==
    /\ client = "accepted"
    /\ loginFailCount' = 0
    /\ devConnectFd' = NoFd
    /\ client' = "joined"
    /\ UNCHANGED <<tcp_fd, loginFlag, loginTcpFd, errCount, devConnectFlag, tcpHost,
                   authSucess, heart, queue, others, world>>

\* What is left of an earlier connection is forgotten after loginFlag is set.
LoginReset ==
    /\ client = "accepted"
    /\ loginFailCount' = 0
    /\ devConnectFlag' = 0
    /\ devConnectFd' = NoFd
    /\ client' = "joined"
    /\ UNCHANGED <<tcp_fd, loginFlag, loginTcpFd, errCount, tcpHost, authSucess,
                   heart, queue, others, world>>

\* An answer that cannot be deciphered, or the first part of one.
LoginBadAnswer ==
    /\ client = "answer" /\ sock[loginTcpFd] = "login"
    /\ "login" \in asked[loginTcpFd]
    /\ errCount' = (errCount + 1) % LoginErrors
    /\ \E reply \in LoginAnswers \cap {"garbled", "cut"} :
          /\ devConnectFd' = IF reply = "garbled" THEN NoFd ELSE devConnectFd
          /\ IF errCount' = 0
               THEN LoginExit
               ELSE /\ asked' = [asked EXCEPT ![loginTcpFd] =
                          (@ \ {"login"}) \cup
                          (IF reply = "cut" THEN {"tail"} ELSE {})]
                    /\ loginFlag' = IF reply = "garbled" THEN 0 ELSE loginFlag
                    /\ client' = "joined"
                    /\ UNCHANGED <<loginTcpFd, sock, admitted>>
    /\ UNCHANGED <<tcp_fd, loginFailCount, devConnectFlag, tcpHost, authSucess,
                   heart, queue, others>>

\* Slip: loginTcpFd is forgotten without closing the connection.
SlipCloseLogin ==
    /\ client = "joined"
    /\ IF loginFlag = 1
         THEN loginTcpFd' = NoFd /\ client' = "connect"
         ELSE client' = "top" /\ UNCHANGED loginTcpFd
    /\ UNCHANGED <<tcp_fd, loginFlag, loginFailCount, errCount, link, authSucess,
                   heart, queue, others, world>>

\* Back in tcp_client_thread: the login connection is closed (1.1).
CloseLogin ==
    /\ client = "joined"
    /\ IF loginFlag = 1
         THEN /\ Closed(loginTcpFd)
              /\ loginTcpFd' = NoFd
              /\ client' = "connect"
         ELSE client' = "top" /\ UNCHANGED <<loginTcpFd, world>>
    /\ UNCHANGED <<tcp_fd, loginFlag, loginFailCount, errCount, link, authSucess,
                   heart, queue, others>>

---------------------------------------------------------------------------
(* st_dev_connect_deal.                                                    *)

\* Nothing answers at a host that no login has returned.
DevConnect ==
    /\ client = "connect"
    /\ IF devConnectFd # NoFd
         THEN client' = "frame" /\ UNCHANGED <<devConnectFd, sock>>
         ELSE \/ /\ tcpHost
                 /\ \E fd \in Fds : Connected(fd, "dev") /\ devConnectFd' = fd
                 /\ client' = "frame"
              \/ ConnectFails /\ client' = "top" /\ UNCHANGED devConnectFd
    /\ UNCHANGED <<tcp_fd, login, errCount, devConnectFlag, tcpHost, authSucess,
                   heart, queue, others, asked, admitted>>

\* devConnectFd is read again: the send thread may have cleared it.
DevFrame ==
    /\ client = "frame"
    /\ tcp_fd' = devConnectFd
    /\ IF devConnectFlag = 1
         THEN /\ rounds' = (rounds + 1) % HeartBeat
              /\ IF rounds' = 0
                   THEN g_heatflag' = 1 /\ Push(Frame(devConnectFd, "heart"))
                   ELSE UNCHANGED <<g_heatflag, queue>>
         ELSE /\ Push(Frame(devConnectFd, "connect"))
              /\ UNCHANGED <<g_heatflag, rounds>>
    /\ client' = "wait"
    /\ UNCHANGED <<login, errCount, link, authSucess, g_heattimeout,
                   others, world>>

DevExit ==
    /\ Closed(tcp_fd)
    /\ devConnectFd' = NoFd
    /\ loginFlag' = 0
    /\ client' = "top"

\* Nothing within a second, or recv returns 0: the round ends without more.
DevNothing ==
    /\ client = "wait"
    /\ Peer(tcp_fd) \in {"none", "dev", "gone"}
    /\ client' = "top"
    /\ tcp_fd' = NoFd
    /\ UNCHANGED <<login, errCount, link, authSucess, heart, queue,
                   others, world>>

\* select or recv fails.
DevFails ==
    /\ client = "wait"
    /\ Peer(tcp_fd) \in {"none", "free", "gone"}
    /\ DevExit
    /\ tcp_fd' = NoFd
    /\ UNCHANGED <<loginTcpFd, loginFailCount, errCount, devConnectFlag,
                   tcpHost, authSucess, heart, queue, others>>

Waiting == client = "wait" /\ Peer(tcp_fd) = "dev"
Answered(kind) ==
    /\ kind \in asked[tcp_fd]
    /\ asked' = [asked EXCEPT ![tcp_fd] = @ \ {kind}]

\* A connect echo that can be deciphered.
ConnectEcho ==
    /\ Waiting /\ Answered("connect")
    /\ admitted' = admitted \cup {tcp_fd}
    /\ devConnectFlag' = 1
    /\ rounds' = 0
    /\ client' = "echoed"
    /\ UNCHANGED <<tcp_fd, login, errCount, devConnectFd, tcpHost, authSucess,
                   g_heatflag, g_heattimeout, queue, others, sock>>

\* Slip: the watch is not wound up for the new connection.
SlipHeartReport ==
    /\ client = "echoed"
    /\ g_heatflag' = 1
    /\ Push(Frame(devConnectFd, "heart"))
    /\ errCount' = 0
    /\ client' = "top"
    /\ tcp_fd' = NoFd
    /\ UNCHANGED <<login, link, authSucess, g_heattimeout, rounds, others, world>>

\* elink_gw_heartreport, half a second later.
HeartReport ==
    /\ client = "echoed"
    /\ g_heattimeout' = HeartTime
    /\ g_heatflag' = 1
    /\ Push(Frame(devConnectFd, "heart"))
    /\ errCount' = 0
    /\ client' = "top"
    /\ tcp_fd' = NoFd
    /\ UNCHANGED <<login, link, authSucess, rounds, others, world>>

\* An echo of the heartbeat; it makes the gateway authorised if a lock is bound.
HeartEcho ==
    /\ Waiting /\ Answered("heart")
    /\ g_heatflag' = 0
    /\ authSucess' = IF isOperSuccess THEN 1 ELSE authSucess
    /\ errCount' = 0
    /\ client' = "top"
    /\ tcp_fd' = NoFd
    /\ UNCHANGED <<login, link, g_heattimeout, rounds, queue, others, sock,
                   admitted>>

\* An order or a question of the platform is answered.  What it starts is the
\* lock session's.  A message without "CTS", the second part of one that was
\* cut, counts as a success too and is not answered.
Order ==
    /\ Waiting
    /\ Push(Frame(devConnectFd, "other")) \/ UNCHANGED queue
    /\ errCount' = 0
    /\ client' = "top"
    /\ tcp_fd' = NoFd
    /\ UNCHANGED <<login, link, authSucess, heart, others, world>>

\* A message that cannot be read: two messages in one, a part of one, or
\* one that cannot be deciphered; an order is then answered with an error.
BadMessage ==
    /\ Waiting
    /\ \E lost \in SUBSET asked[tcp_fd],
          garbled \in {"illegal", "connect", "heart", "order"} :
          /\ garbled \in {"connect", "heart"} => lost = {garbled}
          /\ g_heatflag' = IF garbled = "heart" THEN 0 ELSE g_heatflag
          /\ errCount' = (errCount + 1) % ConnectErrors
          /\ IF errCount' = 0
               THEN DevExit /\ UNCHANGED queue
               ELSE /\ IF garbled = "order"
                         THEN Push(Frame(devConnectFd, "other"))
                         ELSE UNCHANGED queue
                    /\ IF garbled = "connect"
                         THEN devConnectFd' = NoFd /\ loginFlag' = 0
                         ELSE UNCHANGED <<devConnectFd, loginFlag>>
                    /\ asked' = [asked EXCEPT ![tcp_fd] = @ \ lost]
                    /\ client' = "top"
                    /\ UNCHANGED <<sock, admitted>>
    /\ tcp_fd' = NoFd
    /\ UNCHANGED <<loginTcpFd, loginFailCount, devConnectFlag, tcpHost,
                   authSucess, g_heattimeout, rounds, others>>

---------------------------------------------------------------------------
(* tcp_send_thread.                                                        *)

Send ==
    /\ sender = "idle" /\ queue # <<>>
    /\ queue' = Tail(queue)
    /\ LET frame == Head(queue)
           peer == Peer(frame.fd)
       IN  \/ /\ peer \in {"login", "dev", "gone"}
              /\ asked' = IF peer = "gone" THEN asked ELSE
                    [asked EXCEPT ![frame.fd] =
                          @ \cup ({frame.kind} \cap (IF peer = "login"
                                     THEN {"login"} ELSE {"connect", "heart"}))]
              /\ UNCHANGED <<sender, failed>>
           \/ /\ peer \notin {"login", "dev"}
              /\ sender' = "failing" /\ failed' = frame.fd
              /\ UNCHANGED asked
    /\ UNCHANGED <<client, tcp_fd, login, errCount, link, authSucess, heart,
                   report, sock, admitted>>

\* The send failed.  Its descriptor is closed, whatever it is connected to now.
SendClose ==
    /\ sender = "failing"
    /\ Closed(failed)
    /\ sender' = "closed" /\ failed' = NoFd
    /\ UNCHANGED <<client, tcp_fd, login, errCount, link, authSucess, heart, queue,
                   report>>

\* The connection is given up, whichever one it was.
SendClear ==
    /\ sender = "closed"
    /\ devConnectFd' = NoFd
    /\ sender' = "cleared"
    /\ UNCHANGED <<client, tcp_fd, login, errCount, devConnectFlag, tcpHost,
                   authSucess, heart, queue, failed, report, world>>
SendLogout ==
    /\ sender = "cleared"
    /\ loginFlag' = 0
    /\ sender' = "idle"
    /\ UNCHANGED <<client, tcp_fd, loginTcpFd, loginFailCount, errCount, link,
                   authSucess, heart, queue, failed, report, world>>

---------------------------------------------------------------------------
(* The other tasks, and the world outside.                                 *)

\* A report (st_subdev_..._deal) reads devConnectFd before it waits for
\* g_elink_send_mutex.
Report ==
    /\ ~report.on
    /\ devConnectFlag = 1 /\ authSucess = 1
    /\ report' = [on |-> TRUE, fd |-> devConnectFd]
    /\ UNCHANGED <<client, tcp_fd, login, errCount, link, authSucess, heart,
                   queue, sender, failed, world>>
ReportPush ==
    /\ report.on
    /\ Len(queue) < QueueMax - 1
    /\ Push(Frame(report.fd, "other"))
    /\ report' = Idle
    /\ UNCHANGED <<client, tcp_fd, login, errCount, link, authSucess, heart,
                   sender, failed, world>>

\* A server closes a connection, or the network loses it.
Lose ==
    /\ \E fd \in Fds :
          /\ sock[fd] \in {"login", "dev"}
          /\ sock' = [sock EXCEPT ![fd] = "gone"]
          /\ asked' = [asked EXCEPT ![fd] = {}]
    /\ UNCHANGED <<client, tcp_fd, login, errCount, link, authSucess, heart,
                   queue, others, admitted>>

---------------------------------------------------------------------------

\* g_elink_comminfo is not initialised: the flags in it may be set.
Init ==
    /\ client = "top" /\ tcp_fd = NoFd
    /\ loginFlag = 0 /\ loginTcpFd = NoFd /\ loginFailCount = 0
    /\ errCount = 0
    /\ devConnectFd = NoFd /\ devConnectFlag \in {0, 1} /\ tcpHost = FALSE
    /\ authSucess \in {0, 1}
    /\ g_heatflag = 0 /\ g_heattimeout = HeartTime /\ rounds = 0
    /\ queue = <<>>
    /\ sender = "idle" /\ failed = NoFd /\ report = Idle
    /\ sock = [fd \in Fds |-> "free"]
    /\ asked = [fd \in Fds |-> {}]
    /\ admitted = {}

Client ==
    \/ Watch \/ LoggedIn \/ LoginConnect \/ LoginAsk \/ LoginNoAnswer
    \/ LoginSucceeds \/ LoginReset \/ LoginBadAnswer \/ CloseLogin
    \/ DevConnect \/ DevFrame \/ DevNothing \/ DevFails
    \/ ConnectEcho \/ HeartReport \/ HeartEcho \/ Order \/ BadMessage
Sender == Send \/ SendClose \/ SendClear \/ SendLogout
Reporter == Report \/ ReportPush

Next == Client \/ Sender \/ Reporter \/ Lose

Spec == Init /\ [][Next]_vars

\* Both threads of the channel run for ever: neither waits for another but at
\* g_elink_send_mutex, which is held for the time of a push.
FairSpec == Spec /\ WF_vars(Client) /\ WF_vars(Sender)

---------------------------------------------------------------------------
(* Properties.                                                             *)

ClientOK ==
    /\ client \in {"top", "login", "ask", "answer", "accepted", "joined",
                   "connect", "frame", "wait", "echoed"}
    /\ tcp_fd \in Fds \cup {NoFd}
    /\ loginFlag \in {0, 1} /\ loginTcpFd \in Fds \cup {NoFd}
    /\ loginFailCount \in 0 .. LoginTries + 1
    /\ errCount \in Nat
    /\ devConnectFd \in Fds \cup {NoFd} /\ devConnectFlag \in {0, 1}
    /\ tcpHost \in BOOLEAN /\ authSucess \in {0, 1}
    /\ g_heatflag \in {0, 1} /\ g_heattimeout \in 0 .. Wrapped
    /\ rounds \in 0 .. HeartBeat - 1

QueueOK ==
    /\ queue \in Seq(Frames)
    /\ sender \in {"idle", "failing", "closed", "cleared"}
    /\ failed \in Fds \cup {NoFd}
    /\ report \in [on : BOOLEAN, fd : Fds \cup {NoFd}]

WorldOK ==
    /\ sock \in [Fds -> Peers]
    /\ asked \in [Fds -> SUBSET {"login", "tail", "connect", "heart"}]
    /\ admitted \subseteq Fds

\* In particular no more than LoginTries + 1 login frames are sent between two
\* successes (and no further one after them, line 677).
TypeOK == ClientOK /\ QueueOK /\ WorldOK

\* The client is about to forget an earlier connection, or to start the watch
\* over the one that was just admitted: loginFlag and devConnectFlag are ahead.
Ahead == client \in {"accepted", "echoed"}

\* While the gateway takes itself for connected, the watch over its heartbeat
\* can still run out when it is next looked at: g_heattimeout is neither 0 nor
\* past it, where the test for 0 would not hold again for 2^32 rounds.
Watched ==
    loginFlag = 1 /\ devConnectFlag = 1 /\ ~Ahead => g_heattimeout \in 1 .. HeartTime

\* devConnectFlag outlives the connection it was set for.  Still the gateway
\* takes no connection for admitted before the platform has answered on it,
\* except while the send thread is giving one up (devConnectFd is cleared before
\* loginFlag, and the client may have connected again in between) and until a
\* login that has just succeeded has forgotten the earlier one.
Admitted ==
    loginFlag = 1 /\ devConnectFlag = 1 /\ devConnectFd # NoFd
        /\ sender \in {"idle", "failing"} /\ client # "accepted"
    => devConnectFd \in admitted

\* A connection to the login server is always the one loginTcpFd names, and no
\* other is opened beside it.
LoginIsNamed == \A fd \in Fds : sock[fd] = "login" => loginTcpFd = fd

\* A platform that has fallen silent is noticed, though recv and send may never
\* fail: unless the gateway loses its connection again and again, heartbeats go
\* on being sent and answered (tcp_client_thread, st_dev_connect_deal).
SilenceNoticed ==
    \/ []<>(loginFlag = 0 \/ devConnectFlag = 0)
    \/ []<><<g_heatflag = 1 /\ g_heatflag' = 0>>_vars

============================================================================
