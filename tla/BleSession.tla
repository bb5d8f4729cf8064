---------------------------- MODULE BleSession ----------------------------
(***************************************************************************)
(* What the gateway is doing with the lock (ble/bluetooth_logic.c:         *)
(* g_BleState and the flags around it).  One operation is on at a time;    *)
(* starting one overwrites whatever was on.  Its steps are spread over     *)
(*                                                                         *)
(*   - the tasks that start operations (ble_bind_lock_start, ...): the     *)
(*     eLink task, the CoAP tasks, the storage;                            *)
(*   - the receive task, which handles what the BLE module reports (OK+,   *)
(*     WAR+, E, F) and what the lock answers (the tunnel);                 *)
(*   - ble_timeout_thread, once a second: it decides that the operation    *)
(*     has lasted too long and then, later, ends it;                       *)
(*   - ble_scan_thread, which looks for new records while nothing is on,   *)
(*     and Ble_Send_deal_thread, which gives up a scan.                    *)
(*                                                                         *)
(* The steps are where a task lets another see what it has half done:      *)
(*                                                                         *)
(*   - the timer decides, ends what it found overdue, sets the flag of a   *)
(*     key again and then its state, in steps of their own;                *)
(*   - the eLink task sets the flag of a key (3729, 3819) well before the  *)
(*     state (3763, 3830);                                                 *)
(*   - an answer about a key clears the flags (1894, 1911), is stored and  *)
(*     reported, resets the state (1428), clears the flags again (1430)    *)
(*     and disconnects, in five steps.                                     *)
(*                                                                         *)
(* The other handlers of the receive task, the other starts and the end of *)
(* an overdue operation are one step each: what another task does between  *)
(* two statements of one of them is left out.                              *)
(*                                                                         *)
(* Commands go through the list of module BleCmdRing.  Here a command sent *)
(* puts what it may cause the module or the lock to report in due, and a   *)
(* report may come at any later time or never, so that commands lost, not  *)
(* accepted by the list or unanswered are included.  The waits of the send *)
(* task (g_atDiscFlag, g_connectFlag) are BleCmdRing's.                    *)
(*                                                                         *)
(* Left out: the operations nobody starts in this build (broadcast rate,   *)
(* factory reset, time, forced key list).                                  *)
(*                                                                         *)
(* A definition whose comment starts with "Slip" is an action with a       *)
(* plausible programming error and not part of the model.                  *)
(***************************************************************************)
EXTENDS Integers, FiniteSets

CONSTANTS
    Ops,        \* the operations that tasks start
    Authorised, \* get_loginAuthInterval() == 1: the server has let us in
    DealLimit,  \* MAX_DEAL_TIMEOUT (8): seconds for most operations
    PinLimit,   \* MAX_DEAL_TIMEOUT + 10: seconds for setting the PIN
    BindLimit,  \* MAX_DEAL_TIMEOUT + 12: seconds for binding a lock
    BindRetry,  \* seconds of idleness after which binding is tried again
    Rescans,    \* scans repeated while idle (4)
    MaxCalls    \* bound: operations started

AllOps == {"bind", "bymac", "userpin", "unlock", "channel", "lockinfo",
           "remote", "add", "del"}

ASSUME SessionAssumption ==
    /\ Ops \subseteq AllOps
    /\ Authorised \in BOOLEAN
    /\ DealLimit \in Nat \ {0}
    /\ PinLimit \in Nat \ {0}
    /\ BindLimit \in Nat \ {0}
    /\ BindRetry \in Nat \ {0}
    /\ Rescans \in Nat
    /\ MaxCalls \in Nat

VARIABLES
    state,      \* g_BleState
    cnt,        \* TimeoutCnt
    timer,      \* where ble_timeout_thread is: asleep, about to count, about
                \* to end what it found overdue, about to set the flag of a key
                \* again (addAgain, delAgain) or its state (addOn, delOn)
    asker,      \* the eLink task: it has set the flag of a key, not its state
    receiver,   \* where the receive task is in an answer about a key
                \* (report, idle, clear, disc), or in PWD:Y (refresh)
    answered,   \* what that answer is about
    addFlag,    \* g_add_del_tmp_pass: adding a temporary key is to be retried
    delFlag,    \* g_del_tmp_pass: deleting one is
    bindStatus, \* g_bind_status: binding is to be retried
    bindTick,   \* Bind_Timeout
    bindSate,   \* g_bindSate: binding has found its lock
    bound,      \* storage_get_mac_sucess() == 0: a lock is stored
    scanState,  \* g_ScanState
    scanTimes,  \* g_scanTimes
    isCheck,    \* g_IsCheck: the lock's challenge is being answered
    errCnt,     \* errCnt: challenges since the last one ignored
    pwdEcho,    \* g_PwdEcho: the lock has let the gateway in
    linkno,     \* g_linknoflag: no connection
    fresh,      \* LINK:Y came less than 1 s (2), 2 s (1), or longer ago (0)
    touchuan,   \* send_touchuan_flag
    due,        \* reports and answers that may still come
    linked,     \* the module is connected to the lock
    told,       \* the call of g_BleCallBackFunc made by the last step
    calls,      \* operations started
    age,        \* history: seconds counted since the operation is on
    whole,      \* history: it found TimeoutCnt 0 when it started
    resent,     \* history: it was started again after a quick LINK:N
    asked,      \* history: keys asked for (added, deleted) since an answer
                \* about a key was last reported
    crossed     \* history: flags set while an answer or the timer was about to
                \* clear them, or cleared before the state was set

keyVars  == <<addFlag, delFlag>>
bindVars == <<bindStatus, bindTick, bindSate>>
scanVars == <<scanState, scanTimes>>
authVars == <<isCheck, errCnt, pwdEcho>>
taskVars == <<asker, receiver, answered>>
linkVars == <<linkno, fresh, linked>>
history  == <<age, whole, resent, asked, crossed>>
vars == <<state, cnt, timer, asker, receiver, answered, addFlag, delFlag,
          bindStatus, bindTick, bindSate, bound, scanState, scanTimes, isCheck,
          errCnt, pwdEcho, linkno, fresh, touchuan, due, linked, told, calls,
          age, whole, resent, asked, crossed>>

Timed == {"LOCK_BIND", "UNLOCK", "REMO_PASS_UNLOCK", "SET_USERPIN",
          "GET_LOCKINFO"}
Untimed == {"IDLE", "GET_RECORD_INFO", "GET_RECORD_LIST", "GET_LOCK_LIST",
            "ADD_TMP", "DEL_TMP", "SET_CHANNEL"}
States == Timed \cup Untimed

TimeLimit(s) == IF s = "LOCK_BIND" THEN BindLimit
                ELSE IF s = "SET_USERPIN" THEN PinLimit ELSE DealLimit

\* Commands to the lock, and the reports of the module that are waited for:
\* OK+SCAN (after AT+SCAN is written), OK+CON, WAR+LINK:Y, the lock's
\* challenge, OK+PWD, OK+DISC, OK+NAME.
Tunnel == {"unlock", "remote", "add", "del", "getpin", "setpin", "channel",
           "lockinfo", "recinfo", "reclist", "locklist"}
OfLink == Tunnel \cup {"linky", "challenge", "pwd", "name"}
Reports == OfLink \cup {"scan", "scanning", "con", "disc"}

\* The status byte of an answer: bit 7 (failed), bit 5 (the lock has no PIN).
Statuses == {"ok", "fail", "nopin"}
Notices == {"BIND_LOCK", "UNLOCK", "REMO_PASS_UNLOCK", "ADD_TMP", "DEL_TMP",
            "SET_USERPIN", "GET_LOCKINFO", "LOCKCHANNEL", "NEW_RECORD", "ERROR"}
Nothing == [kind |-> "none", status |-> "ok"]

Tell(kind, status) == told' = [kind |-> kind, status |-> status]
TellNothing == told' = Nothing

---------------------------------------------------------------------------
(* Starting an operation.                                                  *)

Called(op) == op \in Ops /\ calls < MaxCalls /\ calls' = calls + 1 /\ TellNothing

\* ble_bind_lock_start
BindStart ==
    /\ state' = "LOCK_BIND"
    /\ due' = due \cup {"scan"}
    /\ scanTimes' = 1
    /\ bindStatus' = 1

StartBind ==
    /\ Called("bind")
    /\ BindStart
    /\ UNCHANGED <<cnt, timer, keyVars, bindTick, bindSate, bound, scanState,
                   authVars, linkVars, touchuan>>

\* ble_bind_lock_bymac, ble_set_userpin, ble_unlock_start, ble_set_channel,
\* ble_get_lockinfo, ble_remote_pwd_unlock_start: the state, and AT+CON.  All
\* but the first need a stored lock.
StateOf == [bymac |-> "LOCK_BIND", userpin |-> "SET_USERPIN",
            unlock |-> "UNLOCK", channel |-> "SET_CHANNEL",
            lockinfo |-> "GET_LOCKINFO", remote |-> "REMO_PASS_UNLOCK"]

StartConnect(op) ==
    /\ Called(op)
    /\ bound \/ op = "bymac"
    /\ state' = StateOf[op]
    /\ due' = due \cup {"con"} \cup
              (IF op = "unlock" /\ state = "GET_RECORD_INFO" THEN {"disc"} ELSE {})
    /\ UNCHANGED <<cnt, timer, keyVars, bindVars, bound, scanVars, authVars,
                   linkVars, touchuan>>

\* Connected and logged in, the command goes out at once; a disconnected
\* module connects first.  (send_touchuan_data sends nothing, and BLE_ERROR is
\* not looked at, while send_touchuan_flag is 1.  Adding a key takes two
\* frames, of which the first goes out even then: the lock may answer it.)
SendAlso(base, c) ==
    /\ due' = IF touchuan = 0 \/ c = "add" THEN base \cup {c} ELSE base
    /\ touchuan' = 1

Send(c) == SendAlso(due, c)

ConnectOr(c) ==
    \/ linkno = 1 /\ due' = due \cup {"con"} /\ UNCHANGED touchuan
    \/ linkno = 0 /\ isCheck = 0 /\ Send(c)
    \/ linkno = 0 /\ isCheck = 1 /\ UNCHANGED <<due, touchuan>>

\* ble_add_tmp_pwd_start, ble_del_tmp_pwd_start, both called by the eLink task
\* only: the flag is set first ...
StartAdd ==
    /\ Called("add")
    /\ asker = "none" /\ asker' = "add"
    /\ addFlag' = 1
    /\ UNCHANGED <<state, cnt, timer, delFlag, bindVars, bound, scanVars, authVars,
                   linkVars, touchuan, due>>

StartDel ==
    /\ Called("del")
    /\ asker = "none" /\ asker' = "del"
    /\ delFlag' = 1
    /\ UNCHANGED <<state, cnt, timer, addFlag, bindVars, bound, scanVars, authVars,
                   linkVars, touchuan, due>>

\* ... then, if a lock is stored, the state.
PutOn(c, s) ==
    /\ asker = c /\ asker' = "none"
    /\ \/ bound /\ state' = s /\ ConnectOr(c)
       \/ ~bound /\ UNCHANGED <<state, due, touchuan>>
    /\ TellNothing
    /\ UNCHANGED <<cnt, timer, keyVars, bindVars, bound, scanVars, authVars,
                   linkVars, calls>>

AddOn == PutOn("add", "ADD_TMP")
DelOn == PutOn("del", "DEL_TMP")

Start ==
    /\ \/ StartAdd \/ StartDel \/ AddOn \/ DelOn
       \/ UNCHANGED asker /\ (StartBind \/ \E op \in DOMAIN StateOf : StartConnect(op))
    /\ UNCHANGED <<receiver, answered>>

---------------------------------------------------------------------------
(* ble_timeout_thread.                                                     *)

BindWanted == state = "IDLE" /\ bindStatus = 1 /\ ~bound

\* A second has passed: is a lock to be bound?
WakeUp ==
    /\ timer = "sleep"
    /\ timer' = "count"
    /\ \/ ~BindWanted
          /\ UNCHANGED <<state, due, scanTimes, bindStatus, bindTick>>
       \/ BindWanted /\ bindTick + 1 < BindRetry
          /\ bindTick' = bindTick + 1
          /\ UNCHANGED <<state, due, scanTimes, bindStatus>>
       \/ BindWanted /\ bindTick + 1 >= BindRetry
          /\ bindTick' = 0
          /\ BindStart
    /\ TellNothing
    /\ UNCHANGED <<cnt, keyVars, bindSate, bound, scanState, authVars,
                   linkVars, touchuan, calls>>

\* (Slip: one second more.)
CountUpTo_Late(limit, what) ==
    /\ cnt' = cnt + 1
    /\ timer' = IF cnt + 1 > limit THEN what ELSE "sleep"

\* ++TimeoutCnt >= limit
CountUpTo(limit, what) ==
    /\ cnt' = cnt + 1
    /\ timer' = IF cnt + 1 >= limit THEN what ELSE "sleep"

Count ==
    /\ timer = "count"
    /\ \/ state \in Timed /\ CountUpTo(TimeLimit(state), state)
       \/ state \in Untimed /\ addFlag = 1 /\ CountUpTo(DealLimit, "add")
       \/ state \in Untimed /\ addFlag = 0 /\ delFlag = 1
          /\ CountUpTo(DealLimit, "del")
       \/ state \in Untimed /\ addFlag = 0 /\ delFlag = 0
          /\ cnt' = 0 /\ timer' = "sleep"
    /\ TellNothing
    /\ UNCHANGED <<state, keyVars, bindVars, bound, scanVars, authVars,
                   linkVars, touchuan, due, calls>>

\* What the end of each operation is reported as.
OverdueNotice == [UNLOCK |-> "UNLOCK", LOCK_BIND |-> "BIND_LOCK",
                  SET_USERPIN |-> "SET_USERPIN", GET_LOCKINFO |-> "ERROR",
                  REMO_PASS_UNLOCK |-> "ERROR"]

\* (Slip: the operation is left on.)
Overdue_LeftOn(s) ==
    /\ timer = s
    /\ timer' = "sleep"
    /\ cnt' = 0
    /\ touchuan' = 0
    /\ due' = due \cup {"disc"}
    /\ Tell(OverdueNotice[s], "fail")
    /\ UNCHANGED <<state, keyVars, bindVars, bound, scanVars, authVars,
                   linkVars, calls>>

\* The operation found overdue is ended, whatever is on by now.  Binding
\* leaves TimeoutCnt as it is; the remote unlock does not disconnect.
Overdue(s) ==
    /\ timer = s
    /\ timer' = "sleep"
    /\ state' = "IDLE"
    /\ cnt' = IF s = "LOCK_BIND" THEN cnt ELSE 0
    /\ touchuan' = 0
    /\ due' = IF s = "REMO_PASS_UNLOCK" THEN due ELSE due \cup {"disc"}
    /\ Tell(OverdueNotice[s], "fail")
    /\ UNCHANGED <<keyVars, bindVars, bound, scanVars, authVars, linkVars, calls>>

\* Adding a temporary key has taken too long: nothing is on, nothing wanted, ...
AddOverdue ==
    /\ timer = "add"
    /\ timer' = "addAgain"
    /\ cnt' = 0 /\ linkno' = 1 /\ touchuan' = 0
    /\ state' = "IDLE"
    /\ addFlag' = 0
    /\ TellNothing
    /\ UNCHANGED <<delFlag, bindVars, bound, scanVars, authVars, fresh, linked, due,
                   calls>>

\* (Slip: the retry does not arm the next one.)
AddAgain_Unarmed ==
    /\ timer = "addAgain"
    /\ timer' = "addOn"
    /\ cnt' = 0
    /\ TellNothing
    /\ UNCHANGED <<state, keyVars, bindVars, bound, scanVars, authVars, linkVars,
                   touchuan, due, calls>>

\* ... and (ble_add_tmp_pwd) it is wanted again, ...
AddAgain ==
    /\ timer = "addAgain"
    /\ timer' = "addOn"
    /\ addFlag' = 1
    /\ cnt' = 0
    /\ TellNothing
    /\ UNCHANGED <<state, delFlag, bindVars, bound, scanVars, authVars, linkVars,
                   touchuan, due, calls>>

\* (Slip: the retry does not start anything.)
AddOnAgain_Idle ==
    /\ timer = "addOn"
    /\ timer' = "sleep"
    /\ TellNothing
    /\ UNCHANGED <<state, cnt, keyVars, bindVars, bound, scanVars, authVars, linkVars,
                   touchuan, due, calls>>

\* ... and on.
AddOnAgain ==
    /\ timer = "addOn"
    /\ timer' = "sleep"
    /\ state' = IF bound THEN "ADD_TMP" ELSE state
    /\ due' = IF bound /\ linkno = 1 THEN due \cup {"con"} ELSE due
    /\ TellNothing
    /\ UNCHANGED <<cnt, keyVars, bindVars, bound, scanVars, authVars, linkVars,
                   touchuan, calls>>

\* So has deleting one: an addition is not wanted any more either.
DelOverdue ==
    /\ timer = "del"
    /\ timer' = "delAgain"
    /\ cnt' = 0 /\ linkno' = 1 /\ touchuan' = 0
    /\ state' = "IDLE"
    /\ addFlag' = 0 /\ delFlag' = 0
    /\ TellNothing
    /\ UNCHANGED <<bindVars, bound, scanVars, authVars, fresh, linked, due, calls>>

\* ble_del_tmp_pwd
DelAgain ==
    /\ timer = "delAgain"
    /\ timer' = "delOn"
    /\ delFlag' = 1
    /\ cnt' = 0
    /\ TellNothing
    /\ UNCHANGED <<state, addFlag, bindVars, bound, scanVars, authVars, linkVars,
                   touchuan, due, calls>>

DelOnAgain ==
    /\ timer = "delOn"
    /\ timer' = "sleep"
    /\ state' = IF bound THEN "DEL_TMP" ELSE state
    /\ \/ bound /\ linkno = 1 /\ due' = due \cup {"con"} /\ UNCHANGED touchuan
       \/ bound /\ linkno = 0 /\ pwdEcho = 1 /\ Send("del")
       \/ ~(bound /\ (linkno = 1 \/ pwdEcho = 1)) /\ UNCHANGED <<due, touchuan>>
    /\ TellNothing
    /\ UNCHANGED <<cnt, keyVars, bindVars, bound, scanVars, authVars, linkVars, calls>>

Retries == AddOverdue \/ AddAgain \/ AddOnAgain
           \/ DelOverdue \/ DelAgain \/ DelOnAgain

TimeoutThread == /\ WakeUp \/ Count \/ Retries \/ \E s \in Timed : Overdue(s)
                 /\ UNCHANGED taskVars

---------------------------------------------------------------------------
(* The other timers.                                                       *)

\* ble_scan_thread, for each stored device (there is one if a lock is stored):
\* idle for long enough, and the gateway authorised, scan for new records or
\* ask for the module's status.
IdleScan ==
    /\ Authorised /\ bound
    /\ state = "IDLE" /\ scanState = 0
    /\ \/ due' = due \cup {"scan"} /\ UNCHANGED bindSate
       \/ bindSate' = 0 /\ UNCHANGED due
    /\ TellNothing
    /\ UNCHANGED <<state, cnt, timer, keyVars, bindStatus, bindTick, bound,
                   scanVars, authVars, linkVars, touchuan, calls>>

\* Ble_Send_deal_thread writes AT+SCAN.
ScanStarts ==
    /\ "scan" \in due
    /\ scanState' = 1
    /\ due' = (due \ {"scan"}) \cup {"scanning"}
    /\ TellNothing
    /\ UNCHANGED <<state, cnt, timer, keyVars, bindVars, bound, scanTimes,
                   authVars, linkVars, touchuan, calls>>

\* ... and gives the scan up after 10 s: whatever is on is ended.
ScanExpires ==
    /\ scanState = 1
    /\ scanState' = 0
    /\ scanTimes' = 0
    /\ bindSate' = 0
    /\ state' = "IDLE"
    /\ TellNothing
    /\ UNCHANGED <<cnt, timer, keyVars, bindStatus, bindTick, bound,
                   authVars, linkVars, touchuan, due, calls>>

\* ble_mesh_timeout_handle: a minute of binding is enough.
MeshExpires ==
    /\ bindStatus = 1
    /\ bindStatus' = 0
    /\ TellNothing
    /\ UNCHANGED <<state, cnt, timer, keyVars, bindTick, bindSate, bound,
                   scanVars, authVars, linkVars, touchuan, due, calls>>

\* A second passes since LINK:Y.
LinkAges ==
    /\ fresh > 0
    /\ fresh' = fresh - 1
    /\ TellNothing
    /\ UNCHANGED <<state, cnt, timer, keyVars, bindVars, bound, scanVars,
                   authVars, linkno, linked, touchuan, due, calls>>

Timers == /\ IdleScan \/ ScanStarts \/ ScanExpires \/ MeshExpires \/ LinkAges
          /\ UNCHANGED taskVars

---------------------------------------------------------------------------
(* The module's reports (deal_recv_ok, deal_recv_war, deal_recv_error).    *)

\* OK+SCAN with devices, or without any.
ScanReport ==
    /\ "scanning" \in due
    /\ scanState' = 0
    /\ LET seen == due \ {"scanning"} IN
       \/ \* binding, a lock is among them: connect to it
          /\ state = "LOCK_BIND"
          /\ scanTimes' = 0 /\ bindSate' = 1
          /\ due' = seen \cup {"con"}
          /\ UNCHANGED state
       \/ \* binding, none is among them: connect to a built-in address
          /\ state = "LOCK_BIND"
          /\ scanTimes' = 0 /\ bindSate' = 0
          /\ due' = seen \cup {"con"}
          /\ UNCHANGED state
       \/ \* binding, no device at all
          /\ state = "LOCK_BIND"
          /\ \/ bindSate = 0 /\ scanTimes' = 0 /\ due' = seen \cup {"con"}
             \/ bindSate = 1 /\ due' = seen /\ UNCHANGED scanTimes
          /\ bindSate' = 1
          /\ UNCHANGED state
       \/ \* idle, the stored lock has new records
          /\ state = "IDLE" /\ bound
          /\ state' = "GET_RECORD_INFO" /\ scanTimes' = 0
          /\ due' = seen \cup {"con"}
          /\ UNCHANGED bindSate
       \/ \* idle, the stored lock has no new record
          /\ state = "IDLE" /\ bound
          /\ scanTimes' = 0 /\ due' = seen
          /\ UNCHANGED <<state, bindSate>>
       \/ \* idle, the stored lock is not among them
          /\ state = "IDLE"
          /\ scanTimes' = IF scanTimes < Rescans THEN scanTimes + 1 ELSE 0
          /\ due' = IF scanTimes < Rescans THEN seen \cup {"scan"} ELSE seen
          /\ UNCHANGED <<state, bindSate>>
       \/ \* idle, no device at all
          /\ state = "IDLE"
          /\ state' = "GET_RECORD_INFO"
          /\ due' = seen \cup {"con"}
          /\ UNCHANGED <<scanTimes, bindSate>>
       \/ \* anything else is on
          /\ state \notin {"IDLE", "LOCK_BIND"}
          /\ due' = seen
          /\ UNCHANGED <<state, scanTimes, bindSate>>
    /\ TellNothing
    /\ UNCHANGED <<cnt, timer, keyVars, bindStatus, bindTick, bound, authVars,
                   linkVars, touchuan, calls>>

\* OK+CON
ConReport ==
    /\ "con" \in due
    /\ linkno' = 0
    /\ due' = (due \ {"con"}) \cup {"linky"}
    /\ TellNothing
    /\ UNCHANGED <<state, cnt, timer, keyVars, bindVars, bound, scanVars,
                   authVars, fresh, linked, touchuan, calls>>

\* WAR+LINK:Y
LinkY ==
    /\ "linky" \in due
    /\ fresh' = 2
    /\ scanState' = 0
    /\ linked' = TRUE
    /\ due' = (due \ {"linky"}) \cup {"challenge"}
    /\ TellNothing
    /\ UNCHANGED <<state, cnt, timer, keyVars, bindVars, bound, scanTimes,
                   authVars, linkno, touchuan, calls>>

\* (Slip: the challenges are never counted from 0 again.)
Challenge_Counts ==
    /\ "challenge" \in due
    /\ isCheck' = 1
    /\ errCnt' = errCnt + 1
    /\ UNCHANGED <<state, cnt, timer, keyVars, bindVars, bound, scanVars, pwdEcho,
                   linkVars, touchuan, due, told, calls>>

\* The lock sends a random number (0x13, or 0x15 to a gateway without a lock);
\* every second one is ignored.
Challenge ==
    /\ "challenge" \in due
    /\ isCheck' = 1
    /\ errCnt' = 1 - errCnt
    /\ due' = IF errCnt = 0 THEN due \cup {"pwd"} ELSE due
    /\ TellNothing
    /\ UNCHANGED <<state, cnt, timer, keyVars, bindVars, bound, scanVars, pwdEcho,
                   linkVars, touchuan, calls>>

\* The command of each operation, sent when the lock has let the gateway in.
CommandOf == [SET_USERPIN |-> "setpin", SET_CHANNEL |-> "channel",
              GET_LOCKINFO |-> "lockinfo", GET_RECORD_INFO |-> "recinfo",
              UNLOCK |-> "unlock", REMO_PASS_UNLOCK |-> "remote",
              ADD_TMP |-> "add", DEL_TMP |-> "del"]

LoggedIn == due \ {"pwd", "challenge"}

\* OK+PWD:Y (deal_login_ok).  What binding goes over to gets its time anew
\* after its command.
PwdYes ==
    /\ "pwd" \in due
    /\ isCheck' = 0
    /\ pwdEcho' = 1
    /\ \/ state = "LOCK_BIND" /\ ~bound
          /\ SendAlso(LoggedIn, "getpin") /\ UNCHANGED <<state, receiver>>
       \/ state = "LOCK_BIND" /\ bound
          /\ state' = "GET_LOCKINFO" /\ SendAlso(LoggedIn, "lockinfo")
          /\ receiver' = "refresh"
       \/ state \in DOMAIN CommandOf
          /\ SendAlso(LoggedIn, CommandOf[state]) /\ UNCHANGED <<state, receiver>>
       \/ state \in {"IDLE", "GET_RECORD_LIST", "GET_LOCK_LIST"}
          /\ due' = LoggedIn /\ UNCHANGED <<state, touchuan, receiver>>
    /\ TellNothing
    /\ UNCHANGED <<cnt, timer, keyVars, bindVars, bound, scanVars, errCnt,
                   linkVars, calls>>

\* refresh_timeout(0), whatever is on by now
Refresh ==
    /\ receiver = "refresh" /\ receiver' = "wait"
    /\ cnt' = 0
    /\ TellNothing
    /\ UNCHANGED <<state, timer, keyVars, bindVars, bound, scanVars, authVars,
                   linkVars, touchuan, due, calls, asker, answered>>

\* deal_error: nothing is on any more; only a failed binding is reported.
Failed(nowDue) ==
    /\ state' = "IDLE"
    /\ touchuan' = 0
    /\ \/ state = "LOCK_BIND"
          /\ due' = nowDue \cup {"disc"} /\ Tell("BIND_LOCK", "fail")
       \/ state # "LOCK_BIND"
          /\ due' = nowDue /\ TellNothing

\* Operations whose deal_error leaves g_ScanState alone.
KeepScan == {"LOCK_BIND", "SET_USERPIN", "SET_CHANNEL", "UNLOCK"}

\* OK+PWD:N
PwdNo ==
    /\ "pwd" \in due
    /\ isCheck' = 0
    /\ pwdEcho' = 0
    /\ Failed(due \ {"pwd"})
    /\ scanState' = IF state \in KeepScan THEN scanState ELSE 0
    /\ UNCHANGED <<cnt, timer, keyVars, bindVars, bound, scanTimes, errCnt,
                   linkVars, calls>>

\* OK+DISC: whatever is on by now is over.
DiscReport ==
    /\ "disc" \in due
    /\ due' = due \ {"disc"}
    /\ state' = "IDLE"
    /\ scanState' = 0 /\ scanTimes' = 0 /\ isCheck' = 0
    /\ TellNothing
    /\ UNCHANGED <<cnt, timer, keyVars, bindVars, bound, errCnt, pwdEcho,
                   linkVars, touchuan, calls>>

\* OK+RESET
ResetReport ==
    /\ bindSate = 1
    /\ bindSate' = 0
    /\ TellNothing
    /\ UNCHANGED <<state, cnt, timer, keyVars, bindStatus, bindTick, bound,
                   scanVars, authVars, linkVars, touchuan, due, calls>>

\* OK+NAME: the lock has keys to list (13_BLE_COMM) or not (03_, 23_).
NameReport ==
    /\ "name" \in due
    /\ \/ state' = "GET_LOCK_LIST" /\ SendAlso(due \ {"name"}, "locklist")
       \/ state' = "IDLE" /\ due' = (due \ {"name"}) \cup {"disc"}
          /\ UNCHANGED touchuan
    /\ TellNothing
    /\ UNCHANGED <<cnt, timer, keyVars, bindVars, bound, scanVars, authVars,
                   linkVars, calls>>

\* The link is lost, or was not made.  What the lock was asked may still be in
\* the list, to be sent over the next link.
StillDue == {due \ OfLink, due \ (OfLink \ Tunnel)}

Unlink ==
    /\ linked \/ "linky" \in due
    /\ linked' = FALSE
    /\ linkno' = 1
    /\ bindSate' = 0

Resendable == \/ state \in {"LOCK_BIND", "ADD_TMP", "DEL_TMP"}
              \/ bound /\ state \in {"UNLOCK", "REMO_PASS_UNLOCK",
                                     "SET_CHANNEL", "SET_USERPIN"}

\* (Slip: refresh_timeout(0) as well.)
Resend_Refreshes ==
    /\ fresh = 2 /\ receiver = "wait"
    /\ Resendable
    /\ Unlink
    /\ \E d \in StillDue : due' = d \cup {"con"}
    /\ cnt' = 0
    /\ UNCHANGED <<state, timer, keyVars, bindStatus, bindTick, bound, scanVars,
                   authVars, fresh, touchuan, told, calls, taskVars>>

\* WAR+LINK:N within a second of LINK:Y (deal_resend): the operation is
\* started again, from AT+CON or AT+SCAN.
Resend ==
    /\ fresh = 2 /\ receiver = "wait"
    /\ Resendable
    /\ Unlink
    /\ \E d \in StillDue :
         \/ state = "LOCK_BIND" /\ due' = d \cup {"scan"}
            /\ scanTimes' = 1 /\ bindStatus' = 1
         \/ state # "LOCK_BIND" /\ due' = d \cup {"con"}
            /\ UNCHANGED <<scanTimes, bindStatus>>
    /\ TellNothing
    /\ UNCHANGED <<state, cnt, timer, keyVars, bindTick, bound, scanState,
                   authVars, fresh, touchuan, calls, taskVars>>

\* WAR+LINK:N otherwise.
LinkN ==
    /\ ~(fresh = 2 /\ Resendable)
    /\ Unlink
    /\ \E d \in StillDue : Failed(d)
    /\ scanState' = 0 /\ scanTimes' = 0 /\ isCheck' = 0
    /\ UNCHANGED <<cnt, timer, keyVars, bindStatus, bindTick, bound, errCnt, pwdEcho,
                   fresh, calls>>

\* Any other warning, during a remote unlock: connect again.
OtherWarning ==
    /\ state = "REMO_PASS_UNLOCK" /\ fresh > 0 /\ linkno = 1 /\ bound
    /\ due' = due \cup {"con"}
    /\ TellNothing
    /\ UNCHANGED <<state, cnt, timer, keyVars, bindVars, bound, scanVars,
                   authVars, linkVars, touchuan, calls>>

\* "E...", and any line not recognised: whatever is on is ended.
ErrorReport ==
    /\ due # {}
    /\ state' = "IDLE"
    /\ TellNothing
    /\ UNCHANGED <<cnt, timer, keyVars, bindVars, bound, scanVars, authVars,
                   linkVars, touchuan, due, calls>>

\* "F..."
FailReport ==
    /\ due # {}
    /\ Failed(due)
    /\ scanState' = 0 /\ scanTimes' = 0 /\ isCheck' = 0
    /\ UNCHANGED <<cnt, timer, keyVars, bindVars, bound, errCnt, pwdEcho,
                   linkVars, calls>>

ModuleReports ==
    /\ receiver = "wait"
    /\ \/ PwdYes
       \/ /\ \/ ScanReport \/ ConReport \/ LinkY \/ Challenge \/ PwdNo
             \/ DiscReport \/ ResetReport \/ NameReport \/ LinkN
             \/ OtherWarning \/ ErrorReport \/ FailReport
          /\ UNCHANGED receiver
    /\ UNCHANGED <<asker, answered>>

---------------------------------------------------------------------------
(* The lock's answers (responsion_cmd_deal): send_touchuan_flag is 0 again.*)

\* notify_lockstate(0, ...): a lock without a PIN is given one, and the answer
\* is not reported.
Notify(nowDue, kind, status, next) ==
    \/ /\ status = "nopin"
       /\ state' = "SET_USERPIN"
       /\ due' = nowDue \cup {"setpin"}
       /\ touchuan' = 1
       /\ TellNothing
    \/ /\ status # "nopin"
       /\ state' = next
       /\ due' = nowDue
       /\ touchuan' = 0
       /\ Tell(kind, status)

\* The operation that is on ends and disconnects, if it is the one answered.
Ending(c, own) == (due \ {c}) \cup (IF own THEN {"disc"} ELSE {})
After(own) == IF own THEN "IDLE" ELSE state

UnlockAnswer(status) ==
    LET own == state = "UNLOCK" IN
    /\ "unlock" \in due
    /\ Notify(Ending("unlock", own), "UNLOCK", status, After(own))
    /\ UNCHANGED <<keyVars, bindStatus, bound, scanState>>

RemoteAnswer(status) ==
    LET own == state = "REMO_PASS_UNLOCK" IN
    /\ "remote" \in due
    /\ Notify(Ending("remote", own), "REMO_PASS_UNLOCK", status, After(own))
    /\ UNCHANGED <<keyVars, bindStatus, bound, scanState>>

\* Setting the channel ends only with OK+DISC.
ChannelAnswer(status) ==
    /\ "channel" \in due
    /\ Notify(Ending("channel", state = "SET_CHANNEL"), "LOCKCHANNEL", status, state)
    /\ UNCHANGED <<keyVars, bindStatus, bound, scanState>>

\* Neither binding nor GET_LOCKINFO ends with these.
InfoAnswer(status) ==
    /\ \E c \in {"getpin", "lockinfo"} :
         c \in due /\ Notify(due \ {c}, "GET_LOCKINFO", status, state)
    /\ UNCHANGED <<keyVars, bindStatus, bound, scanState>>

\* The PIN is stored with the lock's address, and read back by the callback.
\* A lock that still has none is sent another, which is not waited for.
SetPinAnswer(status) ==
    LET own == state = "SET_USERPIN" IN
    /\ "setpin" \in due
    /\ bound' = (bound \/ status # "fail")
    /\ Tell("SET_USERPIN", status)
    /\ \/ /\ status = "nopin"
          /\ state' = "IDLE"
          /\ due' = Ending("setpin", own) \cup {"setpin"}
          /\ touchuan' = 1
          /\ bindStatus' = 0 /\ scanState' = 0
       \/ /\ status # "nopin"
          /\ state' = After(own)
          /\ due' = Ending("setpin", own)
          /\ touchuan' = 0
          /\ UNCHANGED <<bindStatus, scanState>>
    /\ UNCHANGED keyVars

\* The number of new records: ask for them.
RecordInfoAnswer ==
    /\ "recinfo" \in due
    /\ \/ /\ state = "GET_RECORD_INFO"
          /\ state' = "GET_RECORD_LIST"
          /\ due' = (due \ {"recinfo"}) \cup {"reclist"}
          /\ touchuan' = 1
       \/ /\ state # "GET_RECORD_INFO"
          /\ due' = due \ {"recinfo"}
          /\ touchuan' = 0
          /\ UNCHANGED state
    /\ TellNothing
    /\ UNCHANGED <<keyVars, bindStatus, bound, scanState>>

\* Records, or (failed) none: then the lock's name is asked for.
RecordListAnswer(status) ==
    /\ "reclist" \in due
    /\ \/ status = "fail" /\ TellNothing
          /\ due' = (due \ {"reclist"}) \cup {"name"}
       \/ status # "fail" /\ Tell("NEW_RECORD", "ok")
          /\ due' = due \ {"reclist"}
    /\ state' = After(state = "GET_RECORD_LIST")
    /\ touchuan' = 0
    /\ UNCHANGED <<keyVars, bindStatus, bound, scanState>>

LockListAnswer ==
    LET own == state = "GET_LOCK_LIST" IN
    /\ "locklist" \in due
    /\ due' = Ending("locklist", own)
    /\ state' = After(own)
    /\ touchuan' = 0
    /\ TellNothing
    /\ UNCHANGED <<keyVars, bindStatus, bound, scanState>>

Answers ==
    /\ receiver = "wait"
    /\ \/ \E status \in Statuses :
            \/ UnlockAnswer(status) \/ RemoteAnswer(status)
            \/ ChannelAnswer(status) \/ InfoAnswer(status)
            \/ SetPinAnswer(status)
       \/ \E status \in {"ok", "fail"} : RecordListAnswer(status)
       \/ RecordInfoAnswer \/ LockListAnswer
    /\ UNCHANGED <<cnt, timer, bindTick, bindSate, scanTimes, authVars,
                   linkVars, calls, taskVars>>

\* An answer about a temporary key: neither is wanted any more, ...
KeyAnswer(c) ==
    /\ receiver = "wait" /\ receiver' = "report"
    /\ c \in due /\ due' = due \ {c}
    /\ answered' = c
    /\ touchuan' = 0
    /\ addFlag' = 0 /\ delFlag' = 0
    /\ TellNothing
    /\ UNCHANGED <<state, scanState>>

\* ... it is reported by what is on (cmd_tmp_key_list), ...
KeyReport ==
    /\ receiver = "report" /\ receiver' = "idle"
    /\ \E status \in {"ok", "fail"} :
         Tell(IF state = "ADD_TMP" THEN "ADD_TMP" ELSE "DEL_TMP", status)
    /\ UNCHANGED <<state, scanState, keyVars, touchuan, due, answered>>

\* (Slip: what is on goes on.)
KeyIdle_LeftOn ==
    /\ receiver = "idle" /\ receiver' = "clear"
    /\ scanState' = 0
    /\ TellNothing
    /\ UNCHANGED <<state, keyVars, touchuan, due, answered>>

\* ... which is ended, whatever it is by now, ...
KeyIdle ==
    /\ receiver = "idle" /\ receiver' = "clear"
    /\ state' = "IDLE"
    /\ scanState' = 0
    /\ TellNothing
    /\ UNCHANGED <<keyVars, touchuan, due, answered>>

\* ... neither is wanted, once more, ...
KeyClear ==
    /\ receiver = "clear" /\ receiver' = "disc"
    /\ addFlag' = 0 /\ delFlag' = 0
    /\ TellNothing
    /\ UNCHANGED <<state, scanState, touchuan, due, answered>>

\* ... and the same operation, if it is on again already, is ended too.
StateAnswered == IF answered = "add" THEN "ADD_TMP" ELSE "DEL_TMP"

KeyDisc ==
    /\ receiver = "disc" /\ receiver' = "wait"
    /\ answered' = "none"
    /\ \/ state = StateAnswered
          /\ state' = "IDLE"
          /\ due' = due \cup {"disc"}
          /\ addFlag' = IF answered = "add" THEN 0 ELSE addFlag
       \/ state # StateAnswered
          /\ UNCHANGED <<state, due, addFlag>>
    /\ TellNothing
    /\ UNCHANGED <<scanState, delFlag, touchuan>>

KeyAnswers ==
    /\ \/ \E c \in {"add", "del"} : KeyAnswer(c)
       \/ KeyReport \/ KeyIdle \/ KeyClear \/ KeyDisc
    /\ UNCHANGED <<cnt, timer, asker, bindVars, bound, scanTimes, authVars,
                   linkVars, calls>>

---------------------------------------------------------------------------
Init ==
    /\ state = "IDLE" /\ cnt = 0 /\ timer = "sleep"
    /\ asker = "none" /\ receiver = "wait" /\ answered = "none"
    /\ addFlag = 0 /\ delFlag = 0
    /\ bindStatus = 0 /\ bindTick = 0 /\ bindSate = 0
    /\ bound \in BOOLEAN
    /\ scanState = 0 /\ scanTimes = 0
    /\ isCheck = 0 /\ errCnt = 0 /\ pwdEcho = 0
    /\ linkno = 1 /\ fresh = 0 /\ linked = FALSE
    /\ touchuan = 0 /\ due = {}
    /\ told = Nothing /\ calls = 0
    /\ age = 0 /\ whole = TRUE /\ resent = FALSE
    /\ asked = {} /\ crossed = {}

\* The history variables follow every step.  An operation is new when the state
\* changes, when a task starts one, and when refresh_timeout(0) gives what is on
\* its time anew.  Bound: age stops counting when it is over the limit.
NewOperation == \/ state' # state
                \/ calls' # calls /\ asker' = asker
                \/ receiver = "refresh" /\ receiver' = "wait"

Counted == timer = "count" /\ timer' # "count" /\ state \in Timed

Clock(again) ==
    \/ NewOperation /\ age' = 0 /\ whole' = (cnt' = 0) /\ resent' = FALSE
    \/ ~NewOperation /\ Counted /\ UNCHANGED <<whole, resent>>
       /\ age' = IF age > TimeLimit(state) THEN age ELSE age + 1
    \/ ~NewOperation /\ ~Counted /\ resent' = (resent \/ again)
       /\ UNCHANGED <<age, whole>>

\* A step that asks for a key, the flags it sets, and the flags that were set
\* for a state not set yet.
Again(c) == IF c = "add" THEN "addAgain" ELSE "delAgain"
On(c) == IF c = "add" THEN "addOn" ELSE "delOn"

Asking == {c \in {"add", "del"} : asker = "none" /\ asker' = c}
Setting == Asking \cup {c \in {"add", "del"} : timer = Again(c) /\ timer' = On(c)}
HalfSet == {c \in {"add", "del"} : asker = c \/ timer = On(c)}

\* An answer about a key is being handled.
Handling == {"report", "idle", "clear", "disc"}

\* Whoever sets a flag now has it cleared by what is on in another task.
Crossing == {c \in {"add", "del"} :
               receiver \in Handling \/ (c = "add" /\ timer = "del")}

Requests ==
    /\ asked' = IF receiver = "report" /\ receiver' = "idle" THEN {} ELSE asked \cup Asking
    /\ crossed' = IF receiver = "wait" /\ receiver' = "report" THEN crossed \cup HalfSet
                  ELSE (crossed \ Setting) \cup (Setting \cap Crossing)

History(again) == Clock(again) /\ Requests

Steps == Start \/ TimeoutThread \/ Timers \/ ModuleReports \/ Refresh \/ Answers
         \/ KeyAnswers

Next == (Steps /\ History(FALSE)) \/ (Resend /\ History(TRUE))

Spec == Init /\ [][Next]_vars

\* ble_timeout_thread runs every second; nothing else has to happen.
FairSpec == Spec /\ WF_vars(TimeoutThread /\ History(FALSE))

---------------------------------------------------------------------------
ControlTypes ==
    /\ state \in States
    /\ cnt \in Nat
    /\ timer \in Timed \cup {"sleep", "count", "add", "del", "addAgain", "addOn",
                          "delAgain", "delOn"}
    /\ asker \in {"none", "add", "del"}
    /\ receiver \in {"wait", "report", "idle", "clear", "disc", "refresh"}
    /\ answered \in {"none", "add", "del"}
    /\ due \in SUBSET Reports
    /\ told \in [kind : Notices, status : Statuses] \cup {Nothing}
    /\ calls \in Nat

FlagTypes ==
    /\ addFlag \in 0..1 /\ delFlag \in 0..1
    /\ bindStatus \in 0..1 /\ bindTick \in Nat /\ bindSate \in 0..1
    /\ scanState \in 0..1 /\ scanTimes \in Nat
    /\ isCheck \in 0..1 /\ errCnt \in 0..1 /\ pwdEcho \in 0..1
    /\ linkno \in 0..1 /\ fresh \in 0..2
    /\ touchuan \in 0..1

TruthTypes ==
    /\ bound \in BOOLEAN /\ linked \in BOOLEAN
    /\ whole \in BOOLEAN /\ resent \in BOOLEAN

HistoryTypes ==
    /\ age \in Nat
    /\ asked \in SUBSET {"add", "del"} /\ crossed \in SUBSET {"add", "del"}

TypeOK == ControlTypes /\ FlagTypes /\ TruthTypes /\ HistoryTypes

\* The retry flag of each request, and the state it is for.
FlagSet(c) == IF c = "add" THEN addFlag = 1 ELSE delFlag = 1
StateFor(c) == IF c = "add" THEN "ADD_TMP" ELSE "DEL_TMP"

\* A request to add or delete a temporary key is not forgotten before an answer
\* about a key is reported, whatever interrupts it: its flag is set, or the answer
\* that cleared it is yet to be reported, or ble_timeout_thread is about to set
\* it again.  The code keeps this only for a flag that was not set while another
\* task was about to clear it, nor cleared before the state was set.
RequestsKept ==
    \A c \in asked :
      FlagSet(c) \/ receiver = "report" \/ timer = Again(c) \/ c \in crossed

\* While a temporary key is being added or deleted, which has no time limit of its
\* own, ble_timeout_thread will try again: the flag is set or about to be, or the
\* answer that ends the operation is being handled.  The same exception holds.
RetryArmed ==
    \A c \in {"add", "del"} : state = StateFor(c) =>
      FlagSet(c) \/ receiver \in {"report", "idle"} \/ timer = Again(c) \/ c \in crossed

\* No operation with a time limit outlasts it: when its seconds are up, the
\* timer has already decided to end it.
NeverLate ==
    state \in Timed =>
      /\ age <= cnt
      /\ age <= TimeLimit(state)
      /\ age = TimeLimit(state) => timer = state

\* An operation that found TimeoutCnt 0 has all of its time: TimeoutCnt counts
\* its own seconds only, through every resend and whatever else happens.
CountsItsOwn ==
    state \in Timed /\ whole => cnt = age

\* Every operation with a time limit is left, whatever the module and the lock
\* do or fail to do.
EndsInTime == \A s \in Timed : (state = s) ~> (state # s)

\* A request to add a temporary key that another operation interrupted is taken
\* up again, unless an answer about a key has come meanwhile.
AddWanted == addFlag = 1 \/ timer \in {"addAgain", "addOn"}
AddTakenUp == (AddWanted /\ bound) ~> (state = "ADD_TMP" \/ ~AddWanted)

\* #define MAX_DEAL_TIMEOUT 8 // 8 seconds: an unlock is not given up before.
FullTime ==
    [][Overdue("UNLOCK") /\ state = "UNLOCK" => age >= TimeLimit("UNLOCK")]_vars

\* A deletion is reported when the lock has answered about a deletion.
DeletionReported ==
    [][KeyReport /\ told'.kind = "DEL_TMP" => answered = "del"]_vars

\* After a quick LINK:N the operation is sent again: logged in once more, the
\* gateway sends the lock its command.
ResendSends ==
    [][PwdYes /\ resent /\ state = "UNLOCK" => "unlock" \in due']_vars
=============================================================================
