------------------------------ MODULE BleStore ------------------------------
(***************************************************************************)
(* What the gateway keeps in flash about its lock                          *)
(* (flash/storage_ble_logic.c, flash/flash_storage_object.c,               *)
(* flash/flash.c), and the two tasks that use it: the eLink task, which    *)
(* orders temporary keys to be added and deleted, and the task that        *)
(* receives the lock's answers, which alone writes:                        *)
(*                                                                         *)
(*   device    the lock and its PIN                                        *)
(*   status    whether the lock has been taken in, the admin's password    *)
(*   list      the temporary keys                                          *)
(*                                                                         *)
(* Each is in a block of its own, and a write reads its block, erases it   *)
(* and writes it back: two steps here, between which the block is blank    *)
(* for the eLink task, and for good if the power fails.                    *)
(*                                                                         *)
(* The flash driver is taken to succeed: no erase and no write fails.      *)
(*                                                                         *)
(* External: the lock, and the connection to it, which loses commands and  *)
(* answers.  The lock's step is part of the step that sends to it.         *)
(*                                                                         *)
(* A definition whose comment starts with "Slip" is an action with a       *)
(* plausible programming error and not part of the model.                  *)
(***************************************************************************)
EXTENDS Integers, Sequences, FiniteSets

CONSTANTS
    TopId,          \* numbers of temporary keys: 0 .. TopId
    LastId,         \* the greatest one accepted from the lock (10)
    MaxTemp,        \* BLE_LIST_TMEPMAX_NUM (10)
    Text,           \* what strcmp finds where a stored number points
    Passwords,      \* passwords of the lock's administrator
    MaxOrders,      \* bound: orders of the platform, and other operations
    MaxAnswers,     \* bound: answers of the lock waiting to be handled
    MaxCuts         \* bound: power cuts

Keys == 0 .. TopId
Free == -1          \* 0 or 0xffff: no key in this place
Places == 0 .. MaxTemp
NoPwd == "none"     \* all 0
Blank == "blank"    \* all 0xff

ASSUME StoreAssumption ==
    /\ TopId \in Nat /\ LastId \in Nat /\ MaxTemp \in Nat \ {0}
    /\ LastId <= MaxTemp
    /\ MaxOrders \in Nat /\ MaxAnswers \in Nat /\ MaxCuts \in Nat
    /\ NoPwd \notin Passwords /\ Blank \notin Passwords

VARIABLES
    device,         \* flash: a lock and its PIN are stored
    status,         \* flash: isOperSuccess = 1, and g_adminpwd
    list,           \* flash: the temporary keys
    g_locklistNum,
    g_adminpwd,
    g_usrid,
    g_BleState,     \* "add", "del", or anything else: "other"
    addFlag,        \* g_add_del_tmp_pass
    delFlag,        \* g_del_tmp_pass
    toSend,         \* the lock is being connected to, to send a command
    timer,          \* where the timer is: it has decided to repeat an order
                    \* ("add", "del"), has given it up (... "Off") to repeat it
    receiver,       \* where the receive task is
    answer,         \* the answer it is handling
    block,          \* what it is about to write to the block it has erased
    answers,        \* external: answers on their way
    lockKeys,       \* external: the temporary keys in the lock
    orders, cuts,   \* bounds
    astray,         \* history: what the gateway believes and what the lock
                    \* did may differ for a reason other than the storage
    wiped,          \* history: no key was added since the password was wiped
    torn            \* history: the power failed while device was blank

flash == <<device, status, list>>
ram == <<g_locklistNum, g_adminpwd, g_usrid, g_BleState, addFlag, delFlag, toSend,
         timer>>
task == <<receiver, answer, block>>
outside == <<answers, lockKeys, orders, cuts>>
history == <<astray, wiped, torn>>
vars == <<device, status, list, g_locklistNum, g_adminpwd, g_usrid, g_BleState,
          addFlag, delFlag, toSend, timer, receiver, answer, block, answers, lockKeys,
          orders, cuts, astray, wiped, torn>>

Lists == [Places -> Keys \cup {Free}]
Statuses == [joined : BOOLEAN, admin : Passwords \cup {NoPwd, Blank}]
Stored == [slots : Lists, num : 0 .. MaxTemp + 1]
Answers == [kind : {"add", "del", "record", "pin"}, id : Keys, ok : BOOLEAN]
Where == {"wait", "admin", "adminWrite", "notify", "add", "delete", "listWrite",
          "device", "deviceWrite", "join", "joinWrite", "finish"}

BlankList == [i \in Places |-> Free]
BlankStatus == [joined |-> FALSE, admin |-> Blank]
NoAnswer == [kind |-> "record", id |-> 0, ok |-> FALSE]

\* The keys of the list, as the code that is running knows them.
Listed == {list[i] : i \in 0 .. g_locklistNum - 1}

\* An order has been given and has not been answered, or is to be repeated.
Outstanding == g_BleState # "other" \/ addFlag \/ delFlag \/ toSend \/ timer # "sleep"

\* An answer to an order is on its way or being handled.
Answering ==
    \/ \E i \in DOMAIN answers : answers[i].kind \in {"add", "del"}
    \/ receiver # "wait" /\ answer.kind \in {"add", "del"}

---------------------------------------------------------------------------
(* The eLink task, and the timer that repeats what was not answered.       *)

Ordered == orders < MaxOrders /\ orders' = orders + 1

\* ble_add_tmp_pwd_start: the password comes with the order.  The command is
\* built later, from g_BleState, g_usrid and g_adminpwd.
OrderAdd ==
    /\ Ordered
    /\ \E id \in Keys, pwd \in Passwords : g_usrid' = id /\ g_adminpwd' = pwd
    /\ g_BleState' = "add"
    /\ addFlag' = TRUE /\ toSend' = TRUE
    /\ astray' = (astray \/ Outstanding)
    /\ UNCHANGED <<flash, g_locklistNum, delFlag, timer, task, answers, lockKeys,
                   cuts, wiped, torn>>

\* ble_del_tmp_pwd_start: the password is the one in flash, right now.
OrderDelete ==
    /\ Ordered
    /\ \E id \in Keys : g_usrid' = id
    /\ g_adminpwd' = status.admin
    /\ g_BleState' = "del"
    /\ delFlag' = TRUE /\ toSend' = TRUE
    /\ astray' = (astray \/ Outstanding)
    /\ UNCHANGED <<flash, g_locklistNum, addFlag, timer, task, answers, lockKeys,
                   cuts, wiped, torn>>

\* ble_timeout_thread, MAX_DEAL_TIMEOUT after an order, finds a flag set.
Decide ==
    /\ timer = "sleep" /\ (addFlag \/ delFlag)
    /\ timer' = IF addFlag THEN "add" ELSE "del"
    /\ UNCHANGED <<flash, g_locklistNum, g_adminpwd, g_usrid, g_BleState, addFlag,
                   delFlag, toSend, task, outside, history>>

\* Whatever has become of the order since, it is given up, ...
GiveUp ==
    /\ timer \in {"add", "del"}
    /\ timer' = IF timer = "add" THEN "addOff" ELSE "delOff"
    /\ g_BleState' = "other"
    /\ addFlag' = FALSE /\ delFlag' = (delFlag /\ timer = "add")
    /\ astray' = (astray \/ Answering)
    /\ UNCHANGED <<flash, g_locklistNum, g_adminpwd, g_usrid, toSend, task, outside,
                   wiped, torn>>

\* ... and given again: ble_add_tmp_pwd or ble_del_tmp_pwd.
Repeat ==
    /\ timer \in {"addOff", "delOff"}
    /\ timer' = "sleep"
    /\ g_BleState' = IF timer = "addOff" THEN "add" ELSE "del"
    /\ addFlag' = (addFlag \/ timer = "addOff")
    /\ delFlag' = (delFlag \/ timer = "delOff")
    /\ toSend' = TRUE
    /\ astray' = (astray \/ Answering)
    /\ UNCHANGED <<flash, g_locklistNum, g_adminpwd, g_usrid, task, outside, wiped,
                   torn>>

\* Another operation takes over, and the answer to it is none of this module's.
Other ==
    /\ Ordered
    /\ g_BleState' = "other"
    /\ astray' = (astray \/ Outstanding)
    /\ UNCHANGED <<flash, g_locklistNum, g_adminpwd, g_usrid, addFlag, delFlag,
                   toSend, timer, task, answers, lockKeys, cuts, wiped, torn>>

---------------------------------------------------------------------------
(* The lock.                                                               *)

Arrives(kind, id, ok) ==
    /\ Len(answers) < MaxAnswers
    /\ answers' = Append(answers, [kind |-> kind, id |-> id, ok |-> ok])

\* What the lock does with a command.  A lock that refuses what it has already
\* done leaves the gateway with the wrong idea.
Obeys(kind) == lockKeys' = IF kind = "add" THEN lockKeys \cup {g_usrid}
                           ELSE lockKeys \ {g_usrid}
DoneBefore(kind) == (kind = "add") = (g_usrid \in lockKeys)

\* deal_login_ok: connected and let in.  The command is lost, or is obeyed and
\* its answer is lost, or it is obeyed or refused and answered.
Login ==
    /\ toSend
    /\ toSend' = FALSE
    /\ \/ UNCHANGED <<lockKeys, answers, astray>>
       \/ g_BleState # "other" /\ Obeys(g_BleState) /\ UNCHANGED <<answers, astray>>
       \/ /\ g_BleState # "other"
          /\ Obeys(g_BleState) /\ Arrives(g_BleState, g_usrid, TRUE)
          /\ UNCHANGED astray
       \/ /\ g_BleState # "other"
          /\ Arrives(g_BleState, g_usrid, FALSE)
          /\ astray' = (astray \/ DoneBefore(g_BleState))
          /\ UNCHANGED lockKeys
    /\ UNCHANGED <<flash, g_locklistNum, g_adminpwd, g_usrid, g_BleState, addFlag,
                   delFlag, timer, task, orders, cuts, wiped, torn>>

\* The lock drops a key by itself, and its record of it is fetched.
Expire ==
    /\ \E id \in lockKeys : lockKeys' = lockKeys \ {id} /\ Arrives("record", id, TRUE)
    /\ UNCHANGED <<flash, ram, task, orders, cuts, history>>

\* The lock is taken in: it is sent a PIN, which it takes over or refuses.
TakenIn ==
    /\ Ordered
    /\ \E ok \in BOOLEAN : Arrives("pin", 0, ok)
    /\ g_BleState' = "other"
    /\ astray' = (astray \/ Outstanding)
    /\ UNCHANGED <<flash, g_locklistNum, g_adminpwd, g_usrid, addFlag, delFlag,
                   toSend, timer, task, lockKeys, cuts, wiped, torn>>

---------------------------------------------------------------------------
(* The receive task: distribute_cmd_deal.                                  *)

\* Slip: a lock that got its PIN is taken in and not stored.
SlipReceive ==
    /\ receiver = "wait" /\ answers # << >>
    /\ answer' = Head(answers)
    /\ answers' = Tail(answers)
    /\ LET tmp == answer'.kind \in {"add", "del"}
       IN /\ addFlag' = (addFlag /\ ~tmp)
          /\ delFlag' = (delFlag /\ ~tmp)
          /\ receiver' = IF tmp
                           THEN IF answer'.ok /\ g_BleState = "add"
                                  THEN "admin" ELSE "notify"
                         ELSE IF ~answer'.ok THEN "wait"
                         ELSE IF answer'.kind = "record" THEN "delete"
                         ELSE "join"
    /\ UNCHANGED <<flash, g_locklistNum, g_adminpwd, g_usrid, g_BleState, toSend,
                   timer, block, lockKeys, orders, cuts, history>>

\* The next answer.  cmd_tmp_key_list tests g_BleState for the first time.
Receive ==
    /\ receiver = "wait" /\ answers # << >>
    /\ answer' = Head(answers)
    /\ answers' = Tail(answers)
    /\ LET tmp == answer'.kind \in {"add", "del"}
       IN /\ addFlag' = (addFlag /\ ~tmp)
          /\ delFlag' = (delFlag /\ ~tmp)
          /\ receiver' = IF tmp
                           THEN IF answer'.ok /\ g_BleState = "add"
                                  THEN "admin" ELSE "notify"
                         ELSE IF ~answer'.ok THEN "wait"
                         ELSE IF answer'.kind = "record" THEN "delete"
                         ELSE "device"
    /\ UNCHANGED <<flash, g_locklistNum, g_adminpwd, g_usrid, g_BleState, toSend,
                   timer, block, lockKeys, orders, cuts, history>>

\* The task is at next, with new in its buffer: what it is about to write to a
\* block it has erased, or nothing any more.
Holds(next, new) == receiver' = next /\ block' = new

\* Slip: a password that is there is taken for the right one.
SlipSetAdmin ==
    /\ receiver = "admin"
    /\ IF status.admin # Blank
         THEN /\ receiver' = "notify"
              /\ UNCHANGED <<status, block>>
         ELSE /\ status' = BlankStatus
              /\ Holds("adminWrite", [status EXCEPT !.admin = g_adminpwd])
    /\ UNCHANGED <<device, list, ram, answer, outside, history>>

\* ble_set_adminpassword
SetAdmin ==
    /\ receiver = "admin"
    /\ IF status.admin = g_adminpwd
         THEN /\ receiver' = "notify"
              /\ UNCHANGED <<status, block>>
         ELSE /\ status' = BlankStatus
              /\ Holds("adminWrite", [status EXCEPT !.admin = g_adminpwd])
    /\ UNCHANGED <<device, list, ram, answer, outside, history>>

WriteAdmin ==
    /\ receiver = "adminWrite"
    /\ status' = block
    /\ Holds("notify", BlankStatus)
    /\ UNCHANGED <<device, list, ram, answer, outside, history>>

\* Slip: bit 7 of the lock's answer is not looked at.
SlipNotify ==
    /\ receiver = "notify"
    /\ receiver' = IF answer.id > LastId THEN "finish"
                   ELSE IF g_BleState = "add" THEN "add" ELSE "delete"
    /\ UNCHANGED <<flash, ram, answer, block, outside, history>>

\* cmd_tmp_key_list tests g_BleState again and calls main_ble_callback_proc,
\* which drops numbers that are too great.
Notify ==
    /\ receiver = "notify"
    /\ receiver' = IF ~answer.ok \/ answer.id > LastId THEN "finish"
                   ELSE IF g_BleState = "add" THEN "add" ELSE "delete"
    /\ UNCHANGED <<flash, ram, answer, block, outside, history>>

\* Slip: the list is not searched for the number.
SlipAdded(id) ==
    [slots |-> [list EXCEPT ![g_locklistNum] = id], num |-> g_locklistNum + 1]

\* stor_templocklist_write(OBJECT_UPDATE_ADD): in the place the number has, or
\* in the first place after the list.
Added(id) ==
    IF id \in Listed
      THEN [slots |-> list, num |-> g_locklistNum]
      ELSE [slots |-> [list EXCEPT ![g_locklistNum] = id], num |-> g_locklistNum + 1]

Add ==
    /\ receiver = "add"
    /\ IF g_locklistNum > MaxTemp
         THEN receiver' = "finish" /\ UNCHANGED <<list, block, wiped>>
         ELSE /\ list' = BlankList /\ Holds("listWrite", Added(answer.id))
              /\ wiped' = FALSE
    /\ UNCHANGED <<device, status, ram, answer, outside, astray, torn>>

\* stor_del_templsit: the first entry whose number compares equal goes, and
\* those after it move up.
Match(id, i) ==
    /\ i < g_locklistNum
    /\ Text[list[i]] = Text[id]
    /\ \A j \in 0 .. i - 1 : Text[list[j]] # Text[id]

\* Slip: the last place keeps its number.
SlipDeleted(i) ==
    [slots |-> [j \in Places |-> IF j < i \/ j >= g_locklistNum - 1 THEN list[j]
                                 ELSE list[j + 1]],
     num |-> g_locklistNum - 1]

Deleted(i) ==
    [slots |-> [j \in Places |-> IF j < i \/ j >= g_locklistNum THEN list[j]
                                 ELSE IF j = g_locklistNum - 1 THEN Free
                                 ELSE list[j + 1]],
     num |-> g_locklistNum - 1]

\* Slip: a number that is not found is counted as deleted.
SlipDelete ==
    /\ receiver = "delete"
    /\ list' = BlankList
    /\ \/ \E i \in Places :
            /\ Match(answer.id, i)
            /\ Holds("listWrite", Deleted(i))
            /\ astray' = (astray \/ list[i] # answer.id)
       \/ /\ ~ \E i \in Places : Match(answer.id, i)
          /\ Holds("listWrite", [slots |-> list, num |-> g_locklistNum - 1])
          /\ UNCHANGED astray
    /\ UNCHANGED <<device, status, ram, answer, outside, wiped, torn>>

Delete ==
    /\ receiver = "delete"
    /\ \/ /\ \E i \in Places :
                /\ Match(answer.id, i)
                /\ Holds("listWrite", Deleted(i))
                /\ astray' = (astray \/ list[i] # answer.id)
          /\ list' = BlankList
       \/ /\ ~ \E i \in Places : Match(answer.id, i)
          /\ receiver' = "finish"
          /\ UNCHANGED <<list, block, astray>>
    /\ UNCHANGED <<device, status, ram, answer, outside, wiped, torn>>

WriteList ==
    /\ receiver = "listWrite"
    /\ list' = block.slots
    /\ g_locklistNum' = block.num
    /\ Holds("finish", BlankStatus)
    /\ UNCHANGED <<device, status, g_adminpwd, g_usrid, g_BleState, addFlag,
                   delFlag, toSend, timer, answer, outside, history>>

\* CMD_BLE_SET_PIN: storage_write_dev_obj, then BLE_NOTI_SET_USERPIN.
SetDevice ==
    /\ receiver = "device"
    /\ device' = FALSE
    /\ receiver' = "deviceWrite"
    /\ UNCHANGED <<status, list, ram, answer, block, outside, history>>

WriteDevice ==
    /\ receiver = "deviceWrite"
    /\ device' = TRUE
    /\ receiver' = "join"
    /\ torn' = FALSE
    /\ UNCHANGED <<status, list, ram, answer, block, outside, astray, wiped>>

\* The whole status is set to 0 but for isOperSuccess.
Join ==
    /\ receiver = "join"
    /\ status' = BlankStatus
    /\ Holds("joinWrite", [joined |-> TRUE, admin |-> NoPwd])
    /\ wiped' = TRUE
    /\ UNCHANGED <<device, list, ram, answer, outside, astray, torn>>

WriteJoin ==
    /\ receiver = "joinWrite"
    /\ status' = block
    /\ Holds("wait", BlankStatus) /\ answer' = NoAnswer
    /\ UNCHANGED <<device, list, ram, outside, history>>

\* The end of cmd_tmp_key_list.  A record of the lock changes no state.
Finish ==
    /\ receiver = "finish"
    /\ IF answer.kind = "record" THEN UNCHANGED <<g_BleState, addFlag, delFlag>>
       ELSE g_BleState' = "other" /\ addFlag' = FALSE /\ delFlag' = FALSE
    /\ receiver' = "wait" /\ answer' = NoAnswer
    /\ UNCHANGED <<flash, g_locklistNum, g_adminpwd, g_usrid, toSend, timer, block,
                   outside, history>>

---------------------------------------------------------------------------
(* Restarts.                                                               *)

\* Slip: one place too few is looked at.
SlipCountOf(slots) ==
    CHOOSE n \in 0 .. MaxTemp - 1 :
        /\ \A i \in 0 .. n - 1 : slots[i] # Free
        /\ n = MaxTemp - 1 \/ slots[n] = Free

\* storage_get_locklist_num: the places used before the first free one, of the
\* first MaxTemp.
CountOf(slots) ==
    CHOOSE n \in 0 .. MaxTemp :
        /\ \A i \in 0 .. n - 1 : slots[i] # Free
        /\ n = MaxTemp \/ slots[n] = Free

Settled == receiver = "wait" /\ answers = << >> /\ ~Outstanding

\* The power fails and comes back: what is in RAM or on its way is lost.
PowerCut ==
    /\ cuts < MaxCuts /\ cuts' = cuts + 1
    /\ g_locklistNum' = CountOf(list)
    /\ g_adminpwd' = NoPwd /\ g_usrid' = 0 /\ g_BleState' = "other"
    /\ addFlag' = FALSE /\ delFlag' = FALSE /\ toSend' = FALSE
    /\ timer' = "sleep"
    /\ receiver' = "wait" /\ answer' = NoAnswer /\ block' = BlankStatus
    /\ answers' = << >>
    /\ astray' = (astray \/ ~Settled \/ g_locklistNum > MaxTemp)
    /\ wiped' = (wiped \/ receiver \in {"adminWrite", "joinWrite"})
    /\ torn' = (torn \/ receiver = "deviceWrite")
    /\ UNCHANGED <<flash, lockKeys, orders>>

---------------------------------------------------------------------------
Init ==
    /\ device = FALSE /\ status = BlankStatus /\ list = BlankList
    /\ g_locklistNum = 0 /\ g_adminpwd = NoPwd /\ g_usrid = 0
    /\ g_BleState = "other" /\ addFlag = FALSE /\ delFlag = FALSE /\ toSend = FALSE
    /\ timer = "sleep"
    /\ receiver = "wait" /\ answer = NoAnswer /\ block = BlankStatus
    /\ answers = << >> /\ lockKeys = {} /\ orders = 0 /\ cuts = 0
    /\ astray = FALSE /\ wiped = FALSE /\ torn = FALSE

Platform == OrderAdd \/ OrderDelete \/ Other
Timer == Decide \/ GiveUp \/ Repeat
Lock == Login \/ Expire \/ TakenIn
Receiver == Receive \/ SetAdmin \/ WriteAdmin \/ Notify \/ Add \/ Delete
            \/ WriteList \/ SetDevice \/ WriteDevice \/ Join \/ WriteJoin \/ Finish

Next == Platform \/ Timer \/ Lock \/ Receiver \/ PowerCut

Spec == Init /\ [][Next]_vars

---------------------------------------------------------------------------
(* Properties.                                                             *)

TypeOK ==
    /\ device \in BOOLEAN /\ status \in Statuses /\ list \in Lists
    /\ g_locklistNum \in 0 .. MaxTemp + 1
    /\ g_adminpwd \in Passwords \cup {NoPwd, Blank}
    /\ g_usrid \in Keys /\ g_BleState \in {"add", "del", "other"}
    /\ addFlag \in BOOLEAN /\ delFlag \in BOOLEAN /\ toSend \in BOOLEAN
    /\ timer \in {"sleep", "add", "del", "addOff", "delOff"}
    /\ receiver \in Where /\ answer \in Answers
    /\ block \in Statuses \cup Stored
    /\ receiver = "listWrite" => block \in Stored
    /\ receiver \in {"adminWrite", "joinWrite"} => block \in Statuses
    /\ answers \in Seq(Answers) /\ lockKeys \subseteq Keys
    /\ orders \in Nat /\ cuts \in Nat
    /\ astray \in BOOLEAN /\ wiped \in BOOLEAN /\ torn \in BOOLEAN

\* No number is in the list twice, though commands are repeated and answered
\* twice, and numbers that fall out of the list at a restart come back.
NoTwice ==
    receiver # "listWrite" =>
        \A i, j \in 0 .. g_locklistNum - 1 : list[i] = list[j] => i = j

\* What is counted in RAM is what a restart would count, up to MaxTemp: after
\* every addition and deletion the list in flash ends with a free place.
Counted ==
    receiver # "listWrite" =>
        CountOf(list) = IF g_locklistNum > MaxTemp THEN MaxTemp ELSE g_locklistNum

\* As long as orders come one at a time, no answer is taken for the other
\* command's and the power does not fail at work, the list is the lock's list
\* whenever nothing is under way: commands and answers may be lost, repeated
\* and refused, keys may expire, the gateway may be restarted.
Agreement == Settled /\ ~astray => Listed = {k \in lockKeys : k <= LastId}

\* A lock that was taken in is stored with its PIN, unless the power failed
\* while the lock was being stored again: the two are written one after the
\* other.
JoinedIsStored == status.joined => device \/ receiver = "deviceWrite" \/ torn

\* The administrator's password is at hand for deleting any key in the list,
\* unless taking in the lock again, or a power cut, has wiped it.
AdminStored ==
    receiver = "wait" /\ ~astray /\ ~wiped /\ g_locklistNum > 0
        => status.admin \in Passwords

\* The list is KeyStore's set of keys.  While its block is blank, the set is
\* already the one about to be written.
keysOf == IF receiver = "listWrite" THEN {block.slots[i] : i \in 0 .. block.num - 1}
          ELSE Listed
aboutOf == IF receiver \in {"admin", "adminWrite", "notify", "add", "delete",
                            "listWrite", "finish"}
           THEN answer.id ELSE -1
Store == INSTANCE KeyStore WITH keys <- keysOf, about <- aboutOf, Last <- LastId,
                                Limit <- MaxTemp
StoreSpec == Store!Spec
=============================================================================
