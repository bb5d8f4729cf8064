---------------------------- MODULE BleCmdRing ----------------------------
(***************************************************************************)
(* The list of commands on their way to the BLE module                     *)
(* (ble/bluetooth_logic.c: mATcmdList, mPutIndex, mGetIndex) with          *)
(*                                                                         *)
(*   - the tasks that enqueue: any task may call ATCmdSend (one AT         *)
(*     command), send_touchuan_data or send_touchuan_mult_data (one        *)
(*     command to the lock, cut into frames).  They exclude each other     *)
(*     with g_MutexFlag, a plain byte that is tested in one statement and  *)
(*     set in a later one;                                                 *)
(*   - Ble_Send_deal_thread, which takes the oldest command and writes it  *)
(*     to the serial port, unless it waits for the end of a scan, for the  *)
(*     answer to AT+CON, or for LINK:N after OK+DISC.  It enqueues too:    *)
(*     two of its time limits send AT+RESET;                               *)
(*   - the BLE module, whose answers (handled by the receive task) end     *)
(*     these waits.                                                        *)
(*                                                                         *)
(* All tasks run at MICO_APPLICATION_PRIORITY and the kernel slices time   *)
(* between them.  The statements that enqueue and retire a command, on     *)
(* which the list depends, are steps of their own; the tests at the top of *)
(* the send loop are one step, and so is the handler of a report, whose    *)
(* assignments to the waits do not depend on what it reads.  A time limit  *)
(* is a step that may happen whenever its wait is on.                      *)
(*                                                                         *)
(* Two history variables: clean says that so far no task entered the       *)
(* enqueueing section while another was in it and no command was stored    *)
(* over one not yet retired; fifo is the queue the list stands for.        *)
(*                                                                         *)
(* A definition whose comment starts with "Slip" is not part of the model: *)
(* it is an action with a plausible programming error, which the checks    *)
(* must notice when it takes the place of the action that follows it.      *)
(***************************************************************************)
EXTENDS Integers, Sequences, FiniteSets

CONSTANTS
    Tasks,      \* tasks that enqueue, the send task apart
    Sender,     \* Ble_Send_deal_thread
    RingSize,   \* MAX_ATCMDLIST_SZIE
    MaxFrames,  \* bound: frames of one command to the lock (PacketNum)
    MaxCalls    \* bound: calls made by Tasks, and unasked OK+DISC reports

ASSUME RingAssumption ==
    /\ Sender \notin Tasks
    /\ RingSize \in 1..254
    /\ MaxFrames \in Nat \ {0}
    /\ MaxCalls \in Nat

VARIABLES
    slot,       \* mATcmdList: a command, or Free when its send_flag is 0
    put,        \* mPutIndex
    get,        \* mGetIndex
    mutex,      \* g_MutexFlag
    touchuan,   \* send_touchuan_flag: a command to the lock is on its way
    scanState,  \* g_ScanState: a scan is going on
    connect,    \* g_connectFlag: waiting for OK+CON
    atDisc,     \* g_atDiscFlag: waiting for LINK:N
    pc,         \* where each producer is in its call
    job,        \* what each producer is enqueueing
    snd,        \* where the send thread is in its loop
    port,       \* the last command written to the serial port
    calls,      \* calls made so far
    clean,      \* history: neither overlap nor overflow so far
    fifo,       \* history: commands stored and not yet written to the port
    backed      \* history: the command touchuan stands for was stored

ringVars == <<slot, put, get, mutex>>
gateVars == <<scanState, connect, atDisc>>
histVars == <<port, calls, clean, fifo, backed>>
vars == <<slot, put, get, mutex, touchuan, scanState, connect, atDisc,
          pc, job, snd, port, calls, clean, fifo, backed>>

Producers == Tasks \cup {Sender}

\* The commands the send thread tells apart (send_flag and send_type):
\* AT+SCAN, AT+CON, other AT commands, frames to the lock.
ATKinds == {"scan", "con", "other"}
Kinds == ATKinds \cup {"tunnel"}

\* AT+RESET of the send thread, and the value of job outside calls, is NoJob.
\* id is the call that made the command (0 for the send thread's AT+RESET),
\* left the number of frames that follow it.
Cmd == [kind : Kinds, id : Nat, left : Nat]
Free == [kind |-> "free", id |-> 0, left |-> 0]

NoJob == [kind |-> "other", id |-> 0, left |-> 0, guarded |-> FALSE]

Command(t) == [kind |-> job[t].kind, id |-> job[t].id, left |-> job[t].left]

\* The statements between g_MutexFlag = 1 and g_MutexFlag = 0.
Inside(t) == pc[t] \in {"store", "advance", "wrap"}

---------------------------------------------------------------------------
(* Enqueueing: ATCmdSend, send_touchuan_data, send_touchuan_mult_data.     *)

Begin(t, kind, frames, guarded) ==
    /\ pc[t] = "idle"
    /\ calls < MaxCalls
    /\ calls' = calls + 1
    /\ job' = [job EXCEPT ![t] = [kind |-> kind, id |-> calls + 1,
                                  left |-> frames - 1, guarded |-> guarded]]

\* ATCmdSend(cmd, ...) is called.
ATCmdSend(t) ==
    /\ \E kind \in ATKinds : Begin(t, kind, 1, FALSE)
    /\ pc' = [pc EXCEPT ![t] = "test"]
    /\ UNCHANGED <<ringVars, gateVars, touchuan, snd, port, clean, fifo, backed>>

\* send_touchuan_mult_data(...) is called: no test of send_touchuan_flag.
SendMult(t) ==
    /\ Begin(t, "tunnel", 1, FALSE)
    /\ pc' = [pc EXCEPT ![t] = "test"]
    /\ UNCHANGED <<ringVars, gateVars, touchuan, snd, port, clean, fifo, backed>>

\* send_touchuan_data(...) is called and finds send_touchuan_flag 0 (found 1,
\* it returns BLE_ERROR and changes nothing).
SendTouchuan(t) ==
    /\ touchuan = 0
    /\ \E frames \in 1..MaxFrames : Begin(t, "tunnel", frames, TRUE)
    /\ pc' = [pc EXCEPT ![t] = "claim"]
    /\ UNCHANGED <<ringVars, gateVars, touchuan, snd, port, clean, fifo, backed>>

\* send_touchuan_flag = 1, before g_MutexFlag is looked at.
Claim(t) ==
    /\ pc[t] = "claim"
    /\ touchuan' = 1
    /\ backed' = FALSE
    /\ pc' = [pc EXCEPT ![t] = "test"]
    /\ UNCHANGED <<ringVars, gateVars, job, snd, port, calls, clean, fifo>>

\* if (g_MutexFlag == 1) return BLE_ERROR.
TestMutex(t) ==
    /\ pc[t] = "test"
    /\ \/ /\ mutex = 1
          /\ pc' = [pc EXCEPT ![t] = "idle"]
          /\ job' = [job EXCEPT ![t] = NoJob]
       \/ /\ mutex = 0
          /\ pc' = [pc EXCEPT ![t] = "take"]
          /\ UNCHANGED job
    /\ UNCHANGED <<ringVars, gateVars, touchuan, snd, histVars>>

\* g_MutexFlag = 1.
TakeMutex(t) ==
    /\ pc[t] = "take"
    /\ mutex' = 1
    /\ clean' = (clean /\ \A u \in Producers : ~Inside(u))
    /\ pc' = [pc EXCEPT ![t] = "store"]
    /\ UNCHANGED <<slot, put, get, gateVars, touchuan, job, snd,
                   port, calls, fifo, backed>>

\* The slot at mPutIndex is filled, its send_flag last.  An index past the
\* end, which takes two tasks inside, stores outside the array.
Store(t) ==
    /\ pc[t] = "store"
    /\ slot' = IF put < RingSize THEN [slot EXCEPT ![put] = Command(t)] ELSE slot
    /\ clean' = (clean /\ put < RingSize /\ slot[put] = Free)
    /\ fifo' = Append(fifo, Command(t))
    /\ backed' = (backed \/ job[t].guarded)
    /\ pc' = [pc EXCEPT ![t] = "advance"]
    /\ UNCHANGED <<put, get, mutex, gateVars, touchuan, job, snd, port, calls>>

\* mPutIndex++, a uint8_t.
Advance(t) ==
    /\ pc[t] = "advance"
    /\ put' = (put + 1) % 256
    /\ pc' = [pc EXCEPT ![t] = "wrap"]
    /\ UNCHANGED <<slot, get, mutex, gateVars, touchuan, job, snd, histVars>>

\* (Slip: the list wraps one slot early.)
Wrap_OneEarly(t) ==
    /\ pc[t] = "wrap"
    /\ put' = IF put = RingSize - 1 THEN 0 ELSE put
    /\ job[t].left = 0
    /\ mutex' = 0
    /\ pc' = [pc EXCEPT ![t] = "idle"]
    /\ job' = [job EXCEPT ![t] = NoJob]
    /\ UNCHANGED <<slot, get, gateVars, touchuan, snd, histVars>>

\* if (mPutIndex == MAX_ATCMDLIST_SZIE) mPutIndex = 0; then the next frame,
\* or g_MutexFlag = 0 and return BLE_OK.
Wrap(t) ==
    /\ pc[t] = "wrap"
    /\ put' = IF put = RingSize THEN 0 ELSE put
    /\ \/ /\ job[t].left > 0
          /\ job' = [job EXCEPT ![t].left = @ - 1]
          /\ pc' = [pc EXCEPT ![t] = "store"]
          /\ UNCHANGED mutex
       \/ /\ job[t].left = 0
          /\ mutex' = 0
          /\ pc' = [pc EXCEPT ![t] = "idle"]
          /\ job' = [job EXCEPT ![t] = NoJob]
    /\ UNCHANGED <<slot, get, gateVars, touchuan, snd, histVars>>

Enqueue(t) == \/ Claim(t) \/ TestMutex(t) \/ TakeMutex(t)
              \/ Store(t) \/ Advance(t) \/ Wrap(t)

---------------------------------------------------------------------------
(* Ble_Send_deal_thread.                                                   *)

\* The send thread itself calls com_ble_reset.
CallReset ==
    /\ pc' = [pc EXCEPT ![Sender] = "test"]
    /\ job' = [job EXCEPT ![Sender] = NoJob]

AtLoopTop == snd = "poll" /\ pc[Sender] = "idle"

\* No OK+SCAN for 10 s: the scan is given up, g_MutexFlag is cleared whoever
\* holds it, and the module is reset.
ScanExpires ==
    /\ AtLoopTop
    /\ scanState = 1
    /\ scanState' = 0
    /\ mutex' = 0
    /\ CallReset
    /\ UNCHANGED <<slot, put, get, connect, atDisc, touchuan, snd, histVars>>

\* No LINK:N for 3 s after OK+DISC: the module is reset.
DiscExpires ==
    /\ AtLoopTop
    /\ atDisc = 1
    /\ atDisc' = 0
    /\ CallReset
    /\ UNCHANGED <<ringVars, scanState, connect, touchuan, snd, histVars>>

\* (Slip: the wait is counted and not ended.)
ConnectExpires_StillWaits ==
    /\ AtLoopTop
    /\ atDisc = 0
    /\ connect = 1
    /\ UNCHANGED vars

\* No OK+CON for 3 s after AT+CON: no longer waited for.
ConnectExpires ==
    /\ AtLoopTop
    /\ atDisc = 0
    /\ connect = 1
    /\ connect' = 0
    /\ UNCHANGED <<ringVars, scanState, atDisc, touchuan, pc, job, snd, histVars>>

\* Nothing is waited for and nobody is enqueueing.
PassGates ==
    /\ AtLoopTop
    /\ atDisc = 0 /\ connect = 0 /\ scanState = 0 /\ mutex = 0
    /\ snd' = "look"
    /\ UNCHANGED <<ringVars, gateVars, touchuan, pc, job, histVars>>

\* Is there a command at mGetIndex, and of which type?
Look ==
    /\ snd = "look"
    /\ \/ slot[get] = Free /\ snd' = "poll"
       \/ slot[get].kind = "tunnel" /\ snd' = "tunnel"
       \/ slot[get].kind \in ATKinds /\ snd' = "at"
    /\ UNCHANGED <<ringVars, gateVars, touchuan, pc, job, histVars>>

\* WritePort(mATcmdList[mGetIndex].cmd, ...), after a sleep; an AT command
\* may start a wait.
WritePort ==
    /\ snd \in {"at", "tunnel"}
    /\ port' = slot[get]
    /\ fifo' = IF fifo = << >> THEN fifo ELSE Tail(fifo)
    /\ scanState' = IF snd = "at" /\ slot[get].kind = "scan" THEN 1 ELSE scanState
    /\ connect' = IF snd = "at" /\ slot[get].kind = "con" THEN 1 ELSE connect
    /\ snd' = "retire"
    /\ UNCHANGED <<ringVars, atDisc, touchuan, pc, job, calls, clean, backed>>

\* (Slip: the index is not wrapped.)
Retire_NoWrap ==
    /\ snd = "retire"
    /\ slot' = [slot EXCEPT ![get] = Free]
    /\ get' = get + 1
    /\ snd' = "poll"
    /\ UNCHANGED <<put, mutex, gateVars, touchuan, pc, job, histVars>>

\* (Slip: send_flag is not cleared.)
Retire_KeepsFlag ==
    /\ snd = "retire"
    /\ get' = IF get + 1 = RingSize THEN 0 ELSE get + 1
    /\ snd' = "poll"
    /\ UNCHANGED <<slot, put, mutex, gateVars, touchuan, pc, job, histVars>>

\* send_flag = 0; mGetIndex++, 0 at the end of the list.
Retire ==
    /\ snd = "retire"
    /\ slot' = [slot EXCEPT ![get] = Free]
    /\ get' = IF get + 1 = RingSize THEN 0 ELSE get + 1
    /\ snd' = "poll"
    /\ UNCHANGED <<put, mutex, gateVars, touchuan, pc, job, histVars>>

SendThread == \/ ScanExpires \/ DiscExpires \/ ConnectExpires
              \/ PassGates \/ Look \/ WritePort \/ Retire

---------------------------------------------------------------------------
(* What the receive task does to these variables when the module reports.  *)

\* OK+SCAN and WAR+LINK:Y end a scan.
ScanReport ==
    /\ scanState = 1
    /\ scanState' = 0
    /\ UNCHANGED <<ringVars, connect, atDisc, touchuan, pc, job, snd, histVars>>

\* OK+CON answers AT+CON.
ConReport ==
    /\ connect = 1
    /\ connect' = 0
    /\ UNCHANGED <<ringVars, scanState, atDisc, touchuan, pc, job, snd, histVars>>

\* OK+DISC (the first one after power-on apart): LINK:N must follow.
DiscReport ==
    /\ calls < MaxCalls
    /\ calls' = calls + 1
    /\ scanState' = 0
    /\ atDisc' = 1
    /\ UNCHANGED <<ringVars, connect, touchuan, pc, job, snd,
                   port, clean, fifo, backed>>

\* WAR+LINK:N that is not answered by a resend, and "F...": every wait ends.
LinkLostReport ==
    /\ scanState = 1 \/ connect = 1 \/ atDisc = 1
    /\ scanState' = 0 /\ connect' = 0 /\ atDisc' = 0
    /\ touchuan' = 0
    /\ UNCHANGED <<ringVars, pc, job, snd, histVars>>

\* "E...": the waits for OK+CON and LINK:N end, a scan goes on.
ErrorReport ==
    /\ connect = 1 \/ atDisc = 1
    /\ connect' = 0 /\ atDisc' = 0
    /\ UNCHANGED <<ringVars, scanState, touchuan, pc, job, snd, histVars>>

\* An answer from the lock, or the time limit of the operation.
TouchuanDone ==
    /\ touchuan = 1
    /\ touchuan' = 0
    /\ UNCHANGED <<ringVars, gateVars, pc, job, snd, histVars>>

Module == \/ ScanReport \/ ConReport \/ DiscReport \/ LinkLostReport
          \/ ErrorReport \/ TouchuanDone

---------------------------------------------------------------------------
Init ==
    /\ slot = [i \in 0..RingSize-1 |-> Free]
    /\ put = 0 /\ get = 0 /\ mutex = 0 /\ touchuan = 0
    /\ scanState = 0 /\ connect = 0 /\ atDisc = 0
    /\ pc = [t \in Producers |-> "idle"]
    /\ job = [t \in Producers |-> NoJob]
    /\ snd = "poll"
    /\ port = Free
    /\ calls = 0
    /\ clean = TRUE /\ fifo = << >> /\ backed = FALSE

Call(t) == ATCmdSend(t) \/ SendMult(t) \/ SendTouchuan(t)

Next == \/ \E t \in Tasks : Call(t)
        \/ \E t \in Producers : Enqueue(t)
        \/ SendThread
        \/ Module

Spec == Init /\ [][Next]_vars

\* Every task is scheduled again and again; the BLE module need not answer.
Fairness == /\ \A t \in Producers : WF_vars(Enqueue(t))
            /\ WF_vars(SendThread)

FairSpec == Spec /\ Fairness

---------------------------------------------------------------------------
TypeOK ==
    /\ slot \in [0..RingSize-1 -> Cmd \cup {Free}]
    /\ put \in 0..255
    /\ get \in 0..RingSize-1
    /\ mutex \in 0..1 /\ touchuan \in 0..1
    /\ scanState \in 0..1 /\ connect \in 0..1 /\ atDisc \in 0..1
    /\ pc \in [Producers -> {"idle", "claim", "test", "take",
                             "store", "advance", "wrap"}]
    /\ job \in [Producers -> [kind : Kinds, id : Nat,
                              left : Nat, guarded : BOOLEAN]]
    /\ snd \in {"poll", "look", "at", "tunnel", "retire"}
    /\ port \in Cmd \cup {Free}
    /\ calls \in Nat
    /\ clean \in BOOLEAN /\ backed \in BOOLEAN
    /\ fifo \in Seq(Cmd)

\* At most one task at a time is between g_MutexFlag = 1 and g_MutexFlag = 0.
OneInside ==
    \A t, u \in Producers : Inside(t) /\ Inside(u) => t = u

\* Slots in use: fifo, and the one written to the port and not yet retired.
Used == Len(fifo) + (IF snd = "retire" THEN 1 ELSE 0)

\* Distance of slot i ahead of mGetIndex.
Ahead(i) == IF i >= get THEN i - get ELSE i - get + RingSize

\* Where the next command will be stored: mPutIndex, once a task that has
\* stored a command has moved it on and wrapped it.
NextFree ==
    LET next == IF \E t \in Producers : pc[t] = "advance" THEN put + 1 ELSE put
        due  == \E t \in Producers : pc[t] \in {"advance", "wrap"}
    IN  IF due /\ next = RingSize THEN 0 ELSE next

\* The slots in use are the Used ones from mGetIndex on.
SlotsInUse ==
    /\ Used <= RingSize
    /\ \A i \in 0..RingSize-1 : (slot[i] # Free) <=> (Ahead(i) < Used)

\* They hold the commands of fifo, in their order.
SlotsHoldFifo ==
    \A i \in 0..RingSize-1 :
      LET n == Ahead(i) + (IF snd = "retire" THEN 0 ELSE 1)
      IN  n \in 1..Len(fifo) => slot[i] = fifo[n]

\* The next command goes to the slot after them.
NextFreeFollows ==
    /\ NextFree \in 0..RingSize-1
    /\ Ahead(NextFree) = Used \/ (Used = RingSize /\ NextFree = get)

\* The command the send thread has decided to write is still there.
ChosenIsThere == snd \in {"at", "tunnel"} => slot[get] # Free

\* As long as commands were never enqueued by two tasks at a time and never
\* outnumbered the slots, the list is a queue.
RingIsQueue ==
    clean => /\ OneInside
             /\ SlotsInUse
             /\ SlotsHoldFifo
             /\ NextFreeFollows
             /\ ChosenIsThere

\* The list implements the queue of CmdFifo.
Fifo == INSTANCE CmdFifo WITH queue <- fifo, ok <- clean
ImplementsFifo == Fifo!Spec

\* A command on the list is written to the port, whatever the module answers
\* or fails to answer: every wait of the send thread has an end.
Delivered == (fifo # << >>) ~> (fifo = << >> \/ ~clean)

\* ATCmdSend returns BLE_OK for success: a command a call has stored stays in
\* its slot until the send thread has written it and retires the slot.
AcceptedIsKept ==
    [][\A i \in 0..RingSize-1 :
         slot[i] # Free /\ slot'[i] # slot[i] => snd = "retire" /\ i = get]_vars

\* send_touchuan_flag = 1 means that a command to the lock is on its way: with
\* no call under way, the command it stands for was stored.
TouchuanIsBacked ==
    touchuan = 1 /\ (\A t \in Producers : pc[t] = "idle") => backed
=============================================================================
