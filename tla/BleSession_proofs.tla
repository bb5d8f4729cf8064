------------------------- MODULE BleSession_proofs -------------------------
(***************************************************************************)
(* Proofs about module BleSession.                                         *)
(***************************************************************************)
EXTENDS BleSession, TLAPS

LEMMA InitTypeOK == Init => TypeOK
  <1>1. Init => ControlTypes /\ FlagTypes /\ HistoryTypes
    BY DEF Init, ControlTypes, FlagTypes, HistoryTypes, States, Untimed, Timed, Nothing
  <1>2. Init => TruthTypes
    BY Zenon DEF Init, TruthTypes
  <1>3. QED BY <1>1, <1>2 DEF TypeOK

(* The names used by the actions are members of the sets they belong to. *)
LEMMA StateNames ==
  /\ {"IDLE", "LOCK_BIND", "UNLOCK", "REMO_PASS_UNLOCK", "SET_USERPIN",
      "GET_LOCKINFO", "GET_RECORD_INFO", "GET_RECORD_LIST", "GET_LOCK_LIST",
      "ADD_TMP", "DEL_TMP", "SET_CHANNEL"} \subseteq States
  BY DEF States, Timed, Untimed

LEMMA ReportNames ==
  /\ Tunnel \subseteq Reports
  /\ {"linky", "challenge", "pwd", "name", "scan", "scanning", "con", "disc"}
       \subseteq Reports
  BY DEF Reports, OfLink

LEMMA TunnelNames ==
  {"unlock", "remote", "add", "del", "getpin", "setpin", "channel", "lockinfo",
   "recinfo", "reclist", "locklist"} \subseteq Tunnel
  BY DEF Tunnel

(* What the helpers of the actions do to the variables they assign. *)
LEMMA SendTypes ==
  ASSUME NEW base \in SUBSET Reports, NEW c \in Tunnel, SendAlso(base, c)
  PROVE  due' \in SUBSET Reports /\ touchuan' = 1
  BY ReportNames DEF SendAlso

LEMMA ConnectOrTypes ==
  ASSUME TypeOK, NEW c \in Tunnel, ConnectOr(c)
  PROVE  due' \in SUBSET Reports /\ touchuan' \in 0..1
  <1>1. due \in SUBSET Reports /\ touchuan \in 0..1
    BY DEF TypeOK, ControlTypes, FlagTypes
  <1>2. CASE Send(c)
    BY <1>1, <1>2, SendTypes DEF Send
  <1>3. CASE ~Send(c)
    BY <1>1, <1>3, ReportNames DEF ConnectOr
  <1>4. QED BY <1>2, <1>3

(* The actions that start operations. *)
LEMMA StartTypes ==
  ASSUME TypeOK, Start
  PROVE  ControlTypes' /\ FlagTypes'
  <1> USE StateNames DEF TypeOK, ControlTypes, FlagTypes, Called, TellNothing,
              keyVars, bindVars, scanVars, authVars, linkVars
  <1>1. CASE StartBind /\ UNCHANGED asker
    BY <1>1, ReportNames DEF StartBind, BindStart, Start
  <1>2. CASE StartAdd \/ StartDel
    BY <1>2 DEF StartAdd, StartDel, Start
  <1>3. ASSUME NEW c \in Tunnel, NEW s \in States, PutOn(c, s)
        PROVE  ControlTypes' /\ FlagTypes'
    <2>1. due' \in SUBSET Reports /\ touchuan' \in 0..1
      BY <1>3, ConnectOrTypes DEF PutOn
    <2>2. QED BY <1>3, <2>1 DEF PutOn, Start
  <1>4. ASSUME NEW op \in DOMAIN StateOf, StartConnect(op), UNCHANGED asker
        PROVE  ControlTypes' /\ FlagTypes'
    <2>1. state' \in States
      BY <1>4 DEF StartConnect, StateOf
    <2>2. due' \in SUBSET Reports
      BY <1>4, ReportNames DEF StartConnect
    <2>3. QED BY <1>4, <2>1, <2>2 DEF StartConnect, Start
  <1>5. CASE AddOn \/ DelOn
    BY <1>3, <1>5, TunnelNames DEF AddOn, DelOn
  <1>6. QED BY <1>1, <1>2, <1>4, <1>5 DEF Start

(* The timer. *)
LEMMA TimeoutTypes ==
  ASSUME TypeOK, TimeoutThread
  PROVE  ControlTypes' /\ FlagTypes'
  <1> USE StateNames DEF TypeOK, ControlTypes, FlagTypes, TellNothing, keyVars,
              bindVars, scanVars, authVars, linkVars, taskVars
  <1>0. UNCHANGED taskVars
    BY DEF TimeoutThread
  <1>1. CASE WakeUp
    BY <1>0, <1>1, ReportNames DEF WakeUp, BindStart
  <1>2. ASSUME Count
        PROVE  ControlTypes' /\ FlagTypes'
    <2>1. cnt' \in Nat /\ timer' \in Timed \cup {"sleep", "count", "add", "del"}
      BY <1>2 DEF Count, CountUpTo
    <2>2. QED BY <1>0, <1>2, <2>1 DEF Count
  <1>3. CASE AddOverdue \/ AddAgain \/ AddOnAgain
    BY <1>0, <1>3, ReportNames DEF AddOverdue, AddAgain, AddOnAgain
  <1>4. CASE DelOverdue \/ DelAgain
    BY <1>0, <1>4 DEF DelOverdue, DelAgain
  <1>5. ASSUME DelOnAgain
        PROVE  ControlTypes' /\ FlagTypes'
    <2>1. due' \in SUBSET Reports /\ touchuan' \in 0..1
      BY <1>5, SendTypes, ReportNames, TunnelNames DEF DelOnAgain, Send
    <2>2. QED BY <1>0, <1>5, <2>1 DEF DelOnAgain
  <1>6. ASSUME NEW s \in Timed, Overdue(s)
        PROVE  ControlTypes' /\ FlagTypes'
    <2>1. OverdueNotice[s] \in Notices
      BY DEF OverdueNotice, Timed, Notices
    <2>2. told' \in [kind : Notices, status : Statuses]
      BY <1>6, <2>1 DEF Overdue, Tell, Statuses
    <2>3. cnt' \in Nat /\ due' \in SUBSET Reports
      BY <1>6, ReportNames DEF Overdue
    <2>4. QED BY <1>0, <1>6, <2>2, <2>3 DEF Overdue
  <1>7. QED BY <1>1, <1>2, <1>3, <1>4, <1>5, <1>6 DEF TimeoutThread, Retries

(* The other timers. *)
LEMMA TimersTypes ==
  ASSUME TypeOK, Timers
  PROVE  ControlTypes' /\ FlagTypes'
  <1> USE StateNames, ReportNames
      DEF TypeOK, ControlTypes, FlagTypes, TellNothing, keyVars, bindVars,
          scanVars, authVars, linkVars, taskVars, Timers
  <1>1. CASE IdleScan
    BY <1>1 DEF IdleScan
  <1>2. CASE ScanStarts
    BY <1>2 DEF ScanStarts
  <1>3. CASE ScanExpires
    BY <1>3 DEF ScanExpires
  <1>4. CASE MeshExpires
    BY <1>4 DEF MeshExpires
  <1>5. CASE LinkAges
    BY <1>5 DEF LinkAges
  <1>6. QED BY <1>1, <1>2, <1>3, <1>4, <1>5 DEF Timers

(* The module's reports. *)
LEMMA FailedTypes ==
  ASSUME NEW d \in SUBSET Reports, Failed(d)
  PROVE  /\ state' = "IDLE" /\ touchuan' = 0
         /\ due' \in SUBSET Reports
         /\ told' \in [kind : Notices, status : Statuses] \cup {Nothing}
  BY ReportNames DEF Failed, Tell, TellNothing, Notices, Statuses

LEMMA StillDueTypes ==
  ASSUME TypeOK, NEW d \in StillDue
  PROVE  d \in SUBSET Reports
  BY DEF TypeOK, ControlTypes, StillDue

LEMMA ReportTypes ==
  ASSUME TypeOK, ModuleReports
  PROVE  ControlTypes' /\ FlagTypes'
  <1> USE StateNames, ReportNames
      DEF TypeOK, ControlTypes, FlagTypes, TellNothing, keyVars, bindVars,
          scanVars, authVars, linkVars
  <1>0. UNCHANGED <<asker, answered>> /\ receiver' \in {receiver, "refresh"}
    BY DEF ModuleReports, PwdYes
  <1>1. ASSUME ScanReport
        PROVE  ControlTypes' /\ FlagTypes'
    <2>1. due' \in SUBSET Reports
      BY <1>1 DEF ScanReport
    <2>2. state' \in States /\ scanTimes' \in Nat /\ bindSate' \in 0..1
      BY <1>1 DEF ScanReport
    <2>3. QED BY <1>0, <1>1, <2>1, <2>2 DEF ScanReport
  <1>2. CASE ConReport
    BY <1>0, <1>2 DEF ConReport
  <1>3. CASE LinkY
    BY <1>0, <1>3 DEF LinkY
  <1>4. CASE Challenge
    BY <1>0, <1>4 DEF Challenge
  <1>5. ASSUME PwdYes
        PROVE  ControlTypes' /\ FlagTypes'
    <2>1. LoggedIn \in SUBSET Reports
      BY DEF LoggedIn
    <2>2. ASSUME state \in DOMAIN CommandOf
          PROVE  CommandOf[state] \in Tunnel
      BY <2>2, TunnelNames DEF CommandOf
    <2>3. due' \in SUBSET Reports /\ touchuan' \in 0..1
      BY <1>5, <2>1, <2>2, SendTypes, TunnelNames DEF PwdYes
    <2>4. state' \in States
      BY <1>5 DEF PwdYes
    <2>5. QED BY <1>0, <1>5, <2>3, <2>4 DEF PwdYes
  <1>6. CASE PwdNo
    BY <1>0, <1>6, FailedTypes DEF PwdNo
  <1>7. CASE DiscReport
    BY <1>0, <1>7 DEF DiscReport
  <1>8. CASE ResetReport
    BY <1>0, <1>8 DEF ResetReport
  <1>9. ASSUME NameReport
        PROVE  ControlTypes' /\ FlagTypes'
    <2>1. due' \in SUBSET Reports /\ touchuan' \in 0..1
      BY <1>9, SendTypes, TunnelNames DEF NameReport
    <2>2. QED BY <1>0, <1>9, <2>1 DEF NameReport
  <1>10. ASSUME LinkN
         PROVE  ControlTypes' /\ FlagTypes'
    <2>1. PICK d \in StillDue : Failed(d)
      BY <1>10 DEF LinkN
    <2>2. QED BY <1>0, <1>10, <2>1, FailedTypes, StillDueTypes DEF LinkN, Unlink
  <1>11. CASE OtherWarning
    BY <1>0, <1>11 DEF OtherWarning
  <1>12. CASE ErrorReport
    BY <1>0, <1>12 DEF ErrorReport
  <1>13. CASE FailReport
    BY <1>0, <1>13, FailedTypes DEF FailReport
  <1>14. QED BY <1>1, <1>2, <1>3, <1>4, <1>5, <1>6, <1>7, <1>8, <1>9, <1>10,
                <1>11, <1>12, <1>13 DEF ModuleReports

LEMMA ResendTypes ==
  ASSUME TypeOK, Resend
  PROVE  ControlTypes' /\ FlagTypes'
  <1> USE ReportNames
      DEF TypeOK, ControlTypes, FlagTypes, TellNothing, keyVars, bindVars,
          scanVars, authVars, linkVars, taskVars
  <1>1. due' \in SUBSET Reports
    BY StillDueTypes DEF Resend
  <1>2. scanTimes' \in Nat /\ bindStatus' \in 0..1
    BY DEF Resend
  <1>3. QED BY <1>1, <1>2 DEF Resend, Unlink

(* The lock's answers. *)
LEMMA NotifyTypes ==
  ASSUME NEW d \in SUBSET Reports, NEW kind \in Notices,
         NEW status \in Statuses, NEW next \in States,
         Notify(d, kind, status, next)
  PROVE  /\ state' \in States /\ touchuan' \in 0..1
         /\ due' \in SUBSET Reports
         /\ told' \in [kind : Notices, status : Statuses] \cup {Nothing}
  BY StateNames, ReportNames, TunnelNames DEF Notify, Tell, TellNothing

LEMMA EndingTypes ==
  ASSUME TypeOK, NEW c, NEW own \in BOOLEAN
  PROVE  Ending(c, own) \in SUBSET Reports /\ After(own) \in States
  BY StateNames, ReportNames DEF TypeOK, ControlTypes, Ending, After

LEMMA NoticeNames ==
  {"UNLOCK", "REMO_PASS_UNLOCK", "ADD_TMP", "DEL_TMP", "SET_USERPIN",
   "GET_LOCKINFO", "LOCKCHANNEL", "NEW_RECORD"} \subseteq Notices
  BY DEF Notices

(* What an answer assigns. *)
Answered == /\ state' \in States /\ touchuan' \in 0..1
            /\ due' \in SUBSET Reports
            /\ told' \in [kind : Notices, status : Statuses] \cup {Nothing}
            /\ addFlag' \in 0..1 /\ delFlag' \in 0..1
            /\ bindStatus' \in 0..1 /\ scanState' \in 0..1

LEMMA AnswerTypes ==
  ASSUME TypeOK, Answers
  PROVE  ControlTypes' /\ FlagTypes'
  <1> USE StateNames, ReportNames, NoticeNames, EndingTypes, NotifyTypes
      DEF keyVars
  <1>1. /\ state \in States /\ due \in SUBSET Reports /\ touchuan \in 0..1
        /\ addFlag \in 0..1 /\ delFlag \in 0..1
        /\ bindStatus \in 0..1 /\ scanState \in 0..1
    BY DEF TypeOK, ControlTypes, FlagTypes
  <1>2. ASSUME NEW status \in Statuses, UnlockAnswer(status)
        PROVE  Answered
    BY <1>1, <1>2 DEF UnlockAnswer, Answered
  <1>3. ASSUME NEW status \in Statuses, RemoteAnswer(status)
        PROVE  Answered
    BY <1>1, <1>3 DEF RemoteAnswer, Answered
  <1>4. ASSUME NEW status \in Statuses, ChannelAnswer(status)
        PROVE  Answered
    BY <1>1, <1>4 DEF ChannelAnswer, Answered
  <1>5. ASSUME NEW status \in Statuses, InfoAnswer(status)
        PROVE  Answered
    BY <1>1, <1>5 DEF InfoAnswer, Answered
  <1>6. ASSUME NEW status \in Statuses, SetPinAnswer(status)
        PROVE  Answered
    <2>1. told' \in [kind : Notices, status : Statuses]
      BY <1>6 DEF SetPinAnswer, Tell
    <2>2. "setpin" \in Reports
      BY TunnelNames
    <2>3. due' \in SUBSET Reports
      BY <1>1, <1>6, <2>2 DEF SetPinAnswer, Ending
    <2>4. state' \in States
      BY <1>1, <1>6 DEF SetPinAnswer, After
    <2>5. QED BY <1>1, <1>6, <2>1, <2>3, <2>4 DEF SetPinAnswer, Answered
  <1>7. ASSUME NEW status \in {"ok", "fail"}, RecordListAnswer(status)
        PROVE  Answered
    <2>1. told' \in [kind : Notices, status : Statuses] \cup {Nothing}
      BY <1>7 DEF RecordListAnswer, Tell, TellNothing, Statuses
    <2>2. state' \in States
      BY <1>1, <1>7 DEF RecordListAnswer, After
    <2>3. QED BY <1>1, <1>7, <2>1, <2>2 DEF RecordListAnswer, Answered
  <1>8. ASSUME RecordInfoAnswer
        PROVE  Answered
    BY <1>1, <1>8, TunnelNames DEF RecordInfoAnswer, Answered, TellNothing
  <1>9. ASSUME LockListAnswer
        PROVE  Answered
    <2>1. due' \in SUBSET Reports
      BY <1>1, <1>9 DEF LockListAnswer, Ending
    <2>2. state' \in States
      BY <1>1, <1>9 DEF LockListAnswer, After
    <2>3. QED BY <1>1, <1>9, <2>1, <2>2 DEF LockListAnswer, Answered, TellNothing
  <1>10. Answered
    BY <1>2, <1>3, <1>4, <1>5, <1>6, <1>7, <1>8, <1>9 DEF Answers
  <1>11. UNCHANGED <<cnt, timer, bindTick, bindSate, scanTimes, authVars,
                     linkVars, calls, taskVars>>
    BY DEF Answers
  <1>12. QED
    BY <1>10, <1>11
    DEF TypeOK, ControlTypes, FlagTypes, Answered, authVars, linkVars, taskVars

(* The answers about keys, and what PWD:Y leaves to be done. *)
LEMMA KeyTypes ==
  ASSUME TypeOK, KeyAnswers \/ Refresh
  PROVE  ControlTypes' /\ FlagTypes'
  <1> USE StateNames, ReportNames
      DEF TypeOK, ControlTypes, FlagTypes, TellNothing, keyVars, bindVars, scanVars,
          authVars, linkVars, KeyAnswers
  <1>1. ASSUME NEW c \in {"add", "del"}, KeyAnswer(c), KeyAnswers
        PROVE  ControlTypes' /\ FlagTypes'
    BY <1>1 DEF KeyAnswer
  <1>2. ASSUME KeyReport, KeyAnswers
        PROVE  ControlTypes' /\ FlagTypes'
    <2>1. told' \in [kind : Notices, status : Statuses]
      BY <1>2, NoticeNames DEF KeyReport, Tell, Statuses
    <2>2. QED BY <1>2, <2>1 DEF KeyReport
  <1>3. CASE (KeyIdle \/ KeyClear) /\ KeyAnswers
    BY <1>3 DEF KeyIdle, KeyClear
  <1>4. CASE KeyDisc /\ KeyAnswers
    BY <1>4 DEF KeyDisc
  <1>5. CASE Refresh
    BY <1>5 DEF Refresh
  <1>6. QED BY <1>1, <1>2, <1>3, <1>4, <1>5

---------------------------------------------------------------------------
(* The variables that are TRUE or FALSE. *)
LEMMA BoundType ==
  ASSUME TypeOK, Steps \/ Resend
  PROVE  bound' \in BOOLEAN
  <1>1. bound \in BOOLEAN
    BY DEF TypeOK, TruthTypes
  <1>2. ASSUME NEW status, SetPinAnswer(status)
        PROVE  bound' \in BOOLEAN
    BY Zenon, <1>2 DEF SetPinAnswer
  <1>3. CASE UNCHANGED bound
    BY <1>1, <1>3
  <1>4. CASE Start
    BY <1>3, <1>4 DEF Start, StartBind, StartAdd, StartDel, AddOn, DelOn, PutOn,
                      StartConnect
  <1>5. CASE TimeoutThread
    BY <1>3, <1>5
    DEF TimeoutThread, WakeUp, Count, Retries, AddOverdue, AddAgain, AddOnAgain,
        DelOverdue, DelAgain, DelOnAgain, Overdue
  <1>6. CASE Timers
    BY <1>3, <1>6 DEF Timers, IdleScan, ScanStarts, ScanExpires, MeshExpires,
                      LinkAges
  <1>7. CASE ModuleReports
    BY <1>3, <1>7 DEF ModuleReports, ScanReport, ConReport, LinkY, Challenge,
                      PwdYes, PwdNo, DiscReport, ResetReport, NameReport, LinkN,
                      OtherWarning, ErrorReport, FailReport
  <1>8. CASE Answers
    BY <1>2, <1>3, <1>8
    DEF Answers, UnlockAnswer, RemoteAnswer, ChannelAnswer, InfoAnswer,
        RecordInfoAnswer, RecordListAnswer, LockListAnswer
  <1>9. CASE Resend \/ Refresh \/ KeyAnswers
    BY <1>3, <1>9 DEF Resend, Refresh, KeyAnswers
  <1>10. QED BY <1>4, <1>5, <1>6, <1>7, <1>8, <1>9 DEF Steps

LEMMA LinkedType ==
  ASSUME TypeOK, Steps \/ Resend
  PROVE  linked' \in BOOLEAN
  <1>1. linked \in BOOLEAN
    BY DEF TypeOK, TruthTypes
  <1>2. CASE UNCHANGED linked
    BY <1>1, <1>2
  <1>3. CASE Unlink
    BY Zenon, <1>3 DEF Unlink
  <1>4. CASE LinkY
    BY Zenon, <1>4 DEF LinkY
  <1>5. CASE Start
    BY <1>2, <1>5
    DEF Start, StartBind, StartAdd, StartDel, AddOn, DelOn, PutOn, StartConnect,
        linkVars
  <1>6. CASE TimeoutThread
    BY <1>2, <1>6
    DEF TimeoutThread, WakeUp, Count, Retries, AddOverdue, AddAgain, AddOnAgain,
        DelOverdue, DelAgain, DelOnAgain, Overdue, linkVars
  <1>7. CASE Timers
    BY <1>2, <1>7 DEF Timers, IdleScan, ScanStarts, ScanExpires, MeshExpires,
                      LinkAges, linkVars
  <1>8. CASE ModuleReports
    BY <1>2, <1>3, <1>4, <1>8
    DEF ModuleReports, ScanReport, ConReport, Challenge, PwdYes, PwdNo,
        DiscReport, ResetReport, NameReport, LinkN, OtherWarning, ErrorReport,
        FailReport, linkVars
  <1>9. CASE Answers \/ Refresh \/ KeyAnswers
    BY <1>2, <1>9 DEF Answers, Refresh, KeyAnswers, linkVars
  <1>10. CASE Resend
    BY <1>3, <1>10 DEF Resend
  <1>11. QED BY <1>4, <1>5, <1>6, <1>7, <1>8, <1>9, <1>10 DEF Steps

LEMMA ClockTypes ==
  ASSUME TypeOK, NEW again \in BOOLEAN, Clock(again)
  PROVE  age' \in Nat /\ whole' \in BOOLEAN /\ resent' \in BOOLEAN
  <1>1. age' \in Nat
    BY DEF TypeOK, HistoryTypes, Clock
  <1>2. whole \in BOOLEAN /\ resent \in BOOLEAN
    BY DEF TypeOK, TruthTypes
  <1>3. whole' = (cnt' = 0) \/ whole' = whole
    BY Zenon DEF Clock
  <1>4. whole' \in BOOLEAN
    BY Zenon, <1>2, <1>3
  <1>5. resent' = FALSE \/ resent' = (resent \/ again) \/ resent' = resent
    BY Zenon DEF Clock
  <1>6. resent' \in BOOLEAN
    BY Zenon, <1>2, <1>5
  <1>7. QED BY <1>1, <1>4, <1>6

LEMMA RequestTypes ==
  ASSUME TypeOK, Requests
  PROVE  asked' \in SUBSET {"add", "del"} /\ crossed' \in SUBSET {"add", "del"}
  BY DEF TypeOK, HistoryTypes, Requests, Asking, Setting, HalfSet

LEMMA StepTypeOK == TypeOK /\ [Next]_vars => TypeOK'
  <1> SUFFICES ASSUME TypeOK, [Next]_vars PROVE TypeOK'
    OBVIOUS
  <1>1. ASSUME Next PROVE TypeOK'
    <2>1. Steps \/ Resend
      BY <1>1 DEF Next
    <2>2. ControlTypes' /\ FlagTypes'
      BY <2>1, StartTypes, TimeoutTypes, TimersTypes, ReportTypes, AnswerTypes,
         KeyTypes, ResendTypes DEF Steps
    <2>3. Requests /\ (Clock(FALSE) \/ Clock(TRUE))
      BY <1>1 DEF Next, History
    <2>4. age' \in Nat /\ whole' \in BOOLEAN /\ resent' \in BOOLEAN
      BY <2>3, ClockTypes
    <2>5. TruthTypes'
      BY Zenon, <2>1, <2>4, BoundType, LinkedType DEF TruthTypes
    <2>6. HistoryTypes'
      BY <2>3, <2>4, RequestTypes DEF HistoryTypes
    <2>7. QED BY <2>2, <2>5, <2>6 DEF TypeOK
  <1>2. CASE UNCHANGED vars
    <2>1. ControlTypes' /\ FlagTypes' /\ HistoryTypes'
      BY <1>2 DEF TypeOK, ControlTypes, FlagTypes, HistoryTypes, vars
    <2>2. TruthTypes'
      BY <1>2 DEF TypeOK, TruthTypes, vars
    <2>3. QED BY <2>1, <2>2 DEF TypeOK
  <1>3. QED BY <1>1, <1>2

(* Every variable of the session keeps its type: in particular g_BleState is
   always one of the states of BLE_STATE_E that this build uses, and errCnt
   stays 0 or 1, so that it never stops ignoring every second challenge. *)
THEOREM TypeCorrect == Spec => []TypeOK
  BY InitTypeOK, StepTypeOK, PTL DEF Spec

---------------------------------------------------------------------------
(* Requests about temporary keys are kept, and operations on them retried. *)

(* A flag set while an answer is being handled will be cleared by it; a request
   that is still open once the answer was reported is one of those. *)
InAnswer ==
  /\ \A c \in {"add", "del"} : receiver \in Handling /\ FlagSet(c) => c \in crossed
  /\ receiver \in {"idle", "clear", "disc"} => asked \subseteq crossed

(* The repetition of a deletion clears the flag of an addition only if it was
   set after the decision to repeat. *)
InRepetition == timer = "del" /\ addFlag = 1 => "add" \in crossed

(* Where the state of a key is about to be set, its flag is set. *)
InBetween == \A c \in HalfSet : FlagSet(c) \/ c \in crossed \/ timer = Again(c)

KeyInv == /\ asked \subseteq {"add", "del"}
          /\ RequestsKept /\ RetryArmed
          /\ InAnswer /\ InRepetition /\ InBetween

Ons == {"addAgain", "delAgain", "addOn", "delOn"}

(* A step that touches no flag and no place in between, and puts no operation on
   a key on. *)
Quiet == /\ UNCHANGED <<addFlag, delFlag, asker, receiver>>
         /\ state' = state \/ state' \notin {"ADD_TMP", "DEL_TMP"}
         /\ \/ timer' = timer
            \/ timer \notin Ons /\ timer' \notin Ons /\ (timer' = "del" => addFlag = 0)

LEMMA QuietKept ==
  ASSUME KeyInv, Quiet, Requests
  PROVE  KeyInv'
  <1>1. Asking = {} /\ Setting = {}
    BY DEF Quiet, Asking, Setting, Ons, Again, On
  <1>2. asked' = asked /\ crossed' = crossed
    BY <1>1 DEF Quiet, Requests
  <1>3. HalfSet' = HalfSet
    BY DEF HalfSet, Quiet, On, Ons
  <1>4. QED
    BY <1>2, <1>3
    DEF Quiet, KeyInv, RequestsKept, RetryArmed, InAnswer, InRepetition, InBetween,
        FlagSet, StateFor, Again, Ons, Handling

(* The eLink task asks for a key ... *)
LEMMA AskingKept ==
  ASSUME KeyInv, StartAdd \/ StartDel, UNCHANGED receiver, Requests
  PROVE  KeyInv'
  <1> USE DEF keyVars
  <1>1. CASE StartAdd
    <2>1. Asking = {"add"} /\ Setting = {"add"}
      BY <1>1 DEF StartAdd, Asking, Setting, Again, On
    <2>2. asked' = asked \cup {"add"} /\ "add" \in asked'
      BY <1>1, <2>1 DEF StartAdd, Requests
    <2>3. /\ "del" \in crossed' <=> "del" \in crossed
          /\ "add" \in crossed' <=> receiver \in Handling \/ timer = "del"
      BY <2>1 DEF Requests, Crossing, Handling
    <2>4. QED
      BY <1>1, <2>2, <2>3
      DEF StartAdd, KeyInv, RequestsKept, RetryArmed, InAnswer, InRepetition,
          InBetween, HalfSet, On, FlagSet, StateFor, Again, Handling
  <1>2. CASE StartDel
    <2>1. Asking = {"del"} /\ Setting = {"del"}
      BY <1>2 DEF StartDel, Asking, Setting, Again, On
    <2>2. asked' = asked \cup {"del"} /\ "del" \in asked'
      BY <1>2, <2>1 DEF StartDel, Requests
    <2>3. /\ "add" \in crossed' <=> "add" \in crossed
          /\ "del" \in crossed' <=> receiver \in Handling
      BY <2>1 DEF Requests, Crossing, Handling
    <2>4. QED
      BY <1>2, <2>2, <2>3
      DEF StartDel, KeyInv, RequestsKept, RetryArmed, InAnswer, InRepetition,
          InBetween, HalfSet, On, FlagSet, StateFor, Again, Handling
  <1>3. QED BY <1>1, <1>2

(* ... and sets the state. *)
LEMMA PutOnKept ==
  ASSUME KeyInv, AddOn \/ DelOn, UNCHANGED receiver, Requests
  PROVE  KeyInv'
  <1>1. Asking = {} /\ Setting = {}
    BY DEF AddOn, DelOn, PutOn, Asking, Setting, Again, On
  <1>2. asked' = asked /\ crossed' = crossed
    BY <1>1 DEF Requests
  <1>3. QED
    BY <1>2
    DEF AddOn, DelOn, PutOn, keyVars, KeyInv, RequestsKept, RetryArmed, InAnswer,
        InRepetition, InBetween, HalfSet, On, FlagSet, StateFor, Again, Handling

(* The timer repeats an operation. *)
LEMMA RetriesKept ==
  ASSUME KeyInv, Retries, UNCHANGED taskVars, Requests
  PROVE  KeyInv'
  <1> USE DEF taskVars
  <1>1. Asking = {}
    BY DEF Asking
  <1>2. CASE AddOverdue \/ AddOnAgain \/ DelOverdue \/ DelOnAgain
    <2>1. Setting = {}
      BY <1>1, <1>2
      DEF AddOverdue, AddOnAgain, DelOverdue, DelOnAgain, Setting, Again, On
    <2>2. asked' = asked /\ crossed' = crossed
      BY <1>1, <2>1 DEF Requests
    <2>3. CASE AddOverdue
      BY <2>2, <2>3
      DEF AddOverdue, KeyInv, RequestsKept, RetryArmed, InAnswer, InRepetition,
          InBetween, HalfSet, On, FlagSet, StateFor, Again, Handling
    <2>4. CASE AddOnAgain
      BY <2>2, <2>4
      DEF AddOnAgain, keyVars, KeyInv, RequestsKept, RetryArmed, InAnswer,
          InRepetition, InBetween, HalfSet, On, FlagSet, StateFor, Again, Handling
    <2>5. CASE DelOverdue
      BY <2>2, <2>5
      DEF DelOverdue, KeyInv, RequestsKept, RetryArmed, InAnswer, InRepetition,
          InBetween, HalfSet, On, FlagSet, StateFor, Again, Handling
    <2>6. CASE DelOnAgain
      BY <2>2, <2>6
      DEF DelOnAgain, keyVars, KeyInv, RequestsKept, RetryArmed, InAnswer,
          InRepetition, InBetween, HalfSet, On, FlagSet, StateFor, Again, Handling
    <2>7. QED BY <1>2, <2>3, <2>4, <2>5, <2>6
  <1>3. CASE AddAgain
    <2>1. Setting = {"add"}
      BY <1>1, <1>3 DEF AddAgain, Setting, Again, On
    <2>2. /\ asked' = asked
          /\ "del" \in crossed' <=> "del" \in crossed
          /\ "add" \in crossed' <=> receiver \in Handling
      BY <1>1, <1>3, <2>1 DEF AddAgain, Requests, Crossing, Handling
    <2>3. QED
      BY <1>3, <2>2
      DEF AddAgain, KeyInv, RequestsKept, RetryArmed, InAnswer, InRepetition,
          InBetween, HalfSet, On, FlagSet, StateFor, Again, Handling
  <1>4. CASE DelAgain
    <2>1. Setting = {"del"}
      BY <1>1, <1>4 DEF DelAgain, Setting, Again, On
    <2>2. /\ asked' = asked
          /\ "add" \in crossed' <=> "add" \in crossed
          /\ "del" \in crossed' <=> receiver \in Handling
      BY <1>1, <1>4, <2>1 DEF DelAgain, Requests, Crossing, Handling
    <2>3. QED
      BY <1>4, <2>2
      DEF DelAgain, KeyInv, RequestsKept, RetryArmed, InAnswer, InRepetition,
          InBetween, HalfSet, On, FlagSet, StateFor, Again, Handling
  <1>5. QED BY <1>2, <1>3, <1>4 DEF Retries

(* An answer about a key is handled. *)
LEMMA KeyAnswersKept ==
  ASSUME KeyInv, KeyAnswers, Requests
  PROVE  KeyInv'
  <1>1. asker' = asker /\ timer' = timer /\ Asking = {} /\ Setting = {}
    BY DEF KeyAnswers, Asking, Setting, Again, On
  <1>2. HalfSet' = HalfSet
    BY <1>1 DEF HalfSet
  <1>3. ASSUME NEW c \in {"add", "del"}, KeyAnswer(c)
        PROVE  KeyInv'
    <2>1. asked' = asked /\ crossed' = crossed \cup HalfSet
      BY <1>1, <1>3 DEF KeyAnswer, Requests
    <2>2. QED
      BY <1>1, <1>2, <1>3, <2>1
      DEF KeyAnswer, KeyInv, RequestsKept, RetryArmed, InAnswer, InRepetition,
          InBetween, FlagSet, StateFor, Again, Handling
  <1>4. CASE KeyReport
    <2>1. asked' = {} /\ crossed' = crossed
      BY <1>1, <1>4 DEF KeyReport, Requests
    <2>2. QED
      BY <1>1, <1>2, <1>4, <2>1
      DEF KeyReport, keyVars, KeyInv, RequestsKept, RetryArmed, InAnswer,
          InRepetition, InBetween, FlagSet, StateFor, Again, Handling
  <1>5. CASE KeyIdle \/ KeyClear \/ KeyDisc
    <2>1. asked' = asked /\ crossed' = crossed
      BY <1>1, <1>5 DEF KeyIdle, KeyClear, KeyDisc, Requests
    <2>2. CASE KeyIdle
      BY <1>1, <1>2, <2>1, <2>2
      DEF KeyIdle, keyVars, KeyInv, RequestsKept, RetryArmed, InAnswer,
          InRepetition, InBetween, FlagSet, StateFor, Again, Handling
    <2>3. CASE KeyClear
      <3>1. /\ \A c \in {"add", "del"} : FlagSet(c) => c \in crossed
            /\ asked \subseteq crossed
        BY <2>3 DEF KeyClear, KeyInv, InAnswer, Handling
      <3>2. RequestsKept' /\ InAnswer' /\ InRepetition'
        BY <1>1, <2>1, <2>3, <3>1
        DEF KeyClear, KeyInv, RequestsKept, InAnswer, InRepetition, FlagSet, Again
      <3>3. RetryArmed'
        BY <1>1, <2>1, <2>3, <3>1
        DEF KeyClear, KeyInv, RetryArmed, FlagSet, StateFor, Again
      <3>4. InBetween'
        <4>1. \A c \in HalfSet : c \in crossed \/ timer = Again(c)
          BY <3>1 DEF KeyInv, InBetween, HalfSet
        <4>2. QED BY <1>1, <1>2, <2>1, <4>1 DEF InBetween, Again
      <3>5. QED BY <2>1, <3>2, <3>3, <3>4 DEF KeyInv
    <2>4. CASE KeyDisc
      BY <1>1, <1>2, <2>1, <2>4
      DEF KeyDisc, StateAnswered, KeyInv, RequestsKept, RetryArmed, InAnswer,
          InRepetition, InBetween, FlagSet, StateFor, Again, Handling
    <2>5. QED BY <1>5, <2>2, <2>3, <2>4
  <1>6. QED BY <1>3, <1>4, <1>5 DEF KeyAnswers

(* PWD:Y of a binding begins, and its end: nothing about keys. *)
LEMMA RefreshKept ==
  ASSUME KeyInv, Requests, UNCHANGED <<keyVars, asker, timer>>,
         \/ receiver = "wait" /\ receiver' = "refresh" /\ state' = "GET_LOCKINFO"
         \/ Refresh
  PROVE  KeyInv'
  <1>1. Asking = {} /\ Setting = {}
    BY DEF Asking, Setting, Again, On
  <1>2. asked' = asked /\ crossed' = crossed
    BY <1>1 DEF Requests, Refresh
  <1>3. QED
    BY <1>2
    DEF Refresh, keyVars, KeyInv, RequestsKept, RetryArmed, InAnswer, InRepetition,
        InBetween, HalfSet, On, FlagSet, StateFor, Again, Handling

(* Every other step is quiet. *)
LEMMA QuietStarts ==
  ASSUME StartBind \/ \E op \in DOMAIN StateOf : StartConnect(op),
         UNCHANGED <<asker, receiver>>
  PROVE  Quiet
  <1>1. CASE StartBind
    BY <1>1 DEF StartBind, BindStart, Quiet, keyVars
  <1>2. ASSUME NEW op \in DOMAIN StateOf, StartConnect(op)
        PROVE  Quiet
    <2>1. StateOf[op] \notin {"ADD_TMP", "DEL_TMP"}
      BY DEF StateOf
    <2>2. QED BY <1>2, <2>1 DEF StartConnect, Quiet, keyVars
  <1>3. QED BY <1>1, <1>2

LEMMA QuietTimer ==
  ASSUME TypeOK, WakeUp \/ Count \/ \E s \in Timed : Overdue(s), UNCHANGED taskVars
  PROVE  Quiet
  <1> USE DEF Quiet, keyVars, taskVars, Ons
  <1>1. CASE WakeUp
    BY <1>1 DEF WakeUp, BindStart
  <1>2. CASE Count
    BY <1>2 DEF Count, CountUpTo, Timed, Untimed
  <1>3. ASSUME NEW s \in Timed, Overdue(s)
        PROVE  Quiet
    BY <1>3 DEF Overdue, Timed
  <1>4. QED BY <1>1, <1>2, <1>3

LEMMA QuietTimers ==
  ASSUME Timers
  PROVE  Quiet
  BY DEF Timers, IdleScan, ScanStarts, ScanExpires, MeshExpires, LinkAges, Quiet,
         keyVars, taskVars

LEMMA QuietReports ==
  ASSUME ModuleReports
  PROVE  \/ Quiet
         \/ /\ receiver = "wait" /\ receiver' = "refresh" /\ state' = "GET_LOCKINFO"
            /\ UNCHANGED <<keyVars, asker, timer>>
  <1> USE DEF Quiet, keyVars
  <1>0. receiver = "wait" /\ UNCHANGED asker /\ (UNCHANGED receiver \/ PwdYes)
    BY DEF ModuleReports
  <1>1. CASE PwdYes
    BY <1>0, <1>1 DEF PwdYes
  <1>2. CASE UNCHANGED receiver /\ (ScanReport \/ NameReport)
    BY <1>0, <1>2 DEF ScanReport, NameReport
  <1>3. CASE UNCHANGED receiver /\ (PwdNo \/ LinkN \/ FailReport)
    BY <1>0, <1>3 DEF PwdNo, LinkN, FailReport, Failed
  <1>4. CASE UNCHANGED receiver /\ (DiscReport \/ ErrorReport \/ ConReport \/ LinkY)
    BY <1>0, <1>4 DEF DiscReport, ErrorReport, ConReport, LinkY
  <1>5. CASE UNCHANGED receiver /\ (Challenge \/ ResetReport \/ OtherWarning)
    BY <1>0, <1>5 DEF Challenge, ResetReport, OtherWarning
  <1>6. QED BY <1>1, <1>2, <1>3, <1>4, <1>5 DEF ModuleReports

LEMMA QuietAnswers ==
  ASSUME Answers
  PROVE  Quiet
  <1>1. UNCHANGED <<timer, asker, receiver>>
    BY DEF Answers, taskVars
  <1>2. ASSUME NEW d, NEW kind, NEW status,
               Notify(d, kind, status, state) \/ Notify(d, kind, status, "IDLE"),
               UNCHANGED keyVars
        PROVE  Quiet
    BY <1>1, <1>2 DEF Notify, Quiet, keyVars
  <1>3. ASSUME NEW status, UnlockAnswer(status) \/ RemoteAnswer(status)
        PROVE  Quiet
    BY <1>2, <1>3 DEF UnlockAnswer, RemoteAnswer, After
  <1>4. ASSUME NEW status, ChannelAnswer(status) \/ InfoAnswer(status)
        PROVE  Quiet
    BY <1>2, <1>4 DEF ChannelAnswer, InfoAnswer
  <1>5. ASSUME NEW status, SetPinAnswer(status) \/ RecordListAnswer(status)
        PROVE  Quiet
    BY <1>1, <1>5 DEF SetPinAnswer, RecordListAnswer, After, Quiet, keyVars
  <1>6. CASE RecordInfoAnswer \/ LockListAnswer
    BY <1>1, <1>6 DEF RecordInfoAnswer, LockListAnswer, After, Quiet, keyVars
  <1>7. QED BY <1>3, <1>4, <1>5, <1>6 DEF Answers

LEMMA KeyStep ==
  ASSUME TypeOK, KeyInv, Next
  PROVE  KeyInv'
  <1>1. Requests /\ (Steps \/ Resend)
    BY DEF Next, History
  <1>2. CASE Start
    BY <1>1, <1>2, AskingKept, PutOnKept, QuietStarts, QuietKept DEF Start
  <1>3. CASE TimeoutThread
    BY <1>1, <1>3, RetriesKept, QuietTimer, QuietKept DEF TimeoutThread
  <1>4. CASE Timers
    BY <1>1, <1>4, QuietTimers, QuietKept
  <1>5. CASE ModuleReports
    BY <1>1, <1>5, QuietReports, QuietKept, RefreshKept
  <1>6. CASE Refresh
    BY <1>1, <1>6, RefreshKept DEF Refresh
  <1>7. CASE Answers
    BY <1>1, <1>7, QuietAnswers, QuietKept
  <1>8. CASE KeyAnswers
    BY <1>1, <1>8, KeyAnswersKept
  <1>9. CASE Resend
    <2>1. Quiet
      BY <1>9 DEF Resend, Quiet, keyVars, taskVars
    <2>2. QED BY <1>1, <2>1, QuietKept
  <1>10. QED BY <1>1, <1>2, <1>3, <1>4, <1>5, <1>6, <1>7, <1>8, <1>9 DEF Steps

LEMMA KeyInvCorrect == Spec => []KeyInv
  <1>1. Init => KeyInv
    BY DEF Init, KeyInv, RequestsKept, RetryArmed, InAnswer, InRepetition, InBetween,
           HalfSet, On, FlagSet, StateFor, Again, Handling
  <1>2. KeyInv /\ UNCHANGED vars => KeyInv'
    BY DEF vars, KeyInv, RequestsKept, RetryArmed, InAnswer, InRepetition, InBetween,
           HalfSet, On, FlagSet, StateFor, Again, Handling
  <1>3. TypeOK /\ KeyInv /\ [Next]_vars => KeyInv'
    BY <1>2, KeyStep
  <1>4. QED BY <1>1, <1>3, TypeCorrect, PTL DEF Spec

(* Whatever the eLink task, the receive task and the timer do between the statements
   of each other: a request to add or delete a temporary key is remembered until an
   answer about a key is reported, unless its flag was set while another task was
   about to clear it or cleared before the state was set. *)
THEOREM RequestsAlwaysKept == Spec => []RequestsKept
  BY KeyInvCorrect, PTL DEF KeyInv

(* With the same exception, an operation on a temporary key is never on without
   ble_timeout_thread or the answer being handled bound to end it: it has no time
   limit of its own. *)
THEOREM RetryAlwaysArmed == Spec => []RetryArmed
  BY KeyInvCorrect, PTL DEF KeyInv

---------------------------------------------------------------------------
(* The time that operations have. *)

LEMMA LimitPositive ==
  ASSUME NEW s
  PROVE  TimeLimit(s) \in Nat /\ TimeLimit(s) > 0
  BY SessionAssumption DEF SessionAssumption, TimeLimit

(* While the timer repeats an operation nobody counts. *)
NotCounting == timer \in Ons => cnt = 0

LEMMA NotCountingStep ==
  ASSUME TypeOK, NotCounting, Steps \/ Resend
  PROVE  NotCounting'
  <1> USE DEF NotCounting, Ons
  <1>1. CASE Start
    BY <1>1 DEF Start, StartBind, StartAdd, StartDel, AddOn, DelOn, PutOn, StartConnect
  <1>2. CASE TimeoutThread
    <2>1. CASE WakeUp \/ Count
      BY <2>1 DEF WakeUp, Count, CountUpTo, Timed
    <2>2. CASE Retries
      BY <2>2 DEF Retries, AddOverdue, AddAgain, AddOnAgain, DelOverdue, DelAgain,
                  DelOnAgain
    <2>3. CASE \E s \in Timed : Overdue(s)
      BY <2>3 DEF Overdue
    <2>4. QED BY <1>2, <2>1, <2>2, <2>3 DEF TimeoutThread
  <1>3. CASE Timers
    BY <1>3 DEF Timers, IdleScan, ScanStarts, ScanExpires, MeshExpires, LinkAges
  <1>4. CASE ModuleReports
    BY <1>4
    DEF ModuleReports, ScanReport, ConReport, LinkY, Challenge, PwdYes, PwdNo,
        DiscReport, ResetReport, NameReport, LinkN, OtherWarning, ErrorReport,
        FailReport
  <1>5. CASE Answers \/ KeyAnswers \/ Refresh \/ Resend
    BY <1>5 DEF Answers, KeyAnswers, Refresh, Resend
  <1>6. QED BY <1>1, <1>2, <1>3, <1>4, <1>5 DEF Steps

LEMMA NotCountingCorrect == Spec => []NotCounting
  <1>1. Init => NotCounting
    BY DEF Init, NotCounting
  <1>2. TypeOK /\ NotCounting /\ [Next]_vars => NotCounting'
    BY NotCountingStep DEF Next, NotCounting, vars
  <1>3. QED BY <1>1, <1>2, TypeCorrect, PTL DEF Spec

(* An operation with a time limit that goes on has its clock touched by the
   timer alone: not by a report, an answer, a retry or a resend. *)
LEMMA ClockKept ==
  ASSUME TypeOK, NotCounting, Steps \/ Resend, ~Count, ~NewOperation, state \in Timed
  PROVE  cnt' = cnt /\ (timer \in {state, "count"} => timer' = timer)
  <1>1. /\ state' = state /\ calls \in Nat /\ calls' # calls => asker' # asker
        /\ ~(receiver = "refresh" /\ receiver' = "wait")
        /\ state' \notin {"IDLE", "ADD_TMP", "DEL_TMP"}
        /\ state \notin Ons \cup {"add", "del", "sleep"}
    BY DEF NewOperation, TypeOK, ControlTypes, Timed, Ons
  <1>2. CASE Start
    BY <1>1, <1>2 DEF Start, StartBind, StartAdd, StartDel, AddOn, DelOn, PutOn,
                      StartConnect, Called
  <1>3. CASE TimeoutThread
    <2>1. CASE WakeUp
      BY <1>1, <2>1 DEF WakeUp
    <2>2. CASE Retries
      BY <1>1, <2>2
      DEF Retries, AddOverdue, AddAgain, AddOnAgain, DelOverdue, DelAgain, DelOnAgain,
          NotCounting, Ons
    <2>3. CASE \E s \in Timed : Overdue(s)
      BY <1>1, <2>3 DEF Overdue
    <2>4. QED BY <1>3, <2>1, <2>2, <2>3 DEF TimeoutThread
  <1>4. CASE Timers
    BY <1>4 DEF Timers, IdleScan, ScanStarts, ScanExpires, MeshExpires, LinkAges
  <1>5. CASE ModuleReports
    BY <1>5
    DEF ModuleReports, ScanReport, ConReport, LinkY, Challenge, PwdYes, PwdNo,
        DiscReport, ResetReport, NameReport, LinkN, OtherWarning, ErrorReport,
        FailReport
  <1>6. CASE Answers \/ KeyAnswers \/ Resend
    BY <1>6 DEF Answers, KeyAnswers, Resend
  <1>7. ~Refresh
    BY <1>1 DEF Refresh
  <1>8. QED BY <1>2, <1>3, <1>4, <1>5, <1>6, <1>7 DEF Steps

LEMMA CountedByCount ==
  ASSUME TypeOK, NotCounting, Steps \/ Resend, Counted, ~NewOperation
  PROVE  /\ cnt' = cnt + 1
         /\ timer' = IF cnt + 1 >= TimeLimit(state) THEN state ELSE "sleep"
  <1>1. state \in Timed
    BY DEF Counted
  <1>2. Count
    BY <1>1, ClockKept DEF Counted
  <1>3. state \notin Untimed
    BY <1>1 DEF Timed, Untimed
  <1>4. QED BY <1>1, <1>2, <1>3 DEF Count, CountUpTo

(* A second counted for something that has no limit does not count. *)
LEMMA OnlyCounted ==
  ASSUME TypeOK, Steps \/ Resend, ~Counted, ~NewOperation, state \in Timed
  PROVE  ~Count
  <1>1. state \notin Untimed
    BY DEF Timed, Untimed
  <1>2. state # "count"
    BY DEF Timed
  <1>3. QED BY <1>1, <1>2 DEF Count, CountUpTo, Counted

(* The three ways in which a step treats the history. *)
LEMMA StepKinds ==
  ASSUME TypeOK, NotCounting, NeverLate, Next, state' \in Timed
  PROVE  \/ age' = 0 /\ (whole' => cnt' = 0)
         \/ /\ state' = state /\ timer = "count"
            /\ age' = age + 1 /\ cnt' = cnt + 1 /\ whole' = whole
            /\ timer' = IF cnt + 1 >= TimeLimit(state) THEN state ELSE "sleep"
         \/ /\ state' = state /\ age' = age /\ cnt' = cnt /\ whole' = whole
            /\ timer = state => timer' = state
  <1>1. Steps \/ Resend
    BY DEF Next
  <1>2. PICK again \in BOOLEAN : Clock(again)
    BY Zenon DEF Next, History
  <1>3. CASE NewOperation
    BY Zenon, <1>2, <1>3 DEF Clock
  <1>4. CASE ~NewOperation /\ Counted
    <2>1. /\ age' = IF age > TimeLimit(state) THEN age ELSE age + 1
          /\ whole' = whole
      BY Zenon, <1>2, <1>4 DEF Clock
    <2>2. age \in Nat /\ age <= TimeLimit(state) /\ TimeLimit(state) \in Nat
      BY <1>4, LimitPositive DEF Counted, NeverLate, TypeOK, HistoryTypes, NewOperation
    <2>3. age' = age + 1
      BY <2>1, <2>2
    <2>4. QED BY <1>1, <1>4, <2>1, <2>3, CountedByCount DEF Counted, NewOperation
  <1>5. CASE ~NewOperation /\ ~Counted
    <2>1. age' = age /\ whole' = whole
      BY Zenon, <1>2, <1>5 DEF Clock
    <2>2. state' = state
      BY <1>5 DEF NewOperation
    <2>3. QED BY <1>1, <1>5, <2>1, <2>2, ClockKept, OnlyCounted
  <1>6. QED BY <1>3, <1>4, <1>5

(* An operation with a time limit never outlasts it: when the seconds counted
   since it is on reach its limit, ble_timeout_thread has decided to end it. *)
THEOREM NeverLateCorrect == Spec => []NeverLate
  <1>1. Init => NeverLate
    BY DEF Init, NeverLate, Timed
  <1>2. ASSUME TypeOK, NotCounting, NeverLate, Next
        PROVE  NeverLate'
    <2>1. SUFFICES ASSUME state' \in Timed
                   PROVE  /\ age' <= cnt'
                          /\ age' <= TimeLimit(state')
                          /\ age' = TimeLimit(state') => timer' = state'
      BY DEF NeverLate, TimeLimit
    <2>2. cnt \in Nat /\ cnt' \in Nat /\ age \in Nat
      BY <1>2, StepTypeOK DEF TypeOK, ControlTypes, HistoryTypes
    <2>3. /\ TimeLimit(state) \in Nat /\ TimeLimit(state') \in Nat
          /\ TimeLimit(state') > 0
      BY LimitPositive
    <2>4. state \in Timed => state # "count" /\ state # "sleep"
      BY DEF Timed
    <2>5. CASE age' = 0
      BY <2>2, <2>3, <2>5
    <2>6. CASE /\ state' = state /\ timer = "count"
               /\ age' = age + 1 /\ cnt' = cnt + 1
               /\ timer' = IF cnt + 1 >= TimeLimit(state) THEN state ELSE "sleep"
      <3>1. age <= cnt /\ age < TimeLimit(state)
        BY <1>2, <2>1, <2>2, <2>3, <2>4, <2>6 DEF NeverLate
      <3>2. QED BY <2>2, <2>3, <2>6, <3>1
    <2>7. CASE /\ state' = state /\ age' = age /\ cnt' = cnt
               /\ timer = state => timer' = state
      BY <1>2, <2>1, <2>4, <2>7 DEF NeverLate
    <2>8. QED BY <1>2, <2>1, <2>5, <2>6, <2>7, StepKinds
  <1>3. ASSUME NeverLate, UNCHANGED vars
        PROVE  NeverLate'
    BY <1>3 DEF NeverLate, TimeLimit, vars
  <1>4. TypeOK /\ NotCounting /\ NeverLate /\ [Next]_vars => NeverLate'
    BY <1>2, <1>3
  <1>5. QED BY <1>1, <1>4, TypeCorrect, NotCountingCorrect, PTL DEF Spec

(* An operation that found TimeoutCnt 0 has all its time: nothing but its own
   seconds is ever counted against it. *)
THEOREM CountsItsOwnCorrect == Spec => []CountsItsOwn
  <1>1. Init => CountsItsOwn
    BY DEF Init, CountsItsOwn, Timed
  <1>2. ASSUME TypeOK, NotCounting, NeverLate, CountsItsOwn, Next
        PROVE  CountsItsOwn'
    <2>1. SUFFICES ASSUME state' \in Timed, whole'
                   PROVE  cnt' = age'
      BY DEF CountsItsOwn
    <2>2. CASE age' = 0 /\ cnt' = 0
      BY <2>2
    <2>3. CASE /\ state' = state /\ whole' = whole
               /\ age' = age + 1 /\ cnt' = cnt + 1
      BY <1>2, <2>1, <2>3 DEF CountsItsOwn
    <2>4. CASE /\ state' = state /\ whole' = whole
               /\ age' = age /\ cnt' = cnt
      BY <1>2, <2>1, <2>4 DEF CountsItsOwn
    <2>5. QED BY Zenon, <1>2, <2>1, <2>2, <2>3, <2>4, StepKinds
  <1>3. ASSUME CountsItsOwn, UNCHANGED vars
        PROVE  CountsItsOwn'
    BY <1>3 DEF CountsItsOwn, vars
  <1>4. TypeOK /\ NotCounting /\ NeverLate /\ CountsItsOwn /\ [Next]_vars
          => CountsItsOwn'
    BY <1>2, <1>3
  <1>5. QED BY <1>1, <1>4, TypeCorrect, NotCountingCorrect, NeverLateCorrect, PTL DEF Spec
=============================================================================
