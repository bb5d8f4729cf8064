-------------------------- MODULE BleOrders_proofs --------------------------
(***************************************************************************)
(* Theorems about orders, the lock's answers to them and the stored list:  *)
(* as long as nothing has gone astray, the list is the lock's list         *)
(* (Agreement), and the administrator's password is stored with it         *)
(* (AdminStored).                                                          *)
(*                                                                         *)
(* Both rest on Orderly: there is one order at a time, and one answer to   *)
(* it.  Agreement needs Books in addition, which says for each key what    *)
(* the answers on their way will make of it.                               *)
(***************************************************************************)
EXTENDS BleStore_proofs

---------------------------------------------------------------------------
(* One order at a time.                                                    *)

Tmp(a) == a.kind \in {"add", "del"}

NoTmp(s) == \A i \in DOMAIN s : ~Tmp(s[i])
OneTmp(s) == \A i, j \in DOMAIN s : Tmp(s[i]) /\ Tmp(s[j]) => i = j
OfKind(s, kind) == \A i \in DOMAIN s : Tmp(s[i]) => s[i].kind = kind

\* An answer to an order is being handled.
Handling == receiver # "wait" /\ Tmp(answer)

\* The timer has given up an order, to repeat it.
GivenUp == timer \in {"addOff", "delOff"}

\* The flags are those of the order that is on.
FlagsOK ==
    /\ g_BleState = "other" => /\ ~addFlag /\ ~delFlag /\ ~Answering
                               /\ toSend => GivenUp
    /\ addFlag => g_BleState = "add"
    /\ delFlag => g_BleState = "del"

\* What the timer is to repeat is the order that is on, or the last one.
TimerOK ==
    /\ timer = "add" => g_BleState # "del"
    /\ timer = "del" => g_BleState # "add"
    /\ GivenUp => g_BleState = "other"

\* It is answered once, and not sent while an answer is on its way.
AnswersOK ==
    /\ Answering => ~toSend
    /\ OneTmp(answers) /\ OfKind(answers, g_BleState)
    /\ Handling => NoTmp(answers) /\ answer.kind = g_BleState

\* What the receive task does with an answer is what it was given for.
StagesOK ==
    /\ receiver \in {"admin", "adminWrite", "add"} => answer.kind = "add" /\ answer.ok
    /\ receiver = "delete" => answer.kind \in {"del", "record"} /\ answer.ok
    /\ receiver = "notify" => Tmp(answer)
    /\ receiver \in {"listWrite", "finish"} => Tmp(answer) \/ answer.kind = "record"
    /\ receiver \in {"device", "deviceWrite", "join", "joinWrite"} => ~Tmp(answer)

Orderly == ~astray => FlagsOK /\ TimerOK /\ AnswersOK /\ StagesOK

---------------------------------------------------------------------------
(* What is known of each key.                                              *)

\* The answer puts the key in the list or takes it out.
About(a, k) == a.ok /\ a.kind \in {"add", "del", "record"} /\ a.id = k

Silent(s, k) == \A i \in DOMAIN s : ~About(s[i], k)

\* The last answer about the key puts it in (v), or takes it out (~v).
Says(s, k, v) == \E i \in DOMAIN s :
    /\ About(s[i], k)
    /\ \A j \in DOMAIN s : j > i => ~About(s[j], k)
    /\ v = (s[i].kind = "add")

\* The answer being handled will change the list but has not yet.
Due(k) ==
    /\ receiver \in {"admin", "adminWrite", "notify", "add", "delete"}
    /\ About(answer, k)

\* The order that is open, though the timer may have given it up to repeat it.
Open == IF timer = "addOff" THEN "add" ELSE IF timer = "delOff" THEN "del"
        ELSE g_BleState

\* The lock may or may not have done what it was ordered to.
Awaits(kind, k) == Open = kind /\ g_usrid = k /\ ~Answering

\* The lock has the key exactly if the last answer about it says so; if there is
\* none, exactly if it is in the list.  An order that is open may have been
\* obeyed without an answer.
Book(k) ==
    /\ ~Awaits("add", k) =>
         /\ \A v \in BOOLEAN : Says(answers, k, v) => (k \in lockKeys <=> v)
         /\ Silent(answers, k) /\ Due(k) => (k \in lockKeys <=> answer.kind = "add")
    /\ Silent(answers, k) /\ ~Due(k) =>
         /\ ~Awaits("add", k) => (k \in lockKeys => k \in keysOf)
         /\ ~Awaits("del", k) => (k \in keysOf => k \in lockKeys)

Books == ~astray => \A k \in 0 .. LastId : k \in Keys => Book(k)

\* Only numbers that are accepted are in the list.
SmallKeys == \A k \in keysOf : k <= LastId

---------------------------------------------------------------------------
(* The administrator's password.                                           *)

\* The keys counted, with the one that is being written.
Num == IF receiver = "listWrite" THEN block.num ELSE g_locklistNum

\* An order to add comes with the password; it is stored, or in the receive
\* task's buffer, before the key is; and it stays as long as it is not wiped.
AdminKept ==
    /\ g_BleState = "add" \/ timer \in {"add", "addOff"} => g_adminpwd \in Passwords
    /\ receiver = "adminWrite" => block.admin \in Passwords
    /\ receiver = "joinWrite" => wiped
    /\ receiver \in {"notify", "add"} /\ g_BleState = "add" /\ answer.ok
         => status.admin \in Passwords
    /\ ~wiped /\ Num > 0 /\ receiver # "adminWrite" => status.admin \in Passwords

AdminInv == ~astray => AdminKept

---------------------------------------------------------------------------
(* Sequences of answers.                                                   *)

LEMMA TailOf ==
  ASSUME NEW s \in Seq(Answers), s # << >>
  PROVE  /\ Head(s) \in Answers /\ Tail(s) \in Seq(Answers)
         /\ 1 \in DOMAIN s /\ Head(s) = s[1]
         /\ \A i \in DOMAIN Tail(s) : i \in Nat /\ i + 1 \in DOMAIN s
                                      /\ Tail(s)[i] = s[i + 1]
         /\ \A i \in DOMAIN s : i = 1 \/ (i - 1 \in DOMAIN Tail(s)
                                         /\ Tail(s)[i - 1] = s[i])
  <1>1. Head(s) = s[1] /\ Head(s) \in Answers /\ Tail(s) \in Seq(Answers)
    OBVIOUS
  <1>2. Len(s) \in Nat /\ Len(s) > 0 /\ DOMAIN s = 1 .. Len(s)
    OBVIOUS
  <1>3. DOMAIN Tail(s) = 1 .. Len(s) - 1
    BY <1>2
  <1>4. \A i \in 1 .. Len(s) - 1 : Tail(s)[i] = s[i + 1]
    OBVIOUS
  <1>5. QED BY <1>1, <1>2, <1>3, <1>4

LEMMA AppendOf ==
  ASSUME NEW s \in Seq(Answers), NEW a \in Answers
  PROVE  /\ DOMAIN s \subseteq DOMAIN Append(s, a)
         /\ Len(s) + 1 \in DOMAIN Append(s, a) /\ Append(s, a)[Len(s) + 1] = a
         /\ \A i \in DOMAIN s : i \in Nat /\ i < Len(s) + 1 /\ Append(s, a)[i] = s[i]
         /\ \A i \in DOMAIN Append(s, a) : i \in DOMAIN s \/ i = Len(s) + 1
  OBVIOUS

LEMMA TmpTail ==
  ASSUME NEW s \in Seq(Answers), s # << >>, NEW kind
  PROVE  /\ NoTmp(s) => ~Tmp(Head(s)) /\ NoTmp(Tail(s))
         /\ OneTmp(s) => OneTmp(Tail(s)) /\ (Tmp(Head(s)) => NoTmp(Tail(s)))
         /\ OfKind(s, kind) => OfKind(Tail(s), kind)
                               /\ (Tmp(Head(s)) => Head(s).kind = kind)
         /\ ~Tmp(Head(s)) /\ NoTmp(Tail(s)) => NoTmp(s)
  <1> DEFINE t == Tail(s)
  <1>1. NoTmp(s) => ~Tmp(Head(s)) /\ NoTmp(t)
    BY TailOf DEF NoTmp
  <1>2. ASSUME OneTmp(s) PROVE OneTmp(t) /\ (Tmp(Head(s)) => NoTmp(t))
    <2>1. ASSUME NEW i \in DOMAIN t, NEW j \in DOMAIN t, Tmp(t[i]), Tmp(t[j])
          PROVE  i = j
      <3>1. i \in Nat /\ j \in Nat /\ i + 1 = j + 1
        BY <1>2, <2>1, TailOf DEF OneTmp
      <3>2. QED BY <3>1
    <2>2. ASSUME Tmp(Head(s)), NEW i \in DOMAIN t, Tmp(t[i])
          PROVE  FALSE
      <3>1. i \in Nat /\ 1 = i + 1 /\ i + 1 - 1 \in DOMAIN t
        BY <1>2, <2>2, TailOf DEF OneTmp
      <3>2. DOMAIN t = 1 .. Len(t) /\ Len(t) \in Nat
        BY TailOf
      <3>3. QED BY <3>1, <3>2
    <2>3. QED BY <2>1, <2>2 DEF OneTmp, NoTmp
  <1>3. OfKind(s, kind) => OfKind(t, kind) /\ (Tmp(Head(s)) => Head(s).kind = kind)
    BY TailOf DEF OfKind
  <1>4. ~Tmp(Head(s)) /\ NoTmp(t) => NoTmp(s)
    BY TailOf DEF NoTmp
  <1>5. QED BY <1>1, <1>2, <1>3, <1>4

LEMMA TmpAppend ==
  ASSUME NEW s \in Seq(Answers), NEW a \in Answers, NEW kind
  PROVE  /\ NoTmp(s) /\ ~Tmp(a) => NoTmp(Append(s, a))
         /\ NoTmp(Append(s, a)) => NoTmp(s)
         /\ OneTmp(s) /\ (~Tmp(a) \/ NoTmp(s)) => OneTmp(Append(s, a))
         /\ OfKind(s, kind) /\ (Tmp(a) => a.kind = kind) => OfKind(Append(s, a), kind)
  BY AppendOf DEF NoTmp, OneTmp, OfKind

\* What is said of a key by all answers but the first is what is said by all,
\* and the first is the last if the others are silent.
LEMMA SaysTail ==
  ASSUME NEW s \in Seq(Answers), s # << >>, NEW k, NEW v
  PROVE  /\ Says(Tail(s), k, v) => Says(s, k, v)
         /\ Silent(Tail(s), k) /\ ~About(Head(s), k) => Silent(s, k)
         /\ Silent(Tail(s), k) /\ About(Head(s), k) =>
              Says(s, k, Head(s).kind = "add")
  <1> DEFINE t == Tail(s)
  <1>1. ASSUME Says(t, k, v) PROVE Says(s, k, v)
    <2>1. PICK i \in DOMAIN t : /\ About(t[i], k) /\ v = (t[i].kind = "add")
                                /\ \A j \in DOMAIN t : j > i => ~About(t[j], k)
      BY <1>1 DEF Says
    <2>2. i \in Nat /\ i + 1 \in DOMAIN s /\ t[i] = s[i + 1]
      BY TailOf
    <2>3. ASSUME NEW j \in DOMAIN s, j > i + 1 PROVE ~About(s[j], k)
      <3>1. j \in Nat
        OBVIOUS
      <3>2. j # 1 /\ j - 1 > i
        BY <2>2, <2>3, <3>1
      <3>3. j - 1 \in DOMAIN t /\ t[j - 1] = s[j]
        BY <3>2, TailOf
      <3>4. QED BY <2>1, <3>2, <3>3
    <2>4. QED BY <2>1, <2>2, <2>3 DEF Says
  <1>2. Silent(t, k) /\ ~About(Head(s), k) => Silent(s, k)
    BY TailOf DEF Silent
  <1>3. ASSUME Silent(t, k), About(Head(s), k) PROVE Says(s, k, Head(s).kind = "add")
    <2>1. ASSUME NEW j \in DOMAIN s, j > 1 PROVE ~About(s[j], k)
      <3>1. j # 1
        BY <2>1
      <3>2. j - 1 \in DOMAIN t /\ t[j - 1] = s[j]
        BY <3>1, TailOf
      <3>3. QED BY <1>3, <3>2 DEF Silent
    <2>2. QED BY <1>3, <2>1, TailOf DEF Says
  <1>4. QED BY <1>1, <1>2, <1>3

LEMMA SaysAppend ==
  ASSUME NEW s \in Seq(Answers), NEW a \in Answers, NEW k, NEW v
  PROVE  /\ Silent(Append(s, a), k) => Silent(s, k) /\ ~About(a, k)
         /\ Says(Append(s, a), k, v) => IF About(a, k) THEN v = (a.kind = "add")
                                        ELSE Says(s, k, v)
  <1> DEFINE t == Append(s, a)
  <1>1. Silent(t, k) => Silent(s, k) /\ ~About(a, k)
    BY AppendOf DEF Silent
  <1>2. ASSUME Says(t, k, v) PROVE IF About(a, k) THEN v = (a.kind = "add")
                                   ELSE Says(s, k, v)
    <2>1. PICK i \in DOMAIN t : /\ About(t[i], k) /\ v = (t[i].kind = "add")
                                /\ \A j \in DOMAIN t : j > i => ~About(t[j], k)
      BY <1>2 DEF Says
    <2>2. CASE i \in DOMAIN s
      <3>1. Len(s) + 1 > i /\ t[i] = s[i]
        BY <2>2, AppendOf
      <3>2. ~About(a, k)
        BY <2>1, <3>1, AppendOf
      <3>3. \A j \in DOMAIN s : j > i => ~About(s[j], k)
        BY <2>1, AppendOf
      <3>4. QED BY <2>1, <2>2, <3>1, <3>2, <3>3 DEF Says
    <2>3. CASE i = Len(s) + 1
      BY <2>1, <2>3, AppendOf
    <2>4. QED BY <2>2, <2>3, AppendOf
  <1>3. QED BY <1>1, <1>2

---------------------------------------------------------------------------
(* Orderly is inductive.  A step after which something is astray is done   *)
(* with; the lemmas below speak of the others.                             *)

Order == FlagsOK /\ TimerOK /\ AnswersOK /\ StagesOK

\* Nothing comes back from astray.
LEMMA StaysAstray ==
  ASSUME TypeInv, [Next]_vars, ~astray'
  PROVE  ~astray
  BY DEF TypeInv, TypeOK, Next, vars, Platform, OrderAdd, OrderDelete, Other,
     Timer, Decide, GiveUp, Repeat, Lock, Login, Expire, TakenIn, Receiver, Receive, SetAdmin, WriteAdmin, Notify,
     Add, Delete, WriteList, SetDevice, WriteDevice, Join, WriteJoin, Finish,
     PowerCut, history

LEMMA AnswerIsType ==
  ASSUME TypeInv
  PROVE  /\ answers \in Seq(Answers) /\ answer \in Answers
         /\ g_usrid \in Keys /\ g_BleState \in {"add", "del", "other"}
         /\ addFlag \in BOOLEAN /\ delFlag \in BOOLEAN /\ toSend \in BOOLEAN
         /\ timer \in {"sleep", "add", "del", "addOff", "delOff"}
         /\ astray \in BOOLEAN /\ 0 \in Keys
         /\ answer.ok \in BOOLEAN /\ answer.id \in Keys
         /\ answer.kind \in {"add", "del", "record", "pin"}
  BY Numbers DEF TypeInv, TypeOK, Answers

\* Whether an order is being answered.
LEMMA AnsweringIs == Answering <=> ~NoTmp(answers) \/ Handling
  BY DEF Answering, NoTmp, Handling, Tmp

\* Orders, and other operations, come when none is on.
LEMMA PlatformOrder ==
  ASSUME TypeInv, Order, Platform, ~astray'
  PROVE  Order'
  <1> USE DEF flash, task, ram, outside, history
  <1>1. /\ UNCHANGED <<answers, receiver, answer, timer>>
        /\ Answering' = Answering /\ Handling' = Handling
        /\ NoTmp(answers)' = NoTmp(answers) /\ OneTmp(answers)' = OneTmp(answers)
    BY DEF Platform, OrderAdd, OrderDelete, Other, Answering, Handling, Tmp, NoTmp,
           OneTmp
  <1>2. StagesOK'
    BY <1>1 DEF Order, StagesOK, Tmp
  <1>3. ~Outstanding /\ ~Answering
    BY AnswerIsType
    DEF Platform, OrderAdd, OrderDelete, Other, Order, FlagsOK, Outstanding
  <1>4. NoTmp(answers) /\ ~Handling
    BY <1>3, AnsweringIs
  <1>5. FlagsOK'
    BY <1>1, <1>3
    DEF Platform, OrderAdd, OrderDelete, Other, Outstanding, FlagsOK
  <1>6. TimerOK'
    BY <1>1, <1>3 DEF Outstanding, TimerOK, GivenUp
  <1>7. AnswersOK'
    BY <1>1, <1>3, <1>4 DEF AnswersOK, OneTmp, OfKind, NoTmp
  <1>8. QED BY <1>2, <1>5, <1>6, <1>7 DEF Order

\* The timer repeats the order that is on, or one that has been answered since:
\* no answer to it is on its way then, and it counts as an order again.
LEMMA TimerOrder ==
  ASSUME TypeInv, Order, Timer, ~astray'
  PROVE  Order'
  <1> USE DEF flash, task, ram, outside, history
  <1>1. /\ UNCHANGED <<answers, receiver, answer>>
        /\ Answering' = Answering /\ Handling' = Handling
        /\ NoTmp(answers)' = NoTmp(answers) /\ OneTmp(answers)' = OneTmp(answers)
    BY DEF Timer, Decide, GiveUp, Repeat, Answering, Handling, Tmp, NoTmp, OneTmp
  <1>2. StagesOK'
    BY <1>1 DEF Order, StagesOK, Tmp
  <1>3. CASE Decide
    <2>1. /\ UNCHANGED <<g_BleState, addFlag, delFlag, toSend>> /\ timer = "sleep"
          /\ timer' \in {"add", "del"}
          /\ timer' = "add" => addFlag
          /\ timer' = "del" => delFlag
      BY <1>3, AnswerIsType DEF Decide
    <2>2. FlagsOK' /\ TimerOK'
      BY <1>1, <2>1 DEF Order, FlagsOK, TimerOK, GivenUp
    <2>3. AnswersOK'
      BY <1>1, <2>1 DEF Order, AnswersOK, OfKind
    <2>4. QED BY <1>2, <2>2, <2>3 DEF Order
  <1>4. CASE GiveUp
    <2>1. /\ ~Answering /\ g_BleState' = "other" /\ toSend' = toSend
          /\ ~addFlag' /\ timer' \in {"addOff", "delOff"}
          /\ delFlag' => delFlag /\ timer = "add"
      BY <1>4, AnswerIsType DEF GiveUp
    <2>2. timer = "add" => ~delFlag
      BY DEF Order, FlagsOK, TimerOK
    <2>3. NoTmp(answers) /\ ~Handling
      BY <2>1, AnsweringIs
    <2>4. FlagsOK' /\ TimerOK'
      BY <1>1, <2>1, <2>2 DEF FlagsOK, TimerOK, GivenUp
    <2>5. AnswersOK'
      BY <1>1, <2>1, <2>3 DEF AnswersOK, OneTmp, OfKind, NoTmp
    <2>6. QED BY <1>2, <2>4, <2>5 DEF Order
  <1>5. CASE Repeat
    <2>1. /\ ~Answering /\ timer \in {"addOff", "delOff"} /\ timer' = "sleep"
          /\ g_BleState' = IF timer = "addOff" THEN "add" ELSE "del"
          /\ addFlag' = (addFlag \/ timer = "addOff")
          /\ delFlag' = (delFlag \/ timer = "delOff")
      BY <1>5, AnswerIsType DEF Repeat
    <2>2. ~addFlag /\ ~delFlag
      BY <2>1 DEF Order, FlagsOK, TimerOK, GivenUp
    <2>3. NoTmp(answers) /\ ~Handling
      BY <2>1, AnsweringIs
    <2>4. FlagsOK' /\ TimerOK'
      BY <1>1, <2>1, <2>2 DEF FlagsOK, TimerOK, GivenUp
    <2>5. AnswersOK'
      BY <1>1, <2>1, <2>3 DEF AnswersOK, OneTmp, OfKind, NoTmp
    <2>6. QED BY <1>2, <2>4, <2>5 DEF Order
  <1>6. QED BY <1>3, <1>4, <1>5 DEF Timer

\* The lock answers an order once.
LEMMA LockOrder ==
  ASSUME TypeInv, Order, Lock, ~astray'
  PROVE  Order'
  <1> USE DEF flash, task, ram, outside, history
  <1>1. /\ UNCHANGED <<receiver, answer>> /\ Handling' = Handling
        /\ StagesOK'
    BY DEF Lock, Login, Expire, TakenIn, Handling, Tmp, Order, StagesOK
  <1>2. ASSUME NEW a \in Answers, answers' = Append(answers, a), ~Tmp(a),
               UNCHANGED <<g_BleState, addFlag, delFlag, timer>>,
               toSend' => toSend
        PROVE  Order'
    <2>1. NoTmp(answers)' = NoTmp(answers)
      BY <1>2, AnswerIsType, TmpAppend DEF NoTmp
    <2>2. OneTmp(answers') /\ OfKind(answers', g_BleState)
      BY <1>2, AnswerIsType, TmpAppend DEF Order, AnswersOK
    <2>3. Answering' <=> Answering
      BY <1>1, <2>1 DEF Answering, NoTmp, Handling, Tmp
    <2>4. QED
      BY <1>1, <1>2, <2>1, <2>2, <2>3
      DEF Order, FlagsOK, TimerOK, GivenUp, AnswersOK
  <1>3. CASE Login
    <2>1. /\ ~Answering /\ toSend' = FALSE
          /\ UNCHANGED <<g_BleState, addFlag, delFlag, timer>>
      BY <1>3, AnswerIsType DEF Login, Order, AnswersOK
    <2>2. NoTmp(answers) /\ ~Handling
      BY <2>1, AnsweringIs
    <2>3. CASE answers' = answers
      BY <1>1, <2>1, <2>3
      DEF Order, FlagsOK, TimerOK, GivenUp, AnswersOK, Answering
    <2>4. ASSUME NEW ok \in BOOLEAN, g_BleState # "other",
                 Arrives(g_BleState, g_usrid, ok)
          PROVE  Order'
      <3> DEFINE a == [kind |-> g_BleState, id |-> g_usrid, ok |-> ok]
      <3>1. a \in Answers /\ a.kind = g_BleState /\ answers' = Append(answers, a)
        BY <2>4, AnswerIsType DEF Answers, Arrives
      <3>2. OneTmp(answers') /\ OfKind(answers', g_BleState)
        BY <2>2, <3>1, AnswerIsType, TmpAppend DEF Order, AnswersOK
      <3>3. QED
        BY <1>1, <2>1, <2>2, <2>4, <3>2
        DEF Order, FlagsOK, TimerOK, GivenUp, AnswersOK
    <2>5. QED BY <1>3, <2>3, <2>4 DEF Login
  <1>4. CASE Expire
    <2>1. PICK id \in lockKeys : Arrives("record", id, TRUE)
      BY <1>4 DEF Expire
    <2> DEFINE a == [kind |-> "record", id |-> id, ok |-> TRUE]
    <2>2. a \in Answers /\ ~Tmp(a) /\ answers' = Append(answers, a)
      BY <2>1 DEF TypeInv, TypeOK, Answers, Tmp, Arrives
    <2>3. QED BY <1>2, <1>4, <2>2 DEF Expire, ram
  <1>5. CASE TakenIn
    <2>1. PICK ok \in BOOLEAN : Arrives("pin", 0, ok)
      BY <1>5 DEF TakenIn
    <2> DEFINE a == [kind |-> "pin", id |-> 0, ok |-> ok]
    <2>2. a \in Answers /\ ~Tmp(a) /\ answers' = Append(answers, a)
      BY <2>1, AnswerIsType DEF Answers, Tmp, Arrives
    <2>3. UNCHANGED <<g_BleState, addFlag, delFlag, toSend, timer>>
      BY <1>5, AnswerIsType DEF TakenIn, Outstanding
    <2>4. QED BY <1>2, <2>2, <2>3
  <1>6. QED BY <1>3, <1>4, <1>5 DEF Lock

\* An answer that is taken up puts an end to the order.
LEMMA ReceiveOrder ==
  ASSUME TypeInv, Order, Receive
  PROVE  Order'
  <1> DEFINE a == Head(answers)
             t == Tail(answers)
  <1>1. /\ answers # << >> /\ receiver = "wait" /\ answer' = a /\ answers' = t
        /\ UNCHANGED <<g_BleState, toSend, timer>> /\ ~Handling
    BY DEF Receive, Handling
  <1>2. a \in Answers /\ a.kind \in {"add", "del", "record", "pin"} /\ a.ok \in BOOLEAN
    BY <1>1, AnswerIsType, TailOf DEF Answers
  <1>3. OneTmp(t) /\ OfKind(t, g_BleState)
    BY <1>1, AnswerIsType, TmpTail DEF Order, AnswersOK
  <1>4. CASE Tmp(a)
    <2>1. NoTmp(t) /\ a.kind = g_BleState /\ ~NoTmp(answers)
      BY <1>1, <1>4, AnswerIsType, TmpTail DEF Order, AnswersOK
    <2>2. ~toSend
      BY <2>1, AnsweringIs DEF Order, AnswersOK
    <2>3. addFlag' = FALSE /\ delFlag' = FALSE
      BY <1>1, <1>4 DEF Receive, Tmp
    <2>4. receiver' = "notify" \/ (receiver' = "admin" /\ a.ok /\ a.kind = "add")
      BY <1>1, <1>4, <2>1 DEF Receive, Tmp
    <2>5. g_BleState # "other"
      BY <1>4, <2>1 DEF Tmp
    <2>6. FlagsOK' /\ TimerOK'
      BY <1>1, <2>3, <2>5 DEF Order, FlagsOK, TimerOK, GivenUp
    <2>7. AnswersOK'
      BY <1>1, <1>3, <2>1, <2>2
      DEF AnswersOK, Handling, Tmp, NoTmp, OneTmp, OfKind
    <2>8. StagesOK'
      BY <1>1, <1>4, <2>4 DEF StagesOK, Tmp
    <2>9. QED BY <2>6, <2>7, <2>8 DEF Order
  <1>5. CASE ~Tmp(a)
    <2>1. addFlag' = addFlag /\ delFlag' = delFlag
      BY <1>1, <1>5, AnswerIsType DEF Receive, Tmp
    <2>2. NoTmp(t) <=> NoTmp(answers)
      BY <1>1, <1>5, AnswerIsType, TmpTail
    <2>3. ~Handling'
      BY <1>1, <1>5 DEF Handling, Tmp
    <2>4. NoTmp(answers)' = NoTmp(t)
      BY <1>1 DEF NoTmp, Tmp
    <2>5. Answering' <=> Answering
      BY <1>1, <2>2, <2>3, <2>4 DEF Answering, NoTmp, Handling, Tmp
    <2>6. /\ receiver' \in {"wait", "delete", "device"}
          /\ receiver' = "delete" => a.kind = "record" /\ a.ok
      BY <1>1, <1>2, <1>5 DEF Receive, Tmp
    <2>7. FlagsOK' /\ TimerOK'
      BY <1>1, <2>1, <2>5 DEF Order, FlagsOK, TimerOK, GivenUp
    <2>8. AnswersOK'
      BY <1>1, <1>3, <2>3, <2>5 DEF Order, AnswersOK, OneTmp, OfKind, Tmp
    <2>9. StagesOK'
      BY <1>1, <1>5, <2>6 DEF StagesOK, Tmp
    <2>10. QED BY <2>7, <2>8, <2>9 DEF Order
  <1>6. QED BY <1>4, <1>5

\* An answer that is being handled keeps its kind, and g_BleState is the same at
\* every test of it.
LEMMA HandleOrder ==
  ASSUME TypeInv, Order,
         SetAdmin \/ WriteAdmin \/ Notify \/ Add \/ Delete \/ WriteList
         \/ SetDevice \/ WriteDevice \/ Join
  PROVE  Order'
  <1> USE DEF flash, ram, outside, history, Holds
  <1>1. /\ UNCHANGED <<answers, answer, g_BleState, addFlag, delFlag, toSend, timer>>
        /\ receiver # "wait" /\ receiver' # "wait"
    BY DEF SetAdmin, WriteAdmin, Notify, Add, Delete, WriteList, SetDevice,
           WriteDevice, Join
  <1>2. (Handling' <=> Handling) /\ (Answering' <=> Answering)
    BY <1>1 DEF Handling, Answering, Tmp
  <1>3. FlagsOK' /\ TimerOK'
    BY <1>1, <1>2 DEF Order, FlagsOK, TimerOK, GivenUp
  <1>4. AnswersOK'
    BY <1>1, <1>2 DEF Order, AnswersOK, NoTmp, OneTmp, OfKind, Tmp
  <1>5. StagesOK'
    <2>1. CASE Notify
      <3>1. /\ Tmp(answer) /\ answer.kind = g_BleState /\ UNCHANGED answer
            /\ receiver' \in {"finish", "add", "delete"}
            /\ receiver' = "add" => answer.ok /\ g_BleState = "add"
            /\ receiver' = "delete" => answer.ok /\ g_BleState # "add"
        BY <2>1, AnswerIsType DEF Notify, Order, StagesOK, AnswersOK, Handling
      <3>2. QED BY <3>1 DEF StagesOK, Tmp
    <2>2. CASE SetAdmin \/ WriteAdmin \/ Add \/ Delete \/ WriteList
      BY <1>1, <2>2
      DEF SetAdmin, WriteAdmin, Add, Delete, WriteList, Order, StagesOK, Tmp
    <2>3. CASE SetDevice \/ WriteDevice \/ Join
      BY <1>1, <2>3 DEF SetDevice, WriteDevice, Join, Order, StagesOK, Tmp
    <2>4. QED BY <2>1, <2>2, <2>3
  <1>6. QED BY <1>3, <1>4, <1>5 DEF Order

\* When the answer has been handled there is no order, and no other answer to it.
LEMMA FinishOrder ==
  ASSUME TypeInv, Order, Finish \/ WriteJoin
  PROVE  Order'
  <1> USE DEF flash, ram, outside, history, Holds
  <1>1. /\ UNCHANGED <<answers, toSend, timer>> /\ receiver # "wait" /\ receiver' = "wait"
        /\ ~Handling'
    BY DEF Finish, WriteJoin, Handling
  <1>2. NoTmp(answers)' = NoTmp(answers)
    BY <1>1 DEF NoTmp, Tmp
  <1>3. Answering' <=> ~NoTmp(answers)
    BY <1>1, <1>2 DEF Answering, Handling, NoTmp, Tmp
  <1>4. StagesOK'
    BY <1>1 DEF StagesOK
  <1>5. CASE Tmp(answer)
    <2>1. NoTmp(answers) /\ ~toSend
      BY <1>1, <1>5, AnsweringIs DEF Order, AnswersOK, Handling
    <2>2. g_BleState' = "other" /\ ~addFlag' /\ ~delFlag'
      BY <1>5 DEF Finish, WriteJoin, Order, StagesOK, Tmp
    <2>3. FlagsOK' /\ TimerOK'
      BY <1>1, <1>3, <2>1, <2>2 DEF Order, FlagsOK, TimerOK, GivenUp
    <2>4. AnswersOK'
      BY <1>1, <1>3, <2>1 DEF AnswersOK, OneTmp, OfKind, NoTmp
    <2>5. QED BY <1>4, <2>3, <2>4 DEF Order
  <1>6. CASE ~Tmp(answer)
    <2>1. UNCHANGED <<g_BleState, addFlag, delFlag>>
      BY <1>6 DEF Finish, WriteJoin, Order, StagesOK
    <2>2. Answering' <=> Answering
      BY <1>3, <1>6, AnsweringIs DEF Handling
    <2>3. QED
      BY <1>1, <1>4, <2>1, <2>2
      DEF Order, FlagsOK, TimerOK, GivenUp, AnswersOK, OneTmp, OfKind, Tmp
  <1>7. QED BY <1>5, <1>6

LEMMA CutOrder ==
  ASSUME PowerCut
  PROVE  Order'
  <1>1. /\ answers' = << >> /\ receiver' = "wait" /\ timer' = "sleep"
        /\ ~addFlag' /\ ~delFlag' /\ ~toSend'
    BY DEF PowerCut
  <1>2. DOMAIN answers' = {}
    BY <1>1
  <1>3. ~Answering' /\ ~Handling'
    BY <1>1, <1>2 DEF Answering, Handling
  <1>4. QED
    BY <1>1, <1>2, <1>3
    DEF Order, FlagsOK, TimerOK, GivenUp, AnswersOK, StagesOK, OneTmp, OfKind

LEMMA StepOrderly ==
  ASSUME TypeInv, Orderly, [Next]_vars
  PROVE  Orderly'
  <1> SUFFICES ASSUME ~astray' PROVE Order'
    BY DEF Orderly, Order, FlagsOK, TimerOK, GivenUp, AnswersOK, StagesOK
  <1>1. Order
    BY StaysAstray DEF Orderly, Order
  <1>2. CASE UNCHANGED vars
    BY <1>1, <1>2
    DEF vars, Order, FlagsOK, TimerOK, GivenUp, AnswersOK, StagesOK, Answering,
        Handling, NoTmp, OneTmp, OfKind, Tmp
  <1>3. QED
    BY <1>1, <1>2, PlatformOrder, TimerOrder, LockOrder, ReceiveOrder, HandleOrder,
       FinishOrder, CutOrder
    DEF Next, Receiver

\* As long as nothing has gone astray there is one order at a time: no command is
\* sent while an answer to it is on its way, and cmd_tmp_key_list finds the same
\* order at each of its tests of g_BleState.  What the timer repeats is the order
\* that is on, or the last one: ble_timeout_thread repeats an order that was
\* answered after it had looked at the flag, and that is an order then.
THEOREM OneOrder == Spec => []Orderly
  <1>1. Init => Orderly
    <2> SUFFICES ASSUME Init PROVE Order
      BY DEF Orderly, Order
    <2>1. /\ receiver = "wait" /\ timer = "sleep" /\ DOMAIN answers = {}
          /\ ~addFlag /\ ~delFlag /\ ~toSend
      BY DEF Init
    <2>2. ~Answering /\ ~Handling
      BY <2>1 DEF Answering, Handling
    <2>3. QED
      BY <2>1, <2>2
      DEF Order, FlagsOK, TimerOK, GivenUp, AnswersOK, StagesOK, OneTmp, OfKind
  <1>2. TypeInv /\ Orderly /\ [Next]_vars => Orderly'
    BY StepOrderly
  <1>3. QED BY <1>1, <1>2, Invariance, PTL DEF Spec

---------------------------------------------------------------------------
(* The administrator's password is stored.                                 *)

\* The steps of the platform, the timer and the lock.
LEMMA OutsideAdmin ==
  ASSUME TypeInv, Order, AdminKept, Platform \/ Timer \/ Lock, ~astray'
  PROVE  AdminKept'
  <1> USE DEF flash, task, ram, outside, history
  <1>1. UNCHANGED <<status, receiver, answer, block, wiped, g_locklistNum>>
    BY DEF Platform, OrderAdd, OrderDelete, Other, Timer, Decide, GiveUp, Repeat, Lock,
           Login, Expire, TakenIn
  <1>2. Num' = Num
    BY <1>1 DEF Num
  <1>3. CASE OrderAdd
    <2>1. ~Outstanding /\ ~Handling
      BY <1>3, AnswerIsType, AnsweringIs
      DEF OrderAdd, Order, FlagsOK, Outstanding
    <2>2. receiver \notin {"notify", "add"}
      BY <2>1 DEF Order, StagesOK, Handling, Tmp
    <2>3. g_adminpwd' \in Passwords
      BY <1>3 DEF OrderAdd
    <2>4. QED BY <1>1, <1>2, <2>2, <2>3 DEF AdminKept
  <1>4. CASE OrderDelete \/ Other \/ TakenIn
    <2>1. g_BleState' # "add" /\ timer' = "sleep"
      BY <1>4, AnswerIsType DEF OrderDelete, Other, TakenIn, Outstanding
    <2>2. QED BY <1>1, <1>2, <2>1 DEF AdminKept
  <1>5. CASE Login \/ Expire
    <2>1. UNCHANGED <<g_BleState, g_adminpwd, timer>>
      BY <1>5 DEF Login, Expire
    <2>2. QED BY <1>1, <1>2, <2>1 DEF AdminKept
  <1>6. CASE Timer
    <2>1. /\ g_adminpwd' = g_adminpwd
          /\ g_BleState' = "add" \/ timer' \in {"add", "addOff"} =>
               g_BleState = "add" \/ timer \in {"add", "addOff"}
      BY <1>6, AnswerIsType DEF Timer, Decide, GiveUp, Repeat, Order, FlagsOK
    <2>2. ~Handling \/ g_BleState' = g_BleState
      BY <1>6, AnswerIsType, AnsweringIs DEF Timer, Decide, GiveUp, Repeat
    <2>3. receiver \in {"notify", "add"} => g_BleState' = g_BleState
      BY <2>2 DEF Order, StagesOK, Handling, Tmp
    <2>4. QED BY <1>1, <1>2, <2>1, <2>3 DEF AdminKept
  <1>7. QED BY <1>3, <1>4, <1>5, <1>6 DEF Platform, Lock

\* The steps of the receive task.
LEMMA ReceiverAdmin ==
  ASSUME TypeInv, Order, AdminKept, Receiver, ~astray'
  PROVE  AdminKept'
  <1> USE DEF flash, ram, outside, history, Holds
  <1>1. CASE Receive
    <2>1. /\ UNCHANGED <<status, g_BleState, g_adminpwd, g_locklistNum, wiped, timer>>
          /\ receiver = "wait" /\ answers # << >> /\ answer' = Head(answers)
          /\ receiver' \in {"wait", "admin", "notify", "delete", "device"}
      BY <1>1 DEF Receive
    <2>2. Tmp(answer') => answer'.kind = g_BleState
      BY <2>1, AnswerIsType, TmpTail DEF Order, AnswersOK
    <2>3. receiver' = "notify" => ~(g_BleState = "add" /\ answer'.ok)
      BY <1>1, <2>2 DEF Receive, Tmp
    <2>4. Num' = Num
      BY <2>1 DEF Num
    <2>5. QED BY <2>1, <2>3, <2>4 DEF AdminKept
  <1>2. CASE SetAdmin \/ WriteAdmin
    <2>1. /\ UNCHANGED <<g_BleState, g_adminpwd, g_locklistNum, wiped, answer, timer>>
          /\ receiver \in {"admin", "adminWrite"}
      BY <1>2 DEF SetAdmin, WriteAdmin
    <2>2. Handling /\ answer.kind = "add"
      BY <2>1 DEF Order, StagesOK, Handling, Tmp
    <2>3. g_BleState = "add"
      BY <2>2 DEF Order, AnswersOK
    <2>4. g_adminpwd \in Passwords
      BY <2>3 DEF AdminKept
    <2>5. \/ receiver' = "notify" /\ status'.admin \in Passwords
          \/ receiver' = "adminWrite" /\ block'.admin \in Passwords
      <3>1. CASE SetAdmin /\ status.admin = g_adminpwd
        BY <2>4, <3>1 DEF SetAdmin
      <3>2. CASE SetAdmin /\ status.admin # g_adminpwd
        <4>1. [status EXCEPT !.admin = g_adminpwd].admin = g_adminpwd
          BY DEF TypeInv, TypeOK, Statuses
        <4>2. QED BY <2>4, <3>2, <4>1 DEF SetAdmin
      <3>3. CASE WriteAdmin
        BY <3>3 DEF WriteAdmin, AdminKept
      <3>4. QED BY <1>2, <3>1, <3>2, <3>3
    <2>6. QED BY <2>1, <2>4, <2>5 DEF AdminKept
  <1>3. CASE Add
    <2>1. /\ UNCHANGED <<status, g_BleState, g_adminpwd, g_locklistNum, answer, timer>>
          /\ receiver = "add" /\ receiver' \in {"listWrite", "finish"}
      BY <1>3 DEF Add
    <2>2. Handling /\ answer.kind = "add" /\ answer.ok
      BY <2>1 DEF Order, StagesOK, Handling, Tmp
    <2>3. status.admin \in Passwords
      BY <2>1, <2>2 DEF Order, AnswersOK, AdminKept
    <2>4. QED BY <2>1, <2>3 DEF AdminKept
  <1>4. CASE Delete
    <2>1. /\ UNCHANGED <<status, g_BleState, g_adminpwd, g_locklistNum, wiped, timer>>
          /\ receiver = "delete" /\ receiver' \in {"listWrite", "finish"}
          /\ receiver' = "listWrite" => \E i \in Places : block' = Deleted(i)
      BY <1>4 DEF Delete
    <2>2. receiver' = "listWrite" => block'.num = g_locklistNum - 1
      BY <2>1 DEF Deleted
    <2>3. g_locklistNum \in Nat
      BY Numbers DEF TypeInv, TypeOK
    <2>4. Num' > 0 => Num > 0
      BY <2>1, <2>2, <2>3 DEF Num
    <2>5. QED BY <2>1, <2>4 DEF AdminKept
  <1>5. CASE Notify
    <2>1. UNCHANGED <<status, g_BleState, g_adminpwd, g_locklistNum, wiped, answer, timer>>
          /\ receiver = "notify" /\ receiver' \in {"finish", "add", "delete"}
      BY <1>5 DEF Notify
    <2>2. Num' = Num
      BY <2>1 DEF Num
    <2>3. QED BY <2>1, <2>2 DEF AdminKept
  <1>6. CASE WriteList \/ SetDevice \/ WriteDevice \/ Finish
    <2>1. /\ UNCHANGED <<status, g_adminpwd, wiped, timer>>
          /\ g_BleState' \in {g_BleState, "other"}
          /\ receiver \in {"listWrite", "device", "deviceWrite", "finish"}
          /\ receiver' \in {"deviceWrite", "join", "finish", "wait"}
      BY <1>6 DEF WriteList, SetDevice, WriteDevice, Finish
    <2>2. Num' = Num
      BY <1>6 DEF WriteList, SetDevice, WriteDevice, Finish, Num
    <2>3. QED BY <2>1, <2>2 DEF AdminKept
  <1>7. CASE Join \/ WriteJoin
    <2>1. /\ UNCHANGED <<g_BleState, g_adminpwd, timer>> /\ wiped'
          /\ receiver' \in {"joinWrite", "wait"}
      BY <1>7 DEF Join, WriteJoin, AdminKept
    <2>2. QED BY <2>1 DEF AdminKept
  <1>8. QED BY <1>1, <1>2, <1>3, <1>4, <1>5, <1>6, <1>7 DEF Receiver

\* Nothing goes astray at a restart only if it forgets no key.
LEMMA CutIsHarmless ==
  ASSUME TypeInv, PowerCut, ~astray'
  PROVE  /\ Settled /\ g_locklistNum <= MaxTemp
         /\ g_locklistNum' = g_locklistNum /\ Listed' = Listed
         /\ GoodList(list, g_locklistNum)
  <1>1. Settled /\ ~ g_locklistNum > MaxTemp
    BY DEF PowerCut, TypeInv, TypeOK
  <1>2. GoodList(list, g_locklistNum)
    BY <1>1 DEF Settled, TypeInv, ListInv
  <1>3. g_locklistNum \in Nat /\ g_locklistNum <= MaxTemp
    BY <1>1, <1>2, Numbers DEF GoodList
  <1>4. QED BY <1>1, <1>2, <1>3, CountGood, CutListed DEF PowerCut

LEMMA StepAdmin ==
  ASSUME TypeInv, Orderly, AdminInv, [Next]_vars
  PROVE  AdminInv'
  <1> SUFFICES ASSUME ~astray' PROVE AdminKept'
    BY DEF AdminInv, AdminKept, Num
  <1>1. Order /\ AdminKept
    BY StaysAstray DEF Orderly, Order, AdminInv
  <1>2. CASE UNCHANGED vars
    BY <1>1, <1>2 DEF vars, AdminKept, Num
  <1>3. CASE PowerCut
    <2>1. /\ receiver = "wait" /\ receiver' = "wait" /\ g_BleState' = "other"
          /\ timer' = "sleep"
          /\ g_locklistNum' = g_locklistNum /\ UNCHANGED <<status, wiped>>
      BY <1>3, CutIsHarmless DEF PowerCut, Settled, flash, TypeInv, TypeOK
    <2>2. QED BY <1>1, <2>1 DEF AdminKept, Num
  <1>4. QED BY <1>1, <1>2, <1>3, OutsideAdmin, ReceiverAdmin DEF Next

\* The password an order to add brings is in flash before the key is
\* (ble_set_adminpassword, called by cmd_tmp_key_list before it stores the key),
\* so that ble_del_tmp_pwd_start finds it there for any key in the list.
THEOREM AdminStaysStored == Spec => []AdminStored
  <1>1. Init => AdminInv
    BY DEF Init, AdminInv, AdminKept, Num
  <1>2. TypeInv /\ Orderly /\ AdminInv /\ [Next]_vars => AdminInv'
    BY StepAdmin
  <1>3. AdminInv => AdminStored
    BY DEF AdminInv, AdminKept, Num, AdminStored
  <1>4. QED BY <1>1, <1>2, <1>3, OneOrder, Invariance, PTL DEF Spec

---------------------------------------------------------------------------
(* What the steps do to the keys of the list.                              *)

\* Every set of numbers has a least one: initial segments are ordered by
\* inclusion.
LEMMA LeastNumber ==
  ASSUME NEW M \in SUBSET Nat, M # {}
  PROVE  \E n \in M : \A m \in M : n <= m
  <1> DEFINE Below(n) == 0 .. n - 1
             T == {Below(n) : n \in M}
  <1>1. T \subseteq FiniteSubsetsOf(Nat) /\ T # {}
    <2>1. \A n \in M : IsFiniteSet(Below(n)) /\ Below(n) \subseteq Nat
      BY FS_Interval
    <2> HIDE DEF Below
    <2>2. QED BY <2>1 DEF FiniteSubsetsOf
  <1>2. \E x \in T : \A y \in T : <<y, x>> \notin StrictSubsetOrdering(Nat)
    <2> HIDE DEF T
    <2>1. QED BY <1>1, FS_StrictSubsetOrderingWellFounded, WFMin
  <1>3. PICK n \in M : \A m \in M :
          <<Below(m), Below(n)>> \notin StrictSubsetOrdering(Nat)
    BY <1>2
  <1>4. ASSUME NEW m \in M, m < n PROVE FALSE
    <2>1. Below(m) \subseteq Below(n) /\ m \in Below(n) /\ m \notin Below(m)
          /\ Below(m) \subseteq Nat /\ Below(n) \subseteq Nat
      BY <1>4
    <2> HIDE DEF Below
    <2>2. <<Below(m), Below(n)>> \in StrictSubsetOrdering(Nat)
      BY <2>1 DEF StrictSubsetOrdering
    <2>3. QED BY <1>3, <2>2
  <1>5. QED BY <1>4

\* No step of KeyStore puts in a number that is too great.
LEMMA KeysStaySmall == Spec => []SmallKeys
  <1>1. Store!Init => SmallKeys
    BY DEF Store!Init, SmallKeys
  <1>2. SmallKeys /\ [Store!Next]_(Store!vars) => SmallKeys'
    BY DEF SmallKeys, Store!Next, Store!vars, Store!Put, Store!Take, Store!Turn,
           Store!Empty, Store!Forget
  <1>3. QED BY <1>1, <1>2, ImplementsKeyStore, PTL DEF StoreSpec, Store!Spec

LEMMA KeysKept ==
  ASSUME TypeInv, [Next]_vars, ~Add, ~Delete, ~PowerCut
  PROVE  keysOf' = keysOf
  BY OthersRefine, StepInv DEF Store!Turn

LEMMA KeysCut ==
  ASSUME TypeInv, PowerCut, ~astray'
  PROVE  keysOf' = keysOf
  BY CutIsHarmless DEF PowerCut, Settled, keysOf

LEMMA KeysDelete ==
  ASSUME TypeInv, Delete, ~astray'
  PROVE  keysOf' = keysOf \ {answer.id}
  <1>1. /\ receiver = "delete" /\ GoodList(list, g_locklistNum) /\ keysOf = Listed
        /\ astray \in BOOLEAN
    BY DEF Delete, TypeInv, TypeOK, ListInv, keysOf
  <1>2. CASE ~ \E i \in Places : Match(answer.id, i)
    <2>1. keysOf' = Listed
      BY <1>1, <1>2 DEF Delete, keysOf, Listed, ram
    <2>2. ASSUME answer.id \in Listed PROVE FALSE
      <3> DEFINE Same == {i \in 0 .. g_locklistNum - 1 : Text[list[i]] = Text[answer.id]}
      <3>1. Same \subseteq Nat /\ Same # {}
        BY <1>1, <2>2, Numbers DEF GoodList, Listed
      <3>2. PICK n \in Same : \A m \in Same : n <= m
        BY <3>1, LeastNumber
      <3>3. n \in Places /\ n < g_locklistNum
            /\ \A m \in 0 .. n - 1 : m \in 0 .. g_locklistNum - 1 /\ ~ n <= m
        BY <1>1, Numbers DEF GoodList
      <3>4. Match(answer.id, n)
        BY <3>2, <3>3 DEF Match
      <3>5. QED BY <1>2, <3>3, <3>4
    <2>3. QED BY <1>1, <2>1, <2>2
  <1>3. CASE \E i \in Places : Match(answer.id, i)
    <2>1. PICK i \in Places : /\ Match(answer.id, i) /\ Holds("listWrite", Deleted(i))
                              /\ astray' = (astray \/ list[i] # answer.id)
      BY <1>3 DEF Delete
    <2>2. list[i] = answer.id
      BY <2>1
    <2>3. i \in 0 .. g_locklistNum - 1
      BY <1>1, <2>1, Numbers DEF Match, GoodList
    <2>4. QED BY <1>1, <2>1, <2>2, <2>3, DeletedIsGood DEF keysOf, Holds
  <1>4. QED BY <1>2, <1>3

\* An addition to a full list puts nothing in, but then the list has all numbers
\* that are accepted: LastId <= MaxTemp.
LEMMA KeysAdd ==
  ASSUME TypeInv, SmallKeys, Add
  PROVE  keysOf' = keysOf \cup {answer.id}
  <1>1. /\ receiver = "add" /\ GoodList(list, g_locklistNum)
        /\ answer.id \in Keys /\ answer.id <= LastId /\ keysOf = Listed
    BY DEF Add, TypeInv, TypeOK, Small, ListInv, Answers, keysOf
  <1>2. CASE g_locklistNum > MaxTemp
    <2>1. keysOf' = Listed
      BY <1>2 DEF Add, keysOf, Listed, ram
    <2>2. g_locklistNum = MaxTemp + 1 /\ 0 .. g_locklistNum - 1 \subseteq Places
      BY <1>1, <1>2, Numbers DEF GoodList
    <2>3. Listed \subseteq Keys
      BY <1>1, <2>2 DEF Listed, GoodList, Lists, Used
    <2>4. Listed \subseteq 0 .. MaxTemp /\ answer.id \in 0 .. MaxTemp
      BY <1>1, <2>3, Numbers DEF SmallKeys, Keys
    <2>5. Cardinality(Listed) = MaxTemp + 1
      BY <1>1, <2>2, FullList
    <2>6. IsFiniteSet(0 .. MaxTemp) /\ Cardinality(0 .. MaxTemp) = MaxTemp + 1
      <3>1. 0 \in Int /\ MaxTemp \in Int /\ ~ 0 > MaxTemp /\ MaxTemp - 0 + 1 = MaxTemp + 1
        BY Numbers
      <3>2. QED BY <3>1, FS_Interval
    <2>7. Listed = 0 .. MaxTemp
      BY <2>4, <2>5, <2>6, FS_Subset
    <2>8. QED BY <1>1, <2>1, <2>4, <2>7
  <1>3. CASE ~ g_locklistNum > MaxTemp
    <2>1. g_locklistNum <= MaxTemp
      BY <1>1, <1>3, Numbers DEF GoodList
    <2>2. receiver' = "listWrite" /\ block' = Added(answer.id)
      BY <1>3 DEF Add, Holds
    <2>3. QED BY <1>1, <2>1, <2>2, AddedIsGood DEF keysOf
  <1>4. QED BY <1>2, <1>3

---------------------------------------------------------------------------
(* The list is the lock's list.  k is a key that the list may hold, and    *)
(* Book(k) holds before every step.                                        *)

\* What a step that leaves the lock and the list alone must not do.
LEMMA BookKept ==
  ASSUME NEW k, Book(k),
         k \in lockKeys' <=> k \in lockKeys,
         k \in keysOf' <=> k \in keysOf,
         \A v \in BOOLEAN : Says(answers', k, v) => Says(answers, k, v),
         Silent(answers', k) => Silent(answers, k),
         Due(k)' <=> Due(k),
         Due(k) => answer' = answer,
         \A kind \in {"add", "del"} : Awaits(kind, k) => Awaits(kind, k)'
  PROVE  Book(k)'
  <1>1. /\ \A v \in BOOLEAN : Says(answers, k, v)' => Says(answers, k, v)
        /\ Silent(answers, k)' => Silent(answers, k)
    BY DEF Says, Silent, About
  <1>2. QED BY <1>1 DEF Book

\* Neither an order nor an answer.
LEMMA AwaitsKept ==
  ASSUME NEW k, NEW kind, UNCHANGED <<g_BleState, timer, g_usrid>>, Answering' <=> Answering
  PROVE  Awaits(kind, k)' <=> Awaits(kind, k)
  BY DEF Awaits, Open

\* When an order is given, none is on.
LEMMA PlatformBook ==
  ASSUME TypeInv, Order, Platform, ~astray', keysOf' = keysOf, NEW k, Book(k)
  PROVE  Book(k)'
  <1> USE DEF flash, task, ram, outside, history
  <1>1. UNCHANGED <<answers, receiver, answer, lockKeys>>
    BY DEF Platform, OrderAdd, OrderDelete, Other
  <1>2. Due(k)' <=> Due(k)
    BY <1>1 DEF Due, About
  <1>3. \A kind \in {"add", "del"} : ~Awaits(kind, k)
    <2>1. g_BleState = "other" /\ timer = "sleep"
      BY AnswerIsType DEF Platform, OrderAdd, OrderDelete, Other, Outstanding
    <2>2. QED BY <2>1 DEF Awaits, Open
  <1>4. QED BY <1>1, <1>2, <1>3, BookKept

\* An order that is given up stays open until it is repeated.
LEMMA TimerBook ==
  ASSUME TypeInv, Order, Timer, ~astray', keysOf' = keysOf, NEW k, Book(k)
  PROVE  Book(k)'
  <1> USE DEF flash, task, ram, outside, history
  <1>1. UNCHANGED <<answers, receiver, answer, lockKeys, g_usrid>>
    BY DEF Timer, Decide, GiveUp, Repeat
  <1>2. Due(k)' <=> Due(k)
    BY <1>1 DEF Due, About
  <1>3. Answering' <=> Answering
    BY <1>1 DEF Answering
  <1>4. \A kind \in {"add", "del"} : Open = kind => Open' = kind
    <2>1. CASE Decide
      BY <2>1 DEF Decide, Open
    <2>2. CASE GiveUp
      BY <2>2, AnswerIsType DEF GiveUp, Open, Order, TimerOK
    <2>3. CASE Repeat
      BY <2>3, AnswerIsType DEF Repeat, Open
    <2>4. QED BY <2>1, <2>2, <2>3 DEF Timer
  <1>5. \A kind \in {"add", "del"} : Awaits(kind, k) => Awaits(kind, k)'
    BY <1>1, <1>3, <1>4 DEF Awaits
  <1>6. QED BY <1>1, <1>2, <1>5, BookKept

\* The command is lost, or obeyed, or refused because nothing is to be done.
LEMMA LoginBook ==
  ASSUME TypeInv, Order, Login, ~astray', keysOf' = keysOf, NEW k \in Keys, Book(k)
  PROVE  Book(k)'
  <1> USE DEF flash, task, outside, history
  <1> DEFINE kind == g_BleState
             a(ok) == [kind |-> g_BleState, id |-> g_usrid, ok |-> ok]
  <1>1. /\ UNCHANGED <<receiver, answer, g_BleState, timer, g_usrid>>
        /\ ~Answering
        /\ kind # "other" => kind \in {"add", "del"} /\ Open = kind /\ Open' = kind
    BY AnswerIsType DEF Login, Order, AnswersOK, TimerOK, GivenUp, Open
  <1>2. Due(k)' <=> Due(k)
    BY <1>1 DEF Due, About
  \* The answers on their way, and the one being handled, are records.
  <1>3. NoTmp(answers) /\ ~Handling
    BY <1>1, AnsweringIs
  <1>4. \A v \in BOOLEAN : Says(answers, k, v) => ~v
    BY <1>3 DEF Says, NoTmp, Tmp
  <1>5. Due(k) => answer.kind # "add"
    BY <1>3 DEF Due, Handling, Tmp
  <1>6. CASE UNCHANGED <<lockKeys, answers>>
    <2>1. Answering' <=> Answering
      BY <1>1, <1>6 DEF Answering
    <2>2. \A x \in {"add", "del"} : Awaits(x, k) => Awaits(x, k)'
      BY <1>1, <2>1, AwaitsKept
    <2>3. QED BY <1>1, <1>2, <1>6, <2>2, BookKept
  <1>7. CASE kind # "other" /\ Obeys(kind) /\ UNCHANGED answers
    <2>1. Answering' <=> Answering
      BY <1>1, <1>7 DEF Answering
    <2>2. \A x \in {"add", "del"} : Awaits(x, k)' <=> Awaits(x, k)
      BY <1>1, <2>1, AwaitsKept
    <2>3. CASE k # g_usrid
      <3>1. k \in lockKeys' <=> k \in lockKeys
        BY <1>7, <2>3 DEF Obeys
      <3>2. QED BY <1>1, <1>2, <1>7, <2>2, <3>1, BookKept
    <2>4. CASE k = g_usrid
      <3>1. Awaits(kind, k)' /\ (k \in lockKeys' <=> kind = "add")
        BY <1>1, <1>7, <2>1, <2>4 DEF Awaits, Obeys
      <3>2. /\ \A v \in BOOLEAN : Says(answers, k, v)' => ~v
            /\ Due(k)' => answer'.kind # "add"
        BY <1>1, <1>2, <1>4, <1>5, <1>7 DEF Says, About
      <3>3. QED BY <1>1, <1>7, <3>1, <3>2 DEF Book
    <2>5. QED BY <2>3, <2>4
  <1>8. ASSUME NEW ok \in BOOLEAN, kind # "other", Arrives(kind, g_usrid, ok),
               IF ok THEN Obeys(kind)
                     ELSE UNCHANGED lockKeys /\ ~DoneBefore(kind)
        PROVE  Book(k)'
    <2>1. a(ok) \in Answers /\ Tmp(a(ok)) /\ answers' = Append(answers, a(ok))
          /\ (About(a(ok), k) <=> ok /\ k = g_usrid)
      BY <1>1, <1>8, AnswerIsType DEF Answers, Arrives, Tmp, About
    <2>2. Answering'
      BY <2>1, AnswerIsType, AppendOf DEF Answering, Tmp
    <2>3. \A x \in {"add", "del"} : ~Awaits(x, k)'
      BY <2>2 DEF Awaits
    <2>4. /\ Silent(answers', k) => Silent(answers, k) /\ ~About(a(ok), k)
          /\ \A v \in BOOLEAN : Says(answers', k, v) =>
               IF About(a(ok), k) THEN v = (kind = "add") ELSE Says(answers, k, v)
      BY <2>1, AnswerIsType, SaysAppend
    <2>5. (Silent(answers, k))' = Silent(answers', k)
          /\ \A v \in BOOLEAN : (Says(answers, k, v))' = Says(answers', k, v)
      BY DEF Silent, Says, About
    <2>6. CASE k # g_usrid
      <3>1. k \in lockKeys' <=> k \in lockKeys
        BY <1>8, <2>6 DEF Obeys
      <3>2. \A x \in {"add", "del"} : ~Awaits(x, k)
        BY <2>6 DEF Awaits
      <3>3. QED BY <1>1, <1>2, <2>1, <2>4, <2>6, <3>1, <3>2, BookKept
    <2>7. CASE k = g_usrid /\ ok
      <3>1. k \in lockKeys' <=> kind = "add"
        BY <1>1, <1>8, <2>7 DEF Obeys
      <3>2. QED BY <2>1, <2>3, <2>4, <2>5, <2>7, <3>1 DEF Book
    <2>8. CASE k = g_usrid /\ ~ok
      <3>1. /\ lockKeys' = lockKeys /\ (k \in lockKeys <=> kind = "del")
            /\ ~About(a(ok), k)
        BY <1>1, <1>8, <2>1, <2>8 DEF DoneBefore
      <3>2. /\ \A v \in BOOLEAN : Says(answers, k, v)' => Says(answers, k, v)
            /\ Silent(answers, k)' => Silent(answers, k)
        BY <2>4, <2>5, <3>1
      <3>3. CASE kind = "add"
        <4>1. ~Awaits("del", k) /\ k \notin lockKeys
          BY <1>1, <1>8, <3>1, <3>3 DEF Awaits
        <4>2. QED BY <1>1, <1>2, <1>4, <1>5, <3>1, <3>2, <4>1 DEF Book
      <3>4. CASE kind = "del"
        <4>1. ~Awaits("add", k) /\ k \in lockKeys
          BY <1>1, <1>8, <3>1, <3>4 DEF Awaits
        <4>2. QED BY <1>1, <1>2, <3>1, <3>2, <4>1 DEF Book
      <3>5. QED BY <1>1, <1>8, <3>3, <3>4
    <2>9. QED BY <1>8, <2>6, <2>7, <2>8
  <1>9. \/ UNCHANGED <<lockKeys, answers>>
        \/ kind # "other" /\ Obeys(kind) /\ UNCHANGED answers
        \/ kind # "other" /\ Obeys(kind) /\ Arrives(kind, g_usrid, TRUE)
        \/ /\ kind # "other" /\ Arrives(kind, g_usrid, FALSE)
           /\ UNCHANGED lockKeys /\ ~DoneBefore(kind)
    BY DEF Login
  <1>10. QED BY <1>6, <1>7, <1>8, <1>9

\* A key that the lock drops by itself is on record.
LEMMA ExpireBook ==
  ASSUME TypeInv, Order, Expire, keysOf' = keysOf, NEW k \in Keys, Book(k)
  PROVE  Book(k)'
  <1> USE DEF flash, task, ram, history
  <1>1. PICK id \in lockKeys : lockKeys' = lockKeys \ {id} /\ Arrives("record", id, TRUE)
    BY DEF Expire
  <1> DEFINE a == [kind |-> "record", id |-> id, ok |-> TRUE]
  <1>2. /\ a \in Answers /\ ~Tmp(a) /\ answers' = Append(answers, a)
        /\ About(a, k) <=> k = id
    BY <1>1 DEF TypeInv, TypeOK, Answers, Tmp, Arrives, About
  <1>3. UNCHANGED <<receiver, answer, g_BleState, timer, g_usrid>> /\ (Due(k)' <=> Due(k))
    BY DEF Expire, Due, About
  <1>4. Answering' <=> Answering
    <2>1. NoTmp(answers') <=> NoTmp(answers)
      BY <1>2, AnswerIsType, TmpAppend
    <2>2. QED BY <1>3, <2>1 DEF Answering, NoTmp, Tmp
  <1>5. \A x \in {"add", "del"} : Awaits(x, k)' <=> Awaits(x, k)
    BY <1>3, <1>4, AwaitsKept
  <1>6. /\ Silent(answers', k) => Silent(answers, k) /\ ~About(a, k)
        /\ \A v \in BOOLEAN : Says(answers', k, v) =>
             IF About(a, k) THEN v = FALSE ELSE Says(answers, k, v)
    BY <1>2, AnswerIsType, SaysAppend
  <1>7. CASE k = id
    <2>1. (Silent(answers, k))' = Silent(answers', k)
          /\ \A v \in BOOLEAN : (Says(answers, k, v))' = Says(answers', k, v)
      BY DEF Silent, Says, About
    <2>2. k \notin lockKeys'
      BY <1>1, <1>7
    <2>3. QED BY <1>2, <1>6, <1>7, <2>1, <2>2 DEF Book
  <1>8. CASE k # id
    BY <1>1, <1>2, <1>3, <1>5, <1>6, <1>8, BookKept
  <1>9. QED BY <1>7, <1>8

\* The answer to a PIN is about no key.
LEMMA TakenInBook ==
  ASSUME TypeInv, Order, TakenIn, ~astray', keysOf' = keysOf, NEW k \in Keys, Book(k)
  PROVE  Book(k)'
  <1> USE DEF flash, task, history
  <1>1. PICK ok \in BOOLEAN : Arrives("pin", 0, ok)
    BY DEF TakenIn
  <1> DEFINE a == [kind |-> "pin", id |-> 0, ok |-> ok]
  <1>2. a \in Answers /\ answers' = Append(answers, a) /\ ~About(a, k)
    BY <1>1, AnswerIsType DEF Answers, Arrives, About
  <1>3. UNCHANGED <<receiver, answer, lockKeys>> /\ (Due(k)' <=> Due(k))
    BY DEF TakenIn, Due, About
  <1>4. g_BleState = "other" /\ timer = "sleep"
    BY AnswerIsType DEF TakenIn, Outstanding
  <1>5. \A x \in {"add", "del"} : ~Awaits(x, k)
    BY <1>4 DEF Awaits, Open
  <1>6. /\ Silent(answers', k) => Silent(answers, k)
        /\ \A v \in BOOLEAN : Says(answers', k, v) => Says(answers, k, v)
    BY <1>2, AnswerIsType, SaysAppend
  <1>7. QED BY <1>3, <1>5, <1>6, BookKept

\* An answer that is taken up will do what the answers on their way said.
LEMMA ReceiveBook ==
  ASSUME TypeInv, Order, Receive, keysOf' = keysOf, NEW k \in Keys, Book(k)
  PROVE  Book(k)'
  <1> USE DEF flash, outside, history
  <1> DEFINE a == Head(answers)
             t == Tail(answers)
  <1>1. /\ answers # << >> /\ receiver = "wait" /\ answer' = a /\ answers' = t
        /\ UNCHANGED <<g_BleState, timer, g_usrid, lockKeys>> /\ ~Due(k)
    BY DEF Receive, Due
  <1>2. a \in Answers /\ a.kind \in {"add", "del", "record", "pin"} /\ a.ok \in BOOLEAN
    BY <1>1, AnswerIsType, TailOf DEF Answers
  <1>3. Answering' <=> Answering
    <2>1. Handling' <=> Tmp(a)
      BY <1>1, <1>2 DEF Receive, Handling, Tmp
    <2>2. ~Handling
      BY <1>1 DEF Handling
    <2>3. NoTmp(answers) <=> ~Tmp(a) /\ NoTmp(t)
      BY <1>1, AnswerIsType, TmpTail
    <2>4. Answering' <=> ~NoTmp(t) \/ Handling'
      BY <1>1 DEF Answering, NoTmp, Handling, Tmp
    <2>5. QED BY <2>1, <2>2, <2>3, <2>4, AnsweringIs
  <1>4. \A x \in {"add", "del"} : Awaits(x, k)' <=> Awaits(x, k)
    BY <1>1, <1>3, AwaitsKept
  <1>5. Due(k)' <=> About(a, k)
    BY <1>1, <1>2 DEF Receive, Due, About
  <1>6. /\ \A v \in BOOLEAN : Says(t, k, v) => Says(answers, k, v)
        /\ Silent(t, k) /\ ~About(a, k) => Silent(answers, k)
        /\ Silent(t, k) /\ About(a, k) => Says(answers, k, a.kind = "add")
    BY <1>1, AnswerIsType, SaysTail
  <1>7. (Silent(answers, k))' = Silent(t, k)
        /\ \A v \in BOOLEAN : (Says(answers, k, v))' = Says(t, k, v)
    BY <1>1 DEF Silent, Says, About
  <1>8. ~Awaits("add", k)' =>
          /\ \A v \in BOOLEAN : Says(answers, k, v)' => (k \in lockKeys' <=> v)
          /\ Silent(answers, k)' /\ Due(k)' => (k \in lockKeys' <=> answer'.kind = "add")
    <2> SUFFICES ASSUME ~Awaits("add", k)'
                 PROVE  /\ \A v \in BOOLEAN :
                             Says(answers, k, v)' => (k \in lockKeys' <=> v)
                        /\ Silent(answers, k)' /\ Due(k)' =>
                             (k \in lockKeys' <=> answer'.kind = "add")
      OBVIOUS
    <2>1. \A v \in BOOLEAN : Says(answers, k, v) => (k \in lockKeys <=> v)
      BY <1>4 DEF Book
    <2>2. (a.kind = "add") \in BOOLEAN
      OBVIOUS
    <2>3. QED BY <1>1, <1>5, <1>6, <1>7, <2>1, <2>2
  <1>9. Silent(answers, k)' /\ ~Due(k)' =>
          /\ ~Awaits("add", k)' => (k \in lockKeys' => k \in keysOf')
          /\ ~Awaits("del", k)' => (k \in keysOf' => k \in lockKeys')
    BY <1>1, <1>4, <1>5, <1>6, <1>7 DEF Book
  <1>10. QED BY <1>8, <1>9 DEF Book

\* Up to the end of the handling only Add and Delete change the list, and what is
\* not handed to them is of no effect on it.
LEMMA HandleBook ==
  ASSUME TypeInv, Order,
         SetAdmin \/ WriteAdmin \/ Notify \/ WriteList \/ SetDevice \/ WriteDevice
         \/ Join \/ WriteJoin \/ Finish,
         keysOf' = keysOf, NEW k \in 0 .. LastId, Book(k)
  PROVE  Book(k)'
  <1> USE DEF flash, ram, outside, history, Holds
  <1>1. UNCHANGED <<answers, lockKeys, g_usrid, timer>>
    BY DEF SetAdmin, WriteAdmin, Notify, WriteList, SetDevice, WriteDevice, Join,
           WriteJoin, Finish
  <1>2. CASE WriteJoin \/ Finish
    <2>1. /\ receiver \in {"joinWrite", "finish"} /\ receiver' = "wait"
          /\ ~Due(k) /\ ~Due(k)'
      BY <1>2 DEF WriteJoin, Finish, Due
    <2>2. \A x \in {"add", "del"} : Awaits(x, k) => Awaits(x, k)'
      <3>1. CASE Tmp(answer)
        <4>1. Answering
          BY <2>1, <3>1 DEF Answering, Tmp
        <4>2. QED BY <4>1 DEF Awaits
      <3>2. CASE ~Tmp(answer)
        <4>1. g_BleState' = g_BleState
          BY <1>2, <3>2 DEF WriteJoin, Finish, Order, StagesOK
        <4>2. Answering' <=> Answering
          BY <1>1, <2>1, <3>2 DEF Answering, Tmp
        <4>3. QED BY <1>1, <4>1, <4>2, AwaitsKept
      <3>3. QED BY <3>1, <3>2
    <2>3. QED BY <1>1, <2>1, <2>2, BookKept
  <1>3. CASE ~(WriteJoin \/ Finish)
    <2>1. UNCHANGED <<answer, g_BleState>> /\ receiver # "wait" /\ receiver' # "wait"
      BY <1>3 DEF SetAdmin, WriteAdmin, Notify, WriteList, SetDevice, WriteDevice,
                  Join, WriteJoin, Finish
    <2>2. Answering' <=> Answering
      BY <1>1, <2>1 DEF Answering
    <2>3. \A x \in {"add", "del"} : Awaits(x, k) => Awaits(x, k)'
      BY <1>1, <2>1, <2>2, AwaitsKept
    <2>4. Due(k)' <=> Due(k)
      <3>1. CASE Notify
        <4>1. /\ receiver = "notify"
              /\ receiver' \in {"add", "delete"} \/ ~answer.ok \/ answer.id > LastId
          BY <3>1 DEF Notify
        <4>2. About(answer, k) => answer.ok /\ ~ answer.id > LastId
          BY Numbers DEF About
        <4>3. QED BY <2>1, <3>1, <4>1, <4>2 DEF Due, About
      <3>2. CASE SetAdmin \/ WriteAdmin
        BY <2>1, <3>2 DEF SetAdmin, WriteAdmin, Due, About
      <3>3. CASE WriteList \/ SetDevice \/ WriteDevice \/ Join
        BY <3>3 DEF WriteList, SetDevice, WriteDevice, Join, Due
      <3>4. QED BY <1>3, <3>1, <3>2, <3>3
    <2>5. QED BY <1>1, <2>1, <2>3, <2>4, BookKept
  <1>4. QED BY <1>2, <1>3

\* The list takes over what the answer says of the lock.
LEMMA ChangeBook ==
  ASSUME TypeInv, Order, NEW k, Book(k), Add \/ Delete,
         keysOf' = IF Add THEN keysOf \cup {answer.id} ELSE keysOf \ {answer.id}
  PROVE  Book(k)'
  <1> USE DEF flash, ram, outside, history, Holds
  <1>1. /\ UNCHANGED <<answers, lockKeys, answer, g_BleState, timer, g_usrid>>
        /\ receiver \in {"add", "delete"} /\ receiver' \in {"listWrite", "finish"}
        /\ Add <=> receiver = "add"
    BY DEF Add, Delete
  <1>2. Answering' <=> Answering
    BY <1>1 DEF Answering
  <1>3. \A x \in {"add", "del"} : Awaits(x, k)' <=> Awaits(x, k)
    BY <1>1, <1>2, AwaitsKept
  <1>4. /\ ~Due(k)' /\ (Due(k) <=> k = answer.id)
        /\ Add <=> answer.kind = "add"
    BY <1>1 DEF Due, About, Order, StagesOK
  <1>5. Add => \A x \in {"add", "del"} : ~Awaits(x, k)
    BY <1>1, <1>4 DEF Awaits, Answering
  <1>6. (Silent(answers, k))' = Silent(answers, k)
        /\ \A v \in BOOLEAN : (Says(answers, k, v))' = Says(answers, k, v)
    BY <1>1 DEF Silent, Says, About
  <1>7. CASE Add
    <2>1. k \in keysOf' <=> k \in keysOf \/ k = answer.id
      BY <1>7
    <2>2. QED BY <1>1, <1>3, <1>4, <1>5, <1>6, <1>7, <2>1 DEF Book
  <1>8. CASE ~Add
    <2>1. k \in keysOf' <=> k \in keysOf /\ k # answer.id
      BY <1>8
    <2>2. QED BY <1>1, <1>3, <1>4, <1>6, <1>8, <2>1 DEF Book
  <1>9. QED BY <1>7, <1>8

\* A restart that leads nothing astray comes when nothing is under way.
LEMMA CutBook ==
  ASSUME TypeInv, PowerCut, ~astray', keysOf' = keysOf, NEW k, Book(k)
  PROVE  Book(k)'
  <1>1. Settled /\ UNCHANGED <<answers, lockKeys>> /\ receiver' = "wait"
    BY CutIsHarmless DEF PowerCut, Settled
  <1>2. ~Due(k) /\ ~Due(k)'
    BY <1>1 DEF Settled, Due
  <1>3. \A x \in {"add", "del"} : ~Awaits(x, k)
    BY <1>1 DEF Settled, Outstanding, Awaits, Open
  <1>4. QED BY <1>1, <1>2, <1>3, BookKept

LEMMA StepBooks ==
  ASSUME TypeInv, Orderly, SmallKeys, Books, [Next]_vars
  PROVE  Books'
  <1> SUFFICES ASSUME ~astray', NEW k \in 0 .. LastId, k \in Keys
               PROVE  Book(k)'
    BY DEF Books
  <1>1. Order /\ Book(k)
    BY StaysAstray DEF Orderly, Order, Books
  <1>2. CASE UNCHANGED vars
    <2>1. /\ UNCHANGED <<answers, answer, receiver, lockKeys, g_BleState, timer,
                     g_usrid>>
          /\ keysOf' = keysOf
      BY <1>2 DEF vars, keysOf, Listed
    <2>2. Answering' <=> Answering
      BY <2>1 DEF Answering
    <2>3. \A x \in {"add", "del"} : Awaits(x, k) => Awaits(x, k)'
      BY <2>1, <2>2, AwaitsKept
    <2>4. Due(k)' <=> Due(k)
      BY <2>1 DEF Due, About
    <2>5. QED BY <1>1, <2>1, <2>3, <2>4, BookKept
  <1>3. CASE Add \/ Delete
    <2>1. ~(Add /\ Delete)
      BY DEF Add, Delete
    <2>2. keysOf' = IF Add THEN keysOf \cup {answer.id} ELSE keysOf \ {answer.id}
      BY <1>3, <2>1, KeysAdd, KeysDelete
    <2>3. QED BY <1>1, <1>3, <2>2, ChangeBook
  <1>4. CASE PowerCut
    BY <1>1, <1>4, KeysCut, CutBook
  <1>5. CASE Next /\ ~Add /\ ~Delete /\ ~PowerCut
    <2>1. keysOf' = keysOf
      BY <1>5, KeysKept
    <2>2. CASE Platform \/ Timer
      BY <1>1, <2>1, <2>2, PlatformBook, TimerBook
    <2>3. CASE Lock
      BY <1>1, <2>1, <2>3, LoginBook, ExpireBook, TakenInBook DEF Lock
    <2>4. CASE Receiver
      BY <1>1, <1>5, <2>1, <2>4, ReceiveBook, HandleBook DEF Receiver
    <2>5. QED BY <1>5, <2>2, <2>3, <2>4 DEF Next
  <1>6. QED BY <1>2, <1>3, <1>4, <1>5

\* When nothing is under way no answer is about a key, and the books are square.
LEMMA BooksAgree ==
  ASSUME TypeInv, SmallKeys, Books
  PROVE  Agreement
  <1> SUFFICES ASSUME Settled, ~astray
               PROVE  Listed = {k \in lockKeys : k <= LastId}
    BY DEF Agreement
  <1>1. keysOf = Listed /\ receiver = "wait" /\ DOMAIN answers = {}
        /\ g_BleState = "other" /\ timer = "sleep" /\ lockKeys \subseteq Keys
    BY DEF Settled, Outstanding, keysOf, TypeInv, TypeOK
  <1>2. Listed \subseteq Keys
    <2>1. /\ GoodList(list, g_locklistNum)
          /\ \A i \in 0 .. g_locklistNum - 1 : i \in Places
      BY <1>1, Numbers DEF TypeInv, ListInv, GoodList
    <2>2. QED BY <2>1 DEF Listed, GoodList, Lists, Used
  <1>3. ASSUME NEW k \in Keys, k <= LastId
        PROVE  k \in lockKeys <=> k \in Listed
    <2>1. k \in 0 .. LastId
      BY <1>3, Numbers DEF Keys
    <2>2. Silent(answers, k) /\ ~Due(k) /\ ~Awaits("add", k) /\ ~Awaits("del", k)
      BY <1>1 DEF Silent, Due, Awaits, Open
    <2>3. QED BY <1>1, <2>1, <2>2 DEF Books, Book
  <1>4. \A k \in Listed : k <= LastId
    BY <1>1 DEF SmallKeys
  <1>5. QED BY <1>1, <1>2, <1>3, <1>4

\* At every step what the list and the lock differ in is known: it is what the
\* answers on their way, the one being handled, or an order that may have been
\* obeyed will put right (cmd_tmp_key_list, ble_timeout_thread).
THEOREM BooksKept == Spec => []Books
  <1>1. Init => Books
    <2> SUFFICES ASSUME Init, NEW k PROVE Book(k)
      BY DEF Books
    <2>1. /\ receiver = "wait" /\ DOMAIN answers = {} /\ lockKeys = {}
          /\ keysOf = {}
      BY DEF Init, keysOf, Listed
    <2>2. QED BY <2>1 DEF Book, Says, Due
  <1>2. TypeInv /\ Orderly /\ SmallKeys /\ Books /\ [Next]_vars => Books'
    BY StepBooks
  <1>3. QED
    BY <1>1, <1>2, OneOrder, KeysStaySmall, Invariance, PTL DEF Spec

\* As long as orders come one at a time and nothing is mistaken for the answer to
\* another, the stored list is the lock's list whenever nothing is under way,
\* whatever is lost, repeated or refused on the way and however often the gateway
\* is restarted (cmd_tmp_key_list, main_ble_callback_proc,
\* stor_templocklist_write, stor_del_templsit).
THEOREM ListAgrees == Spec => []Agreement
  <1>1. TypeInv /\ SmallKeys /\ Books => Agreement
    BY BooksAgree
  <1>2. QED BY <1>1, BooksKept, KeysStaySmall, Invariance, PTL

=============================================================================
