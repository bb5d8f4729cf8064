-------------------------- MODULE BleStore_proofs --------------------------
(***************************************************************************)
(* Theorems about what the gateway keeps in flash, for every capacity of   *)
(* the list, every set of passwords, every way in which numbers compare    *)
(* equal and all bounds.  Everything rests on the form of the list:        *)
(* GoodList.                                                               *)
(***************************************************************************)
EXTENDS BleStore, FiniteSetTheorems, TLAPS

(***************************************************************************)
(* The form of the list: n different keys, and free places after them.     *)
(* The place beyond MaxTemp may hold a key that a restart has forgotten.   *)
(***************************************************************************)
Used(slots, n) == \A i \in 0 .. n - 1 : slots[i] # Free
Ended(slots, n) == \A i \in n .. MaxTemp - 1 : slots[i] = Free
Distinct(slots, n) == \A i, j \in 0 .. n - 1 : slots[i] = slots[j] => i = j

GoodList(slots, n) ==
    /\ slots \in Lists /\ n \in 0 .. MaxTemp + 1
    /\ Used(slots, n) /\ Ended(slots, n) /\ Distinct(slots, n)

\* While its block is blank the list is in the receive task's buffer.
ListInv ==
    /\ receiver # "listWrite" => GoodList(list, g_locklistNum)
    /\ receiver = "listWrite" =>
         /\ list = BlankList
         /\ block.slots \in Lists /\ block.num \in 0 .. MaxTemp + 1
         /\ GoodList(block.slots, block.num)

\* Numbers that are too great do not reach stor_templocklist_write.
Small == receiver = "add" => answer.id <= LastId

LEMMA Numbers ==
  /\ TopId \in Nat /\ LastId \in Nat /\ MaxTemp \in Nat /\ MaxTemp > 0
  /\ LastId <= MaxTemp /\ MaxOrders \in Nat
  /\ 0 \in Keys /\ Free = -1 /\ Free \notin Keys
  /\ Places = 0 .. MaxTemp
  BY StoreAssumption DEF StoreAssumption, Keys, Free, Places

LEMMA Constants ==
  /\ BlankList \in Lists /\ BlankStatus \in Statuses
  /\ NoAnswer \in Answers
  BY Numbers DEF BlankList, Lists, BlankStatus, Statuses, NoAnswer, Answers, Blank

\* The blank list is a good one.
LEMMA BlankIsGood == GoodList(BlankList, 0)
  BY Numbers, Constants DEF GoodList, Used, Ended, Distinct, BlankList

\* A restart counts the keys of a good list, up to MaxTemp.
LEMMA CountGood ==
  ASSUME NEW slots, NEW n, GoodList(slots, n)
  PROVE  CountOf(slots) = IF n > MaxTemp THEN MaxTemp ELSE n
  <1> DEFINE m == IF n > MaxTemp THEN MaxTemp ELSE n
             P(c) == /\ \A i \in 0 .. c - 1 : slots[i] # Free
                     /\ c = MaxTemp \/ slots[c] = Free
  <1>1. m \in 0 .. MaxTemp /\ n \in 0 .. MaxTemp + 1
    BY Numbers DEF GoodList
  <1>2. P(m)
    BY <1>1, Numbers DEF GoodList, Used, Ended
  <1>3. ASSUME NEW c \in 0 .. MaxTemp, P(c) PROVE c = m
    <2>1. ~ c < m
      <3>1. SUFFICES ASSUME c < m PROVE FALSE
        OBVIOUS
      <3>2. c \in 0 .. n - 1 /\ slots[c] = Free
        BY <1>1, <1>3, <3>1, Numbers
      <3>3. QED BY <3>2 DEF GoodList, Used
    <2>2. ~ m < c
      <3>1. SUFFICES ASSUME m < c PROVE FALSE
        OBVIOUS
      <3>2. m = n /\ n \in n .. MaxTemp - 1 /\ n \in 0 .. c - 1
        BY <1>1, <3>1, Numbers
      <3>3. slots[n] = Free
        BY <3>2 DEF GoodList, Ended
      <3>4. QED BY <1>3, <3>2, <3>3
    <2>3. QED BY <1>1, <2>1, <2>2, Numbers
  <1>4. CountOf(slots) = CHOOSE c \in 0 .. MaxTemp : P(c)
    BY DEF CountOf
  <1>5. QED BY <1>1, <1>2, <1>3, <1>4

\* What a restart makes of a good list is a good list.
LEMMA CountedIsGood ==
  ASSUME NEW slots, NEW n, GoodList(slots, n)
  PROVE  GoodList(slots, CountOf(slots))
  <1>1. CASE n > MaxTemp
    <2>1. CountOf(slots) = MaxTemp
      BY <1>1, CountGood
    <2>2. 0 .. MaxTemp - 1 \subseteq 0 .. n - 1 /\ n \in 0 .. MaxTemp + 1
      BY <1>1, Numbers DEF GoodList
    <2>3. Used(slots, MaxTemp) /\ Distinct(slots, MaxTemp)
      BY <2>2 DEF GoodList, Used, Distinct
    <2>4. Ended(slots, MaxTemp) /\ MaxTemp \in 0 .. MaxTemp + 1
      BY Numbers DEF Ended
    <2>5. QED BY <2>1, <2>3, <2>4 DEF GoodList
  <1>2. CASE ~ n > MaxTemp
    BY <1>2, CountGood
  <1>3. QED BY <1>1, <1>2

\* An addition makes a good list of a good list, with the key and the others.
LEMMA AddedIsGood ==
  ASSUME GoodList(list, g_locklistNum), g_locklistNum <= MaxTemp,
         NEW id \in Keys
  PROVE  /\ GoodList(Added(id).slots, Added(id).num)
         /\ {Added(id).slots[i] : i \in 0 .. Added(id).num - 1} = Listed \cup {id}
  <1> DEFINE n == g_locklistNum
  <1>1. n \in 0 .. MaxTemp /\ n \in Places /\ n \in Nat /\ MaxTemp \in Nat
    BY Numbers DEF GoodList
  <1>2. CASE id \in Listed
    <2>1. Added(id).slots = list /\ Added(id).num = n
      BY <1>2 DEF Added
    <2>2. QED BY <1>2, <2>1 DEF Listed
  <1>3. CASE id \notin Listed
    <2>1. Added(id).slots = [list EXCEPT ![n] = id] /\ Added(id).num = n + 1
      BY <1>3 DEF Added
    <2> DEFINE new == [list EXCEPT ![n] = id]
    <2>2. /\ new \in Lists /\ new[n] = id
          /\ \A i \in Places : i # n => new[i] = list[i]
      BY <1>1 DEF GoodList, Lists
    <2>3. 0 .. n = (0 .. n - 1) \cup {n} /\ n + 1 - 1 = n /\ 0 .. n - 1 \subseteq Places
          /\ n \notin 0 .. n - 1
      BY <1>1, Numbers
    <2>4. \A i \in 0 .. n - 1 : new[i] = list[i] /\ list[i] # id
      BY <1>3, <2>2, <2>3 DEF Listed
    <2>5. Used(new, n + 1)
      BY <2>2, <2>3, <2>4, Numbers DEF GoodList, Used
    <2>6. Distinct(new, n + 1)
      <3> SUFFICES ASSUME NEW i \in 0 .. n, NEW j \in 0 .. n, new[i] = new[j]
                   PROVE  i = j
        BY <2>3 DEF Distinct
      <3>1. CASE i = n \/ j = n
        BY <3>1, <2>2, <2>3, <2>4
      <3>2. CASE i # n /\ j # n
        BY <3>2, <2>3, <2>4 DEF GoodList, Distinct
      <3>3. QED BY <3>1, <3>2
    <2>7. Ended(new, n + 1)
      <3>1. \A i \in n + 1 .. MaxTemp - 1 : i \in n .. MaxTemp - 1 /\ i # n /\ i \in Places
        BY <1>1, Numbers
      <3>2. QED BY <3>1, <2>2 DEF GoodList, Ended
    <2>8. n + 1 \in 0 .. MaxTemp + 1
      BY <1>1
    <2>9. {new[i] : i \in 0 .. n} = Listed \cup {id}
      BY <2>2, <2>3, <2>4 DEF Listed
    <2>10. QED BY <2>1, <2>2, <2>3, <2>5, <2>6, <2>7, <2>8, <2>9 DEF GoodList
  <1>4. QED BY <1>2, <1>3

\* A deletion makes a good list of a good list, without the key at place p.
LEMMA DeletedIsGood ==
  ASSUME GoodList(list, g_locklistNum), NEW p \in 0 .. g_locklistNum - 1
  PROVE  /\ GoodList(Deleted(p).slots, Deleted(p).num)
         /\ {Deleted(p).slots[i] : i \in 0 .. Deleted(p).num - 1} = Listed \ {list[p]}
  <1> DEFINE n == g_locklistNum
             new == Deleted(p).slots
  <1>1. /\ n \in 1 .. MaxTemp + 1 /\ n \in Nat /\ MaxTemp \in Nat /\ p \in Nat
        /\ p < n /\ p \in Places
    BY Numbers DEF GoodList
  <1>2. Deleted(p).num = n - 1
    BY DEF Deleted
  <1>3. /\ new \in Lists
        /\ \A j \in Places : j < p \/ j >= n => new[j] = list[j]
        /\ \A j \in Places : ~(j < p \/ j >= n) /\ j = n - 1 => new[j] = Free
        /\ \A j \in Places : ~(j < p \/ j >= n) /\ j # n - 1 => new[j] = list[j + 1]
    <2>1. \A j \in Places : j < n /\ j # n - 1 => j + 1 \in Places
      BY <1>1, Numbers
    <2>2. new = [j \in Places |-> IF j < p \/ j >= n THEN list[j]
                                  ELSE IF j = n - 1 THEN Free ELSE list[j + 1]]
      BY DEF Deleted
    <2>3. \A j \in Places : list[j] \in Keys \cup {Free}
      BY DEF GoodList, Lists
    <2>4. \A j \in Places : ~(j < p \/ j >= n) /\ j # n - 1 => j < n /\ j # n - 1
      BY <1>1, Numbers
    <2>5. new \in Lists
      BY <2>1, <2>2, <2>3, <2>4 DEF Lists
    <2>6. QED BY <2>2, <2>5
  \* Where the keys of the new list were.
  <1> DEFINE old(j) == IF j < p THEN j ELSE j + 1
  <1>4. \A j \in 0 .. n - 2 : /\ j \in Places /\ old(j) \in 0 .. n - 1 /\ old(j) # p
                              /\ new[j] = list[old(j)]
    <2> TAKE j \in 0 .. n - 2
    <2>1. j \in Places /\ old(j) \in 0 .. n - 1 /\ old(j) # p
      BY <1>1, Numbers
    <2>2. CASE j < p
      BY <2>1, <2>2, <1>3
    <2>3. CASE ~ j < p
      <3>1. ~(j < p \/ j >= n) /\ j # n - 1
        BY <2>3, <1>1
      <3>2. QED BY <2>1, <2>3, <3>1, <1>3
    <2>4. QED BY <2>1, <2>2, <2>3
  <1>5. \A j, k \in 0 .. n - 2 : old(j) = old(k) => j = k
    BY <1>1
  <1>6. \A i \in 0 .. n - 1 : i # p => \E j \in 0 .. n - 2 : old(j) = i
    <2> TAKE i \in 0 .. n - 1
    <2> HAVE i # p
    <2>1. CASE i < p
      <3>1. i \in 0 .. n - 2 /\ old(i) = i
        BY <1>1, <2>1
      <3>2. QED BY <3>1
    <2>2. CASE ~ i < p
      <3>1. i - 1 \in 0 .. n - 2 /\ old(i - 1) = i
        BY <1>1, <2>2
      <3>2. QED BY <3>1
    <2>3. QED BY <2>1, <2>2
  <1>7. 0 .. (n - 1) - 1 = 0 .. n - 2
    BY <1>1
  <1> HIDE DEF old, new
  <1>8. Used(new, n - 1)
    BY <1>4, <1>7 DEF GoodList, Used
  <1>9. Distinct(new, n - 1)
    <2> SUFFICES ASSUME NEW i \in 0 .. n - 2, NEW j \in 0 .. n - 2, new[i] = new[j]
                 PROVE  i = j
      BY <1>7 DEF Distinct
    <2>1. list[old(i)] = list[old(j)]
      BY <1>4
    <2>2. old(i) = old(j)
      BY <2>1, <1>4 DEF GoodList, Distinct
    <2>3. QED BY <2>2, <1>5
  <1>10. Ended(new, n - 1)
    <2> SUFFICES ASSUME NEW i \in n - 1 .. MaxTemp - 1 PROVE new[i] = Free
      BY DEF Ended
    <2>1. i \in Places /\ (i = n - 1 \/ i \in n .. MaxTemp - 1)
      BY <1>1, Numbers
    <2>2. CASE i = n - 1
      <3>1. ~(i < p \/ i >= n)
        BY <1>1, <2>2
      <3>2. QED BY <2>1, <2>2, <3>1, <1>3
    <2>3. CASE i \in n .. MaxTemp - 1
      <3>1. i >= n /\ list[i] = Free
        BY <1>1, <2>3 DEF GoodList, Ended
      <3>2. QED BY <2>1, <3>1, <1>3
    <2>4. QED BY <2>1, <2>2, <2>3
  <1>11. n - 1 \in 0 .. MaxTemp + 1
    BY <1>1
  <1>12. {new[j] : j \in 0 .. n - 2} = Listed \ {list[p]}
    <2>1. \A j \in 0 .. n - 2 : new[j] \in Listed \ {list[p]}
      <3> TAKE j \in 0 .. n - 2
      <3>1. old(j) \in 0 .. n - 1 /\ old(j) # p /\ new[j] = list[old(j)]
        BY <1>4
      <3>2. list[old(j)] # list[p]
        BY <3>1 DEF GoodList, Distinct
      <3>3. QED BY <3>1, <3>2 DEF Listed
    <2>2. \A k \in Listed \ {list[p]} : \E j \in 0 .. n - 2 : new[j] = k
      <3> TAKE k \in Listed \ {list[p]}
      <3>1. PICK i \in 0 .. n - 1 : list[i] = k
        BY DEF Listed
      <3>2. PICK j \in 0 .. n - 2 : old(j) = i
        BY <3>1, <1>6
      <3>3. QED BY <3>1, <3>2, <1>4
    <2>3. QED BY <2>1, <2>2
  <1>13. QED BY <1>2, <1>3, <1>7, <1>8, <1>9, <1>10, <1>11, <1>12
             DEF GoodList, new

(***************************************************************************)
(* Type correctness.  The new counts and lists are typed by ListInv, and   *)
(* so the two are proved together.                                         *)
(***************************************************************************)
TypeInv == TypeOK /\ ListInv /\ Small

LEMMA InitInv == Init => TypeInv
  <1> SUFFICES ASSUME Init PROVE TypeInv
    OBVIOUS
  <1>1. TypeOK
    <2>1. /\ receiver \in Where /\ answers \in Seq(Answers)
          /\ block \in Statuses \cup Stored
          /\ receiver \notin {"listWrite", "adminWrite", "joinWrite"}
      BY Constants DEF Init, Where
    <2>2. /\ g_locklistNum \in 0 .. MaxTemp + 1 /\ g_usrid \in Keys
          /\ orders \in Nat /\ cuts \in Nat
      BY Numbers DEF Init
    <2>3. QED BY <2>1, <2>2, Constants DEF Init, TypeOK
  <1>2. ListInv
    BY BlankIsGood DEF Init, ListInv
  <1>3. QED BY <1>1, <1>2 DEF Init, TypeInv, Small

\* The steps of the platform, the timer and the lock.
LEMMA OutsideType ==
  ASSUME TypeInv, Platform \/ Timer \/ Lock
  PROVE  TypeInv'
  <1> USE DEF history
  <1>1. UNCHANGED <<flash, task, g_locklistNum, wiped, torn>>
    BY DEF Platform, Lock, OrderAdd, OrderDelete, Other, Timer, Decide,
           GiveUp, Repeat, Login, Expire, TakenIn, ram
  <1>2. ListInv' /\ Small'
    BY <1>1 DEF TypeInv, ListInv, Small, flash, task, Listed
  <1>3. /\ g_adminpwd' \in Passwords \cup {NoPwd, Blank}
        /\ g_usrid' \in Keys /\ g_BleState' \in {"add", "del", "other"}
        /\ addFlag' \in BOOLEAN /\ delFlag' \in BOOLEAN /\ toSend' \in BOOLEAN
        /\ timer' \in {"sleep", "add", "del", "addOff", "delOff"}
        /\ astray' \in BOOLEAN
    BY DEF TypeInv, TypeOK, Platform, Lock, OrderAdd, OrderDelete, Other, Timer,
           Decide, GiveUp, Repeat, Login, Expire, TakenIn, ram, Statuses
  <1>4. orders' \in Nat /\ cuts' \in Nat
    <2>1. orders \in Nat /\ cuts \in Nat /\ orders + 1 \in Nat
      BY DEF TypeInv, TypeOK
    <2>2. (orders' = orders \/ orders' = orders + 1) /\ cuts' = cuts
      BY DEF Platform, Lock, OrderAdd, OrderDelete, Other, Timer, Decide,
             GiveUp, Repeat, Login, Expire, TakenIn, outside, Ordered
    <2>3. QED BY <2>1, <2>2
  <1>5. answers' \in Seq(Answers) /\ lockKeys' \subseteq Keys
    <2>1. \A kind \in {"add", "del", "record", "pin"}, id \in Keys, ok \in BOOLEAN :
            Arrives(kind, id, ok) => answers' \in Seq(Answers)
      BY DEF Arrives, Answers, TypeInv, TypeOK
    <2>2. CASE Platform \/ Timer
      BY <2>2 DEF Platform, OrderAdd, OrderDelete, Other, Timer, Decide, GiveUp,
                  Repeat, outside, TypeInv, TypeOK
    <2>3. CASE Login
      <3>1. g_usrid \in Keys /\ g_BleState \in {"add", "del", "other"}
        BY DEF TypeInv, TypeOK
      <3>2. lockKeys' \subseteq Keys
        BY <2>3, <3>1 DEF Login, Obeys, TypeInv, TypeOK
      <3>3. answers' \in Seq(Answers)
        BY <2>1, <2>3, <3>1 DEF Login, TypeInv, TypeOK
      <3>4. QED BY <3>2, <3>3
    <2>4. CASE Expire
      <3>1. PICK id \in lockKeys : lockKeys' = lockKeys \ {id}
                                   /\ Arrives("record", id, TRUE)
        BY <2>4 DEF Expire
      <3>2. id \in Keys
        BY <3>1 DEF TypeInv, TypeOK
      <3>3. QED BY <2>1, <3>1, <3>2 DEF TypeInv, TypeOK
    <2>5. CASE TakenIn
      BY <2>1, <2>5, Numbers DEF TakenIn, TypeInv, TypeOK
    <2>6. QED BY <2>2, <2>3, <2>4, <2>5 DEF Lock
  <1>6. QED BY <1>1, <1>2, <1>3, <1>4, <1>5
            DEF TypeInv, TypeOK, flash, task

\* The steps of the receive task that leave the list alone.
LEMMA OtherBlocksType ==
  ASSUME TypeInv,
         SetAdmin \/ WriteAdmin \/ SetDevice \/ WriteDevice \/ Join \/ WriteJoin
  PROVE  TypeInv'
  <1> USE DEF ram, outside, history, Holds
  <1>1. /\ receiver # "listWrite" /\ receiver' # "listWrite" /\ receiver' # "add"
        /\ UNCHANGED <<list, ram, outside>>
    BY DEF SetAdmin, WriteAdmin, SetDevice, WriteDevice, Join, WriteJoin
  <1>2. ListInv' /\ Small'
    BY <1>1 DEF TypeInv, ListInv, Small
  <1>3. \A pwd \in Passwords \cup {NoPwd, Blank} :
          /\ [status EXCEPT !.admin = pwd] \in Statuses
          /\ [joined |-> TRUE, admin |-> NoPwd] \in Statuses
    BY DEF TypeInv, TypeOK, Statuses
  <1>4. g_adminpwd \in Passwords \cup {NoPwd, Blank}
    BY DEF TypeInv, TypeOK
  <1>5. /\ status' \in Statuses /\ receiver' \in Where
        /\ block' \in Statuses \cup Stored
        /\ receiver' \in {"adminWrite", "joinWrite"} => block' \in Statuses
    BY <1>3, <1>4, Constants
    DEF TypeInv, TypeOK, Where, SetAdmin, WriteAdmin, SetDevice, WriteDevice, Join,
        WriteJoin
  <1>6. /\ device' \in BOOLEAN /\ answer' \in Answers
        /\ wiped' \in BOOLEAN /\ torn' \in BOOLEAN /\ astray' = astray
    BY Constants
    DEF TypeInv, TypeOK, SetAdmin, WriteAdmin, SetDevice, WriteDevice, Join, WriteJoin
  <1>7. QED BY <1>1, <1>2, <1>5, <1>6 DEF TypeInv, TypeOK

\* A good list in the buffer.
LEMMA HeldType ==
  ASSUME TypeInv, list' = BlankList, receiver' = "listWrite",
         NEW new, block' = new, new \in Stored, GoodList(new.slots, new.num)
  PROVE  /\ ListInv' /\ Small' /\ list' \in Lists /\ receiver' \in Where
         /\ block' \in Stored
  BY Constants DEF ListInv, Small, Where, Stored

LEMMA AddType ==
  ASSUME TypeInv, Add
  PROVE  TypeInv'
  <1> USE DEF ram, outside
  <1>1. receiver = "add" /\ GoodList(list, g_locklistNum) /\ answer.id \in Keys
    BY DEF Add, TypeInv, TypeOK, ListInv, Answers
  <1>2. CASE g_locklistNum > MaxTemp
    <2>1. receiver' = "finish" /\ UNCHANGED <<list, block, wiped>>
      BY <1>2 DEF Add
    <2>2. ListInv' /\ Small'
      BY <1>1, <2>1 DEF Add, ListInv, Small
    <2>3. QED BY <2>1, <2>2 DEF Add, TypeInv, TypeOK, Where
  <1>3. CASE ~ g_locklistNum > MaxTemp
    <2> DEFINE new == Added(answer.id)
    <2>1. /\ list' = BlankList /\ receiver' = "listWrite" /\ block' = new
          /\ wiped' = FALSE
      BY <1>3 DEF Add, Holds
    <2>2. GoodList(new.slots, new.num)
      BY <1>1, <1>3, Numbers, AddedIsGood DEF GoodList
    <2>3. new = [slots |-> new.slots, num |-> new.num]
      BY DEF Added
    <2>4. new \in Stored
      BY <2>2, <2>3 DEF GoodList, Stored
    <2>5. ListInv' /\ Small' /\ list' \in Lists /\ receiver' \in Where /\ block' \in Stored
      BY <2>1, <2>2, <2>4, HeldType
    <2>6. QED BY <2>1, <2>5 DEF Add, TypeInv, TypeOK
  <1>4. QED BY <1>2, <1>3

LEMMA DeleteType ==
  ASSUME TypeInv, Delete
  PROVE  TypeInv'
  <1> USE DEF ram, outside
  <1>1. receiver = "delete" /\ GoodList(list, g_locklistNum)
    BY DEF Delete, TypeInv, ListInv
  <1>2. CASE ~ \E i \in Places : Match(answer.id, i)
    <2>1. receiver' = "finish" /\ UNCHANGED <<list, block, astray>>
      BY <1>2 DEF Delete
    <2>2. ListInv' /\ Small'
      BY <1>1, <2>1 DEF Delete, ListInv, Small
    <2>3. QED BY <2>1, <2>2 DEF Delete, TypeInv, TypeOK, Where
  <1>3. CASE \E i \in Places : Match(answer.id, i)
    <2>1. PICK i \in Places : /\ Match(answer.id, i)
                              /\ Holds("listWrite", Deleted(i))
                              /\ astray' = (astray \/ list[i] # answer.id)
      BY <1>3 DEF Delete
    <2> DEFINE new == Deleted(i)
    <2>2. list' = BlankList /\ receiver' = "listWrite" /\ block' = new
      BY <1>3, <2>1 DEF Delete, Holds
    <2>3. i \in 0 .. g_locklistNum - 1
      BY <1>1, <2>1, Numbers DEF Match, GoodList
    <2>4. GoodList(new.slots, new.num)
      BY <1>1, <2>3, DeletedIsGood
    <2>5. new = [slots |-> new.slots, num |-> new.num]
      BY DEF Deleted
    <2>6. new \in Stored
      BY <2>4, <2>5 DEF GoodList, Stored
    <2>7. ListInv' /\ Small' /\ list' \in Lists /\ receiver' \in Where /\ block' \in Stored
      BY <2>2, <2>4, <2>6, HeldType
    <2>8. astray' \in BOOLEAN
      BY <2>1 DEF TypeInv, TypeOK
    <2>9. QED BY <2>2, <2>7, <2>8 DEF Delete, TypeInv, TypeOK
  <1>4. QED BY <1>2, <1>3

\* The remaining steps of the receive task.
LEMMA ReceiverType ==
  ASSUME TypeInv, Receive \/ Notify \/ WriteList \/ Finish
  PROVE  TypeInv'
  <1> USE DEF flash, ram, outside, history, Holds
  <1>1. CASE Receive
    <2>1. /\ receiver = "wait" /\ receiver' \notin {"listWrite", "add", "adminWrite",
                                                    "joinWrite"}
          /\ receiver' \in Where /\ UNCHANGED <<flash, g_locklistNum, block>>
      BY <1>1 DEF Receive, Where
    <2>2. answer' \in Answers /\ answers' \in Seq(Answers)
      BY <1>1 DEF Receive, TypeInv, TypeOK
    <2>3. ListInv' /\ Small'
      BY <2>1 DEF TypeInv, ListInv, Small
    <2>4. addFlag' \in BOOLEAN /\ delFlag' \in BOOLEAN
      BY <1>1 DEF Receive, TypeInv, TypeOK
    <2>5. QED BY <1>1, <2>1, <2>2, <2>3, <2>4 DEF Receive, TypeInv, TypeOK
  <1>2. CASE Notify
    <2>1. /\ receiver = "notify" /\ receiver' \in {"finish", "add", "delete"}
          /\ receiver' = "add" => ~ answer.id > LastId
          /\ UNCHANGED <<flash, ram, answer, block, outside, history>>
      BY <1>2 DEF Notify
    <2>2. answer.id \in Nat
      BY Numbers DEF TypeInv, TypeOK, Answers, Keys
    <2>3. ListInv' /\ Small'
      BY <2>1, <2>2, Numbers DEF TypeInv, ListInv, Small
    <2>4. QED BY <2>1, <2>3 DEF TypeInv, TypeOK, Where
  <1>3. CASE WriteList
    <2>1. /\ receiver = "listWrite" /\ list' = block.slots /\ g_locklistNum' = block.num
          /\ receiver' = "finish" /\ block' = BlankStatus
      BY <1>3 DEF WriteList
    <2>2. ListInv' /\ Small'
      BY <2>1 DEF TypeInv, ListInv, Small
    <2>3. list' \in Lists /\ g_locklistNum' \in 0 .. MaxTemp + 1
      BY <2>1 DEF TypeInv, ListInv
    <2>4. QED BY <1>3, <2>1, <2>2, <2>3, Constants DEF WriteList, TypeInv, TypeOK, Where
  <1>4. CASE Finish
    <2>1. receiver = "finish" /\ receiver' = "wait" /\ answer' = NoAnswer
          /\ UNCHANGED <<flash, g_locklistNum, block>>
      BY <1>4 DEF Finish
    <2>2. ListInv' /\ Small'
      BY <2>1 DEF TypeInv, ListInv, Small
    <2>3. /\ g_BleState' \in {"add", "del", "other"}
          /\ addFlag' \in BOOLEAN /\ delFlag' \in BOOLEAN
      BY <1>4 DEF Finish, TypeInv, TypeOK
    <2>4. QED BY <1>4, <2>1, <2>2, <2>3, Constants DEF Finish, TypeInv, TypeOK, Where
  <1>5. QED BY <1>1, <1>2, <1>3, <1>4

LEMMA CutType ==
  ASSUME TypeInv, PowerCut
  PROVE  TypeInv'
  <1> USE DEF flash
  <1>1. GoodList(list, CountOf(list))
    <2>1. CASE receiver = "listWrite"
      <3>1. list = BlankList
        BY <2>1 DEF TypeInv, ListInv
      <3>2. QED BY <3>1, BlankIsGood, CountedIsGood
    <2>2. CASE receiver # "listWrite"
      BY <2>2, CountedIsGood DEF TypeInv, ListInv
    <2>3. QED BY <2>1, <2>2
  <1>2. ListInv' /\ Small'
    BY <1>1 DEF PowerCut, ListInv, Small
  <1>3. g_locklistNum' \in 0 .. MaxTemp + 1
    BY <1>1 DEF PowerCut, GoodList
  <1>4. answers' \in Seq(Answers)
    BY DEF PowerCut, TypeInv, TypeOK
  <1>5. /\ cuts' \in Nat /\ g_usrid' \in Keys /\ g_adminpwd' = NoPwd
        /\ receiver' = "wait" /\ answer' \in Answers /\ block' \in Statuses
    BY Constants, Numbers DEF PowerCut, TypeInv, TypeOK
  <1>6. astray' \in BOOLEAN /\ wiped' \in BOOLEAN /\ torn' \in BOOLEAN
    BY DEF PowerCut, TypeInv, TypeOK
  <1>7. QED BY <1>2, <1>3, <1>4, <1>5, <1>6 DEF PowerCut, TypeInv, TypeOK, Where

LEMMA StepInv == TypeInv /\ [Next]_vars => TypeInv'
  <1> SUFFICES ASSUME TypeInv, [Next]_vars PROVE TypeInv'
    OBVIOUS
  <1>1. CASE UNCHANGED vars
    BY <1>1 DEF vars, TypeInv, TypeOK, ListInv, Small
  <1>2. QED
    BY <1>1, OutsideType, OtherBlocksType, AddType, DeleteType, ReceiverType, CutType
    DEF Next, Receiver

LEMMA Invariance == Spec => []TypeInv
  BY InitInv, StepInv, PTL DEF Spec

\* Every variable keeps its type; the count of keys stays within the list.
THEOREM TypeCorrect == Spec => []TypeOK
  BY Invariance, PTL DEF TypeInv

\* No number is in the list twice (stor_templocklist_write searches the list
\* before it appends).
THEOREM NeverTwice == Spec => []NoTwice
  <1>1. TypeInv => NoTwice
    BY DEF TypeInv, ListInv, GoodList, Distinct, NoTwice
  <1>2. QED BY <1>1, Invariance, PTL

\* A restart counts the keys that were counted before it, up to MaxTemp
\* (storage_get_locklist_num finds the end that additions and deletions left).
THEOREM CountSurvives == Spec => []Counted
  <1>1. TypeInv => Counted
    BY CountGood DEF TypeInv, ListInv, Counted
  <1>2. QED BY <1>1, Invariance, PTL

(***************************************************************************)
(* The lock that is taken in is stored.  A status that is being written    *)
(* over is in the receive task's buffer; the lock is stored before Join.   *)
(***************************************************************************)
JoinInv ==
    /\ JoinedIsStored
    /\ receiver \in {"join", "joinWrite"} => device
    /\ receiver = "adminWrite" /\ block.joined => device \/ torn

LEMMA StepJoin ==
  ASSUME TypeInv, JoinInv, [Next]_vars
  PROVE  JoinInv'
  <1> USE DEF flash, task, ram, outside, history, Holds
  <1>1. CASE UNCHANGED vars
    BY <1>1 DEF vars, JoinInv, JoinedIsStored
  <1>2. CASE Platform \/ Timer \/ Lock
    <2>1. UNCHANGED <<device, status, receiver, block, torn>>
      BY <1>2 DEF Platform, Lock, OrderAdd, OrderDelete, Other, Timer, Decide,
                  GiveUp, Repeat, Login, Expire, TakenIn
    <2>2. QED BY <2>1 DEF JoinInv, JoinedIsStored
  <1>3. CASE Receive \/ Notify \/ Add \/ Delete \/ WriteList \/ Finish
    <2>1. /\ UNCHANGED <<device, status, torn>> /\ receiver # "deviceWrite"
          /\ receiver' \notin {"join", "joinWrite", "adminWrite"}
      BY <1>3 DEF Receive, Notify, Add, Delete, WriteList, Finish
    <2>2. QED BY <2>1 DEF JoinInv, JoinedIsStored
  <1>4. CASE SetAdmin
    <2>1. /\ receiver = "admin" /\ UNCHANGED <<device, torn>>
          /\ receiver' \in {"notify", "adminWrite"}
      BY <1>4 DEF SetAdmin
    <2>2. CASE receiver' = "notify" /\ status' = status
      BY <2>1, <2>2 DEF JoinInv, JoinedIsStored
    <2>3. CASE status' = BlankStatus /\ block' = [status EXCEPT !.admin = g_adminpwd]
      <3>1. ~status'.joined
        BY <2>3 DEF BlankStatus
      <3>2. block'.joined = status.joined
        BY <2>3 DEF TypeInv, TypeOK, Statuses
      <3>3. QED BY <2>1, <3>1, <3>2 DEF JoinInv, JoinedIsStored
    <2>4. QED BY <1>4, <2>2, <2>3 DEF SetAdmin
  <1>5. CASE WriteAdmin
    BY <1>5 DEF WriteAdmin, JoinInv, JoinedIsStored
  <1>6. CASE SetDevice
    BY <1>6 DEF SetDevice, JoinInv, JoinedIsStored
  <1>7. CASE WriteDevice
    BY <1>7 DEF WriteDevice, JoinInv, JoinedIsStored
  <1>8. CASE Join
    BY <1>8 DEF Join, JoinInv, JoinedIsStored, BlankStatus
  <1>9. CASE WriteJoin
    BY <1>9 DEF WriteJoin, JoinInv, JoinedIsStored
  <1>10. CASE PowerCut
    BY <1>10 DEF PowerCut, JoinInv, JoinedIsStored
  <1>11. QED BY <1>1, <1>2, <1>3, <1>4, <1>5, <1>6, <1>7, <1>8, <1>9, <1>10
             DEF Next, Receiver

\* A lock that was taken in is stored with its PIN, at every power cut but one
\* that tears the very block (CMD_BLE_SET_PIN stores the lock, then its status).
THEOREM JoinedStaysStored == Spec => []JoinedIsStored
  <1>1. Init => JoinInv
    BY DEF Init, JoinInv, JoinedIsStored, BlankStatus
  <1>2. TypeInv /\ JoinInv /\ [Next]_vars => JoinInv'
    BY StepJoin
  <1>3. JoinInv => JoinedIsStored
    BY DEF JoinInv
  <1>4. QED BY <1>1, <1>2, <1>3, Invariance, PTL DEF Spec

(***************************************************************************)
(* The list implements KeyStore.  The set changes when the block is        *)
(* erased: what is written then is what the buffer holds.                  *)
(***************************************************************************)

LEMMA AboutType == TypeInv => aboutOf \in Keys \cup {-1}
  BY DEF TypeInv, TypeOK, Answers, aboutOf

\* A full list has more keys than survive a restart.
LEMMA FullList ==
  ASSUME GoodList(list, g_locklistNum)
  PROVE  Cardinality(Listed) = g_locklistNum
  <1> DEFINE S == 0 .. g_locklistNum - 1
             f == [i \in S |-> list[i]]
  <1>1. IsFiniteSet(S) /\ Cardinality(S) = g_locklistNum
    <2>1. g_locklistNum \in Nat /\ g_locklistNum - 1 \in Int
      BY Numbers DEF GoodList
    <2>2. QED BY <2>1, FS_Interval
  <1>2. f \in Surjection(S, Listed)
    BY DEF Surjection, Listed
  <1>3. f \in Injection(S, Listed)
    BY DEF Injection, IsInjective, Listed, GoodList, Distinct
  <1>4. QED BY <1>1, <1>2, <1>3, FS_Surjection

\* A restart forgets at most the key beyond MaxTemp.
LEMMA CutListed ==
  ASSUME GoodList(list, g_locklistNum), PowerCut
  PROVE  Listed' = IF g_locklistNum > MaxTemp THEN Listed \ {list[MaxTemp]} ELSE Listed
  <1>1. /\ list' = list /\ g_locklistNum \in 0 .. MaxTemp + 1
        /\ g_locklistNum' = IF g_locklistNum > MaxTemp THEN MaxTemp ELSE g_locklistNum
    BY CountGood DEF PowerCut, flash, GoodList
  <1>2. CASE ~ g_locklistNum > MaxTemp
    BY <1>1, <1>2 DEF Listed
  <1>3. CASE g_locklistNum > MaxTemp
    <2>1. /\ 0 .. g_locklistNum - 1 = (0 .. MaxTemp - 1) \cup {MaxTemp}
          /\ MaxTemp \notin 0 .. MaxTemp - 1 /\ g_locklistNum' = MaxTemp
      BY <1>1, <1>3, Numbers
    <2>2. \A i \in 0 .. MaxTemp - 1 : list[i] # list[MaxTemp]
      BY <2>1 DEF GoodList, Distinct
    <2>3. Listed = {list[i] : i \in 0 .. MaxTemp - 1} \cup {list[MaxTemp]}
      BY <2>1 DEF Listed
    <2>4. Listed' = {list[i] : i \in 0 .. MaxTemp - 1}
      BY <1>1, <2>1 DEF Listed
    <2>5. QED BY <1>3, <2>2, <2>3, <2>4
  <1>4. QED BY <1>2, <1>3

LEMMA CutRefines ==
  ASSUME TypeInv, PowerCut
  PROVE  Store!Turn \/ Store!Empty \/ Store!Forget
  <1>1. receiver' = "wait" /\ aboutOf' = -1 /\ keysOf' = Listed'
    BY DEF PowerCut, aboutOf, keysOf
  <1>2. CASE receiver = "listWrite"
    <2>1. list' = BlankList /\ g_locklistNum' = CountOf(BlankList)
      BY <1>2 DEF TypeInv, ListInv, PowerCut, flash
    <2>2. g_locklistNum' = 0
      BY <2>1, BlankIsGood, CountGood, Numbers
    <2>3. Listed' = {}
      BY <2>2 DEF Listed
    <2>4. QED BY <1>1, <2>3 DEF Store!Empty
  <1>3. CASE receiver # "listWrite"
    <2>1. GoodList(list, g_locklistNum) /\ keysOf = Listed
      BY <1>3 DEF TypeInv, ListInv, keysOf
    <2>2. CASE g_locklistNum > MaxTemp
      <3>1. Cardinality(keysOf) > MaxTemp
        BY <2>1, <2>2, FullList
      <3>2. MaxTemp \in 0 .. g_locklistNum - 1
        BY <2>1, <2>2, Numbers DEF GoodList
      <3>3. list[MaxTemp] \in keysOf
        BY <2>1, <3>2 DEF Listed
      <3>4. Store!Cardinality(keysOf) = Cardinality(keysOf)
        BY DEF Store!Cardinality, Cardinality
      <3>5. keysOf' = keysOf \ {list[MaxTemp]}
        BY <1>1, <2>1, <2>2, CutListed
      <3>6. QED BY <1>1, <3>1, <3>3, <3>4, <3>5 DEF Store!Forget
    <2>3. CASE ~ g_locklistNum > MaxTemp
      BY <1>1, <2>1, <2>3, CutListed DEF Store!Turn
    <2>4. QED BY <2>2, <2>3
  <1>4. QED BY <1>2, <1>3

LEMMA AddRefines ==
  ASSUME TypeInv, Add
  PROVE  Store!Put \/ UNCHANGED Store!vars
  <1>1. /\ receiver = "add" /\ GoodList(list, g_locklistNum)
        /\ answer.id \in Keys /\ answer.id <= LastId /\ answer' = answer
        /\ keysOf = Listed /\ aboutOf = answer.id
    BY DEF Add, TypeInv, TypeOK, Small, ListInv, Answers, keysOf, aboutOf
  <1>2. receiver' \in {"finish", "listWrite"}
    BY DEF Add, Holds
  <1>3. aboutOf' = aboutOf
    BY <1>1, <1>2 DEF aboutOf
  <1>4. CASE g_locklistNum > MaxTemp
    BY <1>1, <1>3, <1>4 DEF Add, keysOf, Listed, ram, Store!vars
  <1>5. CASE ~ g_locklistNum > MaxTemp
    <2>1. receiver' = "listWrite" /\ block' = Added(answer.id)
      BY <1>5 DEF Add, Holds
    <2>2. g_locklistNum <= MaxTemp
      BY <1>1, <1>5, Numbers DEF GoodList
    <2>3. keysOf' = {Added(answer.id).slots[i] : i \in 0 .. Added(answer.id).num - 1}
      BY <2>1 DEF keysOf
    <2>4. keysOf' = Listed \cup {answer.id}
      BY <1>1, <2>2, <2>3, AddedIsGood
    <2>5. QED BY <1>1, <1>3, <2>4 DEF Store!Put, Keys
  <1>6. QED BY <1>4, <1>5

LEMMA DeleteRefines ==
  ASSUME TypeInv, Delete
  PROVE  Store!Take \/ UNCHANGED Store!vars
  <1>1. /\ receiver = "delete" /\ GoodList(list, g_locklistNum)
        /\ answer.id \in Keys /\ answer' = answer
        /\ keysOf = Listed /\ aboutOf = answer.id
    BY DEF Delete, TypeInv, TypeOK, ListInv, Answers, keysOf, aboutOf
  <1>2. receiver' \in {"finish", "listWrite"}
    BY DEF Delete, Holds
  <1>3. aboutOf' = aboutOf
    BY <1>1, <1>2 DEF aboutOf
  <1>4. CASE ~ \E i \in Places : Match(answer.id, i)
    BY <1>1, <1>3, <1>4 DEF Delete, keysOf, Listed, ram, Store!vars
  <1>5. CASE \E i \in Places : Match(answer.id, i)
    <2>1. PICK i \in Places : Match(answer.id, i) /\ Holds("listWrite", Deleted(i))
      BY <1>5 DEF Delete
    <2>2. i \in 0 .. g_locklistNum - 1 /\ Text[list[i]] = Text[answer.id]
      BY <1>1, <2>1, Numbers DEF Match, GoodList
    <2>3. keysOf' = Listed \ {list[i]}
      BY <1>1, <2>1, <2>2, DeletedIsGood DEF keysOf, Holds
    <2>4. list[i] \in Listed
      BY <2>2 DEF Listed
    <2>5. QED BY <1>1, <1>3, <2>2, <2>3, <2>4 DEF Store!Take, Keys
  <1>6. QED BY <1>4, <1>5

\* The other steps leave the keys alone.
LEMMA OthersRefine ==
  ASSUME TypeInv, TypeInv', [Next]_vars, ~Add, ~Delete, ~PowerCut
  PROVE  Store!Turn
  <1> USE DEF flash, task, ram, outside, history, Holds
  <1>1. aboutOf' \in Keys \cup {-1}
    BY AboutType DEF TypeInv, TypeOK, Answers, aboutOf
  <1>2. keysOf' = keysOf
    <2>1. CASE WriteList
      BY <2>1 DEF WriteList, keysOf, Listed
    <2>2. CASE ~WriteList
      <3>1. /\ UNCHANGED <<list, g_locklistNum>>
            /\ receiver' = "listWrite" <=> receiver = "listWrite"
            /\ receiver = "listWrite" => block' = block
        BY <2>2
        DEF Next, vars, Platform, OrderAdd, OrderDelete, Other, Timer, Decide, GiveUp,
            Repeat, Lock, Login, Expire, TakenIn, Receiver, Receive, SetAdmin,
            WriteAdmin, Notify, SetDevice, WriteDevice, Join, WriteJoin, Finish
      <3>2. QED BY <3>1 DEF keysOf, Listed
    <2>3. QED BY <2>1, <2>2
  <1>3. QED BY <1>1, <1>2 DEF Store!Turn, Keys

\* The stored list is a set of keys that loses and gains keys only as KeyStore
\* says (stor_templocklist_write, stor_del_templsit, storage_get_locklist_num).
THEOREM ImplementsKeyStore == Spec => StoreSpec
  <1>1. Init => Store!Init
    BY DEF Init, Store!Init, keysOf, aboutOf, Listed
  <1>2. TypeInv /\ TypeInv' /\ [Next]_vars => [Store!Next]_(Store!vars)
    <2> SUFFICES ASSUME TypeInv, TypeInv', [Next]_vars
                 PROVE  [Store!Next]_(Store!vars)
      OBVIOUS
    <2>1. CASE Add
      BY <2>1, AddRefines DEF Store!Next
    <2>2. CASE Delete
      BY <2>2, DeleteRefines DEF Store!Next
    <2>3. CASE PowerCut
      BY <2>3, CutRefines DEF Store!Next
    <2>4. CASE ~Add /\ ~Delete /\ ~PowerCut
      BY <2>4, OthersRefine DEF Store!Next
    <2>5. QED BY <2>1, <2>2, <2>3, <2>4
  <1>3. QED BY <1>1, <1>2, Invariance, PTL DEF Spec, StoreSpec, Store!Spec
=============================================================================
