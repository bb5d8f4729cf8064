------------------------- MODULE BleCmdRing_proofs -------------------------
(***************************************************************************)
(* Theorems about the command list, for every set of tasks, list size and  *)
(* bound on frames and calls.                                              *)
(***************************************************************************)
EXTENDS BleCmdRing, TLAPS

LEMMA FreeIsNoCommand == Free \notin Cmd
  BY DEF Free, Cmd, Kinds, ATKinds

LEMMA NoJobIsJob ==
  NoJob \in [kind : Kinds, id : Nat, left : Nat, guarded : BOOLEAN]
  BY DEF NoJob, Kinds, ATKinds

LEMMA OneFrameLess ==
  ASSUME NEW j \in [kind : Kinds, id : Nat, left : Nat, guarded : BOOLEAN],
         j.left > 0
  PROVE  [j EXCEPT !.left = @ - 1]
           \in [kind : Kinds, id : Nat, left : Nat, guarded : BOOLEAN]
  OBVIOUS

LEMMA InitTypeOK == Init => TypeOK
  <1> SUFFICES ASSUME Init PROVE TypeOK
    OBVIOUS
  <1>1. clean \in BOOLEAN /\ backed \in BOOLEAN
    BY DEF Init
  <1>2. QED
    BY <1>1, NoJobIsJob, RingAssumption
    DEF RingAssumption, Init, TypeOK, Producers, Cmd, Free

LEMMA StepTypeOK == TypeOK /\ [Next]_vars => TypeOK'
  <1> SUFFICES ASSUME TypeOK, [Next]_vars
               PROVE  TypeOK'
    OBVIOUS
  <1> USE RingAssumption DEF RingAssumption, TypeOK, Producers, ringVars, gateVars, histVars
  <1>1. ASSUME NEW t \in Tasks, Call(t)
        PROVE  TypeOK'
    <2>1. CASE ATCmdSend(t)
      BY <2>1 DEF ATCmdSend, Begin, Kinds, ATKinds
    <2>2. CASE SendMult(t)
      BY <2>2 DEF SendMult, Begin, Kinds, ATKinds
    <2>3. CASE SendTouchuan(t)
      BY <2>3 DEF SendTouchuan, Begin, Kinds, ATKinds
    <2>4. QED BY <1>1, <2>1, <2>2, <2>3 DEF Call
  <1>2. ASSUME NEW t \in Producers, Enqueue(t)
        PROVE  TypeOK'
    <2>1. CASE Claim(t)
      <3>1. backed' \in BOOLEAN
        BY <2>1 DEF Claim
      <3>2. QED BY <2>1, <3>1 DEF Claim
    <2>2. CASE TestMutex(t)
      <3>1. job' \in [Producers -> [kind : Kinds, id : Nat,
                                    left : Nat, guarded : BOOLEAN]]
        BY <2>2, NoJobIsJob DEF TestMutex
      <3>2. clean' = clean /\ backed' = backed
        BY <2>2 DEF TestMutex
      <3>3. QED BY <2>2, <3>1, <3>2 DEF TestMutex
    <2>3. CASE TakeMutex(t)
      BY <2>3 DEF TakeMutex
    <2>4. CASE Store(t)
      <3>1. Command(t) \in Cmd
        BY DEF Command, Cmd
      <3>2. QED BY <2>4, <3>1 DEF Store
    <2>5. CASE Advance(t)
      BY <2>5 DEF Advance
    <2>6. CASE Wrap(t)
      <3>1. CASE job[t].left > 0
        <4>1. job' = [job EXCEPT ![t] = [job[t] EXCEPT !.left = @ - 1]]
          BY <2>6, <3>1 DEF Wrap
        <4>2. [job[t] EXCEPT !.left = @ - 1]
                \in [kind : Kinds, id : Nat, left : Nat, guarded : BOOLEAN]
          BY <3>1, OneFrameLess
        <4>3. job' \in [Producers -> [kind : Kinds, id : Nat,
                                      left : Nat, guarded : BOOLEAN]]
          BY <4>1, <4>2
        <4>4. pc' = [pc EXCEPT ![t] = "store"] /\ mutex' = mutex
          BY <2>6, <3>1 DEF Wrap
        <4>5. clean' = clean /\ backed' = backed
          BY <2>6 DEF Wrap
        <4>6. QED BY <2>6, <4>3, <4>4, <4>5 DEF Wrap
      <3>2. CASE job[t].left = 0
        <4>1. job' \in [Producers -> [kind : Kinds, id : Nat,
                                      left : Nat, guarded : BOOLEAN]]
          BY <2>6, <3>2, NoJobIsJob DEF Wrap
        <4>2. pc' = [pc EXCEPT ![t] = "idle"] /\ mutex' = 0
          BY <2>6, <3>2 DEF Wrap
        <4>3. clean' = clean /\ backed' = backed
          BY <2>6 DEF Wrap
        <4>4. QED BY <2>6, <4>1, <4>2, <4>3 DEF Wrap
      <3>3. QED BY <2>6, <3>1, <3>2 DEF Wrap
    <2>7. QED BY <1>2, <2>1, <2>2, <2>3, <2>4, <2>5, <2>6 DEF Enqueue
  <1>3. CASE SendThread
    <2>1. CASE ScanExpires
      BY <2>1 DEF ScanExpires, CallReset, NoJob, Kinds, ATKinds
    <2>2. CASE DiscExpires
      BY <2>2 DEF DiscExpires, CallReset, NoJob, Kinds, ATKinds
    <2>3. CASE ConnectExpires
      BY <2>3 DEF ConnectExpires
    <2>4. CASE PassGates
      BY <2>4 DEF PassGates
    <2>5. CASE Look
      BY <2>5 DEF Look
    <2>6. CASE WritePort
      BY <2>6 DEF WritePort
    <2>7. CASE Retire
      BY <2>7 DEF Retire
    <2>8. QED BY <1>3, <2>1, <2>2, <2>3, <2>4, <2>5, <2>6, <2>7 DEF SendThread
  <1>4. CASE Module
    <2>1. CASE ScanReport
      BY <2>1 DEF ScanReport
    <2>2. CASE ConReport
      BY <2>2 DEF ConReport
    <2>3. CASE DiscReport
      BY <2>3 DEF DiscReport
    <2>4. CASE LinkLostReport
      BY <2>4 DEF LinkLostReport
    <2>5. CASE ErrorReport
      BY <2>5 DEF ErrorReport
    <2>6. CASE TouchuanDone
      BY <2>6 DEF TouchuanDone
    <2>7. QED BY <1>4, <2>1, <2>2, <2>3, <2>4, <2>5, <2>6 DEF Module
  <1>5. CASE UNCHANGED vars
    BY <1>5 DEF vars
  <1>6. QED BY <1>1, <1>2, <1>3, <1>4, <1>5 DEF Next

\* Type correctness: in particular the send thread's index never leaves the
\* list and every stored slot holds a command.
THEOREM TypeCorrect == Spec => []TypeOK
  <1>1. QED BY InitTypeOK, StepTypeOK, PTL DEF Spec

---------------------------------------------------------------------------
(* The list is a queue.  The inductive invariant is TypeOK /\ RingIsQueue. *)

\* Steps that leave the list, and where the producers and the send thread
\* stand towards it, alone.
LEMMA SameRing ==
  ASSUME RingIsQueue,
         UNCHANGED <<slot, put, get, fifo, clean>>,
         snd' = "retire" <=> snd = "retire",
         \A u \in Producers : Inside(u)' => Inside(u),
         \A u \in Producers : pc'[u] = "advance" <=> pc[u] = "advance",
         \A u \in Producers : pc'[u] = "wrap" <=> pc[u] = "wrap",
         clean => ChosenIsThere'
  PROVE  RingIsQueue'
  <1> SUFFICES ASSUME clean'
               PROVE  RingIsQueue'
    BY DEF RingIsQueue
  <1>1. clean
    OBVIOUS
  <1>2. OneInside'
    BY <1>1 DEF RingIsQueue, OneInside
  <1>3. Used' = Used
    BY DEF Used
  <1>4. \A i : Ahead(i)' = Ahead(i)
    BY DEF Ahead
  <1>5. SlotsInUse'
    BY <1>1, <1>3, <1>4 DEF RingIsQueue, SlotsInUse
  <1>6. SlotsHoldFifo'
    BY <1>1, <1>4 DEF RingIsQueue, SlotsHoldFifo
  <1>7. NextFree' = NextFree
    BY DEF NextFree
  <1>8. NextFreeFollows'
    BY <1>1, <1>3, <1>4, <1>7 DEF RingIsQueue, NextFreeFollows
  <1>9. QED BY <1>1, <1>2, <1>5, <1>6, <1>8 DEF RingIsQueue

\* A task enters the section; clean survives only if nobody was inside.
LEMMA TakeMutexKeepsQueue ==
  ASSUME TypeOK, RingIsQueue, NEW t \in Producers, TakeMutex(t)
  PROVE  RingIsQueue'
  <1> SUFFICES ASSUME clean'
               PROVE  RingIsQueue'
    BY DEF RingIsQueue
  <1>1. clean /\ \A u \in Producers : ~Inside(u)
    BY DEF TakeMutex
  <1>2. \A u \in Producers : pc'[u] = IF u = t THEN "store" ELSE pc[u]
    BY DEF TakeMutex, TypeOK
  <1>3. OneInside'
    BY <1>1, <1>2 DEF OneInside, Inside
  <1>4. UNCHANGED <<slot, put, get, fifo, snd>>
    BY DEF TakeMutex, gateVars
  <1>5. Used' = Used /\ \A i : Ahead(i)' = Ahead(i)
    BY <1>4 DEF Used, Ahead
  <1>6. NextFree' = NextFree
    BY <1>1, <1>2, <1>4 DEF NextFree, Inside
  <1>7. SlotsInUse' /\ SlotsHoldFifo'
    BY <1>1, <1>4, <1>5 DEF RingIsQueue, SlotsInUse, SlotsHoldFifo
  <1>8. NextFreeFollows'
    BY <1>1, <1>4, <1>5, <1>6 DEF RingIsQueue, NextFreeFollows
  <1>9. ChosenIsThere'
    BY <1>1, <1>4 DEF RingIsQueue, ChosenIsThere
  <1>10. QED BY <1>3, <1>7, <1>8, <1>9 DEF RingIsQueue

\* A command is stored in the slot after those in use, the last of fifo.
LEMMA StoreKeepsQueue ==
  ASSUME TypeOK, RingIsQueue, NEW t \in Producers, Store(t)
  PROVE  RingIsQueue'
  <1> SUFFICES ASSUME clean'
               PROVE  RingIsQueue'
    BY DEF RingIsQueue
  <1> USE RingAssumption DEF RingAssumption
  <1>1. clean /\ put < RingSize /\ slot[put] = Free
    BY DEF Store
  <1>2. \A u \in Producers : pc'[u] = IF u = t THEN "advance" ELSE pc[u]
    BY DEF Store, TypeOK
  <1>3. \A u \in Producers : Inside(u) => u = t
    BY <1>1 DEF RingIsQueue, OneInside, Store, Inside
  <1>4. pc[t] = "store"
    BY DEF Store
  <1>5. OneInside'
    BY <1>2, <1>3, <1>4 DEF OneInside, Inside
  <1>6. put \in 0..RingSize-1 /\ get \in 0..RingSize-1 /\ Len(fifo) \in Nat
    BY <1>1 DEF TypeOK
  <1>7. put' = put /\ get' = get /\ snd' = snd
    BY DEF Store
  <1>8. NextFree = put
    BY <1>1, <1>3, <1>4 DEF NextFree, Inside
  <1>9. NextFree' = IF put + 1 = RingSize THEN 0 ELSE put + 1
    BY <1>2, <1>7 DEF NextFree
  <1>10. Used \in Nat
    BY <1>6 DEF Used
  <1>11. Ahead(put) = Used /\ Used < RingSize
    BY <1>1, <1>6, <1>8, <1>10
    DEF RingIsQueue, NextFreeFollows, SlotsInUse, Ahead
  <1>12. Command(t) \in Cmd /\ Command(t) # Free
    <2>1. Command(t) \in Cmd
      BY DEF Command, Cmd, TypeOK
    <2>2. QED BY <2>1, FreeIsNoCommand
  <1>13. /\ Len(fifo') = Len(fifo) + 1
         /\ fifo'[Len(fifo) + 1] = Command(t)
         /\ \A n \in 1..Len(fifo) : fifo'[n] = fifo[n]
    BY <1>12 DEF Store, TypeOK
  <1>14. Used' = Used + 1
    BY <1>6, <1>7, <1>13 DEF Used
  <1>15. \A i : Ahead(i)' = Ahead(i)
    BY <1>7 DEF Ahead
  <1>16. \A i \in 0..RingSize-1 : slot'[i] = IF i = put THEN Command(t) ELSE slot[i]
    BY <1>1 DEF Store, TypeOK
  <1>17. \A i \in 0..RingSize-1 : Ahead(i) \in Nat /\ (Ahead(i) = Ahead(put) => i = put)
    BY <1>6 DEF Ahead
  <1>18. SlotsInUse'
    BY <1>1, <1>10, <1>11, <1>12, <1>14, <1>15, <1>16, <1>17
    DEF RingIsQueue, SlotsInUse
  <1>19. SlotsHoldFifo'
    <2> SUFFICES ASSUME NEW i \in 0..RingSize-1,
                        Ahead(i) + (IF snd = "retire" THEN 0 ELSE 1)
                          \in 1..Len(fifo) + 1
                 PROVE  slot'[i] = fifo'[Ahead(i) + (IF snd = "retire" THEN 0 ELSE 1)]
      BY <1>7, <1>13, <1>15 DEF SlotsHoldFifo
    <2>1. CASE i = put
      BY <2>1, <1>11, <1>13, <1>16 DEF Used
    <2>2. CASE i # put
      <3>1. Ahead(i) # Used
        BY <2>2, <1>11, <1>17
      <3>2. Ahead(i) + (IF snd = "retire" THEN 0 ELSE 1) \in 1..Len(fifo)
        BY <3>1, <1>6, <1>17 DEF Used
      <3>3. QED BY <2>2, <3>2, <1>1, <1>13, <1>16 DEF RingIsQueue, SlotsHoldFifo
    <2>3. QED BY <2>1, <2>2
  <1>20. NextFreeFollows'
    BY <1>6, <1>7, <1>9, <1>10, <1>11, <1>14 DEF NextFreeFollows, Ahead
  <1>21. ChosenIsThere'
    BY <1>1, <1>6, <1>7, <1>12, <1>16 DEF RingIsQueue, ChosenIsThere
  <1>22. QED BY <1>5, <1>18, <1>19, <1>20, <1>21 DEF RingIsQueue

\* mPutIndex moves on; the next free slot stays the same.
LEMMA AdvanceKeepsQueue ==
  ASSUME TypeOK, RingIsQueue, NEW t \in Producers, Advance(t)
  PROVE  RingIsQueue'
  <1> SUFFICES ASSUME clean'
               PROVE  RingIsQueue'
    BY DEF RingIsQueue
  <1> USE RingAssumption DEF RingAssumption
  <1>1. clean
    BY DEF Advance, histVars
  <1>2. \A u \in Producers : pc'[u] = IF u = t THEN "wrap" ELSE pc[u]
    BY DEF Advance, TypeOK
  <1>3. pc[t] = "advance" /\ \A u \in Producers : Inside(u) => u = t
    BY <1>1 DEF RingIsQueue, OneInside, Advance, Inside
  <1>4. OneInside'
    BY <1>2, <1>3 DEF OneInside, Inside
  <1>5. UNCHANGED <<slot, get, fifo, snd>>
    BY DEF Advance, gateVars, histVars
  <1>6. put \in 0..255
    BY DEF TypeOK
  <1>7. NextFree = IF put + 1 = RingSize THEN 0 ELSE put + 1
    BY <1>3 DEF NextFree
  <1>8. put + 1 <= RingSize
    BY <1>1, <1>6, <1>7 DEF RingIsQueue, NextFreeFollows
  <1>9. put' = put + 1
    BY <1>6, <1>8 DEF Advance
  <1>10. \A u \in Producers : pc'[u] # "advance"
    BY <1>2, <1>3 DEF Inside
  <1>11. NextFree' = NextFree
    BY <1>2, <1>7, <1>9, <1>10 DEF NextFree
  <1>12. Used' = Used /\ \A i : Ahead(i)' = Ahead(i)
    BY <1>5 DEF Used, Ahead
  <1>13. SlotsInUse' /\ SlotsHoldFifo' /\ ChosenIsThere'
    BY <1>1, <1>5, <1>12
    DEF RingIsQueue, SlotsInUse, SlotsHoldFifo, ChosenIsThere
  <1>14. NextFreeFollows'
    BY <1>1, <1>5, <1>11, <1>12 DEF RingIsQueue, NextFreeFollows
  <1>15. QED BY <1>4, <1>13, <1>14 DEF RingIsQueue

\* mPutIndex is wrapped; the task goes on with its next frame or leaves.
LEMMA WrapKeepsQueue ==
  ASSUME TypeOK, RingIsQueue, NEW t \in Producers, Wrap(t)
  PROVE  RingIsQueue'
  <1> SUFFICES ASSUME clean'
               PROVE  RingIsQueue'
    BY DEF RingIsQueue
  <1> USE RingAssumption DEF RingAssumption
  <1>1. clean
    BY DEF Wrap, histVars
  <1>2. \E p \in {"store", "idle"} : pc' = [pc EXCEPT ![t] = p]
    BY DEF Wrap
  <1>3. \A u \in Producers : pc'[u] = pc[u] \/ (u = t /\ pc'[u] \in {"store", "idle"})
    BY <1>2 DEF TypeOK
  <1>4. pc[t] = "wrap" /\ \A u \in Producers : Inside(u) => u = t
    BY <1>1 DEF RingIsQueue, OneInside, Wrap, Inside
  <1>5. OneInside'
    BY <1>3, <1>4 DEF OneInside, Inside
  <1>6. UNCHANGED <<slot, get, fifo, snd>>
    BY DEF Wrap, gateVars, histVars
  <1>7. \A u \in Producers : pc'[u] \notin {"advance", "wrap"} /\ pc[u] # "advance"
    <2>1. pc'[t] \in {"store", "idle"}
      BY <1>2 DEF TypeOK
    <2>2. QED BY <2>1, <1>3, <1>4 DEF Inside
  <1>8. NextFree = IF put = RingSize THEN 0 ELSE put
    BY <1>4, <1>7 DEF NextFree
  <1>9. put' = NextFree
    BY <1>8 DEF Wrap
  <1>10. NextFree' = NextFree
    BY <1>7, <1>9 DEF NextFree
  <1>11. Used' = Used /\ \A i : Ahead(i)' = Ahead(i)
    BY <1>6 DEF Used, Ahead
  <1>12. SlotsInUse' /\ SlotsHoldFifo' /\ ChosenIsThere'
    BY <1>1, <1>6, <1>11
    DEF RingIsQueue, SlotsInUse, SlotsHoldFifo, ChosenIsThere
  <1>13. NextFreeFollows'
    BY <1>1, <1>6, <1>10, <1>11 DEF RingIsQueue, NextFreeFollows
  <1>14. QED BY <1>5, <1>12, <1>13 DEF RingIsQueue

\* The send thread writes the oldest command of fifo.
LEMMA WritesOldest ==
  ASSUME TypeOK, RingIsQueue, clean, WritePort
  PROVE  fifo # << >> /\ slot[get] = Head(fifo) /\ port' = Head(fifo)
  <1> USE RingAssumption DEF RingAssumption
  <1>1. snd \in {"at", "tunnel"} /\ slot[get] # Free /\ port' = slot[get]
    BY DEF WritePort, RingIsQueue, ChosenIsThere
  <1>2. get \in 0..RingSize-1 /\ fifo \in Seq(Cmd) /\ Ahead(get) = 0
    BY DEF TypeOK, Ahead
  <1>3. 0 < Used /\ Used = Len(fifo)
    BY <1>1, <1>2 DEF RingIsQueue, SlotsInUse, Used
  <1>4. slot[get] = fifo[1]
    BY <1>1, <1>2, <1>3 DEF RingIsQueue, SlotsHoldFifo
  <1>5. QED BY <1>1, <1>2, <1>3, <1>4

LEMMA WritePortKeepsQueue ==
  ASSUME TypeOK, RingIsQueue, WritePort
  PROVE  RingIsQueue'
  <1> SUFFICES ASSUME clean'
               PROVE  RingIsQueue'
    BY DEF RingIsQueue
  <1>1. clean
    BY DEF WritePort
  <1>2. fifo # << >>
    BY <1>1, WritesOldest
  <1>3. /\ UNCHANGED <<slot, put, get, pc>>
        /\ snd # "retire" /\ snd' = "retire"
    BY DEF WritePort, ringVars
  <1>4. /\ Len(fifo) \in Nat /\ Len(fifo') = Len(fifo) - 1
        /\ \A n \in 1..Len(fifo) - 1 : fifo'[n] = fifo[n + 1]
    BY <1>2 DEF WritePort, TypeOK
  <1>5. OneInside' /\ NextFree' = NextFree /\ \A i : Ahead(i)' = Ahead(i)
    BY <1>1, <1>3 DEF RingIsQueue, OneInside, Inside, NextFree, Ahead
  <1>6. Used' = Used
    BY <1>3, <1>4 DEF Used
  <1>7. SlotsInUse' /\ NextFreeFollows'
    BY <1>1, <1>3, <1>5, <1>6 DEF RingIsQueue, SlotsInUse, NextFreeFollows
  <1>8. SlotsHoldFifo'
    <2> SUFFICES ASSUME NEW i \in 0..RingSize-1, Ahead(i) \in 1..Len(fifo) - 1
                 PROVE  slot[i] = fifo[Ahead(i) + 1]
      <3>1. \A i \in 0..RingSize-1 : Ahead(i) \in Nat
        BY RingAssumption DEF RingAssumption, Ahead, TypeOK
      <3>2. QED BY <3>1, <1>3, <1>4, <1>5 DEF SlotsHoldFifo
    <2>1. Ahead(i) + 1 \in 1..Len(fifo)
      BY <1>4
    <2>2. QED BY <2>1, <1>1, <1>3 DEF RingIsQueue, SlotsHoldFifo
  <1>9. ChosenIsThere'
    BY <1>3 DEF ChosenIsThere
  <1>10. QED BY <1>5, <1>7, <1>8, <1>9 DEF RingIsQueue

\* The slot whose command was written is freed and mGetIndex moves on.
LEMMA RetireKeepsQueue ==
  ASSUME TypeOK, RingIsQueue, Retire
  PROVE  RingIsQueue'
  <1> SUFFICES ASSUME clean'
               PROVE  RingIsQueue'
    BY DEF RingIsQueue
  <1> USE RingAssumption DEF RingAssumption
  <1>1. clean /\ UNCHANGED <<put, pc, fifo>> /\ snd = "retire" /\ snd' = "poll"
    BY DEF Retire, histVars
  <1>2. get \in 0..RingSize-1 /\ get' = IF get + 1 = RingSize THEN 0 ELSE get + 1
    BY DEF Retire, TypeOK
  <1>3. \A i \in 0..RingSize-1 : slot'[i] = IF i = get THEN Free ELSE slot[i]
    BY DEF Retire, TypeOK
  <1>4. \A i \in 0..RingSize-1 :
          /\ Ahead(i) \in 0..RingSize-1
          /\ Ahead(i) = 0 <=> i = get
          /\ Ahead(i)' = IF i = get THEN RingSize - 1 ELSE Ahead(i) - 1
    BY <1>2 DEF Ahead
  <1>5. Len(fifo) \in Nat /\ Used = Len(fifo) + 1 /\ Used' = Used - 1
    BY <1>1 DEF Used, TypeOK
  <1>6. OneInside' /\ NextFree' = NextFree
    BY <1>1 DEF RingIsQueue, OneInside, Inside, NextFree
  <1>7. SlotsInUse'
    <2>1. Used <= RingSize
      BY <1>1 DEF RingIsQueue, SlotsInUse
    <2>2. ASSUME NEW i \in 0..RingSize-1
          PROVE  (slot'[i] # Free) <=> (Ahead(i)' < Used')
      <3>1. CASE i = get
        <4>1. slot'[i] = Free
          BY <3>1, <1>3
        <4>2. ~(Ahead(i)' < Used')
          BY <2>1, <3>1, <1>4, <1>5
        <4>3. QED BY <4>1, <4>2
      <3>2. CASE i # get
        <4>1. (slot[i] # Free) <=> (Ahead(i) < Used)
          BY <1>1 DEF RingIsQueue, SlotsInUse
        <4>2. slot'[i] = slot[i]
          BY <3>2, <1>3
        <4>3. (Ahead(i) < Used) <=> (Ahead(i)' < Used')
          BY <3>2, <1>4, <1>5
        <4>4. QED BY <4>1, <4>2, <4>3
      <3>3. QED BY <3>1, <3>2
    <2>3. QED BY <2>1, <2>2, <1>5 DEF SlotsInUse
  <1>8. SlotsHoldFifo'
    <2> SUFFICES ASSUME NEW i \in 0..RingSize-1, Ahead(i)' + 1 \in 1..Len(fifo)
                 PROVE  slot'[i] = fifo[Ahead(i)' + 1]
      BY <1>1 DEF SlotsHoldFifo
    <2>1. Used <= RingSize
      BY <1>1 DEF RingIsQueue, SlotsInUse
    <2>2. i # get
      BY <2>1, <1>4, <1>5
    <2>3. slot'[i] = slot[i] /\ Ahead(i)' + 1 = Ahead(i)
      BY <2>2, <1>3, <1>4
    <2>4. QED BY <2>3, <1>1 DEF RingIsQueue, SlotsHoldFifo
  <1>9. NextFreeFollows'
    <2>1. /\ NextFree \in 0..RingSize-1
          /\ Ahead(NextFree) = Used \/ (Used = RingSize /\ NextFree = get)
      BY <1>1 DEF RingIsQueue, NextFreeFollows
    <2>2. QED BY <2>1, <1>2, <1>5, <1>6 DEF NextFreeFollows, Ahead
  <1>10. ChosenIsThere'
    BY <1>1 DEF ChosenIsThere
  <1>11. QED BY <1>6, <1>7, <1>8, <1>9, <1>10 DEF RingIsQueue

LEMMA InitRingIsQueue == Init => RingIsQueue
  <1> SUFFICES ASSUME Init PROVE RingIsQueue
    OBVIOUS
  <1> USE RingAssumption DEF RingAssumption
  <1>1. /\ slot = [i \in 0..RingSize-1 |-> Free] /\ put = 0 /\ get = 0
        /\ fifo = << >> /\ snd = "poll" /\ \A t \in Producers : pc[t] = "idle"
    BY DEF Init
  <1>2. Used = 0 /\ NextFree = 0 /\ \A i \in 0..RingSize-1 : Ahead(i) = i
    BY <1>1 DEF Used, NextFree, Ahead
  <1>3. OneInside /\ SlotsInUse /\ SlotsHoldFifo /\ ChosenIsThere
    BY <1>1, <1>2 DEF OneInside, Inside, SlotsInUse, SlotsHoldFifo, ChosenIsThere
  <1>4. NextFreeFollows
    BY <1>1, <1>2 DEF NextFreeFollows
  <1>5. QED BY <1>3, <1>4 DEF RingIsQueue

LEMMA StepRingIsQueue ==
  TypeOK /\ RingIsQueue /\ [Next]_vars => RingIsQueue'
  <1> SUFFICES ASSUME TypeOK, RingIsQueue, [Next]_vars
               PROVE  RingIsQueue'
    OBVIOUS
  <1>1. clean => ChosenIsThere
    BY DEF RingIsQueue
  <1>2. ASSUME NEW t \in Tasks, Call(t)
        PROVE  RingIsQueue'
    <2>1. pc[t] = "idle" /\ \E p \in {"test", "claim"} : pc' = [pc EXCEPT ![t] = p]
      BY <1>2 DEF Call, ATCmdSend, SendMult, SendTouchuan, Begin
    <2>2. UNCHANGED <<slot, put, get, fifo, clean, snd>>
      BY <1>2 DEF Call, ATCmdSend, SendMult, SendTouchuan, ringVars
    <2>3. \A u \in Producers : pc'[u] = pc[u] \/ (pc[u] = "idle" /\ pc'[u] \in {"test", "claim"})
      BY <2>1 DEF TypeOK
    <2>4. QED BY <1>1, <2>2, <2>3, SameRing DEF Inside, ChosenIsThere
  <1>3. ASSUME NEW t \in Producers, Enqueue(t)
        PROVE  RingIsQueue'
    <2>1. CASE Claim(t)
      <3>1. UNCHANGED <<slot, put, get, fifo, clean, snd>>
        BY <2>1 DEF Claim, ringVars
      <3>2. \A u \in Producers : pc'[u] = pc[u] \/ (pc[u] = "claim" /\ pc'[u] = "test")
        BY <2>1 DEF Claim, TypeOK
      <3>3. QED BY <1>1, <3>1, <3>2, SameRing DEF Inside, ChosenIsThere
    <2>2. CASE TestMutex(t)
      <3>1. UNCHANGED <<slot, put, get, fifo, clean, snd>>
        BY <2>2 DEF TestMutex, ringVars, histVars
      <3>2. pc[t] = "test" /\ \E p \in {"idle", "take"} : pc' = [pc EXCEPT ![t] = p]
        BY <2>2 DEF TestMutex
      <3>3. \A u \in Producers : pc'[u] = pc[u] \/ (pc[u] = "test" /\ pc'[u] \in {"idle", "take"})
        BY <3>2 DEF TypeOK
      <3>4. QED BY <1>1, <3>1, <3>3, SameRing DEF Inside, ChosenIsThere
    <2>3. CASE TakeMutex(t)
      BY <2>3, TakeMutexKeepsQueue
    <2>4. CASE Store(t)
      BY <2>4, StoreKeepsQueue
    <2>5. CASE Advance(t)
      BY <2>5, AdvanceKeepsQueue
    <2>6. CASE Wrap(t)
      BY <2>6, WrapKeepsQueue
    <2>7. QED BY <1>3, <2>1, <2>2, <2>3, <2>4, <2>5, <2>6 DEF Enqueue
  <1>4. CASE SendThread
    <2>1. CASE ScanExpires \/ DiscExpires
      <3>1. UNCHANGED <<slot, put, get, fifo, clean, snd>>
        BY <2>1 DEF ScanExpires, DiscExpires, ringVars, histVars
      <3>2. \A u \in Producers : pc'[u] = pc[u] \/ (pc[u] = "idle" /\ pc'[u] = "test")
        BY <2>1 DEF ScanExpires, DiscExpires, CallReset, AtLoopTop, TypeOK
      <3>3. QED BY <1>1, <3>1, <3>2, SameRing DEF Inside, ChosenIsThere
    <2>2. CASE ConnectExpires
      <3>1. UNCHANGED <<slot, put, get, fifo, clean, snd, pc>>
        BY <2>2 DEF ConnectExpires, ringVars, histVars
      <3>2. QED BY <1>1, <3>1, SameRing DEF Inside, ChosenIsThere
    <2>3. CASE PassGates
      <3>1. UNCHANGED <<slot, put, get, fifo, clean, pc>> /\ snd = "poll" /\ snd' = "look"
        BY <2>3 DEF PassGates, AtLoopTop, ringVars, histVars
      <3>2. QED BY <3>1, SameRing DEF Inside, ChosenIsThere
    <2>4. CASE Look
      <3>1. UNCHANGED <<slot, put, get, fifo, clean, pc>>
        BY <2>4 DEF Look, ringVars, histVars
      <3>2. /\ snd = "look" /\ snd' \in {"poll", "tunnel", "at"}
            /\ slot[get] = Free => snd' = "poll"
        BY <2>4 DEF Look, Free, ATKinds
      <3>3. QED BY <3>1, <3>2, SameRing DEF Inside, ChosenIsThere
    <2>5. CASE WritePort
      BY <2>5, WritePortKeepsQueue
    <2>6. CASE Retire
      BY <2>6, RetireKeepsQueue
    <2>7. QED BY <1>4, <2>1, <2>2, <2>3, <2>4, <2>5, <2>6 DEF SendThread
  <1>5. CASE Module
    <2>1. UNCHANGED <<slot, put, get, fifo, clean, snd, pc>>
      BY <1>5 DEF Module, ScanReport, ConReport, DiscReport, LinkLostReport,
                  ErrorReport, TouchuanDone, ringVars, histVars
    <2>2. QED BY <1>1, <2>1, SameRing DEF Inside, ChosenIsThere
  <1>6. CASE UNCHANGED vars
    <2>1. UNCHANGED <<slot, put, get, fifo, clean, snd, pc>>
      BY <1>6 DEF vars
    <2>2. QED BY <1>1, <2>1, SameRing DEF Inside, ChosenIsThere
  <1>7. QED BY <1>2, <1>3, <1>4, <1>5, <1>6 DEF Next

\* Overlapping calls and a full list are the only ways in which the command
\* list stops being a queue.
THEOREM RingCorrect == Spec => []RingIsQueue
  <1>1. Init => TypeOK /\ RingIsQueue
    BY InitTypeOK, InitRingIsQueue
  <1>2. TypeOK /\ RingIsQueue /\ [Next]_vars => (TypeOK /\ RingIsQueue)'
    BY StepTypeOK, StepRingIsQueue
  <1>3. QED BY <1>1, <1>2, PTL DEF Spec

---------------------------------------------------------------------------
(* The list implements the queue of CmdFifo.                               *)

\* A command is stored at the end of the queue.
LEMMA StoreAccepts ==
  ASSUME TypeOK, NEW t \in Producers, Store(t), clean'
  PROVE  Fifo!Accept
  <1>1. Command(t) \in Cmd
    BY DEF Command, Cmd, TypeOK
  <1>2. fifo \in Seq(Cmd) /\ fifo' = Append(fifo, Command(t)) /\ port' = port /\ clean
    BY DEF Store, TypeOK
  <1>3. fifo' \in Seq(Cmd) \ {<< >>} /\ fifo = SubSeq(fifo', 1, Len(fifo') - 1)
    BY <1>1, <1>2
  <1>4. QED BY <1>2, <1>3 DEF Fifo!Accept

\* The oldest command of the queue is written to the port.
LEMMA WritePortDelivers ==
  ASSUME TypeOK, RingIsQueue, clean, WritePort
  PROVE  Fifo!Deliver
  <1>1. fifo # << >> /\ port' = Head(fifo)
    BY WritesOldest
  <1>2. fifo' = Tail(fifo) /\ clean'
    BY <1>1 DEF WritePort
  <1>3. QED BY <1>1, <1>2 DEF Fifo!Deliver

\* The steps other than storing and writing leave the queue and port alone.
LEMMA OtherStepsStutter ==
  ASSUME [Next]_vars, clean, clean',
         ~\E t \in Producers : Store(t), ~WritePort
  PROVE  UNCHANGED Fifo!vars
  <1> USE DEF Fifo!vars, histVars
  <1>1. ASSUME NEW t \in Tasks, Call(t)
        PROVE  UNCHANGED <<fifo, port, clean>>
    BY <1>1 DEF Call, ATCmdSend, SendMult, SendTouchuan
  <1>2. ASSUME NEW t \in Producers, Enqueue(t)
        PROVE  UNCHANGED <<fifo, port>>
    BY <1>2 DEF Enqueue, Claim, TestMutex, TakeMutex, Advance, Wrap
  <1>3. CASE SendThread
    BY <1>3 DEF SendThread, ScanExpires, DiscExpires, ConnectExpires,
                PassGates, Look, Retire
  <1>4. CASE Module
    BY <1>4 DEF Module, ScanReport, ConReport, DiscReport, LinkLostReport,
                ErrorReport, TouchuanDone
  <1>5. CASE UNCHANGED vars
    BY <1>5 DEF vars
  <1>6. QED BY <1>1, <1>2, <1>3, <1>4, <1>5 DEF Next

\* Once clean is lost it stays lost.
LEMMA UncleanForever == [Next]_vars /\ ~clean => ~clean'
  <1> SUFFICES ASSUME [Next]_vars, ~clean
               PROVE  ~clean'
    OBVIOUS
  <1> USE DEF histVars
  <1>1. ASSUME NEW t \in Tasks, Call(t)
        PROVE  ~clean'
    BY <1>1 DEF Call, ATCmdSend, SendMult, SendTouchuan
  <1>2. ASSUME NEW t \in Producers, Enqueue(t)
        PROVE  ~clean'
    BY <1>2 DEF Enqueue, Claim, TestMutex, TakeMutex, Store, Advance, Wrap
  <1>3. CASE SendThread
    BY <1>3 DEF SendThread, ScanExpires, DiscExpires, ConnectExpires,
                PassGates, Look, WritePort, Retire
  <1>4. CASE Module
    BY <1>4 DEF Module, ScanReport, ConReport, DiscReport, LinkLostReport,
                ErrorReport, TouchuanDone
  <1>5. CASE UNCHANGED vars
    BY <1>5 DEF vars
  <1>6. QED BY <1>1, <1>2, <1>3, <1>4, <1>5 DEF Next

\* Commands accepted are written to the serial port once each and in order,
\* for as long as calls do not overlap and the list is not overrun.
THEOREM RingImplementsFifo == Spec => ImplementsFifo
  <1>1. Init => Fifo!Init
    BY FreeIsNoCommand DEF Init, Fifo!Init
  <1>2. TypeOK /\ RingIsQueue /\ [Next]_vars => [Fifo!Next]_(Fifo!vars)
    <2> SUFFICES ASSUME TypeOK, RingIsQueue, [Next]_vars
                 PROVE  [Fifo!Next]_(Fifo!vars)
      OBVIOUS
    <2>1. CASE ~clean'
      BY <2>1 DEF Fifo!Next, Fifo!Break
    <2>2. CASE clean' /\ \E t \in Producers : Store(t)
      BY <2>2, StoreAccepts DEF Fifo!Next
    <2>3. CASE clean' /\ WritePort
      BY <2>3, UncleanForever, WritePortDelivers DEF Fifo!Next
    <2>4. CASE clean' /\ ~WritePort /\ ~\E t \in Producers : Store(t)
      BY <2>4, UncleanForever, OtherStepsStutter
    <2>5. QED BY <2>1, <2>2, <2>3, <2>4
  <1>3. QED BY <1>1, <1>2, TypeCorrect, RingCorrect, PTL
            DEF Spec, ImplementsFifo, Fifo!Spec
=============================================================================
