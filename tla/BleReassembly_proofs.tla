---------------------- MODULE BleReassembly_proofs ----------------------
(***************************************************************************)
(* Proofs about module BleReassembly.  The invariant says of the frames    *)
(* collected so far what the properties say of a message handed on, and    *)
(* whose they are: that is what tells a frame sent again from the next one.*)
(***************************************************************************)
EXTENDS BleReassembly, TLAPS

Collected == [cmd : Cmds, remain : 0..(MaxFrames - 1), error : BOOLEAN,
              data : Seq(Parts)]

\* No hole, unless marked as damaged.
Contiguous(p) ==
    ~p.error => \A i \in 1..Len(p.data) :
                  p.data[i].remain = Len(p.data) - i + p.remain

Fits(p) == Len(p.data) + p.remain <= MaxFrames

\* The first part is of the lock's message, of which less is still to come than
\* all, or of an earlier one.
Owned(p) ==
    /\ p.data[1].id <= msg.id
    /\ p.data[1].id = msg.id => p.cmd = msg.cmd /\ p.remain < msg.size

Good(p) == /\ p \in Collected /\ Len(p.data) >= 1
           /\ Contiguous(p) /\ Fits(p) /\ Owned(p)

PacketInv == packet = Null \/ (Good(packet) /\ packet.remain > 0)

\* The frames of the attempt that have arrived when n are still to be sent.
SoFar(n) == [i \in 1..(msg.size - n) |-> Part(msg.id, msg.size - i)]

\* What has been collected from an attempt whose first frame arrived.
Follows(p, n, missed) ==
    /\ p.cmd = msg.cmd
    /\ p.remain >= n
    /\ p.data # <<>> /\ p.data[1].id = msg.id
    /\ missed => p.error \/ p.remain > n
    /\ ~missed => p.remain = n /\ ~p.error /\ p.data = SoFar(n)

HeadInv ==
    /\ left = msg.size => ~head /\ ~miss
    /\ head /\ left > 0 => packet # Null /\ Follows(packet, left, miss)

Inv == TypeOK /\ PacketInv /\ HeadInv /\ NoGap

(* Integer facts about the message that is being sent. *)
LEMMA MsgTypes ==
  ASSUME TypeOK
  PROVE  /\ msg.id \in Nat /\ msg.cmd \in Cmds
         /\ msg.size \in 1..MaxFrames /\ left \in 0..msg.size
         /\ msg.size \in Nat /\ left \in Nat /\ MaxFrames \in Nat
         /\ msg.cmd # "none"
  BY ReassemblyAssumption DEF TypeOK, ReassemblyAssumption

LEMMA FrameFields ==
  ASSUME NEW r
  PROVE  /\ FrameOf(msg, r).cmd = msg.cmd
         /\ FrameOf(msg, r).remain = r
         /\ FrameOf(msg, r).part = [id |-> msg.id, remain |-> r]
  BY DEF FrameOf, Part

LEMMA OneMore ==
  ASSUME NEW n \in Nat, NEW i \in 1..n, NEW r \in Nat
  PROVE  n - i + (r + 1) = (n + 1) - i + r
  OBVIOUS

(* The three things that can be done with a frame. *)
LEMMA OpensGood ==
  ASSUME TypeOK, NEW r \in 0..(msg.size - 1)
  PROVE  LET p == Opens(FrameOf(msg, r))
         IN  /\ Good(p) /\ p.remain = r /\ p.cmd = msg.cmd
             /\ ~p.error /\ p.data = <<Part(msg.id, r)>>
  <1> DEFINE p == Opens(FrameOf(msg, r))
  <1>1. p = [cmd |-> msg.cmd, remain |-> r, error |-> FALSE,
             data |-> <<[id |-> msg.id, remain |-> r]>>]
    BY FrameFields DEF Opens
  <1>2. [id |-> msg.id, remain |-> r] \in Parts
    BY MsgTypes DEF Parts
  <1>3. p \in Collected
    BY <1>1, <1>2, MsgTypes DEF Collected
  <1> HIDE DEF p
  <1>4. Len(p.data) = 1 /\ p.data[1] = [id |-> msg.id, remain |-> r]
    BY <1>1
  <1>5. Contiguous(p)
    BY <1>1, <1>4, MsgTypes DEF Contiguous
  <1>6. Fits(p) /\ Owned(p)
    BY <1>1, <1>4, MsgTypes DEF Fits, Owned
  <1>7. QED BY <1>1, <1>3, <1>4, <1>5, <1>6 DEF Good, Part, p

LEMMA AppendsGood ==
  ASSUME TypeOK, Good(packet), NEW r \in 0..(msg.size - 1),
         packet.cmd = msg.cmd, r + 1 = packet.remain
  PROVE  LET p == Appends(FrameOf(msg, r))
         IN  /\ Good(p) /\ p.remain = r /\ p.cmd = msg.cmd
             /\ p.error = packet.error
             /\ p.data = Append(packet.data, Part(msg.id, r))
             /\ p.data[1] = packet.data[1]
  <1> DEFINE p == Appends(FrameOf(msg, r))
             x == [id |-> msg.id, remain |-> r]
  <1>1. packet \in Collected /\ Len(packet.data) >= 1
    BY DEF Good
  <1>2. p = [packet EXCEPT !.remain = r, !.data = Append(packet.data, x)]
    BY FrameFields DEF Appends
  <1>3. x \in Parts
    BY MsgTypes DEF Parts
  <1>4. /\ p \in Collected /\ p.cmd = packet.cmd /\ p.remain = r
        /\ p.error = packet.error /\ p.data = Append(packet.data, x)
    <2>1. Append(packet.data, x) \in Seq(Parts) /\ r \in 0..(MaxFrames - 1)
      BY <1>1, <1>3, MsgTypes DEF Collected
    <2>2. p \in Collected
      BY <1>1, <1>2, <2>1 DEF Collected
    <2>3. p.cmd = packet.cmd /\ p.remain = r /\ p.data = Append(packet.data, x)
      BY <1>1, <1>2 DEF Collected
    <2>4. p.error = packet.error
      BY <1>1, <1>2 DEF Collected
    <2>5. QED BY <2>2, <2>3, <2>4
  <1> HIDE DEF p, x
  <1>5. packet.data \in Seq(Parts)
    BY <1>1 DEF Collected
  <1>6. /\ Len(p.data) = Len(packet.data) + 1
        /\ \A i \in 1..Len(packet.data) : p.data[i] = packet.data[i]
        /\ p.data[Len(packet.data) + 1] = x
    BY <1>3, <1>4, <1>5
  <1>7. p.data[1] = packet.data[1]
    BY <1>1, <1>5, <1>6
  <1>8. Contiguous(p)
    <2> SUFFICES ASSUME ~p.error, NEW i \in 1..Len(p.data)
                 PROVE  p.data[i].remain = Len(p.data) - i + p.remain
      BY DEF Contiguous
    <2>1. Len(packet.data) \in Nat
      BY <1>5
    <2>2. CASE i = Len(packet.data) + 1
      BY <1>4, <1>6, <2>1, <2>2 DEF x
    <2>3. CASE i \in 1..Len(packet.data)
      <3>1. packet.data[i].remain = Len(packet.data) - i + packet.remain
        BY <1>4, <2>3 DEF Good, Contiguous
      <3>2. p.data[i] = packet.data[i] /\ Len(p.data) = Len(packet.data) + 1
        BY <1>6, <2>3
      <3>3. r \in Nat /\ packet.remain = r + 1 /\ p.remain = r
        BY <1>4, MsgTypes
      <3>4. packet.data[i].remain = (Len(packet.data) + 1) - i + r
        <4>1. Len(packet.data) - i + (r + 1) = (Len(packet.data) + 1) - i + r
          BY <2>1, <2>3, <3>3, OneMore
        <4>2. packet.data[i].remain = Len(packet.data) - i + (r + 1)
          BY Zenon, <3>1, <3>3
        <4>3. QED BY Zenon, <4>1, <4>2
      <3>5. QED BY <3>2, <3>3, <3>4
    <2>4. QED BY <1>6, <2>1, <2>2, <2>3
  <1>9. Fits(p)
    BY <1>4, <1>5, <1>6, MsgTypes DEF Fits, Good
  <1>10. Owned(p)
    BY <1>4, <1>7, MsgTypes DEF Owned, Good
  <1>11. QED BY <1>1, <1>4, <1>5, <1>6, <1>7, <1>8, <1>9, <1>10
            DEF Good, Part, p, x

LEMMA MarksGood ==
  ASSUME TypeOK, Good(packet), NEW r \in 0..(msg.size - 1),
         packet.cmd = msg.cmd, r + 1 < packet.remain
  PROVE  LET p == Marks(FrameOf(msg, r))
         IN  /\ Good(p) /\ p.remain = r /\ p.cmd = msg.cmd
             /\ p.error = TRUE /\ p.data = packet.data
  <1> DEFINE p == Marks(FrameOf(msg, r))
  <1>1. packet \in Collected /\ Len(packet.data) >= 1
    BY DEF Good
  <1>2. p = [packet EXCEPT !.remain = r, !.error = TRUE]
    BY FrameFields DEF Marks
  <1>3. /\ p \in Collected /\ p.cmd = packet.cmd /\ p.remain = r
        /\ p.error = TRUE /\ p.data = packet.data
    <2>1. r \in 0..(MaxFrames - 1)
      BY MsgTypes
    <2>2. p \in Collected
      BY <1>1, <1>2, <2>1 DEF Collected
    <2>3. p.cmd = packet.cmd /\ p.remain = r /\ p.data = packet.data
      BY <1>1, <1>2 DEF Collected
    <2>4. p.error = TRUE
      BY <1>1, <1>2 DEF Collected
    <2>5. QED BY <2>2, <2>3, <2>4
  <1> HIDE DEF p
  <1>4. packet.data \in Seq(Parts) /\ packet.remain \in 0..(MaxFrames - 1)
    BY <1>1 DEF Collected
  <1>5. Contiguous(p)
    BY <1>3 DEF Contiguous
  <1>6. Fits(p) /\ Owned(p)
    BY <1>3, <1>4, MsgTypes DEF Fits, Owned, Good
  <1>7. QED BY <1>1, <1>3, <1>5, <1>6 DEF Good, p

(* Whatever frame of the lock's message arrives, what is collected afterwards
   is good. *)
LEMMA NullOpens ==
  ASSUME TypeOK, packet = Null, NEW r
  PROVE  Join(FrameOf(msg, r)) = Opens(FrameOf(msg, r))
  <1>1. packet.cmd # FrameOf(msg, r).cmd
    BY FrameFields, MsgTypes DEF Null
  <1>2. QED BY <1>1 DEF Join

LEMMA JoinGood ==
  ASSUME TypeOK, PacketInv, NEW r \in 0..(msg.size - 1)
  PROVE  LET p == Join(FrameOf(msg, r))
         IN  Good(p) /\ p.remain = r /\ p.cmd = msg.cmd
  <1> DEFINE f == FrameOf(msg, r)
  <1>1. f.cmd = msg.cmd /\ f.remain = r
    BY FrameFields
  <1> HIDE DEF f
  <1>2. CASE packet = Null
    BY <1>2, NullOpens, OpensGood DEF f
  <1>3. CASE packet # Null
    <2>1. Good(packet)
      BY <1>3 DEF PacketInv
    <2>2. CASE packet.cmd = f.cmd /\ f.remain + 1 = packet.remain
      <3>1. Join(f) = Appends(f)
        BY <2>2 DEF Join
      <3>2. QED BY <1>1, <2>1, <2>2, <3>1, AppendsGood DEF f
    <2>3. CASE packet.cmd = f.cmd /\ f.remain + 1 < packet.remain
      <3>1. f.remain + 1 # packet.remain
        BY <1>1, <2>1, <2>3, MsgTypes DEF Good, Collected
      <3>2. Join(f) = Marks(f)
        BY <2>3, <3>1 DEF Join
      <3>3. QED BY <1>1, <2>1, <2>3, <3>2, MarksGood DEF f
    <2>4. CASE /\ ~(packet.cmd = f.cmd /\ f.remain + 1 = packet.remain)
               /\ ~(packet.cmd = f.cmd /\ f.remain + 1 < packet.remain)
      <3>1. Join(f) = Opens(f)
        BY <2>4 DEF Join
      <3>2. QED BY <3>1, OpensGood DEF f
    <2>5. QED BY <2>2, <2>3, <2>4
  <1>4. QED BY <1>2, <1>3

(* The parts that have arrived, one more. *)
LEMMA SoFarGrows ==
  ASSUME TypeOK, NEW n \in 1..(msg.size - 1)
  PROVE  SoFar(n - 1) = Append(SoFar(n), Part(msg.id, n - 1))
  <1> DEFINE size == msg.size
             PartAt(i) == Part(msg.id, size - i)
  <1>1. size \in Nat /\ n \in Nat
    BY MsgTypes
  <1>2. SoFar(n) = [i \in 1..(size - n) |-> PartAt(i)]
    BY DEF SoFar
  <1>3. SoFar(n - 1) = [i \in 1..(size - n + 1) |-> PartAt(i)]
    <2>1. size - (n - 1) = size - n + 1
      BY <1>1
    <2>2. QED BY <2>1 DEF SoFar
  <1>4. PartAt(size - n + 1) = Part(msg.id, n - 1)
    <2>1. size - (size - n + 1) = n - 1
      BY <1>1
    <2>2. QED BY <2>1
  <1>5. size - n \in Nat
    BY MsgTypes
  <1> HIDE DEF size, PartAt
  <1>6. Append([i \in 1..(size - n) |-> PartAt(i)], PartAt(size - n + 1))
          = [i \in 1..(size - n + 1) |-> PartAt(i)]
    BY <1>5
  <1>7. QED BY <1>2, <1>3, <1>4, <1>6

LEMMA SoFarBegins ==
  ASSUME TypeOK
  PROVE  <<Part(msg.id, msg.size - 1)>> = SoFar(msg.size - 1)
  <1>1. msg.size \in Nat
    BY MsgTypes
  <1>2. msg.size - (msg.size - 1) = 1
    BY <1>1
  <1>3. SoFar(msg.size - 1) = [i \in 1..1 |-> Part(msg.id, msg.size - i)]
    BY <1>2 DEF SoFar
  <1>4. QED BY <1>3

(* The next frame of an attempt whose first one arrived. *)
LEMMA FollowsOn ==
  ASSUME Inv, head, left > 0
  PROVE  LET p == Join(FrameOf(msg, left - 1))
         IN  Follows(p, left - 1, miss)
  <1> DEFINE f == FrameOf(msg, left - 1)
  <1>1. /\ TypeOK /\ PacketInv /\ packet # Null /\ Follows(packet, left, miss)
        /\ Good(packet)
    BY DEF Inv, HeadInv, PacketInv
  <1>2. left \in 1..(msg.size - 1)
    BY <1>1, MsgTypes DEF Inv, HeadInv
  <1>3. /\ left - 1 \in 0..(msg.size - 1) /\ (left - 1) + 1 = left
        /\ left \in Nat /\ packet.remain \in Nat
    BY <1>1, <1>2, MsgTypes DEF Good, Collected
  <1>4. f.cmd = msg.cmd /\ f.remain = left - 1 /\ packet.cmd = msg.cmd
    BY <1>1, FrameFields DEF Follows
  <1> HIDE DEF f
  <1>5. CASE packet.remain = left
    <2>1. Join(f) = Appends(f)
      BY <1>3, <1>4, <1>5 DEF Join
    <2>2. /\ Appends(f).remain = left - 1 /\ Appends(f).cmd = msg.cmd
          /\ Appends(f).error = packet.error
          /\ Appends(f).data = Append(packet.data, Part(msg.id, left - 1))
          /\ Appends(f).data[1] = packet.data[1]
          /\ Len(Appends(f).data) >= 1
      BY <1>1, <1>3, <1>4, <1>5, AppendsGood DEF f, Good
    <2>3. Appends(f).data # <<>>
      BY <2>2
    <2>4. miss => packet.error
      BY <1>1, <1>3, <1>5 DEF Follows
    <2>5. ~miss => Appends(f).data = SoFar(left - 1)
      BY <1>1, <1>2, <2>2, SoFarGrows DEF Follows
    <2>6. QED
      BY <1>1, <1>3, <2>1, <2>2, <2>3, <2>4, <2>5 DEF Follows, f
  <1>6. CASE packet.remain > left
    <2>1. Join(f) = Marks(f)
      BY <1>3, <1>4, <1>6 DEF Join
    <2>2. /\ Marks(f).remain = left - 1 /\ Marks(f).cmd = msg.cmd
          /\ Marks(f).error = TRUE /\ Marks(f).data = packet.data
      BY <1>1, <1>3, <1>4, <1>6, MarksGood DEF f
    <2>3. miss
      BY <1>1, <1>3, <1>6 DEF Follows
    <2>4. QED
      BY <1>1, <1>3, <2>1, <2>2, <2>3 DEF Follows, f
  <1>7. QED BY <1>1, <1>3, <1>5, <1>6 DEF Follows

(* The first frame of an attempt, when no frames of another message of its
   command have been collected: what has been collected from an earlier attempt
   has less still to come than the whole message, and is dropped. *)
LEMMA FirstOpens ==
  ASSUME Inv, left > 0, First, ~Stale
  PROVE  LET p == Join(FrameOf(msg, left - 1))
         IN  ~miss /\ Follows(p, left - 1, miss)
  <1> DEFINE f == FrameOf(msg, left - 1)
  <1>1. TypeOK /\ PacketInv /\ ~miss /\ left = msg.size
    BY DEF Inv, HeadInv, First
  <1>2. /\ left - 1 \in 0..(msg.size - 1) /\ (left - 1) + 1 = left
        /\ left - 1 \in Nat
    BY <1>1, MsgTypes
  <1>3. Join(f) = Opens(f)
    <2>1. CASE packet = Null
      BY <1>1, <2>1, NullOpens
    <2>2. CASE packet.cmd # msg.cmd
      BY <2>2, FrameFields DEF Join
    <2>3. CASE packet # Null /\ packet.cmd = msg.cmd
      <3>1. Good(packet) /\ packet.data[1].id = msg.id
        BY <1>1, <2>3 DEF PacketInv, Stale
      <3>2. packet.remain \in Nat /\ packet.remain < msg.size
        BY <3>1 DEF Good, Owned, Collected
      <3>3. f.remain + 1 = left
        BY <1>2, FrameFields
      <3>4. QED BY <1>1, <3>2, <3>3, MsgTypes DEF Join
    <2>4. QED BY <2>1, <2>2, <2>3
  <1>4. /\ Opens(f).remain = left - 1 /\ Opens(f).cmd = msg.cmd
        /\ ~Opens(f).error /\ Opens(f).data = <<Part(msg.id, left - 1)>>
    BY <1>1, <1>2, OpensGood
  <1>5. Opens(f).data = SoFar(left - 1)
    BY <1>1, <1>4, SoFarBegins
  <1>6. Opens(f).data # <<>> /\ Opens(f).data[1].id = msg.id
    BY <1>4 DEF Part
  <1> HIDE DEF f
  <1>7. QED BY <1>1, <1>2, <1>3, <1>4, <1>5, <1>6 DEF Follows, f

(* When nothing is left to be sent, so far is the whole message. *)
LEMMA AllIsWhole ==
  ASSUME TypeOK
  PROVE  SoFar(0) = Whole(msg)
  <1>1. msg.size - 0 = msg.size
    BY MsgTypes
  <1>2. QED BY <1>1 DEF SoFar, Whole

---------------------------------------------------------------------------
(* The invariant is one. *)

LEMMA InitInv == Init => Inv
  <1> SUFFICES ASSUME Init PROVE Inv
    OBVIOUS
  <1>1. TypeOK
    <2>1. head \in BOOLEAN /\ miss \in BOOLEAN
      BY DEF Init
    <2>2. msg \in [id : 0..MaxMessages, cmd : Cmds, size : 1..MaxFrames]
      BY ReassemblyAssumption DEF Init, ReassemblyAssumption
    <2>3. left \in 0..msg.size
      BY DEF Init
    <2>4. packet = Null /\ touchuan \in 0..1 /\ out.kind = "none"
      BY DEF Init, Quiet
    <2>5. QED BY <2>1, <2>2, <2>3, <2>4 DEF TypeOK
  <1>2. PacketInv /\ HeadInv /\ NoGap
    BY DEF Init, PacketInv, HeadInv, NoGap, Quiet
  <1>3. QED BY <1>1, <1>2 DEF Inv

(* A message begun, or begun again: what has been collected is of an earlier
   message, or of this one but not all of it. *)
LEMMA BeginInv ==
  ASSUME Inv, NEW cmd \in Cmds, NEW size \in 1..MaxFrames, Begin(cmd, size)
  PROVE  Inv'
  <1>1. TypeOK /\ PacketInv
    BY DEF Inv
  <1>2. /\ msg' = [id |-> msg.id + 1, cmd |-> cmd, size |-> size]
        /\ left' = size /\ ~head' /\ ~miss' /\ out' = Quiet
        /\ packet' = packet /\ touchuan' = touchuan
        /\ head' = FALSE /\ miss' = FALSE
    BY DEF Begin
  <1>3. msg' \in [id : 0..MaxMessages, cmd : Cmds, size : 1..MaxFrames]
    BY <1>1, <1>2, ReassemblyAssumption, MsgTypes
    DEF Begin, TypeOK, ReassemblyAssumption
  <1>4. TypeOK'
    <2>1. left' \in 0..msg'.size /\ out'.kind = "none"
      BY <1>2, MsgTypes DEF Quiet
    <2>2. head' \in BOOLEAN /\ miss' \in BOOLEAN
      BY <1>2
    <2>3. QED BY <1>1, <1>2, <1>3, <2>1, <2>2 DEF TypeOK
  <1>5. PacketInv'
    <2>1. CASE packet = Null
      BY <1>2, <2>1 DEF PacketInv
    <2>2. CASE packet # Null
      <3>1. Good(packet) /\ packet.remain > 0
        BY <1>1, <2>2 DEF PacketInv
      <3>2. packet.data[1].id \in Nat /\ packet.data[1].id <= msg.id
        <4>1. packet.data \in Seq(Parts) /\ Len(packet.data) >= 1
          BY <3>1 DEF Good, Collected
        <4>2. packet.data[1] \in Parts
          BY <4>1
        <4>3. QED BY <3>1, <4>2 DEF Good, Owned, Parts
      <3>3. Owned(packet)'
        BY <1>1, <1>2, <3>2, MsgTypes DEF Owned
      <3>4. Good(packet)'
        BY <1>2, <3>1, <3>3 DEF Good, Contiguous, Fits
      <3>5. QED BY <1>2, <3>1, <3>4 DEF PacketInv
    <2>3. QED BY <2>1, <2>2
  <1>6. HeadInv' /\ NoGap'
    BY <1>2 DEF HeadInv, NoGap, Quiet
  <1>7. QED BY <1>4, <1>5, <1>6 DEF Inv

(* What has been collected stays good while the lock's message is the same. *)
LEMMA PacketKept ==
  ASSUME PacketInv, packet' = packet, msg' = msg
  PROVE  PacketInv'
  BY DEF PacketInv, Good, Contiguous, Fits, Owned

LEMMA AgainInv ==
  ASSUME Inv, Again
  PROVE  Inv'
  <1>1. TypeOK'
    <2>1. left' \in 0..msg'.size /\ out'.kind = "none"
      BY MsgTypes DEF Inv, Again, Quiet
    <2>2. head' \in BOOLEAN /\ miss' \in BOOLEAN
      BY DEF Again
    <2>3. QED BY <2>1, <2>2 DEF Inv, TypeOK, Again
  <1>2. PacketInv'
    BY PacketKept DEF Inv, Again
  <1>3. HeadInv' /\ NoGap'
    BY DEF Again, HeadInv, NoGap, Quiet
  <1>4. QED BY <1>1, <1>2, <1>3 DEF Inv

LEMMA CommandInv ==
  ASSUME Inv, Command
  PROVE  Inv'
  <1>1. TypeOK'
    BY DEF Inv, TypeOK, Command, Quiet
  <1>2. PacketInv'
    BY PacketKept DEF Inv, Command
  <1>3. HeadInv'
    BY DEF Inv, Command, HeadInv, Follows, SoFar
  <1>4. NoGap'
    BY DEF Command, NoGap, Quiet
  <1>5. QED BY <1>1, <1>2, <1>3, <1>4 DEF Inv

LEMMA LoseInv ==
  ASSUME Inv, Lose
  PROVE  Inv'
  <1>1. TypeOK /\ PacketInv /\ HeadInv /\ left > 0
    BY DEF Inv, Lose
  <1>2. /\ left' = left - 1 /\ left \in Nat /\ msg.size \in Nat /\ msg' = msg
        /\ left <= msg.size /\ packet' = packet /\ head' = head
        /\ left \in 0..msg.size
    BY <1>1, MsgTypes DEF Lose
  <1>3. TypeOK'
    <2>1. miss' \in BOOLEAN
      BY Zenon DEF Lose
    <2>2. left' \in 0..(msg'.size)
      BY <1>1, <1>2
    <2>3. QED BY <1>1, <1>2, <2>1, <2>2 DEF TypeOK, Lose, Quiet
  <1>4. PacketInv'
    BY <1>1, <1>2, PacketKept
  <1>5. HeadInv'
    <2>1. left' # msg'.size
      BY <1>1, <1>2
    <2>2. ASSUME head', left' > 0
          PROVE  packet' # Null /\ Follows(packet, left, miss)'
      <3>1. packet # Null /\ Follows(packet, left, miss)
        BY <1>1, <1>2, <2>2 DEF HeadInv
      <3>2. ~First
        BY <1>1, <1>2, <2>2 DEF HeadInv, First
      <3>3. miss'
        BY <3>2 DEF Lose
      <3>4. packet.remain >= left
        BY <3>1 DEF Follows
      <3>5. Good(packet) /\ packet.remain \in Nat
        BY <1>1, <3>1 DEF PacketInv, Good, Collected
      <3>6. packet'.remain >= left' /\ packet'.remain > left'
        BY <1>2, <3>4, <3>5
      <3>7. QED BY <1>2, <3>1, <3>3, <3>6 DEF Follows
    <2>3. QED BY <2>1, <2>2 DEF HeadInv
  <1>6. NoGap'
    BY DEF Lose, NoGap, Quiet
  <1>7. QED BY <1>3, <1>4, <1>5, <1>6 DEF Inv

(* What is done with the frames collected, complete or not. *)
LEMMA FinishInv ==
  ASSUME Inv, NEW p, Good(p), Finish(p), msg' = msg
  PROVE  /\ PacketInv' /\ NoGap'
         /\ packet' = Null \/ packet' \in [cmd : Cmds, remain : 1..(MaxFrames - 1),
                                           error : BOOLEAN, data : Seq(Parts)]
         /\ touchuan' \in 0..1
         /\ out'.kind \in {"none", "message", "refusal", "silence"}
  <1>1. p \in Collected /\ MaxFrames \in Nat /\ touchuan \in 0..1
    BY MsgTypes DEF Good, Inv, TypeOK
  <1>2. CASE p.remain > 0 /\ packet' = p /\ out' = Quiet /\ UNCHANGED touchuan
    <2>1. p \in [cmd : Cmds, remain : 1..(MaxFrames - 1), error : BOOLEAN,
                 data : Seq(Parts)]
      <3>1. p.remain \in 1..(MaxFrames - 1)
        BY <1>1, <1>2 DEF Collected
      <3>2. QED BY <1>1, <3>1 DEF Collected
    <2>2. PacketInv'
      BY <1>2 DEF PacketInv, Good, Contiguous, Fits, Owned
    <2>3. QED BY <1>1, <1>2, <2>1, <2>2 DEF NoGap, Quiet
  <1>3. CASE /\ p.remain = 0 /\ ~p.error /\ packet' = Null
             /\ out' = [kind |-> "message", data |-> p.data]
             /\ touchuan' = IF p.cmd \in Responses THEN 0 ELSE touchuan
    <2>1. \A i \in 1..Len(p.data) : p.data[i].remain = Len(p.data) - i
      <3>1. Len(p.data) \in Nat
        BY <1>1 DEF Collected
      <3>2. ASSUME NEW i \in 1..Len(p.data)
            PROVE  p.data[i].remain = Len(p.data) - i
        <4>1. p.data[i].remain = Len(p.data) - i + 0
          BY <1>3 DEF Good, Contiguous
        <4>2. QED BY <3>1, <4>1
      <3>3. QED BY <3>2
    <2>2. NoGap'
      BY <1>3, <2>1 DEF NoGap
    <2>3. QED BY <1>1, <1>3, <2>2 DEF PacketInv
  <1>4. CASE /\ p.remain = 0 /\ packet' = Null /\ touchuan' = 1
             /\ \E kind \in IF touchuan = 0 THEN {"refusal", "silence"}
                            ELSE {"silence"} :
                  out' = [kind |-> kind, data |-> <<>>]
    BY <1>4 DEF PacketInv, NoGap
  <1>5. QED BY <1>2, <1>3, <1>4 DEF Finish

(* The message of an attempt whose first frame arrived, when the last does. *)
LEMMA ArriveFollows ==
  ASSUME Inv, Arrive, head'
  PROVE  Follows(Join(FrameOf(msg, left - 1)), left - 1, miss)
  <1>1. CASE head
    BY <1>1, FollowsOn DEF Arrive
  <1>2. CASE ~head
    BY Zenon, <1>2, FirstOpens DEF Arrive
  <1>3. QED BY <1>1, <1>2

LEMMA ArriveInv ==
  ASSUME Inv, Arrive
  PROVE  Inv'
  <1> DEFINE p == Join(FrameOf(msg, left - 1))
  <1>1. /\ TypeOK /\ left > 0 /\ left \in 0..msg.size /\ msg.size \in Nat
        /\ left' = left - 1 /\ msg' = msg /\ miss' = miss /\ Finish(p)
        /\ PacketInv
    BY MsgTypes DEF Inv, Arrive, Recv
  <1>2. left - 1 \in 0..(msg.size - 1) /\ left - 1 \in 0..msg.size
    BY <1>1
  <1>3. Good(p) /\ p.remain = left - 1
    BY <1>1, <1>2, JoinGood
  <1>4. head' => Follows(p, left - 1, miss)
    BY ArriveFollows
  <1>5. head' \in BOOLEAN
    BY Zenon DEF Arrive
  <1> HIDE DEF p
  <1>6. /\ PacketInv' /\ NoGap'
        /\ packet' = Null \/ packet' \in [cmd : Cmds, remain : 1..(MaxFrames - 1),
                                          error : BOOLEAN, data : Seq(Parts)]
        /\ touchuan' \in 0..1
        /\ out'.kind \in {"none", "message", "refusal", "silence"}
    BY <1>1, <1>3, FinishInv
  <1>7. TypeOK'
    BY <1>1, <1>2, <1>5, <1>6 DEF TypeOK
  <1>8. HeadInv'
    <2>1. left' # msg'.size
      BY <1>1, <1>2
    <2>2. ASSUME head', left' > 0
          PROVE  packet' # Null /\ Follows(packet, left, miss)'
      <3>1. packet' = p
        BY <1>1, <1>3, <2>2 DEF Finish
      <3>2. Follows(p, left - 1, miss)
        BY <1>4, <2>2
      <3>3. p # Null
        BY <1>1, <1>3, <2>2 DEF Null
      <3>4. Follows(packet, left, miss)'
        BY <1>1, <3>1, <3>2 DEF Follows, SoFar
      <3>5. QED BY <3>1, <3>3, <3>4
    <2>3. QED BY <2>1, <2>2 DEF HeadInv
  <1>9. QED BY <1>6, <1>7, <1>8 DEF Inv

LEMMA StepInv == Inv /\ [Next]_vars => Inv'
  <1> SUFFICES ASSUME Inv, [Next]_vars PROVE Inv'
    OBVIOUS
  <1>1. CASE UNCHANGED vars
    <2>1. TypeOK' /\ NoGap'
      BY <1>1 DEF Inv, TypeOK, NoGap, vars
    <2>2. PacketInv'
      BY <1>1, PacketKept DEF Inv, vars
    <2>3. HeadInv'
      BY <1>1 DEF Inv, HeadInv, Follows, SoFar, vars
    <2>4. QED BY <2>1, <2>2, <2>3 DEF Inv
  <1>2. QED
    BY <1>1, BeginInv, AgainInv, CommandInv, ArriveInv, LoseInv DEF Next

LEMMA Invariant == Spec => []Inv
  BY InitInv, StepInv, PTL DEF Spec

---------------------------------------------------------------------------
(* g_RecvPacket is NULL or holds a message that is not complete. *)
THEOREM ReassemblyTypeCorrect == Spec => []TypeOK
  <1>1. Inv => TypeOK
    BY DEF Inv
  <1>2. QED BY <1>1, Invariant, PTL

(* What is collected and what is still to come is never more than one message:
   the buffer does not fill up with frames that are sent again. *)
THEOREM BufferHasRoom == Spec => []Room
  <1>1. Inv => Room
    <2> SUFFICES ASSUME Inv PROVE Room
      OBVIOUS
    <2>1. CASE packet = Null
      BY <2>1, MsgTypes DEF Inv, Room, Null
    <2>2. CASE Good(packet)
      BY <2>2 DEF Good, Fits, Room
    <2>3. QED BY <2>1, <2>2 DEF Inv, PacketInv
  <1>2. QED BY <1>1, Invariant, PTL

(* Whatever frames are lost, repeated or broken off, no message with a hole is
   handed on. *)
THEOREM NeverAGap == Spec => []NoGap
  <1>1. Inv => NoGap
    BY DEF Inv
  <1>2. QED BY <1>1, Invariant, PTL

(* A message whose first frame has arrived is handed on whole, or not at all if
   a frame of it was lost. *)
THEOREM WholeOrRefusedCorrect == Spec => WholeOrRefused
  <1> DEFINE Outcome ==
        IF miss THEN out'.kind \in {"refusal", "silence"}
        ELSE out' = [kind |-> "message", data |-> Whole(msg)]
  <1>1. ASSUME Inv, Arrive, left = 1, head'
        PROVE  Outcome
    <2> DEFINE p == Join(FrameOf(msg, left - 1))
    <2>1. left - 1 = 0 /\ TypeOK
      BY <1>1 DEF Inv
    <2>2. Follows(p, 0, miss)
      BY <1>1, <2>1, ArriveFollows
    <2>3. Good(p) /\ p.remain = 0
      <3>1. 0 \in 0..(msg.size - 1)
        BY <1>1, MsgTypes DEF Inv
      <3>2. QED BY <1>1, <2>1, <3>1, JoinGood DEF Inv
    <2>4. Finish(p)
      BY <1>1 DEF Arrive, Recv
    <2> HIDE DEF p
    <2>5. CASE miss
      BY <2>2, <2>3, <2>4, <2>5 DEF Follows, Finish
    <2>6. CASE ~miss
      BY <2>1, <2>2, <2>3, <2>4, <2>6, AllIsWhole DEF Follows, Finish
    <2>7. QED BY <2>5, <2>6
  <1>2. Inv /\ [Next]_vars => [Arrive /\ left = 1 /\ head' => Outcome]_vars
    BY <1>1
  <1>3. QED BY <1>2, Invariant, PTL DEF Spec, WholeOrRefused
=============================================================================
