-------------------------- MODULE BleReassembly --------------------------
(***************************************************************************)
(* Putting together what the lock sends (recv_touchuan_data in             *)
(* ble/bluetooth_logic.c).  A message of the lock (an answer, or a request *)
(* such as its challenge) comes in frames that carry its command and the   *)
(* number of frames still to come; g_RecvPacket is NULL, or collects the   *)
(* frames of the message being received.  Only the receive task comes here.*)
(*                                                                         *)
(* The lock and the air are external: the lock sends a message frame by    *)
(* frame, may send it again from its first frame, or break off; a frame    *)
(* that arrives damaged (length, checksum) is dropped, and so is one that  *)
(* deal_recv_tunnel cuts at the wrong place.  Frames are not reordered: the*)
(* UART is one stream.  A part of a message is named by the message and    *)
(* the number its frame carries, instead of by its bytes.                  *)
(*                                                                         *)
(* A definition whose comment starts with "Slip" is an action with a       *)
(* plausible programming error and not part of the model.                  *)
(***************************************************************************)
EXTENDS Integers, Sequences

CONSTANTS
    Requests,   \* commands the lock sends by itself (bit 7 of Cmd is 0)
    Responses,  \* answers to what the gateway has sent (bit 7 is 1)
    MaxFrames,  \* frames of a message (256)
    MaxMessages \* bound: messages the lock begins

Cmds == Requests \cup Responses

ASSUME ReassemblyAssumption ==
    /\ "none" \notin Cmds
    /\ MaxFrames \in Nat \ {0}
    /\ MaxMessages \in Nat

VARIABLES
    packet,     \* g_RecvPacket and g_PacketBuf
    touchuan,   \* send_touchuan_flag
    out,        \* what the last frame led to
    msg,        \* the message the lock is sending
    left,       \* frames of it still to be sent
    head,       \* history: the first frame of this attempt has arrived, and met
                \* no frames collected from an earlier message of its command
    miss        \* history: a later one has not

vars == <<packet, touchuan, out, msg, left, head, miss>>

Null == [cmd |-> "none", remain |-> 0, error |-> FALSE, data |-> <<>>]

Part(id, remain) == [id |-> id, remain |-> remain]
Parts == [id : Nat, remain : Nat]
FrameOf(m, remain) ==
    [cmd |-> m.cmd, remain |-> remain, part |-> Part(m.id, remain)]

Quiet == [kind |-> "none", data |-> <<>>]

---------------------------------------------------------------------------
(* The lock.                                                               *)

Begin(cmd, size) ==
    /\ msg.id < MaxMessages
    /\ msg' = [id |-> msg.id + 1, cmd |-> cmd, size |-> size]
    /\ left' = size
    /\ head' = FALSE /\ miss' = FALSE
    /\ out' = Quiet
    /\ UNCHANGED <<packet, touchuan>>

\* The lock sends its message again, from the first frame.
Again ==
    /\ msg.id > 0 /\ left < msg.size
    /\ left' = msg.size
    /\ head' = FALSE /\ miss' = FALSE
    /\ out' = Quiet
    /\ UNCHANGED <<packet, touchuan, msg>>

---------------------------------------------------------------------------
(* The gateway.                                                            *)

\* Another command is sent to the lock, or given up.
Command ==
    /\ touchuan' = 1 - touchuan
    /\ out' = Quiet
    /\ UNCHANGED <<packet, msg, left, head, miss>>

Opens(f) ==
    [cmd |-> f.cmd, remain |-> f.remain, error |-> FALSE, data |-> <<f.part>>]
Appends(f) == [packet EXCEPT !.remain = f.remain, !.data = Append(@, f.part)]
Marks(f) == [packet EXCEPT !.remain = f.remain, !.error = TRUE]

\* (Slip: a frame is taken for the next one whatever its number.)
Join_Unchecked(f) ==
    IF packet.cmd = f.cmd /\ f.remain < packet.remain THEN Appends(f) ELSE Opens(f)

\* (Slip: a frame that came before is appended again.)
Join_Repeats(f) ==
    IF packet.cmd = f.cmd /\ f.remain + 1 \in {packet.remain, packet.remain + 1}
    THEN Appends(f)
    ELSE IF packet.cmd = f.cmd /\ f.remain + 1 < packet.remain THEN Marks(f)
    ELSE Opens(f)

\* (Slip: a frame of the same command never starts a message.)
Join_NoRestart(f) ==
    IF packet.cmd # f.cmd THEN Opens(f)
    ELSE IF f.remain + 1 = packet.remain THEN Appends(f)
    ELSE Marks(f)

\* The frame that is waited for is appended; one further on shows that frames
\* were lost; any other begins a message.
Join(f) ==
    IF packet.cmd = f.cmd /\ f.remain + 1 = packet.remain THEN Appends(f)
    ELSE IF packet.cmd = f.cmd /\ f.remain + 1 < packet.remain THEN Marks(f)
    ELSE Opens(f)

\* (Slip: g_RecvPacket is not NULL again.)
Finish_Keeps(joined) ==
    /\ packet' = joined
    /\ IF joined.remain = 0 /\ ~joined.error
       THEN /\ out' = [kind |-> "message", data |-> joined.data]
            /\ touchuan' = IF joined.cmd \in Responses THEN 0 ELSE touchuan
       ELSE out' = Quiet /\ UNCHANGED touchuan

\* A message that is complete goes to responsion_cmd_deal or to
\* distribute_cmd_deal; for a damaged one the lock is told so (0x80), unless
\* send_touchuan_data refuses: always when a command to the lock is on its way,
\* and when the list is being written to.
Finish(joined) ==
    \/ /\ joined.remain > 0
       /\ packet' = joined
       /\ out' = Quiet
       /\ UNCHANGED touchuan
    \/ /\ joined.remain = 0 /\ ~joined.error
       /\ packet' = Null
       /\ out' = [kind |-> "message", data |-> joined.data]
       /\ touchuan' = IF joined.cmd \in Responses THEN 0 ELSE touchuan
    \/ /\ joined.remain = 0 /\ joined.error
       /\ packet' = Null
       /\ \E kind \in IF touchuan = 0 THEN {"refusal", "silence"} ELSE {"silence"} :
            out' = [kind |-> kind, data |-> <<>>]
       /\ touchuan' = 1

Recv(f) == Finish(Join(f))

First == left = msg.size

Stale == packet.cmd = msg.cmd /\ packet.data[1].id # msg.id

\* The next frame arrives.
Arrive ==
    /\ left > 0
    /\ left' = left - 1
    /\ Recv(FrameOf(msg, left - 1))
    /\ head' = (head \/ (First /\ ~Stale))
    /\ UNCHANGED <<msg, miss>>

\* It does not, or is dropped.
Lose ==
    /\ left > 0
    /\ left' = left - 1
    /\ miss' = (miss \/ ~First)
    /\ out' = Quiet
    /\ UNCHANGED <<packet, touchuan, msg, head>>

---------------------------------------------------------------------------
Init ==
    /\ packet = Null
    /\ touchuan = 0
    /\ out = Quiet
    /\ msg \in [id : {0}, cmd : Cmds, size : {1}]
    /\ left = 0
    /\ head = FALSE /\ miss = FALSE

Next ==
    \/ \E cmd \in Cmds, size \in 1..MaxFrames : Begin(cmd, size)
    \/ Again \/ Command \/ Arrive \/ Lose

Spec == Init /\ [][Next]_vars

---------------------------------------------------------------------------
TypeOK ==
    /\ packet = Null \/ packet \in [cmd : Cmds, remain : 1..(MaxFrames - 1),
                                    error : BOOLEAN, data : Seq(Parts)]
    /\ touchuan \in 0..1
    /\ out.kind \in {"none", "message", "refusal", "silence"}
    /\ msg \in [id : 0..MaxMessages, cmd : Cmds, size : 1..MaxFrames]
    /\ left \in 0..msg.size
    /\ head \in BOOLEAN /\ miss \in BOOLEAN

\* The frames collected and those still to come are never more than a message
\* has: what is kept when frames are repeated or lost does not pile up.  This is
\* in frames: the bytes of 256 of them (bluetooth_logic.h:226) do not fit into
\* data[1024], which the code does not look at either.
Room == Len(packet.data) + packet.remain <= MaxFrames

\* Whatever is lost, repeated or broken off, a message handed on has no hole:
\* its parts are numbered down to 0.
NoGap ==
    out.kind = "message" =>
      \A i \in 1..Len(out.data) : out.data[i].remain = Len(out.data) - i

Whole(m) == [i \in 1..m.size |-> Part(m.id, m.size - i)]

\* When its last frame arrives, a message whose first frame has is handed on
\* whole if none was lost, and otherwise not at all.
WholeOrRefused ==
    [][Arrive /\ left = 1 /\ head' =>
         IF miss THEN out'.kind \in {"refusal", "silence"}
         ELSE out' = [kind |-> "message", data |-> Whole(msg)]]_vars
=============================================================================
