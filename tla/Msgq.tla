-------------------------------- MODULE Msgq --------------------------------
(***************************************************************************)
(* Message queues (kernel/msg_q.c): a ring buffer of max_msgs messages,    *)
(* with one wait queue for the threads that wait to read and for those     *)
(* that wait to write.                                                     *)
(***************************************************************************)
EXTENDS Blocking

CONSTANT max_msgs

ASSUME MsgqAssumption == max_msgs \in Nat \ {0}

Msgq == [kind |-> "msgq", buffer |-> [k \in 0..(max_msgs - 1) |-> NONE],
         read_ptr |-> 0, write_ptr |-> 0, used_msgs |-> 0]

\* Faulty variant: the pointer passes the end of the buffer by one.
AdvancedLate(p) == IF p = max_msgs THEN 0 ELSE p + 1

Advanced(p) == IF p + 1 = max_msgs THEN 0 ELSE p + 1

Stored(m, x) ==
  [m EXCEPT !.buffer[m.write_ptr] = x, !.write_ptr = Advanced(@), !.used_msgs = @ + 1]

\* A cell that has been read is not read again before it is written: its
\* old message is forgotten.
Fetched(m) ==
  [m EXCEPT !.buffer[m.read_ptr] = NONE, !.read_ptr = Advanced(@), !.used_msgs = @ - 1]

\* k_msgq_peek_at(): the message at idx.
PeekAt(m, idx) ==
  LET to_end == max_msgs - m.read_ptr
  IN  IF to_end <= idx THEN m.buffer[idx - to_end] ELSE m.buffer[m.read_ptr + idx]

MsgqContents == [k \in 1..obj.used_msgs |-> PeekAt(obj, k - 1)]

\* k_msgq_put(), with room in the buffer.
MsgqPut(x) ==
  /\ x \in Outside(MsgqContents)
  /\ obj.used_msgs < max_msgs
  /\ \/ ServeFirst(x) /\ UNCHANGED obj
     \/ Waiters = <<>> /\ obj' = Stored(obj, x) /\ UNCHANGED <<schedVars, swap_data>>
  /\ UNCHANGED call

MsgqPutWait(t, x, timed) ==
  /\ x \in Outside(MsgqContents)
  /\ obj.used_msgs = max_msgs
  /\ Wait(t, "put", x, timed)
  /\ UNCHANGED obj

\* k_msgq_get(), with a message in the buffer.  The message of the first
\* thread that waits to write is taken into the buffer: it has no argument
\* any more.
MsgqGet ==
  /\ obj.used_msgs > 0
  /\ \/ /\ ServeFirst(NONE)
        /\ obj' = Stored(Fetched(obj), call[First].arg)
        /\ call' = [call EXCEPT ![First].arg = NONE]
     \/ /\ Waiters = <<>>
        /\ obj' = Fetched(obj)
        /\ UNCHANGED <<schedVars, call, swap_data>>

MsgqGetWait(t, timed) ==
  /\ obj.used_msgs = 0
  /\ Wait(t, "get", NONE, timed)
  /\ UNCHANGED obj

\* Faulty variant: the threads that waited to write are told of success.
MsgqPurgeSucceeds ==
  LET S == {t \in Threads : IsIn(Waiters, t)} IN
  /\ Serve(S, "0", [t \in S |-> NONE])
  /\ obj' = [Msgq EXCEPT !.read_ptr = obj.write_ptr, !.write_ptr = obj.write_ptr]
  /\ UNCHANGED call

\* k_msgq_purge()
MsgqPurge ==
  LET S == {t \in Threads : IsIn(Waiters, t)} IN
  /\ Serve(S, "ENOMSG", [t \in S |-> NONE])
  /\ obj' = [Msgq EXCEPT !.read_ptr = obj.write_ptr, !.write_ptr = obj.write_ptr]
  /\ UNCHANGED call

MsgqNext ==
  /\ obj.kind = "msgq"
  /\ \/ \E x \in Items :
          MsgqPut(x) \/ \E t \in Threads, timed \in BOOLEAN : MsgqPutWait(t, x, timed)
     \/ MsgqGet \/ MsgqPurge
     \/ \E t \in Threads, timed \in BOOLEAN : MsgqGetWait(t, timed)

(***************************************************************************)
(* Properties                                                              *)
(***************************************************************************)
\* The pointers are in the buffer and used_msgs apart; threads wait to write
\* only while it is full, and to read only while it is empty, so that the one
\* wait queue never holds both.
MsgqInv ==
  obj.kind = "msgq" =>
    /\ obj.read_ptr \in 0..(max_msgs - 1) /\ obj.write_ptr \in 0..(max_msgs - 1)
    /\ obj.used_msgs \in 0..max_msgs
    /\ obj.write_ptr - obj.read_ptr \in {obj.used_msgs, obj.used_msgs - max_msgs}
    /\ \A t \in Threads : IsIn(Waiters, t) =>
         obj.used_msgs = IF call[t].op = "put" THEN max_msgs ELSE 0
=============================================================================
