------------------------------ MODULE TimeoutQ ------------------------------
(***************************************************************************)
(* The timeout queue and the system clock (kernel/timeout.c), with the     *)
(* timer driver it drives and is driven by.  Every section that holds      *)
(* timeout_lock is one step; sys_clock_announce() releases the lock around *)
(* each callback, and other interrupts and other CPUs run there.           *)
(***************************************************************************)
EXTENDS Integers, Sequences, Lists

CONSTANTS
  Timeouts,   \* struct _timeout objects
  CpuSets,    \* the sets of CPUs a machine may have; SMP if several
  NONE,
  Ticks,      \* the relative timeouts that are asked for
  AbsTicks,   \* the absolute ones
  MaxTime     \* bound on the time

ASSUME TimeoutQAssumption ==
  /\ Ticks \subseteq Nat /\ AbsTicks \subseteq Nat /\ MaxTime \in Nat
  /\ NONE \notin Timeouts \cup Int

MAX_WAIT == MaxTime + 1        \* no announcement is needed

VARIABLES
  CPUs,               \* the CPUs of this machine
  now,                \* the time, in ticks of the hardware counter
  announced,          \* the driver's count of the ticks it has announced
  alarm,              \* when the driver will interrupt next
  curr_tick,
  timeout_list,
  dticks,             \* to->dticks
  announce_remaining,
  isr,                \* isr[c]: the callback sys_clock_announce() runs on c
  deadline,           \* history: the tick at which a linked timeout is to
                      \* expire
  asked,              \* history: the time before which it must not
  shared              \* history: with SMP, two timeouts have been due on the
                      \* same tick

clockVars == <<now, announced, alarm>>
listVars  == <<curr_tick, timeout_list, dticks, announce_remaining>>
vars == <<CPUs, clockVars, listVars, isr, deadline, asked, shared>>

SMP == \E c, d \in CPUs : c # d

Idle == [t |-> NONE, dt |-> 0, due |-> 0]

Init ==
  /\ CPUs \in CpuSets
  /\ now = 0 /\ announced = 0 /\ alarm = MAX_WAIT
  /\ curr_tick = 0
  /\ timeout_list = <<>>
  /\ dticks = [t \in Timeouts |-> 0]
  /\ announce_remaining = 0
  /\ isr = [c \in CPUs |-> Idle]
  /\ deadline = [t \in Timeouts |-> 0]
  /\ asked = [t \in Timeouts |-> 0]
  /\ shared = FALSE

(***************************************************************************)
(* The timer driver                                                        *)
(***************************************************************************)
sys_clock_elapsed == now - announced

Tick ==
  /\ now < MaxTime
  /\ now' = now + 1
  /\ UNCHANGED <<CPUs, announced, alarm, listVars, isr, deadline, asked, shared>>

(***************************************************************************)
(* The list                                                                *)
(***************************************************************************)
Linked(t) == IsIn(timeout_list, t)

elapsed == IF announce_remaining = 0 THEN sys_clock_elapsed ELSE 0

\* next_timeout() for a list l with deltas d, e ticks having elapsed: when
\* the driver is asked to interrupt.
NextAlarm(l, d, e) ==
  IF l = <<>> THEN MAX_WAIT
  ELSE now + (IF d[Head(l)] > e THEN d[Head(l)] - e ELSE 0)

\* Faulty variant: the timeout behind does not inherit the ticks.
RemovedTicksLost(t) == dticks

\* remove_timeout(): the next timeout inherits the ticks.
RemovedTicks(t) ==
  LET k == Position(timeout_list, t) IN
  IF k = Len(timeout_list) THEN dticks
  ELSE [dticks EXCEPT ![timeout_list[k + 1]] = @ + dticks[t]]

\* The sum of the deltas of the first n timeouts on the list.
Prefix(n) ==
  LET sum[k \in 0..Len(timeout_list)] ==
        IF k = 0 THEN 0 ELSE sum[k - 1] + dticks[timeout_list[k]]
  IN  sum[n]

\* Where z_add_timeout()'s loop stops: at the first timeout that expires
\* after the new one, d ticks from now, or at the end.
Place(d) ==
  CHOOSE k \in 1..(Len(timeout_list) + 1) :
    /\ \A j \in 1..(k - 1) : Prefix(j) <= d
    /\ k <= Len(timeout_list) => Prefix(k) > d

InsertAt(s, k, t) == SubSeq(s, 1, k - 1) \o <<t>> \o SubSeq(s, k, Len(s))

\* The delta of the new timeout t, and the timeout behind it reduced by it.
AddedTicks(t, d) ==
  LET k     == Place(d)
      delta == d - Prefix(k - 1)
      moved == [dticks EXCEPT ![t] = delta]
  IN  IF k > Len(timeout_list) THEN moved
      ELSE [moved EXCEPT ![timeout_list[k]] = @ - delta]

(***************************************************************************)
(* z_add_timeout() and z_abort_timeout()                                   *)
(***************************************************************************)
\* The history of a timeout that is no longer linked.
Forget(t) ==
  /\ deadline' = [deadline EXCEPT ![t] = 0]
  /\ asked' = [asked EXCEPT ![t] = 0]

InCallback == \E c \in CPUs : isr[c] # Idle

\* Faulty variant: the tick that has begun counts as a whole one.
RelativeTicksShort(n) == n + elapsed

RelativeTicks(n) == n + 1 + elapsed
AbsoluteTicks(n) == IF n - curr_tick > 1 THEN n - curr_tick ELSE 1

\* Faulty variant: the driver is not told of a new first timeout.
AddedAlarmOld(t, l, d) == alarm

\* The driver's alarm when t has been added to the list l with deltas d.
AddedAlarm(t, l, d) ==
  IF Head(l) = t THEN NextAlarm(l, d, elapsed) ELSE alarm

\* Some timeout on the list is due on the tick n.
DueAt(n) == \E u \in Timeouts : Linked(u) /\ deadline[u] = n

AddTimeout(t, d) ==
  LET l == InsertAt(timeout_list, Place(d), t) IN
  /\ ~Linked(t)
  /\ curr_tick + d <= MaxTime
  /\ timeout_list' = l
  /\ dticks' = AddedTicks(t, d)
  /\ alarm' = AddedAlarm(t, l, dticks')
  /\ deadline' = [deadline EXCEPT ![t] = curr_tick + d]
  /\ shared' = (shared \/ (SMP /\ DueAt(curr_tick + d)))
  /\ UNCHANGED <<CPUs, now, announced, curr_tick, announce_remaining, isr>>

\* sys_clock_tick_get(): the time the kernel tells.
uptime == curr_tick + elapsed

\* By threads, interrupts and callbacks, also while another callback runs.
\* n ticks have passed at the tick uptime + n + 1: the one in progress may
\* just have ended.
Add(t, n) ==
  /\ AddTimeout(t, RelativeTicks(n))
  /\ asked' = [asked EXCEPT ![t] = uptime + n + 1]

AddAbsolute(t, n) ==
  /\ AddTimeout(t, AbsoluteTicks(n))
  /\ asked' = [asked EXCEPT ![t] = n]

Abort(t) ==
  /\ Linked(t)
  /\ dticks' = RemovedTicks(t)
  /\ timeout_list' = RemoveItem(timeout_list, t)
  /\ Forget(t)
  /\ UNCHANGED <<CPUs, clockVars, curr_tick, announce_remaining, isr, shared>>

(***************************************************************************)
(* What z_timeout_remaining() reports for an active timeout                *)
(***************************************************************************)
\* Faulty variant: the elapsed ticks are not subtracted.
TimeoutRemAll(t) == Prefix(Position(timeout_list, t))

timeout_rem(t) == Prefix(Position(timeout_list, t)) - elapsed

(***************************************************************************)
(* sys_clock_announce()                                                    *)
(***************************************************************************)
\* curr_tick at the end of an announcement with rem ticks left.
FinalTick(rem) == curr_tick + rem

\* The head of the loop with rem ticks left: run the callback of the first
\* timeout if it is due, or finish the announcement.
Loop(c, rem) ==
  LET t == Head(timeout_list) IN
  \/ /\ timeout_list # <<>>
     /\ dticks[t] <= rem
     /\ curr_tick' = curr_tick + dticks[t]
     /\ timeout_list' = Tail(timeout_list)
     /\ dticks' = [dticks EXCEPT ![t] = 0]
     /\ announce_remaining' = rem
     /\ isr' = [isr EXCEPT ![c] = [t |-> t, dt |-> dticks[t], due |-> deadline[t]]]
     /\ Forget(t)
     /\ UNCHANGED alarm
  \/ /\ timeout_list # <<>> => dticks[t] > rem
     /\ dticks' = IF timeout_list = <<>> THEN dticks ELSE [dticks EXCEPT ![t] = @ - rem]
     /\ curr_tick' = FinalTick(rem)
     /\ announce_remaining' = 0
     /\ isr' = [isr EXCEPT ![c] = Idle]
     /\ alarm' = NextAlarm(timeout_list, dticks', now - announced')
     /\ UNCHANGED <<timeout_list, deadline, asked>>

\* Faulty variant: a second CPU starts a loop of its own.
LeavesToOtherNever == FALSE

\* sys_clock_announce() returns early: another CPU is in the loop.
LeavesToOther == SMP /\ announce_remaining # 0

\* The driver's interrupt on CPU c announces the ticks since the last one.
\* If another CPU is in the loop the ticks are left to it.
Announce(c) ==
  /\ isr[c] = Idle
  /\ announced' = now
  /\ \/ /\ LeavesToOther
        /\ announce_remaining' = announce_remaining + sys_clock_elapsed
        /\ UNCHANGED <<alarm, curr_tick, timeout_list, dticks, isr, deadline, asked>>
     \/ /\ ~LeavesToOther
        /\ Loop(c, sys_clock_elapsed)
  /\ UNCHANGED <<CPUs, now, shared>>

\* A callback returns to the loop.
Return(c) ==
  /\ isr[c] # Idle
  /\ UNCHANGED <<CPUs, now, announced, shared>>
  /\ Loop(c, announce_remaining - isr[c].dt)

Next ==
  \/ Tick
  \/ \E t \in Timeouts :
       \/ \E n \in Ticks : Add(t, n)
       \/ \E n \in AbsTicks : AddAbsolute(t, n)
       \/ Abort(t)
  \/ \E c \in CPUs : Announce(c) \/ Return(c)

Spec == Init /\ [][Next]_vars

\* Time passes, the timer interrupts when it was asked to, and callbacks
\* return.
FairSpec ==
  /\ Spec
  /\ WF_vars(Tick)
  /\ \A c \in UNION CpuSets :
       /\ WF_vars(c \in CPUs /\ now >= alarm /\ Announce(c))
       /\ WF_vars(c \in CPUs /\ Return(c))

(***************************************************************************)
(* Properties                                                              *)
(***************************************************************************)
\* The variables have the types of their declarations; a linked timeout has
\* no negative delta, and no timeout is linked twice.
TypeOK ==
  /\ CPUs \in CpuSets
  /\ now \in 0..MaxTime /\ announced \in 0..MaxTime /\ alarm \in Nat
  /\ curr_tick \in Int /\ announce_remaining \in Int
  /\ timeout_list \in Seq(Timeouts)
  /\ \A t \in Timeouts : Once(timeout_list, t)
  /\ dticks \in [Timeouts -> Nat]

\* The deltas add up: whatever was added, aborted and announced before, the
\* ticks in front of a timeout and its own lead from curr_tick to the tick
\* at which it was to expire.
DeadlineKept ==
  \A k \in 1..Len(timeout_list) :
    curr_tick + Prefix(k) = deadline[timeout_list[k]]

\* The time z_timeout_remaining() reports for an active timeout leads to its
\* deadline from the uptime at the same moment.
RemainingLeadsToDeadline ==
  \A t \in Timeouts : Linked(t) => uptime + timeout_rem(t) = deadline[t]

\* The queue's invariant: the deltas and the remaining times agree with the
\* deadlines, also when several CPUs are in the loop of sys_clock_announce().
TimeoutInv == TypeOK /\ DeadlineKept /\ RemainingLeadsToDeadline

\* When no announcement is being processed, the driver will interrupt in
\* time for the first timeout; at once if its deadline, an absolute one, was
\* in the past when it was added.
AlarmCoversFirst ==
  ~InCallback /\ timeout_list # <<>> =>
    alarm <= now \/ alarm <= deadline[Head(timeout_list)]

\* When no announcement is being processed, the uptime is the time.
UptimeIsTime == ~InCallback => uptime = now

\* Callbacks run one at a time: no two CPUs are in the loop of
\* sys_clock_announce(), as the comment at its head has it.
AnnounceSequential ==
  \A c, d \in CPUs : isr[c] # Idle /\ isr[d] # Idle => c = d

\* Between announcements the clock is right and the driver's alarm is set.
\* As long as no two timeouts have been due on the same tick of an SMP
\* system, one CPU at a time is in the loop and the clock is never ahead of
\* the time; once two have, AnnounceSequential fails (run timeout_smp).
ClockInv ==
  /\ AlarmCoversFirst
  /\ UptimeIsTime
  /\ ~shared => AnnounceSequential /\ uptime <= now

\* A callback does not run before the time its timeout was asked for, n
\* ticks after the uptime at the call or at the absolute time n, wherever the
\* call was made, an announcement under way included; on SMP as long as no
\* two timeouts have been due on the same tick.
NotEarly ==
  [][\A c \in CPUs :
       ~shared /\ isr'[c] # Idle /\ isr'[c] # isr[c] => now >= asked[isr'[c].t]]_vars

\* A timeout expires, or is aborted.
TimeoutExpires == \A t \in Timeouts : Linked(t) ~> ~Linked(t)

\* The deadlines TimeoutPromise speaks of.
DueOf == [t \in Timeouts |-> IF Linked(t) THEN deadline[t] ELSE NONE]

Promise == INSTANCE TimeoutPromise WITH clock <- curr_tick, due <- DueOf

\* The queue implements TimeoutPromise: deadlines in order, the clock never
\* backwards and never past a timeout that has not expired; on SMP up to the
\* moment when two timeouts are due on the same tick.
ImplementsPromise ==
  Promise!Init /\ [][shared \/ Promise!Next]_<<curr_tick, DueOf>>
=============================================================================
