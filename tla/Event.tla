------------------------------- MODULE Event -------------------------------
(***************************************************************************)
(* Event objects (kernel/events.c): a set of events, and threads that wait *)
(* until any or all of the events they name are in it.                     *)
(***************************************************************************)
EXTENDS Blocking

CONSTANTS
  Bits,   \* the events an object may hold
  Waits   \* what threads wait for, records of the events and of whether all

ASSUME EventAssumption ==
  /\ Waits \subseteq [events : (SUBSET Bits) \ {{}}, all : BOOLEAN]
  /\ \A events \in SUBSET Bits : events # NONE

Event == [kind |-> "event", events |-> {}]

\* are_wait_conditions_met() for the wait w.
are_wait_conditions_met(w, current) ==
  IF w.all THEN w.events \subseteq current ELSE current \cap w.events # {}

\* k_event_post_internal(): post, set, set_masked and clear differ in events
\* and mask.
EventPost(events, mask) ==
  LET now == (obj.events \ mask) \cup (events \cap mask)
      S   == {t \in Threads : IsIn(Waiters, t) /\ are_wait_conditions_met(call[t].arg, now)}
  IN
  /\ obj' = [obj EXCEPT !.events = now]
  /\ Serve(S, "0", [t \in S |-> now])
  /\ UNCHANGED call

\* k_event_wait_internal(); with reset the events are cleared first.
EventWait(t, w, reset, timed) ==
  LET now == IF reset THEN {} ELSE obj.events IN
  /\ obj' = [obj EXCEPT !.events = now]
  /\ \/ /\ are_wait_conditions_met(w, now)
        /\ Running(t)
        /\ UNCHANGED <<schedVars, call, swap_data>>
     \/ /\ ~are_wait_conditions_met(w, now)
        /\ Wait(t, "wait", w, timed)

EventNext ==
  /\ obj.kind = "event"
  /\ \/ \E events, mask \in SUBSET Bits : EventPost(events, mask)
     \/ \E t \in Threads, w \in Waits, reset, timed \in BOOLEAN : EventWait(t, w, reset, timed)

(***************************************************************************)
(* Properties                                                              *)
(***************************************************************************)
\* A thread waits only while its condition is not met, and one that was
\* woken by a post has been given events that meet it.
EventInv ==
  obj.kind = "event" =>
    \A t \in Threads :
      /\ IsIn(Waiters, t) => ~are_wait_conditions_met(call[t].arg, obj.events)
      /\ call[t] # NONE /\ swap_data[t] # NONE =>
           are_wait_conditions_met(call[t].arg, swap_data[t])
=============================================================================
