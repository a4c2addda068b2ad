------------------------------- MODULE Onoff -------------------------------
(***************************************************************************)
(* The on-off manager (lib/os/onoff.c): a service that is turned on for    *)
(* its first client and off after its last, by transitions that complete   *)
(* in any context.  Every section that holds mgr->lock is one or two       *)
(* steps; in between process_event() notifies monitors and clients and     *)
(* initiates transitions, and anything may call the manager again.         *)
(***************************************************************************)
EXTENDS Integers, Sequences, FiniteSets, Lists

CONSTANTS
  Clients,          \* struct onoff_client objects
  Monitors,         \* struct onoff_monitor objects
  NONE,
  SERVICE_REFS_MAX,
  CONFIG_ASSERT     \* whether assertions are compiled in (the default is not)

\* The check against overflow in onoff_request() does not count the clients
\* on the list; there must not be more of them than the counter can hold.
ASSUME OnoffAssumption ==
  /\ IsFiniteSet(Clients) /\ SERVICE_REFS_MAX \in Nat
  /\ Cardinality(Clients) <= SERVICE_REFS_MAX
  /\ NONE \notin Monitors
  /\ NONE \notin {"TO_ON", "TO_OFF", "RESETTING", "OFF", "ON", "ERROR", "head"}
  /\ CONFIG_ASSERT \in BOOLEAN

VARIABLES
  state,       \* mgr->flags & ONOFF_STATE_MASK
  deferred,    \* the flags COMPLETE and RECHECK
  clients, refs, monitors, last_res,
  pc,          \* where process_event() is; it holds the lock at "run"
  evt, transit, res,   \* its local variables
  out,         \* the list of clients it notifies
  mon,         \* the monitor it notifies next, "head" before it has read the list
  driver,      \* the transition the service is executing
  call,        \* where each client's operation is
  kind         \* which operation it is

mgrVars == <<state, deferred, clients, refs, monitors, last_res>>
procVars == <<pc, evt, transit, res, out, mon>>
userVars == <<driver, call, kind>>
vars == <<mgrVars, procVars, userVars>>

Transitions == {"TO_ON", "TO_OFF", "RESETTING"}

Init ==
  /\ state = "OFF" /\ deferred = {}
  /\ clients = <<>> /\ refs = 0 /\ monitors = <<>> /\ last_res = 0
  /\ pc = "idle" /\ evt = "NOP" /\ transit = NONE /\ res = 0
  /\ out = <<>> /\ mon = NONE
  /\ driver = NONE
  /\ call = [c \in Clients |-> "free"]
  /\ kind = [c \in Clients |-> "request"]

(***************************************************************************)
(* process_event()                                                         *)
(***************************************************************************)
Unlocked == pc # "run"
PROCESSING == pc \notin {"idle", "run"}

\* Faulty variant: an event that comes during the processing is dropped.
ProcessEventDropped(e) ==
  /\ deferred' = IF PROCESSING /\ e = "COMPLETE" THEN deferred \cup {e} ELSE deferred
  /\ pc' = IF PROCESSING THEN pc ELSE "run"
  /\ evt' = IF PROCESSING THEN evt ELSE e

\* Called with the lock held: a nested call leaves the event to the
\* invocation that is processing.
ProcessEvent(e) ==
  /\ deferred' = IF PROCESSING THEN deferred \cup {e} ELSE deferred
  /\ pc' = IF PROCESSING THEN pc ELSE "run"
  /\ evt' = IF PROCESSING THEN evt ELSE e

\* Faulty variant: a service in the error state is not reset.
process_recheckNoReset(st, r, cl) ==
  CASE st = "OFF" /\ cl # <<>> -> "START"
    [] st = "ON" /\ r = 0      -> "STOP"
    [] OTHER                   -> "NOP"

process_recheck(st, r, cl) ==
  CASE st = "OFF" /\ cl # <<>>   -> "START"
    [] st = "ON" /\ r = 0        -> "STOP"
    [] st = "ERROR" /\ cl # <<>> -> "RESET"
    [] OTHER                     -> "NOP"

\* The next place of the unlocked part: monitors, then clients, then the
\* transition, then the lock again.
After(m, o, t) ==
  IF m # NONE THEN "monitors"
  ELSE IF o # <<>> THEN "clients"
  ELSE IF t # NONE THEN "transit"
  ELSE "relock"

\* The deferred events; completion takes priority over recheck.
TakeDeferred(d) ==
  /\ evt' = IF "COMPLETE" \in d THEN "COMPLETE"
            ELSE IF "RECHECK" \in d THEN "RECHECK" ELSE "NOP"
  /\ deferred' = d \ {evt'}
  /\ pc' = IF d = {} THEN "idle" ELSE "run"

\* Faulty variant: clients that joined during the transition are not counted.
CompletedRefsOne == IF clients = <<>> THEN refs ELSE refs + 1

CompletedRefs == refs + Len(clients)

\* The monitors are told when the state has changed; their list is read
\* after the unlock.
FirstMonitor(st) == IF st # state /\ monitors # <<>> THEN "head" ELSE NONE

\* The end of an iteration: unlock for the monitors of a new state, the
\* clients o and the transition t, or go on with deferred events.
Unlock(st, o, t, d) ==
  LET m == FirstMonitor(st) IN
  /\ mon' = m /\ out' = o /\ transit' = t
  /\ call' = [c \in Clients |-> IF IsIn(o, c) THEN "out" ELSE call[c]]
  /\ IF After(m, o, t) = "relock"
     THEN TakeDeferred(d)
     ELSE deferred' = d /\ evt' = "NOP" /\ pc' = After(m, o, t)

\* process_complete() and the end of the iteration.
Complete ==
  LET failed == last_res < 0
      st == IF failed THEN "ERROR" ELSE IF state = "TO_ON" THEN "ON" ELSE "OFF"
      o  == IF failed \/ state # "TO_OFF" THEN clients ELSE <<>>
      cl == IF failed \/ state # "TO_OFF" THEN <<>> ELSE clients
      r  == IF st = "ON" THEN CompletedRefs ELSE refs
  IN
  /\ pc = "run" /\ evt = "COMPLETE"
  /\ state' = st /\ clients' = cl /\ refs' = r /\ res' = last_res
  /\ Unlock(st, o, NONE,
            IF ~failed /\ process_recheck(st, r, cl) # "NOP"
            THEN deferred \cup {"RECHECK"} ELSE deferred)
  /\ UNCHANGED <<monitors, last_res, driver, kind>>

\* Faulty variant: the service is started for clients even while it is on.
RecheckedAgain == IF state = "ON" /\ refs > 0 THEN "START" ELSE process_recheck(state, refs, clients)

Rechecked == process_recheck(state, refs, clients)

\* A recheck: begin a transition, or leave process_event().
Recheck ==
  LET e  == Rechecked
      st == CASE e = "START" -> "TO_ON" [] e = "STOP" -> "TO_OFF" [] OTHER -> "RESETTING"
  IN
  /\ pc = "run" /\ evt = "RECHECK"
  /\ IF e = "NOP"
     THEN pc' = "idle" /\ evt' = "NOP"
          /\ UNCHANGED <<state, res, deferred, out, mon, transit, call>>
     ELSE state' = st /\ res' = 0 /\ Unlock(st, <<>>, st, deferred)
  /\ UNCHANGED <<clients, refs, monitors, last_res, driver, kind>>

\* The monitor behind m on the list; an unlinked one has none.
NextMonitor(m) ==
  IF IsIn(monitors, m) /\ Position(monitors, m) < Len(monitors)
  THEN monitors[Position(monitors, m) + 1] ELSE NONE

\* A callback; the one behind on the list is read before it runs.
NotifyMonitor ==
  LET m == IF mon # "head" THEN mon
           ELSE IF monitors = <<>> THEN NONE ELSE Head(monitors)
  IN
  /\ pc = "monitors"
  /\ mon' = NextMonitor(m)
  /\ pc' = After(mon', out, transit)
  /\ UNCHANGED <<mgrVars, evt, transit, res, out, driver, call, kind>>

\* A client of a request that succeeded uses the service from now on.
Outcome(c, r) == IF r >= 0 /\ kind[c] = "request" THEN "holds" ELSE "free"

NotifyClient ==
  /\ pc = "clients"
  /\ call' = [call EXCEPT ![Head(out)] = Outcome(Head(out), res)]
  /\ out' = Tail(out)
  /\ pc' = After(NONE, out', transit)
  /\ UNCHANGED <<mgrVars, evt, transit, res, mon, driver, kind>>

\* transit(mgr, transition_complete): the service begins the transition.
Transit ==
  /\ pc = "transit"
  /\ driver' = transit /\ transit' = NONE /\ pc' = "relock"
  /\ UNCHANGED <<mgrVars, evt, res, out, mon, call, kind>>

Relock ==
  /\ pc = "relock"
  /\ TakeDeferred(deferred)
  /\ UNCHANGED <<state, clients, refs, monitors, last_res, transit, res, out, mon, userVars>>

\* transition_complete(), within the call of the transition function, or
\* later in any context.
TransitionComplete(r) ==
  /\ Unlocked /\ driver # NONE
  /\ driver' = NONE /\ last_res' = r
  /\ ProcessEvent("COMPLETE")
  /\ UNCHANGED <<state, clients, refs, monitors, transit, res, out, mon, call, kind>>

(***************************************************************************)
(* The calls of clients                                                    *)
(***************************************************************************)
\* Join the list, and have the state rechecked if it is st.
Join(c, k, st) ==
  /\ clients' = Append(clients, c)
  /\ call' = [call EXCEPT ![c] = "wait"]
  /\ kind' = [kind EXCEPT ![c] = k]
  /\ IF state = st THEN ProcessEvent("RECHECK") ELSE UNCHANGED <<deferred, pc, evt>>

\* onoff_request(); one that is refused changes nothing.
Request(c) ==
  /\ Unlocked /\ call[c] = "free"
  /\ refs # SERVICE_REFS_MAX
  /\ \/ /\ state = "ON"
        /\ refs' = refs + 1
        /\ call' = [call EXCEPT ![c] = "direct"]
        /\ kind' = [kind EXCEPT ![c] = "request"]
        /\ UNCHANGED <<clients, deferred, pc, evt>>
     \/ /\ state \in {"OFF", "TO_OFF", "TO_ON"}
        /\ Join(c, "request", "OFF")
        /\ UNCHANGED refs
  /\ UNCHANGED <<state, monitors, last_res, transit, res, out, mon, driver>>

\* The notification at the end of onoff_request(), after the unlock.
NotifyOne(c) ==
  /\ call[c] = "direct"
  /\ call' = [call EXCEPT ![c] = "holds"]
  /\ UNCHANGED <<mgrVars, procVars, driver, kind>>

\* onoff_release() but for who calls it.
ReleaseLocked ==
  /\ Unlocked
  /\ IF state = "ON"
     THEN /\ refs' = refs - 1
          /\ IF refs' = 0 THEN ProcessEvent("RECHECK") ELSE UNCHANGED <<deferred, pc, evt>>
     ELSE UNCHANGED <<refs, deferred, pc, evt>>
  /\ UNCHANGED <<state, clients, monitors, last_res, transit, res, out, mon, driver, kind>>

Release(c) ==
  /\ call[c] = "holds"
  /\ ReleaseLocked
  /\ call' = [call EXCEPT ![c] = "free"]

Reset(c) ==
  /\ Unlocked /\ call[c] = "free"
  /\ state \in {"ERROR", "RESETTING"}
  /\ Join(c, "reset", "ERROR")
  /\ UNCHANGED <<state, refs, monitors, last_res, transit, res, out, mon, driver>>

\* onoff_cancel(); of a client that is not on the list it changes nothing.
\* It asserts that a client is on the list in a transition only.  While
\* process_event() has let go of the lock in OFF or ERROR a client may join
\* all the same: with assertions its cancellation stops the system.
Cancel(c) ==
  /\ Unlocked /\ IsIn(clients, c)
  /\ CONFIG_ASSERT => state \in Transitions
  /\ clients' = RemoveItem(clients, c)
  /\ call' = [call EXCEPT ![c] = "free"]
  /\ UNCHANGED <<state, deferred, refs, monitors, last_res, procVars, driver, kind>>

MonitorRegister(m) ==
  /\ Unlocked /\ ~IsIn(monitors, m)
  /\ monitors' = Append(monitors, m)
  /\ UNCHANGED <<state, deferred, clients, refs, last_res, procVars, driver, call, kind>>

MonitorUnregister(m) ==
  /\ Unlocked /\ IsIn(monitors, m)
  /\ monitors' = RemoveItem(monitors, m)
  /\ UNCHANGED <<state, deferred, clients, refs, last_res, procVars, userVars>>

Loop == Complete \/ Recheck \/ NotifyMonitor \/ NotifyClient \/ Transit \/ Relock

Next ==
  \/ Loop
  \/ \E r \in {0, -1} : TransitionComplete(r)
  \/ \E c \in Clients : Request(c) \/ NotifyOne(c) \/ Release(c) \/ Reset(c) \/ Cancel(c)
  \/ \E m \in Monitors : MonitorRegister(m) \/ MonitorUnregister(m)

Spec == Init /\ [][Next]_vars

\* Callbacks return, transitions complete, and the lock is released.
FairSpec ==
  /\ Spec
  /\ WF_vars(Loop)
  /\ WF_vars(\E r \in {0, -1} : TransitionComplete(r))
  /\ \A c \in Clients : WF_vars(NotifyOne(c))

(***************************************************************************)
(* Properties                                                              *)
(***************************************************************************)
TypeOK ==
  /\ state \in {"OFF", "ON", "ERROR"} \cup Transitions
  /\ deferred \subseteq {"COMPLETE", "RECHECK"}
  /\ clients \in Seq(Clients) /\ out \in Seq(Clients)
  /\ refs \in 0..SERVICE_REFS_MAX
  /\ monitors \in Seq(Monitors) /\ mon \in Monitors \cup {NONE, "head"}
  /\ last_res \in {0, -1} /\ res \in {0, -1}
  /\ pc \in {"idle", "run", "monitors", "clients", "transit", "relock"}
  /\ evt \in {"NOP", "COMPLETE", "RECHECK"}
  /\ transit \in Transitions \cup {NONE} /\ driver \in Transitions \cup {NONE}
  /\ call \in [Clients -> {"free", "wait", "out", "direct", "holds"}]
  /\ kind \in [Clients -> {"request", "reset"}]

\* A client's node is on the list it waits on or is notified from, once.
ClientsListed ==
  \A c \in Clients :
    /\ IsIn(clients, c) <=> call[c] = "wait"
    /\ IsIn(out, c) <=> call[c] = "out"
    /\ Once(clients, c) /\ Once(out, c)

\* The references are those of the clients that have the service or are
\* about to be told so, and there are none unless the service is on.
Counted == {c \in Clients :
              call[c] \in {"direct", "holds"} \/
              (call[c] = "out" /\ Outcome(c, res) = "holds")}
RefsCounted ==
  /\ refs = Cardinality(Counted)
  /\ refs > 0 => state = "ON"

\* In a transition state exactly one transition is about to begin, under way
\* or about to be completed, and it is the one of that state; in a stable
\* state there is none.  Transitions never overlap.
TransitionsApart ==
  LET completing == "COMPLETE" \in deferred \/ evt = "COMPLETE" IN
  /\ transit # NONE => transit = state /\ driver = NONE /\ ~completing
  /\ driver # NONE => driver = state /\ ~completing
  /\ state \in Transitions <=> transit # NONE \/ driver # NONE \/ completing

\* Requests wait for the service to be turned on, resets for it to be reset.
\* In OFF and ERROR they are listed while a recheck is due only
\* (NothingForgotten).
ListsOfOneKind ==
  \A c \in Clients :
    call[c] = "wait" =>
      IF kind[c] = "request" THEN state \in {"OFF", "TO_OFF", "TO_ON"}
                             ELSE state \in {"ERROR", "RESETTING"}

\* A state in which a transition is due is being processed: no request,
\* release or reset that was deferred is forgotten.
NothingForgotten ==
  process_recheck(state, refs, clients) # "NOP" =>
    "RECHECK" \in deferred \/ evt = "RECHECK"

\* process_event() is where the work it has left says it is; when it returns
\* nothing is deferred, and it takes an event only if no more urgent one is.
LoopPlaced ==
  /\ evt # "NOP" <=> pc = "run"
  /\ IF PROCESSING THEN pc = After(mon, out, transit)
                   ELSE mon = NONE /\ out = <<>> /\ transit = NONE
  /\ pc = "idle" \/ evt = "RECHECK" => deferred = {}
  /\ evt = "COMPLETE" => "COMPLETE" \notin deferred

\* The invariant of the manager, whatever calls, callbacks and completions
\* interleave.
OnoffInv ==
  /\ TypeOK
  /\ LoopPlaced
  /\ ClientsListed
  /\ RefsCounted
  /\ TransitionsApart
  /\ ListsOfOneKind
  /\ NothingForgotten

\* The service is on for as long as a client that was told so has not
\* released it (resource_management/index.rst: "The service transitions from
\* on to off when last client release is received").
OnWhileHeld == \A c \in Clients : call[c] = "holds" => state = "ON"

\* Between the invocations of process_event() a client is on the list in a
\* transition only.  onoff_cancel() asserts it at any time (onoff.c:557),
\* which is more than holds: in OFF and ERROR a client that joined while
\* process_event() is unlocked is listed until the recheck.
WaitsInTransition ==
  pc = "idle" => \A c \in Clients : IsIn(clients, c) => state \in Transitions

\* Every request and reset ends in a notification or a cancellation, and a
\* service that nobody holds is turned off or requested again.
EventsNotLost ==
  /\ \A c \in Clients :
       call[c] \in {"wait", "out", "direct"} ~> call[c] \in {"free", "holds"}
  /\ (state = "ON" /\ refs = 0) ~> (state # "ON" \/ refs > 0)
=============================================================================
