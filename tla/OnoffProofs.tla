---------------------------- MODULE OnoffProofs ----------------------------
(***************************************************************************)
(* Theorems about the on-off manager, for every number of clients and      *)
(* monitors and any interleaving of calls, callbacks and completions.      *)
(***************************************************************************)
EXTENDS Onoff, ListFacts, FiniteSetTheorems

(***************************************************************************)
(* Counting clients                                                        *)
(***************************************************************************)
\* A list on which nobody is twice is as long as the set of its members.
LEMMA LengthCounts ==
  ASSUME NEW S, NEW s \in Seq(S), \A x \in S : Once(s, x)
  PROVE  Cardinality({x \in S : IsIn(s, x)}) = Len(s)
<1> DEFINE T == {x \in S : IsIn(s, x)}
<1>1. Len(s) \in Nat /\ DOMAIN s = 1..Len(s) /\ \A i \in 1..Len(s) : s[i] \in S
  BY LenProperties, ElementOfSeq
<1>2. s \in [1..Len(s) -> T]
  <2>1. \A i \in 1..Len(s) : s[i] \in T
    BY <1>1 DEF IsIn
  <2>2. s = [i \in 1..Len(s) |-> s[i]]
    BY <1>1
  <2> QED
    BY <2>1, <2>2
<1>3. \A i, j \in 1..Len(s) : s[i] = s[j] => i = j
  BY <1>1 DEF Once
<1>4. \A x \in T : \E i \in 1..Len(s) : s[i] = x
  BY <1>1 DEF IsIn
<1>5. s \in Bijection(1..Len(s), T)
  BY <1>2, <1>3, <1>4 DEF Bijection, Injection, Surjection, IsInjective
<1>6. ExistsBijection(1..Len(s), T)
  BY <1>5 DEF ExistsBijection
<1>7. IsFiniteSet(1..Len(s)) /\ Cardinality(1..Len(s)) = Len(s)
  <2> DEFINE n == Len(s)
  <2>1. n \in Int /\ 1 \in Int
    BY <1>1
  <2> HIDE DEF n
  <2>2. IsFiniteSet(1..n) /\ Cardinality(1..n) = IF 1 > n THEN 0 ELSE n - 1 + 1
    BY <2>1, FS_Interval
  <2> QED
    BY <1>1, <2>2 DEF n
<1> QED
  BY <1>6, <1>7, FS_Bijection

\* The references fit the counter: there are no more of them than clients.
LEMMA CountedFits ==
  ASSUME NEW C \in SUBSET Clients
  PROVE  /\ IsFiniteSet(C) /\ Cardinality(C) \in 0..SERVICE_REFS_MAX
         /\ Cardinality(C) = 0 <=> C = {}
<1>1. /\ IsFiniteSet(Clients) /\ SERVICE_REFS_MAX \in Nat
      /\ Cardinality(Clients) \in Nat /\ Cardinality(Clients) <= SERVICE_REFS_MAX
  BY OnoffAssumption, FS_CardinalityType
<1>2. IsFiniteSet(C) /\ Cardinality(C) <= Cardinality(Clients)
  BY <1>1, FS_Subset
<1>3. Cardinality(C) \in Nat
  BY <1>2, FS_CardinalityType
<1> QED
  BY <1>1, <1>2, <1>3, FS_EmptySet

(***************************************************************************)
(* The parts of the invariant that a step leaves alone                     *)
(***************************************************************************)
\* The lists are unchanged, and so is everybody's place.
LEMMA ListsSame ==
  ASSUME OnoffInv, UNCHANGED <<clients, out, call>>
  PROVE  ClientsListed'
BY DEF OnoffInv, ClientsListed

\* The counter and what it counts are unchanged.
LEMMA RefsSame ==
  ASSUME OnoffInv, UNCHANGED <<state, refs, call, kind, res>>
  PROVE  RefsCounted'
BY DEF OnoffInv, RefsCounted, Counted, Outcome

\* No client begins to wait, and the state is unchanged.
LEMMA KindsSame ==
  ASSUME OnoffInv, UNCHANGED <<state, kind>>,
         \A c \in Clients : call'[c] = "wait" => call[c] = "wait"
  PROVE  ListsOfOneKind'
BY DEF OnoffInv, ListsOfOneKind

\* An event is processed at once or left to the invocation that processes.
LEMMA ProcessEventPlaced ==
  ASSUME OnoffInv, Unlocked, NEW e \in {"COMPLETE", "RECHECK"}, ProcessEvent(e),
         UNCHANGED <<mon, out, transit>>
  PROVE  /\ LoopPlaced'
         /\ evt' \in {"NOP", e} /\ evt = "NOP" /\ deferred' \in {deferred, deferred \cup {e}}
         /\ e \in deferred' \/ evt' = e
         /\ pc' \in {pc, "run"}
<1>1. CASE PROCESSING
  BY <1>1 DEF OnoffInv, TypeOK, LoopPlaced, ProcessEvent, PROCESSING, Unlocked, After
<1>2. CASE ~PROCESSING
  BY <1>2 DEF OnoffInv, TypeOK, LoopPlaced, ProcessEvent, PROCESSING, Unlocked, After
<1> QED
  BY <1>1, <1>2

\* The deferred events are taken in order of urgency.
LEMMA TakeDeferredPlaced ==
  ASSUME NEW d \in SUBSET {"COMPLETE", "RECHECK"}, TakeDeferred(d),
         mon' = NONE, out' = <<>>, transit' = NONE
  PROVE  /\ LoopPlaced'
         /\ evt' \in {"NOP", "COMPLETE", "RECHECK"} /\ deferred' \subseteq d
         /\ pc' \in {"idle", "run"}
         /\ \A e \in {"COMPLETE", "RECHECK"} : e \in d <=> e \in deferred' \/ evt' = e
<1>1. CASE "COMPLETE" \in d
  BY <1>1 DEF TakeDeferred, LoopPlaced, PROCESSING
<1>2. CASE "COMPLETE" \notin d /\ "RECHECK" \in d
  BY <1>2 DEF TakeDeferred, LoopPlaced, PROCESSING
<1>3. CASE d = {}
  BY <1>3 DEF TakeDeferred, LoopPlaced, PROCESSING
<1> QED
  BY <1>1, <1>2, <1>3

(***************************************************************************)
(* One lemma per action                                                    *)
(***************************************************************************)
\* NONE is told apart from the names of states.
LEMMA NoneApart ==
  /\ NONE \notin Monitors
  /\ \A t \in {"OFF", "ON", "ERROR"} \cup Transitions : t # NONE
BY OnoffAssumption DEF Transitions

\* The service is off at first, and nobody has called.
LEMMA InitInv == Init => OnoffInv
<1> SUFFICES ASSUME Init PROVE OnoffInv
  OBVIOUS
<1>1. TypeOK
  BY OnoffAssumption DEF Init, TypeOK
<1>2. LoopPlaced
  BY DEF Init, LoopPlaced, PROCESSING
<1>3. ClientsListed
  BY DEF Init, ClientsListed, IsIn, Once
<1>4. RefsCounted
  <2>1. Counted = {}
    BY DEF Init, Counted
  <2> QED
    BY <2>1, FS_EmptySet DEF Init, RefsCounted
<1>5. TransitionsApart /\ ListsOfOneKind
  BY DEF Init, TransitionsApart, ListsOfOneKind, Transitions
<1>6. NothingForgotten
  BY DEF Init, NothingForgotten, process_recheck
<1> QED
  BY <1>1, <1>2, <1>3, <1>4, <1>5, <1>6 DEF OnoffInv

\* A monitor's callback changes only where process_event() is.
LEMMA NotifyMonitorInv ==
  ASSUME OnoffInv, NotifyMonitor
  PROVE  OnoffInv'
<1>0. TypeOK /\ LoopPlaced /\ pc = "monitors"
  BY DEF OnoffInv, NotifyMonitor
<1>1. mon' \in Monitors \cup {NONE}
  <2>1. ASSUME NEW m PROVE NextMonitor(m) \in Monitors \cup {NONE}
    <3>1. CASE IsIn(monitors, m) /\ Position(monitors, m) < Len(monitors)
      <4>1. monitors \in Seq(Monitors) /\ Position(monitors, m) \in DOMAIN monitors
        BY <1>0, <3>1 DEF TypeOK, IsIn, Position
      <4>2. Position(monitors, m) + 1 \in 1..Len(monitors)
        BY <3>1, <4>1
      <4> QED
        BY <3>1, <4>1, <4>2, ElementOfSeq DEF NextMonitor
    <3>2. CASE ~(IsIn(monitors, m) /\ Position(monitors, m) < Len(monitors))
      BY <3>2 DEF NextMonitor
    <3> QED
      BY <3>1, <3>2
  <2>2. \E m : mon' = NextMonitor(m)
    BY DEF NotifyMonitor
  <2> QED
    BY <2>1, <2>2
<1>2. TypeOK'
  BY <1>0, <1>1 DEF NotifyMonitor, TypeOK, mgrVars, After
<1>3. LoopPlaced'
  BY <1>0 DEF NotifyMonitor, LoopPlaced, mgrVars, PROCESSING, After
<1>4. ClientsListed' /\ RefsCounted'
  BY ListsSame, RefsSame DEF NotifyMonitor, mgrVars
<1>5. TransitionsApart' /\ ListsOfOneKind' /\ NothingForgotten'
  BY DEF OnoffInv, NotifyMonitor, mgrVars, TransitionsApart, ListsOfOneKind, NothingForgotten
<1> QED
  BY <1>2, <1>3, <1>4, <1>5 DEF OnoffInv

\* A client that is told of success keeps the reference counted for it.
LEMMA NotifyClientInv ==
  ASSUME OnoffInv, NotifyClient
  PROVE  OnoffInv'
<1> DEFINE c == Head(out)
<1>0. TypeOK /\ LoopPlaced /\ pc = "clients" /\ mon = NONE /\ out # <<>>
  BY DEF OnoffInv, NotifyClient, LoopPlaced, PROCESSING, After
<1>1. /\ c \in Clients /\ Tail(out) \in Seq(Clients) /\ IsIn(out, c)
      /\ \A d \in Clients : Once(Tail(out), d)
      /\ \A d \in Clients : IsIn(Tail(out), d) <=> IsIn(out, d) /\ d # c
  BY <1>0, TailFacts DEF OnoffInv, TypeOK, ClientsListed
<1>2. call[c] = "out" /\ Outcome(c, res) \in {"holds", "free"}
  BY <1>1 DEF OnoffInv, ClientsListed, Outcome
<1>3. /\ call' = [call EXCEPT ![c] = Outcome(c, res)] /\ out' = Tail(out)
      /\ pc' = After(NONE, out', transit)
      /\ UNCHANGED <<mgrVars, evt, transit, res, mon, driver, kind>>
  BY DEF NotifyClient
<1> HIDE DEF c
<1>4. call \in [Clients -> {"free", "wait", "out", "direct", "holds"}]
  BY <1>0 DEF TypeOK
<1>5. TypeOK'
  BY <1>0, <1>1, <1>2, <1>3 DEF TypeOK, mgrVars, After
<1>6. LoopPlaced'
  BY <1>0, <1>3 DEF LoopPlaced, mgrVars, PROCESSING, After
<1>7. ClientsListed'
  BY <1>1, <1>2, <1>3, <1>4 DEF OnoffInv, ClientsListed, mgrVars
<1>8. RefsCounted'
  <2>1. Counted' = Counted
    BY <1>1, <1>2, <1>3, <1>4 DEF Counted, Outcome
  <2> QED
    BY <1>3, <2>1 DEF OnoffInv, RefsCounted, mgrVars
<1>9. TransitionsApart' /\ NothingForgotten'
  BY <1>3 DEF OnoffInv, mgrVars, TransitionsApart, NothingForgotten
<1>10. ListsOfOneKind'
  BY <1>2, <1>3, <1>4, KindsSame DEF mgrVars
<1> QED
  BY <1>5, <1>6, <1>7, <1>8, <1>9, <1>10 DEF OnoffInv

\* The service begins the transition that was due.
LEMMA TransitInv ==
  ASSUME OnoffInv, Transit
  PROVE  OnoffInv'
<1>0. TypeOK /\ LoopPlaced /\ pc = "transit" /\ mon = NONE /\ out = <<>> /\ transit # NONE
  BY DEF OnoffInv, Transit, LoopPlaced, PROCESSING, After
<1>1. TypeOK'
  BY <1>0 DEF Transit, TypeOK, mgrVars
<1>2. LoopPlaced'
  BY <1>0 DEF Transit, LoopPlaced, mgrVars, PROCESSING, After
<1>3. ClientsListed' /\ RefsCounted'
  BY ListsSame, RefsSame DEF Transit, mgrVars
<1>4. TransitionsApart'
  BY <1>0 DEF OnoffInv, Transit, mgrVars, TransitionsApart
<1>5. ListsOfOneKind' /\ NothingForgotten'
  BY DEF OnoffInv, Transit, mgrVars, ListsOfOneKind, NothingForgotten
<1> QED
  BY <1>1, <1>2, <1>3, <1>4, <1>5 DEF OnoffInv

\* The lock is taken again; what was deferred is processed now.
LEMMA RelockInv ==
  ASSUME OnoffInv, Relock
  PROVE  OnoffInv'
<1>0. TypeOK /\ LoopPlaced /\ pc = "relock" /\ mon = NONE /\ out = <<>> /\ transit = NONE
      /\ evt = "NOP" /\ deferred \in SUBSET {"COMPLETE", "RECHECK"}
  BY DEF OnoffInv, Relock, LoopPlaced, PROCESSING, After, TypeOK
<1>1. /\ LoopPlaced'
      /\ evt' \in {"NOP", "COMPLETE", "RECHECK"} /\ deferred' \subseteq deferred
      /\ pc' \in {"idle", "run"}
      /\ \A e \in {"COMPLETE", "RECHECK"} : e \in deferred <=> e \in deferred' \/ evt' = e
  BY <1>0, TakeDeferredPlaced DEF Relock
<1>2. TypeOK'
  BY <1>0, <1>1 DEF Relock, TypeOK, userVars
<1>3. ClientsListed' /\ RefsCounted'
  BY ListsSame, RefsSame DEF Relock, userVars
<1>4. TransitionsApart'
  BY <1>0, <1>1 DEF OnoffInv, Relock, userVars, TransitionsApart
<1>5. ListsOfOneKind' /\ NothingForgotten'
  BY <1>0, <1>1 DEF OnoffInv, Relock, userVars, ListsOfOneKind, NothingForgotten
<1> QED
  BY <1>1, <1>2, <1>3, <1>4, <1>5 DEF OnoffInv

\* A transition completes, in whatever context.
LEMMA TransitionCompleteInv ==
  ASSUME OnoffInv, NEW r \in {0, -1}, TransitionComplete(r)
  PROVE  OnoffInv'
<1>0. TypeOK /\ Unlocked /\ driver # NONE /\ ProcessEvent("COMPLETE")
  BY DEF OnoffInv, TransitionComplete
<1>1. /\ LoopPlaced'
      /\ evt' \in {"NOP", "COMPLETE"} /\ evt = "NOP"
      /\ deferred' \in {deferred, deferred \cup {"COMPLETE"}}
      /\ "COMPLETE" \in deferred' \/ evt' = "COMPLETE"
      /\ pc' \in {pc, "run"}
  BY <1>0, ProcessEventPlaced DEF TransitionComplete
<1>2. TypeOK'
  BY <1>0, <1>1 DEF TransitionComplete, TypeOK
<1>3. ClientsListed' /\ RefsCounted'
  BY ListsSame, RefsSame DEF TransitionComplete
<1>4. TransitionsApart'
  BY <1>0, <1>1, NoneApart DEF OnoffInv, TransitionComplete, TransitionsApart, TypeOK
<1>5. ListsOfOneKind' /\ NothingForgotten'
  BY <1>0, <1>1 DEF OnoffInv, TransitionComplete, ListsOfOneKind, NothingForgotten
<1> QED
  BY <1>1, <1>2, <1>3, <1>4, <1>5 DEF OnoffInv

\* An iteration ends: whatever it leaves to do is done unlocked, else the
\* events deferred meanwhile are taken.
LEMMA UnlockPlaced ==
  ASSUME OnoffInv, NEW st, NEW o \in Seq(Clients), NEW t \in Transitions \cup {NONE},
         NEW d \in SUBSET {"COMPLETE", "RECHECK"}, Unlock(st, o, t, d)
  PROVE  /\ LoopPlaced'
         /\ mon' \in Monitors \cup {NONE, "head"} /\ out' = o /\ transit' = t
         /\ evt' \in {"NOP", "COMPLETE", "RECHECK"} /\ deferred' \subseteq d
         /\ pc' \in {"idle", "run", "monitors", "clients", "transit", "relock"}
         /\ \A e \in {"COMPLETE", "RECHECK"} : e \in d <=> e \in deferred' \/ evt' = e
         /\ t # NONE => evt' = "NOP"
<1> DEFINE m == FirstMonitor(st)
<1>0. m \in Monitors \cup {NONE, "head"}
  BY DEF FirstMonitor
<1>1. /\ mon' = m /\ out' = o /\ transit' = t
      /\ IF After(m, o, t) = "relock"
         THEN TakeDeferred(d)
         ELSE deferred' = d /\ evt' = "NOP" /\ pc' = After(m, o, t)
  BY DEF Unlock
<1> HIDE DEF m
<1>2. CASE After(m, o, t) = "relock"
  <2>1. m = NONE /\ o = <<>> /\ t = NONE
    BY <1>2 DEF After
  <2>2. TakeDeferred(d) /\ mon' = NONE /\ out' = <<>> /\ transit' = NONE
    BY <1>1, <1>2, <2>1
  <2> QED
    BY <1>0, <1>1, <2>1, <2>2, TakeDeferredPlaced
<1>3. CASE After(m, o, t) # "relock"
  <2>1. /\ deferred' = d /\ evt' = "NOP" /\ pc' = After(m, o, t)
        /\ pc' \in {"monitors", "clients", "transit"}
    BY <1>1, <1>3 DEF After
  <2>2. LoopPlaced'
    BY <1>1, <2>1 DEF LoopPlaced, PROCESSING
  <2> QED
    BY <1>0, <1>1, <2>1, <2>2
<1> QED
  BY <1>2, <1>3

\* process_complete(): the clients that waited for the transition are
\* notified, and those of a service that is on now are counted.
LEMMA CompleteInv ==
  ASSUME OnoffInv, Complete
  PROVE  OnoffInv'
<1> DEFINE failed == last_res < 0
           st == IF failed THEN "ERROR" ELSE IF state = "TO_ON" THEN "ON" ELSE "OFF"
           o  == IF failed \/ state # "TO_OFF" THEN clients ELSE <<>>
           cl == IF failed \/ state # "TO_OFF" THEN <<>> ELSE clients
           r  == IF st = "ON" THEN CompletedRefs ELSE refs
           d  == IF ~failed /\ process_recheck(st, r, cl) # "NOP"
                 THEN deferred \cup {"RECHECK"} ELSE deferred
<1>0. /\ TypeOK /\ pc = "run" /\ evt = "COMPLETE" /\ "COMPLETE" \notin deferred
      /\ out = <<>> /\ transit = NONE
      /\ clients \in Seq(Clients) /\ deferred \in SUBSET {"COMPLETE", "RECHECK"}
  BY DEF OnoffInv, Complete, LoopPlaced, PROCESSING, TypeOK
<1>1. state \in Transitions /\ driver = NONE
  BY <1>0 DEF OnoffInv, TransitionsApart
<1>2. /\ state' = st /\ clients' = cl /\ refs' = r /\ res' = last_res
      /\ Unlock(st, o, NONE, d)
      /\ UNCHANGED <<monitors, last_res, driver, kind>>
  BY DEF Complete
<1>3. /\ st \in {"ERROR", "ON", "OFF"} /\ o \in Seq(Clients) /\ cl \in Seq(Clients)
      /\ d \in SUBSET {"COMPLETE", "RECHECK"} /\ "COMPLETE" \notin d
  BY <1>0
<1>4. call' = [c \in Clients |-> IF IsIn(o, c) THEN "out" ELSE call[c]]
  BY <1>2 DEF Unlock
<1>5. /\ LoopPlaced'
      /\ mon' \in Monitors \cup {NONE, "head"} /\ out' = o /\ transit' = NONE
      /\ evt' \in {"NOP", "COMPLETE", "RECHECK"} /\ deferred' \subseteq d
      /\ pc' \in {"idle", "run", "monitors", "clients", "transit", "relock"}
      /\ \A e \in {"COMPLETE", "RECHECK"} : e \in d <=> e \in deferred' \/ evt' = e
  <2>1. /\ o \in Seq(Clients) /\ d \in SUBSET {"COMPLETE", "RECHECK"}
        /\ Unlock(st, o, NONE, d)
    BY <1>2, <1>3
  <2> HIDE DEF st, o, d
  <2> QED
    BY <2>1, UnlockPlaced
<1>6. /\ call \in [Clients -> {"free", "wait", "out", "direct", "holds"}]
      /\ \A c \in Clients : /\ IsIn(clients, c) <=> call[c] = "wait"
                            /\ call[c] # "out" /\ Once(clients, c)
  BY <1>0 DEF OnoffInv, TypeOK, ClientsListed, IsIn
<1>7. \A c \in Clients : ~IsIn(<<>>, c) /\ Once(<<>>, c)
  BY DEF IsIn, Once
<1>71. /\ failed \/ state # "TO_OFF" => o = clients /\ cl = <<>>
       /\ ~failed /\ state = "TO_OFF" => o = <<>> /\ cl = clients
       /\ st = IF failed THEN "ERROR" ELSE IF state = "TO_ON" THEN "ON" ELSE "OFF"
       /\ r  = IF st = "ON" THEN CompletedRefs ELSE refs
       /\ d  = IF ~failed /\ process_recheck(st, r, cl) # "NOP"
               THEN deferred \cup {"RECHECK"} ELSE deferred
       /\ last_res \in {0, -1} /\ (failed <=> last_res = -1)
  BY <1>0 DEF TypeOK
<1> HIDE DEF failed, st, o, cl, r, d
<1>8. refs = 0 /\ \A c \in Clients : call[c] \notin {"direct", "holds"}
  <2>1. refs \in Nat /\ state # "ON"
    BY <1>0, <1>1, OnoffAssumption DEF TypeOK, Transitions
  <2>2. refs = 0
    BY <2>1 DEF OnoffInv, RefsCounted
  <2>3. Counted = {}
    BY <2>2, CountedFits DEF OnoffInv, RefsCounted, Counted
  <2> QED
    BY <2>2, <2>3 DEF Counted
<1>9. ClientsListed'
  <2>1. CASE failed \/ state # "TO_OFF"
    <3>1. out' = clients /\ clients' = <<>>
      BY <1>2, <1>5, <1>71, <2>1
    <3>2. \A c \in Clients : call'[c] = IF IsIn(clients, c) THEN "out" ELSE call[c]
      BY <1>4, <1>71, <2>1
    <3>3. ASSUME NEW c \in Clients
          PROVE  /\ IsIn(clients', c) <=> call'[c] = "wait"
                 /\ IsIn(out', c) <=> call'[c] = "out"
                 /\ Once(clients', c) /\ Once(out', c)
      <4>1. ~IsIn(clients', c) /\ Once(clients', c)
        BY <1>7, <3>1
      <4>2. (IsIn(out', c) <=> IsIn(clients, c)) /\ Once(out', c)
        BY <1>6, <3>1
      <4> QED
        BY <4>1, <4>2, <3>2, <1>6
    <3> QED
      BY <3>3 DEF ClientsListed
  <2>2. CASE ~(failed \/ state # "TO_OFF")
    <3>1. out' = <<>> /\ clients' = clients
      BY <1>2, <1>5, <1>71, <2>2
    <3>2. \A c \in Clients : call'[c] = call[c]
      BY <1>4, <1>7, <1>71, <2>2
    <3>3. ASSUME NEW c \in Clients
          PROVE  /\ IsIn(clients', c) <=> call'[c] = "wait"
                 /\ IsIn(out', c) <=> call'[c] = "out"
                 /\ Once(clients', c) /\ Once(out', c)
      <4>1. ~IsIn(out', c) /\ Once(out', c)
        BY <1>7, <3>1
      <4> QED
        BY <4>1, <3>1, <3>2, <1>6
    <3> QED
      BY <3>3 DEF ClientsListed
  <2> QED
    BY <2>1, <2>2
<1>10. /\ \A c \in Clients : call'[c] = "out" => call[c] = "wait" /\ IsIn(o, c)
       /\ \A c \in Clients : call'[c] \notin {"direct", "holds"}
       /\ \A c \in Clients : call'[c] = "wait" => call[c] = "wait" /\ ~IsIn(o, c)
  BY <1>4, <1>6, <1>7, <1>8, <1>71
<1>11. refs' = Cardinality(Counted')
  <2>1. CASE st = "ON"
    <3>1. state = "TO_ON" /\ ~failed /\ o = clients /\ refs' = Len(clients)
      <4>1. Len(clients) \in Nat
        BY <1>0
      <4> QED
        BY <4>1, <2>1, <1>2, <1>8, <1>71 DEF CompletedRefs
    <3>2. res' >= 0
      BY <3>1, <1>2, <1>71
    <3>3. \A c \in Clients : IsIn(clients, c) => kind'[c] = "request"
      BY <3>1, <1>2, <1>6 DEF OnoffInv, ListsOfOneKind
    <3>4. \A c \in Clients : c \in Counted' <=> IsIn(clients, c)
      BY <3>1, <3>2, <3>3, <1>4, <1>10 DEF Counted, Outcome
    <3>5. Counted' = {c \in Clients : IsIn(clients, c)}
      BY <3>4 DEF Counted
    <3> QED
      BY <3>1, <3>5, <1>0, <1>6, LengthCounts
  <2>2. CASE st # "ON"
    <3>1. ASSUME NEW c \in Clients, c \in Counted' PROVE FALSE
      <4>1. call'[c] = "out" /\ res' >= 0 /\ kind'[c] = "request"
        BY <3>1, <1>10 DEF Counted, Outcome
      <4>2. ~failed /\ call[c] = "wait" /\ kind[c] = "request" /\ IsIn(o, c)
        BY <4>1, <1>2, <1>10, <1>71
      <4>3. state \in {"OFF", "TO_OFF", "TO_ON"}
        BY <4>2 DEF OnoffInv, ListsOfOneKind
      <4>4. state = "TO_OFF"
        BY <4>2, <4>3, <1>1, <1>71, <2>2 DEF Transitions
      <4> QED
        BY <4>2, <4>4, <1>7, <1>71
    <3>2. Counted' = {}
      BY <3>1 DEF Counted
    <3> QED
      BY <2>2, <3>2, <1>2, <1>8, <1>71, FS_EmptySet
  <2> QED
    BY <2>1, <2>2
<1>12. refs' \in 0..SERVICE_REFS_MAX
  <2>1. Counted' \in SUBSET Clients
    BY DEF Counted
  <2>2. Cardinality(Counted') \in 0..SERVICE_REFS_MAX
    BY <2>1, CountedFits
  <2> QED
    BY <2>2, <1>11
<1>13. RefsCounted'
  <2>1. refs' > 0 => state' = "ON"
    BY <1>2, <1>8, <1>71
  <2> QED
    BY <2>1, <1>11 DEF RefsCounted
<1>14. TypeOK'
  <2>1. call' \in [Clients -> {"free", "wait", "out", "direct", "holds"}]
    BY <1>4, <1>6
  <2> QED
    BY <2>1, <1>0, <1>2, <1>3, <1>5, <1>12 DEF TypeOK
<1>15. TransitionsApart'
  BY <1>1, <1>2, <1>3, <1>5 DEF TransitionsApart, Transitions
<1>16. ListsOfOneKind'
  <2> SUFFICES ASSUME NEW c \in Clients, call'[c] = "wait"
               PROVE  state' = "OFF" /\ kind'[c] = "request"
    BY DEF ListsOfOneKind
  <2>1. call[c] = "wait" /\ ~failed /\ state = "TO_OFF"
    BY <1>6, <1>10, <1>71
  <2> QED
    BY <2>1, <1>2, <1>71 DEF OnoffInv, ListsOfOneKind
<1>17. NothingForgotten'
  <2>1. failed => process_recheck(state', refs', clients') = "NOP"
    BY <1>2, <1>71 DEF process_recheck
  <2>2. ~failed /\ process_recheck(state', refs', clients') # "NOP" => "RECHECK" \in d
    BY <1>2, <1>71
  <2> QED
    BY <2>1, <2>2, <1>5 DEF NothingForgotten
<1> QED
  BY <1>5, <1>9, <1>13, <1>14, <1>15, <1>16, <1>17 DEF OnoffInv

\* A recheck: a transition begins only in the stable state it leaves.
LEMMA RecheckInv ==
  ASSUME OnoffInv, Recheck
  PROVE  OnoffInv'
<1> DEFINE e  == Rechecked
           st == CASE e = "START" -> "TO_ON" [] e = "STOP" -> "TO_OFF" [] OTHER -> "RESETTING"
<1>0. /\ TypeOK /\ pc = "run" /\ evt = "RECHECK" /\ deferred = {}
      /\ out = <<>> /\ transit = NONE /\ mon = NONE
      /\ UNCHANGED <<clients, refs, monitors, last_res, driver, kind>>
  BY DEF OnoffInv, Recheck, LoopPlaced, PROCESSING, TypeOK
<1>1. CASE e = "NOP"
  <2>1. /\ pc' = "idle" /\ evt' = "NOP"
        /\ UNCHANGED <<state, res, deferred, out, mon, transit, call>>
    BY <1>1 DEF Recheck
  <2>2. TypeOK'
    BY <1>0, <2>1 DEF TypeOK
  <2>3. LoopPlaced'
    BY <1>0, <2>1 DEF LoopPlaced, PROCESSING
  <2>4. ClientsListed' /\ RefsCounted'
    BY <1>0, <2>1, ListsSame, RefsSame
  <2>5. TransitionsApart' /\ ListsOfOneKind'
    BY <1>0, <2>1 DEF OnoffInv, TransitionsApart, ListsOfOneKind
  <2>6. NothingForgotten'
    BY <1>0, <1>1, <2>1 DEF NothingForgotten, Rechecked
  <2> QED
    BY <2>2, <2>3, <2>4, <2>5, <2>6 DEF OnoffInv
<1>2. CASE e # "NOP"
  <2>1. state' = st /\ res' = 0 /\ Unlock(st, <<>>, st, deferred)
    BY <1>2 DEF Recheck
  <2>2. \/ state = "OFF" /\ st = "TO_ON"
        \/ state = "ON" /\ refs = 0 /\ st = "TO_OFF"
        \/ state = "ERROR" /\ st = "RESETTING"
    BY <1>2 DEF Rechecked, process_recheck
  <2>3. st \in Transitions /\ st # NONE
    BY <2>2, NoneApart DEF Transitions
  <2> HIDE DEF e, st
  <2>4. /\ LoopPlaced'
        /\ mon' \in Monitors \cup {NONE, "head"} /\ out' = <<>> /\ transit' = st
        /\ deferred' \subseteq deferred /\ evt' = "NOP"
        /\ pc' \in {"idle", "run", "monitors", "clients", "transit", "relock"}
    <3> DEFINE o == <<>>
    <3>1. o \in Seq(Clients) /\ deferred \in SUBSET {"COMPLETE", "RECHECK"}
      BY <1>0
    <3>2. Unlock(st, o, st, deferred)
      BY <2>1
    <3> HIDE DEF o
    <3>3. /\ LoopPlaced'
          /\ mon' \in Monitors \cup {NONE, "head"} /\ out' = o /\ transit' = st
          /\ deferred' \subseteq deferred /\ evt' = "NOP"
          /\ pc' \in {"idle", "run", "monitors", "clients", "transit", "relock"}
      BY <2>3, <3>1, <3>2, UnlockPlaced
    <3> QED
      BY <3>3 DEF o
  <2>5. call' = call
    <3>1. \A c \in Clients : ~IsIn(<<>>, c)
      BY DEF IsIn
    <3>2. call \in [Clients -> {"free", "wait", "out", "direct", "holds"}]
      BY <1>0 DEF TypeOK
    <3>3. call' = [c \in Clients |-> IF IsIn(<<>>, c) THEN "out" ELSE call[c]]
      BY <2>1 DEF Unlock
    <3> QED
      BY <3>1, <3>2, <3>3
  <2>6. TypeOK'
    BY <1>0, <2>1, <2>3, <2>4, <2>5 DEF TypeOK
  <2>7. ClientsListed'
    BY <1>0, <2>4, <2>5, ListsSame
  <2>8. RefsCounted'
    <3>1. refs = 0
      BY <1>0, <2>2 DEF OnoffInv, RefsCounted, TypeOK
    <3>2. Counted = {}
      BY <3>1, CountedFits DEF OnoffInv, RefsCounted, Counted
    <3>3. \A c \in Clients : call[c] # "out"
      BY <1>0 DEF OnoffInv, ClientsListed, IsIn
    <3>4. Counted' = {}
      BY <2>5, <3>2, <3>3 DEF Counted
    <3> QED
      BY <1>0, <3>1, <3>4, FS_EmptySet DEF RefsCounted
  <2>9. driver = NONE
    BY <2>2 DEF OnoffInv, TransitionsApart, Transitions
  <2>10. TransitionsApart'
    BY <1>0, <2>1, <2>3, <2>4, <2>9 DEF TransitionsApart
  <2>11. ListsOfOneKind'
    BY <1>0, <2>1, <2>2, <2>5 DEF OnoffInv, ListsOfOneKind
  <2>12. NothingForgotten'
    BY <2>1, <2>2 DEF NothingForgotten, process_recheck
  <2> QED
    BY <2>4, <2>6, <2>7, <2>8, <2>10, <2>11, <2>12 DEF OnoffInv
<1> QED
  BY <1>1, <1>2

\* An event to recheck leaves the transitions as they are.
LEMMA RecheckApart ==
  ASSUME OnoffInv, Unlocked, ProcessEvent("RECHECK"),
         UNCHANGED <<state, transit, driver, mon, out>>
  PROVE  /\ LoopPlaced' /\ TransitionsApart'
         /\ deferred' \subseteq {"COMPLETE", "RECHECK"}
         /\ evt' \in {"NOP", "COMPLETE", "RECHECK"}
         /\ pc' \in {"idle", "run", "monitors", "clients", "transit", "relock"}
         /\ "RECHECK" \in deferred' \/ evt' = "RECHECK"
<1>1. /\ LoopPlaced'
      /\ evt' \in {"NOP", "RECHECK"} /\ evt = "NOP"
      /\ deferred' \in {deferred, deferred \cup {"RECHECK"}}
      /\ "RECHECK" \in deferred' \/ evt' = "RECHECK"
      /\ pc' \in {pc, "run"}
  BY ProcessEventPlaced
<1>2. TransitionsApart'
  BY <1>1 DEF OnoffInv, TransitionsApart
<1> QED
  BY <1>1, <1>2 DEF OnoffInv, TypeOK

\* A step that raises no event leaves the loop and the transitions alone.
LEMMA NoEvent ==
  ASSUME OnoffInv, UNCHANGED <<state, deferred, transit, driver, mon, out, pc, evt>>
  PROVE  /\ LoopPlaced' /\ TransitionsApart'
         /\ deferred' \subseteq {"COMPLETE", "RECHECK"}
         /\ evt' \in {"NOP", "COMPLETE", "RECHECK"}
         /\ pc' \in {"idle", "run", "monitors", "clients", "transit", "relock"}
BY DEF OnoffInv, TypeOK, LoopPlaced, TransitionsApart, PROCESSING

\* A client joins the list in a state it may wait in.
LEMMA JoinInv ==
  ASSUME OnoffInv, NEW c \in Clients, Unlocked, call[c] = "free",
         NEW k \in {"request", "reset"}, NEW st \in {"OFF", "ERROR"}, Join(c, k, st),
         k = "request" => st = "OFF" /\ state \in {"OFF", "TO_OFF", "TO_ON"},
         k = "reset" => st = "ERROR" /\ state \in {"ERROR", "RESETTING"},
         UNCHANGED <<state, refs, monitors, last_res, transit, res, out, mon, driver>>
  PROVE  OnoffInv'
<1>0. /\ TypeOK /\ clients \in Seq(Clients)
      /\ call \in [Clients -> {"free", "wait", "out", "direct", "holds"}]
      /\ kind \in [Clients -> {"request", "reset"}]
  BY DEF OnoffInv, TypeOK
<1>1. /\ clients' = Append(clients, c)
      /\ call' = [call EXCEPT ![c] = "wait"]
      /\ kind' = [kind EXCEPT ![c] = k]
      /\ IF state = st THEN ProcessEvent("RECHECK") ELSE UNCHANGED <<deferred, pc, evt>>
  BY DEF Join
<1>2. /\ LoopPlaced' /\ TransitionsApart'
      /\ deferred' \subseteq {"COMPLETE", "RECHECK"}
      /\ evt' \in {"NOP", "COMPLETE", "RECHECK"}
      /\ pc' \in {"idle", "run", "monitors", "clients", "transit", "relock"}
      /\ state = st => "RECHECK" \in deferred' \/ evt' = "RECHECK"
  BY <1>1, RecheckApart, NoEvent
<1>3. ~IsIn(clients, c) /\ ~IsIn(out, c)
  BY DEF OnoffInv, ClientsListed
<1>4. /\ clients' \in Seq(Clients)
      /\ \A d \in Clients : IsIn(clients', d) <=> IsIn(clients, d) \/ d = c
      /\ \A d \in Clients : Once(clients', d)
  BY <1>0, <1>1, <1>3, AppendFacts DEF OnoffInv, ClientsListed
<1>5. TypeOK'
  BY <1>0, <1>1, <1>2, <1>4 DEF TypeOK
<1>6. ClientsListed'
  BY <1>0, <1>1, <1>3, <1>4 DEF OnoffInv, ClientsListed
<1>7. RefsCounted'
  <2>1. Counted' = Counted
    BY <1>0, <1>1 DEF Counted, Outcome
  <2> QED
    BY <2>1 DEF OnoffInv, RefsCounted
<1>8. ListsOfOneKind'
  BY <1>0, <1>1 DEF OnoffInv, ListsOfOneKind
<1>9. NothingForgotten'
  <2>1. state = st \/ process_recheck(state, refs, clients') = "NOP"
    BY DEF process_recheck
  <2> QED
    BY <1>2, <2>1 DEF NothingForgotten
<1> QED
  BY <1>2, <1>5, <1>6, <1>7, <1>8, <1>9 DEF OnoffInv

\* onoff_request(): a reference at once, or a place on the list.
LEMMA RequestInv ==
  ASSUME OnoffInv, NEW c \in Clients, Request(c)
  PROVE  OnoffInv'
<1>0. /\ TypeOK /\ Unlocked /\ call[c] = "free" /\ refs \in 0..SERVICE_REFS_MAX
      /\ refs # SERVICE_REFS_MAX /\ SERVICE_REFS_MAX \in Nat
      /\ call \in [Clients -> {"free", "wait", "out", "direct", "holds"}]
      /\ kind \in [Clients -> {"request", "reset"}]
      /\ UNCHANGED <<state, monitors, last_res, transit, res, out, mon, driver>>
  BY OnoffAssumption DEF OnoffInv, TypeOK, Request
<1>1. CASE /\ state = "ON"
           /\ refs' = refs + 1
           /\ call' = [call EXCEPT ![c] = "direct"]
           /\ kind' = [kind EXCEPT ![c] = "request"]
           /\ UNCHANGED <<clients, deferred, pc, evt>>
  <2>1. LoopPlaced' /\ TransitionsApart'
    BY <1>0, <1>1, NoEvent
  <2>2. TypeOK'
    <3>1. refs' \in 0..SERVICE_REFS_MAX
      BY <1>0, <1>1
    <3> QED
      BY <1>0, <1>1, <3>1 DEF TypeOK
  <2>3. ~IsIn(clients, c) /\ ~IsIn(out, c)
    BY <1>0 DEF OnoffInv, ClientsListed
  <2>4. ClientsListed'
    BY <1>0, <1>1, <2>3 DEF OnoffInv, ClientsListed
  <2>5. RefsCounted'
    <3>1. Counted' = Counted \cup {c}
      BY <1>0, <1>1 DEF Counted, Outcome
    <3>2. c \notin Counted /\ Counted \in SUBSET Clients
      BY <1>0 DEF Counted
    <3>3. IsFiniteSet(Counted)
      BY <3>2, CountedFits
    <3>4. Cardinality(Counted') = Cardinality(Counted) + 1
      BY <3>1, <3>2, <3>3, FS_AddElement
    <3> QED
      BY <1>0, <1>1, <3>4 DEF OnoffInv, RefsCounted
  <2>6. ListsOfOneKind'
    BY <1>0, <1>1 DEF OnoffInv, ListsOfOneKind
  <2>7. NothingForgotten'
    <3>1. refs' # 0
      BY <1>0, <1>1
    <3> QED
      BY <1>0, <1>1, <3>1 DEF NothingForgotten, process_recheck
  <2> QED
    BY <2>1, <2>2, <2>4, <2>5, <2>6, <2>7 DEF OnoffInv
<1>2. CASE /\ state \in {"OFF", "TO_OFF", "TO_ON"}
           /\ Join(c, "request", "OFF")
           /\ UNCHANGED refs
  BY <1>0, <1>2, JoinInv
<1> QED
  BY <1>1, <1>2 DEF Request

\* onoff_reset()
LEMMA ResetInv ==
  ASSUME OnoffInv, NEW c \in Clients, Reset(c)
  PROVE  OnoffInv'
BY JoinInv DEF Reset

\* The client that was counted at once is told so.
LEMMA NotifyOneInv ==
  ASSUME OnoffInv, NEW c \in Clients, NotifyOne(c)
  PROVE  OnoffInv'
<1>0. /\ TypeOK /\ call[c] = "direct" /\ call' = [call EXCEPT ![c] = "holds"]
      /\ UNCHANGED <<mgrVars, procVars, driver, kind>>
      /\ call \in [Clients -> {"free", "wait", "out", "direct", "holds"}]
  BY DEF OnoffInv, TypeOK, NotifyOne
<1>1. TypeOK'
  BY <1>0 DEF TypeOK, mgrVars, procVars
<1>2. LoopPlaced' /\ TransitionsApart'
  BY <1>0, NoEvent DEF mgrVars, procVars
<1>3. ClientsListed'
  BY <1>0 DEF OnoffInv, ClientsListed, mgrVars, procVars
<1>4. RefsCounted'
  <2>1. Counted' = Counted
    BY <1>0 DEF Counted, Outcome, procVars
  <2> QED
    BY <1>0, <2>1 DEF OnoffInv, RefsCounted, mgrVars
<1>5. ListsOfOneKind' /\ NothingForgotten'
  BY <1>0 DEF OnoffInv, ListsOfOneKind, NothingForgotten, mgrVars, procVars
<1> QED
  BY <1>1, <1>2, <1>3, <1>4, <1>5 DEF OnoffInv

\* A client that was told it has the service has it: the service is on.
LEMMA HoldsMeansOn ==
  ASSUME OnoffInv, NEW c \in Clients, call[c] = "holds"
  PROVE  state = "ON" /\ refs > 0 /\ c \in Counted
<1>1. c \in Counted /\ Counted \in SUBSET Clients
  BY DEF Counted
<1>2. Cardinality(Counted) \in Nat /\ Cardinality(Counted) # 0
  BY <1>1, CountedFits
<1> QED
  BY <1>1, <1>2 DEF OnoffInv, RefsCounted

\* onoff_release(): the last one has the state rechecked.
LEMMA ReleaseInv ==
  ASSUME OnoffInv, NEW c \in Clients, Release(c)
  PROVE  OnoffInv'
<1>0. /\ TypeOK /\ Unlocked /\ call[c] = "holds" /\ call' = [call EXCEPT ![c] = "free"]
      /\ call \in [Clients -> {"free", "wait", "out", "direct", "holds"}]
      /\ refs \in 0..SERVICE_REFS_MAX /\ SERVICE_REFS_MAX \in Nat
      /\ UNCHANGED <<state, clients, monitors, last_res, transit, res, out, mon, driver, kind>>
  BY OnoffAssumption DEF OnoffInv, TypeOK, Release, ReleaseLocked
<1>1. state = "ON" /\ refs > 0 /\ c \in Counted
  BY <1>0, HoldsMeansOn
<1>2. /\ refs' = refs - 1
      /\ IF refs' = 0 THEN ProcessEvent("RECHECK") ELSE UNCHANGED <<deferred, pc, evt>>
  BY <1>1 DEF Release, ReleaseLocked
<1>3. /\ LoopPlaced' /\ TransitionsApart'
      /\ deferred' \subseteq {"COMPLETE", "RECHECK"}
      /\ evt' \in {"NOP", "COMPLETE", "RECHECK"}
      /\ pc' \in {"idle", "run", "monitors", "clients", "transit", "relock"}
      /\ refs' = 0 => "RECHECK" \in deferred' \/ evt' = "RECHECK"
  BY <1>0, <1>2, RecheckApart, NoEvent
<1>4. TypeOK'
  <2>1. refs' \in 0..SERVICE_REFS_MAX
    BY <1>0, <1>1, <1>2
  <2> QED
    BY <1>0, <1>3, <2>1 DEF TypeOK
<1>5. ClientsListed'
  BY <1>0 DEF OnoffInv, ClientsListed
<1>6. RefsCounted'
  <2>1. Counted' = Counted \ {c}
    BY <1>0 DEF Counted, Outcome
  <2>2. Counted \in SUBSET Clients
    BY DEF Counted
  <2>3. IsFiniteSet(Counted)
    BY <2>2, CountedFits
  <2>4. Cardinality(Counted') = Cardinality(Counted) - 1
    BY <1>1, <2>1, <2>3, FS_RemoveElement
  <2> QED
    BY <1>0, <1>1, <1>2, <2>4 DEF OnoffInv, RefsCounted
<1>7. ListsOfOneKind'
  BY <1>0 DEF OnoffInv, ListsOfOneKind
<1>8. NothingForgotten'
  <2>1. refs' = 0 \/ process_recheck(state, refs', clients) = "NOP"
    BY <1>1 DEF process_recheck
  <2> QED
    BY <1>0, <1>3, <2>1 DEF NothingForgotten
<1> QED
  BY <1>3, <1>4, <1>5, <1>6, <1>7, <1>8 DEF OnoffInv

\* onoff_cancel(): the client leaves the list; a transition under way goes on.
LEMMA CancelInv ==
  ASSUME OnoffInv, NEW c \in Clients, Cancel(c)
  PROVE  OnoffInv'
<1>0. /\ TypeOK /\ IsIn(clients, c) /\ call[c] = "wait" /\ clients \in Seq(Clients)
      /\ clients' = RemoveItem(clients, c) /\ call' = [call EXCEPT ![c] = "free"]
      /\ call \in [Clients -> {"free", "wait", "out", "direct", "holds"}]
      /\ UNCHANGED <<state, deferred, refs, monitors, last_res, procVars, driver, kind>>
  BY DEF OnoffInv, TypeOK, Cancel, ClientsListed
<1>1. /\ clients' \in Seq(Clients) /\ ~IsIn(clients', c)
      /\ \A d \in Clients : d # c => (IsIn(clients', d) <=> IsIn(clients, d))
      /\ \A d \in Clients : Once(clients', d)
  BY <1>0, RemoveFacts DEF OnoffInv, ClientsListed
<1>2. TypeOK'
  BY <1>0, <1>1 DEF TypeOK, procVars
<1>3. LoopPlaced' /\ TransitionsApart'
  BY <1>0, NoEvent DEF procVars
<1>4. ClientsListed'
  BY <1>0, <1>1 DEF OnoffInv, ClientsListed, procVars
<1>5. RefsCounted'
  <2>1. Counted' = Counted
    BY <1>0 DEF Counted, Outcome, procVars
  <2> QED
    BY <1>0, <2>1 DEF OnoffInv, RefsCounted
<1>6. ListsOfOneKind'
  BY <1>0 DEF OnoffInv, ListsOfOneKind
<1>7. NothingForgotten'
  <2>1. clients # <<>>
    BY <1>0 DEF IsIn
  <2>2. process_recheck(state, refs, clients') # "NOP" => process_recheck(state, refs, clients) # "NOP"
    BY <2>1 DEF process_recheck
  <2> QED
    BY <1>0, <2>2 DEF OnoffInv, NothingForgotten, procVars
<1> QED
  BY <1>2, <1>3, <1>4, <1>5, <1>6, <1>7 DEF OnoffInv

\* Monitors come and go.
LEMMA MonitorInv ==
  ASSUME OnoffInv, NEW m \in Monitors, MonitorRegister(m) \/ MonitorUnregister(m)
  PROVE  OnoffInv'
<1>0. /\ TypeOK /\ monitors \in Seq(Monitors)
      /\ UNCHANGED <<state, deferred, clients, refs, last_res, procVars, driver, call, kind>>
  BY DEF OnoffInv, TypeOK, MonitorRegister, MonitorUnregister, userVars
<1>1. monitors' \in Seq(Monitors)
  BY <1>0, AppendFacts, RemoveShape DEF MonitorRegister, MonitorUnregister
<1>3. TypeOK'
  BY <1>0, <1>1 DEF TypeOK, procVars
<1>4. LoopPlaced' /\ TransitionsApart'
  BY <1>0, NoEvent DEF procVars
<1>5. ClientsListed' /\ RefsCounted'
  BY <1>0, ListsSame, RefsSame DEF procVars
<1>6. ListsOfOneKind' /\ NothingForgotten'
  BY <1>0 DEF OnoffInv, ListsOfOneKind, NothingForgotten, procVars
<1> QED
  BY <1>3, <1>4, <1>5, <1>6 DEF OnoffInv

\* Every step, and stuttering, preserves the invariant.
LEMMA NextInv ==
  ASSUME OnoffInv, [Next]_vars
  PROVE  OnoffInv'
<1>1. CASE Next
  BY <1>1, CompleteInv, RecheckInv, NotifyMonitorInv, NotifyClientInv, TransitInv, RelockInv,
     TransitionCompleteInv, RequestInv, NotifyOneInv, ReleaseInv, ResetInv, CancelInv, MonitorInv
     DEF Next, Loop
<1>2. CASE UNCHANGED vars
  <2>1. TypeOK'
    BY <1>2 DEF vars, mgrVars, procVars, userVars, OnoffInv, TypeOK
  <2>2. LoopPlaced' /\ TransitionsApart'
    BY <1>2, NoEvent DEF vars, mgrVars, procVars, userVars
  <2>3. ClientsListed' /\ RefsCounted'
    BY <1>2, ListsSame, RefsSame DEF vars, mgrVars, procVars, userVars
  <2>4. ListsOfOneKind' /\ NothingForgotten'
    BY <1>2 DEF vars, mgrVars, procVars, userVars, OnoffInv, ListsOfOneKind, NothingForgotten
  <2> QED
    BY <2>1, <2>2, <2>3, <2>4 DEF OnoffInv
<1> QED
  BY <1>1, <1>2

(***************************************************************************)
(* Theorems                                                                *)
(***************************************************************************)
\* However requests, releases, resets, cancellations, callbacks and
\* completions interleave: the reference count is that of the clients that
\* have the service, transitions never overlap, every client is on the list
\* it waits on, and no event that was deferred is forgotten.
THEOREM ManagerInvariant == Spec => []OnoffInv
<1>1. Init => OnoffInv
  BY InitInv
<1>2. OnoffInv /\ [Next]_vars => OnoffInv'
  BY NextInv
<1> QED
  BY <1>1, <1>2, PTL DEF Spec

\* The service is on for as long as a client that was told so has not
\* released it.
THEOREM StaysOnWhileHeld == Spec => []OnWhileHeld
<1>1. OnoffInv => OnWhileHeld
  BY HoldsMeansOn DEF OnWhileHeld
<1> QED
  BY <1>1, ManagerInvariant, PTL

\* Whenever nothing is being processed, the clients on the list wait for a
\* transition that is under way.
THEOREM ListedInTransition == Spec => []WaitsInTransition
<1>1. ASSUME OnoffInv PROVE WaitsInTransition
  <2> SUFFICES ASSUME pc = "idle", NEW c \in Clients, IsIn(clients, c)
               PROVE  state \in Transitions
    BY DEF WaitsInTransition
  <2>1. clients # <<>> /\ call[c] = "wait"
    BY <1>1 DEF OnoffInv, ClientsListed, IsIn
  <2>2. process_recheck(state, refs, clients) = "NOP"
    BY <1>1 DEF OnoffInv, NothingForgotten, LoopPlaced
  <2>3. state \notin {"OFF", "ERROR"}
    BY <2>1, <2>2 DEF process_recheck
  <2> QED
    BY <1>1, <2>1, <2>3 DEF OnoffInv, ListsOfOneKind, Transitions
<1> QED
  BY <1>1, ManagerInvariant, PTL
=============================================================================
