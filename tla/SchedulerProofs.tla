-------------------------- MODULE SchedulerProofs --------------------------
(***************************************************************************)
(* Proofs about Scheduler, for any number of threads, callbacks and times. *)
(*                                                                         *)
(* Nearly every step moves one thread from one place of its program to     *)
(* another and wakes some that wait (Moved).  What the invariant says of   *)
(* the places, of the count of servicing threads and of the callback that  *)
(* is run is shown once to survive such a move, under conditions on the    *)
(* two places that each action then meets.                                 *)
(***************************************************************************)
EXTENDS Scheduler, FiniteSetTheorems, TLAPS

Serving == {s \in Servers : pc[s] \notin {"start", "off"}}

(* Who can be where, and how far the shutdown has come.                    *)
PlacesOK ==
    /\ \A s \in Servers : pc[s] \in ServerPlaces
    /\ \A p \in Producers : pc[p] \in ProducerPlaces
    /\ pc[Main] \in MainPlaces
    /\ stopRequested <=> pc[Main] # "up"
    /\ stopRequested => \A p \in Producers \ {Loader} : pc[p] = "idle"
    /\ pc[Main] \in Emptying \cup {"loader"} => \A s \in Servers : pc[s] = "off"
    /\ pc[Main] \in Emptying => pc[Loader] = "off"
    /\ \A t \in Threads : pc[t] = "schedule" => entry[t] \in Entries

Counted == nThreadsServicingQueue = Cardinality(Serving)

(* The flag is set exactly while one thread runs a callback.               *)
CallbackOK ==
    /\ \A t \in Threads : pc[t] = "callback" <=> callback[t] # NoCallback
    /\ m_are_callbacks_running <=> \E t \in Threads : pc[t] = "callback"
    /\ \A t, u \in Threads : pc[t] = "callback" /\ pc[u] = "callback" => t = u

IInv == TypeOK /\ PlacesOK /\ Counted /\ CallbackOK /\ PendingIsScheduled

AllPlaces == ServerPlaces \cup ProducerPlaces \cup MainPlaces

(* Thread t goes to q; of the others at most some that wait are woken.     *)
Moved(t, q) ==
    /\ pc' \in [Threads -> AllPlaces]
    /\ pc'[t] = q
    /\ \A u \in Threads \ {t} :
          pc'[u] = pc[u] \/ (u \in Servers /\ pc[u] = "wait" /\ pc'[u] = "woken")

(* The moves that no action of a shutdown is needed for, and two that are. *)
Allowed(t, q) ==
    /\ t \in Servers => q \in ServerPlaces /\ pc[t] # "off"
    /\ t \in Producers => q \in ProducerPlaces /\ pc[t] # "off" /\ (t = Loader \/ ~stopRequested)
    /\ t = Main => \/ q \in Emptying /\ pc[t] \in Emptying
                   \/ q = "joining" /\ pc[t] = "stopping"
                   \/ q = "loader" /\ pc[t] = "joining" /\ \A s \in Servers : pc[s] = "off"
                   \/ q = "flush" /\ pc[t] = "loader" /\ pc[Loader] = "off"
    /\ q = "schedule" => entry'[t] \in Entries

-----------------------------------------------------------------------------
(* A thread services the queue, adds callbacks, or shuts down, and does    *)
(* one of these only.                                                      *)
LEMMA ThreadKinds ==
    /\ Servers \subseteq Threads /\ Producers \subseteq Threads /\ Main \in Threads
    /\ Loader \in Producers
    /\ Servers \cap Producers = {} /\ Main \notin Servers /\ Main \notin Producers
    /\ \A t \in Threads : t \in Servers \/ t \in Producers \/ t = Main
BY SchedulerAssumption DEF Threads

(* A step that notifies nobody moves one thread.                           *)
LEMMA MovesAlone ==
    ASSUME TypeOK, NEW t \in Threads, NEW q \in AllPlaces, pc' = [pc EXCEPT ![t] = q]
    PROVE  Moved(t, q)
BY DEF TypeOK, Moved, AllPlaces

(* A step that notifies newTaskScheduled moves one thread and may wake     *)
(* another.                                                                *)
LEMMA MovesAndNotifies ==
    ASSUME TypeOK, NEW t \in Threads, NEW q \in AllPlaces, pc[t] # "wait",
           pc' \in NotifyOne([pc EXCEPT ![t] = q])
    PROVE  Moved(t, q)
<1>1. CASE pc' = [pc EXCEPT ![t] = q]
  BY Zenon, <1>1, MovesAlone
<1>2. CASE \E u \in Waiting : pc' = [[pc EXCEPT ![t] = q] EXCEPT ![u] = "woken"]
  <2>1. PICK u \in Waiting : pc' = [[pc EXCEPT ![t] = q] EXCEPT ![u] = "woken"]
    BY Zenon, <1>2
  <2>2. u \in Servers /\ u \in Threads /\ pc[u] = "wait" /\ u # t
    BY ThreadKinds DEF Waiting
  <2>3. "woken" \in AllPlaces
    BY DEF AllPlaces, ServerPlaces
  <2>4. pc \in [Threads -> AllPlaces]
    BY DEF TypeOK, AllPlaces
  <2> QED
    BY Zenon, <2>1, <2>2, <2>3, <2>4 DEF Moved
<1> QED
  BY <1>1, <1>2 DEF NotifyOne

(* Where the threads are, when t is not one that shuts down.               *)
LEMMA PlacesKept ==
    ASSUME IInv, NEW t \in Threads, NEW q, Moved(t, q),
           stopRequested' = stopRequested,
           \A u \in Threads \ {t} : entry'[u] = entry[u],
           Allowed(t, q)
    PROVE  PlacesOK'
<1> USE ThreadKinds DEF IInv, Allowed
<1>1. \A s \in Servers : pc'[s] \in ServerPlaces
  BY DEF Moved, PlacesOK, ServerPlaces
<1>2. \A p \in Producers : pc'[p] \in ProducerPlaces
  BY DEF Moved, PlacesOK
<1>3. pc'[Main] \in MainPlaces
  BY DEF Moved, PlacesOK, MainPlaces, Emptying
<1>4. stopRequested' <=> pc'[Main] # "up"
  BY DEF Moved, PlacesOK, MainPlaces, Emptying
<1>5. stopRequested' => \A p \in Producers \ {Loader} : pc'[p] = "idle"
  BY DEF Moved, PlacesOK
<1>6. /\ pc'[Main] \in Emptying \cup {"loader"} => \A s \in Servers : pc'[s] = "off"
      /\ pc'[Main] \in Emptying => pc'[Loader] = "off"
  BY DEF Moved, PlacesOK, Emptying
<1>7. \A u \in Threads : pc'[u] = "schedule" => entry'[u] \in Entries
  BY DEF Moved, PlacesOK
<1> QED
  BY <1>1, <1>2, <1>3, <1>4, <1>5, <1>6, <1>7 DEF PlacesOK

(* t stays among those that service the queue, or is none of them.         *)
LEMMA CountKept ==
    ASSUME IInv, NEW t \in Threads, NEW q, Moved(t, q),
           t \in Servers => (pc[t] \in {"start", "off"} <=> q \in {"start", "off"}),
           nThreadsServicingQueue' = nThreadsServicingQueue
    PROVE  Counted'
<1>1. \A s \in Servers : pc'[s] \in {"start", "off"} <=> pc[s] \in {"start", "off"}
  BY ThreadKinds DEF Moved
<1>2. Serving' = Serving
  BY <1>1 DEF Serving
<1> QED
  BY <1>2 DEF IInv, Counted

(* The threads that nThreadsServicingQueue counts are finitely many.       *)
LEMMA ServingIsFinite ==
    /\ IsFiniteSet(Serving) /\ Cardinality(Serving) \in Nat
    /\ IsFiniteSet(Serving') /\ Cardinality(Serving') \in Nat
<1>1. Serving \subseteq Servers /\ Serving' \subseteq Servers
  BY DEF Serving
<1> QED
  BY <1>1, SchedulerAssumption, FS_Subset, FS_CardinalityType

(* The callback that is run, when t neither starts nor ends one.           *)
LEMMA CallbackKept ==
    ASSUME IInv, NEW t \in Threads, NEW q, Moved(t, q),
           pc[t] = "callback" <=> q = "callback",
           callback' = callback, m_are_callbacks_running' = m_are_callbacks_running
    PROVE  CallbackOK' /\ Current' = Current
<1>1. \A u \in Threads : pc'[u] = "callback" <=> pc[u] = "callback"
  BY DEF Moved
<1>2. CallbackOK'
  BY <1>1 DEF IInv, CallbackOK
<1>3. Current' = Current
  <2>1. CASE \E u \in Threads : pc[u] = "callback"
    <3>1. PICK u \in Threads : pc[u] = "callback"
      BY <2>1
    <3>2. \A v \in Threads : pc[v] = "callback" => v = u
      BY <3>1 DEF IInv, CallbackOK
    <3>3. (CHOOSE v \in Threads : pc[v] = "callback") = u
      BY <3>1, <3>2
    <3>4. (CHOOSE v \in Threads : pc'[v] = "callback") = u
      BY <3>1, <3>2, <1>1
    <3> QED
      BY Zenon, <1>1, <3>1, <3>3, <3>4 DEF Current
  <2>2. CASE ~ \E u \in Threads : pc[u] = "callback"
    BY <1>1, <2>2 DEF Current
  <2> QED
    BY <2>1, <2>2
<1> QED
  BY <1>2, <1>3

(* A pending callback, when t had no part in scheduling or has done it.    *)
LEMMA PendingKept ==
    ASSUME IInv, NEW t \in Threads, NEW q, Moved(t, q),
           taskQueue' = taskQueue, m_callbacks_pending' = m_callbacks_pending,
           m_are_callbacks_running' = m_are_callbacks_running,
           \A u \in Threads \ {t} : entry'[u] = entry[u],
           \/ pc[t] \notin {"maybe", "ProcessQueue", "schedule"}
           \/ m_are_callbacks_running \/ m_callbacks_pending = <<>>
           \/ q \in {"maybe", "ProcessQueue"}
           \/ q = "schedule" /\ entry'[t][1] = "ProcessQueue"
    PROVE  PendingIsScheduled'
<1> SUFFICES ASSUME m_callbacks_pending # <<>>, ~m_are_callbacks_running
             PROVE  PendingIsScheduled'
  BY Zenon DEF PendingIsScheduled
<1>1. CASE \E n \in Times : taskQueue[<<"ProcessQueue", n>>] > 0
  BY <1>1 DEF PendingIsScheduled
<1>2. CASE \E u \in Threads \ {t} : \/ pc[u] \in {"maybe", "ProcessQueue"}
                                    \/ pc[u] = "schedule" /\ entry[u][1] = "ProcessQueue"
  <2>1. PICK u \in Threads \ {t} : \/ pc[u] \in {"maybe", "ProcessQueue"}
                                   \/ pc[u] = "schedule" /\ entry[u][1] = "ProcessQueue"
    BY <1>2
  <2>2. pc'[u] = pc[u] /\ entry'[u] = entry[u]
    BY <2>1 DEF Moved
  <2> QED
    BY Zenon, <2>1, <2>2 DEF PendingIsScheduled
<1>3. CASE \/ pc[t] \in {"maybe", "ProcessQueue"}
           \/ pc[t] = "schedule" /\ entry[t][1] = "ProcessQueue"
  BY <1>3 DEF PendingIsScheduled, Moved
<1> QED
  BY Zenon, <1>1, <1>2, <1>3 DEF IInv, PendingIsScheduled

(* A step that only moves t.                                               *)
LEMMA MoveStep ==
    ASSUME IInv, NEW t \in Threads, NEW q, Moved(t, q), Allowed(t, q),
           UNCHANGED <<schedulerVars, clientVars, clock>>,
           entry' \in [Threads -> Entries \cup {NoEntry}], until' \in [Threads -> Times],
           \A u \in Threads \ {t} : entry'[u] = entry[u],
           t \in Servers => (pc[t] \in {"start", "off"} <=> q \in {"start", "off"}),
           pc[t] # "callback", q # "callback",
           \/ pc[t] \notin {"maybe", "ProcessQueue", "schedule"}
           \/ m_are_callbacks_running \/ m_callbacks_pending = <<>>
           \/ q \in {"maybe", "ProcessQueue"}
           \/ q = "schedule" /\ entry'[t][1] = "ProcessQueue"
    PROVE  IInv' /\ UNCHANGED <<m_callbacks_pending, Current>>
<1>1. /\ taskQueue' = taskQueue /\ nThreadsServicingQueue' = nThreadsServicingQueue
      /\ stopRequested' = stopRequested /\ clock' = clock
      /\ m_callbacks_pending' = m_callbacks_pending
      /\ m_are_callbacks_running' = m_are_callbacks_running
      /\ callback' = callback /\ promise' = promise /\ nAdded' = nAdded
  BY DEF schedulerVars, clientVars
<1>2. TypeOK'
  BY Zenon, <1>1 DEF IInv, TypeOK, Moved, AllPlaces
<1>3. PlacesOK'
  BY <1>1, PlacesKept
<1>4. Counted'
  BY <1>1, CountKept
<1>5. CallbackOK' /\ Current' = Current
  BY Zenon, <1>1, CallbackKept
<1>6. PendingIsScheduled'
  BY <1>1, PendingKept
<1> QED
  BY <1>1, <1>2, <1>3, <1>4, <1>5, <1>6 DEF IInv

-----------------------------------------------------------------------------
(* The steps that only move a thread.                                      *)

(* A wait that times out or returns by itself keeps the invariant.         *)
LEMMA WakeSteps ==
    ASSUME IInv, NEW s \in Servers, TimeOut(s) \/ SpuriousWakeup(s)
    PROVE  IInv' /\ UNCHANGED <<m_callbacks_pending, Current>>
<1>1. /\ pc[s] = "wait" /\ pc' = [pc EXCEPT ![s] = "woken"] /\ s \in Threads
      /\ UNCHANGED <<schedulerVars, clientVars, clock, entry, until>>
  BY ThreadKinds DEF TimeOut, SpuriousWakeup
<1>2. Moved(s, "woken")
  BY Zenon, <1>1, MovesAlone DEF IInv, AllPlaces, ServerPlaces
<1>3. Allowed(s, "woken")
  BY <1>1, ThreadKinds DEF Allowed, ServerPlaces
<1> QED
  BY Zenon, <1>1, <1>2, <1>3, MoveStep DEF IInv, TypeOK

(* A periodic task that schedules itself again keeps the invariant.        *)
LEMMA RepeatStep ==
    ASSUME IInv, NEW s \in Servers, Repeat(s)
    PROVE  IInv' /\ UNCHANGED <<m_callbacks_pending, Current>>
<1>1. /\ pc[s] = "job" /\ pc' = [pc EXCEPT ![s] = "schedule"] /\ s \in Threads
      /\ entry' = [entry EXCEPT ![s] = At(Delta)]
      /\ UNCHANGED <<schedulerVars, clientVars, clock, until>>
  BY ThreadKinds DEF Repeat
<1>2. At(Delta) \in Entries
  BY SchedulerAssumption DEF IInv, TypeOK, At, Entries, Times, Never
<1>3. /\ entry' \in [Threads -> Entries \cup {NoEntry}] /\ entry'[s] = At(Delta)
      /\ \A u \in Threads \ {s} : entry'[u] = entry[u]
  BY <1>1, <1>2 DEF IInv, TypeOK
<1>4. Moved(s, "schedule")
  BY Zenon, <1>1, MovesAlone DEF IInv, AllPlaces, ServerPlaces
<1>5. Allowed(s, "schedule")
  BY <1>1, <1>2, <1>3, ThreadKinds DEF Allowed, ServerPlaces
<1> QED
  BY Zenon, <1>1, <1>3, <1>4, <1>5, MoveStep DEF IInv, TypeOK

(* Where a thread that has scheduled or looked goes back to.               *)
LEMMA ReturnsAllowed ==
    ASSUME IInv, NEW t \in Threads, pc[t] \in {"notify", "maybe", "ProcessQueue"}
    PROVE  /\ Allowed(t, Returned(t)) /\ Returned(t) \in AllPlaces
           /\ Returned(t) \notin {"schedule", "callback", "start", "off"}
<1> USE ThreadKinds DEF IInv, PlacesOK
<1>1. CASE t \in Servers
  BY <1>1 DEF Returned, Allowed, AllPlaces, ServerPlaces
<1>2. CASE t = Main
  BY <1>2 DEF Returned, Allowed, AllPlaces, MainPlaces, Emptying
<1>3. CASE t \in Producers
  <2>1. t = Loader \/ ~stopRequested
    BY <1>3
  <2> QED
    BY <1>3, <2>1 DEF Returned, Allowed, AllPlaces, ProducerPlaces
<1> QED
  BY Zenon, <1>1, <1>2, <1>3

(* The notification at the end of schedule() keeps the invariant.          *)
LEMMA ScheduleNotifyStep ==
    ASSUME IInv, NEW t \in Threads, ScheduleNotify(t)
    PROVE  IInv' /\ UNCHANGED <<m_callbacks_pending, Current>>
<1>1. /\ pc[t] = "notify" /\ pc' \in NotifyOne([pc EXCEPT ![t] = Returned(t)])
      /\ UNCHANGED <<schedulerVars, clientVars, clock, entry, until>>
  BY DEF ScheduleNotify
<1>2. /\ Allowed(t, Returned(t)) /\ Returned(t) \in AllPlaces
      /\ Returned(t) \notin {"schedule", "callback", "start", "off"}
  BY <1>1, ReturnsAllowed
<1>3. Moved(t, Returned(t))
  BY <1>1, <1>2, MovesAndNotifies DEF IInv
<1> QED
  BY Zenon, <1>1, <1>2, <1>3, MoveStep DEF IInv, TypeOK

(* MaybeScheduleProcessQueue goes on to schedule a ProcessQueue unless     *)
(* none is needed, so that no pending callback is forgotten.               *)
LEMMA MaybeScheduleStep ==
    ASSUME IInv, NEW t \in Threads, MaybeScheduleProcessQueue(t)
    PROVE  IInv' /\ UNCHANGED <<m_callbacks_pending, Current>>
<1>1. pc[t] = "maybe" /\ UNCHANGED <<schedulerVars, clientVars, clock, until>>
  BY Zenon DEF MaybeScheduleProcessQueue
<1>2. CASE /\ m_are_callbacks_running \/ m_callbacks_pending = <<>>
           /\ pc' = [pc EXCEPT ![t] = Returned(t)]
           /\ UNCHANGED entry
  <2>1. /\ Allowed(t, Returned(t)) /\ Returned(t) \in AllPlaces
        /\ Returned(t) \notin {"schedule", "callback", "start", "off"}
    BY <1>1, ReturnsAllowed
  <2>2. Moved(t, Returned(t))
    BY Zenon, <1>2, <2>1, MovesAlone DEF IInv
  <2> QED
    BY Zenon, <1>1, <1>2, <2>1, <2>2, MoveStep DEF IInv, TypeOK
<1>3. CASE /\ pc' = [pc EXCEPT ![t] = "schedule"]
           /\ entry' = [entry EXCEPT ![t] = <<"ProcessQueue", clock>>]
  <2>1. <<"ProcessQueue", clock>> \in Entries
    BY SchedulerAssumption DEF IInv, TypeOK, Entries, Times, Never
  <2>2. /\ entry' \in [Threads -> Entries \cup {NoEntry}] /\ entry'[t] = <<"ProcessQueue", clock>>
        /\ \A u \in Threads \ {t} : entry'[u] = entry[u]
    BY <1>3, <2>1 DEF IInv, TypeOK
  <2>3. Moved(t, "schedule")
    BY Zenon, <1>3, MovesAlone DEF IInv, AllPlaces, ServerPlaces
  <2>4. Allowed(t, "schedule")
    BY Zenon, <1>1, <2>1, <2>2, ThreadKinds
       DEF Allowed, IInv, PlacesOK, ServerPlaces, ProducerPlaces, Emptying
  <2>5. entry'[t][1] = "ProcessQueue" /\ until' \in [Threads -> Times]
    BY <1>1, <2>2 DEF IInv, TypeOK
  <2> QED
    BY <1>1, <2>2, <2>3, <2>4, <2>5, MoveStep
<1> QED
  BY Zenon, <1>2, <1>3 DEF MaybeScheduleProcessQueue

(* The notification, the join and the loop of the shutdown keep the        *)
(* invariant.                                                              *)
LEMMA ShutdownMoves ==
    ASSUME IInv, StopNotify \/ StopJoin \/ JoinLoader \/ EmptyQueue
    PROVE  IInv' /\ UNCHANGED <<m_callbacks_pending, Current>>
<1>0. /\ Main \in Threads /\ Main \notin Servers /\ Main \notin Producers
      /\ UNCHANGED <<schedulerVars, clientVars, clock, entry, until>>
      /\ entry \in [Threads -> Entries \cup {NoEntry}] /\ until \in [Threads -> Times]
  BY Zenon, ThreadKinds DEF StopNotify, StopJoin, JoinLoader, EmptyQueue, IInv, TypeOK
<1>1. CASE StopNotify
  <2>1. Moved(Main, "joining")
    BY <1>0, <1>1, ThreadKinds
       DEF StopNotify, Moved, Waiting, IInv, TypeOK, AllPlaces, MainPlaces, ServerPlaces
  <2>2. Allowed(Main, "joining") /\ pc[Main] = "stopping"
    BY <1>0, <1>1 DEF StopNotify, Allowed
  <2> QED
    BY <1>0, <2>1, <2>2, MoveStep
<1>2. CASE StopJoin
  <2>1. Moved(Main, "loader")
    BY Zenon, <1>0, <1>2, MovesAlone DEF StopJoin, IInv, AllPlaces, MainPlaces
  <2>2. Allowed(Main, "loader") /\ pc[Main] = "joining"
    BY Zenon, <1>0, <1>2 DEF StopJoin, Allowed
  <2> QED
    BY <1>0, <2>1, <2>2, MoveStep
<1>3. CASE JoinLoader
  <2>1. Moved(Main, "flush")
    BY Zenon, <1>0, <1>3, MovesAlone DEF JoinLoader, IInv, AllPlaces, MainPlaces, Emptying
  <2>2. Allowed(Main, "flush") /\ pc[Main] = "loader"
    BY Zenon, <1>0, <1>3 DEF JoinLoader, Allowed
  <2> QED
    BY <1>0, <2>1, <2>2, MoveStep
<1>4. CASE EmptyQueue
  <2>1. PICK q \in {"ProcessQueue", "emptied"} : pc' = [pc EXCEPT ![Main] = q]
    BY Zenon, <1>4 DEF EmptyQueue
  <2>2. Moved(Main, q)
    BY Zenon, <1>0, <2>1, MovesAlone DEF IInv, AllPlaces, MainPlaces, Emptying
  <2>3. Allowed(Main, q) /\ pc[Main] \in {"flush", "check"}
    BY <1>0, <1>4 DEF EmptyQueue, Allowed, Emptying
  <2> QED
    BY <1>0, <2>2, <2>3, MoveStep
<1> QED
  BY Zenon, <1>1, <1>2, <1>3, <1>4

(* Looking at the number of pending callbacks, and the end of ThreadImport,*)
(* keep the invariant.                                                     *)
LEMMA ProducerMoves ==
    ASSUME IInv, NEW p \in Producers,
           LimitValidationInterfaceQueue(p) \/ (p = Loader /\ LoaderEnds)
    PROVE  IInv' /\ UNCHANGED <<m_callbacks_pending, Current>>
<1>0. /\ p \in Threads /\ p \notin Servers /\ p # Main /\ pc[p] = "idle"
      /\ p = Loader \/ ~stopRequested
      /\ UNCHANGED <<schedulerVars, clientVars, clock, entry, until>>
      /\ entry \in [Threads -> Entries \cup {NoEntry}] /\ until \in [Threads -> Times]
  BY Zenon, ThreadKinds
     DEF LimitValidationInterfaceQueue, MayProduce, LoaderEnds, IInv, TypeOK
<1>1. PICK q \in {"limit", "off"} : pc' = [pc EXCEPT ![p] = q]
  BY Zenon DEF LimitValidationInterfaceQueue, LoaderEnds
<1>2. Moved(p, q)
  BY Zenon, <1>0, <1>1, MovesAlone DEF IInv, AllPlaces, ProducerPlaces
<1>3. Allowed(p, q)
  BY Zenon, <1>0 DEF Allowed, ProducerPlaces
<1> QED
  BY <1>0, <1>2, <1>3, MoveStep

(* The end of a wait for a callback keeps the invariant.                   *)
LEMMA SyncReturnStep ==
    ASSUME IInv, NEW p \in Producers, SyncReturn(p)
    PROVE  IInv' /\ UNCHANGED <<m_callbacks_pending, Current>>
<1>0. /\ p \in Threads /\ p \notin Servers /\ p # Main
      /\ pc[p] = "sync" /\ pc' = [pc EXCEPT ![p] = "idle"]
      /\ taskQueue' = taskQueue /\ nThreadsServicingQueue' = nThreadsServicingQueue
      /\ stopRequested' = stopRequested
      /\ clock' = clock /\ entry' = entry /\ until' = until
      /\ m_callbacks_pending' = m_callbacks_pending
      /\ m_are_callbacks_running' = m_are_callbacks_running
      /\ callback' = callback /\ nAdded' = nAdded
      /\ promise' = [promise EXCEPT ![p] = NoCallback]
  BY ThreadKinds DEF SyncReturn, schedulerVars
<1>1. Moved(p, "idle")
  BY Zenon, <1>0, MovesAlone DEF IInv, AllPlaces, ProducerPlaces
<1>2. Allowed(p, "idle")
  BY Zenon, <1>0 DEF Allowed, ProducerPlaces, IInv, PlacesOK
<1>3. promise' \in [Producers -> Callbacks \cup {NoCallback}]
  BY Zenon, <1>0 DEF IInv, TypeOK
<1>4. TypeOK'
  BY Zenon, <1>0, <1>1, <1>3 DEF IInv, TypeOK, Moved, AllPlaces
<1>5. PlacesOK'
  BY Zenon, <1>0, <1>1, <1>2, PlacesKept
<1>6. Counted'
  BY Zenon, <1>0, <1>1, CountKept
<1>7. CallbackOK' /\ Current' = Current
  BY Zenon, <1>0, <1>1, CallbackKept
<1>8. PendingIsScheduled'
  BY <1>0, <1>1, PendingKept
<1> QED
  BY Zenon, <1>0, <1>4, <1>5, <1>6, <1>7, <1>8 DEF IInv

(* A request to stop keeps the invariant; of the producers only Loader can *)
(* be under way when it is made.                                           *)
LEMMA StopRequestStep ==
    ASSUME IInv, StopRequest
    PROVE  IInv' /\ UNCHANGED <<m_callbacks_pending, Current>>
<1>1. /\ pc[Main] = "up" /\ \A p \in Producers \ {Loader} : pc[p] = "idle"
      /\ stopRequested' = TRUE /\ pc' = [pc EXCEPT ![Main] = "stopping"]
      /\ taskQueue' = taskQueue /\ nThreadsServicingQueue' = nThreadsServicingQueue
      /\ clock' = clock /\ entry' = entry /\ until' = until
      /\ m_callbacks_pending' = m_callbacks_pending
      /\ m_are_callbacks_running' = m_are_callbacks_running
      /\ callback' = callback /\ promise' = promise /\ nAdded' = nAdded
  BY DEF StopRequest, clientVars
<1>2. Main \in Threads /\ Main \notin Servers /\ Main \notin Producers
  BY ThreadKinds
<1>3. Moved(Main, "stopping")
  BY Zenon, <1>1, <1>2, MovesAlone DEF IInv, AllPlaces, MainPlaces
<1>4. TypeOK'
  BY Zenon, <1>1, <1>3 DEF IInv, TypeOK, Moved, AllPlaces
<1>5. /\ pc'[Main] = "stopping" /\ \A u \in Threads \ {Main} : pc'[u] = pc[u]
  BY <1>1, <1>2 DEF IInv, TypeOK
<1>6. PlacesOK'
  BY <1>1, <1>2, <1>5, ThreadKinds DEF IInv, PlacesOK, MainPlaces, Emptying
<1>7. Counted'
  BY Zenon, <1>1, <1>2, <1>3, CountKept
<1>8. CallbackOK' /\ Current' = Current
  BY <1>1, <1>2, <1>3, CallbackKept
<1>9. PendingIsScheduled'
  BY <1>1, <1>2, <1>3, PendingKept
<1> QED
  BY <1>1, <1>4, <1>6, <1>7, <1>8, <1>9 DEF IInv

-----------------------------------------------------------------------------
(* serviceQueue.                                                           *)

(* n counts s as well as the others that service the queue.                *)
LEMMA LoopStep ==
    ASSUME IInv, NEW s \in Servers, NEW n \in Nat, pc[s] \in {"start", "woken"},
           n = Cardinality(Serving \cup {s}), Loop(s, n),
           UNCHANGED <<stopRequested, clientVars, clock, entry>>
    PROVE  IInv' /\ UNCHANGED <<m_callbacks_pending, Current>>
<1>0. /\ taskQueue' = taskQueue /\ stopRequested' = stopRequested
      /\ clock' = clock /\ entry' = entry
      /\ m_callbacks_pending' = m_callbacks_pending
      /\ m_are_callbacks_running' = m_are_callbacks_running
      /\ callback' = callback /\ promise' = promise /\ nAdded' = nAdded /\ s \in Threads
  BY ThreadKinds DEF Loop, clientVars
<1>1. PICK q \in {"off", "wait"} :
         /\ Moved(s, q)
         /\ nThreadsServicingQueue' = IF q = "off" THEN n - 1 ELSE n
         /\ until' \in [Threads -> Times]
  <2>0. Never \in Times /\ \A e \in Entries : e[2] \in Times
    BY SchedulerAssumption DEF Times, Never, Entries
  <2>1. CASE /\ nThreadsServicingQueue' = n - 1
             /\ pc' \in NotifyOne([pc EXCEPT ![s] = "off"])
             /\ until' = [until EXCEPT ![s] = Never]
    <3>1. Moved(s, "off")
      BY <1>0, <2>1, MovesAndNotifies DEF IInv, AllPlaces, ServerPlaces
    <3>2. until' \in [Threads -> Times]
      BY Zenon, <2>0, <2>1 DEF IInv, TypeOK
    <3> QED
      BY <2>1, <3>1, <3>2
  <2>2. CASE /\ nThreadsServicingQueue' = n
             /\ pc' = [pc EXCEPT ![s] = "wait"]
             /\ \E x \in Times : until' = [until EXCEPT ![s] = x]
    <3>1. Moved(s, "wait")
      BY Zenon, <1>0, <2>2, MovesAlone DEF IInv, AllPlaces, ServerPlaces
    <3>2. until' \in [Threads -> Times]
      BY Zenon, <2>2 DEF IInv, TypeOK
    <3> QED
      BY Zenon, <2>2, <3>1, <3>2
  <2> QED
    BY Zenon, <2>0, <2>1, <2>2 DEF Loop
<1>2. Allowed(s, q)
  BY <1>0, ThreadKinds DEF Allowed, ServerPlaces
<1>3. PlacesOK'
  BY Zenon, <1>0, <1>1, <1>2, PlacesKept
<1>4. Counted' /\ nThreadsServicingQueue' \in Nat
  <2>1. \A u \in Servers \ {s} : pc'[u] \in {"start", "off"} <=> pc[u] \in {"start", "off"}
    BY Zenon, <1>1, ThreadKinds DEF Moved
  <2>2. Serving' = IF q = "off" THEN (Serving \cup {s}) \ {s} ELSE Serving \cup {s}
    BY <1>1, <2>1 DEF Moved, Serving
  <2>3. IsFiniteSet(Serving \cup {s}) /\ Cardinality(Serving') \in Nat
    BY ServingIsFinite, FS_AddElement
  <2>4. Cardinality((Serving \cup {s}) \ {s}) = Cardinality(Serving \cup {s}) - 1
    BY Zenon, <2>3, FS_RemoveElement
  <2> QED
    BY <1>1, <2>2, <2>3, <2>4 DEF Counted
<1>5. TypeOK'
  BY Zenon, <1>0, <1>1, <1>4 DEF IInv, TypeOK, Moved, AllPlaces
<1>6. CallbackOK' /\ Current' = Current
  BY Zenon, <1>0, <1>1, CallbackKept
<1>7. PendingIsScheduled'
  BY Zenon, <1>0, <1>1, PendingKept
<1> QED
  BY Zenon, <1>0, <1>3, <1>4, <1>5, <1>6, <1>7 DEF IInv

(* A thread that takes a ProcessQueue off the queue is itself about to run *)
(* it.                                                                     *)
LEMMA TakeTaskStep ==
    ASSUME IInv, NEW s \in Servers, pc[s] = "woken", TakeTask(s),
           UNCHANGED <<stopRequested, clientVars, clock, entry>>
    PROVE  IInv' /\ UNCHANGED <<m_callbacks_pending, Current>>
<1>0. /\ nThreadsServicingQueue' = nThreadsServicingQueue /\ stopRequested' = stopRequested
      /\ clock' = clock /\ entry' = entry /\ until' = [until EXCEPT ![s] = Never]
      /\ m_callbacks_pending' = m_callbacks_pending
      /\ m_are_callbacks_running' = m_are_callbacks_running
      /\ callback' = callback /\ promise' = promise /\ nAdded' = nAdded /\ s \in Threads
  BY ThreadKinds DEF TakeTask, clientVars
<1>1. PICK e \in Entries : /\ taskQueue[e] > 0
                           /\ taskQueue' = [taskQueue EXCEPT ![e] = @ - 1]
                           /\ pc' = [pc EXCEPT ![s] = e[1]]
  BY Zenon DEF TakeTask, IsFront
<1>2. e[1] \in {"ProcessQueue", "job"} /\ e[2] \in Times /\ e = <<e[1], e[2]>>
  BY DEF Entries
<1>3. taskQueue' \in [Entries -> Nat] /\ \A d \in Entries \ {e} : taskQueue'[d] = taskQueue[d]
  BY <1>1 DEF IInv, TypeOK
<1>4. Moved(s, e[1])
  BY Zenon, <1>0, <1>1, <1>2, MovesAlone DEF IInv, AllPlaces, ServerPlaces
<1>5. Allowed(s, e[1])
  BY Zenon, <1>0, <1>2, ThreadKinds DEF Allowed, ServerPlaces
<1>6. until' \in [Threads -> Times]
  BY <1>0, SchedulerAssumption DEF IInv, TypeOK, Times, Never
<1>7. TypeOK'
  BY Zenon, <1>0, <1>3, <1>4, <1>6 DEF IInv, TypeOK, Moved, AllPlaces
<1>8. PlacesOK'
  BY Zenon, <1>0, <1>4, <1>5, PlacesKept
<1>9. Counted'
  BY Zenon, <1>0, <1>2, <1>4, CountKept
<1>10. CallbackOK' /\ Current' = Current
  BY Zenon, <1>0, <1>2, <1>4, CallbackKept
<1>11. PendingIsScheduled'
  <2>1. CASE e[1] = "ProcessQueue"
    BY <1>0, <1>4, <2>1 DEF PendingIsScheduled, Moved
  <2>2. CASE e[1] # "ProcessQueue"
    <3> SUFFICES ASSUME m_callbacks_pending # <<>>, ~m_are_callbacks_running
                 PROVE  PendingIsScheduled'
      BY Zenon, <1>0 DEF PendingIsScheduled
    <3>1. ASSUME NEW k \in Times, taskQueue[<<"ProcessQueue", k>>] > 0
          PROVE  PendingIsScheduled'
      <4>1. <<"ProcessQueue", k>> \in Entries \ {e}
        BY <1>2, <2>2 DEF Entries
      <4> QED
        BY <1>3, <3>1, <4>1 DEF PendingIsScheduled
    <3>2. ASSUME NEW u \in Threads, \/ pc[u] \in {"maybe", "ProcessQueue"}
                                    \/ pc[u] = "schedule" /\ entry[u][1] = "ProcessQueue"
          PROVE  PendingIsScheduled'
      <4>1. pc'[u] = pc[u] /\ entry'[u] = entry[u]
        BY <1>0, <1>4, <3>2 DEF Moved
      <4> QED
        BY Zenon, <3>2, <4>1 DEF PendingIsScheduled
    <3> QED
      BY Zenon, <3>1, <3>2 DEF IInv, PendingIsScheduled
  <2> QED
    BY <2>1, <2>2
<1> QED
  BY <1>0, <1>7, <1>8, <1>9, <1>10, <1>11 DEF IInv

(* Entering serviceQueue, going to sleep in it, taking a task and leaving  *)
(* it keep the invariant.                                                  *)
LEMMA ServiceSteps ==
    ASSUME IInv, NEW s \in Servers, ServiceQueue(s) \/ Resume(s)
    PROVE  IInv' /\ UNCHANGED <<m_callbacks_pending, Current>>
<1>0. nThreadsServicingQueue = Cardinality(Serving) /\ nThreadsServicingQueue \in Nat
  BY DEF IInv, Counted, TypeOK
<1>1. CASE ServiceQueue(s)
  <2>1. pc[s] = "start" /\ s \notin Serving
    BY <1>1 DEF ServiceQueue, Serving
  <2>2. nThreadsServicingQueue + 1 = Cardinality(Serving \cup {s})
    BY Zenon, <1>0, <2>1, ServingIsFinite, FS_AddElement
  <2> QED
    BY <1>0, <1>1, <2>1, <2>2, LoopStep DEF ServiceQueue
<1>2. CASE Resume(s)
  <2>1. pc[s] = "woken" /\ UNCHANGED <<stopRequested, clientVars, clock, entry>>
    BY Zenon, <1>2 DEF Resume
  <2>2. Serving \cup {s} = Serving
    BY <2>1 DEF Serving
  <2>3. CASE TakeTask(s)
    BY <2>1, <2>3, TakeTaskStep
  <2>4. CASE Loop(s, nThreadsServicingQueue)
    BY Zenon, <1>0, <2>1, <2>2, <2>4, LoopStep
  <2> QED
    BY Zenon, <1>2, <2>3, <2>4 DEF Resume
<1> QED
  BY <1>1, <1>2

(* The entry that schedule() puts on the queue takes over from the thread  *)
(* that was on its way to put it there.                                    *)
LEMMA ScheduleStep ==
    ASSUME IInv, NEW t \in Threads, Schedule(t)
    PROVE  IInv' /\ UNCHANGED <<m_callbacks_pending, Current>>
<1>0. /\ nThreadsServicingQueue' = nThreadsServicingQueue /\ stopRequested' = stopRequested
      /\ clock' = clock /\ until' = until
      /\ m_callbacks_pending' = m_callbacks_pending
      /\ m_are_callbacks_running' = m_are_callbacks_running
      /\ callback' = callback /\ promise' = promise /\ nAdded' = nAdded
      /\ pc[t] = "schedule" /\ pc' = [pc EXCEPT ![t] = "notify"]
      /\ taskQueue' = [taskQueue EXCEPT ![entry[t]] = @ + 1]
      /\ entry' = [entry EXCEPT ![t] = NoEntry]
  BY Zenon DEF Schedule, clientVars
<1>1. entry[t] \in Entries
  BY <1>0 DEF IInv, PlacesOK
<1>2. /\ taskQueue' \in [Entries -> Nat] /\ taskQueue'[entry[t]] > 0
      /\ \A e \in Entries : taskQueue'[e] >= taskQueue[e]
  BY <1>0, <1>1 DEF IInv, TypeOK
<1>3. /\ entry' \in [Threads -> Entries \cup {NoEntry}]
      /\ \A u \in Threads \ {t} : entry'[u] = entry[u]
  BY <1>0 DEF IInv, TypeOK
<1>4. Moved(t, "notify")
  BY Zenon, <1>0, MovesAlone DEF IInv, AllPlaces, ServerPlaces
<1>5. Allowed(t, "notify")
  BY Zenon, <1>0, ThreadKinds DEF Allowed, IInv, PlacesOK, ServerPlaces, ProducerPlaces, Emptying
<1>6. TypeOK'
  BY Zenon, <1>0, <1>2, <1>3, <1>4 DEF IInv, TypeOK, Moved, AllPlaces
<1>7. PlacesOK'
  BY <1>0, <1>3, <1>4, <1>5, PlacesKept
<1>8. Counted'
  BY <1>0, <1>4, CountKept
<1>9. CallbackOK' /\ Current' = Current
  BY Zenon, <1>0, <1>4, CallbackKept
<1>10. PendingIsScheduled'
  <2> SUFFICES ASSUME m_callbacks_pending # <<>>, ~m_are_callbacks_running
               PROVE  PendingIsScheduled'
    BY Zenon, <1>0 DEF PendingIsScheduled
  <2>1. CASE entry[t][1] = "ProcessQueue"
    <3>1. entry[t] = <<"ProcessQueue", entry[t][2]>> /\ entry[t][2] \in Times
      BY <1>1, <2>1 DEF Entries
    <3> QED
      BY Zenon, <1>2, <3>1 DEF PendingIsScheduled
  <2>2. ASSUME NEW k \in Times, taskQueue[<<"ProcessQueue", k>>] > 0
        PROVE  PendingIsScheduled'
    <3>1. <<"ProcessQueue", k>> \in Entries
      BY Zenon DEF Entries
    <3>2. taskQueue'[<<"ProcessQueue", k>>] > 0
      BY <1>2, <2>2, <3>1 DEF IInv, TypeOK
    <3> QED
      BY <3>2 DEF PendingIsScheduled
  <2>3. ASSUME NEW u \in Threads \ {t}, \/ pc[u] \in {"maybe", "ProcessQueue"}
                                        \/ pc[u] = "schedule" /\ entry[u][1] = "ProcessQueue"
        PROVE  PendingIsScheduled'
    <3>1. pc'[u] = pc[u] /\ entry'[u] = entry[u]
      BY <1>3, <1>4, <2>3 DEF Moved
    <3> QED
      BY Zenon, <2>3, <3>1 DEF PendingIsScheduled
  <2> QED
    BY Zenon, <1>0, <2>1, <2>2, <2>3 DEF IInv, PendingIsScheduled
<1> QED
  BY Zenon, <1>0, <1>6, <1>7, <1>8, <1>9, <1>10 DEF IInv

-----------------------------------------------------------------------------
(* The client.                                                             *)

(* What Add does to the types and to SerialQueue.                          *)
LEMMA AddIsAdd ==
    ASSUME IInv, Add(nAdded + 1), Current' = Current
    PROVE  /\ nAdded + 1 \in Callbacks /\ nAdded' \in 0..MaxCallbacks
           /\ m_callbacks_pending' \in Seq(Callbacks)
           /\ Serial!Next
<1>1. /\ m_callbacks_pending' = Append(m_callbacks_pending, nAdded + 1)
      /\ nAdded' = nAdded + 1 /\ nAdded < MaxCallbacks
  BY DEF Add
<1>2. nAdded + 1 \in Callbacks /\ nAdded' \in 0..MaxCallbacks
  BY <1>1, SchedulerAssumption DEF IInv, TypeOK, Callbacks
<1>3. m_callbacks_pending' \in Seq(Callbacks)
  BY <1>1, <1>2 DEF IInv, TypeOK
<1>4. Serial!Add(nAdded + 1)
  BY <1>1 DEF Serial!Add
<1> QED
  BY Zenon, <1>2, <1>3, <1>4 DEF Serial!Next

(* A callback that is added is seen to by the thread that added it, or by  *)
(* the end of the callback it was added from.                              *)
LEMMA AddSteps ==
    ASSUME IInv, NEW t \in Threads, Add(nAdded + 1),
           \/ AddToProcessQueue(t) \/ AddFromCallback(t)
           \/ t \in Producers /\ SyncWithValidationInterfaceQueue(t)
    PROVE  IInv' /\ Serial!Next
<1>0. /\ taskQueue' = taskQueue /\ nThreadsServicingQueue' = nThreadsServicingQueue
      /\ stopRequested' = stopRequested
      /\ clock' = clock /\ entry' = entry /\ until' = until
      /\ m_are_callbacks_running' = m_are_callbacks_running /\ callback' = callback
  BY Zenon DEF AddToProcessQueue, AddFromCallback, SyncWithValidationInterfaceQueue, schedulerVars
<1>1. PICK q \in {"maybe", "callback"} :
         /\ Moved(t, q) /\ Allowed(t, q)
         /\ q = "callback" <=> pc[t] = "callback"
         /\ t \in Servers => pc[t] \notin {"start", "off"}
  <2>1. CASE AddToProcessQueue(t)
    <3>1. \/ pc[t] = "idle" /\ (t = Loader \/ ~stopRequested)
          \/ pc[t] = "flush"
      BY Zenon, <2>1 DEF AddToProcessQueue, MayProduce
    <3>2. t \notin Servers
      BY Zenon, <3>1 DEF IInv, PlacesOK, ServerPlaces
    <3>3. t = Main => pc[t] = "flush"
      BY Zenon, <3>1 DEF IInv, PlacesOK, MainPlaces, Emptying
    <3>4. t \in Producers => pc[t] # "off" /\ (t = Loader \/ ~stopRequested)
      BY <3>1 DEF IInv, PlacesOK, ProducerPlaces
    <3>5. Moved(t, "maybe")
      BY Zenon, <2>1, MovesAlone DEF AddToProcessQueue, IInv, AllPlaces, ServerPlaces
    <3>6. Allowed(t, "maybe")
      BY Zenon, <3>2, <3>3, <3>4 DEF Allowed, ProducerPlaces, Emptying
    <3> QED
      BY Zenon, <3>1, <3>2, <3>5, <3>6
  <2>2. CASE AddFromCallback(t)
    <3>1. pc[t] = "callback" /\ pc' = pc
      BY Zenon, <2>2 DEF AddFromCallback
    <3>2. Moved(t, "callback")
      BY Zenon, <3>1 DEF Moved, IInv, TypeOK, AllPlaces
    <3>3. Allowed(t, "callback")
      BY Zenon, <3>1, ThreadKinds DEF Allowed, IInv, PlacesOK, ServerPlaces, ProducerPlaces, Emptying
    <3> QED
      BY Zenon, <3>1, <3>2, <3>3
  <2>3. CASE t \in Producers /\ SyncWithValidationInterfaceQueue(t)
    <3>1. pc[t] = "limit" /\ pc' = [pc EXCEPT ![t] = "maybe"]
      <4>1. nAdded < MaxCallbacks /\ nAdded # MaxCallbacks
        BY SchedulerAssumption DEF Add, IInv, TypeOK
      <4> QED
        BY Zenon, <2>3, <4>1 DEF SyncWithValidationInterfaceQueue
    <3>2. Moved(t, "maybe")
      BY Zenon, <3>1, MovesAlone DEF IInv, AllPlaces, ServerPlaces
    <3>3. t \notin Servers /\ t # Main
      BY <2>3, ThreadKinds
    <3>4. Allowed(t, "maybe")
      BY Zenon, <2>3, <3>1, <3>3 DEF Allowed, IInv, PlacesOK, ProducerPlaces
    <3> QED
      BY Zenon, <3>1, <3>2, <3>3, <3>4
  <2> QED
    BY Zenon, <2>1, <2>2, <2>3
<1>2. CallbackOK' /\ Current' = Current
  BY Zenon, <1>0, <1>1, CallbackKept
<1>3. /\ nAdded + 1 \in Callbacks /\ nAdded' \in 0..MaxCallbacks
      /\ m_callbacks_pending' \in Seq(Callbacks) /\ Serial!Next
  BY Zenon, <1>2, AddIsAdd
<1>4. promise' \in [Producers -> Callbacks \cup {NoCallback}]
  <2>1. promise' = promise \/ promise' = [promise EXCEPT ![t] = nAdded + 1]
    BY Zenon DEF AddToProcessQueue, AddFromCallback, SyncWithValidationInterfaceQueue
  <2> QED
    BY Zenon, <1>3, <2>1 DEF IInv, TypeOK
<1>5. TypeOK'
  BY Zenon, <1>0, <1>1, <1>3, <1>4 DEF IInv, TypeOK, Moved, AllPlaces
<1>6. PlacesOK'
  BY Zenon, <1>0, <1>1, PlacesKept
<1>7. Counted'
  BY Zenon, <1>0, <1>1, CountKept
<1>8. PendingIsScheduled'
  BY Zenon, <1>0, <1>1 DEF PendingIsScheduled, Moved, IInv, CallbackOK
<1> QED
  BY Zenon, <1>2, <1>3, <1>5, <1>6, <1>7, <1>8 DEF IInv

(* SyncWithValidationInterfaceQueue adds a callback, or stops at the bound.*)
LEMMA SyncStep ==
    ASSUME IInv, NEW p \in Producers, SyncWithValidationInterfaceQueue(p)
    PROVE  IInv' /\ [Serial!Next]_<<m_callbacks_pending, Current>>
<1>0. p \in Threads /\ p \notin Servers /\ p # Main /\ pc[p] = "limit"
  BY Zenon, ThreadKinds DEF SyncWithValidationInterfaceQueue
<1>1. CASE Add(nAdded + 1)
  BY Zenon, <1>0, <1>1, AddSteps
<1>2. CASE /\ nAdded = MaxCallbacks
           /\ pc' = [pc EXCEPT ![p] = "idle"]
           /\ UNCHANGED <<m_callbacks_pending, promise, nAdded>>
  <2>1. UNCHANGED <<schedulerVars, clientVars, clock, entry, until>>
    BY Zenon, <1>2 DEF SyncWithValidationInterfaceQueue, clientVars
  <2>2. Moved(p, "idle")
    BY Zenon, <1>0, <1>2, MovesAlone DEF IInv, AllPlaces, ProducerPlaces
  <2>3. Allowed(p, "idle")
    BY Zenon, <1>0 DEF Allowed, IInv, PlacesOK, ProducerPlaces
  <2>4. entry \in [Threads -> Entries \cup {NoEntry}] /\ until \in [Threads -> Times]
    BY Zenon DEF IInv, TypeOK
  <2>5. IInv' /\ UNCHANGED <<m_callbacks_pending, Current>>
    BY <1>0, <2>1, <2>2, <2>3, <2>4, MoveStep
  <2> QED
    BY Zenon, <2>5
<1> QED
  BY Zenon, <1>1, <1>2 DEF SyncWithValidationInterfaceQueue

(* The callback of the second flush has its ProcessQueue on the queue,     *)
(* though nobody will run it.                                              *)
LEMMA FinalFlushStep ==
    ASSUME IInv, FinalFlush
    PROVE  IInv' /\ [Serial!Next]_<<m_callbacks_pending, Current>>
<1>0. /\ Main \in Threads /\ Main \notin Servers /\ Main \notin Producers
      /\ pc[Main] = "emptied" /\ pc' = [pc EXCEPT ![Main] = "done"]
      /\ nThreadsServicingQueue' = nThreadsServicingQueue /\ stopRequested' = stopRequested
      /\ clock' = clock /\ entry' = entry /\ until' = until
      /\ m_are_callbacks_running' = m_are_callbacks_running
      /\ callback' = callback /\ promise' = promise
  BY Zenon, ThreadKinds DEF FinalFlush
<1>1. Moved(Main, "done")
  BY Zenon, <1>0, MovesAlone DEF IInv, AllPlaces, MainPlaces, Emptying
<1>2. Allowed(Main, "done")
  BY Zenon, <1>0 DEF Allowed, Emptying
<1>3. PlacesOK'
  BY Zenon, <1>0, <1>1, <1>2, PlacesKept
<1>4. Counted'
  BY Zenon, <1>0, <1>1, CountKept
<1>5. CallbackOK' /\ Current' = Current
  BY Zenon, <1>0, <1>1, CallbackKept
<1>6. CASE UNCHANGED <<m_callbacks_pending, nAdded, taskQueue>>
  <2>1. TypeOK'
    BY Zenon, <1>0, <1>1, <1>6 DEF IInv, TypeOK, Moved, AllPlaces
  <2>2. PendingIsScheduled'
    BY <1>0, <1>1, <1>6, PendingKept
  <2> QED
    BY Zenon, <1>3, <1>4, <1>5, <1>6, <2>1, <2>2 DEF IInv
<1>7. CASE /\ Add(nAdded + 1)
           /\ taskQueue' = [taskQueue EXCEPT ![<<"ProcessQueue", clock>>] = @ + 1]
  <2>1. /\ nAdded' \in 0..MaxCallbacks
        /\ m_callbacks_pending' \in Seq(Callbacks) /\ Serial!Next
    BY Zenon, <1>5, <1>7, AddIsAdd
  <2>2. clock \in Times /\ <<"ProcessQueue", clock>> \in Entries
    BY SchedulerAssumption DEF IInv, TypeOK, Entries, Times, Never
  <2>3. taskQueue' \in [Entries -> Nat] /\ taskQueue'[<<"ProcessQueue", clock>>] > 0
    BY <1>7, <2>2 DEF IInv, TypeOK
  <2>4. TypeOK'
    BY Zenon, <1>0, <1>1, <2>1, <2>3 DEF IInv, TypeOK, Moved, AllPlaces
  <2>5. PendingIsScheduled'
    BY Zenon, <2>2, <2>3 DEF PendingIsScheduled
  <2> QED
    BY Zenon, <1>3, <1>4, <1>5, <2>1, <2>4, <2>5 DEF IInv
<1> QED
  BY Zenon, <1>6, <1>7 DEF FinalFlush

(* ProcessQueue starts the oldest pending callback if none is running, and *)
(* does nothing otherwise.                                                 *)
LEMMA ProcessQueueStep ==
    ASSUME IInv, NEW t \in Threads, ProcessQueue(t)
    PROVE  IInv' /\ [Serial!Next]_<<m_callbacks_pending, Current>>
<1>0. /\ UNCHANGED <<schedulerVars, clock, entry, until>>
      /\ taskQueue' = taskQueue /\ nThreadsServicingQueue' = nThreadsServicingQueue
      /\ stopRequested' = stopRequested
      /\ clock' = clock /\ entry' = entry /\ until' = until
      /\ pc[t] = "ProcessQueue"
  BY DEF ProcessQueue, schedulerVars
<1>1. CASE /\ m_are_callbacks_running \/ m_callbacks_pending = <<>>
           /\ pc' = [pc EXCEPT ![t] = Returned(t)]
           /\ UNCHANGED clientVars
  <2>1. /\ Allowed(t, Returned(t)) /\ Returned(t) \in AllPlaces
        /\ Returned(t) \notin {"schedule", "callback", "start", "off"}
    BY <1>0, ReturnsAllowed
  <2>2. Moved(t, Returned(t))
    BY ZenonT(40), <1>1, <2>1, MovesAlone DEF IInv
  <2>3. IInv' /\ UNCHANGED <<m_callbacks_pending, Current>>
    BY SMTT(40), <1>0, <1>1, <2>1, <2>2, MoveStep DEF IInv, TypeOK
  <2> QED
    BY Zenon, <2>3
<1>2. CASE /\ ~m_are_callbacks_running /\ m_callbacks_pending # <<>>
           /\ m_are_callbacks_running' = TRUE
           /\ callback' = [callback EXCEPT ![t] = Head(m_callbacks_pending)]
           /\ m_callbacks_pending' = Tail(m_callbacks_pending)
           /\ pc' = [pc EXCEPT ![t] = "callback"]
           /\ UNCHANGED <<promise, nAdded>>
  <2>1. Head(m_callbacks_pending) \in Callbacks /\ Tail(m_callbacks_pending) \in Seq(Callbacks)
    BY <1>2 DEF IInv, TypeOK
  <2>2. Head(m_callbacks_pending) # NoCallback
    BY <2>1, SchedulerAssumption DEF Callbacks, NoCallback
  <2>3. Moved(t, "callback")
    BY ZenonT(40), <1>2, MovesAlone DEF IInv, AllPlaces, ServerPlaces
  <2>4. Allowed(t, "callback")
    BY ZenonT(40), <1>0, ThreadKinds DEF Allowed, IInv, PlacesOK, ServerPlaces, ProducerPlaces, Emptying
  <2>5. /\ callback' \in [Threads -> Callbacks \cup {NoCallback}]
        /\ callback'[t] = Head(m_callbacks_pending)
        /\ \A u \in Threads \ {t} : callback'[u] = callback[u]
    BY <1>2, <2>1 DEF IInv, TypeOK
  <2>6. \A u \in Threads : pc[u] # "callback"
    BY Zenon, <1>2 DEF IInv, CallbackOK
  <2>7. \A u \in Threads : pc'[u] = "callback" <=> u = t
    BY ZenonT(40), <2>3, <2>6 DEF Moved
  <2>8. TypeOK'
    BY ZenonT(40), <1>0, <1>2, <2>1, <2>3, <2>5 DEF IInv, TypeOK, Moved, AllPlaces
  <2>9. PlacesOK'
    BY <1>0, <2>3, <2>4, PlacesKept
  <2>10. Counted'
    BY Zenon, <1>0, <2>3, CountKept
  <2>11. CallbackOK'
    BY <1>2, <2>2, <2>5, <2>6, <2>7 DEF IInv, CallbackOK
  <2>12. PendingIsScheduled'
    BY <1>2 DEF PendingIsScheduled
  <2>13. Current = NoCallback
    BY <2>6 DEF Current
  <2>14. Current' = Head(m_callbacks_pending)
    <3>1. (CHOOSE u \in Threads : pc'[u] = "callback") = t
      BY Zenon, <2>7
    <3> QED
      BY <2>5, <2>7, <3>1 DEF Current
  <2>15. Serial!Start
    BY <1>2, <2>13, <2>14 DEF Serial!Start
  <2> QED
    BY Zenon, <2>8, <2>9, <2>10, <2>11, <2>12, <2>15 DEF IInv, Serial!Next
<1> QED
  BY Zenon, <1>1, <1>2 DEF ProcessQueue

(* At the end of a callback its thread looks whether another ProcessQueue  *)
(* is needed.                                                              *)
LEMMA FinishStep ==
    ASSUME IInv, NEW t \in Threads, FinishCallback(t)
    PROVE  IInv' /\ Serial!Next
<1>0. /\ taskQueue' = taskQueue /\ nThreadsServicingQueue' = nThreadsServicingQueue
      /\ stopRequested' = stopRequested
      /\ clock' = clock /\ entry' = entry /\ until' = until
      /\ m_callbacks_pending' = m_callbacks_pending /\ nAdded' = nAdded /\ promise' = promise
      /\ m_are_callbacks_running' = FALSE
      /\ callback' = [callback EXCEPT ![t] = NoCallback]
      /\ pc[t] = "callback" /\ pc' = [pc EXCEPT ![t] = "maybe"]
  BY DEF FinishCallback, schedulerVars
<1>1. Moved(t, "maybe")
  BY Zenon, <1>0, MovesAlone DEF IInv, AllPlaces, ServerPlaces
<1>2. Allowed(t, "maybe")
  BY Zenon, <1>0, ThreadKinds DEF Allowed, IInv, PlacesOK, ServerPlaces, ProducerPlaces, Emptying
<1>3. /\ callback' \in [Threads -> Callbacks \cup {NoCallback}]
      /\ callback'[t] = NoCallback
      /\ \A u \in Threads \ {t} : callback'[u] = callback[u]
  BY Zenon, <1>0 DEF IInv, TypeOK
<1>4. \A u \in Threads \ {t} : pc[u] # "callback"
  BY <1>0 DEF IInv, CallbackOK
<1>5. \A u \in Threads : pc'[u] # "callback"
  BY <1>1, <1>4 DEF Moved
<1>6. TypeOK'
  BY Zenon, <1>0, <1>1, <1>3 DEF IInv, TypeOK, Moved, AllPlaces
<1>7. PlacesOK'
  BY <1>0, <1>1, <1>2, PlacesKept
<1>8. Counted'
  BY <1>0, <1>1, CountKept
<1>9. CallbackOK'
  BY Zenon, <1>0, <1>3, <1>4, <1>5 DEF IInv, CallbackOK
<1>10. PendingIsScheduled'
  BY <1>1 DEF PendingIsScheduled, Moved
<1>11. Current # NoCallback
  <2>1. (CHOOSE u \in Threads : pc[u] = "callback") = t
    BY Zenon, <1>0, <1>4
  <2>2. callback[t] # NoCallback
    BY <1>0 DEF IInv, CallbackOK
  <2> QED
    BY Zenon, <1>0, <2>1, <2>2 DEF Current
<1>12. Current' = NoCallback
  BY <1>5 DEF Current
<1>13. Serial!Finish
  BY Zenon, <1>0, <1>11, <1>12 DEF Serial!Finish
<1> QED
  BY ZenonT(40), <1>6, <1>7, <1>8, <1>9, <1>10, <1>13 DEF IInv, Serial!Next

(* The clock does not matter to the invariant.                             *)
LEMMA TickStep ==
    ASSUME IInv, clock' \in 0..MaxTime,
           UNCHANGED <<schedulerVars, clientVars, pc, entry, until>>
    PROVE  IInv' /\ UNCHANGED <<m_callbacks_pending, Current>>
<1>1. /\ taskQueue' = taskQueue /\ nThreadsServicingQueue' = nThreadsServicingQueue
      /\ stopRequested' = stopRequested
      /\ m_callbacks_pending' = m_callbacks_pending
      /\ m_are_callbacks_running' = m_are_callbacks_running
      /\ callback' = callback /\ promise' = promise /\ nAdded' = nAdded
      /\ pc' = pc /\ entry' = entry /\ until' = until
  BY DEF schedulerVars, clientVars
<1>2. TypeOK'
  BY <1>1 DEF IInv, TypeOK
<1>3. PlacesOK' /\ CallbackOK' /\ PendingIsScheduled'
  BY Zenon, <1>1 DEF IInv, PlacesOK, CallbackOK, PendingIsScheduled
<1>4. Counted'
  BY <1>1 DEF IInv, Counted, Serving
<1>5. Current' = Current
  BY <1>1 DEF Current
<1> QED
  BY <1>1, <1>2, <1>3, <1>4, <1>5 DEF IInv

-----------------------------------------------------------------------------
(* The theorems.                                                           *)

(* A new scheduler satisfies the invariant.                                *)
LEMMA InitEstablishes ==
    ASSUME Init
    PROVE  IInv
<1>1. TypeOK
  <2>1. NoCallback \in Callbacks \cup {NoCallback} /\ Never \in Times
    BY SchedulerAssumption DEF Never, Times
  <2>2. nAdded \in 0..MaxCallbacks /\ clock \in 0..MaxTime
    BY SchedulerAssumption DEF Init
  <2>3. taskQueue \in [Entries -> Nat]
    BY Zenon DEF Init
  <2>4. pc \in [Threads -> ServerPlaces \cup ProducerPlaces \cup MainPlaces]
    BY DEF Init, ServerPlaces, ProducerPlaces, MainPlaces
  <2>5. m_callbacks_pending \in Seq(Callbacks)
    BY DEF Init
  <2>6. /\ entry \in [Threads -> Entries \cup {NoEntry}] /\ until \in [Threads -> Times]
        /\ callback \in [Threads -> Callbacks \cup {NoCallback}]
        /\ promise \in [Producers -> Callbacks \cup {NoCallback}]
    BY <2>1 DEF Init
  <2>7. /\ nThreadsServicingQueue \in Nat /\ stopRequested \in BOOLEAN
        /\ m_are_callbacks_running \in BOOLEAN
    BY Zenon DEF Init
  <2> QED
    BY <2>2, <2>3, <2>4, <2>5, <2>6, <2>7 DEF TypeOK
<1>2. /\ \A s \in Servers : pc[s] = "start" /\ \A p \in Producers : pc[p] = "idle"
      /\ pc[Main] = "up"
  BY ThreadKinds DEF Init
<1>3. PlacesOK
  BY <1>2, ThreadKinds DEF Init, PlacesOK, ServerPlaces, ProducerPlaces, MainPlaces, Emptying
<1>4. Counted
  <2>1. Serving = {}
    BY <1>2 DEF Serving
  <2> QED
    BY Zenon, <2>1, FS_EmptySet DEF Init, Counted
<1>5. CallbackOK
  BY <1>2, ThreadKinds DEF Init, CallbackOK
<1>6. PendingIsScheduled
  BY Zenon DEF Init, PendingIsScheduled
<1> QED
  BY <1>1, <1>3, <1>4, <1>5, <1>6 DEF IInv

(* Every step keeps the invariant and is a step of SerialQueue or not seen *)
(* by it.                                                                  *)
LEMMA NextKeeps ==
    ASSUME IInv, [Next]_vars
    PROVE  IInv' /\ [Serial!Next]_<<m_callbacks_pending, Current>>
<1>1. ASSUME NEW t \in Threads, Continue(t)
      PROVE  IInv' /\ [Serial!Next]_<<m_callbacks_pending, Current>>
  <2>1. CASE t \in Servers /\ (ServiceQueue(t) \/ TimeOut(t) \/ Resume(t) \/ Repeat(t))
    BY Zenon, <2>1, ServiceSteps, WakeSteps, RepeatStep
  <2>2. CASE StopNotify \/ StopJoin \/ JoinLoader \/ EmptyQueue
    BY <2>2, ShutdownMoves
  <2>3. CASE FinalFlush
    BY Zenon, <2>3, FinalFlushStep
  <2>4. CASE t \in Producers /\ (SyncWithValidationInterfaceQueue(t) \/ SyncReturn(t))
    BY Zenon, <2>4, SyncStep, SyncReturnStep
  <2>5. CASE t = Loader /\ LoaderEnds
    BY Zenon, <2>5, ThreadKinds, ProducerMoves
  <2>6. CASE Schedule(t) \/ ScheduleNotify(t) \/ MaybeScheduleProcessQueue(t)
    BY <2>6, ScheduleStep, ScheduleNotifyStep, MaybeScheduleStep
  <2>7. CASE ProcessQueue(t) \/ FinishCallback(t)
    BY Zenon, <2>7, ProcessQueueStep, FinishStep
  <2> QED
    BY ZenonT(40), <1>1, <2>1, <2>2, <2>3, <2>4, <2>5, <2>6, <2>7 DEF Continue
<1>2. ASSUME NEW t \in Threads, AddToProcessQueue(t) \/ AddFromCallback(t)
      PROVE  IInv' /\ [Serial!Next]_<<m_callbacks_pending, Current>>
  <2>1. Add(nAdded + 1)
    BY Zenon, <1>2 DEF AddToProcessQueue, AddFromCallback
  <2> QED
    BY Zenon, <1>2, <2>1, AddSteps
<1>3. ASSUME NEW p \in Producers, LimitValidationInterfaceQueue(p)
      PROVE  IInv' /\ [Serial!Next]_<<m_callbacks_pending, Current>>
  BY Zenon, <1>3, ProducerMoves
<1>4. ASSUME NEW s \in Servers, SpuriousWakeup(s)
      PROVE  IInv' /\ [Serial!Next]_<<m_callbacks_pending, Current>>
  BY <1>4, WakeSteps
<1>5. CASE StopRequest
  BY Zenon, <1>5, StopRequestStep
<1>6. CASE Tick
  <2>1. clock' \in 0..MaxTime
    BY <1>6, SchedulerAssumption DEF Tick, IInv, TypeOK
  <2> QED
    BY <1>6, <2>1, TickStep DEF Tick
<1>7. CASE UNCHANGED vars
  <2>1. clock' \in 0..MaxTime
    BY <1>7 DEF vars, IInv, TypeOK
  <2> QED
    BY <1>7, <2>1, TickStep DEF vars
<1> QED
  BY <1>1, <1>2, <1>3, <1>4, <1>5, <1>6, <1>7 DEF Next

(* The invariant holds in every state of the scheduler.                    *)
LEMMA IInvHolds == Spec => []IInv
<1>1. Init => IInv
  BY InitEstablishes
<1>2. IInv /\ [Next]_vars => IInv'
  BY NextKeeps
<1> QED
  BY <1>1, <1>2, PTL DEF Spec

(* Every variable of the scheduler and its client keeps its type; in       *)
(* particular nThreadsServicingQueue and the counts of tasks, which are    *)
(* decremented, are never negative.                                        *)
THEOREM SchedulerTypes == Spec => []TypeOK
<1>1. IInv => TypeOK
  BY DEF IInv
<1> QED
  BY <1>1, IInvHolds, PTL

(* MaybeScheduleProcessQueue and ProcessQueue, each looking at the flags   *)
(* in a section of its own, never leave a pending callback without a task  *)
(* or a thread that will see to it.                                        *)
THEOREM PendingStaysScheduled == Spec => []PendingIsScheduled
<1>1. IInv => PendingIsScheduled
  BY Zenon DEF IInv
<1> QED
  BY <1>1, IInvHolds, PTL

(* The assertions of EmptyQueue and of the destructor of CScheduler hold,  *)
(* with any number of servicing threads.                                   *)
THEOREM EmptyingIsAlone == Spec => []AloneWhenEmptying
<1>1. IInv => AloneWhenEmptying
  <2> SUFFICES ASSUME IInv, pc[Main] \in Emptying
               PROVE  /\ nThreadsServicingQueue = 0
                      /\ m_are_callbacks_running <=> pc[Main] = "callback"
    BY Zenon DEF AloneWhenEmptying
  <2>1. \A s \in Servers : pc[s] = "off"
    BY SMTT(40) DEF IInv, PlacesOK
  <2>2. Serving = {}
    BY <2>1 DEF Serving
  <2>3. nThreadsServicingQueue = 0
    BY ZenonT(40), <2>2, FS_EmptySet DEF IInv, Counted
  <2>4. \A t \in Threads : pc[t] = "callback" => t = Main
    BY <2>1, ThreadKinds DEF IInv, PlacesOK, ProducerPlaces
  <2> QED
    BY <2>3, <2>4, ThreadKinds DEF IInv, CallbackOK
<1> QED
  BY <1>1, IInvHolds, PTL

(* SingleThreadedSchedulerClient runs its callbacks one at a time and in   *)
(* order, on any number of threads of the scheduler and through shutdown.  *)
THEOREM CallbacksAreSerial == Spec => ImplementsSerialQueue
<1>1. Init => Serial!Init
  <2>1. Init => Current = NoCallback
    BY ThreadKinds DEF Init, Current
  <2> QED
    BY Zenon, <2>1 DEF Init, Serial!Init
<1>2. IInv /\ [Next]_vars => [Serial!Next]_(Serial!queueVars)
  BY NextKeeps DEF Serial!queueVars
<1> QED
  BY <1>1, <1>2, IInvHolds, PTL DEF Spec, ImplementsSerialQueue, Serial!Spec
=============================================================================
