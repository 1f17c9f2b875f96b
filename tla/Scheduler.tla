----------------------------- MODULE Scheduler -----------------------------
(***************************************************************************)
(* CScheduler and SingleThreadedSchedulerClient: the queue behind the      *)
(* validation interface.  Several threads may service the scheduler; the   *)
(* client lets its callbacks run on any of them, one at a time, by putting *)
(* tasks named ProcessQueue on the scheduler's queue.  Every section under *)
(* newTaskMutex or m_callbacks_mutex is one step; what happens between two *)
(* sections, the tasks themselves and the notifications sent after a       *)
(* section interleave.  A wait may also end by itself.                     *)
(*                                                                         *)
(* One periodic task stands for the ones the node starts with              *)
(* scheduleEvery.  The queue is a bag of tasks and times: the order of two *)
(* tasks with the same time is left open.  A thread that finds too many    *)
(* callbacks pending adds one that fulfils a promise and waits for it.     *)
(*                                                                         *)
(* The shutdown thread stops the scheduler when the threads of the network *)
(* and of the servers are gone, then joins the thread that loads blocks,   *)
(* which until then may add callbacks and wait for them, adds the callback *)
(* of a flush, empties the queue itself and flushes once more.  Left out:  *)
(* StopWhenDrained and MockForward, which only tests call, and callbacks   *)
(* that throw, which end the node.                                         *)
(***************************************************************************)
EXTENDS Integers, Sequences, FiniteSets

CONSTANTS Servers,      \* threads running serviceQueue
          Producers,    \* threads calling AddToProcessQueue
          Loader,       \* of the Producers: the thread m_load_block
          Main,         \* the thread running Shutdown
          QueueLimit,   \* more pending callbacks than this are waited for (10 in the code)
          MaxCallbacks, \* bound: how many callbacks are ever added
          Delta,        \* period of the periodic task
          MaxTime       \* bound: the clock stops here

ASSUME SchedulerAssumption ==
    /\ IsFiniteSet(Servers)
    /\ Servers \cap Producers = {} /\ Main \notin Servers \cup Producers
    /\ Loader \in Producers /\ QueueLimit \in Nat
    /\ MaxCallbacks \in Nat /\ MaxTime \in Nat /\ Delta \in Nat \ {0}

Threads == Servers \cup Producers \cup {Main}
Callbacks == 1..MaxCallbacks       \* numbered in the order they are added
NoCallback == 0
Never == MaxTime + 1               \* later than the clock ever shows
Times == 0..Never
Entries == {"ProcessQueue", "job"} \X Times
NoEntry == <<"none", Never>>

ServerPlaces == {"start", "wait", "woken", "job", "ProcessQueue", "schedule", "notify",
                 "maybe", "callback", "off"}
ProducerPlaces == {"idle", "limit", "maybe", "schedule", "notify", "sync", "off"}
Emptying == {"flush", "check", "ProcessQueue", "schedule", "notify", "maybe", "callback",
             "emptied", "done"}
MainPlaces == {"up", "stopping", "joining", "loader"} \cup Emptying

VARIABLES taskQueue,              \* [Entries -> Nat], a bag
          nThreadsServicingQueue,
          stopRequested,
          clock,
          m_callbacks_pending,
          m_are_callbacks_running,
          pc,
          entry,                  \* per thread: what it is about to schedule, or NoEntry
          until,                  \* per thread: timeToWaitFor, or Never
          callback,               \* per thread: what ProcessQueue is running
          promise,                \* per producer: the callback it waits for, or NoCallback
          nAdded                  \* history: how many callbacks were added

schedulerVars == <<taskQueue, nThreadsServicingQueue, stopRequested>>
clientVars == <<m_callbacks_pending, m_are_callbacks_running, callback, promise, nAdded>>
vars == <<schedulerVars, clientVars, clock, pc, entry, until>>

At(t) == <<"job", IF clock + t > MaxTime THEN Never ELSE clock + t>>

Init ==
    /\ taskQueue = [e \in Entries |-> IF e = <<"job", 0>> THEN 1 ELSE 0]
    /\ nThreadsServicingQueue = 0 /\ stopRequested = FALSE /\ clock = 0
    /\ m_callbacks_pending = <<>> /\ m_are_callbacks_running = FALSE
    /\ pc = [t \in Threads |-> IF t \in Servers THEN "start"
                               ELSE IF t \in Producers THEN "idle" ELSE "up"]
    /\ entry = [t \in Threads |-> NoEntry]
    /\ until = [t \in Threads |-> Never]
    /\ callback = [t \in Threads |-> NoCallback]
    /\ promise = [p \in Producers |-> NoCallback]
    /\ nAdded = 0

Tick == clock < MaxTime /\ clock' = clock + 1
        /\ UNCHANGED <<schedulerVars, clientVars, pc, entry, until>>

-----------------------------------------------------------------------------
(* CScheduler.                                                             *)

Waiting == {t \in Servers : pc[t] = "wait"}

(* notify_one wakes some waiting thread, if there is one.                  *)
NotifyOne(at) ==
    IF Waiting = {} THEN {at} ELSE {[at EXCEPT ![t] = "woken"] : t \in Waiting}

IsEmpty == \A e \in Entries : taskQueue[e] = 0

IsFront(e) ==
    /\ taskQueue[e] > 0
    /\ \A d \in Entries : taskQueue[d] > 0 => e[2] <= d[2]

(* The loop of serviceQueue, from where the thread has newTaskMutex to     *)
(* where it gives it up.                                                   *)
Loop(s, n) ==
    /\ \/ /\ stopRequested
          /\ nThreadsServicingQueue' = n - 1
          /\ pc' \in NotifyOne([pc EXCEPT ![s] = "off"])
          /\ until' = [until EXCEPT ![s] = Never]
       \/ /\ ~stopRequested /\ IsEmpty
          /\ nThreadsServicingQueue' = n
          /\ pc' = [pc EXCEPT ![s] = "wait"]
          /\ until' = [until EXCEPT ![s] = Never]
       \/ /\ ~stopRequested
          /\ nThreadsServicingQueue' = n
          /\ pc' = [pc EXCEPT ![s] = "wait"]
          /\ \E e \in Entries : IsFront(e) /\ until' = [until EXCEPT ![s] = e[2]]
    /\ UNCHANGED taskQueue

(* The break out of the second wait: the thread takes what is at the front *)
(* now, which need not be the task it was waiting for.                     *)
TakeTask(s) ==
    /\ ~stopRequested
    /\ \E e \in Entries :
          /\ IsFront(e)
          /\ taskQueue' = [taskQueue EXCEPT ![e] = @ - 1]
          /\ pc' = [pc EXCEPT ![s] = e[1]]
    /\ until' = [until EXCEPT ![s] = Never]
    /\ UNCHANGED nThreadsServicingQueue

ServiceQueue(s) ==
    /\ pc[s] = "start"
    /\ Loop(s, nThreadsServicingQueue + 1)
    /\ UNCHANGED <<stopRequested, clientVars, clock, entry>>

TimeOut(s) ==
    /\ pc[s] = "wait" /\ until[s] <= clock
    /\ pc' = [pc EXCEPT ![s] = "woken"]
    /\ UNCHANGED <<schedulerVars, clientVars, clock, entry, until>>

SpuriousWakeup(s) ==
    /\ pc[s] = "wait"
    /\ pc' = [pc EXCEPT ![s] = "woken"]
    /\ UNCHANGED <<schedulerVars, clientVars, clock, entry, until>>

(* A wait has ended or a task has been run, and the thread has the mutex   *)
(* again.  wait_until returns timeout when its time has passed, also if it *)
(* was notified.                                                           *)
Resume(s) ==
    /\ pc[s] = "woken"
    /\ IF until[s] <= clock /\ ~stopRequested /\ ~IsEmpty
       THEN TakeTask(s)
       ELSE Loop(s, nThreadsServicingQueue)
    /\ UNCHANGED <<stopRequested, clientVars, clock, entry>>

(* The end of a task, of AddToProcessQueue, or of a ProcessQueue that the  *)
(* shutdown thread called.  A thread that has added a promise waits next.  *)
Returned(t) ==
    IF t \in Servers THEN "woken" ELSE IF t = Main THEN "check"
    ELSE IF promise[t] = NoCallback THEN "idle" ELSE "sync"

(* Repeat, after the periodic function: it is scheduled again.             *)
Repeat(s) ==
    /\ pc[s] = "job"
    /\ entry' = [entry EXCEPT ![s] = At(Delta)]
    /\ pc' = [pc EXCEPT ![s] = "schedule"]
    /\ UNCHANGED <<schedulerVars, clientVars, clock, until>>

Schedule(t) ==
    /\ pc[t] = "schedule"
    /\ taskQueue' = [taskQueue EXCEPT ![entry[t]] = @ + 1]
    /\ entry' = [entry EXCEPT ![t] = NoEntry]
    /\ pc' = [pc EXCEPT ![t] = "notify"]
    /\ UNCHANGED <<nThreadsServicingQueue, stopRequested, clientVars, clock, until>>

(* Mutant: nobody is woken for a new task.                                 *)
ScheduleNotify_None(t) ==
    /\ pc[t] = "notify"
    /\ pc' = [pc EXCEPT ![t] = Returned(t)]
    /\ UNCHANGED <<schedulerVars, clientVars, clock, entry, until>>

ScheduleNotify(t) ==
    /\ pc[t] = "notify"
    /\ pc' \in NotifyOne([pc EXCEPT ![t] = Returned(t)])
    /\ UNCHANGED <<schedulerVars, clientVars, clock, entry, until>>

-----------------------------------------------------------------------------
(* SingleThreadedSchedulerClient.                                          *)

Add(c) ==
    /\ c = nAdded + 1 /\ nAdded < MaxCallbacks
    /\ m_callbacks_pending' = Append(m_callbacks_pending, c)
    /\ nAdded' = c

(* When the scheduler is stopped, only one producer may still be there.    *)
MayProduce(t) == pc[t] = "idle" /\ (t = Loader \/ ~stopRequested)

AddToProcessQueue(t) ==
    /\ MayProduce(t) \/ pc[t] = "flush"
    /\ Add(nAdded + 1)
    /\ pc' = [pc EXCEPT ![t] = "maybe"]
    /\ UNCHANGED <<schedulerVars, m_are_callbacks_running, callback, promise, clock, entry, until>>

(* A callback that adds another: MaybeScheduleProcessQueue returns, because*)
(* callbacks are running.  One that fulfils a promise does nothing else.   *)
AddFromCallback(t) ==
    /\ pc[t] = "callback" /\ \A p \in Producers : promise[p] # callback[t]
    /\ Add(nAdded + 1)
    /\ UNCHANGED <<schedulerVars, m_are_callbacks_running, callback, promise, clock, pc, entry, until>>

(* CallbacksPending is looked at before a callback is added.               *)
LimitValidationInterfaceQueue(p) ==
    /\ MayProduce(p) /\ nAdded < MaxCallbacks
    /\ Len(m_callbacks_pending) > QueueLimit
    /\ pc' = [pc EXCEPT ![p] = "limit"]
    /\ UNCHANGED <<schedulerVars, clientVars, clock, entry, until>>

(* At the bound MaxCallbacks the wait is left out.                         *)
SyncWithValidationInterfaceQueue(p) ==
    /\ pc[p] = "limit"
    /\ \/ /\ Add(nAdded + 1)
          /\ promise' = [promise EXCEPT ![p] = nAdded + 1]
          /\ pc' = [pc EXCEPT ![p] = "maybe"]
       \/ /\ nAdded = MaxCallbacks
          /\ pc' = [pc EXCEPT ![p] = "idle"]
          /\ UNCHANGED <<m_callbacks_pending, promise, nAdded>>
    /\ UNCHANGED <<schedulerVars, m_are_callbacks_running, callback, clock, entry, until>>

IsPending(c) == \E i \in DOMAIN m_callbacks_pending : m_callbacks_pending[i] = c

(* The wait on the future ends once the callback has been started.         *)
SyncReturn(p) ==
    /\ pc[p] = "sync" /\ ~IsPending(promise[p])
    /\ promise' = [promise EXCEPT ![p] = NoCallback]
    /\ pc' = [pc EXCEPT ![p] = "idle"]
    /\ UNCHANGED <<schedulerVars, m_callbacks_pending, m_are_callbacks_running, callback, nAdded,
                   clock, entry, until>>

(* ThreadImport sees that a shutdown is requested.  That it can have ended *)
(* before is the same to the others as that it adds nothing more.          *)
LoaderEnds ==
    /\ pc[Loader] = "idle" /\ stopRequested
    /\ pc' = [pc EXCEPT ![Loader] = "off"]
    /\ UNCHANGED <<schedulerVars, clientVars, clock, entry, until>>

MaybeScheduleProcessQueue(t) ==
    /\ pc[t] = "maybe"
    /\ \/ /\ m_are_callbacks_running \/ m_callbacks_pending = <<>>
          /\ pc' = [pc EXCEPT ![t] = Returned(t)]
          /\ UNCHANGED entry
       \/ /\ ~m_are_callbacks_running /\ m_callbacks_pending # <<>>
          /\ pc' = [pc EXCEPT ![t] = "schedule"]
          /\ entry' = [entry EXCEPT ![t] = <<"ProcessQueue", clock>>]
    /\ UNCHANGED <<schedulerVars, clientVars, clock, until>>

(* Mutant: a second ProcessQueue does not see that callbacks are running.  *)
ProcessQueue_Unchecked(t) ==
    /\ pc[t] = "ProcessQueue"
    /\ \/ /\ m_callbacks_pending = <<>>
          /\ pc' = [pc EXCEPT ![t] = Returned(t)]
          /\ UNCHANGED clientVars
       \/ /\ m_callbacks_pending # <<>>
          /\ m_are_callbacks_running' = TRUE
          /\ callback' = [callback EXCEPT ![t] = Head(m_callbacks_pending)]
          /\ m_callbacks_pending' = Tail(m_callbacks_pending)
          /\ pc' = [pc EXCEPT ![t] = "callback"]
          /\ UNCHANGED <<promise, nAdded>>
    /\ UNCHANGED <<schedulerVars, clock, entry, until>>

ProcessQueue(t) ==
    /\ pc[t] = "ProcessQueue"
    /\ \/ /\ m_are_callbacks_running \/ m_callbacks_pending = <<>>
          /\ pc' = [pc EXCEPT ![t] = Returned(t)]
          /\ UNCHANGED clientVars
       \/ /\ ~m_are_callbacks_running /\ m_callbacks_pending # <<>>
          /\ m_are_callbacks_running' = TRUE
          /\ callback' = [callback EXCEPT ![t] = Head(m_callbacks_pending)]
          /\ m_callbacks_pending' = Tail(m_callbacks_pending)
          /\ pc' = [pc EXCEPT ![t] = "callback"]
          /\ UNCHANGED <<promise, nAdded>>
    /\ UNCHANGED <<schedulerVars, clock, entry, until>>

(* Mutant: nobody looks for more callbacks when one has ended.             *)
FinishCallback_NoMaybe(t) ==
    /\ pc[t] = "callback"
    /\ m_are_callbacks_running' = FALSE
    /\ callback' = [callback EXCEPT ![t] = NoCallback]
    /\ pc' = [pc EXCEPT ![t] = Returned(t)]
    /\ UNCHANGED <<schedulerVars, m_callbacks_pending, promise, nAdded, clock, entry, until>>

(* The callback returns and the destructor of RAIICallbacksRunning clears  *)
(* the flag; it then calls MaybeScheduleProcessQueue.                      *)
FinishCallback(t) ==
    /\ pc[t] = "callback"
    /\ m_are_callbacks_running' = FALSE
    /\ callback' = [callback EXCEPT ![t] = NoCallback]
    /\ pc' = [pc EXCEPT ![t] = "maybe"]
    /\ UNCHANGED <<schedulerVars, m_callbacks_pending, promise, nAdded, clock, entry, until>>

-----------------------------------------------------------------------------
(* Shutdown: CScheduler::stop, the join of m_load_block, the flushes and   *)
(* EmptyQueue.                                                             *)

(* The servers and the connection manager have been stopped.               *)
StopRequest ==
    /\ pc[Main] = "up" /\ \A p \in Producers \ {Loader} : pc[p] = "idle"
    /\ stopRequested' = TRUE
    /\ pc' = [pc EXCEPT ![Main] = "stopping"]
    /\ UNCHANGED <<taskQueue, nThreadsServicingQueue, clientVars, clock, entry, until>>

(* Mutant: the waiting threads are not told.                               *)
StopNotify_None ==
    /\ pc[Main] = "stopping"
    /\ pc' = [pc EXCEPT ![Main] = "joining"]
    /\ UNCHANGED <<schedulerVars, clientVars, clock, entry, until>>

StopNotify ==
    /\ pc[Main] = "stopping"
    /\ pc' = [t \in Threads |-> IF t = Main THEN "joining"
                                ELSE IF t \in Waiting THEN "woken" ELSE pc[t]]
    /\ UNCHANGED <<schedulerVars, clientVars, clock, entry, until>>

(* Mutant: stop does not join the servicing threads.                       *)
StopJoin_NoWait ==
    /\ pc[Main] = "joining"
    /\ pc' = [pc EXCEPT ![Main] = "loader"]
    /\ UNCHANGED <<schedulerVars, clientVars, clock, entry, until>>

StopJoin ==
    /\ pc[Main] = "joining" /\ \A s \in Servers : pc[s] = "off"
    /\ pc' = [pc EXCEPT ![Main] = "loader"]
    /\ UNCHANGED <<schedulerVars, clientVars, clock, entry, until>>

JoinLoader ==
    /\ pc[Main] = "loader" /\ pc[Loader] = "off"
    /\ pc' = [pc EXCEPT ![Main] = "flush"]
    /\ UNCHANGED <<schedulerVars, clientVars, clock, entry, until>>

(* One round of EmptyQueue, or its end.                                    *)
EmptyQueue ==
    /\ pc[Main] \in {"flush", "check"}
    /\ pc' = [pc EXCEPT ![Main] = IF pc[Main] = "flush" \/ m_callbacks_pending # <<>>
                                  THEN "ProcessQueue" ELSE "emptied"]
    /\ UNCHANGED <<schedulerVars, clientVars, clock, entry, until>>

(* The second flush, which adds a callback and schedules a ProcessQueue    *)
(* that nobody is left to run, or finds nothing to flush.                  *)
FinalFlush ==
    /\ pc[Main] = "emptied"
    /\ pc' = [pc EXCEPT ![Main] = "done"]
    /\ \/ /\ Add(nAdded + 1)
          /\ taskQueue' = [taskQueue EXCEPT ![<<"ProcessQueue", clock>>] = @ + 1]
       \/ UNCHANGED <<m_callbacks_pending, nAdded, taskQueue>>
    /\ UNCHANGED <<nThreadsServicingQueue, stopRequested, m_are_callbacks_running, callback, promise,
                   clock, entry, until>>

-----------------------------------------------------------------------------
(* The steps of a thread that is inside one of the operations.             *)
Continue(t) ==
    \/ t \in Servers /\ (ServiceQueue(t) \/ TimeOut(t) \/ Resume(t) \/ Repeat(t))
    \/ t \in Producers /\ (SyncWithValidationInterfaceQueue(t) \/ SyncReturn(t))
    \/ t = Loader /\ LoaderEnds
    \/ t = Main /\ (StopNotify \/ StopJoin \/ JoinLoader \/ EmptyQueue \/ FinalFlush)
    \/ Schedule(t) \/ ScheduleNotify(t)
    \/ MaybeScheduleProcessQueue(t) \/ ProcessQueue(t) \/ FinishCallback(t)

Next ==
    \/ \E t \in Threads : Continue(t) \/ AddToProcessQueue(t) \/ AddFromCallback(t)
    \/ \E p \in Producers : LimitValidationInterfaceQueue(p)
    \/ \E s \in Servers : SpuriousWakeup(s)
    \/ StopRequest
    \/ Tick

Spec == Init /\ [][Next]_vars

(* Every thread that is inside an operation goes on: it gets the mutex it  *)
(* waits for, its task or callback ends, its time-out is delivered; and    *)
(* ThreadImport comes to its end.                                          *)
FairSpec == Spec /\ \A t \in Threads : WF_vars(Continue(t))

-----------------------------------------------------------------------------
(* Properties.                                                             *)

\* Every variable keeps the type of what it models.
TypeOK ==
    /\ taskQueue \in [Entries -> Nat]
    /\ nThreadsServicingQueue \in Nat
    /\ stopRequested \in BOOLEAN
    /\ clock \in 0..MaxTime
    /\ m_callbacks_pending \in Seq(Callbacks)
    /\ m_are_callbacks_running \in BOOLEAN
    /\ pc \in [Threads -> ServerPlaces \cup ProducerPlaces \cup MainPlaces]
    /\ entry \in [Threads -> Entries \cup {NoEntry}]
    /\ until \in [Threads -> Times]
    /\ callback \in [Threads -> Callbacks \cup {NoCallback}]
    /\ promise \in [Producers -> Callbacks \cup {NoCallback}]
    /\ nAdded \in 0..MaxCallbacks

\* A callback that waits while none is running is never forgotten: a task
\* ProcessQueue is on the scheduler's queue, or a thread is about to run one
\* or to look whether one is needed.  It is by this that the checks for
\* callbacks running and pending, made in sections of their own, suffice.
PendingIsScheduled ==
    m_callbacks_pending # <<>> /\ ~m_are_callbacks_running =>
       \/ \E n \in Times : taskQueue[<<"ProcessQueue", n>>] > 0
       \/ \E t \in Threads : \/ pc[t] \in {"maybe", "ProcessQueue"}
                             \/ pc[t] = "schedule" /\ entry[t][1] = "ProcessQueue"

\* The assertions of EmptyQueue and of ~CScheduler: nobody services the queue
\* when the shutdown thread empties it, and no callback is being run by
\* anybody else, so that EmptyQueue does not spin.
AloneWhenEmptying ==
    pc[Main] \in Emptying =>
       /\ nThreadsServicingQueue = 0
       /\ m_are_callbacks_running <=> pc[Main] = "callback"

(* The callback that is being run.                                         *)
Current ==
    IF \E t \in Threads : pc[t] = "callback"
    THEN callback[CHOOSE t \in Threads : pc[t] = "callback"]
    ELSE NoCallback

\* Callbacks run one at a time and in the order in which they were added,
\* whatever thread services the scheduler, and also while it is shut down.
Serial == INSTANCE SerialQueue WITH pending <- m_callbacks_pending, current <- Current
ImplementsSerialQueue == Serial!Spec

(* The thread that loads blocks waits for a callback that no thread is     *)
(* left to run.                                                            *)
LoaderStuck ==
    /\ pc[Loader] = "sync" /\ IsPending(promise[Loader])
    /\ stopRequested /\ \A s \in Servers : pc[s] = "off"

\* Every callback that is added before the end of FlushBackgroundCallbacks is
\* run, by a servicing thread or, if a shutdown comes first, by EmptyQueue: no
\* wake-up and no ProcessQueue is lost.  Only the thread that loads blocks,
\* waiting where nobody can answer, can keep a callback from running.
EveryCallbackRuns ==
    \A c \in Callbacks : (IsPending(c) /\ pc[Main] # "done")
                            ~> (LoaderStuck \/ \E t \in Threads : callback[t] = c)

\* A shutdown gets past joining the scheduler's threads, the join of the
\* thread that loads blocks and EmptyQueue, unless that thread is stuck.
OnlyTheLoaderHangs == (pc[Main] = "stopping") ~> (pc[Main] = "done" \/ LoaderStuck)

\* What Shutdown says of its stop of the scheduler and the load block thread,
\* that both are stopped before things get flushed: it gets past them.
ShutdownEnds == (pc[Main] = "stopping") ~> (pc[Main] = "done")
=============================================================================
