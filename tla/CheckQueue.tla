----------------------------- MODULE CheckQueue -----------------------------
(***************************************************************************)
(* CCheckQueue and CCheckQueueControl: the pool of threads that verifies   *)
(* the scripts of a block.  A master thread opens a session (a control     *)
(* object), adds checks in batches, and joins the workers until all of     *)
(* them have run.  Every section under m_mutex is one step; the sections   *)
(* of different threads, the checks run outside the mutex and the          *)
(* notifications sent after it is released interleave.  A wait on a        *)
(* condition variable may also end by itself, as the standard allows.      *)
(*                                                                         *)
(* The order of the queue is left out: the code uses it as a stack because *)
(* the order of the results does not matter, so a batch is any part of it  *)
(* of the right size.  nNow, the size of the batch a thread has in hand,   *)
(* is the cardinality of batch[t], which is kept until it is accounted for.*)
(***************************************************************************)
EXTENDS Integers, FiniteSets

CONSTANTS Masters,      \* threads that connect blocks
          Workers,      \* script check threads
          Checks,       \* what can be added
          Valid,        \* the checks that return true
          NoMaster,
          nBatchSize

ASSUME QueueAssumption ==
    /\ Masters \cap Workers = {}
    /\ NoMaster \notin Masters \cup Workers
    /\ IsFiniteSet(Workers) /\ IsFiniteSet(Checks) /\ IsFiniteSet(Masters)
    /\ Valid \subseteq Checks
    /\ nBatchSize \in Nat \ {0}

Threads == Masters \cup Workers

VARIABLES queue,           \* the checks nobody has taken yet
          nTodo,           \* checks added and not accounted for
          nIdle, nTotal,   \* threads waiting, threads inside Loop
          fAllOk,          \* no failure accounted for in this session
          m_request_stop,
          pc,              \* where each thread is
          batch, fOk,      \* Loop's vChecks and fOk of each thread
          pool,            \* the thread that starts and stops the workers
          holder,          \* owner of m_control_mutex, or NoMaster
          added,           \* history: the checks of the session
          answer           \* what Loop returned to the session's master

counters == <<nTodo, nIdle, nTotal, fAllOk>>
sessionVars == <<holder, added, answer>>
vars == <<queue, counters, m_request_stop, pc, batch, fOk, pool, sessionVars>>

WorkerStates == {"off", "loop", "wait", "woken", "run"}
MasterStates == {"idle", "adding", "notify_one", "notify_all", "loop", "wait", "woken",
                 "run", "leave"}

Init ==
    /\ queue = {} /\ nTodo = 0 /\ nIdle = 0 /\ nTotal = 0 /\ fAllOk = TRUE
    /\ m_request_stop = FALSE
    /\ pc = [t \in Threads |-> IF t \in Workers THEN "off" ELSE "idle"]
    /\ batch = [t \in Threads |-> {}] /\ fOk = [t \in Threads |-> TRUE]
    /\ pool = "down"
    /\ holder = NoMaster /\ added = {} /\ answer = "pending"

Waiting(S) == {t \in S : pc[t] = "wait"}

Notify(S) == [t \in Threads |-> IF t \in S THEN "woken" ELSE pc[t]]

(* notify_one wakes some thread that waits on the condition variable, if   *)
(* any does; notify_all wakes all of them.                                 *)
NotifyOne(S) ==
    IF Waiting(S) = {} THEN {pc} ELSE {Notify({t}) : t \in Waiting(S)}

-----------------------------------------------------------------------------
(* Loop, the section under the mutex.  The lines before "logically, the do *)
(* loop starts here" leave the counters c and the program counters at.     *)

Counters(c) == nTodo' = c.todo /\ nIdle' = c.idle /\ nTotal' = c.total /\ fAllOk' = c.ok

(* Mutant: the status is not reset for the next session.                   *)
Return_KeepsStatus(t, c, at) ==
    /\ queue = {} /\ ~m_request_stop /\ t \in Masters /\ c.todo = 0
    /\ Counters([c EXCEPT !.total = @ - 1])
    /\ answer' = IF c.ok THEN "valid" ELSE "invalid"
    /\ pc' = [at EXCEPT ![t] = "leave"]
    /\ batch' = [batch EXCEPT ![t] = {}]
    /\ UNCHANGED <<queue, fOk>>

(* The master leaves with the result and resets it for the next session.   *)
Return(t, c, at) ==
    /\ queue = {} /\ ~m_request_stop /\ t \in Masters /\ c.todo = 0
    /\ Counters([c EXCEPT !.total = @ - 1, !.ok = TRUE])
    /\ answer' = IF c.ok THEN "valid" ELSE "invalid"
    /\ pc' = [at EXCEPT ![t] = "leave"]
    /\ batch' = [batch EXCEPT ![t] = {}]
    /\ UNCHANGED <<queue, fOk>>

WaitForWork(t, c, at) ==
    /\ queue = {} /\ ~m_request_stop /\ ~(t \in Masters /\ c.todo = 0)
    /\ Counters([c EXCEPT !.idle = @ + 1])
    /\ pc' = [at EXCEPT ![t] = "wait"]
    /\ batch' = [batch EXCEPT ![t] = {}]
    /\ UNCHANGED <<queue, fOk, answer>>

Exit(t, c, at) ==
    /\ m_request_stop
    /\ Counters(c)
    /\ pc' = [at EXCEPT ![t] = "off"]
    /\ batch' = [batch EXCEPT ![t] = {}]
    /\ UNCHANGED <<queue, fOk, answer>>

(* Never fewer than one check, never more than nBatchSize.                 *)
BatchSize(c) ==
    LET share == Cardinality(queue) \div (c.total + c.idle + 1)
    IN  IF share > nBatchSize THEN nBatchSize ELSE IF share < 1 THEN 1 ELSE share

Take(t, c, at) ==
    /\ queue # {} /\ ~m_request_stop
    /\ Counters(c)
    /\ \E S \in SUBSET queue :
          /\ Cardinality(S) = BatchSize(c)
          /\ queue' = queue \ S
          /\ batch' = [batch EXCEPT ![t] = S]
    /\ fOk' = [fOk EXCEPT ![t] = c.ok]
    /\ pc' = [at EXCEPT ![t] = "run"]
    /\ UNCHANGED answer

Proceed(t, c, at) ==
    /\ Return(t, c, at) \/ WaitForWork(t, c, at) \/ Exit(t, c, at) \/ Take(t, c, at)
    /\ UNCHANGED <<m_request_stop, pool, holder, added>>

(* The first iteration.                                                    *)
Enter(t) ==
    /\ pc[t] = "loop" /\ batch[t] = {}
    /\ Proceed(t, [todo |-> nTodo, idle |-> nIdle, total |-> nTotal + 1, ok |-> fAllOk], pc)

(* Mutant: the worker that finishes the last check does not tell the       *)
(* master.                                                                 *)
Account_NoNotify(t) ==
    /\ pc[t] = "loop" /\ batch[t] # {}
    /\ Proceed(t, [todo |-> nTodo - Cardinality(batch[t]), idle |-> nIdle, total |-> nTotal,
                   ok |-> fAllOk /\ fOk[t]], pc)

(* The clean-up of the batch that was just run; the worker that finishes   *)
(* the last check wakes the master.                                        *)
Account(t) ==
    /\ pc[t] = "loop" /\ batch[t] # {}
    /\ LET todo == nTodo - Cardinality(batch[t])
       IN  \E at \in IF todo = 0 /\ t \in Workers THEN NotifyOne(Masters) ELSE {pc} :
              Proceed(t, [todo |-> todo, idle |-> nIdle, total |-> nTotal,
                          ok |-> fAllOk /\ fOk[t]], at)

(* Mutant: a thread that comes back from wait is still counted as idle.    *)
Resume_StillIdle(t) ==
    /\ pc[t] = "woken"
    /\ Proceed(t, [todo |-> nTodo, idle |-> nIdle, total |-> nTotal, ok |-> fAllOk], pc)

(* A wait that ends: the thread has the mutex again.                       *)
Resume(t) ==
    /\ pc[t] = "woken"
    /\ Proceed(t, [todo |-> nTodo, idle |-> nIdle - 1, total |-> nTotal, ok |-> fAllOk], pc)

(* The checks are run outside the mutex, until one fails or when none has  *)
(* failed before.                                                          *)
RunChecks(t) ==
    /\ pc[t] = "run"
    /\ fOk' = [fOk EXCEPT ![t] = @ /\ batch[t] \subseteq Valid]
    /\ pc' = [pc EXCEPT ![t] = "loop"]
    /\ UNCHANGED <<queue, counters, m_request_stop, batch, pool, sessionVars>>

SpuriousWakeup(t) ==
    /\ pc[t] = "wait"
    /\ pc' = [pc EXCEPT ![t] = "woken"]
    /\ UNCHANGED <<queue, counters, m_request_stop, batch, fOk, pool, sessionVars>>

-----------------------------------------------------------------------------
(* The master's session: ConnectBlock and its control object.              *)

(* ConnectBlock makes its control while the workers are up.                *)
Begin(m) ==
    /\ pc[m] = "idle" /\ holder = NoMaster /\ pool = "up"
    /\ holder' = m /\ added' = {} /\ answer' = "pending"
    /\ pc' = [pc EXCEPT ![m] = "adding"]
    /\ UNCHANGED <<queue, counters, m_request_stop, batch, fOk, pool>>

(* Add: the checks are queued under the mutex and the workers notified     *)
(* after it is released.                                                   *)
Add(m, S) ==
    /\ pc[m] = "adding" /\ S # {}
    /\ queue' = queue \cup S
    /\ nTodo' = nTodo + Cardinality(S)
    /\ added' = added \cup S
    /\ pc' = [pc EXCEPT ![m] = IF Cardinality(S) = 1 THEN "notify_one" ELSE "notify_all"]
    /\ UNCHANGED <<nIdle, nTotal, fAllOk, m_request_stop, batch, fOk, pool, holder, answer>>

AddNotify(m) ==
    /\ \/ /\ pc[m] = "notify_one"
          /\ \E at \in NotifyOne(Workers) : pc' = [at EXCEPT ![m] = "adding"]
       \/ /\ pc[m] = "notify_all"
          /\ pc' = [Notify(Waiting(Workers)) EXCEPT ![m] = "adding"]
    /\ UNCHANGED <<queue, counters, m_request_stop, batch, fOk, pool, sessionVars>>

(* control.Wait(), or the destructor of control when ConnectBlock returns  *)
(* early on a block that is invalid for another reason.                    *)
CallWait(m) ==
    /\ pc[m] = "adding"
    /\ pc' = [pc EXCEPT ![m] = "loop"]
    /\ UNCHANGED <<queue, counters, m_request_stop, batch, fOk, pool, sessionVars>>

(* The end of ConnectBlock: control gives up m_control_mutex.              *)
Leave(m) ==
    /\ pc[m] = "leave"
    /\ holder' = NoMaster
    /\ pc' = [pc EXCEPT ![m] = "idle"]
    /\ UNCHANGED <<queue, counters, m_request_stop, batch, fOk, pool, added, answer>>

-----------------------------------------------------------------------------
(* The thread that starts the node and shuts it down.  It stops the        *)
(* workers after everything that connects blocks has been stopped.         *)

StartWorkerThreads ==
    /\ pool = "down" /\ holder = NoMaster
    /\ nIdle' = 0 /\ nTotal' = 0 /\ fAllOk' = TRUE
    /\ pc' = [t \in Threads |-> IF t \in Workers THEN "loop" ELSE pc[t]]
    /\ pool' = "up"
    /\ UNCHANGED <<queue, nTodo, m_request_stop, batch, fOk, sessionVars>>

StopRequest ==
    /\ pool = "up" /\ holder = NoMaster
    /\ m_request_stop' = TRUE
    /\ pool' = "stopping"
    /\ UNCHANGED <<queue, counters, pc, batch, fOk, sessionVars>>

(* Mutant: only one worker is told to stop.                                *)
StopNotify_One ==
    /\ pool = "stopping"
    /\ pc' \in NotifyOne(Workers)
    /\ pool' = "joining"
    /\ UNCHANGED <<queue, counters, m_request_stop, batch, fOk, sessionVars>>

StopNotify ==
    /\ pool = "stopping"
    /\ pc' = Notify(Waiting(Workers))
    /\ pool' = "joining"
    /\ UNCHANGED <<queue, counters, m_request_stop, batch, fOk, sessionVars>>

StopJoin ==
    /\ pool = "joining" /\ \A w \in Workers : pc[w] = "off"
    /\ m_request_stop' = FALSE
    /\ pool' = "down"
    /\ UNCHANGED <<queue, counters, pc, batch, fOk, sessionVars>>

-----------------------------------------------------------------------------
ThreadStep(t) == Enter(t) \/ Account(t) \/ Resume(t) \/ RunChecks(t)

Next ==
    \/ \E t \in Threads : ThreadStep(t) \/ SpuriousWakeup(t)
    \/ \E m \in Masters :
          \/ Begin(m) \/ AddNotify(m) \/ CallWait(m) \/ Leave(m)
          \/ \E S \in SUBSET (Checks \ added) : Add(m, S)
    \/ StartWorkerThreads \/ StopRequest \/ StopNotify \/ StopJoin

Spec == Init /\ [][Next]_vars

(* A thread that can take the mutex or run its checks eventually does, and *)
(* a stop that was begun is carried on.  Nothing is assumed of what the    *)
(* masters add, and spurious wake-ups need not happen.                     *)
FairSpec ==
    /\ Spec
    /\ \A t \in Threads : WF_vars(ThreadStep(t))
    /\ WF_vars(StopNotify) /\ WF_vars(StopJoin)

-----------------------------------------------------------------------------
(* Properties.                                                             *)

Outstanding == queue \cup UNION {batch[t] : t \in Threads}

\* Every variable has its type; no counter of Loop is ever negative.
TypeOK ==
    /\ queue \subseteq Checks
    /\ nTodo \in Nat /\ nIdle \in Nat /\ nTotal \in Nat /\ fAllOk \in BOOLEAN
    /\ m_request_stop \in BOOLEAN
    /\ pc \in [Threads -> WorkerStates \cup MasterStates]
    /\ batch \in [Threads -> SUBSET Checks]
    /\ fOk \in [Threads -> BOOLEAN]
    /\ pool \in {"down", "up", "stopping", "joining"}
    /\ holder \in Masters \cup {NoMaster}
    /\ added \subseteq Checks
    /\ answer \in {"pending", "valid", "invalid"}

\* The counters Loop decides by say what they should: nTodo counts the checks
\* queued or in some thread's batch, and nIdle the threads blocked in wait or
\* not yet back from it (the batch size assumes they will help).
CountersExact ==
    /\ nTodo = Cardinality(Outstanding)
    /\ nIdle = Cardinality({t \in Threads : pc[t] \in {"wait", "woken"}})

\* The pool of threads, with its batches, early exits and shared flag, answers
\* every session as a single thread would: with the conjunction of exactly
\* the checks added to it, and only once all are accounted for.
Session == INSTANCE CheckSession
ImplementsCheckSession == Session!Spec

\* Wait returns: no wake-up is lost between the two condition variables, and
\* the master never sleeps on after the last check was accounted for.
WaitReturns ==
    \A m \in Masters : (pc[m] \in {"loop", "wait", "woken", "run"}) ~> (pc[m] = "leave")

\* StopWorkerThreads joins every worker, wherever the request found it.
StopReturns == (pool = "stopping") ~> (pool = "down")
=============================================================================
