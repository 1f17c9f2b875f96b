-------------------------- MODULE CheckQueueProofs --------------------------
(***************************************************************************)
(* Proofs about CheckQueue, for any number of masters, workers and checks. *)
(*                                                                         *)
(* The argument: every check of the session that has not been accounted    *)
(* for is in the queue or in exactly one thread's batch, and the flags     *)
(* fAllOk and fOk together know of every check that has been run.  When    *)
(* nTodo reaches 0 nothing is left, so fAllOk is the verdict on all the    *)
(* checks added.  The three ways into the loop of CCheckQueue::Loop        *)
(* (Enter, Account, Resume) reach the state described by Ready; what       *)
(* follows is the same for all.                                            *)
(***************************************************************************)
EXTENDS CheckQueue, FiniteSetTheorems, TLAPS

Blocked == {t \in Threads : pc[t] \in {"wait", "woken"}}

Active == holder # NoMaster /\ answer = "pending"

(* ok is what is known of the checks of the session except those of out.   *)
Knows(out, ok) ==
    /\ out \subseteq added
    /\ ~Active => out = {} /\ ok
    /\ Active => IF ok THEN added \ out \subseteq Valid ELSE ~(added \subseteq Valid)

(* The batch of a thread is its own, it is run or waits to be accounted    *)
(* for, and its flag tells the truth about it.                             *)
BatchOK(t) ==
    /\ batch[t] \cap queue = {}
    /\ \A u \in Threads \ {t} : batch[t] \cap batch[u] = {}
    /\ batch[t] # {} => pc[t] \in {"run", "loop"}
    /\ batch[t] # {} /\ ~fOk[t] => ~(added \subseteq Valid)
    /\ batch[t] # {} /\ fOk[t] /\ pc[t] = "loop" => batch[t] \subseteq Valid

(* Where the threads are, who has a session, and the pool.                 *)
PlacesOK ==
    /\ \A w \in Workers : pc[w] \in WorkerStates
    /\ \A m \in Masters : pc[m] \in MasterStates /\ (pc[m] # "idle" <=> holder = m)
    /\ \A m \in Masters : holder = m => (pc[m] = "leave" <=> answer # "pending")
    /\ \A m \in Masters : pc[m] \in {"wait", "woken", "run"} \/ batch[m] # {} => nTotal >= 1
    /\ m_request_stop <=> pool \in {"stopping", "joining"}
    /\ pool # "up" => holder = NoMaster
    /\ pool = "down" => \A w \in Workers : pc[w] = "off"

IInv ==
    /\ TypeOK
    /\ CountersExact
    /\ PlacesOK
    /\ \A t \in Threads : BatchOK(t)
    /\ Knows(Outstanding, fAllOk)

(* What is outstanding apart from the batch of t.                          *)
Held(t) == queue \cup UNION {batch[u] : u \in Threads \ {t}}

(* Thread t has done with its batch, if it had one, and is not counted as  *)
(* idle; c and at are the counters and places that result.                 *)
Ready(t, c, at) ==
    /\ pc[t] \in {"loop", "woken"}
    /\ at \in [Threads -> WorkerStates \cup MasterStates]
    /\ \A u \in Threads : at[u] = pc[u] \/ (pc[u] = "wait" /\ at[u] = "woken")
    /\ c \in [todo : Nat, idle : Nat, total : Nat, ok : BOOLEAN]
    /\ c.todo = Cardinality(Held(t))
    /\ c.idle = Cardinality({u \in Threads \ {t} : pc[u] \in {"wait", "woken"}})
    /\ t \in Masters => c.total >= 1
    /\ c.total >= nTotal
    /\ Knows(Held(t), c.ok)

-----------------------------------------------------------------------------
(* Which checks are outstanding, and how many there can be.                *)

(* A check is outstanding when it is queued or in some thread's batch.     *)
LEMMA Members ==
    ASSUME NEW x, NEW t \in Threads
    PROVE  /\ x \in Outstanding <=> x \in queue \/ \E u \in Threads : x \in batch[u]
           /\ x \in Held(t) <=> x \in queue \/ \E u \in Threads \ {t} : x \in batch[u]
BY Zenon DEF Outstanding, Held

(* The sets that nTodo and nIdle count are finite.                         *)
LEMMA Finite ==
    ASSUME TypeOK
    PROVE  /\ IsFiniteSet(Threads)
           /\ \A S \in SUBSET Threads : IsFiniteSet(S) /\ Cardinality(S) \in Nat
           /\ \A S \in SUBSET Checks : IsFiniteSet(S) /\ Cardinality(S) \in Nat
           /\ Outstanding \in SUBSET Checks
           /\ \A t \in Threads : Held(t) \in SUBSET Checks
<1>1. IsFiniteSet(Threads)
  BY Zenon, QueueAssumption, FS_Union DEF Threads
<1>2. \A S \in SUBSET Threads : IsFiniteSet(S) /\ Cardinality(S) \in Nat
  BY <1>1, FS_Subset, FS_CardinalityType
<1>3. \A S \in SUBSET Checks : IsFiniteSet(S) /\ Cardinality(S) \in Nat
  BY QueueAssumption, FS_Subset, FS_CardinalityType
<1>4. \A t \in Threads : batch[t] \subseteq Checks
  BY DEF TypeOK
<1>5. queue \subseteq Checks
  BY DEF TypeOK
<1>6. Outstanding \in SUBSET Checks
  BY Zenon, <1>4, <1>5 DEF Outstanding
<1>7. \A t \in Threads : Held(t) \in SUBSET Checks
  BY Zenon, <1>4, <1>5 DEF Held
<1> QED
  BY <1>1, <1>2, <1>3, <1>6, <1>7

(* What is outstanding once t has done with its batch.                     *)
LEMMA Released ==
    ASSUME IInv, NEW t \in Threads
    PROVE  /\ Held(t) = Outstanding \ batch[t]
           /\ batch[t] \subseteq Outstanding
           /\ Cardinality(Held(t)) = nTodo - Cardinality(batch[t])
           /\ batch[t] = {} => Held(t) = Outstanding
<1>1. Held(t) = Outstanding \ batch[t]
  BY Zenon, Members DEF IInv, BatchOK
<1>2. batch[t] \subseteq Outstanding
  BY Zenon, Members
<1>3. /\ Outstanding = Held(t) \cup batch[t] /\ Held(t) \cap batch[t] = {}
  BY Zenon, <1>1, <1>2
<1>4. /\ IsFiniteSet(Held(t)) /\ Cardinality(Held(t)) \in Nat
      /\ IsFiniteSet(batch[t]) /\ Cardinality(batch[t]) \in Nat
  BY Finite DEF IInv, TypeOK
<1>5. Cardinality(Outstanding) = Cardinality(Held(t)) + Cardinality(batch[t]) - 0
  BY <1>3, <1>4, FS_Union, FS_EmptySet
<1>6. nTodo = Cardinality(Outstanding)
  BY DEF IInv, CountersExact
<1>7. batch[t] = {} => Held(t) = Outstanding
  BY Zenon, <1>1
<1> QED
  BY <1>1, <1>2, <1>4, <1>5, <1>6, <1>7

-----------------------------------------------------------------------------
(* One way out of Loop's section: t goes to p with the batch S taken from  *)
(* the queue.                                                              *)

(* A thread that is done with its batch takes the next one, of none or     *)
(* more checks, and goes to p: what is outstanding and who is blocked      *)
(* after it.                                                               *)
LEMMA Moved ==
    ASSUME IInv, NEW t \in Threads, NEW c, NEW at, Ready(t, c, at),
           NEW p \in WorkerStates \cup MasterStates, NEW S \in SUBSET queue,
           queue' = queue \ S, batch' = [batch EXCEPT ![t] = S],
           pc' = [at EXCEPT ![t] = p]
    PROVE  /\ pc' \in [Threads -> WorkerStates \cup MasterStates]
           /\ batch' \in [Threads -> SUBSET Checks]
           /\ pc'[t] = p /\ batch'[t] = S
           /\ \A u \in Threads \ {t} :
                 /\ batch'[u] = batch[u]
                 /\ pc'[u] = pc[u] \/ (pc[u] = "wait" /\ pc'[u] = "woken")
           /\ Outstanding' = Held(t)
           /\ Cardinality(Blocked') = IF p \in {"wait", "woken"} THEN c.idle + 1 ELSE c.idle
<1> DEFINE Others == {u \in Threads \ {t} : pc[u] \in {"wait", "woken"}}
<1>1. /\ pc' \in [Threads -> WorkerStates \cup MasterStates]
      /\ batch' \in [Threads -> SUBSET Checks]
      /\ pc'[t] = p /\ batch'[t] = S
  BY DEF Ready, IInv, TypeOK
<1>2. \A u \in Threads \ {t} :
         /\ batch'[u] = batch[u]
         /\ pc'[u] = pc[u] \/ (pc[u] = "wait" /\ pc'[u] = "woken")
  BY DEF Ready, IInv, TypeOK
<1>3. Outstanding' = Held(t)
  <2>1. \A x : x \in Outstanding' <=> x \in queue' \/ \E u \in Threads : x \in batch'[u]
    BY Zenon DEF Outstanding
  <2>2. \A x : x \in Held(t) <=> x \in queue \/ \E u \in Threads \ {t} : x \in batch[u]
    BY Zenon, Members
  <2> QED
    BY Zenon, <1>1, <1>2, <2>1, <2>2
<1>4. \A u \in Threads \ {t} : pc'[u] \in {"wait", "woken"} <=> pc[u] \in {"wait", "woken"}
  BY <1>2
<1>5. Blocked' = IF p \in {"wait", "woken"} THEN Others \cup {t} ELSE Others
  BY <1>1, <1>4 DEF Blocked
<1>6. Others \in SUBSET Threads /\ t \notin Others
  OBVIOUS
<1>7. c.idle = Cardinality(Others) /\ c.idle \in Nat
  BY DEF Ready
<1> HIDE DEF Others
<1>8. Cardinality(Others \cup {t}) = Cardinality(Others) + 1
  BY <1>6, Finite, FS_AddElement DEF IInv
<1> QED
  BY Zenon, <1>1, <1>2, <1>3, <1>5, <1>7, <1>8

(* The batches of the others are as good as they were.                     *)
LEMMA OthersKeepBatches ==
    ASSUME IInv, NEW t \in Threads, NEW S \in SUBSET queue,
           queue' = queue \ S, batch'[t] = S, added' = added,
           \A u \in Threads \ {t} :
              /\ batch'[u] = batch[u] /\ fOk'[u] = fOk[u]
              /\ pc'[u] = pc[u] \/ (pc[u] = "wait" /\ pc'[u] = "woken"),
           S # {} => pc'[t] = "run" /\ (~fOk'[t] => ~(added \subseteq Valid))
    PROVE  \A u \in Threads : BatchOK(u)'
<1>1. S \cap queue' = {} /\ \A u \in Threads \ {t} : S \cap batch[u] = {}
  BY Zenon DEF IInv, BatchOK
<1>2. BatchOK(t)'
  <2>1. \A u \in Threads \ {t} : batch'[t] \cap batch'[u] = {}
    BY Zenon, <1>1
  <2> QED
    BY <1>1, <2>1 DEF BatchOK
<1>3. ASSUME NEW u \in Threads \ {t} PROVE BatchOK(u)'
  <2>1. BatchOK(u)
    BY DEF IInv
  <2>2. batch'[u] \cap queue' = {}
    BY Zenon, <2>1 DEF BatchOK
  <2>3. \A v \in Threads \ {u} : batch'[u] \cap batch'[v] = {}
    <3> SUFFICES ASSUME NEW v \in Threads \ {u} PROVE batch'[u] \cap batch'[v] = {}
      OBVIOUS
    <3>1. CASE v = t
      BY Zenon, <1>1, <3>1
    <3>2. CASE v # t
      BY Zenon, <2>1, <3>2 DEF BatchOK
    <3> QED
      BY <3>1, <3>2
  <2> QED
    BY <2>1, <2>2, <2>3 DEF BatchOK
<1> QED
  BY <1>2, <1>3

(* Only a thread with a session, or a worker, is in Loop.                  *)
LEMMA WhoIsReady ==
    ASSUME IInv, NEW t \in Threads, NEW c, NEW at, Ready(t, c, at)
    PROVE  /\ t \in Masters => /\ holder = t /\ answer = "pending" /\ pool = "up"
                               /\ ~m_request_stop /\ Active
           /\ at[t] = pc[t]
           /\ Cardinality(Held(t)) = 0 => Held(t) = {}
<1>1. ASSUME t \in Masters
      PROVE  /\ holder = t /\ answer = "pending" /\ pool = "up"
             /\ ~m_request_stop /\ Active
  <2>1. pc[t] # "idle" /\ pc[t] # "leave"
    BY DEF Ready
  <2>2. holder = t /\ answer = "pending"
    BY <1>1, <2>1 DEF IInv, PlacesOK
  <2>3. t # NoMaster
    BY QueueAssumption DEF Threads
  <2> QED
    BY <2>2, <2>3 DEF IInv, PlacesOK, Active
<1>2. at[t] = pc[t]
  BY DEF Ready
<1>3. Cardinality(Held(t)) = 0 => Held(t) = {}
  BY Finite, FS_EmptySet DEF IInv
<1> QED
  BY <1>1, <1>2, <1>3

(* A thread is a worker or a master, and not both.                         *)
LEMMA Kinds ==
    /\ \A w \in Workers : w \in Threads /\ w \notin Masters
    /\ \A m \in Masters : m \in Threads /\ m \notin Workers /\ m # NoMaster
    /\ \A t \in Threads : t \in Masters \/ t \in Workers
BY QueueAssumption DEF Threads

(* The places stay in order when t goes from Loop to p.                    *)
LEMMA PlacesKept ==
    ASSUME IInv, NEW t \in Threads, NEW c, NEW at, Ready(t, c, at), NEW p,
           m_request_stop' = m_request_stop, pool' = pool, holder' = holder,
           pc'[t] = p,
           \A u \in Threads \ {t} :
              /\ batch'[u] = batch[u]
              /\ pc'[u] = pc[u] \/ (pc[u] = "wait" /\ pc'[u] = "woken"),
           t \in Masters => /\ p \in {"leave", "wait", "run"}
                            /\ p = "leave" <=> answer' # "pending"
                            /\ p = "leave" => batch'[t] = {}
                            /\ p # "leave" => nTotal' >= 1,
           t \notin Masters => /\ p \in {"wait", "run", "off"}
                               /\ nTotal' \in Nat /\ nTotal' >= nTotal /\ answer' = answer
    PROVE  PlacesOK'
<1>1. Threads = Masters \cup Workers /\ Masters \cap Workers = {} /\ NoMaster \notin Threads
  BY Zenon, QueueAssumption DEF Threads
<1>2. pool = "down" => t \in Masters
  BY Zenon, <1>1 DEF PlacesOK, Ready, IInv
<1>3. \A w \in Workers : pc'[w] \in WorkerStates
  BY Zenon, <1>1 DEF PlacesOK, WorkerStates, IInv
<1>4. \A w \in Workers : pool' = "down" => pc'[w] = "off"
  BY <1>1, <1>2 DEF PlacesOK, IInv
<1>a. /\ m_request_stop' <=> pool' \in {"stopping", "joining"}
      /\ pool' # "up" => holder' = NoMaster
  BY DEF PlacesOK, IInv
<1>5. CASE t \in Masters
  <2>1. holder = t /\ \A m \in Masters \ {t} : pc[m] = "idle" /\ batch[m] = {}
    <3>1. holder = t
      BY <1>5, WhoIsReady
    <3>2. \A m \in Masters \ {t} : pc[m] = "idle"
      BY <3>1 DEF PlacesOK, IInv
    <3> QED
      BY <1>1, <3>1, <3>2 DEF BatchOK, IInv
  <2>2. \A m \in Masters : /\ pc'[m] \in MasterStates /\ (pc'[m] # "idle" <=> holder' = m)
                           /\ holder' = m => (pc'[m] = "leave" <=> answer' # "pending")
    BY <1>1, <1>5, <2>1 DEF MasterStates
  <2>3. \A m \in Masters : pc'[m] \in {"wait", "woken", "run"} \/ batch'[m] # {} => nTotal' >= 1
    BY Zenon, <1>1, <1>5, <2>1
  <2> QED
    BY <1>3, <1>4, <1>a, <2>2, <2>3 DEF PlacesOK
<1>6. CASE t \notin Masters
  <2>1. \A m \in Masters : /\ pc'[m] \in MasterStates /\ (pc'[m] # "idle" <=> holder' = m)
                           /\ holder' = m => (pc'[m] = "leave" <=> answer' # "pending")
    BY <1>1, <1>6 DEF PlacesOK, MasterStates, IInv
  <2>2. \A m \in Masters : pc'[m] \in {"wait", "woken", "run"} \/ batch'[m] # {} => nTotal' >= 1
    BY <1>1, <1>6 DEF PlacesOK, TypeOK, IInv
  <2> QED
    BY <1>3, <1>4, <1>a, <2>1, <2>2 DEF PlacesOK
<1> QED
  BY <1>5, <1>6 DEF IInv

(* Whatever Loop decides at the start of its inner loop, the invariant is  *)
(* kept, and the session is left alone or answered as it should be.        *)
LEMMA ProceedStep ==
    ASSUME IInv, NEW t \in Threads, NEW c, NEW at, Ready(t, c, at), Proceed(t, c, at)
    PROVE  IInv' /\ [Session!Next]_sessionVars
<1>0. /\ m_request_stop' = m_request_stop /\ pool' = pool /\ holder' = holder /\ added' = added
      /\ c \in [todo : Nat, idle : Nat, total : Nat, ok : BOOLEAN]
      /\ c.todo = Cardinality(Held(t))
      /\ Knows(Held(t), c.ok)
  BY DEF Proceed, Ready
<1>a. /\ {} \in SUBSET queue
      /\ \A p \in {"leave", "wait", "off", "run"} : p \in WorkerStates \cup MasterStates
  BY DEF WorkerStates, MasterStates
<1>b. t \in Masters => c.total >= 1
  BY DEF Ready
<1>c. c.total >= nTotal
  BY DEF Ready
<1>1. CASE Return(t, c, at)
  <2>1. /\ t \in Masters /\ c.todo = 0 /\ queue' = queue \ {}
        /\ batch' = [batch EXCEPT ![t] = {}] /\ pc' = [at EXCEPT ![t] = "leave"]
        /\ fOk' = fOk /\ answer' = IF c.ok THEN "valid" ELSE "invalid"
        /\ nTodo' = c.todo /\ nIdle' = c.idle /\ nTotal' = c.total - 1 /\ fAllOk' = TRUE
    BY <1>1, <1>0 DEF Return, Counters
  <2>2. /\ holder = t /\ Active /\ pool = "up" /\ Held(t) = {}
    BY Zenon, <2>1, <1>0, WhoIsReady
  <2>3. /\ pc' \in [Threads -> WorkerStates \cup MasterStates]
        /\ batch' \in [Threads -> SUBSET Checks]
        /\ pc'[t] = "leave" /\ batch'[t] = {}
        /\ \A u \in Threads \ {t} :
              /\ batch'[u] = batch[u]
              /\ pc'[u] = pc[u] \/ (pc[u] = "wait" /\ pc'[u] = "woken")
        /\ Outstanding' = Held(t)
        /\ Cardinality(Blocked') = c.idle
    <3>1. "leave" \in WorkerStates \cup MasterStates /\ {} \in SUBSET queue
      BY <1>a
    <3>2. /\ queue' = queue \ {} /\ batch' = [batch EXCEPT ![t] = {}]
          /\ pc' = [at EXCEPT ![t] = "leave"]
      BY <2>1
    <3>3. /\ pc' \in [Threads -> WorkerStates \cup MasterStates]
          /\ batch' \in [Threads -> SUBSET Checks]
          /\ pc'[t] = "leave" /\ batch'[t] = {}
          /\ \A u \in Threads \ {t} :
                /\ batch'[u] = batch[u]
                /\ pc'[u] = pc[u] \/ (pc[u] = "wait" /\ pc'[u] = "woken")
          /\ Outstanding' = Held(t)
          /\ Cardinality(Blocked') = IF "leave" \in {"wait", "woken"} THEN c.idle + 1 ELSE c.idle
      BY <3>1, <3>2, Moved, Zenon
    <3> QED
      BY <3>3
  <2>4. TypeOK'
    BY <2>1, <2>3, <1>0 DEF TypeOK, Ready, IInv
  <2>5. CountersExact'
    BY <2>1, <2>3, <1>0 DEF CountersExact, Blocked, IInv
  <2>6. \A u \in Threads : BatchOK(u)'
    BY Zenon, <2>1, <2>3, <1>0, OthersKeepBatches
  <2>7. PlacesOK'
    BY Zenon, <2>1, <2>3, <1>0, PlacesKept
  <2>8. Knows(Outstanding, fAllOk)'
    BY <2>1, <2>2, <2>3, <1>0 DEF Knows, Active, IInv
  <2>9. answer' = Session!Verdict(added)
    BY Zenon, <2>1, <2>2, <1>0 DEF Knows, Session!Verdict, IInv
  <2>10. Session!Answer
    BY Zenon, <2>2, <2>9, <1>0 DEF Session!Answer, Active
  <2> QED
    BY <2>4, <2>5, <2>6, <2>7, <2>8, <2>10 DEF Session!Next, IInv
<1>2. CASE WaitForWork(t, c, at)
  <2>1. /\ queue' = queue \ {} /\ batch' = [batch EXCEPT ![t] = {}] /\ pc' = [at EXCEPT ![t] = "wait"]
        /\ fOk' = fOk /\ answer' = answer
        /\ nTodo' = c.todo /\ nIdle' = c.idle + 1 /\ nTotal' = c.total /\ fAllOk' = c.ok
    BY Zenon, <1>2, <1>0 DEF WaitForWork, Counters
  <2>3. /\ pc' \in [Threads -> WorkerStates \cup MasterStates]
        /\ batch' \in [Threads -> SUBSET Checks]
        /\ pc'[t] = "wait" /\ batch'[t] = {}
        /\ \A u \in Threads \ {t} :
              /\ batch'[u] = batch[u]
              /\ pc'[u] = pc[u] \/ (pc[u] = "wait" /\ pc'[u] = "woken")
        /\ Outstanding' = Held(t)
        /\ Cardinality(Blocked') = c.idle + 1
    <3>1. "wait" \in WorkerStates \cup MasterStates /\ {} \in SUBSET queue
      BY <1>a
    <3>2. /\ pc' \in [Threads -> WorkerStates \cup MasterStates]
          /\ batch' \in [Threads -> SUBSET Checks]
          /\ pc'[t] = "wait" /\ batch'[t] = {}
          /\ \A u \in Threads \ {t} :
                /\ batch'[u] = batch[u]
                /\ pc'[u] = pc[u] \/ (pc[u] = "wait" /\ pc'[u] = "woken")
          /\ Outstanding' = Held(t)
          /\ Cardinality(Blocked') = IF "wait" \in {"wait", "woken"} THEN c.idle + 1 ELSE c.idle
      BY ZenonT(40), <2>1, <3>1, Moved
    <3> QED
      BY <3>2
  <2>4. TypeOK'
    BY <2>1, <2>3, <1>0 DEF TypeOK, IInv
  <2>5. CountersExact'
    BY <2>1, <2>3, <1>0 DEF CountersExact, Blocked, IInv
  <2>6. \A u \in Threads : BatchOK(u)'
    BY Zenon, <2>1, <2>3, <1>0, <1>a, OthersKeepBatches
  <2>7. PlacesOK'
    BY ZenonT(40), <2>1, <2>3, <1>0, <1>b, <1>c, WhoIsReady, PlacesKept
  <2>8. Knows(Outstanding, fAllOk)'
    BY Zenon, <2>1, <2>3, <1>0 DEF Knows, Active, IInv
  <2> QED
    BY <2>1, <1>0, <2>4, <2>5, <2>6, <2>7, <2>8 DEF sessionVars, IInv
<1>3. CASE Exit(t, c, at)
  <2>1. /\ queue' = queue \ {} /\ batch' = [batch EXCEPT ![t] = {}] /\ pc' = [at EXCEPT ![t] = "off"]
        /\ fOk' = fOk /\ answer' = answer /\ m_request_stop
        /\ nTodo' = c.todo /\ nIdle' = c.idle /\ nTotal' = c.total /\ fAllOk' = c.ok
    BY Zenon, <1>3, <1>0 DEF Exit, Counters
  <2>2. t \notin Masters
    BY Zenon, <2>1, WhoIsReady
  <2>3. /\ pc' \in [Threads -> WorkerStates \cup MasterStates]
        /\ batch' \in [Threads -> SUBSET Checks]
        /\ pc'[t] = "off" /\ batch'[t] = {}
        /\ \A u \in Threads \ {t} :
              /\ batch'[u] = batch[u]
              /\ pc'[u] = pc[u] \/ (pc[u] = "wait" /\ pc'[u] = "woken")
        /\ Outstanding' = Held(t)
        /\ Cardinality(Blocked') = c.idle
    <3>1. "off" \in WorkerStates \cup MasterStates /\ {} \in SUBSET queue
      BY <1>a
    <3>2. /\ pc' \in [Threads -> WorkerStates \cup MasterStates]
          /\ batch' \in [Threads -> SUBSET Checks]
          /\ pc'[t] = "off" /\ batch'[t] = {}
          /\ \A u \in Threads \ {t} :
                /\ batch'[u] = batch[u]
                /\ pc'[u] = pc[u] \/ (pc[u] = "wait" /\ pc'[u] = "woken")
          /\ Outstanding' = Held(t)
          /\ Cardinality(Blocked') = IF "off" \in {"wait", "woken"} THEN c.idle + 1 ELSE c.idle
      BY Zenon, <2>1, <3>1, Moved
    <3> QED
      BY <3>2
  <2>4. TypeOK'
    BY Zenon, <2>1, <2>3, <1>0 DEF TypeOK, IInv
  <2>5. CountersExact'
    BY <2>1, <2>3, <1>0 DEF CountersExact, Blocked, IInv
  <2>6. \A u \in Threads : BatchOK(u)'
    BY Zenon, <2>1, <2>3, <1>0, OthersKeepBatches
  <2>7. PlacesOK'
    BY Zenon, <2>1, <2>2, <2>3, <1>0, <1>c, PlacesKept
  <2>8. Knows(Outstanding, fAllOk)'
    BY Zenon, <2>1, <2>3, <1>0 DEF Knows, Active, IInv
  <2> QED
    BY <2>1, <1>0, <2>4, <2>5, <2>6, <2>7, <2>8 DEF sessionVars, IInv
<1>4. CASE Take(t, c, at)
  <2>0. PICK S \in SUBSET queue :
           /\ Cardinality(S) = BatchSize(c)
           /\ queue' = queue \ S /\ batch' = [batch EXCEPT ![t] = S]
    BY Zenon, <1>4 DEF Take
  <2>1. /\ pc' = [at EXCEPT ![t] = "run"]
        /\ fOk' = [fOk EXCEPT ![t] = c.ok] /\ answer' = answer /\ ~m_request_stop
        /\ nTodo' = c.todo /\ nIdle' = c.idle /\ nTotal' = c.total /\ fAllOk' = c.ok
    BY Zenon, <1>4, <1>0 DEF Take, Counters
  <2>3. /\ pc' \in [Threads -> WorkerStates \cup MasterStates]
        /\ batch' \in [Threads -> SUBSET Checks]
        /\ pc'[t] = "run" /\ batch'[t] = S
        /\ \A u \in Threads \ {t} :
              /\ batch'[u] = batch[u]
              /\ pc'[u] = pc[u] \/ (pc[u] = "wait" /\ pc'[u] = "woken")
        /\ Outstanding' = Held(t)
        /\ Cardinality(Blocked') = c.idle
    <3>1. "run" \in WorkerStates \cup MasterStates
      BY <1>a
    <3>2. /\ pc' \in [Threads -> WorkerStates \cup MasterStates]
          /\ batch' \in [Threads -> SUBSET Checks]
          /\ pc'[t] = "run" /\ batch'[t] = S
          /\ \A u \in Threads \ {t} :
                /\ batch'[u] = batch[u]
                /\ pc'[u] = pc[u] \/ (pc[u] = "wait" /\ pc'[u] = "woken")
          /\ Outstanding' = Held(t)
          /\ Cardinality(Blocked') = IF "run" \in {"wait", "woken"} THEN c.idle + 1 ELSE c.idle
      BY Zenon, <2>0, <2>1, <3>1, Moved
    <3> QED
      BY <3>2
  <2>4. TypeOK'
    BY Zenon, <2>0, <2>1, <2>3, <1>0 DEF TypeOK, IInv
  <2>5. CountersExact'
    BY <2>1, <2>3, <1>0 DEF CountersExact, Blocked, IInv
  <2>6. /\ fOk'[t] = c.ok /\ \A u \in Threads \ {t} : fOk'[u] = fOk[u]
    BY Zenon, <2>1 DEF TypeOK, IInv
  <2>7. S # {} => (~fOk'[t] => ~(added \subseteq Valid))
    <3>1. S \subseteq Held(t)
      BY Zenon DEF Held
    <3> QED
      BY <2>6, <3>1, <1>0 DEF Knows
  <2>8. \A u \in Threads : BatchOK(u)'
    BY Zenon, <2>0, <2>3, <2>6, <2>7, <1>0, OthersKeepBatches
  <2>9. PlacesOK'
    BY ZenonT(40), <2>1, <2>3, <1>0, <1>b, <1>c, WhoIsReady, PlacesKept
  <2>10. Knows(Outstanding, fAllOk)'
    BY <2>1, <2>3, <1>0 DEF Knows, Active, IInv
  <2> QED
    BY <2>1, <1>0, <2>4, <2>5, <2>8, <2>9, <2>10 DEF sessionVars, IInv
<1> QED
  BY <1>1, <1>2, <1>3, <1>4 DEF Proceed

-----------------------------------------------------------------------------
(* The three ways to the start of the inner loop.                          *)

(* notify_one changes nothing but the place of a thread that waits.        *)
LEMMA WakesOnlyWaiting ==
    ASSUME TypeOK, NEW S \in SUBSET Threads, NEW at \in NotifyOne(S) \cup {Notify(Waiting(S))}
    PROVE  /\ at \in [Threads -> WorkerStates \cup MasterStates]
           /\ \A u \in Threads : at[u] = pc[u] \/ (u \in S /\ pc[u] = "wait" /\ at[u] = "woken")
<1>1. \A T \in SUBSET Waiting(S) :
         /\ Notify(T) \in [Threads -> WorkerStates \cup MasterStates]
         /\ \A u \in Threads : \/ Notify(T)[u] = pc[u]
                               \/ u \in S /\ pc[u] = "wait" /\ Notify(T)[u] = "woken"
  BY DEF TypeOK, Notify, Waiting, WorkerStates
<1>2. \/ at = pc \/ at = Notify(Waiting(S))
      \/ \E u \in Waiting(S) : at = Notify({u})
  BY Zenon DEF NotifyOne
<1>3. CASE at = pc
  BY <1>3 DEF TypeOK
<1>4. CASE at = Notify(Waiting(S))
  BY <1>1, <1>4
<1>5. CASE \E u \in Waiting(S) : at = Notify({u})
  <2>1. PICK u \in Waiting(S) : at = Notify({u})
    BY <1>5
  <2>2. {u} \in SUBSET Waiting(S)
    BY Zenon
  <2> QED
    BY Zenon, <1>1, <2>1, <2>2
<1> QED
  BY Zenon, <1>2, <1>3, <1>4, <1>5

(* A thread that enters Loop has no batch and is counted in nTotal.        *)
LEMMA EnterIsReady ==
    ASSUME IInv, NEW t \in Threads, pc[t] = "loop", batch[t] = {}
    PROVE  Ready(t, [todo |-> nTodo, idle |-> nIdle, total |-> nTotal + 1, ok |-> fAllOk], pc)
<1> DEFINE Others == {u \in Threads \ {t} : pc[u] \in {"wait", "woken"}}
<1>1. Held(t) = Outstanding
  BY Zenon, Released
<1>2. Others = {u \in Threads : pc[u] \in {"wait", "woken"}}
  OBVIOUS
<1>3. nIdle = Cardinality(Others)
  BY Zenon, <1>2 DEF IInv, CountersExact
<1>4. nTodo = Cardinality(Held(t)) /\ Knows(Held(t), fAllOk)
  BY <1>1 DEF IInv, CountersExact
<1>5. /\ pc \in [Threads -> WorkerStates \cup MasterStates]
      /\ nTodo \in Nat /\ nIdle \in Nat /\ nTotal \in Nat /\ fAllOk \in BOOLEAN
  BY Zenon DEF IInv, TypeOK
<1> QED
  BY <1>3, <1>4, <1>5 DEF Ready

(* A thread that comes round in Loop takes its batch off nTodo and adds    *)
(* its result to fAllOk, whether or not it wakes the master.               *)
LEMMA AccountIsReady ==
    ASSUME IInv, NEW t \in Threads, pc[t] = "loop", batch[t] # {},
           NEW at \in NotifyOne(Masters) \cup {pc}
    PROVE  Ready(t, [todo |-> nTodo - Cardinality(batch[t]), idle |-> nIdle, total |-> nTotal,
                     ok |-> fAllOk /\ fOk[t]], at)
<1> DEFINE Others == {u \in Threads \ {t} : pc[u] \in {"wait", "woken"}}
<1>1. nIdle = Cardinality(Others)
  <2>1. Others = {u \in Threads : pc[u] \in {"wait", "woken"}}
    BY Zenon
  <2> QED
    BY Zenon, <2>1 DEF IInv, CountersExact
<1>2. nTodo - Cardinality(batch[t]) = Cardinality(Held(t))
  BY Zenon, Released
<1>3. Cardinality(Held(t)) \in Nat
  BY Zenon, Finite DEF IInv
<1>4. /\ pc \in [Threads -> WorkerStates \cup MasterStates]
      /\ nIdle \in Nat /\ nTotal \in Nat /\ fAllOk \in BOOLEAN /\ fOk[t] \in BOOLEAN
  BY Zenon DEF IInv, TypeOK
<1>5. /\ at \in [Threads -> WorkerStates \cup MasterStates]
      /\ \A u \in Threads : at[u] = pc[u] \/ (pc[u] = "wait" /\ at[u] = "woken")
  <2>1. Masters \in SUBSET Threads
    BY Zenon DEF Threads
  <2>2. CASE at = pc
    BY Zenon, <2>2, <1>4
  <2>3. CASE at \in NotifyOne(Masters)
    BY <2>1, <2>3, WakesOnlyWaiting DEF IInv
  <2> QED
    BY Zenon, <2>2, <2>3
<1>6. t \in Masters => nTotal >= 1
  BY Zenon DEF IInv, PlacesOK
<1>7. Knows(Held(t), fAllOk /\ fOk[t])
  <2>1. /\ Held(t) = Outstanding \ batch[t] /\ batch[t] \subseteq Outstanding
    BY Zenon, Released
  <2>2. Knows(Outstanding, fAllOk) /\ BatchOK(t)
    BY Zenon DEF IInv
  <2>3. Active /\ batch[t] \subseteq added
    BY Zenon, <2>1, <2>2 DEF Knows
  <2>4. CASE fAllOk /\ fOk[t]
    BY Zenon, <2>1, <2>2, <2>3, <2>4 DEF Knows, BatchOK
  <2>5. CASE ~(fAllOk /\ fOk[t])
    BY Zenon, <2>1, <2>2, <2>3, <2>5 DEF Knows, BatchOK
  <2> QED
    BY Zenon, <2>4, <2>5
<1> QED
  BY <1>1, <1>2, <1>3, <1>4, <1>5, <1>6, <1>7 DEF Ready

(* A thread back from its wait takes itself off nIdle.                     *)
LEMMA ResumeIsReady ==
    ASSUME IInv, NEW t \in Threads, pc[t] = "woken"
    PROVE  Ready(t, [todo |-> nTodo, idle |-> nIdle - 1, total |-> nTotal, ok |-> fAllOk], pc)
<1> DEFINE Others == {u \in Threads \ {t} : pc[u] \in {"wait", "woken"}}
           All == {u \in Threads : pc[u] \in {"wait", "woken"}}
<1>1. Others = All \ {t} /\ t \in All /\ All \in SUBSET Threads
  OBVIOUS
<1>2. nIdle = Cardinality(All)
  BY Zenon DEF IInv, CountersExact
<1>3. batch[t] = {}
  BY Zenon DEF IInv, BatchOK
<1>4. Held(t) = Outstanding
  BY Zenon, <1>3, Released
<1>5. nTodo = Cardinality(Held(t)) /\ Knows(Held(t), fAllOk)
  BY <1>4 DEF IInv, CountersExact
<1>6. /\ pc \in [Threads -> WorkerStates \cup MasterStates]
      /\ nTodo \in Nat /\ nTotal \in Nat /\ fAllOk \in BOOLEAN
  BY Zenon DEF IInv, TypeOK
<1>7. t \in Masters => nTotal >= 1
  BY DEF IInv, PlacesOK
<1>8. nIdle - 1 = Cardinality(Others) /\ nIdle - 1 \in Nat
  <2> HIDE DEF Others, All
  <2>1. IsFiniteSet(All) /\ Others \in SUBSET Threads
    BY Zenon, <1>1, Finite DEF IInv
  <2>2. Cardinality(Others) = Cardinality(All) - 1
    BY Zenon, <1>1, <2>1, FS_RemoveElement
  <2> QED
    BY Zenon, <1>2, <2>1, <2>2, Finite DEF IInv
<1> QED
  BY <1>5, <1>6, <1>7, <1>8 DEF Ready

(* A section of Loop under the mutex keeps the invariant, and is a step of *)
(* the session, its answer, or not seen.                                   *)
LEMMA LoopSteps ==
    ASSUME IInv, NEW t \in Threads, Enter(t) \/ Account(t) \/ Resume(t)
    PROVE  IInv' /\ [Session!Next]_sessionVars
<1>1. CASE Enter(t)
  BY Zenon, <1>1, EnterIsReady, ProceedStep DEF Enter
<1>2. CASE Account(t)
  <2>1. PICK at \in NotifyOne(Masters) \cup {pc} :
           Proceed(t, [todo |-> nTodo - Cardinality(batch[t]), idle |-> nIdle, total |-> nTotal,
                       ok |-> fAllOk /\ fOk[t]], at)
    BY Zenon, <1>2 DEF Account
  <2>2. pc[t] = "loop" /\ batch[t] # {}
    BY Zenon, <1>2 DEF Account
  <2> QED
    BY Zenon, <2>1, <2>2, AccountIsReady, ProceedStep
<1>3. CASE Resume(t)
  BY Zenon, <1>3, ResumeIsReady, ProceedStep DEF Resume
<1> QED
  BY Zenon, <1>1, <1>2, <1>3

-----------------------------------------------------------------------------
(* The steps that leave the queue and the batches alone.                   *)

(* Nobody takes a check and nobody blocks or resumes: the counters stay    *)
(* exact.                                                                  *)
LEMMA CountsKept ==
    ASSUME IInv, queue' = queue, batch' = batch, nTodo' = nTodo, nIdle' = nIdle,
           \A u \in Threads : pc'[u] \in {"wait", "woken"} <=> pc[u] \in {"wait", "woken"}
    PROVE  Outstanding' = Outstanding /\ CountersExact'
<1>1. Outstanding' = Outstanding
  BY DEF Outstanding
<1>2. {u \in Threads : pc'[u] \in {"wait", "woken"}} = {u \in Threads : pc[u] \in {"wait", "woken"}}
  BY Zenon
<1> QED
  BY <1>1, <1>2 DEF IInv, CountersExact

(* The batches and the places of those who hold one stay as they are.      *)
LEMMA BatchesKept ==
    ASSUME IInv, queue' = queue, batch' = batch, fOk' = fOk, added' = added,
           \A u \in Threads : batch[u] # {} => pc'[u] = pc[u]
    PROVE  \A u \in Threads : BatchOK(u)'
BY DEF IInv, BatchOK

(* Running the checks of a batch, outside the mutex, keeps the invariant:  *)
(* fOk comes to tell the truth about the batch.                            *)
LEMMA RunChecksStep ==
    ASSUME IInv, NEW t \in Threads, RunChecks(t)
    PROVE  IInv' /\ [Session!Next]_sessionVars
<1>1. /\ queue' = queue /\ batch' = batch /\ nTodo' = nTodo /\ nIdle' = nIdle
      /\ nTotal' = nTotal /\ fAllOk' = fAllOk
      /\ m_request_stop' = m_request_stop /\ pool' = pool
      /\ holder' = holder /\ added' = added /\ answer' = answer
      /\ pc[t] = "run"
  BY Zenon DEF RunChecks, counters, sessionVars
<1>2. /\ pc' \in [Threads -> WorkerStates \cup MasterStates]
      /\ pc'[t] = "loop" /\ \A u \in Threads \ {t} : pc'[u] = pc[u]
      /\ fOk' \in [Threads -> BOOLEAN]
      /\ fOk'[t] = (fOk[t] /\ batch[t] \subseteq Valid)
      /\ \A u \in Threads \ {t} : fOk'[u] = fOk[u]
  BY Zenon DEF RunChecks, TypeOK, WorkerStates, IInv
<1>3. TypeOK'
  BY Zenon, <1>1, <1>2 DEF TypeOK, IInv
<1>4. Outstanding' = Outstanding /\ CountersExact'
  BY Zenon, <1>1, <1>2, CountsKept
<1>5. PlacesOK'
  <2>1. /\ \A w \in Workers : pc'[w] \in WorkerStates
        /\ \A m \in Masters : pc'[m] \in MasterStates /\ (pc'[m] # "idle" <=> holder = m)
        /\ \A m \in Masters : holder = m => (pc'[m] = "leave" <=> answer # "pending")
    BY SMTT(40), <1>1, <1>2, Kinds DEF PlacesOK, WorkerStates, MasterStates, IInv
  <2>2. \A m \in Masters : pc'[m] \in {"wait", "woken", "run"} \/ batch[m] # {} => nTotal >= 1
    BY Zenon, <1>1, <1>2, Kinds DEF PlacesOK, IInv
  <2>3. pool = "down" => \A w \in Workers : pc'[w] = "off"
    BY Zenon, <1>1, <1>2, Kinds DEF PlacesOK, IInv
  <2>4. /\ m_request_stop <=> pool \in {"stopping", "joining"}
        /\ pool # "up" => holder = NoMaster
    BY DEF PlacesOK, IInv
  <2> QED
    BY ZenonT(40), <1>1, <2>1, <2>2, <2>3, <2>4 DEF PlacesOK
<1>6. \A u \in Threads : BatchOK(u)'
  <2>1. batch[t] \subseteq added
    BY Zenon, Released DEF Knows, IInv
  <2>2. BatchOK(t)'
    BY Zenon, <1>1, <1>2, <2>1 DEF BatchOK, IInv
  <2>3. \A u \in Threads \ {t} : BatchOK(u)'
    BY <1>1, <1>2 DEF BatchOK, IInv
  <2> QED
    BY Zenon, <2>2, <2>3
<1>7. Knows(Outstanding, fAllOk)'
  BY Zenon, <1>1, <1>4 DEF Knows, Active, IInv
<1> QED
  BY Zenon, <1>1, <1>3, <1>4, <1>5, <1>6, <1>7 DEF sessionVars, IInv

(* Some waiting threads are woken and some master goes on between the      *)
(* parts of Add and Wait.                                                  *)
LEMMA QuietStep ==
    ASSUME IInv, pc' \in [Threads -> WorkerStates \cup MasterStates],
           UNCHANGED <<queue, counters, m_request_stop, batch, fOk, sessionVars>>,
           \A u \in Threads :
              \/ pc'[u] = pc[u]
              \/ pc[u] = "wait" /\ pc'[u] = "woken"
              \/ /\ u \in Masters /\ pc[u] \in {"adding", "notify_one", "notify_all"}
                 /\ pc'[u] \in {"adding", "loop"},
           \/ pool' = pool
           \/ pool = "stopping" /\ pool' = "joining"
    PROVE  IInv' /\ [Session!Next]_sessionVars
<1>1. /\ queue' = queue /\ batch' = batch /\ nTodo' = nTodo /\ nIdle' = nIdle
      /\ nTotal' = nTotal /\ fAllOk' = fAllOk /\ fOk' = fOk
      /\ m_request_stop' = m_request_stop
      /\ holder' = holder /\ added' = added /\ answer' = answer
  BY Zenon DEF counters, sessionVars
<1>2. TypeOK'
  BY Zenon, <1>1 DEF TypeOK, IInv
<1>3. Outstanding' = Outstanding /\ CountersExact'
  BY ZenonT(40), <1>1, CountsKept
<1>4. PlacesOK'
  <2>1. \A w \in Workers : pc'[w] \in WorkerStates
    BY Zenon, Kinds DEF PlacesOK, WorkerStates, IInv
  <2>2. /\ \A m \in Masters : pc'[m] \in MasterStates /\ (pc'[m] # "idle" <=> holder = m)
        /\ \A m \in Masters : holder = m => (pc'[m] = "leave" <=> answer # "pending")
    BY Zenon, Kinds DEF PlacesOK, MasterStates, IInv
  <2>3. \A m \in Masters : pc'[m] \in {"wait", "woken", "run"} \/ batch[m] # {} => nTotal >= 1
    BY Zenon, Kinds DEF PlacesOK, IInv
  <2>4. pool' = "down" => \A w \in Workers : pc'[w] = "off"
    BY Zenon, Kinds DEF PlacesOK, IInv
  <2>5. /\ m_request_stop <=> pool' \in {"stopping", "joining"}
        /\ pool' # "up" => holder = NoMaster
    BY Zenon DEF PlacesOK, IInv
  <2> QED
    BY <1>1, <2>1, <2>2, <2>3, <2>4, <2>5 DEF PlacesOK
<1>5. \A u \in Threads : batch[u] # {} => pc'[u] = pc[u]
  BY DEF BatchOK, IInv
<1>6. \A u \in Threads : BatchOK(u)'
  BY Zenon, <1>1, <1>5, BatchesKept
<1>7. Knows(Outstanding, fAllOk)'
  BY Zenon, <1>1, <1>3 DEF Knows, Active, IInv
<1> QED
  BY <1>1, <1>2, <1>3, <1>4, <1>6, <1>7 DEF sessionVars, IInv

(* Wake-ups, notifications and the call of Wait keep the invariant.        *)
LEMMA QuietSteps ==
    ASSUME IInv,
           \/ \E t \in Threads : SpuriousWakeup(t)
           \/ \E m \in Masters : AddNotify(m) \/ CallWait(m)
           \/ StopNotify
    PROVE  IInv' /\ [Session!Next]_sessionVars
<1>0. TypeOK /\ Masters \in SUBSET Threads /\ Workers \in SUBSET Threads
  BY Zenon DEF IInv, Threads
<1>1. ASSUME NEW t \in Threads, SpuriousWakeup(t)
      PROVE  IInv' /\ [Session!Next]_sessionVars
  <2>1. /\ pc' \in [Threads -> WorkerStates \cup MasterStates]
        /\ \A u \in Threads : pc'[u] = pc[u] \/ (pc[u] = "wait" /\ pc'[u] = "woken")
    BY Zenon, <1>0, <1>1 DEF SpuriousWakeup, TypeOK, WorkerStates
  <2> QED
    BY Zenon, <1>1, <2>1, QuietStep DEF SpuriousWakeup
<1>2. ASSUME NEW m \in Masters, AddNotify(m)
      PROVE  IInv' /\ [Session!Next]_sessionVars
  <2>1. PICK at \in NotifyOne(Workers) \cup {Notify(Waiting(Workers))} :
           pc' = [at EXCEPT ![m] = "adding"]
    BY Zenon, <1>2 DEF AddNotify
  <2>2. /\ at \in [Threads -> WorkerStates \cup MasterStates]
        /\ \A u \in Threads : at[u] = pc[u] \/ (pc[u] = "wait" /\ at[u] = "woken")
    BY <1>0, WakesOnlyWaiting
  <2>3. pc[m] \in {"notify_one", "notify_all"} /\ m \in Threads
    BY <1>0, <1>2 DEF AddNotify
  <2>4. pc' \in [Threads -> WorkerStates \cup MasterStates]
    BY Zenon, <2>1, <2>2 DEF MasterStates
  <2>5. pc'[m] = "adding" /\ \A u \in Threads \ {m} : pc'[u] = at[u]
    BY Zenon, <2>1, <2>2, <2>3
  <2>6. \A u \in Threads :
           \/ pc'[u] = pc[u]
           \/ pc[u] = "wait" /\ pc'[u] = "woken"
           \/ /\ u \in Masters /\ pc[u] \in {"adding", "notify_one", "notify_all"}
              /\ pc'[u] \in {"adding", "loop"}
    BY Zenon, <2>2, <2>3, <2>5
  <2> QED
    BY Zenon, <1>2, <2>4, <2>6, QuietStep DEF AddNotify
<1>3. ASSUME NEW m \in Masters, CallWait(m)
      PROVE  IInv' /\ [Session!Next]_sessionVars
  <2>1. /\ pc' \in [Threads -> WorkerStates \cup MasterStates]
        /\ pc[m] = "adding" /\ pc'[m] = "loop" /\ \A u \in Threads \ {m} : pc'[u] = pc[u]
    BY Zenon, <1>0, <1>3 DEF CallWait, TypeOK, MasterStates
  <2> QED
    BY Zenon, <1>3, <2>1, QuietStep DEF CallWait
<1>4. ASSUME StopNotify
      PROVE  IInv' /\ [Session!Next]_sessionVars
  <2>1. /\ pc' \in [Threads -> WorkerStates \cup MasterStates]
        /\ \A u \in Threads : pc'[u] = pc[u] \/ (pc[u] = "wait" /\ pc'[u] = "woken")
    BY <1>0, <1>4, WakesOnlyWaiting DEF StopNotify
  <2> QED
    BY Zenon, <1>4, <2>1, QuietStep DEF StopNotify
<1> QED
  BY <1>1, <1>2, <1>3, <1>4

-----------------------------------------------------------------------------
(* The steps of a session.                                                 *)

(* Without a session nothing is outstanding.                               *)
LEMMA NothingLeft ==
    ASSUME IInv, ~Active
    PROVE  /\ Outstanding = {} /\ queue = {} /\ fAllOk
           /\ \A u \in Threads : batch[u] = {}
<1>1. Outstanding = {} /\ fAllOk
  BY DEF IInv, Knows
<1>2. \A x : x \notin queue /\ \A u \in Threads : x \notin batch[u]
  BY Zenon, <1>1 DEF Outstanding
<1> QED
  BY Zenon, <1>1, <1>2

(* Taking the control mutex begins a session with nothing outstanding and  *)
(* fAllOk set.                                                             *)
LEMMA BeginStep ==
    ASSUME IInv, NEW m \in Masters, Begin(m)
    PROVE  IInv' /\ Session!Next
<1>1. /\ queue' = queue /\ batch' = batch /\ nTodo' = nTodo /\ nIdle' = nIdle
      /\ nTotal' = nTotal /\ fAllOk' = fAllOk /\ fOk' = fOk
      /\ m_request_stop' = m_request_stop /\ pool' = pool
      /\ holder = NoMaster /\ holder' = m /\ added' = {} /\ answer' = "pending"
      /\ pc[m] = "idle" /\ pool = "up" /\ m \in Threads
  BY Zenon DEF Begin, counters, Threads
<1>2. /\ Outstanding = {} /\ queue = {} /\ fAllOk /\ \A u \in Threads : batch[u] = {}
  BY Zenon, <1>1, NothingLeft DEF Active
<1>3. /\ pc' \in [Threads -> WorkerStates \cup MasterStates]
      /\ pc'[m] = "adding" /\ \A u \in Threads \ {m} : pc'[u] = pc[u]
  BY Zenon, <1>1 DEF Begin, TypeOK, MasterStates, IInv
<1>4. TypeOK'
  BY Zenon, <1>1, <1>3 DEF TypeOK, IInv
<1>5. Outstanding' = Outstanding /\ CountersExact'
  BY Zenon, <1>1, <1>3, CountsKept
<1>6. PlacesOK'
  <2>1. /\ \A w \in Workers : pc'[w] \in WorkerStates
        /\ pool = "down" => \A w \in Workers : pc'[w] = "off"
    BY <1>1, <1>3, Kinds DEF PlacesOK, IInv
  <2>2. \A u \in Masters : /\ pc'[u] \in MasterStates /\ (pc'[u] # "idle" <=> m = u)
                           /\ pc'[u] # "leave"
    BY ZenonT(40), <1>1, <1>3, Kinds DEF PlacesOK, MasterStates, IInv
  <2>3. \A u \in Masters : pc'[u] \in {"wait", "woken", "run"} \/ batch[u] # {} => nTotal >= 1
    BY Zenon, <1>1, <1>2, <2>2, <1>3 DEF Threads
  <2>4. /\ m_request_stop <=> pool \in {"stopping", "joining"}
        /\ pool # "up" => holder = NoMaster
    BY Zenon DEF PlacesOK, IInv
  <2> QED
    BY Zenon, <1>1, <2>1, <2>2, <2>3, <2>4 DEF PlacesOK
<1>7. \A u \in Threads : BatchOK(u)'
  BY Zenon, <1>1, <1>2 DEF BatchOK, IInv
<1>8. Knows(Outstanding, fAllOk)'
  BY Zenon, <1>1, <1>2, <1>5 DEF Knows, Active, IInv
<1>9. Session!Begin(m)
  BY Zenon, <1>1 DEF Session!Begin
<1> QED
  BY Zenon, <1>4, <1>5, <1>6, <1>7, <1>8, <1>9 DEF Session!Next, IInv

(* The destructor of CCheckQueueControl ends the session with nothing      *)
(* outstanding.                                                            *)
LEMMA LeaveStep ==
    ASSUME IInv, NEW m \in Masters, Leave(m)
    PROVE  IInv' /\ Session!Next
<1>1. /\ queue' = queue /\ batch' = batch /\ nTodo' = nTodo /\ nIdle' = nIdle
      /\ nTotal' = nTotal /\ fAllOk' = fAllOk /\ fOk' = fOk
      /\ m_request_stop' = m_request_stop /\ pool' = pool
      /\ holder' = NoMaster /\ added' = added /\ answer' = answer
      /\ pc[m] = "leave" /\ m \in Threads
  BY Zenon DEF Leave, counters, Threads
<1>2. holder = m /\ m # NoMaster /\ answer # "pending"
  BY <1>1, Kinds DEF PlacesOK, IInv
<1>3. /\ Outstanding = {} /\ queue = {} /\ fAllOk /\ \A u \in Threads : batch[u] = {}
  BY Zenon, <1>2, NothingLeft DEF Active
<1>4. /\ pc' \in [Threads -> WorkerStates \cup MasterStates]
      /\ pc'[m] = "idle" /\ \A u \in Threads \ {m} : pc'[u] = pc[u]
  BY Zenon, <1>1 DEF Leave, TypeOK, MasterStates, IInv
<1>5. TypeOK'
  BY Zenon, <1>1, <1>4 DEF TypeOK, IInv
<1>6. Outstanding' = Outstanding /\ CountersExact'
  BY <1>1, <1>4, CountsKept
<1>7. PlacesOK'
  <2>1. /\ \A w \in Workers : pc'[w] \in WorkerStates
        /\ pool = "down" => \A w \in Workers : pc'[w] = "off"
    BY ZenonT(40), <1>1, <1>4, Kinds DEF PlacesOK, IInv
  <2>2. \A u \in Masters : pc'[u] \in MasterStates /\ pc'[u] = "idle" /\ u # NoMaster
    BY ZenonT(40), <1>1, <1>2, <1>4, Kinds DEF PlacesOK, MasterStates, IInv
  <2>3. \A u \in Masters : batch[u] = {}
    BY Zenon, <1>3 DEF Threads
  <2>4. m_request_stop <=> pool \in {"stopping", "joining"}
    BY ZenonT(40) DEF PlacesOK, IInv
  <2> QED
    BY ZenonT(40), <1>1, <2>1, <2>2, <2>3, <2>4 DEF PlacesOK
<1>8. \A u \in Threads : BatchOK(u)'
  BY Zenon, <1>1, <1>3 DEF BatchOK, IInv
<1>9. Knows(Outstanding, fAllOk)'
  BY Zenon, <1>1, <1>3, <1>6 DEF Knows, Active, IInv
<1>10. Session!End
  BY <1>1, <1>2 DEF Session!End
<1> QED
  BY ZenonT(40), <1>5, <1>6, <1>7, <1>8, <1>9, <1>10 DEF Session!Next, IInv

(* The checks added are new, so what was outstanding is disjoint from them *)
(* and they are not among those known to be valid.                         *)
LEMMA AddStep ==
    ASSUME IInv, NEW m \in Masters, NEW S \in SUBSET (Checks \ added), Add(m, S)
    PROVE  IInv' /\ Session!Next
<1>1. /\ batch' = batch /\ nIdle' = nIdle
      /\ nTotal' = nTotal /\ fAllOk' = fAllOk /\ fOk' = fOk
      /\ m_request_stop' = m_request_stop /\ pool' = pool
      /\ holder' = holder /\ answer' = answer
      /\ added' = added \cup S /\ queue' = queue \cup S /\ nTodo' = nTodo + Cardinality(S)
      /\ pc[m] = "adding" /\ m \in Threads
  BY Zenon DEF Add, Threads
<1>2. holder = m /\ m # NoMaster /\ answer = "pending" /\ Active
  BY Zenon, <1>1, Kinds DEF PlacesOK, Active, IInv
<1>3. /\ pc' \in [Threads -> WorkerStates \cup MasterStates]
      /\ pc'[m] \in {"notify_one", "notify_all"} /\ \A u \in Threads \ {m} : pc'[u] = pc[u]
  <2>1. pc' = [pc EXCEPT ![m] = IF Cardinality(S) = 1 THEN "notify_one" ELSE "notify_all"]
    BY DEF Add
  <2> QED
    BY Zenon, <1>1, <2>1 DEF TypeOK, MasterStates, IInv
<1>4. /\ Outstanding' = Outstanding \cup S /\ Outstanding \cap S = {}
      /\ Outstanding \subseteq added
      /\ \A u \in Threads : batch[u] \subseteq Outstanding
  <2>1. Outstanding' = Outstanding \cup S
    BY Zenon, <1>1 DEF Outstanding
  <2>2. Outstanding \subseteq added
    BY DEF Knows, IInv
  <2>3. \A u \in Threads : batch[u] \subseteq Outstanding
    BY Zenon DEF Outstanding
  <2> QED
    BY Zenon, <2>1, <2>2, <2>3
<1>5. /\ S \in SUBSET Checks /\ Cardinality(S) \in Nat /\ IsFiniteSet(S)
      /\ IsFiniteSet(Outstanding) /\ Cardinality(Outstanding) \in Nat
  BY Zenon, Finite DEF IInv
<1>6. TypeOK'
  BY <1>1, <1>3, <1>5 DEF TypeOK, IInv
<1>7. CountersExact'
  <2>1. Cardinality(Outstanding \cup S) = Cardinality(Outstanding) + Cardinality(S) - 0
    BY Zenon, <1>4, <1>5, FS_Union, FS_EmptySet
  <2>2. {u \in Threads : pc'[u] \in {"wait", "woken"}}
           = {u \in Threads : pc[u] \in {"wait", "woken"}}
    BY Zenon, <1>1, <1>3
  <2>3. nTodo' = Cardinality(Outstanding')
    BY <1>1, <1>4, <1>5, <2>1 DEF CountersExact, IInv
  <2> QED
    BY ZenonT(40), <1>1, <2>2, <2>3 DEF CountersExact, IInv
<1>8. PlacesOK'
  <2>1. /\ \A w \in Workers : pc'[w] \in WorkerStates
        /\ pool = "down" => \A w \in Workers : pc'[w] = "off"
    BY ZenonT(40), <1>1, <1>3, Kinds DEF PlacesOK, IInv
  <2>2. \A u \in Masters : /\ pc'[u] \in MasterStates /\ (pc'[u] # "idle" <=> m = u)
                           /\ pc'[u] # "leave"
    BY Zenon, <1>1, <1>2, <1>3, Kinds DEF PlacesOK, MasterStates, IInv
  <2>3. \A u \in Masters : pc'[u] \in {"wait", "woken", "run"} \/ batch[u] # {} => nTotal >= 1
    BY Zenon, <1>1, <1>3, Kinds DEF PlacesOK, IInv
  <2>4. /\ m_request_stop <=> pool \in {"stopping", "joining"}
        /\ pool # "up" => holder = NoMaster
    BY DEF PlacesOK, IInv
  <2> QED
    BY Zenon, <1>1, <1>2, <2>1, <2>2, <2>3, <2>4 DEF PlacesOK
<1>9. \A u \in Threads : BatchOK(u)'
  <2> SUFFICES ASSUME NEW u \in Threads PROVE BatchOK(u)'
    BY DEF IInv
  <2>1. BatchOK(u)
    BY DEF IInv
  <2>2. batch[u] \cap (queue \cup S) = {}
    BY ZenonT(40), <1>4, <2>1 DEF BatchOK, IInv
  <2>3. batch[u] # {} => pc'[u] = pc[u]
    BY ZenonT(40), <1>1, <1>3, <2>1 DEF BatchOK, IInv
  <2> QED
    BY Zenon, <1>1, <2>1, <2>2, <2>3 DEF BatchOK
<1>10. Knows(Outstanding, fAllOk)'
  <2>1. Active'
    BY Zenon, <1>1, <1>2 DEF Active
  <2>2. Knows(Outstanding, fAllOk)
    BY Zenon DEF IInv
  <2>3. Outstanding' \subseteq added'
    BY Zenon, <1>1, <1>4
  <2>4. fAllOk => added' \ Outstanding' \subseteq Valid
    BY Zenon, <1>1, <1>2, <1>4, <2>2 DEF Knows, IInv
  <2>5. ~fAllOk => ~(added' \subseteq Valid)
    BY Zenon, <1>1, <1>2, <2>2 DEF Knows, IInv
  <2> QED
    BY Zenon, <1>1, <2>1, <2>3, <2>4, <2>5 DEF Knows
<1>11. Session!Add(S)
  BY Zenon, <1>1, <1>2 DEF Session!Add
<1> QED
  BY Zenon, <1>5, <1>6, <1>7, <1>8, <1>9, <1>10, <1>11 DEF Session!Next, IInv

-----------------------------------------------------------------------------
(* The pool is started and stopped.                                        *)

(* Starting, stopping and joining the workers keeps the invariant: it      *)
(* happens between sessions.                                               *)
LEMMA PoolSteps ==
    ASSUME IInv, StartWorkerThreads \/ StopRequest \/ StopJoin
    PROVE  IInv' /\ UNCHANGED sessionVars
<1>1. /\ queue' = queue /\ batch' = batch /\ nTodo' = nTodo /\ fOk' = fOk
      /\ holder' = holder /\ answer' = answer /\ added' = added
  BY Zenon DEF StartWorkerThreads, StopRequest, StopJoin, counters, sessionVars
<1>2. CASE StartWorkerThreads
  <2>1. /\ pool = "down" /\ pool' = "up" /\ holder = NoMaster
        /\ nIdle' = 0 /\ nTotal' = 0 /\ fAllOk' = TRUE /\ m_request_stop' = m_request_stop
        /\ pc' = [t \in Threads |-> IF t \in Workers THEN "loop" ELSE pc[t]]
    BY Zenon, <1>2 DEF StartWorkerThreads
  <2>2. /\ Outstanding = {} /\ queue = {} /\ fAllOk /\ \A u \in Threads : batch[u] = {}
    BY Zenon, <2>1, NothingLeft DEF Active
  <2>3. \A m \in Masters : pc[m] = "idle" /\ m # NoMaster
    BY Zenon, <2>1, Kinds DEF PlacesOK, IInv
  <2>4. /\ pc' \in [Threads -> WorkerStates \cup MasterStates]
        /\ \A m \in Masters : pc'[m] = "idle"
        /\ \A w \in Workers : pc'[w] = "loop"
    BY Zenon, <2>1, <2>3, QueueAssumption DEF Threads, WorkerStates, MasterStates
  <2>5. TypeOK'
    BY <1>1, <2>1, <2>4 DEF TypeOK, IInv
  <2>6. Outstanding' = Outstanding
    BY Zenon, <1>1 DEF Outstanding
  <2>7. CountersExact'
    <3>1. {u \in Threads : pc'[u] \in {"wait", "woken"}} = {}
      BY <2>4 DEF Threads
    <3> QED
      BY Zenon, <1>1, <2>1, <2>6, <3>1, FS_EmptySet DEF CountersExact, IInv
  <2>8. PlacesOK'
    BY ZenonT(40), <1>1, <2>1, <2>2, <2>3, <2>4, Kinds DEF PlacesOK, WorkerStates, MasterStates, IInv
  <2>9. \A u \in Threads : BatchOK(u)'
    BY Zenon, <1>1, <2>2 DEF BatchOK, IInv
  <2>10. Knows(Outstanding, fAllOk)'
    BY Zenon, <1>1, <2>1, <2>2, <2>6 DEF Knows, Active, IInv
  <2> QED
    BY Zenon, <1>1, <2>5, <2>7, <2>8, <2>9, <2>10 DEF sessionVars, IInv
<1>3. CASE StopRequest \/ StopJoin
  <2>1. /\ nIdle' = nIdle /\ nTotal' = nTotal /\ fAllOk' = fAllOk /\ pc' = pc
        /\ m_request_stop' \in BOOLEAN /\ pool' \in {"stopping", "down"}
        /\ m_request_stop' <=> pool' \in {"stopping", "joining"}
        /\ pool' = "down" => \A w \in Workers : pc[w] = "off"
    BY Zenon, <1>3 DEF StopRequest, StopJoin, counters
  <2>2. holder = NoMaster
    BY Zenon, <1>3 DEF StopRequest, StopJoin, PlacesOK, IInv
  <2>3. TypeOK'
    BY Zenon, <1>1, <2>1 DEF TypeOK, IInv
  <2>4. Outstanding' = Outstanding /\ CountersExact'
    BY <1>1, <2>1, CountsKept
  <2>5. PlacesOK'
    BY ZenonT(40), <1>1, <2>1, <2>2 DEF PlacesOK, IInv
  <2>6. \A u \in Threads : BatchOK(u)'
    BY Zenon, <1>1, <2>1, BatchesKept
  <2>7. Knows(Outstanding, fAllOk)'
    BY <1>1, <2>1, <2>4 DEF Knows, Active, IInv
  <2> QED
    BY Zenon, <1>1, <2>3, <2>4, <2>5, <2>6, <2>7 DEF sessionVars, IInv
<1> QED
  BY Zenon, <1>2, <1>3 DEF IInv

-----------------------------------------------------------------------------
(* The theorems.                                                           *)

(* A new queue satisfies the invariant.                                    *)
LEMMA InitEstablishes ==
    ASSUME Init
    PROVE  IInv
<1>1. Outstanding = {}
  BY Zenon DEF Init, Outstanding
<1>2. TypeOK
  BY Zenon, QueueAssumption DEF Init, TypeOK, Threads, WorkerStates, MasterStates
<1>3. CountersExact
  <2>1. {t \in Threads : pc[t] \in {"wait", "woken"}} = {}
    BY Zenon DEF Init
  <2> QED
    BY Zenon, <1>1, <2>1, FS_EmptySet DEF Init, CountersExact
<1>4. PlacesOK
  BY Zenon, QueueAssumption DEF Init, PlacesOK, Threads, WorkerStates, MasterStates
<1>5. \A t \in Threads : BatchOK(t)
  BY Zenon DEF Init, BatchOK
<1>6. Knows(Outstanding, fAllOk)
  BY Zenon, <1>1 DEF Init, Knows, Active
<1> QED
  BY Zenon, <1>2, <1>3, <1>4, <1>5, <1>6 DEF IInv

(* Every step keeps the invariant and is a step of CheckSession or not     *)
(* seen by it.                                                             *)
LEMMA NextKeeps ==
    ASSUME IInv, [Next]_vars
    PROVE  IInv' /\ [Session!Next]_sessionVars
<1>1. ASSUME NEW t \in Threads, ThreadStep(t)
      PROVE  IInv' /\ [Session!Next]_sessionVars
  BY <1>1, LoopSteps, RunChecksStep DEF ThreadStep
<1>2. ASSUME NEW m \in Masters, Begin(m) \/ Leave(m)
      PROVE  IInv' /\ [Session!Next]_sessionVars
  BY Zenon, <1>2, BeginStep, LeaveStep
<1>3. ASSUME NEW m \in Masters, NEW S \in SUBSET (Checks \ added), Add(m, S)
      PROVE  IInv' /\ [Session!Next]_sessionVars
  BY <1>3, AddStep
<1>4. CASE StartWorkerThreads \/ StopRequest \/ StopJoin
  BY Zenon, <1>4, PoolSteps
<1>5. CASE UNCHANGED vars
  <2>1. UNCHANGED <<queue, counters, m_request_stop, pc, batch, fOk, pool, sessionVars>>
    BY <1>5 DEF vars
  <2>2. pc' \in [Threads -> WorkerStates \cup MasterStates]
    BY <2>1 DEF IInv, TypeOK
  <2> QED
    BY Zenon, <2>1, <2>2, QuietStep
<1>6. CASE \/ \E t \in Threads : SpuriousWakeup(t)
           \/ \E m \in Masters : AddNotify(m) \/ CallWait(m)
           \/ StopNotify
  BY <1>6, QuietSteps
<1> QED
  BY <1>1, <1>2, <1>3, <1>4, <1>5, <1>6 DEF Next

(* The invariant holds in every state of the check queue.                  *)
LEMMA IInvHolds == Spec => []IInv
<1>1. Init => IInv
  BY InitEstablishes
<1>2. IInv /\ [Next]_vars => IInv'
  BY NextKeeps
<1> QED
  BY <1>1, <1>2, PTL DEF Spec

(* Every variable of the check queue keeps its type; in particular nTodo,  *)
(* nIdle and nTotal, which Loop decrements, are never negative.            *)
THEOREM CheckQueueTypes == Spec => []TypeOK
<1>1. IInv => TypeOK
  BY DEF IInv
<1> QED
  BY <1>1, IInvHolds, PTL

(* nTodo and nIdle are exact between any two sections of Loop, however     *)
(* many threads there are and however the checks are split into batches.   *)
THEOREM CountersAreExact == Spec => []CountersExact
<1>1. IInv => CountersExact
  BY DEF IInv
<1> QED
  BY <1>1, IInvHolds, PTL

(* CCheckQueue answers every session with the conjunction of the checks    *)
(* added to it, for any number of threads, batch size and interleaving.    *)
THEOREM QueueAnswersSessions == Spec => ImplementsCheckSession
<1>1. Init => Session!Init
  BY DEF Init, Session!Init
<1>2. IInv /\ [Next]_vars => [Session!Next]_sessionVars
  BY Zenon, NextKeeps
<1>3. [Session!Next]_sessionVars <=> [Session!Next]_(Session!sessionVars)
  BY DEF sessionVars, Session!sessionVars
<1> QED
  BY <1>1, <1>2, <1>3, IInvHolds, PTL DEF Spec, ImplementsCheckSession, Session!Spec
=============================================================================
