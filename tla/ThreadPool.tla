----------------------------- MODULE ThreadPool -----------------------------
(***************************************************************************)
(* develop::ThreadPool (src/assign5/thread-pool.h, thread-pool.cc): a      *)
(* dispatcher thread hands thunks from a FIFO queue to a fixed set of      *)
(* worker threads; client threads call schedule() and wait(), and the      *)
(* owner finally runs the destructor.                                      *)
(*                                                                         *)
(* Every thread has a program counter and one action per step that another *)
(* thread can observe.  A critical section that no other thread can see    *)
(* half-way (pushWork, popWork, the body of numAvailableWorkersMutex) is   *)
(* one action; workQueueMutex is a variable because wait() keeps it over   *)
(* several steps.                                                          *)
(***************************************************************************)
EXTENDS Integers, Sequences, FiniteSets

CONSTANTS
    Clients,            \* threads that call schedule() and wait()
    Owner,              \* the client that runs the destructor
    NumWorkers,         \* workers.size()
    Thunks,             \* the thunks that may be scheduled, each at most once
    NoOne,              \* workQueueMutex is free
    NoThunk,            \* no thunk
    MaxWaits,           \* bound: calls of wait() outside the destructor
    MaxSpurious,        \* bound: spurious wakeups of the condition variable
    FreedSlotSurvives   \* does the popped std::function still read back intact?

ASSUME PoolAssumption ==
    /\ NumWorkers \in Nat /\ IsFiniteSet(Clients)
    /\ Owner \in Clients
    /\ NoOne \notin Clients
    /\ NoThunk \notin Thunks
    /\ MaxWaits \in Nat /\ MaxSpurious \in Nat
    /\ FreedSlotSurvives \in BOOLEAN

Workers == 1..NumWorkers

VARIABLES
    queue, lock, availableWork, availableWorker, numAvailable, stopWorking,
    cvWaiters,                              \* the pool's shared members
    available, requested, work, wstop,      \* struct Worker
    intact,       \* is work[w] a copy of a live closure, or of a destroyed one?
    wpc,                                    \* where each worker is
    dpc, i, front,                          \* the dispatcher: pc, loop index, popWork()'s result
    cpc, closing, waits, spurious,          \* the clients
    pushed, owed, done  \* history: thunks scheduled, scheduled before c's wait(), executed

pool    == <<queue, lock, availableWork, availableWorker, numAvailable,
             stopWorking, cvWaiters>>
worker  == <<available, requested, work, wstop, intact, wpc>>
disp    == <<dpc, i, front>>
client  == <<cpc, closing, waits, spurious>>
history == <<pushed, owed, done>>
vars    == <<pool, worker, disp, client, history>>

WaitPCs   == {"fast", "eval", "block", "blocked"}
ClientPCs == WaitPCs \union {"ready", "signal", "stop", "wakeWork", "wakeWorker",
                             "join", "gone"}
WorkerPCs == {"unborn", "init", "flagged", "idle", "check", "run", "exited", "crashed"}
DispPCs   == {"spawn", "takeWork", "takeWorker", "checkStop", "scan", "unflag",
              "uncount", "pop", "assign", "request", "stopFlag", "stopSignal", "exited"}

Init ==
    /\ queue = <<>> /\ lock = NoOne /\ cvWaiters = {}
    /\ availableWork = 0 /\ availableWorker = 0 /\ numAvailable = 0
    /\ stopWorking = FALSE
    /\ available = [w \in Workers |-> FALSE]
    /\ requested = [w \in Workers |-> 0]
    /\ work = [w \in Workers |-> NoThunk]
    /\ wstop = [w \in Workers |-> FALSE]
    /\ intact = [w \in Workers |-> TRUE]
    /\ wpc = [w \in Workers |-> "unborn"]
    /\ dpc = "spawn" /\ i = 1 /\ front = NoThunk
    /\ cpc = [c \in Clients |-> "ready"]
    /\ closing = FALSE /\ waits = 0 /\ spurious = 0
    /\ pushed = {} /\ owed = [c \in Clients |-> {}] /\ done = {}

\* Invoking a destroyed closure takes the whole process down.
Alive == \A w \in Workers : wpc[w] # "crashed"

ClientAt(c, pc) == Alive /\ cpc[c] = pc
WorkerAt(w, pc) == Alive /\ wpc[w] = pc
DispAt(pc)      == Alive /\ dpc = pc

CGoto(c, from, to) == ClientAt(c, from) /\ cpc' = [cpc EXCEPT ![c] = to]
WGoto(w, from, to) == WorkerAt(w, from) /\ wpc' = [wpc EXCEPT ![w] = to]
DGoto(from, to)    == DispAt(from) /\ dpc' = to

-----------------------------------------------------------------------------
(* Mutations.  Each operator below is a definition of this module with a   *)
(* bug this kind of code often has; no specification uses them.  A run     *)
(* that puts one in the place of the definition it is named after must     *)
(* find the property that the bug breaks.                                  *)

\* wait() looks at the queue and forgets the thunks still running.
Quiescent_QueueOnly == queue = <<>>

\* The dispatcher does not wait for a permit before it looks for work ...
TakeWork_NoWait ==
    /\ availableWork' = availableWork - 1
    /\ DGoto("takeWork", "takeWorker")
    /\ UNCHANGED <<queue, lock, availableWorker, numAvailable, stopWorking,
                   cvWaiters, worker, i, front, client, history>>

\* ... or before it looks for a worker.
TakeWorker_NoWait ==
    /\ DGoto("takeWorker", "checkStop")
    /\ UNCHANGED <<pool, worker, i, front, client, history>>

\* popWork reads the front of the queue and does not remove it.
PopWork_NoPop ==
    /\ lock = NoOne /\ queue # <<>>
    /\ DGoto("pop", "assign")
    /\ front' = Head(queue)
    /\ UNCHANGED <<pool, worker, i, client, history>>

\* The destructor does not wait first.
Destroy_NoWait ==
    /\ ~closing /\ \A c \in Clients : cpc[c] = "ready"
    /\ closing' = TRUE
    /\ CGoto(Owner, "ready", "stop")
    /\ UNCHANGED <<pool, worker, disp, waits, spurious, history>>

\* A worker that becomes available tells only the waiters, or only the dispatcher.
CountAvailable_NoSignal(w) ==
    /\ WGoto(w, "flagged", "idle")
    /\ numAvailable' = numAvailable + 1
    /\ cvWaiters' = {}
    /\ UNCHANGED <<queue, lock, availableWork, availableWorker, stopWorking,
                   available, requested, work, wstop, intact, disp, client, history>>

CountAvailable_NoNotify(w) ==
    /\ WGoto(w, "flagged", "idle")
    /\ numAvailable' = numAvailable + 1
    /\ availableWorker' = availableWorker + 1
    /\ UNCHANGED <<queue, lock, availableWork, cvWaiters, stopWorking, available,
                   requested, work, wstop, intact, disp, client, history>>

\* The dispatcher hands over a thunk, or the order to stop, without a signal.
RequestWorker_NoSignal ==
    /\ DGoto("request", "takeWork")
    /\ UNCHANGED <<pool, worker, i, front, client, history>>

SignalStop_NoSignal ==
    /\ DGoto("stopSignal", "stopFlag")
    /\ i' = i + 1
    /\ UNCHANGED <<pool, worker, front, client, history>>

-----------------------------------------------------------------------------
(* The clients: schedule(), wait() and the destructor.                     *)

\* schedule(): pushWork under workQueueMutex ...
PushWork(c, t) ==
    /\ ~closing /\ t \notin pushed
    /\ lock = NoOne
    /\ CGoto(c, "ready", "signal")
    /\ queue' = Append(queue, t)
    /\ pushed' = pushed \union {t}
    /\ UNCHANGED <<lock, availableWork, availableWorker, numAvailable, stopWorking,
                   cvWaiters, worker, disp, closing, waits, spurious, owed, done>>

\* ... then availableWork.signal().
SignalWork(c) ==
    /\ CGoto(c, "signal", "ready")
    /\ availableWork' = availableWork + 1
    /\ UNCHANGED <<queue, lock, availableWorker, numAvailable, stopWorking,
                   cvWaiters, worker, disp, closing, waits, spurious, history>>

\* wait() takes workQueueMutex.
EnterWait(c) ==
    /\ lock = NoOne /\ lock' = c
    /\ CGoto(c, "ready", "fast")
    /\ owed' = [owed EXCEPT ![c] = pushed]
    /\ UNCHANGED <<queue, availableWork, availableWorker, numAvailable, stopWorking,
                   cvWaiters, worker, disp, spurious, pushed, done>>

CallWait(c) ==
    /\ ~closing /\ waits < MaxWaits
    /\ waits' = waits + 1
    /\ EnterWait(c)
    /\ UNCHANGED closing

\* ~ThreadPool() starts with wait(); nobody may use a pool being destroyed.
Destroy ==
    /\ ~closing /\ \A c \in Clients : cpc[c] = "ready"
    /\ closing' = TRUE
    /\ EnterWait(Owner)
    /\ UNCHANGED waits

\* The predicate wait() tests: workQueue.empty() && allWorkersAvailable().
Quiescent == queue = <<>> /\ numAvailable = NumWorkers

\* wait() returns, to the caller or to the rest of the destructor.
Return(c) ==
    /\ lock' = NoOne
    /\ cpc' = [cpc EXCEPT ![c] = IF closing THEN "stop" ELSE "ready"]

\* The first test, before the condition variable is touched.
FastPath(c) ==
    /\ ClientAt(c, "fast")
    /\ IF Quiescent THEN Return(c) ELSE CGoto(c, "fast", "eval") /\ UNCHANGED lock
    /\ UNCHANGED <<queue, availableWork, availableWorker, numAvailable, stopWorking,
                   cvWaiters, worker, disp, closing, waits, spurious, history>>

\* The predicate evaluated by allWorkFinished.wait, with the mutex held.
EvalPredicate(c) ==
    /\ ClientAt(c, "eval")
    /\ IF Quiescent THEN Return(c) ELSE CGoto(c, "eval", "block") /\ UNCHANGED lock
    /\ UNCHANGED <<queue, availableWork, availableWorker, numAvailable, stopWorking,
                   cvWaiters, worker, disp, closing, waits, spurious, history>>

\* The condition variable enrols the waiter and releases the mutex atomically.
Block(c) ==
    /\ CGoto(c, "block", "blocked")
    /\ cvWaiters' = cvWaiters \union {c}
    /\ lock' = NoOne
    /\ UNCHANGED <<queue, availableWork, availableWorker, numAvailable, stopWorking,
                   worker, disp, closing, waits, spurious, history>>

\* A waiter may wake without any notification.
SpuriousWake(c) ==
    /\ ClientAt(c, "blocked") /\ c \in cvWaiters
    /\ spurious < MaxSpurious
    /\ cvWaiters' = cvWaiters \ {c}
    /\ spurious' = spurious + 1
    /\ UNCHANGED <<queue, lock, availableWork, availableWorker, numAvailable,
                   stopWorking, worker, disp, cpc, closing, waits, history>>

\* A woken waiter takes the mutex again and re-evaluates the predicate.
Relock(c) ==
    /\ c \notin cvWaiters
    /\ lock = NoOne /\ lock' = c
    /\ CGoto(c, "blocked", "eval")
    /\ UNCHANGED <<queue, availableWork, availableWorker, numAvailable, stopWorking,
                   cvWaiters, worker, disp, closing, waits, spurious, history>>

\* The rest of the destructor: raise the flag, release the dispatcher, join it.
StopPool ==
    /\ CGoto(Owner, "stop", "wakeWork")
    /\ stopWorking' = TRUE
    /\ UNCHANGED <<queue, lock, availableWork, availableWorker, numAvailable,
                   cvWaiters, worker, disp, closing, waits, spurious, history>>

SignalStopWork ==
    /\ CGoto(Owner, "wakeWork", "wakeWorker")
    /\ availableWork' = availableWork + 1
    /\ UNCHANGED <<queue, lock, availableWorker, numAvailable, stopWorking,
                   cvWaiters, worker, disp, closing, waits, spurious, history>>

SignalStopWorker ==
    /\ CGoto(Owner, "wakeWorker", "join")
    /\ availableWorker' = availableWorker + 1
    /\ UNCHANGED <<queue, lock, availableWork, numAvailable, stopWorking,
                   cvWaiters, worker, disp, closing, waits, spurious, history>>

JoinDispatcher ==
    /\ dpc = "exited"
    /\ CGoto(Owner, "join", "gone")
    /\ UNCHANGED <<pool, worker, disp, closing, waits, spurious, history>>

-----------------------------------------------------------------------------
(* The dispatcher thread.  i is the index of whichever loop it is in.      *)

SpawnWorker ==
    /\ DispAt("spawn") /\ i \in Workers
    /\ wpc' = [wpc EXCEPT ![i] = "init"]
    /\ i' = i + 1
    /\ UNCHANGED <<pool, available, requested, work, wstop, intact, dpc, front,
                   client, history>>

EnterLoop ==
    /\ i > NumWorkers
    /\ DGoto("spawn", "takeWork")
    /\ UNCHANGED <<pool, worker, i, front, client, history>>

TakeWork ==
    /\ availableWork > 0 /\ availableWork' = availableWork - 1
    /\ DGoto("takeWork", "takeWorker")
    /\ UNCHANGED <<queue, lock, availableWorker, numAvailable, stopWorking,
                   cvWaiters, worker, i, front, client, history>>

TakeWorker ==
    /\ availableWorker > 0 /\ availableWorker' = availableWorker - 1
    /\ DGoto("takeWorker", "checkStop")
    /\ UNCHANGED <<queue, lock, availableWork, numAvailable, stopWorking,
                   cvWaiters, worker, i, front, client, history>>

CheckStop ==
    /\ DGoto("checkStop", IF stopWorking THEN "stopFlag" ELSE "scan")
    /\ i' = 1
    /\ UNCHANGED <<pool, worker, front, client, history>>

\* getAvailableWorker reads one unprotected flag after another.  Running off the
\* end (i = NumWorkers + 1) is the -1 that the dispatcher asserts against.
Scan ==
    /\ DispAt("scan") /\ i \in Workers
    /\ IF available[i] THEN dpc' = "unflag" /\ UNCHANGED i
                       ELSE i' = i + 1 /\ UNCHANGED dpc
    /\ UNCHANGED <<pool, worker, front, client, history>>

\* markWorkerAsUnavailable: the flag first ...
Unflag ==
    /\ DGoto("unflag", "uncount")
    /\ available' = [available EXCEPT ![i] = FALSE]
    /\ UNCHANGED <<pool, requested, work, wstop, intact, wpc, i, front, client, history>>

\* ... then the counter, under numAvailableWorkersMutex.
Uncount ==
    /\ DGoto("uncount", "pop")
    /\ numAvailable' = numAvailable - 1
    /\ UNCHANGED <<queue, lock, availableWork, availableWorker, stopWorking,
                   cvWaiters, worker, i, front, client, history>>

\* popWork returns a reference to the element it removes from the queue.
PopWork ==
    /\ lock = NoOne /\ queue # <<>>
    /\ DGoto("pop", "assign")
    /\ front' = Head(queue)
    /\ queue' = Tail(queue)
    /\ UNCHANGED <<lock, availableWork, availableWorker, numAvailable, stopWorking,
                   cvWaiters, worker, i, client, history>>

\* workers[i].work = popWork() copies from the destroyed element: the copy may
\* or may not be the closure that was scheduled.
AssignWork ==
    /\ DGoto("assign", "request")
    /\ work' = [work EXCEPT ![i] = front]
    /\ \E ok \in (IF FreedSlotSurvives THEN {TRUE} ELSE BOOLEAN) :
          intact' = [intact EXCEPT ![i] = ok]
    /\ UNCHANGED <<pool, available, requested, wstop, wpc, i, front, client, history>>

RequestWorker ==
    /\ DGoto("request", "takeWork")
    /\ requested' = [requested EXCEPT ![i] = @ + 1]
    /\ UNCHANGED <<pool, available, work, wstop, intact, wpc, i, front, client, history>>

\* The shutdown loop: for each worker, the flag and then the semaphore.
FlagStop ==
    /\ i \in Workers
    /\ DGoto("stopFlag", "stopSignal")
    /\ wstop' = [wstop EXCEPT ![i] = TRUE]
    /\ UNCHANGED <<pool, available, requested, work, intact, wpc, i, front,
                   client, history>>

SignalStop ==
    /\ DGoto("stopSignal", "stopFlag")
    /\ requested' = [requested EXCEPT ![i] = @ + 1]
    /\ i' = i + 1
    /\ UNCHANGED <<pool, available, work, wstop, intact, wpc, front, client, history>>

JoinWorkers ==
    /\ i > NumWorkers /\ \A w \in Workers : wpc[w] = "exited"
    /\ DGoto("stopFlag", "exited")
    /\ UNCHANGED <<pool, worker, i, front, client, history>>

-----------------------------------------------------------------------------
(* A worker thread.                                                        *)

\* markWorkerAsAvailable: the unprotected flag first ...
SetAvailable(w) ==
    /\ WGoto(w, "init", "flagged")
    /\ available' = [available EXCEPT ![w] = TRUE]
    /\ UNCHANGED <<pool, requested, work, wstop, intact, disp, client, history>>

\* ... then, under numAvailableWorkersMutex, the counter, the semaphore and
\* notify_all.  workQueueMutex is not taken.
CountAvailable(w) ==
    /\ WGoto(w, "flagged", "idle")
    /\ numAvailable' = numAvailable + 1
    /\ availableWorker' = availableWorker + 1
    /\ cvWaiters' = {}
    /\ UNCHANGED <<queue, lock, availableWork, stopWorking, available, requested,
                   work, wstop, intact, disp, client, history>>

AwaitRequest(w) ==
    /\ requested[w] > 0 /\ requested' = [requested EXCEPT ![w] = @ - 1]
    /\ WGoto(w, "idle", "check")
    /\ UNCHANGED <<pool, available, work, wstop, intact, disp, client, history>>

CheckWorkerStop(w) ==
    /\ WGoto(w, "check", IF wstop[w] THEN "exited" ELSE "run")
    /\ UNCHANGED <<pool, available, requested, work, wstop, intact, disp, client, history>>

\* workers[i].work() runs to its end.
FinishWork(w) ==
    /\ WorkerAt(w, "run")
    /\ IF intact[w]
         THEN WGoto(w, "run", "init") /\ done' = done \union {work[w]}
         ELSE WGoto(w, "run", "crashed") /\ UNCHANGED done
    /\ UNCHANGED <<pool, available, requested, work, wstop, intact, disp, client,
                   pushed, owed>>

-----------------------------------------------------------------------------
\* What a client that is inside a call does next.
ClientStep(c) ==
    \/ SignalWork(c)
    \/ FastPath(c) \/ EvalPredicate(c) \/ Block(c) \/ Relock(c)
    \/ c = Owner /\ (StopPool \/ SignalStopWork \/ SignalStopWorker \/ JoinDispatcher)

\* What the environment is free to do, or not to do.
ClientCall ==
    \/ \E c \in Clients, t \in Thunks : PushWork(c, t)
    \/ \E c \in Clients : CallWait(c) \/ SpuriousWake(c)
    \/ Destroy

Dispatcher ==
    \/ SpawnWorker \/ EnterLoop \/ TakeWork \/ TakeWorker \/ CheckStop \/ Scan
    \/ Unflag \/ Uncount \/ PopWork \/ AssignWork \/ RequestWorker
    \/ FlagStop \/ SignalStop \/ JoinWorkers

Worker(w) ==
    \/ SetAvailable(w) \/ CountAvailable(w) \/ AwaitRequest(w)
    \/ CheckWorkerStop(w) \/ FinishWork(w)

Next ==
    \/ ClientCall
    \/ \E c \in Clients : ClientStep(c)
    \/ Dispatcher
    \/ \E w \in Workers : Worker(w)

Spec == Init /\ [][Next]_vars

\* The operating system runs every thread that can run; thunks terminate.
\* Nobody is obliged to make another call.
Fairness ==
    /\ \A c \in Clients : WF_vars(ClientStep(c))
    /\ WF_vars(Dispatcher)
    /\ \A w \in Workers : WF_vars(Worker(w))

FairSpec == Spec /\ Fairness

-----------------------------------------------------------------------------
\* Every member of the pool and of its threads keeps its type; in particular the
\* dispatcher's loop index never passes one beyond workers.size(), and a permit
\* is never taken from a semaphore that has none (lines 52, 61 and 62).
TypeOK ==
    /\ queue \in Seq(Thunks)
    /\ lock \in Clients \union {NoOne}
    /\ availableWork \in Nat /\ availableWorker \in Nat /\ numAvailable \in Int
    /\ stopWorking \in BOOLEAN /\ cvWaiters \subseteq Clients
    /\ available \in [Workers -> BOOLEAN]
    /\ requested \in [Workers -> Nat]
    /\ work \in [Workers -> Thunks \union {NoThunk}]
    /\ wstop \in [Workers -> BOOLEAN] /\ intact \in [Workers -> BOOLEAN]
    /\ wpc \in [Workers -> WorkerPCs]
    /\ dpc \in DispPCs /\ i \in 1..(NumWorkers + 1)
    /\ front \in Thunks \union {NoThunk}
    /\ cpc \in [Clients -> ClientPCs]
    /\ closing \in BOOLEAN /\ waits \in 0..MaxWaits /\ spurious \in 0..MaxSpurious
    /\ pushed \subseteq Thunks /\ done \subseteq Thunks \union {NoThunk}
    /\ owed \in [Clients -> SUBSET Thunks]

InWait(c) == cpc[c] \in WaitPCs

\* No call of wait(), nor the one inside the destructor, returns before every
\* thunk scheduled before it was executed to its end (thread-pool.h:48-51).
WaitSound ==
    [][\A c \in Clients : InWait(c) /\ ~InWait(c)' => owed[c] \subseteq done]_vars

\* The assertions of the code (thread-pool.cc:65,126,127,134) hold, and
\* workQueue.front() is never called on an empty queue (line 150).
AssertsHold ==
    /\ dpc = "scan" => i \in Workers
    /\ dpc = "unflag" => available[i] /\ numAvailable > 0
    /\ dpc = "pop" => queue # <<>>
    /\ \A w \in Workers : wpc[w] = "init" => ~available[w]

\* A worker only runs a thunk that was scheduled, that nobody finished before
\* and that no other worker is running (lines 53-54 against 67-69).
RunsEachOnce ==
    \A w \in Workers : wpc[w] = "run" =>
        /\ work[w] \in pushed \ done
        /\ \A v \in Workers \ {w} : wpc[v] = "run" => work[v] # work[w]

\* The destructor stops the pool only when nothing is left to do: no thunk is
\* dropped by the break statements at lines 53 and 63.
StopLosesNothing == stopWorking => pushed = done /\ Quiescent

\* What a worker invokes is the closure that was scheduled (thread-pool.h:41-44).
RunsScheduledClosure == \A w \in Workers : wpc[w] = "run" => intact[w]

\* Where a thread can only wait: a client that is not inside a call, that sleeps or
\* cannot get the mutex, or that joins the dispatcher; ...
ClientWaits(c) ==
    \/ cpc[c] \in {"ready", "gone"}
    \/ cpc[c] = "blocked" /\ (c \in cvWaiters \/ lock # NoOne)
    \/ cpc[c] = "join" /\ dpc # "exited"

\* ... the dispatcher without a permit, the mutex, a thunk or a worker (which
\* fails an assertion), joining the workers, or at its end; ...
DispatcherWaits ==
    \/ dpc = "takeWork" /\ availableWork = 0
    \/ dpc = "takeWorker" /\ availableWorker = 0
    \/ dpc = "scan" /\ i \notin Workers
    \/ dpc = "pop" /\ (lock # NoOne \/ queue = <<>>)
    \/ dpc = "stopFlag" /\ i > NumWorkers /\ \E w \in Workers : wpc[w] # "exited"
    \/ dpc = "exited"

\* ... and a worker that is not there, or has not been asked for anything.
WorkerWaits(w) ==
    wpc[w] \in {"unborn", "exited"} \/ (wpc[w] = "idle" /\ requested[w] = 0)

AllWait ==
    (\A c \in Clients : ClientWaits(c)) /\ DispatcherWaits /\ (\A w \in Workers : WorkerWaits(w))

\* The semaphores, the mutex and the condition variable never leave the threads
\* waiting for each other (lines 51-93, 105-122): where all of them wait and the
\* destructor has not returned, all that was scheduled has been done, and whoever is
\* inside wait() is asleep on allWorkFinished, having missed its notification.
StopsOnlyByLostWakeup ==
    Alive /\ AllWait =>
        \/ cpc[Owner] = "gone"
        \/ /\ Quiescent /\ pushed = done
           /\ \A c \in Clients : cpc[c] = "ready" \/ c \in cvWaiters

\* A waiter that sleeps while work is outstanding is woken (line 140).
SleeperWoken ==
    \A c \in Clients : (c \in cvWaiters /\ ~Quiescent) ~> c \notin cvWaiters

\* Once the flag is raised, all workers and the dispatcher end and the
\* destructor returns (lines 90-93 and 72-82).
ShutdownCompletes == stopWorking ~> cpc[Owner] = "gone"

\* Every call of wait() returns.
WaitReturns == \A c \in Clients : InWait(c) ~> ~InWait(c)

-----------------------------------------------------------------------------
(* The pool as a WorkPool.  A worker owns its thunk from the moment the    *)
(* dispatcher clears its flag until the thunk is done; the dispatcher      *)
(* still holds the thunk between popWork() and the assignment.             *)

Claimed(w) == wpc[w] \notin {"unborn", "init"} /\ ~available[w]

\* The dispatcher has claimed worker i and has not given it its thunk yet.
Preparing(w) == i = w /\ dpc \in {"uncount", "pop", "assign"}

Loaded == {w \in Workers : Claimed(w) /\ ~Preparing(w)}

InHand == IF dpc = "assign" THEN {front} ELSE {}

Busy == InHand \union {work[w] : w \in Loaded}

Abstract == INSTANCE WorkPool WITH
    Limit <- NumWorkers, backlog <- queue, busy <- Busy, stopped <- stopWorking,
    waiting <- {c \in Clients : InWait(c)}

\* Every behaviour of the pool is one of the abstract pool: FIFO hand-out, at
\* most NumWorkers thunks at once, each thunk done once, wait() as promised,
\* and (with fair threads) everything that was scheduled gets done.
ImplementsFairWorkPool == Abstract!FairSpec
=============================================================================
