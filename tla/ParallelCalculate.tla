-------------------------- MODULE ParallelCalculate --------------------------
(***************************************************************************)
(* assessment2/parallel_calculate.cc: worker threads take data from one    *)
(* queue, calculate in parallel, and print in the order in which the data  *)
(* were taken.  A worker registers in printQueue while it still holds the  *)
(* mutex of dataQueue, and later sleeps on a condition variable until it   *)
(* is at the front of printQueue.                                          *)
(*                                                                         *)
(* calculate() returns its argument after a while, so a datum and its      *)
(* result are the same value.                                              *)
(***************************************************************************)
EXTENDS Integers, Sequences

CONSTANTS
    NumThreads,     \* kNumThreads
    Data, Input,    \* what getData() puts in dataQueue
    NoOne,          \* a mutex is free
    NoDatum,        \* a local variable without a value
    MaxSpurious     \* bound: spurious wakeups of the condition variable

Workers == 1..NumThreads

ASSUME CalculateAssumption ==
    /\ NumThreads \in Nat /\ NoOne \notin Workers
    /\ Input \in Seq(Data)
    /\ MaxSpurious \in Nat

VARIABLES
    dataQueue, printQueue,          \* the shared queues
    dataMutex, printMutex,          \* who holds dataQueueMutex, printQueueMutex
    sleepers,                       \* waiters of the condition variable coordinator
    pc, data,                       \* each worker: where it is, its local datum
    spawned, returned,              \* main(): threads started, main has joined them all
    spurious, output                \* bound counter; what was printed

vars == <<dataQueue, printQueue, dataMutex, printMutex, sleepers, pc, data,
          spawned, returned, spurious, output>>

PCs == {"unborn", "top", "have", "registered", "calculate", "lock", "front",
        "asleep", "exited"}

Init ==
    /\ dataQueue = Input /\ printQueue = <<>>
    /\ dataMutex = NoOne /\ printMutex = NoOne /\ sleepers = {}
    /\ pc = [w \in Workers |-> "unborn"]
    /\ data = [w \in Workers |-> NoDatum]
    /\ spawned = 0 /\ returned = FALSE
    /\ spurious = 0 /\ output = <<>>

Goto(w, from, to) == pc[w] = from /\ pc' = [pc EXCEPT ![w] = to]

-----------------------------------------------------------------------------
(* Mutations: definitions of this module with a bug, used by no            *)
(* specification.                                                          *)

\* The worker gives dataQueueMutex up once it is registered, before it pops.
Register_EarlyUnlock(w) ==
    /\ dataQueue # <<>> /\ printMutex = NoOne
    /\ Goto(w, "have", "registered")
    /\ printQueue' = Append(printQueue, w)
    /\ dataMutex' = NoOne
    /\ UNCHANGED <<dataQueue, printMutex, sleepers, data, spawned, returned,
                   spurious, output>>

\* A woken worker prints without looking at the queue again.
PrintResult_AnyTurn(w) ==
    /\ Goto(w, "front", "top")
    /\ output' = Append(output, data[w])
    /\ printQueue' = Tail(printQueue)
    /\ sleepers' = {} /\ printMutex' = NoOne
    /\ UNCHANGED <<dataQueue, dataMutex, data, spawned, returned, spurious>>

\* notify_all() is left out.
PrintResult_Silent(w) ==
    /\ Goto(w, "front", "top") /\ printQueue[1] = w
    /\ output' = Append(output, data[w])
    /\ printQueue' = Tail(printQueue)
    /\ printMutex' = NoOne
    /\ UNCHANGED <<dataQueue, dataMutex, sleepers, data, spawned, returned, spurious>>

-----------------------------------------------------------------------------
(* A worker.                                                               *)

LockData(w) ==
    /\ dataMutex = NoOne /\ dataMutex' = w
    /\ Goto(w, "top", "have")
    /\ UNCHANGED <<dataQueue, printQueue, printMutex, sleepers, data, spawned,
                   returned, spurious, output>>

Leave(w) ==
    /\ dataQueue = <<>>
    /\ Goto(w, "have", "exited")
    /\ dataMutex' = NoOne
    /\ UNCHANGED <<dataQueue, printQueue, printMutex, sleepers, data, spawned,
                   returned, spurious, output>>

\* Nested in dataQueueMutex: lock printQueueMutex, push, unlock.
Register(w) ==
    /\ dataQueue # <<>> /\ printMutex = NoOne
    /\ Goto(w, "have", "registered")
    /\ printQueue' = Append(printQueue, w)
    /\ UNCHANGED <<dataQueue, dataMutex, printMutex, sleepers, data, spawned,
                   returned, spurious, output>>

TakeData(w) ==
    /\ Goto(w, "registered", "calculate")
    /\ data' = [data EXCEPT ![w] = Head(dataQueue)]
    /\ dataQueue' = Tail(dataQueue)
    /\ dataMutex' = NoOne
    /\ UNCHANGED <<printQueue, printMutex, sleepers, spawned, returned, spurious, output>>

Calculate(w) ==
    /\ Goto(w, "calculate", "lock")
    /\ UNCHANGED <<dataQueue, printQueue, dataMutex, printMutex, sleepers, data,
                   spawned, returned, spurious, output>>

\* The first acquisition, and the one at the end of a wait.
LockPrint(w) ==
    /\ printMutex = NoOne /\ printMutex' = w
    /\ Goto(w, "lock", "front") \/ (w \notin sleepers /\ Goto(w, "asleep", "front"))
    /\ UNCHANGED <<dataQueue, printQueue, dataMutex, sleepers, data, spawned,
                   returned, spurious, output>>

PrintResult(w) ==
    /\ Goto(w, "front", "top") /\ printQueue[1] = w
    /\ output' = Append(output, data[w])
    /\ printQueue' = Tail(printQueue)
    /\ sleepers' = {} /\ printMutex' = NoOne
    /\ UNCHANGED <<dataQueue, dataMutex, data, spawned, returned, spurious>>

\* The condition variable enrols the worker and releases the mutex atomically.
Sleep(w) ==
    /\ Goto(w, "front", "asleep") /\ printQueue[1] # w
    /\ sleepers' = sleepers \union {w}
    /\ printMutex' = NoOne
    /\ UNCHANGED <<dataQueue, printQueue, dataMutex, data, spawned, returned,
                   spurious, output>>

SpuriousWake(w) ==
    /\ w \in sleepers /\ spurious < MaxSpurious
    /\ sleepers' = sleepers \ {w}
    /\ spurious' = spurious + 1
    /\ UNCHANGED <<dataQueue, printQueue, dataMutex, printMutex, pc, data, spawned,
                   returned, output>>

Worker(w) ==
    \/ LockData(w) \/ Leave(w) \/ Register(w) \/ TakeData(w) \/ Calculate(w)
    \/ LockPrint(w) \/ PrintResult(w) \/ Sleep(w)

-----------------------------------------------------------------------------
(* main()                                                                  *)

Spawn ==
    /\ spawned < NumThreads /\ spawned' = spawned + 1
    /\ Goto(spawned', "unborn", "top")
    /\ UNCHANGED <<dataQueue, printQueue, dataMutex, printMutex, sleepers, data,
                   returned, spurious, output>>

JoinAll ==
    /\ spawned = NumThreads /\ \A w \in Workers : pc[w] = "exited"
    /\ ~returned /\ returned' = TRUE
    /\ UNCHANGED <<dataQueue, printQueue, dataMutex, printMutex, sleepers, pc, data,
                   spawned, spurious, output>>

Main == Spawn \/ JoinAll

Next == Main \/ \E w \in Workers : Worker(w) \/ SpuriousWake(w)

Spec == Init /\ [][Next]_vars

\* Threads that can run do run; calculate() returns.
FairSpec == Spec /\ WF_vars(Main) /\ \A w \in Workers : WF_vars(Worker(w))

-----------------------------------------------------------------------------
\* The queues, the mutexes and the locals keep their types.
TypeOK ==
    /\ dataQueue \in Seq(Data) /\ printQueue \in Seq(Workers)
    /\ dataMutex \in Workers \union {NoOne} /\ printMutex \in Workers \union {NoOne}
    /\ sleepers \subseteq Workers
    /\ pc \in [Workers -> PCs] /\ data \in [Workers -> Data \union {NoDatum}]
    /\ spawned \in 0..NumThreads /\ returned \in BOOLEAN
    /\ spurious \in 0..MaxSpurious /\ output \in Seq(Data)

\* Whatever the order in which calculations end, what has been printed is a
\* prefix of what getData() put in the queue (lines 38-50 and 54-64).
PrintsInOrder ==
    /\ Len(output) <= Len(Input)
    /\ \A k \in 1..Len(output) : output[k] = Input[k]

Holding == {w \in Workers :
                pc[w] \in {"registered", "calculate", "lock", "front", "asleep"}}

\* A worker with a datum stands exactly once in printQueue, and nobody else
\* does: front() at lines 55 and 57 is never read from an empty queue, and no two
\* workers can both find themselves at the front.
RegisteredOnce ==
    /\ \A w \in Holding : \E k \in 1..Len(printQueue) : printQueue[k] = w
    /\ \A k \in 1..Len(printQueue) : printQueue[k] \in Holding
    /\ \A j, k \in 1..Len(printQueue) : printQueue[j] = printQueue[k] => j = k

\* Every result is printed and main() returns: the nested locks do not deadlock
\* and no worker sleeps through its turn (lines 44, 56 and 63).
AllPrinted == <>(returned /\ output = Input)
=============================================================================
