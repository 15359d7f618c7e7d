-------------------------- MODULE ThreadPoolProofs --------------------------
(***************************************************************************)
(* TLAPS proofs about ThreadPool, for every number of clients, workers and *)
(* thunks: the type invariant, the inductive invariant from which the      *)
(* correctness of wait() follows, the balance of the semaphores' permits,  *)
(* by which no assertion fails, and the places of a thunk, by which the    *)
(* pool is a WorkPool.                                                     *)
(***************************************************************************)
EXTENDS ThreadPool, FiniteSetTheorems, TLAPS

\* Wherever the dispatcher uses i as an index, it is the index of a worker.
IndexOK ==
    dpc \in {"unflag", "uncount", "pop", "assign", "request", "stopSignal"} => i \in Workers

TypeInv == TypeOK /\ IndexOK

LEMMA TypeInitial ==
  ASSUME Init
  PROVE  TypeInv
<1> USE PoolAssumption DEF Workers, ClientPCs, WorkerPCs, DispPCs
<1>1. owed \in [Clients -> SUBSET Thunks]
  BY DEF Init
<1>2. cpc \in [Clients -> ClientPCs]
  BY DEF Init
<1>3. wpc \in [Workers -> WorkerPCs]
  BY DEF Init
<1>4. i \in 1..(NumWorkers + 1) /\ dpc \in DispPCs
  BY DEF Init
<1>5. /\ lock \in Clients \union {NoOne} /\ cvWaiters \subseteq Clients
      /\ queue \in Seq(Thunks)
  BY DEF Init
<1>6. /\ available \in [Workers -> BOOLEAN] /\ requested \in [Workers -> Nat]
      /\ work \in [Workers -> Thunks \union {NoThunk}]
      /\ wstop \in [Workers -> BOOLEAN] /\ intact \in [Workers -> BOOLEAN]
  BY DEF Init
<1>7. /\ availableWork \in Nat /\ availableWorker \in Nat /\ numAvailable \in Int
  BY DEF Init
<1>8. stopWorking \in BOOLEAN /\ closing \in BOOLEAN
  BY DEF Init
<1>9. waits \in 0..MaxWaits /\ spurious \in 0..MaxSpurious
  <2>1. waits = 0 /\ spurious = 0
    BY DEF Init
  <2>2. MaxWaits \in Nat /\ MaxSpurious \in Nat
    OBVIOUS
  <2> QED BY <2>1, <2>2
<1>10. /\ pushed \subseteq Thunks /\ done \subseteq Thunks \union {NoThunk}
      /\ front \in Thunks \union {NoThunk} /\ IndexOK
  BY DEF Init, IndexOK
<1> QED BY <1>1, <1>2, <1>3, <1>4, <1>5, <1>6, <1>7, <1>8, <1>9, <1>10 DEF TypeInv, TypeOK

LEMMA TypeStep ==
  ASSUME TypeInv, [Next]_vars
  PROVE  TypeInv'
<1> USE PoolAssumption DEF Workers, WaitPCs, ClientPCs, WorkerPCs, DispPCs
<1> USE DEF TypeInv, TypeOK, IndexOK, pool, worker, disp, client, history,
            CGoto, WGoto, DGoto, ClientAt, WorkerAt, DispAt
<1>1. CASE ClientCall
  <2>1. ASSUME NEW c \in Clients, NEW t \in Thunks, PushWork(c, t) PROVE TypeInv'
    BY <2>1 DEF PushWork
  <2>2. ASSUME NEW c \in Clients, CallWait(c) PROVE TypeInv'
    BY <2>2 DEF CallWait, EnterWait
  <2>3. ASSUME NEW c \in Clients, SpuriousWake(c) PROVE TypeInv'
    BY <2>3 DEF SpuriousWake
  <2>4. CASE Destroy
    BY <2>4 DEF Destroy, EnterWait
  <2> QED BY <1>1, <2>1, <2>2, <2>3, <2>4 DEF ClientCall
<1>2. ASSUME NEW c \in Clients, ClientStep(c) PROVE TypeInv'
  <2>1. CASE SignalWork(c)
    BY <2>1 DEF SignalWork
  <2>2. CASE FastPath(c)
    BY <2>2 DEF FastPath, Return
  <2>3. CASE EvalPredicate(c)
    BY <2>3 DEF EvalPredicate, Return
  <2>4. CASE Block(c)
    BY <2>4 DEF Block
  <2>5. CASE Relock(c)
    BY <2>5 DEF Relock
  <2>6. CASE StopPool
    BY <2>6 DEF StopPool
  <2>7. CASE SignalStopWork
    BY <2>7 DEF SignalStopWork
  <2>8. CASE SignalStopWorker
    BY <2>8 DEF SignalStopWorker
  <2>9. CASE JoinDispatcher
    BY <2>9 DEF JoinDispatcher
  <2> QED BY <1>2, <2>1, <2>2, <2>3, <2>4, <2>5, <2>6, <2>7, <2>8, <2>9 DEF ClientStep
<1>3. CASE Dispatcher
  <2>1. CASE SpawnWorker
    BY <2>1 DEF SpawnWorker
  <2>2. CASE EnterLoop
    BY <2>2 DEF EnterLoop
  <2>3. CASE TakeWork
    BY <2>3 DEF TakeWork
  <2>4. CASE TakeWorker
    BY <2>4 DEF TakeWorker
  <2>5. CASE CheckStop
    BY <2>5 DEF CheckStop
  <2>6. CASE Scan
    <3>1. i' \in 1..(NumWorkers + 1) /\ dpc' \in DispPCs
      BY <2>6 DEF Scan
    <3> QED BY <3>1, <2>6 DEF Scan
  <2>7. CASE Unflag
    BY <2>7 DEF Unflag
  <2>8. CASE Uncount
    BY <2>8 DEF Uncount
  <2>9. CASE PopWork
    BY <2>9 DEF PopWork
  <2>10. CASE AssignWork
    BY <2>10 DEF AssignWork
  <2>11. CASE RequestWorker
    <3>1. requested' \in [Workers -> Nat]
      BY <2>11 DEF RequestWorker
    <3> QED BY <3>1, <2>11 DEF RequestWorker
  <2>12. CASE FlagStop
    BY <2>12 DEF FlagStop
  <2>13. CASE SignalStop
    <3>1. requested' \in [Workers -> Nat]
      BY <2>13 DEF SignalStop
    <3>2. i' \in 1..(NumWorkers + 1)
      BY <2>13 DEF SignalStop
    <3> QED BY <3>1, <3>2, <2>13 DEF SignalStop
  <2>14. CASE JoinWorkers
    BY <2>14 DEF JoinWorkers
  <2> QED BY <1>3, <2>1, <2>2, <2>3, <2>4, <2>5, <2>6, <2>7, <2>8, <2>9, <2>10,
             <2>11, <2>12, <2>13, <2>14 DEF Dispatcher
<1>4. ASSUME NEW w \in Workers, Worker(w) PROVE TypeInv'
  <2>1. CASE SetAvailable(w)
    BY <2>1 DEF SetAvailable
  <2>2. CASE CountAvailable(w)
    BY <2>2 DEF CountAvailable
  <2>3. CASE AwaitRequest(w)
    BY <2>3 DEF AwaitRequest
  <2>4. CASE CheckWorkerStop(w)
    BY <2>4 DEF CheckWorkerStop
  <2>5. CASE FinishWork(w)
    BY <2>5 DEF FinishWork
  <2> QED BY <1>4, <2>1, <2>2, <2>3, <2>4, <2>5 DEF Worker
<1>5. CASE UNCHANGED vars
  BY <1>5 DEF vars
<1> QED BY <1>1, <1>2, <1>3, <1>4, <1>5 DEF Next

LEMMA TypeInvariant == Spec => []TypeInv
BY TypeInitial, TypeStep, PTL DEF Spec

\* The program is always in one of the states its variables are declared for.
THEOREM TypeCorrect == Spec => []TypeOK
<1>1. TypeInv => TypeOK
  BY DEF TypeInv
<1> QED BY <1>1, TypeInvariant, PTL

-----------------------------------------------------------------------------
(* The inductive invariant.                                                *)

MainPCs  == {"takeWork", "takeWorker", "checkStop", "scan", "unflag", "uncount",
             "pop", "assign", "request"}
ClaimPCs == {"unflag", "uncount", "pop", "assign", "request"}

\* Workers are spawned in order; nobody stops them before the main loop ends, and
\* then each sees its stopWorking flag before the signal.
SpawnInv ==
    /\ dpc = "spawn" => \A w \in Workers : w >= i => wpc[w] = "unborn"
    /\ dpc \in MainPCs \union {"spawn"} => \A w \in Workers : ~wstop[w]
    /\ dpc = "stopSignal" => wstop[i]

\* What the flag of a worker says about it.  Until it is told to stop, at most
\* one request is on its way to it, and only while it is claimed.
FlagInv ==
    \A w \in Workers :
        /\ wpc[w] \in {"unborn", "init", "run"} => ~available[w]
        /\ ~wstop[w] =>
             /\ requested[w] \in {0, 1}
             /\ requested[w] > 0 => ~available[w] /\ wpc[w] \in {"flagged", "idle"}
             /\ wpc[w] = "check" => ~available[w]
             /\ wpc[w] # "exited"

\* The worker the dispatcher is preparing stays where it was found.
ClaimInv ==
    dpc \in ClaimPCs =>
        /\ requested[i] = 0 /\ wpc[i] \in {"flagged", "idle"}
        /\ available[i] <=> dpc = "unflag"

\* numAvailableWorkers counts the workers that have counted themselves in, less
\* those that the dispatcher has counted out.
Counted == {w \in Workers : wpc[w] \notin {"unborn", "init", "flagged"}}
Charged == {w \in Workers : Claimed(w) /\ ~(dpc = "uncount" /\ i = w)}

CountInv == numAvailable = Cardinality(Counted) - Cardinality(Charged)

\* A scheduled thunk is in the queue, in somebody's hands, or done.
InLine == {queue[k] : k \in DOMAIN queue}

CoverInv == pushed \subseteq InLine \union Busy \union done

OwedInv == \A c \in Clients : owed[c] \subseteq pushed

WaitInv == TypeInv /\ SpawnInv /\ FlagInv /\ ClaimInv /\ CountInv /\ CoverInv /\ OwedInv

-----------------------------------------------------------------------------
\* The clients touch neither the workers nor the dispatcher.
LEMMA ClientFrame ==
  ASSUME ClientCall \/ \E c \in Clients : ClientStep(c)
  PROVE  UNCHANGED <<worker, disp, numAvailable, done>>
<1>1. CASE ClientCall
  BY <1>1 DEF ClientCall, PushWork, CallWait, SpuriousWake, Destroy, EnterWait,
              worker, disp, history
<1>2. ASSUME NEW c \in Clients, ClientStep(c) PROVE UNCHANGED <<worker, disp, numAvailable, done>>
  BY <1>2 DEF ClientStep, SignalWork, FastPath, EvalPredicate, Block, Relock, StopPool,
              SignalStopWork, SignalStopWorker, JoinDispatcher, pool, worker, disp, history
<1> QED BY <1>1, <1>2

LEMMA ControlStep ==
  ASSUME TypeInv, SpawnInv, FlagInv, ClaimInv, [Next]_vars
  PROVE  SpawnInv' /\ FlagInv' /\ ClaimInv'
<1> DEFINE Goal == SpawnInv' /\ FlagInv' /\ ClaimInv'
<1> USE PoolAssumption DEF TypeInv, TypeOK, IndexOK, SpawnInv, FlagInv, ClaimInv,
        Workers, MainPCs, ClaimPCs, pool, worker, disp, client, history,
        WGoto, DGoto, WorkerAt, DispAt, Alive
<1>1. CASE (ClientCall \/ \E c \in Clients : ClientStep(c)) \/ UNCHANGED vars
  <2>1. UNCHANGED <<worker, disp>>
    BY <1>1, ClientFrame DEF vars
  <2> QED BY <2>1
<1>2. CASE Dispatcher
  <2>1. CASE SpawnWorker
    BY <2>1 DEF SpawnWorker
  <2>2. CASE EnterLoop
    BY <2>2 DEF EnterLoop
  <2>3. CASE TakeWork
    BY <2>3 DEF TakeWork
  <2>4. CASE TakeWorker
    BY <2>4 DEF TakeWorker
  <2>5. CASE CheckStop
    BY <2>5 DEF CheckStop
  <2>6. CASE Scan
    <3> USE <2>6 DEF Scan
    <3>1. CASE available[i]
      <4>1. i \in Workers /\ ~wstop[i] /\ wpc[i] # "crashed"
        OBVIOUS
      <4>2. requested[i] = 0 /\ wpc[i] \in {"flagged", "idle"}
        BY <3>1, <4>1 DEF WorkerPCs
      <4> QED BY <3>1, <4>1, <4>2
    <3>2. CASE ~available[i]
      BY <3>2
    <3> QED BY <3>1, <3>2
  <2>7. CASE Unflag
    BY <2>7 DEF Unflag
  <2>8. CASE Uncount
    BY <2>8 DEF Uncount
  <2>9. CASE PopWork
    BY <2>9 DEF PopWork
  <2>10. CASE AssignWork
    BY <2>10 DEF AssignWork
  <2>11. CASE RequestWorker
    BY <2>11 DEF RequestWorker
  <2>12. CASE FlagStop
    BY <2>12 DEF FlagStop
  <2>13. CASE SignalStop
    BY <2>13 DEF SignalStop
  <2>14. CASE JoinWorkers
    BY <2>14 DEF JoinWorkers
  <2> QED BY <1>2, <2>1, <2>2, <2>3, <2>4, <2>5, <2>6, <2>7, <2>8, <2>9, <2>10, <2>11,
      <2>12, <2>13, <2>14 DEF Dispatcher
<1>3. ASSUME NEW w \in Workers, Worker(w) PROVE Goal
  <2>1. CASE SetAvailable(w)
    BY <2>1 DEF SetAvailable
  <2>2. CASE CountAvailable(w)
    BY <2>2 DEF CountAvailable
  <2>3. CASE AwaitRequest(w)
    BY <2>3 DEF AwaitRequest
  <2>4. CASE CheckWorkerStop(w)
    BY <2>4 DEF CheckWorkerStop
  <2>5. CASE FinishWork(w)
    BY <2>5 DEF FinishWork
  <2> QED BY <1>3, <2>1, <2>2, <2>3, <2>4, <2>5 DEF Worker
<1> QED BY <1>1, <1>2, <1>3 DEF Next

LEMMA FiniteWorkers ==
  ASSUME NEW S \in SUBSET Workers
  PROVE  IsFiniteSet(S) /\ Cardinality(S) \in Nat /\ Cardinality(S) <= NumWorkers
<1>1. IsFiniteSet(Workers) /\ Cardinality(Workers) = NumWorkers
  BY FS_Interval, PoolAssumption DEF Workers
<1> QED BY <1>1, FS_Subset, FS_CardinalityType

LEMMA CountStep ==
  ASSUME TypeInv, SpawnInv, FlagInv, ClaimInv, CountInv, [Next]_vars
  PROVE  CountInv'
<1> DEFINE Same == numAvailable' = numAvailable /\ Counted' = Counted /\ Charged' = Charged
<1> USE PoolAssumption
<1>fin. /\ IsFiniteSet(Counted) /\ Cardinality(Counted) \in Nat
        /\ IsFiniteSet(Charged) /\ Cardinality(Charged) \in Nat
  BY FiniteWorkers DEF Counted, Charged
<1>same. Same => CountInv'
  BY DEF CountInv
<1> USE DEF TypeInv, TypeOK, IndexOK, SpawnInv, FlagInv, ClaimInv, MainPCs, ClaimPCs
<1>1. CASE (ClientCall \/ \E c \in Clients : ClientStep(c)) \/ UNCHANGED vars
  <2>1. UNCHANGED <<worker, disp, numAvailable>>
    BY <1>1, ClientFrame DEF vars, pool
  <2> QED BY <2>1, <1>same DEF Counted, Charged, Claimed, worker, disp
<1>2. CASE Dispatcher
  <2>1. CASE SpawnWorker
    BY <2>1, <1>same DEF Counted, Charged, Claimed, SpawnWorker, pool, worker, DGoto, DispAt
  <2>2. CASE EnterLoop
    BY <2>2, <1>same DEF Counted, Charged, Claimed, EnterLoop, pool, worker, DGoto, DispAt
  <2>3. CASE TakeWork
    BY <2>3, <1>same DEF Counted, Charged, Claimed, TakeWork, pool, worker, DGoto, DispAt
  <2>4. CASE TakeWorker
    BY <2>4, <1>same DEF Counted, Charged, Claimed, TakeWorker, pool, worker, DGoto, DispAt
  <2>5. CASE CheckStop
    BY <2>5, <1>same DEF Counted, Charged, Claimed, CheckStop, pool, worker, DGoto, DispAt
  <2>6. CASE Scan
    BY <2>6, <1>same DEF Counted, Charged, Claimed, Scan, pool, worker, DGoto, DispAt
  <2>7. CASE Unflag
    BY <2>7, <1>same DEF Counted, Charged, Claimed, Unflag, pool, worker, DGoto, DispAt
  <2>8. CASE Uncount
    <3>1. Counted' = Counted /\ numAvailable' = numAvailable - 1
      BY <2>8 DEF Counted, Charged, Claimed, Uncount, pool, worker
    <3>2. Charged' = Charged \union {i} /\ i \notin Charged
      BY <2>8 DEF Counted, Charged, Claimed, Uncount, worker, DGoto, DispAt
    <3>3. Cardinality(Charged') = Cardinality(Charged) + 1
      BY <3>2, <1>fin, FS_AddElement
    <3> QED BY <3>1, <3>3, <1>fin DEF CountInv
  <2>9. CASE PopWork
    BY <2>9, <1>same DEF Counted, Charged, Claimed, PopWork, pool, worker, DGoto, DispAt
  <2>10. CASE AssignWork
    BY <2>10, <1>same DEF Counted, Charged, Claimed, AssignWork, pool, worker, DGoto, DispAt
  <2>11. CASE RequestWorker
    BY <2>11, <1>same DEF Counted, Charged, Claimed, RequestWorker, pool, worker, DGoto, DispAt
  <2>12. CASE FlagStop
    BY <2>12, <1>same DEF Counted, Charged, Claimed, FlagStop, pool, worker, DGoto, DispAt
  <2>13. CASE SignalStop
    BY <2>13, <1>same DEF Counted, Charged, Claimed, SignalStop, pool, worker, DGoto, DispAt
  <2>14. CASE JoinWorkers
    BY <2>14, <1>same DEF Counted, Charged, Claimed, JoinWorkers, pool, worker, DGoto, DispAt
  <2> QED BY <1>2, <2>1, <2>2, <2>3, <2>4, <2>5, <2>6, <2>7, <2>8, <2>9, <2>10, <2>11,
      <2>12, <2>13, <2>14 DEF Dispatcher
<1>3. ASSUME NEW w \in Workers, Worker(w) PROVE CountInv'
  <2>1. CASE SetAvailable(w)
    BY <2>1, <1>same DEF Counted, Charged, Claimed, SetAvailable, pool, disp, WGoto, WorkerAt
  <2>2. CASE CountAvailable(w)
    <3>1. Charged' = Charged /\ numAvailable' = numAvailable + 1
      BY <2>2 DEF Charged, Claimed, CountAvailable, disp, WGoto, WorkerAt
    <3>2. Counted' = Counted \union {w} /\ w \notin Counted
      BY <2>2 DEF Counted, CountAvailable, WGoto, WorkerAt
    <3>3. Cardinality(Counted') = Cardinality(Counted) + 1
      BY <3>2, <1>fin, FS_AddElement
    <3> QED BY <3>1, <3>3, <1>fin DEF CountInv
  <2>3. CASE AwaitRequest(w)
    BY <2>3, <1>same DEF Counted, Charged, Claimed, AwaitRequest, pool, disp, WGoto, WorkerAt
  <2>4. CASE CheckWorkerStop(w)
    BY <2>4, <1>same DEF Counted, Charged, Claimed, CheckWorkerStop, pool, disp, WGoto, WorkerAt
  <2>5. CASE FinishWork(w)
    <3> USE DEF FinishWork, pool, disp, WGoto, WorkerAt
    <3>1. CASE intact[w]
      <4>1. numAvailable' = numAvailable
        BY <2>5
      <4>2. Counted' = Counted \ {w} /\ w \in Counted
        BY <2>5, <3>1 DEF Counted
      <4>3. Charged' = Charged \ {w} /\ w \in Charged
        BY <2>5, <3>1 DEF Charged, Claimed
      <4>4. /\ Cardinality(Counted') = Cardinality(Counted) - 1
            /\ Cardinality(Charged') = Cardinality(Charged) - 1
        BY <4>2, <4>3, <1>fin, FS_RemoveElement
      <4> QED BY <4>1, <4>4, <1>fin DEF CountInv
    <3>2. CASE ~intact[w]
      <4>1. numAvailable' = numAvailable /\ Counted' = Counted /\ Charged' = Charged
        BY <2>5, <3>2 DEF Counted, Charged, Claimed
      <4> QED BY <4>1, <1>same
    <3> QED BY <3>1, <3>2
  <2> QED BY <1>3, <2>1, <2>2, <2>3, <2>4, <2>5 DEF Worker
<1> QED BY <1>1, <1>2, <1>3 DEF Next

\* schedule() is the only operation of a client that adds to the queue, and
\* entering wait() the only one that adds to what a client is owed.
LEMMA ClientQueueFrame ==
  ASSUME NEW c \in Clients,
         \/ CallWait(c) \/ SpuriousWake(c) \/ Destroy \/ ClientStep(c)
  PROVE  queue' = queue /\ pushed' = pushed
<1>1. CASE CallWait(c) \/ SpuriousWake(c) \/ Destroy
  BY <1>1 DEF CallWait, SpuriousWake, Destroy, EnterWait, history
<1>2. CASE ClientStep(c)
  BY <1>2 DEF ClientStep, SignalWork, FastPath, EvalPredicate, Block, Relock, StopPool,
              SignalStopWork, SignalStopWorker, JoinDispatcher, pool, history
<1> QED BY <1>1, <1>2

LEMMA CoverStep ==
  ASSUME TypeInv, SpawnInv, FlagInv, ClaimInv, CoverInv, [Next]_vars
  PROVE  CoverInv'
<1> DEFINE Same == /\ InLine' = InLine /\ InHand' = InHand /\ Loaded' = Loaded
                   /\ work' = work /\ done' = done /\ pushed' = pushed
<1>same. Same => CoverInv'
  BY DEF CoverInv, Busy
<1> USE PoolAssumption
<1> USE DEF TypeInv, TypeOK, IndexOK, SpawnInv, FlagInv, ClaimInv, MainPCs, ClaimPCs
<1>1. CASE (ClientCall \/ \E c \in Clients : ClientStep(c)) \/ UNCHANGED vars
  <2>1. UNCHANGED <<worker, disp, done>>
    BY <1>1, ClientFrame DEF vars, history
  <2>2. InHand' = InHand /\ Loaded' = Loaded /\ work' = work
    BY <2>1 DEF InHand, Loaded, Claimed, Preparing, worker, disp
  <2>3. CASE UNCHANGED <<queue, pushed>>
    BY <2>1, <2>2, <2>3, <1>same DEF InLine
  <2>4. ASSUME NEW c \in Clients, NEW t \in Thunks, PushWork(c, t) PROVE CoverInv'
    <3>1. queue' = Append(queue, t) /\ pushed' = pushed \union {t}
      BY <2>4 DEF PushWork
    <3>2. InLine \union {t} \subseteq InLine'
      <4>1. queue \in Seq(Thunks) /\ Len(queue') = Len(queue) + 1
        BY <3>1
      <4>2. DOMAIN queue = 1..Len(queue) /\ DOMAIN queue' = 1..Len(queue')
        BY <3>1, <4>1
      <4>3. /\ \A k \in 1..Len(queue) : queue'[k] = queue[k]
            /\ queue'[Len(queue) + 1] = t
        BY <3>1, <4>1
      <4> QED BY <4>1, <4>2, <4>3 DEF InLine
    <3> QED BY <2>1, <2>2, <3>1, <3>2 DEF CoverInv, Busy
  <2>5. CASE UNCHANGED vars
    BY <2>3, <2>5 DEF vars, pool, history
  <2> QED BY <1>1, <2>3, <2>4, <2>5, ClientQueueFrame DEF ClientCall
<1>2. CASE Dispatcher
  <2>1. CASE SpawnWorker
    BY <2>1, <1>same DEF SpawnWorker, InLine, InHand, Loaded, Claimed, Preparing,
       pool, worker, history, DGoto, DispAt
  <2>2. CASE EnterLoop
    BY <2>2, <1>same DEF EnterLoop, InLine, InHand, Loaded, Claimed, Preparing,
       pool, worker, history, DGoto, DispAt
  <2>3. CASE TakeWork
    BY <2>3, <1>same DEF TakeWork, InLine, InHand, Loaded, Claimed, Preparing,
       pool, worker, history, DGoto, DispAt
  <2>4. CASE TakeWorker
    BY <2>4, <1>same DEF TakeWorker, InLine, InHand, Loaded, Claimed, Preparing,
       pool, worker, history, DGoto, DispAt
  <2>5. CASE CheckStop
    BY <2>5, <1>same DEF CheckStop, InLine, InHand, Loaded, Claimed, Preparing,
       pool, worker, history, DGoto, DispAt
  <2>6. CASE Scan
    BY <2>6, <1>same DEF Scan, InLine, InHand, Loaded, Claimed, Preparing,
       pool, worker, history, DGoto, DispAt
  <2>7. CASE Unflag
    BY <2>7, <1>same DEF Unflag, InLine, InHand, Loaded, Claimed, Preparing,
       pool, worker, history, DGoto, DispAt
  <2>8. CASE Uncount
    BY <2>8, <1>same DEF Uncount, InLine, InHand, Loaded, Claimed, Preparing,
       pool, worker, history, DGoto, DispAt
  <2>9. CASE PopWork
    <3>1. InLine \subseteq InLine' \union {Head(queue)}
      <4>1. queue \in Seq(Thunks) /\ queue # <<>> /\ queue' = Tail(queue)
        BY <2>9 DEF PopWork
      <4>2. \A k \in 1..Len(queue) : k # 1 => queue[k] = queue'[k - 1] /\ k - 1 \in 1..Len(queue')
        <5>1. Len(queue') = Len(queue) - 1 /\ Len(queue) \in Nat
          BY <4>1
        <5>2. \A j \in 1..(Len(queue) - 1) : queue'[j] = queue[j + 1]
          BY <4>1
        <5> SUFFICES ASSUME NEW k \in 1..Len(queue), k # 1
                     PROVE  queue[k] = queue'[k - 1] /\ k - 1 \in 1..Len(queue')
          OBVIOUS
        <5>3. k - 1 \in 1..(Len(queue) - 1) /\ (k - 1) + 1 = k
          BY <5>1
        <5> QED BY <5>1, <5>2, <5>3
      <4>3. DOMAIN queue = 1..Len(queue) /\ DOMAIN queue' = 1..Len(queue')
        BY <4>1
      <4>4. queue[1] = Head(queue)
        BY <4>1
      <4> SUFFICES ASSUME NEW k \in 1..Len(queue), k # 1
                   PROVE  queue[k] \in InLine'
        BY <4>3, <4>4 DEF InLine
      <4> QED BY <4>2, <4>3 DEF InLine
    <3>2. Loaded' = Loaded /\ work' = work /\ pushed' = pushed /\ done' = done
      BY <2>9 DEF PopWork, Loaded, Claimed, Preparing, worker, history, DGoto, DispAt
    <3>3. InHand' = {Head(queue)} /\ InHand = {}
      BY <2>9 DEF PopWork, InHand, DGoto, DispAt
    <3> QED BY <3>1, <3>2, <3>3 DEF CoverInv, Busy
  <2>10. CASE AssignWork
    <3>1. Loaded' = Loaded \union {i} /\ i \notin Loaded
      BY <2>10 DEF AssignWork, Loaded, Claimed, Preparing, DGoto, DispAt
    <3>2. work' = [work EXCEPT ![i] = front] /\ InHand = {front} /\ InHand' = {}
      BY <2>10 DEF AssignWork, InHand, DGoto, DispAt
    <3>3. Busy' = Busy
      BY <3>1, <3>2 DEF Busy, Loaded
    <3>4. InLine' = InLine /\ pushed' = pushed /\ done' = done
      BY <2>10 DEF AssignWork, InLine, pool, history
    <3> QED BY <3>3, <3>4 DEF CoverInv
  <2>11. CASE RequestWorker
    BY <2>11, <1>same DEF RequestWorker, InLine, InHand, Loaded, Claimed, Preparing,
       pool, worker, history, DGoto, DispAt
  <2>12. CASE FlagStop
    BY <2>12, <1>same DEF FlagStop, InLine, InHand, Loaded, Claimed, Preparing,
       pool, worker, history, DGoto, DispAt
  <2>13. CASE SignalStop
    BY <2>13, <1>same DEF SignalStop, InLine, InHand, Loaded, Claimed, Preparing,
       pool, worker, history, DGoto, DispAt
  <2>14. CASE JoinWorkers
    BY <2>14, <1>same DEF JoinWorkers, InLine, InHand, Loaded, Claimed, Preparing,
       pool, worker, history, DGoto, DispAt
  <2> QED BY <1>2, <2>1, <2>2, <2>3, <2>4, <2>5, <2>6, <2>7, <2>8, <2>9, <2>10, <2>11,
      <2>12, <2>13, <2>14 DEF Dispatcher
<1>3. ASSUME NEW w \in Workers, Worker(w) PROVE CoverInv'
  <2>1. CASE SetAvailable(w)
    BY <2>1, <1>same DEF SetAvailable, InLine, InHand, Loaded, Claimed, Preparing,
       pool, disp, history, WGoto, WorkerAt
  <2>2. CASE CountAvailable(w)
    BY <2>2, <1>same DEF CountAvailable, InLine, InHand, Loaded, Claimed, Preparing,
       pool, disp, history, WGoto, WorkerAt
  <2>3. CASE AwaitRequest(w)
    BY <2>3, <1>same DEF AwaitRequest, InLine, InHand, Loaded, Claimed, Preparing,
       pool, disp, history, WGoto, WorkerAt
  <2>4. CASE CheckWorkerStop(w)
    BY <2>4, <1>same DEF CheckWorkerStop, InLine, InHand, Loaded, Claimed, Preparing,
       pool, disp, history, WGoto, WorkerAt
  <2>5. CASE FinishWork(w)
    <3>1. InLine' = InLine /\ InHand' = InHand /\ pushed' = pushed /\ work' = work
      BY <2>5 DEF FinishWork, InLine, InHand, pool, disp
    <3>2. Loaded \subseteq Loaded' \union {w}
      BY <2>5 DEF FinishWork, Loaded, Claimed, Preparing, disp, WGoto, WorkerAt
    <3>3. CASE intact[w]
      <4>1. done' = done \union {work[w]}
        BY <2>5, <3>3 DEF FinishWork
      <4> QED BY <3>1, <3>2, <4>1 DEF CoverInv, Busy
    <3>4. CASE ~intact[w]
      <4>1. Loaded' = Loaded /\ done' = done
        BY <2>5, <3>4 DEF FinishWork, Loaded, Claimed, Preparing, disp, WGoto, WorkerAt
      <4> QED BY <3>1, <4>1 DEF CoverInv, Busy
    <3> QED BY <3>3, <3>4
  <2> QED BY <1>3, <2>1, <2>2, <2>3, <2>4, <2>5 DEF Worker
<1> QED BY <1>1, <1>2, <1>3 DEF Next

LEMMA OwedStep ==
  ASSUME TypeInv, OwedInv, [Next]_vars
  PROVE  OwedInv'
<1> USE DEF TypeInv, TypeOK, OwedInv
<1>1. CASE UNCHANGED <<owed, pushed>>
  BY <1>1
<1>2. ASSUME NEW c \in Clients, NEW t \in Thunks, PushWork(c, t) PROVE OwedInv'
  BY <1>2 DEF PushWork
<1>3. ASSUME NEW c \in Clients, EnterWait(c) PROVE OwedInv'
  BY <1>3 DEF EnterWait
<1>4. ASSUME NEW c \in Clients, SpuriousWake(c) \/ ClientStep(c) PROVE OwedInv'
  <2>1. UNCHANGED <<owed, pushed>>
    BY <1>4 DEF SpuriousWake, ClientStep, SignalWork, FastPath, EvalPredicate, Block, Relock,
                StopPool, SignalStopWork, SignalStopWorker, JoinDispatcher, history
  <2> QED BY <2>1, <1>1
<1>5. CASE ClientCall
  BY <1>5, <1>2, <1>3, <1>4, PoolAssumption DEF ClientCall, CallWait, Destroy
<1>6. CASE Dispatcher
  BY <1>6, <1>1 DEF Dispatcher, SpawnWorker, EnterLoop, TakeWork, TakeWorker, CheckStop,
     Scan, Unflag, Uncount, PopWork, AssignWork, RequestWorker, FlagStop, SignalStop,
     JoinWorkers, history
<1>7. ASSUME NEW w \in Workers, Worker(w) PROVE OwedInv'
  BY <1>7, <1>1 DEF Worker, SetAvailable, CountAvailable, AwaitRequest, CheckWorkerStop,
     FinishWork, history
<1>8. CASE UNCHANGED vars
  BY <1>8, <1>1 DEF vars, history
<1> QED BY <1>4, <1>5, <1>6, <1>7, <1>8 DEF Next

LEMMA WaitInvariant == Spec => []WaitInv
<1>1. Init => WaitInv
  <2> SUFFICES ASSUME Init PROVE WaitInv
    OBVIOUS
  <2>1. TypeInv
    BY TypeInitial
  <2>2. SpawnInv /\ FlagInv /\ ClaimInv
    BY DEF Init, SpawnInv, FlagInv, ClaimInv, MainPCs, ClaimPCs, Workers
  <2>3. Counted = {} /\ Charged = {} /\ numAvailable = 0
    BY DEF Init, Counted, Charged, Claimed
  <2>4. CountInv
    BY <2>3, FS_EmptySet DEF CountInv
  <2>5. CoverInv /\ OwedInv
    BY DEF Init, CoverInv, OwedInv
  <2> QED BY <2>1, <2>2, <2>4, <2>5 DEF WaitInv
<1>2. WaitInv /\ [Next]_vars => WaitInv'
  BY TypeStep, ControlStep, CountStep, CoverStep, OwedStep DEF WaitInv
<1> QED BY <1>1, <1>2, PTL DEF Spec

\* If the queue is empty and the counter says that every worker is available, then
\* no worker is charged with a thunk, and so everything scheduled has been done.
LEMMA QuiescentUncharged ==
  ASSUME WaitInv, Quiescent
  PROVE  Charged = {}
<1>1. /\ Cardinality(Counted) \in Nat /\ Cardinality(Counted) <= NumWorkers
      /\ Cardinality(Charged) \in Nat /\ IsFiniteSet(Charged)
  BY FiniteWorkers DEF Counted, Charged
<1>2. NumWorkers = Cardinality(Counted) - Cardinality(Charged)
  BY DEF Quiescent, CountInv, WaitInv
<1>3. Cardinality(Charged) = 0
  BY <1>1, <1>2, PoolAssumption
<1> QED BY <1>1, <1>3, FS_EmptySet

LEMMA QuiescentMeansDone ==
  ASSUME WaitInv, Quiescent
  PROVE  pushed \subseteq done
<1> USE PoolAssumption DEF WaitInv, TypeInv, TypeOK, IndexOK
<1>1. Charged = {}
  BY QuiescentUncharged
<1>2. Loaded = {}
  BY <1>1 DEF Loaded, Charged, Preparing
<1>3. InHand = {}
  <2> SUFFICES ASSUME dpc = "assign" PROVE FALSE
    BY DEF InHand
  <2>1. i \in Charged
    BY DEF ClaimInv, ClaimPCs, Charged, Claimed
  <2> QED BY <2>1, <1>1
<1>4. InLine = {}
  BY DEF InLine, Quiescent
<1> QED BY <1>2, <1>3, <1>4 DEF CoverInv, Busy

\* wait() never returns early: however the threads interleave, whatever wakes the
\* waiters, and whether or not a copied closure was still intact, a call of wait()
\* ends only when every thunk scheduled before it has been executed in full.
THEOREM WaitCorrect == Spec => WaitSound
<1> DEFINE Sound == \A c \in Clients : InWait(c) /\ ~InWait(c)' => owed[c] \subseteq done
<1>1. ASSUME WaitInv, [Next]_vars PROVE [Sound]_vars
  <2> SUFFICES ASSUME NEW c \in Clients, Next, InWait(c), ~InWait(c)'
               PROVE  owed[c] \subseteq done
    BY <1>1
  <2> USE <1>1 DEF InWait, WaitPCs
  <2>1. cpc \in [Clients -> ClientPCs] /\ Owner \in Clients
    BY PoolAssumption DEF WaitInv, TypeInv, TypeOK
  <2>2. cpc' # cpc
    OBVIOUS
  <2>3. Quiescent
    <3>1. CASE ClientCall
      BY <3>1, <2>1 DEF ClientCall, PushWork, CallWait, Destroy, EnterWait, SpuriousWake,
                        CGoto, ClientAt
    <3>2. ASSUME NEW b \in Clients, ClientStep(b) PROVE Quiescent
      <4>1. CASE FastPath(b)
        BY <4>1, <2>1 DEF FastPath, CGoto, ClientAt
      <4>2. CASE EvalPredicate(b)
        BY <4>2, <2>1 DEF EvalPredicate, CGoto, ClientAt
      <4>3. ~(SignalWork(b) \/ Block(b) \/ Relock(b))
        BY <2>1 DEF SignalWork, Block, Relock, CGoto, ClientAt
      <4>4. ~(StopPool \/ SignalStopWork \/ SignalStopWorker \/ JoinDispatcher)
        BY <2>1 DEF StopPool, SignalStopWork, SignalStopWorker, JoinDispatcher, CGoto, ClientAt
      <4> QED BY <3>2, <4>1, <4>2, <4>3, <4>4 DEF ClientStep
    <3>3. ~Dispatcher
      BY <2>2 DEF Dispatcher, SpawnWorker, EnterLoop, TakeWork, TakeWorker, CheckStop,
         Scan, Unflag, Uncount, PopWork, AssignWork, RequestWorker, FlagStop, SignalStop,
         JoinWorkers, client
    <3>4. \A w \in Workers : ~Worker(w)
      BY <2>2 DEF Worker, SetAvailable, CountAvailable, AwaitRequest, CheckWorkerStop,
         FinishWork, client
    <3> QED BY <3>1, <3>2, <3>3, <3>4 DEF Next
  <2>4. pushed \subseteq done
    BY <2>3, QuiescentMeansDone
  <2> QED BY <2>4 DEF WaitInv, OwedInv
<1> QED BY <1>1, WaitInvariant, PTL DEF Spec, WaitSound

-----------------------------------------------------------------------------
(* The assertions: the permits of the two semaphores.  Each stands for a   *)
(* thunk in the queue, or for a worker that has counted itself in, until   *)
(* the destructor adds one of each to a pool in which nothing can happen   *)
(* any more.                                                               *)

StopPCs  == {"stop", "wakeWork", "wakeWorker", "join", "gone"}
Stopping == cpc[Owner] \in StopPCs

HeldWork ==
    IF dpc \in {"takeWorker", "checkStop", "scan", "unflag", "uncount", "pop"} THEN 1 ELSE 0
HeldWorker == IF dpc \in {"checkStop", "scan", "unflag", "uncount"} THEN 1 ELSE 0

\* Clients that have pushed a thunk and not yet signalled it.
Signalling == {c \in Clients : cpc[c] = "signal"}

\* Only the owner closes the pool, and then nobody else uses it.
ClosingInv ==
    /\ \A c \in Clients : cpc[c] \in StopPCs => c = Owner
    /\ closing => \A c \in Clients \ {Owner} : cpc[c] = "ready"
    /\ closing => cpc[Owner] \in StopPCs \union WaitPCs
    /\ Stopping => closing

PermitInv ==
    ~Stopping =>
        /\ Len(queue) = availableWork + HeldWork + Cardinality(Signalling)
        /\ availableWorker + HeldWorker = numAvailable
        /\ ~stopWorking
        /\ dpc \notin {"stopFlag", "stopSignal", "exited"}

\* The destructor's signals find the dispatcher waiting for work, and the flag is
\* up before the first of them.
StopInv ==
    Stopping =>
        /\ queue = <<>>
        /\ cpc[Owner] = "stop" \/ stopWorking
        /\ cpc[Owner] \in {"stop", "wakeWork"} => dpc \in {"spawn", "takeWork"} /\ availableWork = 0
        /\ dpc \notin {"scan", "unflag", "uncount", "pop", "assign", "request"}

\* While the dispatcher scans, an available worker lies ahead of it.
ScanInv == dpc = "scan" => \E w \in Workers : w >= i /\ available[w]

\* The inductive invariant behind the assertions: the counter is the number of
\* workers that have counted themselves in, less those the dispatcher is taking
\* (lines 128-137), and each semaphore holds one permit per thunk in the queue or
\* per counted worker until the destructor adds its own (lines 91-92).
AssertInv == WaitInv /\ ClosingInv /\ PermitInv /\ StopInv /\ ScanInv
-----------------------------------------------------------------------------
LEMMA ThreadFrame ==
  ASSUME Dispatcher \/ \E w \in Workers : Worker(w)
  PROVE  UNCHANGED <<client, stopWorking>>
<1>1. CASE Dispatcher
  BY <1>1 DEF Dispatcher, SpawnWorker, EnterLoop, TakeWork, TakeWorker, CheckStop, Scan,
     Unflag, Uncount, PopWork, AssignWork, RequestWorker, FlagStop, SignalStop,
     JoinWorkers, client, pool
<1>2. ASSUME NEW w \in Workers, Worker(w) PROVE UNCHANGED <<client, stopWorking>>
  BY <1>2 DEF Worker, SetAvailable, CountAvailable, AwaitRequest, CheckWorkerStop,
     FinishWork, client, pool
<1> QED BY <1>1, <1>2

LEMMA ClosingStep ==
  ASSUME TypeInv, ClosingInv, [Next]_vars
  PROVE  ClosingInv'
<1> USE PoolAssumption DEF TypeInv, TypeOK, ClosingInv, Stopping, StopPCs, WaitPCs,
        CGoto, ClientAt
<1>1. CASE ClientCall
  BY <1>1 DEF ClientCall, PushWork, CallWait, SpuriousWake, Destroy, EnterWait
<1>2. ASSUME NEW c \in Clients, ClientStep(c) PROVE ClosingInv'
  <2>1. CASE SignalWork(c) \/ Block(c) \/ Relock(c)
    BY <2>1 DEF SignalWork, Block, Relock
  <2>2. CASE FastPath(c)
    BY <2>2 DEF FastPath, Return
  <2>3. CASE EvalPredicate(c)
    BY <2>3 DEF EvalPredicate, Return
  <2>4. CASE StopPool \/ SignalStopWork \/ SignalStopWorker \/ JoinDispatcher
    BY <2>4 DEF StopPool, SignalStopWork, SignalStopWorker, JoinDispatcher
  <2> QED BY <1>2, <2>1, <2>2, <2>3, <2>4 DEF ClientStep
<1>3. CASE (Dispatcher \/ \E w \in Workers : Worker(w)) \/ UNCHANGED vars
  <2>1. UNCHANGED client
    BY <1>3, ThreadFrame DEF vars
  <2> QED BY <2>1 DEF client
<1> QED BY <1>1, <1>2, <1>3 DEF Next

LEMMA ScanStep ==
  ASSUME WaitInv, PermitInv, StopInv, ScanInv, [Next]_vars
  PROVE  ScanInv'
<1> USE PoolAssumption DEF ScanInv, DGoto, DispAt
<1>0. TypeOK
  BY DEF WaitInv, TypeInv
<1>1. CASE (ClientCall \/ \E c \in Clients : ClientStep(c)) \/ UNCHANGED vars
  <2>1. UNCHANGED <<worker, disp>>
    BY <1>1, ClientFrame DEF vars
  <2> QED BY <2>1 DEF worker, disp
<1>2. CASE CheckStop
  <2> SUFFICES ASSUME ~stopWorking PROVE \E w \in Workers : available[w]
    BY <1>0, <1>2 DEF CheckStop, worker, Workers
  <2>1. dpc = "checkStop"
    BY <1>2 DEF CheckStop
  <2>2. ~Stopping
    BY <2>1 DEF StopInv
  <2>3. numAvailable > 0
    BY <1>0, <2>1, <2>2 DEF PermitInv, HeldWorker, TypeOK
  <2>4. PICK w \in Workers : w \in Counted /\ w \notin Charged
    <3> SUFFICES ASSUME Counted \subseteq Charged PROVE FALSE
      BY DEF Counted
    <3>1. /\ Cardinality(Counted) \in Nat /\ Cardinality(Charged) \in Nat
          /\ IsFiniteSet(Charged)
      BY FiniteWorkers DEF Counted, Charged
    <3>2. Cardinality(Counted) <= Cardinality(Charged)
      BY <3>1, FS_Subset
    <3>3. numAvailable = Cardinality(Counted) - Cardinality(Charged)
      BY DEF WaitInv, CountInv
    <3> QED BY <2>3, <3>1, <3>2, <3>3
  <2>5. available[w]
    BY <2>1, <2>4 DEF Counted, Charged, Claimed
  <2> QED BY <2>5
<1>3. CASE Scan
  BY <1>0, <1>3 DEF Scan, worker, Workers, TypeOK
<1>4. CASE Dispatcher /\ ~CheckStop /\ ~Scan
  BY <1>4 DEF Dispatcher, SpawnWorker, EnterLoop, TakeWork, TakeWorker, Unflag, Uncount,
     PopWork, AssignWork, RequestWorker, FlagStop, SignalStop, JoinWorkers
<1>5. ASSUME NEW w \in Workers, Worker(w) PROVE ScanInv'
  BY <1>0, <1>5 DEF Worker, SetAvailable, CountAvailable, AwaitRequest, CheckWorkerStop,
     FinishWork, disp, TypeOK
<1> QED BY <1>1, <1>2, <1>3, <1>4, <1>5 DEF Next

LEMMA SignallingFinite ==
  IsFiniteSet(Signalling) /\ Cardinality(Signalling) \in Nat
BY PoolAssumption, FS_Subset, FS_CardinalityType DEF Signalling

LEMMA PermitStep ==
  ASSUME AssertInv, [Next]_vars
  PROVE  PermitInv' /\ StopInv'
<1> DEFINE Goal == PermitInv' /\ StopInv'
<1> USE PoolAssumption DEF Stopping, StopPCs
<1>0. TypeOK /\ ClosingInv /\ PermitInv /\ StopInv
  BY DEF AssertInv, WaitInv, TypeInv
<1>fin. Cardinality(Signalling) \in Nat /\ IsFiniteSet(Signalling)
  BY SignallingFinite
<1>held. HeldWork \in 0..1 /\ HeldWorker \in 0..1
  BY DEF HeldWork, HeldWorker
\* The steps of a client that is not the closing owner.
<1>1. ASSUME NEW c \in Clients, NEW t \in Thunks, PushWork(c, t) PROVE Goal
  <2>1. ~Stopping /\ ~Stopping' /\ stopWorking' = stopWorking /\ dpc' = dpc
    BY <1>0, <1>1 DEF PushWork, ClosingInv, CGoto, ClientAt, TypeOK, disp
  <2>2. Len(queue') = Len(queue) + 1 /\ Len(queue) \in Nat
    BY <1>0, <1>1 DEF PushWork, TypeOK
  <2>3. Signalling' = Signalling \union {c} /\ c \notin Signalling
    BY <1>0, <1>1 DEF PushWork, Signalling, CGoto, ClientAt, TypeOK
  <2>4. Cardinality(Signalling') = Cardinality(Signalling) + 1
    BY <2>3, <1>fin, FS_AddElement
  <2>5. HeldWork' = HeldWork /\ HeldWorker' = HeldWorker
    BY <2>1 DEF HeldWork, HeldWorker
  <2>6. UNCHANGED <<availableWork, availableWorker, numAvailable>>
    BY <1>1 DEF PushWork
  <2>7. Len(queue) = availableWork + HeldWork + Cardinality(Signalling)
    BY <1>0, <2>1 DEF PermitInv
  <2>8. Len(queue') = availableWork' + HeldWork' + Cardinality(Signalling')
    BY <1>0, <1>fin, <1>held, <2>2, <2>4, <2>5, <2>6, <2>7 DEF TypeOK
  <2> QED BY <1>0, <2>1, <2>5, <2>6, <2>8 DEF PermitInv, StopInv
<1>2. ASSUME NEW c \in Clients, SignalWork(c) PROVE Goal
  <2>1. /\ ~Stopping /\ ~Stopping' /\ UNCHANGED <<stopWorking, dpc, queue>>
        /\ UNCHANGED <<availableWorker, numAvailable>> /\ availableWork' = availableWork + 1
    BY <1>0, <1>2 DEF SignalWork, ClosingInv, CGoto, ClientAt, TypeOK, disp
  <2>2. Signalling' = Signalling \ {c} /\ c \in Signalling
    BY <1>0, <1>2 DEF SignalWork, Signalling, CGoto, ClientAt, TypeOK
  <2>3. Cardinality(Signalling') = Cardinality(Signalling) - 1
    BY <2>2, <1>fin, FS_RemoveElement
  <2>4. HeldWork' = HeldWork /\ HeldWorker' = HeldWorker
    BY <2>1 DEF HeldWork, HeldWorker
  <2> QED BY <1>0, <1>fin, <2>1, <2>3, <2>4, <1>held DEF PermitInv, StopInv, TypeOK
<1>3. ASSUME Signalling' = Signalling, Stopping' = Stopping, cpc'[Owner] = cpc[Owner],
             UNCHANGED <<queue, availableWork, availableWorker, numAvailable, stopWorking, dpc>>
      PROVE  Goal
  <2>1. HeldWork' = HeldWork /\ HeldWorker' = HeldWorker
    BY <1>3 DEF HeldWork, HeldWorker
  <2>2. (Stopping => Stopping') /\ (Stopping' => Stopping)
    BY <1>3
  <2> QED BY <1>0, <1>3, <2>1 DEF PermitInv, StopInv
\* A step that moves client c between two places outside the stop sequence.
<1>4. ASSUME NEW c \in Clients, NEW pc \in WaitPCs \union {"ready"},
             cpc[c] \in WaitPCs \union {"ready"}, cpc' = [cpc EXCEPT ![c] = pc],
             UNCHANGED <<queue, availableWork, availableWorker, numAvailable, stopWorking, dpc>>
      PROVE  Goal
  <2>1. Signalling' = Signalling
    BY <1>0, <1>4 DEF Signalling, WaitPCs, TypeOK
  <2>2. Stopping' = Stopping /\ (Stopping => cpc'[Owner] = cpc[Owner])
    BY <1>0, <1>4 DEF WaitPCs, TypeOK
  <2>3. CASE Stopping
    BY <1>0, <1>4, <2>2, <2>3 DEF PermitInv, StopInv
  <2>4. CASE ~Stopping
    <3>1. HeldWork' = HeldWork /\ HeldWorker' = HeldWorker
      BY <1>4 DEF HeldWork, HeldWorker
    <3> QED BY <1>0, <1>4, <2>1, <2>2, <2>4, <3>1 DEF PermitInv, StopInv
  <2> QED BY <2>3, <2>4
\* The destructor's wait() returns to a pool with nothing queued and nobody busy.
<1>5. ASSUME NEW c \in Clients, cpc[c] \in WaitPCs, Quiescent, Return(c),
             UNCHANGED <<queue, availableWork, availableWorker, numAvailable, stopWorking, dpc>>
      PROVE  Goal
  <2>1. CASE ~closing
    BY <1>4, <1>5, <2>1 DEF Return
  <2>2. CASE closing
    <3>1. c = Owner /\ ~Stopping
      BY <1>0, <1>5, <2>2 DEF ClosingInv, WaitPCs
    <3>2. Stopping' /\ cpc'[Owner] = "stop"
      BY <1>0, <1>5, <2>2, <3>1 DEF Return, TypeOK
    <3>3. queue = <<>> /\ Len(queue) = 0
      BY <1>5 DEF Quiescent
    <3>4. availableWork = 0 /\ HeldWork = 0
      BY <1>0, <1>fin, <1>held, <3>1, <3>3 DEF PermitInv, TypeOK
    <3>5. dpc \notin {"assign", "request"}
      <4>1. Charged = {}
        BY <1>5, QuiescentUncharged DEF AssertInv
      <4>2. dpc \in {"assign", "request"} => i \in Charged
        BY DEF AssertInv, WaitInv, TypeInv, IndexOK, ClaimInv, ClaimPCs, Charged, Claimed
      <4> QED BY <4>1, <4>2
    <3>6. dpc \in {"spawn", "takeWork"}
      BY <1>0, <3>1, <3>4, <3>5 DEF PermitInv, HeldWork, TypeOK, DispPCs
    <3> QED BY <1>5, <3>2, <3>3, <3>4, <3>6 DEF PermitInv, StopInv
  <2> QED BY <2>1, <2>2
<1>6. CASE ClientCall
  <2>1. ASSUME NEW c \in Clients, EnterWait(c) PROVE Goal
    BY <1>4, <2>1 DEF EnterWait, CGoto, ClientAt, WaitPCs, disp
  <2>2. ASSUME NEW c \in Clients, SpuriousWake(c) PROVE Goal
    BY <1>3, <2>2 DEF SpuriousWake, Signalling, disp
  <2> QED BY <1>1, <1>6, <2>1, <2>2 DEF ClientCall, CallWait, Destroy
<1>7. ASSUME NEW c \in Clients, ClientStep(c) PROVE Goal
  <2>1. CASE FastPath(c)
    <3>1. cpc[c] = "fast" /\ dpc' = dpc
      BY <2>1 DEF FastPath, ClientAt, disp
    <3>2. CASE Quiescent
      BY <1>5, <2>1, <3>1, <3>2 DEF FastPath, WaitPCs
    <3>3. CASE ~Quiescent
      BY <1>4, <2>1, <3>1, <3>3 DEF FastPath, CGoto, WaitPCs
    <3> QED BY <3>2, <3>3
  <2>2. CASE EvalPredicate(c)
    <3>1. cpc[c] = "eval" /\ dpc' = dpc
      BY <2>2 DEF EvalPredicate, ClientAt, disp
    <3>2. CASE Quiescent
      BY <1>5, <2>2, <3>1, <3>2 DEF EvalPredicate, WaitPCs
    <3>3. CASE ~Quiescent
      BY <1>4, <2>2, <3>1, <3>3 DEF EvalPredicate, CGoto, WaitPCs
    <3> QED BY <3>2, <3>3
  <2>3. CASE Block(c)
    BY <1>4, <2>3 DEF Block, CGoto, ClientAt, WaitPCs, disp
  <2>4. CASE Relock(c)
    BY <1>4, <2>4 DEF Relock, CGoto, ClientAt, WaitPCs, disp
  <2>5. CASE StopPool
    BY <1>0, <2>5 DEF StopPool, CGoto, ClientAt, disp, PermitInv, StopInv, TypeOK
  <2>6. CASE SignalStopWork
    BY <1>0, <2>6 DEF SignalStopWork, CGoto, ClientAt, disp, PermitInv, StopInv, TypeOK
  <2>7. CASE SignalStopWorker
    BY <1>0, <2>7 DEF SignalStopWorker, CGoto, ClientAt, disp, PermitInv, StopInv, TypeOK
  <2>8. CASE JoinDispatcher
    BY <1>0, <2>8 DEF JoinDispatcher, CGoto, ClientAt, disp, pool, PermitInv, StopInv, TypeOK
  <2> QED BY <1>2, <1>7, <2>1, <2>2, <2>3, <2>4, <2>5, <2>6, <2>7, <2>8 DEF ClientStep
<1>8. CASE Dispatcher
  <2>1. cpc' = cpc /\ stopWorking' = stopWorking /\ Signalling' = Signalling
    BY <1>8, ThreadFrame DEF client, Signalling
  <2>2. Stopping' = Stopping
    BY <2>1
  <2> USE <1>0, <2>1, <2>2, <1>fin DEF PermitInv, StopInv, HeldWork, HeldWorker, DGoto, DispAt,
          pool, TypeOK
  <2>3. CASE SpawnWorker
    BY <2>3 DEF SpawnWorker
  <2>4. CASE EnterLoop
    BY <2>4 DEF EnterLoop
  <2>5. CASE TakeWork
    BY <2>5 DEF TakeWork
  <2>6. CASE TakeWorker
    BY <2>6 DEF TakeWorker
  <2>7. CASE CheckStop
    BY <2>7 DEF CheckStop
  <2>8. CASE Scan
    BY <2>8 DEF Scan
  <2>9. CASE Unflag
    BY <2>9 DEF Unflag
  <2>10. CASE Uncount
    BY <2>10 DEF Uncount
  <2>11. CASE PopWork
    BY <2>11 DEF PopWork
  <2>12. CASE AssignWork
    BY <2>12 DEF AssignWork
  <2>13. CASE RequestWorker
    BY <2>13 DEF RequestWorker
  <2>14. CASE FlagStop
    BY <2>14 DEF FlagStop
  <2>15. CASE SignalStop
    BY <2>15 DEF SignalStop
  <2>16. CASE JoinWorkers
    BY <2>16 DEF JoinWorkers
  <2> QED BY <1>8, <2>3, <2>4, <2>5, <2>6, <2>7, <2>8, <2>9,
       <2>10, <2>11, <2>12, <2>13, <2>14, <2>15, <2>16 DEF Dispatcher
<1>9. ASSUME NEW w \in Workers, Worker(w) PROVE Goal
  <2>1. cpc' = cpc /\ stopWorking' = stopWorking /\ Signalling' = Signalling
    BY <1>9, ThreadFrame DEF client, Signalling
  <2>2. Stopping' = Stopping
    BY <2>1
  <2>3. CASE CountAvailable(w)
    <3>1. UNCHANGED <<queue, availableWork, dpc>>
      BY <2>3 DEF CountAvailable, disp
    <3>2. availableWorker' = availableWorker + 1 /\ numAvailable' = numAvailable + 1
      BY <2>3 DEF CountAvailable
    <3>3. HeldWork' = HeldWork /\ HeldWorker' = HeldWorker
      BY <3>1 DEF HeldWork, HeldWorker
    <3> QED BY <1>0, <1>held, <2>1, <2>2, <3>1, <3>2, <3>3 DEF PermitInv, StopInv, TypeOK
  <2>4. CASE SetAvailable(w) \/ AwaitRequest(w) \/ CheckWorkerStop(w) \/ FinishWork(w)
    <3>1. UNCHANGED <<pool, disp>>
      BY <2>4 DEF SetAvailable, AwaitRequest, CheckWorkerStop, FinishWork
    <3> QED BY <3>1, <2>1, <2>2, <1>3 DEF pool, disp
  <2> QED BY <1>9, <2>3, <2>4 DEF Worker
<1>10. CASE UNCHANGED vars
  BY <1>10, <1>3 DEF vars, pool, disp, client, Signalling
<1> QED BY <1>6, <1>7, <1>8, <1>9, <1>10 DEF Next

LEMMA AssertInvariant == Spec => []AssertInv
<1>1. Init => ClosingInv /\ PermitInv /\ StopInv /\ ScanInv
  <2> SUFFICES ASSUME Init PROVE ClosingInv /\ PermitInv /\ StopInv /\ ScanInv
    OBVIOUS
  <2>1. \A c \in Clients : cpc[c] = "ready"
    BY DEF Init
  <2>2. ~Stopping /\ Signalling = {}
    BY <2>1, PoolAssumption DEF Stopping, StopPCs, Signalling
  <2>3. ClosingInv
    BY <2>1, <2>2, PoolAssumption DEF Init, ClosingInv, StopPCs
  <2>4. Len(queue) = 0 /\ HeldWork = 0 /\ HeldWorker = 0
    BY DEF Init, HeldWork, HeldWorker
  <2>5. PermitInv
    BY <2>2, <2>4, FS_EmptySet DEF Init, PermitInv
  <2> QED BY <2>2, <2>3, <2>5 DEF Init, StopInv, ScanInv
<1>2. AssertInv /\ WaitInv' /\ [Next]_vars => AssertInv'
  <2> SUFFICES ASSUME AssertInv, WaitInv', [Next]_vars PROVE AssertInv'
    OBVIOUS
  <2>1. ClosingInv'
    BY ClosingStep DEF AssertInv, WaitInv
  <2>2. PermitInv' /\ StopInv'
    BY PermitStep
  <2>3. ScanInv'
    BY ScanStep DEF AssertInv
  <2> QED BY <2>1, <2>2, <2>3 DEF AssertInv
<1>3. WaitInv /\ ClosingInv /\ PermitInv /\ StopInv /\ ScanInv => AssertInv
  BY DEF AssertInv
<1> QED BY <1>1, <1>2, <1>3, WaitInvariant, PTL DEF Spec

\* No assertion in the dispatcher or in a worker can fail, and popWork() never
\* looks at the front of an empty queue.
THEOREM AssertsCorrect == Spec => []AssertsHold
<1>1. AssertInv => AssertsHold
  <2> SUFFICES ASSUME AssertInv PROVE AssertsHold
    OBVIOUS
  <2> USE PoolAssumption DEF AssertInv, WaitInv, TypeInv, TypeOK
  <2>1. dpc = "scan" => i \in Workers
    BY DEF ScanInv, Workers
  <2>2. dpc \in {"unflag", "pop"} => ~Stopping
    BY DEF StopInv
  <2>3. dpc = "unflag" => available[i] /\ numAvailable > 0
    BY <2>2 DEF ClaimInv, ClaimPCs, PermitInv, HeldWorker
  <2>4. dpc = "pop" => queue # <<>>
    <3> SUFFICES ASSUME dpc = "pop", queue = <<>> PROVE FALSE
      OBVIOUS
    <3>1. Len(queue) = 0
      OBVIOUS
    <3>2. Len(queue) = availableWork + 1 + Cardinality(Signalling)
      BY <2>2 DEF PermitInv, HeldWork
    <3> QED BY <3>1, <3>2, SignallingFinite
  <2>5. \A w \in Workers : wpc[w] = "init" => ~available[w]
    BY DEF FlagInv
  <2> QED BY <2>1, <2>3, <2>4, <2>5 DEF AssertsHold
<1> QED BY <1>1, AssertInvariant, PTL

-----------------------------------------------------------------------------
(* The refinement: a scheduled thunk is in exactly one of four places, in  *)
(* the queue, in the dispatcher's hand, in the slot of one worker, or      *)
(* done.                                                                   *)

\* The queue holds no thunk twice, and no two workers were given the same one.
QueueInjective == \A j, k \in DOMAIN queue : queue[j] = queue[k] => j = k
WorkInjective  == \A v, w \in Loaded : work[v] = work[w] => v = w

Given == {work[w] : w \in Loaded}

\* The four places are disjoint, and nothing is in them that was not scheduled.
PlaceInv ==
    /\ QueueInjective /\ WorkInjective
    /\ InLine \cap InHand = {} /\ InLine \cap Given = {} /\ InHand \cap Given = {}
    /\ done \cap (InLine \union InHand \union Given) = {}
    /\ InLine \union InHand \union Given \union done \subseteq pushed

\* Once the destructor has passed its own wait(), the pool stays as wait() left it.
RestInv == Stopping => Quiescent

\* The inductive invariant behind the refinement: each scheduled thunk is in one
\* place (thread-pool.cc:66-69 and 133-136), and the pool the destructor stops
\* is at rest (lines 87-93).
HandInv == AssertInv /\ PlaceInv /\ RestInv
-----------------------------------------------------------------------------
(* What append and tail do to the elements of a queue without duplicates.  *)

\* What is at the end of a sequence is in it, too; a new element keeps it injective.
LEMMA AppendPlaces ==
  ASSUME NEW S, NEW s \in Seq(S), NEW t \in S
  PROVE  LET r == Append(s, t) IN
         /\ {r[k] : k \in DOMAIN r} = {s[k] : k \in DOMAIN s} \union {t}
         /\ (\A j, k \in DOMAIN s : s[j] = s[k] => j = k) /\ t \notin {s[k] : k \in DOMAIN s}
              => \A j, k \in DOMAIN r : r[j] = r[k] => j = k
<1> DEFINE r == Append(s, t)
<1> DEFINE n == Len(s)
<1>1. /\ n \in Nat /\ DOMAIN s = 1..n /\ DOMAIN r = 1..(n + 1)
      /\ \A k \in 1..n : r[k] = s[k]
      /\ r[n + 1] = t
  OBVIOUS
<1>2. \A k \in 1..(n + 1) : k \in 1..n \/ k = n + 1
  BY <1>1
<1>3. 1..n \subseteq 1..(n + 1) /\ n + 1 \in 1..(n + 1)
  BY <1>1
<1> HIDE DEF r, n
<1>4. {r[k] : k \in DOMAIN r} = {s[k] : k \in DOMAIN s} \union {t}
  BY <1>1, <1>2, <1>3
<1>5. ASSUME \A j, k \in DOMAIN s : s[j] = s[k] => j = k, t \notin {s[k] : k \in DOMAIN s},
             NEW j \in DOMAIN r, NEW k \in DOMAIN r, r[j] = r[k]
      PROVE  j = k
  BY <1>1, <1>2, <1>5
<1> QED BY <1>4, <1>5 DEF r

\* What leaves at the head of an injective sequence is not in the rest.
LEMMA TailPlaces ==
  ASSUME NEW S, NEW s \in Seq(S), s # <<>>
  PROVE  LET r == Tail(s) IN
         /\ {s[k] : k \in DOMAIN s} = {r[k] : k \in DOMAIN r} \union {Head(s)}
         /\ (\A j, k \in DOMAIN s : s[j] = s[k] => j = k)
              => /\ \A j, k \in DOMAIN r : r[j] = r[k] => j = k
                 /\ Head(s) \notin {r[k] : k \in DOMAIN r}
<1> DEFINE r == Tail(s)
<1> DEFINE n == Len(s)
<1>1. /\ n \in Nat /\ n > 0 /\ DOMAIN s = 1..n /\ DOMAIN r = 1..(n - 1)
      /\ \A k \in 1..(n - 1) : r[k] = s[k + 1]
      /\ Head(s) = s[1]
  OBVIOUS
<1>2. \A k \in 1..(n - 1) : k + 1 \in 1..n /\ k + 1 # 1
  BY <1>1
<1>3. \A k \in 1..n : k = 1 \/ \E j \in 1..(n - 1) : k = j + 1
  <2> SUFFICES ASSUME NEW k \in 1..n, k # 1 PROVE \E j \in 1..(n - 1) : k = j + 1
    OBVIOUS
  <2>1. k - 1 \in 1..(n - 1) /\ k = (k - 1) + 1
    BY <1>1
  <2> QED BY <2>1
<1>4. 1 \in 1..n
  BY <1>1
<1>5. \A j, k \in 1..(n - 1) : j + 1 = k + 1 => j = k
  BY <1>1
<1> HIDE DEF r, n
<1>6. {s[k] : k \in DOMAIN s} \subseteq {r[k] : k \in DOMAIN r} \union {Head(s)}
  <2> SUFFICES ASSUME NEW k \in 1..n PROVE s[k] \in {r[j] : j \in 1..(n - 1)} \union {s[1]}
    BY <1>1
  <2>1. CASE k = 1
    BY <2>1
  <2>2. ASSUME NEW j \in 1..(n - 1), k = j + 1 PROVE s[k] = r[j]
    BY <2>2, <1>1
  <2> QED BY <2>1, <2>2, <1>3
<1>7. {r[k] : k \in DOMAIN r} \union {Head(s)} \subseteq {s[k] : k \in DOMAIN s}
  BY <1>1, <1>2, <1>4
<1>8. ASSUME \A j, k \in DOMAIN s : s[j] = s[k] => j = k
      PROVE  /\ \A j, k \in DOMAIN r : r[j] = r[k] => j = k
             /\ Head(s) \notin {r[k] : k \in DOMAIN r}
  <2>1. ASSUME NEW j \in 1..(n - 1), NEW k \in 1..(n - 1), r[j] = r[k] PROVE j = k
    <3>1. s[j + 1] = s[k + 1]
      BY <1>1, <2>1
    <3>2. j + 1 = k + 1
      BY <1>1, <1>2, <1>8, <3>1
    <3> QED BY <1>5, <3>2
  <2>2. ASSUME NEW k \in 1..(n - 1), s[1] = r[k] PROVE FALSE
    <3>1. s[1] = s[k + 1] /\ 1 \in 1..n /\ k + 1 \in 1..n /\ k + 1 # 1
      BY <1>1, <1>2, <1>4, <2>2
    <3> QED BY <1>1, <1>8, <3>1
  <2> QED BY <1>1, <2>1, <2>2
<1> QED BY <1>6, <1>7, <1>8 DEF r
-----------------------------------------------------------------------------
(* How each step moves thunks between the places.                          *)

\* schedule(): one thunk more in line.
LEMMA PushEffect ==
  ASSUME WaitInv, NEW c \in Clients, NEW t \in Thunks, PushWork(c, t)
  PROVE  /\ queue' = Append(queue, t) /\ pushed' = pushed \union {t} /\ t \notin pushed
         /\ InLine' = InLine \union {t}
         /\ QueueInjective /\ t \notin InLine => QueueInjective'
         /\ UNCHANGED <<InHand, Loaded, work, done, stopWorking>>
<1>1. queue \in Seq(Thunks)
  BY DEF WaitInv, TypeInv, TypeOK
<1>2. /\ queue' = Append(queue, t) /\ pushed' = pushed \union {t} /\ t \notin pushed
      /\ UNCHANGED <<worker, disp, done, stopWorking>>
  BY DEF PushWork
<1>3. UNCHANGED <<InHand, Loaded, work>>
  BY <1>2 DEF InHand, Loaded, Claimed, Preparing, worker, disp
<1> QED BY <1>1, <1>2, <1>3, AppendPlaces DEF InLine, QueueInjective

\* The dispatcher takes the head of the line into its hand.
LEMMA PopEffect ==
  ASSUME WaitInv, PopWork
  PROVE  /\ queue # <<>> /\ queue' = Tail(queue) /\ InHand = {} /\ InHand' = {Head(queue)}
         /\ InLine = InLine' \union {Head(queue)}
         /\ QueueInjective => QueueInjective' /\ Head(queue) \notin InLine'
         /\ i \in Workers /\ i \notin Loaded
         /\ UNCHANGED <<Loaded, work, done, pushed, stopWorking, client, owed>>
<1>1. queue \in Seq(Thunks) /\ i \in Workers
  BY DEF WaitInv, TypeInv, TypeOK, IndexOK, PopWork, DGoto, DispAt
<1>2. /\ queue # <<>> /\ queue' = Tail(queue) /\ InHand = {} /\ InHand' = {Head(queue)}
      /\ UNCHANGED <<work, done, pushed, stopWorking, client, owed>>
  BY DEF PopWork, DGoto, DispAt, InHand, worker, history
<1>3. Loaded' = Loaded /\ i \notin Loaded
  BY DEF PopWork, Loaded, Claimed, Preparing, worker, DGoto, DispAt
<1>4. InLine = InLine' \union {Head(queue)}
  BY <1>1, <1>2, TailPlaces DEF InLine
<1>5. QueueInjective => QueueInjective' /\ Head(queue) \notin InLine'
  BY <1>1, <1>2, TailPlaces DEF InLine, QueueInjective
<1> QED BY <1>1, <1>2, <1>3, <1>4, <1>5

\* The dispatcher gives what is in its hand to a worker that has nothing.
LEMMA AssignEffect ==
  ASSUME WaitInv, AssignWork
  PROVE  /\ i \in Workers /\ i \notin Loaded /\ Loaded' = Loaded \union {i}
         /\ InHand = {front} /\ InHand' = {} /\ work' = [work EXCEPT ![i] = front]
         /\ Given' = Given \union {front}
         /\ UNCHANGED <<queue, done, pushed, stopWorking, client, owed>>
<1> USE DEF WaitInv, TypeInv, TypeOK, IndexOK, ClaimInv, ClaimPCs
<1>1. i \in Workers /\ work \in [Workers -> Thunks \union {NoThunk}]
  BY DEF AssignWork, DGoto, DispAt
<1>2. i \notin Loaded /\ Loaded' = Loaded \union {i}
  BY DEF AssignWork, Loaded, Claimed, Preparing, DGoto, DispAt
<1>3. work' = [work EXCEPT ![i] = front] /\ InHand = {front} /\ InHand' = {}
  BY DEF AssignWork, InHand, DGoto, DispAt
<1>4. Given' = Given \union {front}
  BY <1>1, <1>2, <1>3 DEF Given, Loaded
<1>5. UNCHANGED <<queue, done, pushed, stopWorking, client, owed>>
  BY DEF AssignWork, pool, history
<1> QED BY <1>1, <1>2, <1>3, <1>4, <1>5

\* A worker that is running owns what it runs.
LEMMA RunningLoaded ==
  ASSUME WaitInv, NEW w \in Workers, wpc[w] = "run"
  PROVE  w \in Loaded
BY DEF WaitInv, TypeInv, TypeOK, FlagInv, ClaimInv, ClaimPCs, Loaded, Claimed, Preparing

\* A worker that has executed its thunk has nothing.
LEMMA FinishEffect ==
  ASSUME WaitInv, NEW w \in Workers, FinishWork(w), intact[w]
  PROVE  /\ w \in Loaded /\ Loaded' = Loaded \ {w} /\ done' = done \union {work[w]}
         /\ UNCHANGED <<queue, InHand, work, pushed, stopWorking, client, owed>>
<1>1. w \in Loaded
  BY RunningLoaded DEF FinishWork, WorkerAt
<1>2. Loaded' = Loaded \ {w}
  BY <1>1 DEF FinishWork, WGoto, WorkerAt, Loaded, Claimed, Preparing, disp, WaitInv, TypeInv,
              TypeOK
<1> QED BY <1>1, <1>2 DEF FinishWork, WGoto, WorkerAt, InHand, pool, disp

\* Every other step leaves all thunks where they are.
LEMMA PlaceFrame ==
  ASSUME WaitInv, [Next]_vars,
         \A c \in Clients, t \in Thunks : ~PushWork(c, t),
         ~PopWork, ~AssignWork, \A w \in Workers : intact[w] => ~FinishWork(w)
  PROVE  UNCHANGED <<queue, InHand, Loaded, work, done, pushed>>
<1> USE PoolAssumption DEF WaitInv, TypeInv, TypeOK, IndexOK, SpawnInv, FlagInv, ClaimInv,
        MainPCs, ClaimPCs, InHand, Loaded, Claimed, Preparing
<1>1. CASE (ClientCall \/ \E c \in Clients : ClientStep(c)) \/ UNCHANGED vars
  <2>1. UNCHANGED <<worker, disp, done>>
    BY <1>1, ClientFrame DEF vars, history
  <2>2. UNCHANGED <<queue, pushed>>
    BY <1>1, ClientQueueFrame DEF ClientCall, vars, pool, history
  <2> QED BY <2>1, <2>2 DEF worker, disp
<1>2. CASE Dispatcher
  <2> USE DEF pool, worker, history, DGoto, DispAt
  <2>1. CASE SpawnWorker
    BY <2>1 DEF SpawnWorker
  <2>2. CASE EnterLoop \/ TakeWork \/ TakeWorker \/ CheckStop \/ Scan
    BY <2>2 DEF EnterLoop, TakeWork, TakeWorker, CheckStop, Scan
  <2>3. CASE Unflag
    BY <2>3 DEF Unflag
  <2>4. CASE Uncount \/ RequestWorker
    BY <2>4 DEF Uncount, RequestWorker
  <2>5. CASE FlagStop \/ SignalStop \/ JoinWorkers
    BY <2>5 DEF FlagStop, SignalStop, JoinWorkers
  <2> QED BY <1>2, <2>1, <2>2, <2>3, <2>4, <2>5 DEF Dispatcher
<1>3. ASSUME NEW w \in Workers, Worker(w)
      PROVE  UNCHANGED <<queue, InHand, Loaded, work, done, pushed>>
  <2> USE DEF pool, disp, history, WGoto, WorkerAt
  <2>1. CASE SetAvailable(w)
    BY <2>1 DEF SetAvailable
  <2>2. CASE CountAvailable(w)
    BY <2>2 DEF CountAvailable
  <2>3. CASE AwaitRequest(w)
    BY <2>3 DEF AwaitRequest
  <2>4. CASE CheckWorkerStop(w)
    BY <2>4 DEF CheckWorkerStop
  <2>5. CASE FinishWork(w) /\ ~intact[w]
    BY <2>5 DEF FinishWork
  <2> QED BY <1>3, <2>1, <2>2, <2>3, <2>4, <2>5 DEF Worker
<1> QED BY <1>1, <1>2, <1>3 DEF Next
-----------------------------------------------------------------------------
\* No step duplicates a thunk or loses one.
LEMMA PlaceStep ==
  ASSUME WaitInv, PlaceInv, [Next]_vars
  PROVE  PlaceInv'
<1> USE DEF PlaceInv
<1>1. ASSUME NEW c \in Clients, NEW t \in Thunks, PushWork(c, t) PROVE PlaceInv'
  <2>1. t \notin InLine \union InHand \union Given \union done
    BY <1>1, PushEffect
  <2>2. Given' = Given /\ (WorkInjective => WorkInjective')
    BY <1>1, PushEffect DEF Given, WorkInjective
  <2> QED BY <1>1, <2>1, <2>2, PushEffect
<1>2. CASE PopWork
  <2>1. Given' = Given /\ (WorkInjective => WorkInjective')
    BY <1>2, PopEffect DEF Given, WorkInjective
  <2> QED BY <1>2, <2>1, PopEffect
<1>3. CASE AssignWork
  <2>1. WorkInjective'
    <3> SUFFICES ASSUME NEW v \in Loaded', NEW w \in Loaded', work'[v] = work'[w] PROVE v = w
      BY DEF WorkInjective
    <3>1. /\ Loaded' = Loaded \union {i} /\ i \in Workers /\ front \notin Given
          /\ work' = [work EXCEPT ![i] = front]
      BY <1>3, AssignEffect
    <3>2. \A u \in Loaded : work[u] \in Given /\ u \in Workers
      BY DEF Given, Loaded
    <3>3. work \in [Workers -> Thunks \union {NoThunk}]
      BY DEF WaitInv, TypeInv, TypeOK
    <3> QED BY <3>1, <3>2, <3>3 DEF WorkInjective
  <2>2. QueueInjective' /\ InLine' = InLine
    BY <1>3, AssignEffect DEF QueueInjective, InLine
  <2> QED BY <1>3, <2>1, <2>2, AssignEffect
<1>4. ASSUME NEW w \in Workers, FinishWork(w), intact[w] PROVE PlaceInv'
  <2>1. WorkInjective'
    BY <1>4, FinishEffect DEF WorkInjective
  <2>2. Given' = Given \ {work[w]} /\ work[w] \in Given
    BY <1>4, FinishEffect DEF Given, WorkInjective
  <2>3. QueueInjective' /\ InLine' = InLine
    BY <1>4, FinishEffect DEF QueueInjective, InLine
  <2> QED BY <1>4, <2>1, <2>2, <2>3, FinishEffect
<1>5. CASE UNCHANGED <<queue, InHand, Loaded, work, done, pushed>>
  BY <1>5 DEF QueueInjective, WorkInjective, InLine, Given
<1> QED BY <1>1, <1>2, <1>3, <1>4, <1>5, PlaceFrame
\* Nothing wakes up in a pool at rest: every worker has counted itself in and none
\* is charged, so no thread can touch the counter or the queue.
LEMMA RestStep ==
  ASSUME AssertInv, RestInv, [Next]_vars
  PROVE  RestInv'
<1> USE PoolAssumption DEF RestInv
<1>0. TypeOK /\ WaitInv /\ ClosingInv /\ StopInv
  BY DEF AssertInv, WaitInv, TypeInv
<1>1. CASE (ClientCall \/ \E c \in Clients : ClientStep(c)) \/ UNCHANGED vars
  <2>1. numAvailable' = numAvailable
    BY <1>1, ClientFrame DEF vars, pool
  <2>2. CASE Stopping
    <3>1. closing /\ queue = <<>> /\ Quiescent
      BY <1>0, <2>2 DEF ClosingInv, StopInv
    <3>2. queue' = queue
      <4>1. \A c \in Clients, t \in Thunks : ~PushWork(c, t)
        BY <3>1 DEF PushWork
      <4> QED BY <1>1, <4>1, ClientQueueFrame DEF ClientCall, vars, pool
    <3> QED BY <2>1, <3>1, <3>2 DEF Quiescent
  <2>3. CASE ~Stopping /\ Stopping'
    <3> USE <1>0, <2>3 DEF Stopping, StopPCs, CGoto, ClientAt, TypeOK, WaitPCs
    <3>1. ~ClientCall
      BY DEF ClientCall, PushWork, CallWait, SpuriousWake, Destroy, EnterWait
    <3>2. PICK c \in Clients : ClientStep(c)
      BY <1>1, <3>1 DEF vars, client
    <3>3. FastPath(c) \/ EvalPredicate(c)
      BY <3>2 DEF ClientStep, SignalWork, Block, Relock, StopPool, SignalStopWork,
                  SignalStopWorker, JoinDispatcher
    <3>4. Quiescent
      BY <3>3 DEF FastPath, EvalPredicate
    <3>5. queue' = queue
      BY <3>3 DEF FastPath, EvalPredicate
    <3> QED BY <2>1, <3>4, <3>5 DEF Quiescent
  <2> QED BY <2>2, <2>3
<1>2. ASSUME Stopping, Quiescent, UNCHANGED <<queue, numAvailable>> PROVE RestInv'
  BY <1>2 DEF Quiescent
<1>3. ASSUME Dispatcher \/ \E w \in Workers : Worker(w), Stopping
      PROVE  UNCHANGED <<queue, numAvailable>>
  <2>1. Quiescent /\ Charged = {} /\ dpc \notin {"uncount", "pop"}
    BY <1>0, <1>3, QuiescentUncharged DEF StopInv
  <2>2. CASE Dispatcher
    BY <2>1, <2>2 DEF Dispatcher, SpawnWorker, EnterLoop, TakeWork, TakeWorker, CheckStop,
       Scan, Unflag, Uncount, PopWork, AssignWork, RequestWorker, FlagStop, SignalStop,
       JoinWorkers, pool, DGoto, DispAt
  <2>3. ASSUME NEW w \in Workers, Worker(w) PROVE UNCHANGED <<queue, numAvailable>>
    <3>1. ~CountAvailable(w)
      <4> SUFFICES ASSUME wpc[w] = "flagged" PROVE FALSE
        BY DEF CountAvailable, WGoto, WorkerAt
      <4>1. w \notin Counted /\ Counted \subseteq Workers \ {w}
        BY DEF Counted
      <4>2. IsFiniteSet(Workers) /\ Cardinality(Workers) = NumWorkers
        BY FS_Interval DEF Workers
      <4>3. Cardinality(Counted) <= NumWorkers - 1
        BY <4>1, <4>2, FS_RemoveElement, FS_Subset, FS_CardinalityType
      <4>4. Cardinality(Counted) \in Nat /\ Cardinality(Charged) = 0
        BY <2>1, FiniteWorkers, FS_EmptySet DEF Counted
      <4>5. NumWorkers = Cardinality(Counted) - Cardinality(Charged)
        BY <1>0, <2>1 DEF WaitInv, CountInv, Quiescent
      <4> QED BY <4>3, <4>4, <4>5
    <3> QED BY <2>3, <3>1 DEF Worker, SetAvailable, AwaitRequest, CheckWorkerStop,
               FinishWork, pool
  <2> QED BY <1>3, <2>2, <2>3
<1>4. CASE (Dispatcher \/ \E w \in Workers : Worker(w))
  <2>1. Stopping' = Stopping
    BY <1>4, ThreadFrame DEF client, Stopping
  <2> QED BY <1>2, <1>3, <1>4, <2>1
<1> QED BY <1>1, <1>4 DEF Next

\* The inductive invariant of the refinement.
LEMMA HandInvariant == Spec => []HandInv
<1>1. Init => PlaceInv /\ RestInv
  <2> SUFFICES ASSUME Init PROVE PlaceInv /\ RestInv
    OBVIOUS
  <2>1. InLine = {} /\ InHand = {} /\ Loaded = {} /\ queue = <<>>
    BY DEF Init, InLine, InHand, Loaded, Claimed
  <2>2. PlaceInv
    BY <2>1 DEF Init, PlaceInv, QueueInjective, WorkInjective, Given
  <2>3. RestInv
    BY PoolAssumption DEF Init, RestInv, Stopping, StopPCs
  <2> QED BY <2>2, <2>3
<1>2. AssertInv /\ PlaceInv /\ RestInv /\ [Next]_vars => PlaceInv' /\ RestInv'
  BY PlaceStep, RestStep DEF AssertInv
<1>3. HandInv <=> AssertInv /\ PlaceInv /\ RestInv
  BY DEF HandInv
<1> QED BY <1>1, <1>2, <1>3, AssertInvariant, PTL DEF Spec

\* Each scheduled thunk is run by one worker and once: neither the unprotected flags
\* nor the hand-over of the slot between dispatcher and worker lets a thunk be taken
\* twice or a slot be read before it is filled (lines 66-69 and 133-136).
THEOREM RunsOnceCorrect == Spec => []RunsEachOnce
<1>1. HandInv => RunsEachOnce
  <2> SUFFICES ASSUME HandInv, NEW w \in Workers, wpc[w] = "run"
               PROVE  /\ work[w] \in pushed \ done
                      /\ \A v \in Workers \ {w} : wpc[v] = "run" => work[v] # work[w]
    BY DEF RunsEachOnce
  <2>1. \A v \in Workers : wpc[v] = "run" => v \in Loaded
    BY RunningLoaded DEF HandInv, AssertInv
  <2>2. work[w] \in Given
    BY <2>1 DEF Given
  <2> QED BY <2>1, <2>2 DEF HandInv, PlaceInv, WorkInjective
<1> QED BY <1>1, HandInvariant, PTL

\* When the destructor raises stopWorking everything scheduled is done, and from
\* then on the pool is at rest: the break at line 63 drops no thunk.
THEOREM StopCorrect == Spec => []StopLosesNothing
<1>1. HandInv => StopLosesNothing
  <2> SUFFICES ASSUME HandInv, stopWorking PROVE pushed = done /\ Quiescent
    BY DEF StopLosesNothing
  <2>1. Stopping
    BY DEF HandInv, AssertInv, PermitInv
  <2>2. Quiescent
    BY <2>1 DEF HandInv, RestInv
  <2>3. pushed \subseteq done
    BY <2>2, QuiescentMeansDone DEF HandInv, AssertInv
  <2> QED BY <2>2, <2>3 DEF HandInv, PlaceInv
<1> QED BY <1>1, HandInvariant, PTL
-----------------------------------------------------------------------------
(* The refinement, step by step: which step of the abstract pool each step *)
(* of the threads is.                                                      *)

\* What the abstract pool knows of is what has been pushed.
LEMMA ScheduledPushed ==
  ASSUME HandInv
  PROVE  Abstract!Scheduled = pushed
BY DEF HandInv, AssertInv, WaitInv, CoverInv, PlaceInv, Abstract!Scheduled, InLine, Busy, Given

\* The pop of the queue is the abstract Take: no more thunks are busy than workers.
LEMMA PopTakes ==
  ASSUME HandInv, PopWork
  PROVE  Abstract!Take
<1> USE PoolAssumption DEF HandInv, AssertInv
<1>1. Busy = Given /\ Busy' = Given \union {Head(queue)}
  BY PopEffect DEF Busy, Given
<1>2. Cardinality(Given) < NumWorkers
  <2>1. Loaded \subseteq Workers \ {i} /\ i \in Workers
    BY PopEffect DEF Loaded
  <2>2. IsFiniteSet(Workers) /\ Cardinality(Workers) = NumWorkers
    BY FS_Interval DEF Workers
  <2>3. IsFiniteSet(Loaded) /\ Cardinality(Loaded) <= NumWorkers - 1
    BY <2>1, <2>2, FS_RemoveElement, FS_Subset, FS_CardinalityType
  <2>4. [w \in Loaded |-> work[w]] \in Surjection(Loaded, Given)
    BY DEF Surjection, Given
  <2>5. IsFiniteSet(Given) /\ Cardinality(Given) <= Cardinality(Loaded)
    BY <2>3, <2>4, FS_Surjection
  <2>6. Cardinality(Given) \in Nat /\ Cardinality(Loaded) \in Nat
    BY <2>3, <2>5, FS_CardinalityType
  <2> QED BY <2>3, <2>5, <2>6
<1>3. {c \in Clients : InWait(c)}' = {c \in Clients : InWait(c)}
  BY PopEffect DEF InWait, client
<1>4. Abstract!Cardinality(Busy) = Cardinality(Busy)
  BY DEF Abstract!Cardinality, Cardinality
<1> QED BY <1>1, <1>2, <1>3, <1>4, PopEffect DEF Abstract!Take

\* The end of an execution is the abstract Finish.
LEMMA FinishFinishes ==
  ASSUME HandInv, NEW w \in Workers, FinishWork(w), intact[w]
  PROVE  work[w] \in Thunks /\ Abstract!Finish(work[w])
<1> USE DEF HandInv, AssertInv
<1>1. work[w] \in Given /\ Given' = Given \ {work[w]}
  BY FinishEffect DEF PlaceInv, WorkInjective, Given
<1>2. work[w] \notin InHand /\ work[w] \in pushed
  BY <1>1 DEF PlaceInv
<1>3. Busy' = Busy \ {work[w]} /\ work[w] \in Busy
  BY <1>1, <1>2, FinishEffect DEF Busy, Given
<1>4. {c \in Clients : InWait(c)}' = {c \in Clients : InWait(c)}
  BY FinishEffect DEF InWait, client
<1>5. work[w] \in Thunks
  BY <1>2 DEF WaitInv, TypeInv, TypeOK
<1> QED BY <1>3, <1>4, <1>5, FinishEffect DEF Abstract!Finish

\* pushWork() is the abstract Schedule.
LEMMA PushSchedules ==
  ASSUME HandInv, NEW c \in Clients, NEW t \in Thunks, PushWork(c, t)
  PROVE  Abstract!Schedule(t)
<1> USE DEF HandInv, AssertInv
<1>1. ~stopWorking
  BY DEF PushWork, ClosingInv, PermitInv
<1>2. t \notin Abstract!Scheduled
  BY ScheduledPushed, PushEffect
<1>3. Busy' = Busy
  BY PushEffect DEF Busy
<1>4. {b \in Clients : InWait(b)}' = {b \in Clients : InWait(b)}
  BY DEF PushWork, CGoto, ClientAt, InWait, WaitPCs, WaitInv, TypeInv, TypeOK
<1>5. UNCHANGED <<done, owed, stopWorking>>
  BY DEF PushWork
<1> QED BY <1>1, <1>2, <1>3, <1>4, <1>5, PushEffect DEF Abstract!Schedule

\* No step of a client but schedule() moves a thunk.
LEMMA ClientPlaces ==
  ASSUME HandInv, NEW c \in Clients,
         \/ CallWait(c) \/ SpuriousWake(c) \/ Destroy \/ ClientStep(c)
  PROVE  UNCHANGED <<queue, Busy, done>>
<1>1. UNCHANGED <<worker, disp, done>> /\ queue' = queue
  BY ClientFrame, ClientQueueFrame DEF ClientCall
<1> QED BY <1>1 DEF Busy, InHand, Loaded, Claimed, Preparing, worker, disp

\* A call of wait(), or of the destructor, is the abstract BeginWait.
LEMMA EnterBegins ==
  ASSUME HandInv, NEW c \in Clients, CallWait(c) \/ (c = Owner /\ Destroy)
  PROVE  Abstract!BeginWait(c)
<1> USE PoolAssumption DEF HandInv, AssertInv, WaitInv, TypeInv, TypeOK
<1>1. EnterWait(c) /\ ~closing
  BY DEF CallWait, Destroy
<1>2. ~stopWorking /\ stopWorking' = stopWorking
  BY <1>1 DEF EnterWait, ClosingInv, PermitInv
<1>3. owed' = [owed EXCEPT ![c] = Abstract!Scheduled]
  BY <1>1, ScheduledPushed DEF EnterWait
<1>4. {b \in Clients : InWait(b)}' = {b \in Clients : InWait(b)} \union {c} /\ ~InWait(c)
  BY <1>1 DEF EnterWait, CGoto, ClientAt, InWait, WaitPCs
<1> QED BY <1>2, <1>3, <1>4, ClientPlaces DEF Abstract!BeginWait

\* wait() returns only when what its client is owed is done: the abstract EndWait.
LEMMA ReturnEnds ==
  ASSUME HandInv, NEW c \in Clients, FastPath(c) \/ EvalPredicate(c), Quiescent
  PROVE  Abstract!EndWait(c)
<1> USE DEF HandInv, AssertInv
<1>1. owed[c] \subseteq done
  BY QuiescentMeansDone DEF WaitInv, OwedInv
<1>2. Return(c) /\ InWait(c) /\ UNCHANGED <<owed, stopWorking>>
  BY DEF FastPath, EvalPredicate, ClientAt, InWait, WaitPCs, history
<1>3. {b \in Clients : InWait(b)}' = {b \in Clients : InWait(b)} \ {c}
  BY <1>2 DEF Return, InWait, WaitPCs, WaitInv, TypeInv, TypeOK
<1>4. UNCHANGED <<queue, Busy, done>>
  BY ClientPlaces DEF ClientStep
<1> QED BY <1>1, <1>2, <1>3, <1>4 DEF Abstract!EndWait

\* The flag stopWorking is set once, when nothing is left: the abstract Stop.
LEMMA StopStops ==
  ASSUME HandInv, StopPool, ~stopWorking
  PROVE  Abstract!Stop
<1> USE PoolAssumption DEF HandInv, AssertInv, WaitInv, TypeInv, TypeOK
<1>1. Stopping /\ cpc[Owner] = "stop" /\ closing
  BY DEF StopPool, CGoto, ClientAt, Stopping, StopPCs, ClosingInv
<1>2. Quiescent
  BY <1>1 DEF RestInv
<1>3. Charged = {}
  BY <1>2, QuiescentUncharged
<1>4. Loaded = {}
  BY <1>3 DEF Loaded, Charged, Preparing
<1>5. queue = <<>> /\ InHand = {}
  BY <1>1, <1>2 DEF StopInv, Quiescent, InHand
<1>6. Busy = {} /\ queue = <<>>
  BY <1>4, <1>5 DEF Busy
<1>7. {c \in Clients : InWait(c)} = {}
  BY <1>1 DEF ClosingInv, InWait, WaitPCs
<1>8. {c \in Clients : InWait(c)}' = {} /\ UNCHANGED owed /\ stopWorking' = TRUE
  BY <1>1, <1>7 DEF StopPool, CGoto, ClientAt, InWait, WaitPCs, history
<1>9. UNCHANGED <<queue, Busy, done>>
  BY ClientPlaces DEF ClientStep
<1> QED BY <1>6, <1>7, <1>8, <1>9 DEF Abstract!Stop

\* Every other step of a client is invisible to the abstract pool.
LEMMA ClientStutters ==
  ASSUME HandInv, NEW c \in Clients,
         \/ SpuriousWake(c) \/ SignalWork(c) \/ Block(c) \/ Relock(c)
         \/ (FastPath(c) \/ EvalPredicate(c)) /\ ~Quiescent
         \/ c = Owner /\ ((StopPool /\ stopWorking) \/ SignalStopWork \/ SignalStopWorker
                            \/ JoinDispatcher)
  PROVE  UNCHANGED Abstract!vars
<1> USE PoolAssumption DEF HandInv, AssertInv, WaitInv, TypeInv, TypeOK, CGoto, ClientAt
<1>1. UNCHANGED <<queue, Busy, done>>
  BY ClientPlaces DEF ClientStep
<1>2. UNCHANGED <<owed, stopWorking>>
  BY DEF SpuriousWake, SignalWork, Block, Relock, FastPath, EvalPredicate, StopPool,
         SignalStopWork, SignalStopWorker, JoinDispatcher, history, pool
<1>3. \A b \in Clients : InWait(b)' <=> InWait(b)
  <2> USE DEF InWait, WaitPCs
  <2>1. CASE SpuriousWake(c) \/ SignalWork(c) \/ Block(c) \/ Relock(c)
    BY <2>1 DEF SpuriousWake, SignalWork, Block, Relock
  <2>2. CASE (FastPath(c) \/ EvalPredicate(c)) /\ ~Quiescent
    BY <2>2 DEF FastPath, EvalPredicate
  <2>3. CASE StopPool \/ SignalStopWork \/ SignalStopWorker \/ JoinDispatcher
    BY <2>3 DEF StopPool, SignalStopWork, SignalStopWorker, JoinDispatcher
  <2> QED BY <2>1, <2>2, <2>3
<1> QED BY <1>1, <1>2, <1>3 DEF Abstract!vars

\* The dispatcher never takes a step that leaves it where it is, and no other thread
\* moves it: a step is one thread's.
LEMMA DispatcherMoves ==
  ASSUME TypeInv
  PROVE  (Dispatcher => disp' # disp) /\ \A w \in Workers : Worker(w) => disp' = disp
<1>1. i \in Nat
  BY PoolAssumption DEF TypeInv, TypeOK
<1>2. ASSUME Dispatcher PROVE disp' # disp
  <2> USE DEF DGoto, DispAt, disp
  <2>1. CASE SpawnWorker
    BY <1>1, <2>1 DEF SpawnWorker
  <2>2. CASE Scan
    BY <1>1, <2>2 DEF Scan
  <2>3. CASE CheckStop
    BY <2>3 DEF CheckStop
  <2>4. CASE SignalStop \/ FlagStop \/ JoinWorkers
    BY <2>4 DEF SignalStop, FlagStop, JoinWorkers
  <2>5. CASE EnterLoop \/ TakeWork \/ TakeWorker \/ Unflag \/ Uncount
    BY <2>5 DEF EnterLoop, TakeWork, TakeWorker, Unflag, Uncount
  <2>6. CASE PopWork \/ AssignWork \/ RequestWorker
    BY <2>6 DEF PopWork, AssignWork, RequestWorker
  <2> QED BY <1>2, <2>1, <2>2, <2>3, <2>4, <2>5, <2>6 DEF Dispatcher
<1>3. \A w \in Workers : Worker(w) => disp' = disp
  BY DEF Worker, SetAvailable, CountAvailable, AwaitRequest, CheckWorkerStop, FinishWork
<1> QED BY <1>2, <1>3

\* Every step of the pool is a step of the abstract one, or none.
LEMMA RefinementStep ==
  ASSUME HandInv, [Next]_vars
  PROVE  [Abstract!Next]_(Abstract!vars)
<1>1. CASE ClientCall
  <2>1. CASE Destroy
    BY <2>1, EnterBegins, PoolAssumption DEF Abstract!Next
  <2>2. ASSUME NEW c \in Clients, NEW t \in Thunks, PushWork(c, t) PROVE Abstract!Next
    BY <2>2, PushSchedules DEF Abstract!Next
  <2>3. ASSUME NEW c \in Clients, CallWait(c) PROVE Abstract!Next
    BY <2>3, EnterBegins DEF Abstract!Next
  <2>4. ASSUME NEW c \in Clients, SpuriousWake(c) PROVE UNCHANGED Abstract!vars
    BY <2>4, ClientStutters
  <2> QED BY <1>1, <2>1, <2>2, <2>3, <2>4 DEF ClientCall
<1>2. ASSUME NEW c \in Clients, ClientStep(c) PROVE [Abstract!Next]_(Abstract!vars)
  <2>1. CASE (FastPath(c) \/ EvalPredicate(c)) /\ Quiescent
    BY <2>1, ReturnEnds DEF Abstract!Next
  <2>2. CASE StopPool /\ ~stopWorking
    BY <2>2, StopStops DEF Abstract!Next
  <2> QED BY <1>2, <2>1, <2>2, ClientStutters DEF ClientStep
<1>3. CASE PopWork
  BY <1>3, PopTakes DEF Abstract!Next
<1>4. ASSUME NEW w \in Workers, FinishWork(w), intact[w] PROVE Abstract!Next
  BY <1>4, FinishFinishes DEF Abstract!Next
<1>5. CASE (Dispatcher /\ ~PopWork) \/ UNCHANGED vars
           \/ \E w \in Workers : Worker(w) /\ ~(FinishWork(w) /\ intact[w])
  <2>1. UNCHANGED <<client, stopWorking, owed>>
    BY <1>5, ThreadFrame DEF vars, pool, history, Dispatcher, SpawnWorker, EnterLoop, TakeWork,
       TakeWorker, CheckStop, Scan, Unflag, Uncount, AssignWork, RequestWorker, FlagStop,
       SignalStop, JoinWorkers, Worker, SetAvailable, CountAvailable, AwaitRequest,
       CheckWorkerStop, FinishWork
  <2>2. UNCHANGED <<queue, Busy, done>>
    <3>1. CASE AssignWork
      <4>1. Busy' = Busy
        BY <3>1, AssignEffect DEF Busy, Given, HandInv, AssertInv
      <4> QED BY <3>1, <4>1, AssignEffect DEF HandInv, AssertInv
    <3>2. CASE ~AssignWork
      <4>1. \A c \in Clients, t \in Thunks : ~PushWork(c, t)
        BY <2>1 DEF PushWork, CGoto, ClientAt, client, HandInv, AssertInv, WaitInv, TypeInv, TypeOK
      <4>2. CASE Dispatcher /\ ~PopWork
        <5>1. \A w \in Workers : ~FinishWork(w)
          BY <4>2, DispatcherMoves DEF Worker, HandInv, AssertInv, WaitInv
        <5> QED BY <3>2, <4>1, <4>2, <5>1, PlaceFrame DEF Busy, HandInv, AssertInv
      <4>3. ASSUME NEW w \in Workers, Worker(w), ~(FinishWork(w) /\ intact[w])
            PROVE  UNCHANGED <<queue, Busy, done>>
        <5>1. ~PopWork /\ ~AssignWork
          BY <4>3, DispatcherMoves DEF Dispatcher, HandInv, AssertInv, WaitInv
        <5>2. \A v \in Workers : v # w => ~FinishWork(v)
          <6>1. wpc'[w] # wpc[w]
            BY <4>3 DEF Worker, SetAvailable, CountAvailable, AwaitRequest, CheckWorkerStop,
               FinishWork, WGoto, WorkerAt, HandInv, AssertInv, WaitInv, TypeInv, TypeOK
          <6>2. \A v \in Workers : FinishWork(v) /\ v # w => wpc'[w] = wpc[w]
            BY DEF FinishWork, WGoto, WorkerAt, HandInv, AssertInv, WaitInv, TypeInv, TypeOK
          <6> QED BY <6>1, <6>2
        <5> QED BY <4>1, <4>3, <5>1, <5>2, PlaceFrame DEF Busy, HandInv, AssertInv, Next
      <4>4. CASE UNCHANGED vars
        BY <4>4 DEF vars, pool, worker, disp, history, Busy, InHand, Loaded, Claimed, Preparing
      <4> QED BY <1>5, <4>2, <4>3, <4>4
    <3> QED BY <3>1, <3>2
  <2> QED BY <2>1, <2>2 DEF Abstract!vars, InWait, client
<1> QED BY <1>1, <1>2, <1>3, <1>4, <1>5 DEF Next

\* The threads of the pool, their flags, counters and semaphores together do what the
\* header promises of schedule(), wait() and the destructor, and nothing else: thunks
\* are taken first come first served and at most workers.size() at once, each is done
\* once, a wait ends when everything scheduled before it is done, and a pool is stopped
\* only when it has nothing left (thread-pool.h:25-62).
THEOREM RefinesWorkPool == Spec => Abstract!Spec
<1>1. Init => Abstract!Init
  <2> SUFFICES ASSUME Init PROVE Abstract!Init
    OBVIOUS
  <2>1. InHand = {} /\ Loaded = {}
    BY DEF Init, InHand, Loaded, Claimed
  <2>2. {c \in Clients : InWait(c)} = {}
    BY DEF Init, InWait, WaitPCs
  <2> QED BY <2>1, <2>2 DEF Init, Abstract!Init, Busy
<1>2. HandInv /\ [Next]_vars => [Abstract!Next]_(Abstract!vars)
  BY RefinementStep
<1> QED BY <1>1, <1>2, HandInvariant, PTL DEF Spec, Abstract!Spec
-----------------------------------------------------------------------------
(* No deadlock: whom each waiting thread waits for.                        *)

\* The mutex is held by a client that has a step to take.
LockInv == lock # NoOne => cpc[lock] \in {"fast", "eval", "block"}

\* All workers are there when the main loop begins.
BornInv == \A w \in Workers : wpc[w] = "unborn" => dpc = "spawn" /\ w >= i

\* A worker whose flag is cleared is about to be asked, or has been.
AskedInv ==
    \A w \in Workers :
        wpc[w] \in {"flagged", "idle"} /\ ~available[w] /\ requested[w] = 0 => i = w /\ dpc \in ClaimPCs

\* The workers are idle when the dispatcher begins to stop them, and those it has
\* passed have been told.
LastPCs == {"stopFlag", "stopSignal", "exited"}
ToldInv ==
    dpc \in LastPCs =>
        \A w \in Workers :
            /\ wpc[w] \in {"idle", "check", "exited"} /\ available[w]
            /\ w < i /\ wpc[w] = "idle" => requested[w] > 0

\* The destructor's signals are there until the dispatcher has taken them.
ReleaseInv ==
    /\ cpc[Owner] \in {"wakeWorker", "join", "gone"} /\ dpc \in {"spawn", "takeWork"} => availableWork > 0
    /\ cpc[Owner] \in {"join", "gone"} /\ dpc \in {"spawn", "takeWork", "takeWorker"} => availableWorker > 0

\* What keeps the threads from waiting for each other, beside the balance of the
\* permits.
LiveInv == LockInv /\ BornInv /\ AskedInv /\ ToldInv /\ ReleaseInv
-----------------------------------------------------------------------------
LEMMA LockStep ==
  ASSUME TypeOK, LockInv, [Next]_vars
  PROVE  LockInv'
<1> USE PoolAssumption DEF LockInv, TypeOK, CGoto, ClientAt
<1>1. ASSUME NEW c \in Clients, NEW t \in Thunks, PushWork(c, t) PROVE LockInv'
  BY <1>1 DEF PushWork
<1>2. ASSUME NEW c \in Clients, EnterWait(c) PROVE LockInv'
  BY <1>2 DEF EnterWait
<1>3. ASSUME NEW c \in Clients, SpuriousWake(c) \/ SignalWork(c) PROVE LockInv'
  BY <1>3 DEF SpuriousWake, SignalWork
<1>4. ASSUME NEW c \in Clients, FastPath(c) \/ EvalPredicate(c) PROVE LockInv'
  <2>1. CASE Return(c)
    BY <2>1 DEF Return
  <2>2. CASE ~Return(c)
    <3>1. /\ lock' = lock /\ cpc[c] \in {"fast", "eval"}
          /\ \E pc \in {"eval", "block"} : cpc' = [cpc EXCEPT ![c] = pc]
      BY <1>4, <2>2 DEF FastPath, EvalPredicate
    <3> QED
      BY <3>1
  <2> QED BY <2>1, <2>2
<1>5. ASSUME NEW c \in Clients, Block(c) \/ Relock(c) PROVE LockInv'
  BY <1>5 DEF Block, Relock
<1>6. CASE StopPool \/ SignalStopWork \/ SignalStopWorker \/ JoinDispatcher
  BY <1>6 DEF StopPool, SignalStopWork, SignalStopWorker, JoinDispatcher, pool
<1>7. CASE (Dispatcher \/ \E w \in Workers : Worker(w)) \/ UNCHANGED vars
  <2>1. cpc' = cpc
    BY <1>7, ThreadFrame DEF client, vars
  <2>2. lock' = lock
    BY <1>7 DEF Dispatcher, SpawnWorker, EnterLoop, TakeWork, TakeWorker, CheckStop, Scan,
       Unflag, Uncount, PopWork, AssignWork, RequestWorker, FlagStop, SignalStop, JoinWorkers,
       Worker, SetAvailable, CountAvailable, AwaitRequest, CheckWorkerStop, FinishWork,
       pool, vars
  <2> QED BY <2>1, <2>2
<1> QED BY <1>1, <1>2, <1>3, <1>4, <1>5, <1>6, <1>7 DEF Next, ClientCall, CallWait, Destroy, ClientStep

LEMMA BornStep ==
  ASSUME TypeOK, BornInv, [Next]_vars
  PROVE  BornInv'
<1> USE PoolAssumption DEF BornInv, TypeOK, Workers
<1>1. CASE (ClientCall \/ \E c \in Clients : ClientStep(c)) \/ UNCHANGED vars
  <2>1. UNCHANGED <<worker, disp>>
    BY <1>1, ClientFrame DEF vars
  <2> QED BY <2>1 DEF worker, disp
<1>2. CASE SpawnWorker
  BY <1>2 DEF SpawnWorker, DispAt
<1>3. CASE Dispatcher /\ ~SpawnWorker
  <2>1. dpc = "spawn" => i > NumWorkers
    BY <1>3 DEF Dispatcher, EnterLoop, TakeWork, TakeWorker, CheckStop, Scan, Unflag, Uncount,
       PopWork, AssignWork, RequestWorker, FlagStop, SignalStop, JoinWorkers, DGoto, DispAt
  <2>2. wpc' = wpc
    BY <1>3 DEF Dispatcher, EnterLoop, TakeWork, TakeWorker, CheckStop, Scan, Unflag, Uncount,
       PopWork, AssignWork, RequestWorker, FlagStop, SignalStop, JoinWorkers, worker
  <2>3. \A w \in Workers : wpc[w] # "unborn"
    BY <2>1
  <2> QED BY <2>2, <2>3
<1>4. ASSUME NEW w \in Workers, Worker(w) PROVE BornInv'
  <2>1. UNCHANGED disp /\ \E pc \in WorkerPCs \ {"unborn"} : wpc' = [wpc EXCEPT ![w] = pc]
    BY <1>4 DEF Worker, SetAvailable, CountAvailable, AwaitRequest, CheckWorkerStop, FinishWork,
       WGoto, WorkerPCs
  <2> QED BY <2>1 DEF disp
<1> QED BY <1>1, <1>2, <1>3, <1>4 DEF Next

LEMMA AskedStep ==
  ASSUME WaitInv, AskedInv, [Next]_vars
  PROVE  AskedInv'
<1> USE PoolAssumption DEF AskedInv, ClaimPCs
<1>0. TypeOK /\ IndexOK /\ ClaimInv /\ FlagInv /\ SpawnInv
  BY DEF WaitInv, TypeInv
<1>1. CASE (ClientCall \/ \E c \in Clients : ClientStep(c)) \/ UNCHANGED vars
  <2>1. UNCHANGED <<worker, disp>>
    BY <1>1, ClientFrame DEF vars
  <2> QED BY <2>1 DEF worker, disp
<1>2. CASE Dispatcher
  <2> USE <1>0 DEF TypeOK, IndexOK, DGoto, DispAt, worker
  <2>1. CASE SpawnWorker \/ EnterLoop \/ TakeWork \/ TakeWorker \/ CheckStop \/ Scan \/ Uncount
             \/ PopWork \/ AssignWork \/ FlagStop \/ JoinWorkers
    <3>1. UNCHANGED <<available, requested>> /\ (i' = i \/ dpc \notin ClaimPCs)
      BY <2>1 DEF SpawnWorker, EnterLoop, TakeWork, TakeWorker, CheckStop, Scan, Uncount,
         PopWork, AssignWork, FlagStop, JoinWorkers
    <3>2. dpc \in ClaimPCs => dpc' \in ClaimPCs
      BY <2>1 DEF SpawnWorker, EnterLoop, TakeWork, TakeWorker, CheckStop, Scan, Uncount,
         PopWork, AssignWork, FlagStop, JoinWorkers
    <3>3. \A w \in Workers : wpc'[w] \in {"flagged", "idle"} => wpc[w] = wpc'[w]
      BY <2>1 DEF SpawnWorker, EnterLoop, TakeWork, TakeWorker, CheckStop, Scan, Uncount,
         PopWork, AssignWork, FlagStop, JoinWorkers
    <3> QED BY <3>1, <3>2, <3>3
  <2>2. CASE Unflag
    BY <2>2 DEF Unflag
  <2>3. CASE RequestWorker
    BY <2>3 DEF RequestWorker
  <2>4. CASE SignalStop
    BY <2>4 DEF SignalStop
  <2> QED BY <1>2, <2>1, <2>2, <2>3, <2>4 DEF Dispatcher
<1>3. ASSUME NEW w \in Workers, Worker(w) PROVE AskedInv'
  <2> USE <1>0 DEF TypeOK, WGoto, WorkerAt, disp
  <2>1. CASE SetAvailable(w)
    BY <2>1 DEF SetAvailable
  <2>2. CASE CountAvailable(w)
    BY <2>2 DEF CountAvailable
  <2>3. CASE AwaitRequest(w)
    BY <2>3 DEF AwaitRequest
  <2>4. CASE CheckWorkerStop(w)
    BY <2>4 DEF CheckWorkerStop
  <2>5. CASE FinishWork(w)
    BY <2>5 DEF FinishWork
  <2> QED BY <1>3, <2>1, <2>2, <2>3, <2>4, <2>5 DEF Worker
<1> QED BY <1>1, <1>2, <1>3 DEF Next

\* In a pool at rest every worker is idle, or was idle when it was told to stop.
LEMMA RestingWorkers ==
  ASSUME WaitInv, Quiescent, dpc # "uncount", NEW w \in Workers
  PROVE  wpc[w] \notin {"unborn", "init", "flagged"} /\ available[w]
<1>1. numAvailable = NumWorkers
  BY DEF Quiescent
<1>2. /\ Cardinality(Counted) \in Nat /\ Cardinality(Charged) \in Nat
      /\ Cardinality(Counted) <= NumWorkers /\ IsFiniteSet(Workers) /\ Cardinality(Workers) = NumWorkers
  BY FiniteWorkers, FS_Interval, PoolAssumption DEF Counted, Charged, Workers
<1>3. Cardinality(Counted) = NumWorkers /\ Cardinality(Charged) = 0
  BY <1>1, <1>2, PoolAssumption DEF WaitInv, CountInv
<1>4. Counted = Workers
  BY <1>2, <1>3, FS_Subset DEF Counted
<1>5. Charged = {}
  BY <1>3, FiniteWorkers, FS_EmptySet DEF Charged
<1> QED BY <1>4, <1>5 DEF Counted, Charged, Claimed

LEMMA ToldStep ==
  ASSUME HandInv, ToldInv, [Next]_vars
  PROVE  ToldInv'
<1> USE PoolAssumption DEF ToldInv, LastPCs
<1>0. WaitInv /\ TypeOK /\ IndexOK /\ FlagInv /\ SpawnInv
  BY DEF HandInv, AssertInv, WaitInv, TypeInv
<1>1. CASE (ClientCall \/ \E c \in Clients : ClientStep(c)) \/ UNCHANGED vars
  <2>1. UNCHANGED <<worker, disp>>
    BY <1>1, ClientFrame DEF vars
  <2> QED BY <2>1 DEF worker, disp
<1>2. CASE CheckStop
  <2> SUFFICES ASSUME dpc' \in LastPCs, NEW w \in Workers
               PROVE  /\ wpc[w] \in {"idle", "check", "exited"} /\ available[w]
                      /\ ~(w < 1)
    BY <1>2 DEF CheckStop, worker
  <2>1. dpc = "checkStop" /\ stopWorking
    BY <1>2 DEF CheckStop, DGoto, DispAt
  <2>2. Stopping
    BY <2>1 DEF HandInv, AssertInv, PermitInv
  <2>3. Quiescent
    BY <2>2 DEF HandInv, RestInv
  <2>4. wpc[w] \notin {"unborn", "init", "flagged"} /\ available[w]
    BY <1>0, <2>1, <2>3, RestingWorkers
  <2>5. wpc[w] \notin {"run", "crashed"}
    BY <1>0, <1>2, <2>4 DEF FlagInv, CheckStop, DGoto, DispAt, Alive
  <2> QED BY <1>0, <2>4, <2>5 DEF TypeOK, WorkerPCs, Workers
<1>3. CASE Dispatcher /\ ~CheckStop
  <2> USE <1>0 DEF TypeOK, IndexOK, DGoto, DispAt, worker
  <2>1. CASE SpawnWorker \/ EnterLoop \/ TakeWork \/ TakeWorker \/ Scan \/ Unflag \/ Uncount
             \/ PopWork \/ AssignWork \/ RequestWorker
    BY <2>1 DEF SpawnWorker, EnterLoop, TakeWork, TakeWorker, Scan, Unflag, Uncount, PopWork,
       AssignWork, RequestWorker
  <2>2. CASE FlagStop \/ JoinWorkers
    BY <2>2 DEF FlagStop, JoinWorkers
  <2>3. CASE SignalStop
    <3>1. dpc \in LastPCs /\ i' = i + 1 /\ UNCHANGED <<wpc, available>> /\ i \in Workers
      BY <2>3 DEF SignalStop
    <3>2. requested' = [requested EXCEPT ![i] = @ + 1]
      BY <2>3 DEF SignalStop
    <3>3. ASSUME NEW w \in Workers, w < i', wpc[w] = "idle" PROVE requested'[w] > 0
      BY <3>1, <3>2, <3>3 DEF Workers
    <3> QED BY <3>1, <3>3
  <2> QED BY <1>3, <2>1, <2>2, <2>3 DEF Dispatcher
<1>4. ASSUME NEW w \in Workers, Worker(w) PROVE ToldInv'
  <2> USE <1>0 DEF TypeOK, WGoto, WorkerAt, disp
  <2> SUFFICES ASSUME dpc \in LastPCs PROVE ToldInv'
    BY <1>4 DEF Worker, SetAvailable, CountAvailable, AwaitRequest, CheckWorkerStop, FinishWork
  <2>1. CASE SetAvailable(w) \/ CountAvailable(w) \/ FinishWork(w)
    BY <2>1 DEF SetAvailable, CountAvailable, FinishWork
  <2>2. CASE AwaitRequest(w)
    BY <2>2 DEF AwaitRequest
  <2>3. CASE CheckWorkerStop(w)
    <3>1. wpc[w] = "check" /\ available[w] /\ wstop[w]
      BY <2>3 DEF CheckWorkerStop, FlagInv
    <3> QED BY <2>3, <3>1 DEF CheckWorkerStop
  <2> QED BY <1>4, <2>1, <2>2, <2>3 DEF Worker
<1> QED BY <1>1, <1>2, <1>3, <1>4 DEF Next

LEMMA ReleaseStep ==
  ASSUME AssertInv, ReleaseInv, [Next]_vars
  PROVE  ReleaseInv'
<1> USE PoolAssumption DEF ReleaseInv
<1>0. TypeOK /\ ClosingInv /\ StopInv
  BY DEF AssertInv, WaitInv, TypeInv
<1>1. CASE ClientCall
  <2>1. cpc[Owner] \notin {"wakeWorker", "join", "gone"} => cpc'[Owner] \notin {"wakeWorker", "join", "gone"}
    BY <1>0, <1>1 DEF ClientCall, PushWork, CallWait, SpuriousWake, Destroy, EnterWait, CGoto, ClientAt, TypeOK
  <2>2. cpc[Owner] \in {"wakeWorker", "join", "gone"} => cpc'[Owner] = cpc[Owner]
    BY <1>0, <1>1 DEF ClientCall, PushWork, CallWait, SpuriousWake, Destroy, EnterWait, CGoto, ClientAt, TypeOK
  <2>3. UNCHANGED <<availableWork, availableWorker, dpc>>
    BY <1>1 DEF ClientCall, PushWork, CallWait, SpuriousWake, Destroy, EnterWait, disp
  <2> QED BY <2>1, <2>2, <2>3
<1>2. ASSUME NEW c \in Clients, ClientStep(c) PROVE ReleaseInv'
  <2> USE <1>0 DEF TypeOK, CGoto, ClientAt, disp
  <2>1. CASE SignalWork(c)
    BY <2>1 DEF SignalWork
  <2>2. CASE FastPath(c) \/ EvalPredicate(c)
    <3>1. cpc[c] \in {"fast", "eval"} /\ UNCHANGED <<availableWork, availableWorker, dpc>>
      BY <2>2 DEF FastPath, EvalPredicate
    <3>2. \E pc \in {"eval", "block", "stop", "ready"} : cpc' = [cpc EXCEPT ![c] = pc]
      BY <2>2 DEF FastPath, EvalPredicate, Return
    <3> QED BY <3>1, <3>2
  <2>3. CASE Block(c) \/ Relock(c)
    BY <2>3 DEF Block, Relock
  <2>4. CASE StopPool
    BY <2>4 DEF StopPool
  <2>5. CASE SignalStopWork
    BY <2>5 DEF SignalStopWork
  <2>6. CASE SignalStopWorker
    BY <2>6 DEF SignalStopWorker
  <2>7. CASE JoinDispatcher
    BY <2>7 DEF JoinDispatcher, pool
  <2> QED BY <1>2, <2>1, <2>2, <2>3, <2>4, <2>5, <2>6, <2>7 DEF ClientStep
<1>3. CASE Dispatcher
  <2>1. cpc' = cpc
    BY <1>3, ThreadFrame DEF client
  <2> USE <1>0, <2>1 DEF TypeOK, DGoto, DispAt, pool
  <2>2. CASE RequestWorker
    BY <2>2 DEF RequestWorker, StopInv, Stopping, StopPCs
  <2>3. CASE Dispatcher /\ ~RequestWorker
    BY <2>3 DEF Dispatcher, SpawnWorker, EnterLoop, TakeWork, TakeWorker, CheckStop, Scan, Unflag,
       Uncount, PopWork, AssignWork, FlagStop, SignalStop, JoinWorkers
  <2> QED BY <1>3, <2>2, <2>3
<1>4. ASSUME NEW w \in Workers, Worker(w) PROVE ReleaseInv'
  BY <1>0, <1>4 DEF Worker, SetAvailable, CountAvailable, AwaitRequest, CheckWorkerStop, FinishWork,
     WGoto, pool, disp, client, TypeOK
<1>5. CASE UNCHANGED vars
  BY <1>5 DEF vars, pool, disp, client
<1> QED BY <1>1, <1>2, <1>3, <1>4, <1>5 DEF Next

LEMMA LiveInvariant == Spec => [](HandInv /\ LiveInv)
<1>1. Init => LiveInv
  BY PoolAssumption DEF Init, LiveInv, LockInv, BornInv, Workers, AskedInv, ToldInv, LastPCs, ReleaseInv
<1>2. HandInv /\ LiveInv /\ [Next]_vars => LiveInv'
  <2> SUFFICES ASSUME HandInv, LiveInv, [Next]_vars PROVE LiveInv'
    OBVIOUS
  <2>1. AssertInv /\ WaitInv /\ TypeOK
    BY DEF HandInv, AssertInv, WaitInv, TypeInv
  <2> QED BY <2>1, LockStep, BornStep, AskedStep, ToldStep, ReleaseStep DEF LiveInv
<1> QED BY <1>1, <1>2, HandInvariant, PTL DEF Spec

\* Before the pool is stopped, its threads wait only when nothing is left to do.
LEMMA WaitingMeansIdle ==
  ASSUME HandInv, LiveInv, AllWait, ~Stopping, NumWorkers # 0
  PROVE  Quiescent
<1> USE PoolAssumption
<1>0. TypeOK /\ IndexOK /\ SpawnInv /\ FlagInv /\ ClaimInv /\ CountInv /\ PermitInv /\ LockInv
      /\ BornInv /\ AskedInv /\ ScanInv
  BY DEF HandInv, AssertInv, WaitInv, TypeInv, LiveInv
<1>1. lock = NoOne
  BY <1>0 DEF AllWait, ClientWaits, LockInv, TypeOK
<1>2. Signalling = {} /\ Cardinality(Signalling) = 0
  BY FS_EmptySet DEF AllWait, ClientWaits, Signalling
<1>3. /\ Len(queue) = availableWork + HeldWork /\ availableWorker + HeldWorker = numAvailable
      /\ dpc \notin LastPCs
  BY <1>0, <1>2 DEF PermitInv, LastPCs, TypeOK, HeldWork
<1>4. dpc \in {"takeWork", "takeWorker"}
  <2>1. dpc = "scan" => i \in Workers
    BY <1>0 DEF ScanInv, TypeOK, Workers
  <2>2. dpc = "pop" => queue # <<>>
    BY <1>0, <1>3 DEF HeldWork, TypeOK
  <2> QED BY <1>1, <1>3, <2>1, <2>2 DEF AllWait, DispatcherWaits, LastPCs
<1>5. ASSUME NEW w \in Workers PROVE wpc[w] = "idle" /\ available[w]
  <2>1. ~wstop[w] /\ wpc[w] \notin {"exited", "unborn"}
    <3>1. ~wstop[w]
      BY <1>0, <1>4 DEF SpawnInv, MainPCs
    <3>2. wpc[w] # "exited"
      BY <1>0, <3>1 DEF FlagInv
    <3> QED BY <1>0, <1>4, <3>1, <3>2 DEF BornInv
  <2>2. wpc[w] = "idle" /\ requested[w] = 0
    BY <2>1 DEF AllWait, WorkerWaits
  <2> QED BY <1>0, <1>4, <2>2 DEF AskedInv, ClaimPCs, TypeOK
<1>6. numAvailable = NumWorkers
  <2>1. Counted = Workers /\ Charged = {}
    BY <1>5 DEF Counted, Charged, Claimed
  <2> QED BY <1>0, <2>1, FS_Interval, FS_EmptySet DEF CountInv, Workers
<1>7. dpc = "takeWork" /\ availableWork = 0
  BY <1>3, <1>4, <1>6 DEF AllWait, DispatcherWaits, HeldWorker
<1> QED BY <1>0, <1>3, <1>6, <1>7 DEF Quiescent, HeldWork, TypeOK

\* Once the destructor has raised the flag, its thread, the dispatcher and the workers
\* wait for each other only when it has returned.
LEMMA StoppingEnds ==
  ASSUME HandInv, LiveInv, AllWait, Stopping
  PROVE  cpc[Owner] = "gone"
<1> USE PoolAssumption
<1>0. TypeOK /\ SpawnInv /\ FlagInv /\ StopInv /\ ToldInv /\ ReleaseInv
  BY DEF HandInv, AssertInv, WaitInv, TypeInv, LiveInv
<1>1. cpc[Owner] \in {"join", "gone"}
  BY DEF AllWait, ClientWaits, Stopping, StopPCs
<1>2. dpc \notin {"takeWork", "takeWorker", "scan", "pop"}
  BY <1>0, <1>1 DEF AllWait, DispatcherWaits, ReleaseInv, StopInv, TypeOK
<1>3. dpc # "stopFlag"
  <2> SUFFICES ASSUME dpc = "stopFlag" PROVE FALSE
    OBVIOUS
  <2>1. PICK w \in Workers : wpc[w] # "exited" /\ w < i
    BY <1>0 DEF AllWait, DispatcherWaits, Workers, TypeOK
  <2>2. wpc[w] = "idle" /\ requested[w] = 0
    BY <1>0, <2>1 DEF AllWait, WorkerWaits, ToldInv, LastPCs
  <2> QED BY <1>0, <2>1, <2>2 DEF ToldInv, LastPCs
<1>4. dpc = "exited"
  BY <1>2, <1>3 DEF AllWait, DispatcherWaits
<1> QED BY <1>1, <1>4 DEF AllWait, ClientWaits

\* The threads of a pool with workers never wait for each other: if all of them wait
\* and the destructor has not returned, everything scheduled is done and only
\* notifications were missed (thread-pool.cc:51-93, 105-122).
THEOREM StopsCorrect ==
  ASSUME NumWorkers # 0
  PROVE  Spec => []StopsOnlyByLostWakeup
<1>1. HandInv /\ LiveInv => StopsOnlyByLostWakeup
  <2> SUFFICES ASSUME HandInv, LiveInv, AllWait, cpc[Owner] # "gone"
               PROVE  /\ Quiescent /\ pushed = done
                      /\ \A c \in Clients : cpc[c] = "ready" \/ c \in cvWaiters
    BY DEF StopsOnlyByLostWakeup
  <2>1. ~Stopping
    BY StoppingEnds
  <2>2. Quiescent
    BY <2>1, WaitingMeansIdle
  <2>3. pushed = done
    BY <2>2, QuiescentMeansDone DEF HandInv, AssertInv, PlaceInv
  <2>4. ASSUME NEW c \in Clients PROVE cpc[c] = "ready" \/ c \in cvWaiters
    <3>1. lock = NoOne
      BY PoolAssumption DEF LiveInv, LockInv, HandInv, AssertInv, WaitInv, TypeInv, TypeOK,
         AllWait, ClientWaits
    <3>2. cpc[c] \notin StopPCs
      BY <2>1 DEF HandInv, AssertInv, ClosingInv, Stopping
    <3> QED BY <3>1, <3>2 DEF AllWait, ClientWaits, StopPCs
  <2> QED BY <2>2, <2>3, <2>4
<1> QED BY <1>1, LiveInvariant, PTL
=============================================================================
