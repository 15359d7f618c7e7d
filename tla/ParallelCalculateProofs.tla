----------------------- MODULE ParallelCalculateProofs -----------------------
(***************************************************************************)
(* Results are printed in the order of the input, for every number of      *)
(* threads and every input.                                                *)
(***************************************************************************)
EXTENDS ParallelCalculate, TLAPS

\* A worker that has registered and not yet taken its datum.
Pending == \E w \in Workers : pc[w] = "registered"

Taken == Len(Input) - Len(dataQueue)

\* Each mutex belongs to the worker that is inside its critical section.
MutexInv ==
    \A w \in Workers :
        /\ dataMutex = w <=> pc[w] \in {"have", "registered"}
        /\ printMutex = w <=> pc[w] = "front"

\* dataQueue is what is left of the input.
RestInv ==
    /\ Taken >= 0
    /\ \A k \in 1..Len(dataQueue) : dataQueue[k] = Input[Taken + k]

\* printQueue stands for the data taken and not printed; the worker that is
\* about to take one is the last in it.
LineInv ==
    /\ Len(output) + Len(printQueue) = Taken + (IF Pending THEN 1 ELSE 0)
    /\ Pending => dataQueue # <<>>
    /\ \A k \in 1..Len(printQueue) :
          IF pc[printQueue[k]] = "registered"
            THEN k = Len(printQueue)
            ELSE data[printQueue[k]] = Input[Len(output) + k]

\* The inductive invariant: output, the data of the workers in printQueue, and
\* dataQueue are together the input (lines 44-50 and 54-64).
OrderInv == TypeOK /\ MutexInv /\ RegisteredOnce /\ RestInv /\ LineInv /\ PrintsInOrder
-----------------------------------------------------------------------------
LEMMA OrderInit ==
  ASSUME Init
  PROVE  OrderInv
<1> USE CalculateAssumption DEF Init
<1>1. TypeOK
  <2>1. pc \in [Workers -> PCs] /\ data \in [Workers -> Data \union {NoDatum}]
    BY DEF PCs
  <2>2. spawned \in 0..NumThreads /\ spurious \in 0..MaxSpurious
    OBVIOUS
  <2>3. dataQueue \in Seq(Data) /\ printQueue \in Seq(Workers) /\ output \in Seq(Data)
    OBVIOUS
  <2> QED BY <2>1, <2>2, <2>3 DEF TypeOK
<1>2. MutexInv
  BY DEF MutexInv
<1>3. RegisteredOnce
  BY DEF RegisteredOnce, Holding
<1>4. RestInv /\ PrintsInOrder
  BY DEF RestInv, Taken, PrintsInOrder
<1>5. LineInv
  BY DEF LineInv, Pending, Taken
<1> QED BY <1>1, <1>2, <1>3, <1>4, <1>5 DEF OrderInv

\* The worker at the front of printQueue holds the next datum to be printed.
LEMMA FrontDatum ==
  ASSUME OrderInv, NEW w \in Workers, pc[w] = "front", printQueue[1] = w
  PROVE  /\ printQueue # <<>>
         /\ Len(output) + 1 \in 1..Len(Input)
         /\ data[w] = Input[Len(output) + 1]
<1> USE CalculateAssumption DEF OrderInv, TypeOK
<1>1. printQueue # <<>>
  <2>1. w \in Holding
    BY DEF Holding
  <2> QED BY <2>1 DEF RegisteredOnce
<1>2. 1 \in 1..Len(printQueue) /\ Len(printQueue) \in Nat /\ Len(output) \in Nat
  BY <1>1
<1>3. data[w] = Input[Len(output) + 1]
  BY <1>2 DEF LineInv
<1>4. Len(output) + 1 <= Len(Input)
  <2>1. Taken + Len(dataQueue) = Len(Input) /\ Len(dataQueue) \in Nat /\ Taken \in Int
    BY DEF Taken
  <2>2. Pending => Len(dataQueue) >= 1
    BY <2>1 DEF LineInv
  <2>3. CASE Pending
    <3>1. Len(output) + Len(printQueue) = Taken + 1
      BY <2>3 DEF LineInv
    <3> QED BY <1>2, <2>1, <2>2, <2>3, <3>1
  <2>4. CASE ~Pending
    <3>1. Len(output) + Len(printQueue) = Taken
      BY <2>1, <2>4 DEF LineInv
    <3> QED BY <1>2, <2>1, <3>1
  <2> QED BY <2>3, <2>4
<1> QED BY <1>1, <1>2, <1>3, <1>4

LEMMA TypeStep ==
  ASSUME OrderInv, [Next]_vars
  PROVE  TypeOK'
<1> USE CalculateAssumption DEF OrderInv, TypeOK, PCs, Goto
<1>1. CASE Main
  <2>1. spawned' \in 0..NumThreads
    BY <1>1 DEF Main, Spawn, JoinAll
  <2>2. pc' \in [Workers -> PCs]
    BY <1>1 DEF Main, Spawn, JoinAll
  <2> QED BY <1>1, <2>1, <2>2 DEF Main, Spawn, JoinAll
<1>2. ASSUME NEW w \in Workers, Worker(w) PROVE TypeOK'
  <2>1. CASE LockData(w) \/ Leave(w) \/ Calculate(w) \/ LockPrint(w) \/ Sleep(w)
    BY <2>1 DEF LockData, Leave, Calculate, LockPrint, Sleep
  <2>2. CASE Register(w)
    BY <2>2 DEF Register
  <2>3. CASE TakeData(w)
    <3>1. dataQueue # <<>>
      BY <2>3 DEF TakeData, LineInv, Pending
    <3>2. Head(dataQueue) \in Data /\ Tail(dataQueue) \in Seq(Data)
      BY <3>1
    <3> QED BY <2>3, <3>2 DEF TakeData
  <2>4. CASE PrintResult(w)
    <3>1. printQueue # <<>> /\ data[w] \in Data
      BY <2>4, FrontDatum DEF PrintResult
    <3>2. Tail(printQueue) \in Seq(Workers) /\ Append(output, data[w]) \in Seq(Data)
      BY <3>1
    <3> QED BY <2>4, <3>2 DEF PrintResult
  <2> QED BY <1>2, <2>1, <2>2, <2>3, <2>4 DEF Worker
<1>3. ASSUME NEW w \in Workers, SpuriousWake(w) PROVE TypeOK'
  BY <1>3 DEF SpuriousWake
<1>4. CASE UNCHANGED vars
  BY <1>4 DEF vars
<1> QED BY <1>1, <1>2, <1>3, <1>4 DEF Next

LEMMA MutexStep ==
  ASSUME TypeOK, MutexInv, [Next]_vars
  PROVE  MutexInv'
<1> USE CalculateAssumption DEF TypeOK, MutexInv, Goto
<1>1. CASE Main
  BY <1>1 DEF Main, Spawn, JoinAll
<1>2. ASSUME NEW w \in Workers, Worker(w) PROVE MutexInv'
  BY <1>2 DEF Worker, LockData, Leave, Register, TakeData, Calculate, LockPrint, PrintResult, Sleep
<1>3. ASSUME NEW w \in Workers, SpuriousWake(w) PROVE MutexInv'
  BY <1>3 DEF SpuriousWake
<1>4. CASE UNCHANGED vars
  BY <1>4 DEF vars
<1> QED BY <1>1, <1>2, <1>3, <1>4 DEF Next

\* A step that leaves the queues, the data and the set of registered workers alone.
LEMMA QuietStep ==
  ASSUME OrderInv, UNCHANGED <<dataQueue, printQueue, data, output>>,
         Holding' = Holding,
         \A w \in Workers : pc'[w] = "registered" <=> pc[w] = "registered"
  PROVE  RegisteredOnce' /\ RestInv' /\ LineInv' /\ PrintsInOrder'
<1>1. RegisteredOnce'
  BY DEF OrderInv, RegisteredOnce
<1>2. RestInv' /\ PrintsInOrder' /\ Taken' = Taken
  BY DEF OrderInv, RestInv, PrintsInOrder, Taken
<1>3. Pending' = Pending
  BY DEF Pending
<1>4. \A k \in 1..Len(printQueue) : printQueue[k] \in Workers
  BY DEF OrderInv, TypeOK
<1>5. LineInv'
  BY <1>2, <1>3, <1>4 DEF OrderInv, LineInv
<1> QED BY <1>1, <1>2, <1>5

LEMMA RegisterStep ==
  ASSUME OrderInv, NEW w \in Workers, Register(w)
  PROVE  RegisteredOnce' /\ RestInv' /\ LineInv' /\ PrintsInOrder'
<1> USE DEF OrderInv, TypeOK, Goto
<1>1. /\ printQueue' = Append(printQueue, w)
      /\ Len(printQueue') = Len(printQueue) + 1 /\ Len(printQueue) \in Nat
      /\ printQueue'[Len(printQueue) + 1] = w
      /\ \A k \in 1..Len(printQueue) : printQueue'[k] = printQueue[k]
  BY DEF Register
<1>2. pc' = [pc EXCEPT ![w] = "registered"] /\ pc[w] = "have"
  BY DEF Register
<1>3. Holding' = Holding \union {w} /\ w \notin Holding
  BY <1>2 DEF Holding
<1>4. \A k \in 1..Len(printQueue) : printQueue[k] \in Workers /\ printQueue[k] # w
  BY <1>3 DEF RegisteredOnce
<1>5. RegisteredOnce'
  BY <1>1, <1>3, <1>4 DEF RegisteredOnce
<1>6. RestInv' /\ PrintsInOrder' /\ Taken' = Taken
  BY DEF Register, RestInv, PrintsInOrder, Taken
<1>7. ~Pending /\ Pending'
  BY <1>2 DEF Pending, MutexInv
<1>8. LineInv'
  <2>1. /\ Len(output) + Len(printQueue) = Taken
        /\ \A k \in 1..Len(printQueue) : data[printQueue[k]] = Input[Len(output) + k]
    <3>1. Len(output) + Len(printQueue) = Taken
      BY <1>7 DEF LineInv, Taken
    <3>2. \A k \in 1..Len(printQueue) : pc[printQueue[k]] # "registered"
      BY <1>4, <1>7 DEF Pending
    <3> QED BY <3>1, <3>2 DEF LineInv
  <2>2. dataQueue' # <<>> /\ output' = output /\ data' = data
    BY DEF Register
  <2>3. ASSUME NEW k \in 1..Len(printQueue')
        PROVE  IF pc'[printQueue'[k]] = "registered"
                 THEN k = Len(printQueue')
                 ELSE data'[printQueue'[k]] = Input[Len(output') + k]
    <3>1. CASE k = Len(printQueue')
      BY <1>1, <1>2, <3>1
    <3>2. CASE k \in 1..Len(printQueue)
      <4>1. pc'[printQueue'[k]] # "registered"
        BY <1>1, <1>2, <1>4, <1>7, <3>2 DEF Pending
      <4> QED BY <1>1, <2>1, <2>2, <3>2, <4>1
    <3> QED BY <1>1, <3>1, <3>2
  <2>4. Len(output') + Len(printQueue') = Taken' + (IF Pending' THEN 1 ELSE 0)
    BY <1>1, <1>6, <1>7, <2>1, <2>2
  <2> QED BY <2>2, <2>3, <2>4 DEF LineInv
<1> QED BY <1>5, <1>6, <1>8

LEMMA TakeStep ==
  ASSUME OrderInv, NEW w \in Workers, TakeData(w)
  PROVE  RegisteredOnce' /\ RestInv' /\ LineInv' /\ PrintsInOrder'
<1> USE CalculateAssumption DEF OrderInv, TypeOK, Goto
<1>1. /\ pc[w] = "registered" /\ pc' = [pc EXCEPT ![w] = "calculate"]
      /\ data' = [data EXCEPT ![w] = Head(dataQueue)]
      /\ dataQueue' = Tail(dataQueue)
      /\ printQueue' = printQueue /\ output' = output
  BY DEF TakeData
<1>2. Holding' = Holding
  BY <1>1 DEF Holding
<1>3. RegisteredOnce'
  BY <1>1, <1>2 DEF RegisteredOnce
<1>4. PrintsInOrder'
  BY <1>1 DEF PrintsInOrder
<1>5. dataQueue # <<>>
  BY <1>1 DEF LineInv, Pending
<1>6. /\ Len(dataQueue') = Len(dataQueue) - 1 /\ Len(dataQueue) \in Nat \ {0}
      /\ \A k \in 1..Len(dataQueue') : dataQueue'[k] = dataQueue[k + 1]
      /\ Head(dataQueue) = dataQueue[1]
  BY <1>1, <1>5
<1>7. Taken' = Taken + 1 /\ Taken \in Nat
  BY <1>6 DEF Taken, RestInv
<1>8. RestInv'
  <2>1. ASSUME NEW k \in 1..Len(dataQueue') PROVE dataQueue'[k] = Input[Taken' + k]
    <3>1. k + 1 \in 1..Len(dataQueue) /\ dataQueue[k + 1] = Input[Taken + (k + 1)]
      BY <1>6 DEF RestInv
    <3> QED BY <1>6, <1>7, <3>1
  <2> QED BY <1>7, <2>1 DEF RestInv
<1>9. Pending /\ ~Pending'
  <2>1. \A v \in Workers : pc[v] = "registered" => v = w
    BY <1>1 DEF MutexInv
  <2> QED BY <1>1, <2>1 DEF Pending
<1>10. LineInv'
  <2>1. Len(output') + Len(printQueue') = Taken'
    BY <1>1, <1>7, <1>9 DEF LineInv
  <2>2. ASSUME NEW k \in 1..Len(printQueue')
        PROVE  data'[printQueue'[k]] = Input[Len(output') + k]
    <3>1. printQueue[k] \in Workers
      BY <1>1
    <3>2. CASE printQueue[k] = w
      <4>1. k = Len(printQueue)
        BY <1>1, <3>2 DEF LineInv
      <4>2. data'[w] = Input[Taken + 1]
        BY <1>1, <1>6 DEF RestInv
      <4>3. Len(output) + k = Taken + 1
        BY <1>9, <4>1 DEF LineInv
      <4> QED BY <1>1, <3>2, <4>2, <4>3
    <3>3. CASE printQueue[k] # w
      <4>1. pc[printQueue[k]] # "registered"
        BY <1>1, <3>1, <3>3 DEF MutexInv
      <4> QED BY <1>1, <3>1, <3>3, <4>1 DEF LineInv
    <3> QED BY <3>2, <3>3
  <2>3. \A k \in 1..Len(printQueue') : printQueue'[k] \in Workers
    BY <1>1
  <2>4. \A k \in 1..Len(printQueue') : pc'[printQueue'[k]] # "registered"
    BY <1>9, <2>3 DEF Pending
  <2> QED BY <1>7, <1>9, <2>1, <2>2, <2>4 DEF LineInv
<1> QED BY <1>3, <1>4, <1>8, <1>10

LEMMA PrintStep ==
  ASSUME OrderInv, NEW w \in Workers, PrintResult(w)
  PROVE  RegisteredOnce' /\ RestInv' /\ LineInv' /\ PrintsInOrder'
<1> USE CalculateAssumption DEF OrderInv, TypeOK, Goto
<1>1. /\ pc[w] = "front" /\ pc' = [pc EXCEPT ![w] = "top"]
      /\ output' = Append(output, data[w]) /\ printQueue' = Tail(printQueue)
      /\ printQueue[1] = w /\ data' = data /\ dataQueue' = dataQueue
  BY DEF PrintResult
<1>2. /\ printQueue # <<>> /\ Len(output) + 1 \in 1..Len(Input)
      /\ data[w] = Input[Len(output) + 1]
  BY <1>1, FrontDatum
<1>3. /\ Len(printQueue') = Len(printQueue) - 1 /\ Len(printQueue) \in Nat \ {0}
      /\ \A k \in 1..Len(printQueue') : printQueue'[k] = printQueue[k + 1]
  BY <1>1, <1>2
<1>4. Holding' = Holding \ {w}
  BY <1>1 DEF Holding
<1>5. \A k \in 1..Len(printQueue') : printQueue'[k] \in Workers /\ printQueue'[k] # w
  <2> TAKE k \in 1..Len(printQueue')
  <2>1. k + 1 \in 1..Len(printQueue) /\ k + 1 # 1 /\ 1 \in 1..Len(printQueue)
    BY <1>3
  <2>2. printQueue[k + 1] # printQueue[1]
    BY <2>1 DEF RegisteredOnce
  <2> QED BY <1>1, <1>3, <2>1, <2>2
<1>6. RegisteredOnce'
  <2>1. ASSUME NEW v \in Holding'
        PROVE  \E k \in 1..Len(printQueue') : printQueue'[k] = v
    <3>1. PICK k \in 1..Len(printQueue) : printQueue[k] = v
      BY <1>4, <2>1 DEF RegisteredOnce
    <3>2. k # 1
      BY <1>1, <1>4, <2>1, <3>1
    <3>3. k - 1 \in 1..Len(printQueue') /\ printQueue'[k - 1] = v
      BY <1>3, <3>1, <3>2
    <3> QED BY <3>3
  <2>2. \A k \in 1..Len(printQueue') : printQueue'[k] \in Holding'
    BY <1>3, <1>4, <1>5 DEF RegisteredOnce
  <2>3. ASSUME NEW j \in 1..Len(printQueue'), NEW k \in 1..Len(printQueue'),
               printQueue'[j] = printQueue'[k]
        PROVE  j = k
    <3>1. j + 1 \in 1..Len(printQueue) /\ k + 1 \in 1..Len(printQueue)
      BY <1>3
    <3>2. printQueue[j + 1] = printQueue[k + 1]
      BY <1>3, <2>3
    <3>3. j + 1 = k + 1
      BY <3>1, <3>2 DEF RegisteredOnce
    <3> QED BY <3>3
  <2> QED BY <2>1, <2>2, <2>3 DEF RegisteredOnce
<1>7. RestInv' /\ Taken' = Taken
  BY <1>1 DEF RestInv, Taken
<1>8. Pending' = Pending
  BY <1>1 DEF Pending
<1>9. Len(output') = Len(output) + 1 /\ Len(output) \in Nat
  BY <1>1
<1>10. PrintsInOrder'
  <2>1. ASSUME NEW k \in 1..Len(output') PROVE output'[k] = Input[k]
    <3>1. CASE k = Len(output) + 1
      BY <1>1, <1>2, <1>9, <3>1
    <3>2. CASE k \in 1..Len(output)
      BY <1>1, <3>2 DEF PrintsInOrder
    <3> QED BY <1>9, <3>1, <3>2
  <2> QED BY <1>2, <1>9, <2>1 DEF PrintsInOrder
<1>11. LineInv'
  <2>1. Len(output') + Len(printQueue') = Taken' + (IF Pending' THEN 1 ELSE 0)
    BY <1>3, <1>7, <1>8, <1>9 DEF LineInv
  <2>2. Pending' => dataQueue' # <<>>
    BY <1>1, <1>8 DEF LineInv
  <2>3. ASSUME NEW k \in 1..Len(printQueue')
        PROVE  IF pc'[printQueue'[k]] = "registered"
                 THEN k = Len(printQueue')
                 ELSE data'[printQueue'[k]] = Input[Len(output') + k]
    <3>1. k + 1 \in 1..Len(printQueue) /\ printQueue'[k] = printQueue[k + 1]
      BY <1>3
    <3>2. pc'[printQueue'[k]] = pc[printQueue[k + 1]]
      BY <1>1, <1>5, <3>1
    <3>3. Len(output') + k = Len(output) + (k + 1)
      BY <1>9
    <3>4. IF pc[printQueue[k + 1]] = "registered"
            THEN k + 1 = Len(printQueue)
            ELSE data[printQueue[k + 1]] = Input[Len(output) + (k + 1)]
      BY <3>1 DEF LineInv
    <3> QED BY <1>1, <1>3, <3>1, <3>2, <3>3, <3>4
  <2> QED BY <2>1, <2>2, <2>3 DEF LineInv
<1> QED BY <1>6, <1>7, <1>10, <1>11

LEMMA OrderStep ==
  ASSUME OrderInv, [Next]_vars
  PROVE  OrderInv'
<1> DEFINE Rest == RegisteredOnce' /\ RestInv' /\ LineInv' /\ PrintsInOrder'
<1>1. TypeOK' /\ MutexInv'
  BY TypeStep, MutexStep DEF OrderInv
<1>2. Rest
  <2> USE DEF Goto
  <2>0. pc \in [Workers -> PCs]
    BY DEF OrderInv, TypeOK
  <2>1. ASSUME NEW w \in Workers, Register(w) \/ TakeData(w) \/ PrintResult(w) PROVE Rest
    BY <2>1, RegisterStep, TakeStep, PrintStep
  <2>2. ASSUME NEW w \in Workers,
               \/ LockData(w) \/ Leave(w) \/ Calculate(w)
               \/ LockPrint(w) \/ Sleep(w) \/ SpuriousWake(w)
        PROVE  Rest
    <3>1. /\ UNCHANGED <<dataQueue, printQueue, data, output>>
          /\ \A v \in Workers : pc'[v] = "registered" <=> pc[v] = "registered"
      BY <2>0, <2>2 DEF LockData, Leave, Calculate, LockPrint, Sleep, SpuriousWake
    <3>2. Holding' = Holding
      BY <2>0, <2>2 DEF Holding, LockData, Leave, Calculate, LockPrint, Sleep, SpuriousWake
    <3> QED BY <3>1, <3>2, QuietStep
  <2>3. CASE Main \/ UNCHANGED vars
    <3>1. /\ UNCHANGED <<dataQueue, printQueue, data, output>>
          /\ \A v \in Workers : pc'[v] = "registered" <=> pc[v] = "registered"
      BY <2>0, <2>3 DEF Main, Spawn, JoinAll, vars
    <3>2. Holding' = Holding
      BY <2>0, <2>3 DEF Holding, Main, Spawn, JoinAll, vars
    <3> QED BY <3>1, <3>2, QuietStep
  <2> QED BY <2>1, <2>2, <2>3 DEF Next, Worker
<1> QED BY <1>1, <1>2 DEF OrderInv

\* However the threads interleave, the results come out in the order in which the
\* data stood in the queue (lines 43-50 and 54-64).
THEOREM PrintsCorrect == Spec => []PrintsInOrder
<1>1. Init => OrderInv
  BY OrderInit
<1>2. OrderInv /\ [Next]_vars => OrderInv'
  BY OrderStep
<1>3. OrderInv => PrintsInOrder
  BY DEF OrderInv
<1> QED BY <1>1, <1>2, <1>3, PTL DEF Spec

\* printQueue holds each worker with a datum once, and is never read when empty
\* (lines 45, 55 and 57).
THEOREM RegisteredCorrect == Spec => []RegisteredOnce
<1>1. Init => OrderInv
  BY OrderInit
<1>2. OrderInv /\ [Next]_vars => OrderInv'
  BY OrderStep
<1>3. OrderInv => RegisteredOnce
  BY DEF OrderInv
<1> QED BY <1>1, <1>2, <1>3, PTL DEF Spec
=============================================================================
