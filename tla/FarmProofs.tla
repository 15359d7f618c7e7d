------------------------------ MODULE FarmProofs ------------------------------
(***************************************************************************)
(* TLAPS proofs about Farm, for every number of CPUs and of input lines.   *)
(* The argument rests on what the counter really counts: the children that *)
(* stand halted and reaped and have not been handed a number, whether or   *)
(* not their flag still says so after the race of spawnAllWorkers().       *)
(***************************************************************************)
EXTENDS Farm, FiniteSetTheorems, TLAPS

SpawnPCs == {"fork", "store", "storeFlag"}
HoldPCs  == {"block", "check", "enter", "suspend", "scan", "assign", "write"}
ClosePCs == {"close", "closeContinue", "returned"}

\* main() has cleared the flag of w and not continued it yet.
HandedOver(w) == mpc \in {"write", "continue"} /\ i = w

\* The workers that numWorkersAvailable stands for.
Resting(w) ==
    closed[w] \/ (proc[w] = "stopped" /\ event[w] = "none" /\ ~HandedOver(w))

SpawnInv ==
    /\ mpc \notin SpawnPCs \union {"aborted"} => \A w \in Workers : known[w]
    /\ mpc \in SpawnPCs => \A w \in Workers :
         /\ w < i => known[w]
         /\ w > i => proc[w] = "none"
    /\ mpc = "fork" => \A w \in Workers : w >= i => proc[w] = "none"
    /\ mpc = "store" => i \in Workers /\ ~known[i] /\ proc[i] # "none"
    /\ mpc = "storeFlag" => i \in Workers /\ known[i]

\* A child works on a number exactly while it factors; its pipe holds one number
\* from the write until the child reads it, and nothing once it is closed.
ChildOK(w) ==
    /\ proc[w] = "none" => ~known[w]
    /\ event[w] = "stop" => proc[w] = "stopped"
    /\ event[w] = "exit" => proc[w] = "exited"
    /\ proc[w] = "exited" => closed[w]
    /\ num[w] # NoNumber <=> proc[w] = "factoring"
    /\ pipe[w] = <<>> \/ \E n \in Numbers : pipe[w] = <<n>>
    /\ pipe[w] # <<>> => proc[w] = "reading" \/ (mpc = "continue" /\ i = w)
    /\ proc[w] = "reading" /\ ~closed[w] => pipe[w] # <<>>
    /\ closed[w] => /\ mpc \in ClosePCs /\ pipe[w] = <<>> /\ event[w] # "stop"
                    /\ proc[w] \in {"stopped", "reading", "exited"}

ChildInv == \A w \in Workers : ChildOK(w)

\* What main() knows of the worker it is about to use.
MainInv ==
    /\ mpc = "assign" => i \in Workers /\ available[i]
    /\ mpc \in {"write", "continue"} =>
         /\ i \in Workers /\ ~available[i]
         /\ proc[i] = "stopped" /\ event[i] = "none"
    /\ mpc = "write" => pipe[i] = <<>>
    /\ mpc = "continue" => pipe[i] # <<>>
    /\ mpc = "closeContinue" => i \in Workers /\ closed[i]
    /\ mpc \in HoldPCs => line # NoNumber
    /\ mpc \notin HoldPCs \union {"aborted"} => line = NoNumber

\* The pipes are closed when everybody rests.
CloseInv == mpc \in ClosePCs => \A w \in Workers : Resting(w)

\* A flag is only up over a resting worker, and without a race it is up over each.
FlagOK(w) ==
    /\ ~Unrecorded(w) /\ available[w] => Resting(w)
    /\ ~raced /\ Resting(w) => ~Unrecorded(w) /\ available[w]

AvailInv == \A w \in Workers : FlagOK(w)

\* The scan finds a flag: the assertions at lines 83 and 122.
ScanInv ==
    /\ mpc = "scan" /\ ~raced => \E w \in Workers : w >= i /\ available[w]
    /\ AbortsOnlyInRace

RestSet  == {w \in Workers : Resting(w)}
CountInv == mpc # "aborted" => numAvailable = Cardinality(RestSet)

\* A number that was read is in one place, and no other number is anywhere.
Holds(w, n) == pipe[w] = <<n>> \/ num[w] = n

OneOK(n) ==
    \/ line = n /\ n \notin printed /\ \A w \in Workers : ~Holds(w, n)
    \/ line # n /\ n \in printed /\ \A w \in Workers : ~Holds(w, n)
    \/ /\ line # n /\ n \notin printed
       /\ \E w \in Workers : Holds(w, n) /\ \A v \in Workers \ {w} : ~Holds(v, n)

OneInv == \A n \in 1..read : OneOK(n)

FreshInv ==
    /\ line <= read /\ printed \subseteq 1..read
    /\ \A w \in Workers, n \in Numbers : Holds(w, n) => n <= read

FarmInv ==
    /\ TypeOK /\ SpawnInv /\ ChildInv /\ MainInv /\ CloseInv
    /\ AvailInv /\ ScanInv /\ CountInv /\ OneInv /\ FreshInv
-----------------------------------------------------------------------------
(* The counter and the set of resting workers.                             *)

\* The workers can be counted; if as many rest as there are, all rest.
LEMMA FiniteRest ==
  ASSUME NEW S \in SUBSET Workers
  PROVE  /\ IsFiniteSet(S) /\ Cardinality(S) \in 0..NumCPUs
         /\ Cardinality(S) = NumCPUs => S = Workers
<1>1. IsFiniteSet(Workers) /\ Cardinality(Workers) = NumCPUs
  BY FS_Interval, FarmAssumption DEF Workers
<1>2. /\ IsFiniteSet(S) /\ Cardinality(S) <= NumCPUs
      /\ Cardinality(S) = NumCPUs => S = Workers
  BY <1>1, FS_Subset
<1>3. Cardinality(S) \in Nat
  BY <1>2, FS_CardinalityType
<1> QED BY <1>2, <1>3, FarmAssumption

\* The worker that main() has picked is still the one the scan found: the assertions
\* at lines 135 and 136.
LEMMA AssignSafe ==
  ASSUME FarmInv, mpc = "assign"
  PROVE  i \in RestSet /\ available[i] /\ numAvailable > 0
<1>1. i \in Workers /\ available[i] /\ ~Unrecorded(i)
  BY DEF FarmInv, MainInv, SpawnInv, SpawnPCs, Unrecorded
<1>2. i \in RestSet
  BY <1>1 DEF FarmInv, AvailInv, FlagOK, RestSet
<1>3. numAvailable = Cardinality(RestSet)
  BY DEF FarmInv, CountInv
<1>4. Cardinality(RestSet) # 0
  BY <1>2, FiniteRest, FS_EmptySet DEF RestSet
<1> QED BY <1>1, <1>2, <1>3, <1>4, FarmAssumption, FiniteRest DEF RestSet

\* What waitpid reports of a worker is news: the assertions at lines 71 and 72.
LEMMA ReapSafe ==
  ASSUME FarmInv, NEW w \in Workers, Reap(w), event[w] = "stop"
  PROVE  /\ w \notin RestSet /\ numAvailable < NumCPUs
         /\ ~Unrecorded(w) => ~available[w]
<1>1. ~Resting(w)
  BY DEF FarmInv, ChildInv, ChildOK, Resting
<1>2. w \notin RestSet /\ RestSet # Workers
  BY <1>1 DEF RestSet
<1>3. numAvailable = Cardinality(RestSet)
  BY DEF FarmInv, CountInv, Reap, Alive, Terminal
<1>4. numAvailable < NumCPUs
  BY <1>2, <1>3, FiniteRest, FarmAssumption DEF RestSet
<1> QED BY <1>1, <1>2, <1>4 DEF FarmInv, AvailInv, FlagOK

\* The outcomes of one report of waitpid: an assertion fails, a worker is marked, or an
\* exit is noted.
ReapAborts(w) ==
    /\ ~known[w] \/ (event[w] = "stop" /\ (available[w] \/ numAvailable >= NumCPUs))
    /\ mpc' = "aborted" /\ UNCHANGED <<available, numAvailable>>
ReapMarks(w) ==
    /\ known[w] /\ event[w] = "stop" /\ ~available[w] /\ numAvailable < NumCPUs
    /\ available' = [available EXCEPT ![w] = TRUE] /\ numAvailable' = numAvailable + 1
    /\ mpc' = mpc
ReapNotes(w) ==
    known[w] /\ event[w] # "stop" /\ UNCHANGED <<mpc, available, numAvailable>>

\* The handler aborts, marks a worker available, or only takes note.
LEMMA ReapOutcomes ==
  ASSUME TypeOK, NEW w \in Workers, Reap(w)
  PROVE  ReapAborts(w) \/ ReapMarks(w) \/ ReapNotes(w)
<1>1. available[w] \in BOOLEAN /\ numAvailable \in Nat
  BY FarmAssumption DEF TypeOK
<1> QED BY <1>1, FarmAssumption DEF Reap, ReapAborts, ReapMarks, ReapNotes

\* An assertion of the handler fails only while spawnAllWorkers() stores a worker.
LEMMA AbortRaces ==
  ASSUME FarmInv, NEW w \in Workers, Reap(w), ReapAborts(w)
  PROVE  Unrecorded(w) /\ mpc \in SpawnPCs /\ w = i
<1>1. Unrecorded(w)
  <2> SUFFICES ASSUME known[w], ~Unrecorded(w) PROVE FALSE
    BY DEF Unrecorded
  <2>1. event[w] = "stop" /\ (available[w] \/ numAvailable >= NumCPUs)
    BY DEF ReapAborts
  <2>2. numAvailable \in Nat
    BY FarmAssumption DEF FarmInv, TypeOK
  <2> QED BY <2>1, <2>2, ReapSafe, FarmAssumption
<1>2. mpc # "aborted"
  BY DEF Reap, Alive, Terminal
<1>3. mpc \in SpawnPCs
  BY <1>1, <1>2 DEF Unrecorded, SpawnPCs, FarmInv, SpawnInv
<1>4. proc[w] # "none"
  BY DEF Reap, FarmInv, TypeOK, ChildInv, ChildOK
<1>5. ~(w > i) /\ ~(mpc = "fork" /\ w >= i)
  BY <1>3, <1>4 DEF FarmInv, SpawnInv
<1>6. w \in Int /\ i \in Int
  BY FarmAssumption DEF FarmInv, TypeOK, Workers
<1> QED BY <1>1, <1>3, <1>5, <1>6 DEF Unrecorded, FarmInv, SpawnInv, SpawnPCs

\* The types are kept.
LEMMA TypeStep ==
  ASSUME FarmInv, [Next]_vars
  PROVE  TypeOK'
<1> USE FarmAssumption DEF FarmInv, TypeOK, Workers, Numbers, NoNumber, MainPCs, Terminal,
                           ProcPCs, farm, main, signals, children, pipes, Goto, MainAt, ChildAt
<1>1. CASE Main
  <2>1. CASE Fork
    BY <2>1 DEF Fork
  <2>2. CASE StoreWorker
    BY <2>2 DEF StoreWorker
  <2>3. CASE StoreFlag
    <3>1. i' \in 1..(NumCPUs + 1)
      BY <2>3 DEF StoreFlag, SpawnInv
    <3> QED BY <2>3, <3>1 DEF StoreFlag
  <2>4. CASE AllSpawned
    BY <2>4 DEF AllSpawned
  <2>5. CASE ReadNumber
    BY <2>5 DEF ReadNumber
  <2>6. CASE EndOfInput
    BY <2>6 DEF EndOfInput
  <2>7. CASE BadLine
    BY <2>7 DEF BadLine
  <2>8. CASE BlockForWorker
    BY <2>8 DEF BlockForWorker
  <2>9. CASE CheckWorker
    <3>1. i' \in 1..(NumCPUs + 1)
      BY <2>9 DEF CheckWorker
    <3>2. mpc' \in MainPCs /\ blocked' \in BOOLEAN
      BY <2>9 DEF CheckWorker
    <3> QED BY <2>9, <3>1, <3>2 DEF CheckWorker
  <2>10. CASE Suspend
    BY <2>10 DEF Suspend
  <2>11. CASE Scan
    BY <2>11 DEF Scan
  <2>12. CASE AssignWorker
    <3>1. available[i] /\ numAvailable > 0
      BY <2>12, AssignSafe DEF AssignWorker
    <3>2. numAvailable' \in 0..NumCPUs /\ mpc' \in MainPCs
      BY <2>12, <3>1 DEF AssignWorker
    <3> QED BY <2>12, <3>2 DEF AssignWorker
  <2>13. CASE WriteNumber
    <3>1. line \in Numbers /\ i \in Workers
      BY <2>13 DEF WriteNumber, MainInv, HoldPCs
    <3>2. pipe' \in [Workers -> Seq(Numbers)]
      BY <2>13, <3>1 DEF WriteNumber
    <3> QED BY <2>13, <3>2 DEF WriteNumber
  <2>14. CASE ContinueWorker
    BY <2>14 DEF ContinueWorker, Continue
  <2>15. CASE BlockForAll
    BY <2>15 DEF BlockForAll
  <2>16. CASE CheckAll
    <3>1. i' \in 1..(NumCPUs + 1)
      BY <2>16 DEF CheckAll
    <3>2. mpc' \in MainPCs /\ blocked' \in BOOLEAN
      BY <2>16 DEF CheckAll
    <3> QED BY <2>16, <3>1, <3>2 DEF CheckAll
  <2>17. CASE ClosePipe
    BY <2>17 DEF ClosePipe
  <2>18. CASE ContinueClosed
    <3>1. i' \in 1..(NumCPUs + 1)
      BY <2>18 DEF ContinueClosed, MainInv
    <3> QED BY <2>18, <3>1 DEF ContinueClosed, Continue
  <2>19. CASE Return
    BY <2>19 DEF Return
  <2> QED BY <1>1, <2>1, <2>2, <2>3, <2>4, <2>5, <2>6, <2>7, <2>8, <2>9, <2>10,
              <2>11, <2>12, <2>13, <2>14, <2>15, <2>16, <2>17, <2>18, <2>19 DEF Main
<1>2. CASE Handler
  <2>1. CASE Deliver
    BY <2>1 DEF Deliver
  <2>2. CASE HandlerReturns
    BY <2>2 DEF HandlerReturns
  <2>3. ASSUME NEW w \in Workers, Reap(w) PROVE TypeOK'
    <3>0. ReapAborts(w) \/ ReapMarks(w) \/ ReapNotes(w)
      BY <2>3, ReapOutcomes
    <3>1. numAvailable' \in 0..NumCPUs
      BY <3>0 DEF ReapMarks, ReapAborts, ReapNotes
    <3>4. available' \in [Workers -> BOOLEAN]
      BY <3>0 DEF ReapMarks, ReapAborts, ReapNotes
    <3>2. mpc' \in MainPCs /\ raced' \in BOOLEAN
      BY <2>3 DEF Reap, Unrecorded
    <3>3. event' \in [Workers -> {"none", "stop", "exit"}]
      BY <2>3 DEF Reap
    <3> QED BY <2>3, <3>1, <3>2, <3>3, <3>4 DEF Reap
  <2> QED BY <1>2, <2>1, <2>2, <2>3 DEF Handler
<1>3. ASSUME NEW w \in Workers, Child(w) PROVE TypeOK'
  <2>1. CASE Halt(w)
    BY <2>1 DEF Halt
  <2>2. CASE ReadPipe(w)
    BY <2>2 DEF ReadPipe
  <2>3. CASE PrintFactors(w)
    <3>1. num[w] \in Numbers
      BY <2>3 DEF PrintFactors, ChildInv, ChildOK
    <3> QED BY <2>3, <3>1 DEF PrintFactors
  <2>4. CASE ExitOnEOF(w)
    BY <2>4 DEF ExitOnEOF
  <2> QED BY <1>3, <2>1, <2>2, <2>3, <2>4 DEF Child
<1>4. CASE UNCHANGED vars
  BY <1>4 DEF vars
<1> QED BY <1>1, <1>2, <1>3, <1>4 DEF Next

\* The workers are stored in order.
LEMMA SpawnStep ==
  ASSUME FarmInv, [Next]_vars
  PROVE  SpawnInv'
<1> USE FarmAssumption DEF FarmInv, TypeOK, SpawnInv, ChildInv, ChildOK, MainInv, SpawnPCs,
                           Workers, MainPCs, Terminal, Alive, farm, main, signals, children,
                           pipes, Goto, MainAt, ChildAt
<1>1. CASE Main
  <2>1. CASE Fork
    BY <2>1 DEF Fork
  <2>2. CASE StoreWorker
    BY <2>2 DEF StoreWorker
  <2>3. CASE StoreFlag
    BY <2>3 DEF StoreFlag
  <2>4. CASE AllSpawned
    BY <2>4 DEF AllSpawned
  <2>5. CASE ReadNumber
    BY <2>5 DEF ReadNumber
  <2>6. CASE EndOfInput
    BY <2>6 DEF EndOfInput
  <2>7. CASE BadLine
    BY <2>7 DEF BadLine
  <2>8. CASE BlockForWorker
    BY <2>8 DEF BlockForWorker
  <2>9. CASE CheckWorker
    BY <2>9 DEF CheckWorker
  <2>10. CASE Suspend
    BY <2>10 DEF Suspend
  <2>11. CASE Scan
    BY <2>11 DEF Scan
  <2>12. CASE AssignWorker
    BY <2>12 DEF AssignWorker
  <2>13. CASE WriteNumber
    BY <2>13 DEF WriteNumber
  <2>14. CASE ContinueWorker
    BY <2>14 DEF ContinueWorker
  <2>15. CASE BlockForAll
    BY <2>15 DEF BlockForAll
  <2>16. CASE CheckAll
    BY <2>16 DEF CheckAll
  <2>17. CASE ClosePipe
    BY <2>17 DEF ClosePipe
  <2>18. CASE ContinueClosed
    BY <2>18 DEF ContinueClosed
  <2>19. CASE Return
    BY <2>19 DEF Return
  <2> QED BY <1>1, <2>1, <2>2, <2>3, <2>4, <2>5, <2>6, <2>7, <2>8, <2>9, <2>10,
              <2>11, <2>12, <2>13, <2>14, <2>15, <2>16, <2>17, <2>18, <2>19 DEF Main
<1>2. CASE Handler
  <2>1. CASE Deliver
    BY <2>1 DEF Deliver
  <2>2. CASE HandlerReturns
    BY <2>2 DEF HandlerReturns
  <2>3. ASSUME NEW w \in Workers, Reap(w) PROVE SpawnInv'
    BY <2>3 DEF Reap
  <2> QED BY <1>2, <2>1, <2>2, <2>3 DEF Handler
<1>3. ASSUME NEW w \in Workers, Child(w) PROVE SpawnInv'
  <2>1. CASE Halt(w)
    BY <2>1 DEF Halt
  <2>2. CASE ReadPipe(w)
    BY <2>2 DEF ReadPipe
  <2>3. CASE PrintFactors(w)
    BY <2>3 DEF PrintFactors
  <2>4. CASE ExitOnEOF(w)
    BY <2>4 DEF ExitOnEOF
  <2> QED BY <1>3, <2>1, <2>2, <2>3, <2>4 DEF Child
<1>4. CASE UNCHANGED vars
  BY <1>4 DEF vars
<1> QED BY <1>1, <1>2, <1>3, <1>4 DEF Next

\* What is said of each child is kept.
LEMMA ChildStep ==
  ASSUME FarmInv, [Next]_vars
  PROVE  \A v \in Workers : ChildOK(v)'
<1> USE FarmAssumption DEF TypeOK, ChildOK, MainInv, SpawnPCs, ClosePCs, HoldPCs, Terminal, Alive,
                           farm, main, signals, children, pipes, Goto, MainAt, ChildAt
<1> SUFFICES ASSUME NEW v \in Workers PROVE ChildOK(v)'
  OBVIOUS
<1>0. TypeOK /\ SpawnInv /\ MainInv /\ ChildOK(v) /\ (mpc \in ClosePCs => Resting(v))
  BY DEF FarmInv, ChildInv, CloseInv
<1>1. CASE Main
  <2>1. CASE Fork
    BY <1>0, <2>1 DEF Fork, SpawnInv
  <2>2. CASE StoreWorker
    BY <1>0, <2>2 DEF StoreWorker, SpawnInv
  <2>3. CASE StoreFlag
    BY <1>0, <2>3 DEF StoreFlag
  <2>4. CASE AllSpawned
    BY <1>0, <2>4 DEF AllSpawned
  <2>5. CASE ReadNumber
    BY <1>0, <2>5 DEF ReadNumber
  <2>6. CASE EndOfInput
    BY <1>0, <2>6 DEF EndOfInput
  <2>7. CASE BadLine
    BY <1>0, <2>7 DEF BadLine
  <2>8. CASE BlockForWorker
    BY <1>0, <2>8 DEF BlockForWorker
  <2>9. CASE CheckWorker
    BY <1>0, <2>9 DEF CheckWorker
  <2>10. CASE Suspend
    BY <1>0, <2>10 DEF Suspend
  <2>11. CASE Scan
    BY <1>0, <2>11 DEF Scan
  <2>12. CASE AssignWorker
    BY <1>0, <2>12 DEF AssignWorker
  <2>13. CASE WriteNumber
    BY <1>0, <2>13 DEF WriteNumber
  <2>14. CASE ContinueWorker
    BY <1>0, <2>14 DEF ContinueWorker, Continue
  <2>15. CASE BlockForAll
    BY <1>0, <2>15 DEF BlockForAll
  <2>16. CASE CheckAll
    BY <1>0, <2>16 DEF CheckAll
  <2>17. CASE ClosePipe
    BY <1>0, <2>17 DEF ClosePipe, Resting, HandedOver
  <2>18. CASE ContinueClosed
    BY <1>0, <2>18 DEF ContinueClosed, Continue
  <2>19. CASE Return
    BY <1>0, <2>19 DEF Return
  <2> QED BY <1>1, <2>1, <2>2, <2>3, <2>4, <2>5, <2>6, <2>7, <2>8, <2>9, <2>10,
              <2>11, <2>12, <2>13, <2>14, <2>15, <2>16, <2>17, <2>18, <2>19 DEF Main
<1>2. CASE Handler
  <2>1. CASE Deliver
    BY <1>0, <2>1 DEF Deliver
  <2>2. CASE HandlerReturns
    BY <1>0, <2>2 DEF HandlerReturns
  <2>3. ASSUME NEW w \in Workers, Reap(w) PROVE ChildOK(v)'
    <3>1. ReapAborts(w) \/ ReapMarks(w) \/ ReapNotes(w)
      BY <2>3, <1>0, ReapOutcomes
    <3>2. event' = [event EXCEPT ![w] = "none"]
          /\ UNCHANGED <<known, i, proc, num, pipe, closed>>
      BY <2>3 DEF Reap
    <3>3. ~ReapAborts(w) => mpc' = mpc
      BY <3>1 DEF ReapMarks, ReapNotes
    <3>4. CASE ReapAborts(w)
      <4>1. mpc \in SpawnPCs
        BY <3>4, <2>3, AbortRaces
      <4>2. ~closed[v] /\ mpc # "continue"
        BY <1>0, <4>1
      <4> QED BY <1>0, <3>2, <3>4, <4>1, <4>2
    <3> QED BY <1>0, <3>2, <3>3, <3>4
  <2> QED BY <1>2, <2>1, <2>2, <2>3 DEF Handler
<1>3. ASSUME NEW w \in Workers, Child(w) PROVE ChildOK(v)'
  <2>1. CASE Halt(w)
    BY <1>0, <2>1 DEF Halt
  <2>2. CASE ReadPipe(w)
    <3>1. pipe[w] # <<>> /\ proc[w] = "reading"
      BY <2>2 DEF ReadPipe
    <3>2. CASE v # w
      BY <1>0, <2>2, <3>2 DEF ReadPipe
    <3>3. CASE v = w
      <4>1. PICK n \in Numbers : pipe[w] = <<n>>
        BY <1>0, <3>1, <3>3
      <4>2. Head(pipe[w]) = n /\ Tail(pipe[w]) = <<>> /\ n # NoNumber
        BY <4>1 DEF Numbers, NoNumber
      <4> QED BY <1>0, <2>2, <3>3, <4>2 DEF ReadPipe
    <3> QED BY <3>2, <3>3
  <2>3. CASE PrintFactors(w)
    BY <1>0, <2>3 DEF PrintFactors
  <2>4. CASE ExitOnEOF(w)
    BY <1>0, <2>4 DEF ExitOnEOF
  <2> QED BY <1>3, <2>1, <2>2, <2>3, <2>4 DEF Child
<1>4. CASE UNCHANGED vars
  BY <1>0, <1>4 DEF vars
<1> QED BY <1>1, <1>2, <1>3, <1>4 DEF Next

\* What is said of main() is kept.
LEMMA MainStep ==
  ASSUME FarmInv, [Next]_vars
  PROVE  MainInv'
<1> USE FarmAssumption DEF FarmInv, TypeOK, SpawnInv, MainInv, SpawnPCs, ClosePCs, HoldPCs,
                           MainPCs, Terminal, Alive, farm, main, signals, children, pipes, Goto,
                           MainAt, ChildAt
<1>1. CASE Main
  <2>1. CASE Fork
    BY <2>1 DEF Fork
  <2>2. CASE StoreWorker
    BY <2>2 DEF StoreWorker
  <2>3. CASE StoreFlag
    BY <2>3 DEF StoreFlag
  <2>4. CASE AllSpawned
    BY <2>4 DEF AllSpawned
  <2>5. CASE ReadNumber
    BY <2>5 DEF ReadNumber, NoNumber
  <2>6. CASE EndOfInput
    BY <2>6 DEF EndOfInput
  <2>7. CASE BadLine
    BY <2>7 DEF BadLine
  <2>8. CASE BlockForWorker
    BY <2>8 DEF BlockForWorker
  <2>9. CASE CheckWorker
    BY <2>9 DEF CheckWorker
  <2>10. CASE Suspend
    BY <2>10 DEF Suspend
  <2>11. CASE Scan
    BY <2>11 DEF Scan
  <2>12. CASE AssignWorker
    <3>1. i \in RestSet /\ available[i] /\ numAvailable > 0 /\ mpc' = "write"
      BY <2>12, AssignSafe DEF AssignWorker
    <3>2. proc[i] = "stopped" /\ event[i] = "none" /\ pipe[i] = <<>> /\ i \in Workers
      BY <2>12, <3>1 DEF RestSet, Resting, AssignWorker, ChildInv, ChildOK
    <3> QED BY <2>12, <3>1, <3>2 DEF AssignWorker
  <2>13. CASE WriteNumber
    <3>1. line \in Numbers /\ pipe[i] = <<>> /\ i \in Workers
      BY <2>13 DEF WriteNumber, NoNumber
    <3>2. pipe'[i] = Append(<<>>, line)
      BY <2>13, <3>1 DEF WriteNumber
    <3>3. pipe'[i] # <<>>
      BY <3>1, <3>2
    <3> QED BY <2>13, <3>1, <3>3 DEF WriteNumber
  <2>14. CASE ContinueWorker
    BY <2>14 DEF ContinueWorker
  <2>15. CASE BlockForAll
    BY <2>15 DEF BlockForAll
  <2>16. CASE CheckAll
    BY <2>16 DEF CheckAll
  <2>17. CASE ClosePipe
    BY <2>17 DEF ClosePipe
  <2>18. CASE ContinueClosed
    BY <2>18 DEF ContinueClosed
  <2>19. CASE Return
    BY <2>19 DEF Return
  <2> QED BY <1>1, <2>1, <2>2, <2>3, <2>4, <2>5, <2>6, <2>7, <2>8, <2>9, <2>10,
              <2>11, <2>12, <2>13, <2>14, <2>15, <2>16, <2>17, <2>18, <2>19 DEF Main
<1>2. CASE Handler
  <2>1. CASE Deliver
    BY <2>1 DEF Deliver
  <2>2. CASE HandlerReturns
    BY <2>2 DEF HandlerReturns
  <2>3. ASSUME NEW w \in Workers, Reap(w) PROVE MainInv'
    BY <2>3 DEF Reap
  <2> QED BY <1>2, <2>1, <2>2, <2>3 DEF Handler
<1>3. ASSUME NEW w \in Workers, Child(w) PROVE MainInv'
  <2>1. CASE Halt(w)
    BY <2>1 DEF Halt
  <2>2. CASE ReadPipe(w)
    BY <2>2 DEF ReadPipe
  <2>3. CASE PrintFactors(w)
    BY <2>3 DEF PrintFactors
  <2>4. CASE ExitOnEOF(w)
    BY <2>4 DEF ExitOnEOF
  <2> QED BY <1>3, <2>1, <2>2, <2>3, <2>4 DEF Child
<1>4. CASE UNCHANGED vars
  BY <1>4 DEF vars
<1> QED BY <1>1, <1>2, <1>3, <1>4 DEF Next

\* Only assignWorkerToTask() and the report of a halt change who is resting.
LEMMA RestSame ==
  ASSUME FarmInv, ~AssignWorker, \A w \in Workers : Reap(w) => event[w] # "stop", [Next]_vars
  PROVE  \A v \in Workers : Resting(v)' <=> Resting(v)
<1> USE FarmAssumption DEF Resting, HandedOver, TypeOK, ChildOK, MainInv, ClosePCs, Terminal,
                           Alive, farm, main, signals, children, pipes, Goto, MainAt, ChildAt
<1> SUFFICES ASSUME NEW v \in Workers PROVE Resting(v)' <=> Resting(v)
  OBVIOUS
<1>0. TypeOK /\ SpawnInv /\ MainInv /\ ChildOK(v) /\ (mpc \in ClosePCs => Resting(v))
  BY DEF FarmInv, ChildInv, CloseInv
<1>1. CASE Main
  <2>1. CASE Fork
    BY <1>0, <2>1 DEF Fork, SpawnInv
  <2>2. CASE StoreWorker
    BY <1>0, <2>2 DEF StoreWorker
  <2>3. CASE StoreFlag
    BY <1>0, <2>3 DEF StoreFlag
  <2>4. CASE AllSpawned
    BY <1>0, <2>4 DEF AllSpawned
  <2>5. CASE ReadNumber
    BY <1>0, <2>5 DEF ReadNumber
  <2>6. CASE EndOfInput
    BY <1>0, <2>6 DEF EndOfInput
  <2>7. CASE BadLine
    BY <1>0, <2>7 DEF BadLine
  <2>8. CASE BlockForWorker
    BY <1>0, <2>8 DEF BlockForWorker
  <2>9. CASE CheckWorker
    BY <1>0, <2>9 DEF CheckWorker
  <2>10. CASE Suspend
    BY <1>0, <2>10 DEF Suspend
  <2>11. CASE Scan
    BY <1>0, <2>11 DEF Scan
  <2>12. CASE AssignWorker
    BY <1>0, <2>12 DEF AssignWorker
  <2>13. CASE WriteNumber
    BY <1>0, <2>13 DEF WriteNumber
  <2>14. CASE ContinueWorker
    BY <1>0, <2>14 DEF ContinueWorker, Continue
  <2>15. CASE BlockForAll
    BY <1>0, <2>15 DEF BlockForAll
  <2>16. CASE CheckAll
    BY <1>0, <2>16 DEF CheckAll
  <2>17. CASE ClosePipe
    BY <1>0, <2>17 DEF ClosePipe
  <2>18. CASE ContinueClosed
    BY <1>0, <2>18 DEF ContinueClosed, Continue
  <2>19. CASE Return
    BY <1>0, <2>19 DEF Return
  <2> QED BY <1>1, <2>1, <2>2, <2>3, <2>4, <2>5, <2>6, <2>7, <2>8, <2>9, <2>10,
              <2>11, <2>12, <2>13, <2>14, <2>15, <2>16, <2>17, <2>18, <2>19 DEF Main
<1>2. CASE Handler
  <2>1. CASE Deliver
    BY <1>0, <2>1 DEF Deliver
  <2>2. CASE HandlerReturns
    BY <1>0, <2>2 DEF HandlerReturns
  <2>3. ASSUME NEW w \in Workers, Reap(w) PROVE Resting(v)' <=> Resting(v)
    <3>1. event[w] # "stop" /\ event[w] # "none"
      BY <2>3 DEF Reap
    <3>2. ReapAborts(w) => mpc \in SpawnPCs
      BY <2>3, AbortRaces
    <3>3. mpc' = mpc \/ (mpc' = "aborted" /\ mpc \in SpawnPCs)
      BY <1>0, <2>3, <3>2, ReapOutcomes DEF ReapAborts, ReapMarks, ReapNotes
    <3> QED BY <1>0, <2>3, <3>1, <3>3 DEF Reap, SpawnPCs
  <2> QED BY <1>2, <2>1, <2>2, <2>3 DEF Handler
<1>3. ASSUME NEW w \in Workers, Child(w) PROVE Resting(v)' <=> Resting(v)
  <2>1. CASE Halt(w)
    BY <1>0, <2>1 DEF Halt
  <2>2. CASE ReadPipe(w)
    BY <1>0, <2>2 DEF ReadPipe
  <2>3. CASE PrintFactors(w)
    BY <1>0, <2>3 DEF PrintFactors
  <2>4. CASE ExitOnEOF(w)
    BY <1>0, <2>4 DEF ExitOnEOF
  <2> QED BY <1>3, <2>1, <2>2, <2>3, <2>4 DEF Child
<1>4. CASE UNCHANGED vars
  BY <1>0, <1>4 DEF vars
<1> QED BY <1>1, <1>2, <1>3, <1>4 DEF Next

\* The handler that reaps the stop of a child makes its worker rest.
LEMMA ReapRests ==
  ASSUME FarmInv, NEW w \in Workers, Reap(w), event[w] = "stop"
  PROVE  /\ ~Resting(w) /\ Resting(w)'
         /\ \A v \in Workers \ {w} : Resting(v)' <=> Resting(v)
         /\ ReapMarks(w) \/ (ReapAborts(w) /\ mpc \in SpawnPCs /\ Unrecorded(w) /\ w = i)
<1> USE DEF FarmInv, TypeOK, ChildInv, ChildOK, MainInv, Resting, HandedOver
<1>1. ReapMarks(w) \/ (ReapAborts(w) /\ mpc \in SpawnPCs /\ Unrecorded(w) /\ w = i)
  BY ReapOutcomes, AbortRaces DEF ReapNotes
<1>2. mpc' = mpc \/ (mpc' = "aborted" /\ mpc \in SpawnPCs)
  BY <1>1 DEF ReapMarks, ReapAborts
<1>3. event' = [event EXCEPT ![w] = "none"] /\ UNCHANGED <<i, proc, closed>>
  BY DEF Reap, pipes
<1>4. ~HandedOver(w) /\ ~HandedOver(w)'
  BY <1>2, <1>3 DEF SpawnPCs
<1>5. ~closed[w] /\ proc[w] = "stopped"
  OBVIOUS
<1>6. \A v \in Workers \ {w} : Resting(v)' <=> Resting(v)
  BY <1>2, <1>3 DEF SpawnPCs
<1> QED BY <1>1, <1>3, <1>4, <1>5, <1>6

\* Only the worker that gets a number ceases to rest.
LEMMA AssignUnrests ==
  ASSUME FarmInv, AssignWorker
  PROVE  /\ i \in Workers /\ Resting(i) /\ ~Resting(i)'
         /\ \A v \in Workers \ {i} : Resting(v)' <=> Resting(v)
         /\ mpc = "assign" /\ mpc' = "write" /\ i' = i /\ numAvailable' = numAvailable - 1
         /\ available' = [available EXCEPT ![i] = FALSE]
<1>1. /\ i \in Workers /\ Resting(i) /\ mpc = "assign" /\ mpc' = "write"
      /\ ~closed[i]
  BY AssignSafe DEF AssignWorker, Goto, MainAt, RestSet, FarmInv, ChildInv, ChildOK, ClosePCs
<1> QED BY <1>1 DEF AssignWorker, Resting, HandedOver, children, pipes

\* The counter counts the workers that rest.
LEMMA CountStep ==
  ASSUME FarmInv, [Next]_vars
  PROVE  CountInv'
<1> USE FarmAssumption
<1>fin. IsFiniteSet(RestSet) /\ Cardinality(RestSet) \in Nat
  BY FiniteRest DEF RestSet
<1>0. TypeOK /\ CountInv
  BY DEF FarmInv
<1>1. CASE AssignWorker
  <2>1. RestSet' = RestSet \ {i} /\ i \in RestSet
    BY <1>1, AssignUnrests DEF RestSet
  <2>2. Cardinality(RestSet') = Cardinality(RestSet) - 1
    BY <2>1, <1>fin, FS_RemoveElement
  <2> QED BY <1>0, <1>1, <2>2, <1>fin, AssignUnrests DEF CountInv
<1>2. ASSUME NEW w \in Workers, Reap(w), event[w] = "stop" PROVE CountInv'
  <2>1. RestSet' = RestSet \union {w} /\ w \notin RestSet
    BY <1>2, ReapRests DEF RestSet
  <2>2. Cardinality(RestSet') = Cardinality(RestSet) + 1
    BY <2>1, <1>fin, FS_AddElement
  <2> QED BY <1>0, <1>2, <2>2, <1>fin, ReapRests DEF CountInv, ReapMarks, ReapAborts
<1>3. CASE ~AssignWorker /\ \A w \in Workers : Reap(w) => event[w] # "stop"
  <2>1. RestSet' = RestSet
    BY <1>3, RestSame DEF RestSet
  <2>2. numAvailable' = numAvailable
    <3>1. ASSUME NEW w \in Workers, Reap(w) PROVE numAvailable' = numAvailable
      BY <3>1, <1>0, <1>3, ReapOutcomes DEF ReapAborts, ReapMarks, ReapNotes
    <3> QED BY <1>3, <3>1 DEF Next, Main, Fork, StoreWorker, StoreFlag, AllSpawned, ReadNumber,
         EndOfInput, BadLine, BlockForWorker, CheckWorker, Suspend, Scan, WriteNumber,
         ContinueWorker, BlockForAll, CheckAll, ClosePipe, ContinueClosed, Return, Handler,
         Deliver, HandlerReturns, Child, Halt, ReadPipe, PrintFactors, ExitOnEOF, farm, vars
  <2>3. mpc = "aborted" => mpc' = "aborted"
    <3> SUFFICES ASSUME mpc = "aborted" PROVE mpc' = mpc
      OBVIOUS
    <3>1. ~Alive
      BY DEF Alive, Terminal
    <3> QED BY <3>1 DEF Next, Main, Fork, StoreWorker, StoreFlag, AllSpawned, ReadNumber,
         EndOfInput, BadLine, BlockForWorker, CheckWorker, Suspend, Scan, AssignWorker,
         WriteNumber, ContinueWorker, BlockForAll, CheckAll, ClosePipe, ContinueClosed, Return,
         Handler, Deliver, HandlerReturns, Reap, Child, Halt, ReadPipe, PrintFactors, ExitOnEOF,
         Goto, MainAt, ChildAt, main, vars
  <2> QED BY <1>0, <2>1, <2>2, <2>3 DEF CountInv
<1> QED BY <1>1, <1>2, <1>3

\* Pipes are closed only when all workers rest and no number is left.
LEMMA CloseStep ==
  ASSUME FarmInv, [Next]_vars
  PROVE  CloseInv'
<1> USE FarmAssumption DEF ClosePCs
<1>0. TypeOK /\ CountInv /\ CloseInv
  BY DEF FarmInv
<1>1. CASE AssignWorker
  BY <1>1, AssignUnrests DEF CloseInv
<1>2. ASSUME NEW w \in Workers, Reap(w), event[w] = "stop" PROVE CloseInv'
  BY <1>2, <1>0, ReapRests DEF CloseInv, ReapMarks, ReapAborts
<1>3. CASE CheckAll
  <2> SUFFICES ASSUME mpc' = "close" PROVE \A w \in Workers : Resting(w)'
    BY <1>3 DEF CheckAll, CloseInv, MainAt
  <2>1. numAvailable >= NumCPUs
    BY <1>0, <1>3 DEF CheckAll, TypeOK
  <2>2. numAvailable = Cardinality(RestSet)
    BY <1>0, <1>3 DEF CheckAll, CountInv, MainAt
  <2>3. RestSet = Workers
    BY <2>1, <2>2, FiniteRest DEF RestSet
  <2>4. ~AssignWorker /\ \A w \in Workers : ~Reap(w)
    BY <1>3 DEF CheckAll, MainAt, AssignWorker, Goto, Reap
  <2> QED BY <2>3, <2>4, RestSame DEF RestSet
<1>4. CASE ~AssignWorker /\ ~CheckAll /\ \A w \in Workers : Reap(w) => event[w] # "stop"
  <2>1. \A v \in Workers : Resting(v)' <=> Resting(v)
    BY <1>4, RestSame
  <2>2. mpc' \in ClosePCs => mpc \in ClosePCs
    <3> USE DEF Goto, MainAt
    <3>1. ASSUME NEW w \in Workers, Reap(w) PROVE mpc' \in ClosePCs => mpc \in ClosePCs
      BY <3>1, <1>0, ReapOutcomes DEF ReapAborts, ReapMarks, ReapNotes
    <3> QED BY <1>4, <3>1 DEF Next, Main, Fork, StoreWorker, StoreFlag, AllSpawned, ReadNumber,
         EndOfInput, BadLine, BlockForWorker, CheckWorker, Suspend, Scan, WriteNumber,
         ContinueWorker, BlockForAll, ClosePipe, ContinueClosed, Return, Handler,
         Deliver, HandlerReturns, Child, Halt, ReadPipe, PrintFactors, ExitOnEOF, main, vars
  <2> QED BY <1>0, <2>1, <2>2 DEF CloseInv
<1> QED BY <1>1, <1>2, <1>3, <1>4

\* A flag that is up is over a resting worker; without a race each of those has one.
LEMMA FlagStep ==
  ASSUME FarmInv, [Next]_vars
  PROVE  \A v \in Workers : FlagOK(v)'
<1> USE FarmAssumption DEF Unrecorded, FlagOK, TypeOK, Terminal, Alive, farm, main, signals,
                           children, pipes, Goto, MainAt, ChildAt
<1> SUFFICES ASSUME NEW v \in Workers PROVE FlagOK(v)'
  OBVIOUS
<1>0. TypeOK /\ SpawnInv /\ MainInv /\ FlagOK(v)
  BY DEF FarmInv, AvailInv
<1>rest. ~AssignWorker /\ (\A w \in Workers : Reap(w) => event[w] # "stop")
           => (Resting(v)' <=> Resting(v))
  BY RestSame
<1>reap. \A w \in Workers : Reap(w) => handling
  BY DEF Reap
<1>1. CASE Main
  <2>1. CASE Fork
    BY <1>0, <1>rest, <1>reap, <2>1 DEF Fork, AssignWorker
  <2>2. CASE StoreWorker
    BY <1>0, <1>rest, <1>reap, <2>2 DEF StoreWorker, AssignWorker, SpawnInv
  <2>3. CASE StoreFlag
    BY <1>0, <1>rest, <1>reap, <2>3 DEF StoreFlag, AssignWorker
  <2>4. CASE AllSpawned
    BY <1>0, <1>rest, <1>reap, <2>4 DEF AllSpawned, AssignWorker
  <2>5. CASE ReadNumber
    BY <1>0, <1>rest, <1>reap, <2>5 DEF ReadNumber, AssignWorker
  <2>6. CASE EndOfInput
    BY <1>0, <1>rest, <1>reap, <2>6 DEF EndOfInput, AssignWorker
  <2>7. CASE BadLine
    BY <1>0, <1>rest, <1>reap, <2>7 DEF BadLine, AssignWorker
  <2>8. CASE BlockForWorker
    BY <1>0, <1>rest, <1>reap, <2>8 DEF BlockForWorker, AssignWorker
  <2>9. CASE CheckWorker
    BY <1>0, <1>rest, <1>reap, <2>9 DEF CheckWorker, AssignWorker
  <2>10. CASE Suspend
    BY <1>0, <1>rest, <1>reap, <2>10 DEF Suspend, AssignWorker
  <2>11. CASE Scan
    BY <1>0, <1>rest, <1>reap, <2>11 DEF Scan, AssignWorker
  <2>12. CASE AssignWorker
    <3>1. /\ i \in Workers /\ mpc = "assign" /\ mpc' = "write" /\ ~Resting(i)'
          /\ available' = [available EXCEPT ![i] = FALSE]
          /\ v # i => (Resting(v)' <=> Resting(v))
      BY <2>12, AssignUnrests
    <3>2. UNCHANGED <<known, raced, i>>
      BY <2>12 DEF AssignWorker
    <3> QED BY <1>0, <3>1, <3>2
  <2>13. CASE WriteNumber
    BY <1>0, <1>rest, <1>reap, <2>13 DEF WriteNumber, AssignWorker
  <2>14. CASE ContinueWorker
    BY <1>0, <1>rest, <1>reap, <2>14 DEF ContinueWorker, AssignWorker
  <2>15. CASE BlockForAll
    BY <1>0, <1>rest, <1>reap, <2>15 DEF BlockForAll, AssignWorker
  <2>16. CASE CheckAll
    BY <1>0, <1>rest, <1>reap, <2>16 DEF CheckAll, AssignWorker
  <2>17. CASE ClosePipe
    BY <1>0, <1>rest, <1>reap, <2>17 DEF ClosePipe, AssignWorker
  <2>18. CASE ContinueClosed
    BY <1>0, <1>rest, <1>reap, <2>18 DEF ContinueClosed, AssignWorker
  <2>19. CASE Return
    BY <1>0, <1>rest, <1>reap, <2>19 DEF Return, AssignWorker
  <2> QED BY <1>1, <2>1, <2>2, <2>3, <2>4, <2>5, <2>6, <2>7, <2>8, <2>9, <2>10,
              <2>11, <2>12, <2>13, <2>14, <2>15, <2>16, <2>17, <2>18, <2>19 DEF Main
<1>2. CASE Handler
  <2>1. CASE Deliver
    BY <1>0, <1>rest, <1>reap, <2>1 DEF Deliver, AssignWorker, Reap
  <2>2. CASE HandlerReturns
    BY <1>0, <1>rest, <1>reap, <2>2 DEF HandlerReturns, AssignWorker, Reap
  <2>3. ASSUME NEW w \in Workers, Reap(w) PROVE FlagOK(v)'
    <3>1. /\ raced' = (raced \/ Unrecorded(w)) /\ event[w] # "none"
          /\ known' = known /\ i' = i /\ ~AssignWorker
      BY <2>3 DEF Reap, AssignWorker
    <3>2. CASE event[w] = "stop"
      <4>1. /\ ~Resting(w) /\ Resting(w)' /\ (v # w => (Resting(v)' <=> Resting(v)))
            /\ ReapMarks(w) \/ (ReapAborts(w) /\ mpc \in SpawnPCs /\ Unrecorded(w) /\ w = i)
        BY <2>3, <3>2, ReapRests
      <4>2. CASE ReapMarks(w)
        BY <1>0, <3>1, <4>1, <4>2 DEF ReapMarks
      <4>3. CASE ReapAborts(w) /\ mpc \in SpawnPCs /\ Unrecorded(w) /\ w = i
        BY <1>0, <3>1, <4>1, <4>3 DEF ReapAborts, SpawnPCs, SpawnInv
      <4> QED BY <4>1, <4>2, <4>3
    <3>3. CASE event[w] # "stop"
      <4>1. Resting(v)' <=> Resting(v)
        <5>1. \A u \in Workers : Reap(u) => u = w
          BY <1>0, <2>3 DEF Reap
        <5> QED BY <1>rest, <3>1, <3>3, <5>1
      <4>2. ReapNotes(w) \/ (ReapAborts(w) /\ mpc \in SpawnPCs /\ Unrecorded(w) /\ w = i)
        BY <1>0, <2>3, <3>3, ReapOutcomes, AbortRaces DEF ReapMarks
      <4>3. CASE ReapNotes(w)
        BY <1>0, <3>1, <4>1, <4>3 DEF ReapNotes
      <4>4. CASE ReapAborts(w) /\ mpc \in SpawnPCs /\ Unrecorded(w) /\ w = i
        BY <1>0, <3>1, <3>3, <4>1, <4>4 DEF ReapAborts, SpawnPCs, SpawnInv
      <4> QED BY <4>2, <4>3, <4>4
    <3> QED BY <3>2, <3>3
  <2> QED BY <1>2, <2>1, <2>2, <2>3 DEF Handler
<1>3. ASSUME NEW w \in Workers, Child(w) PROVE FlagOK(v)'
  <2>1. CASE Halt(w)
    BY <1>0, <1>rest, <1>reap, <2>1 DEF Halt, AssignWorker, Reap
  <2>2. CASE ReadPipe(w)
    BY <1>0, <1>rest, <1>reap, <2>2 DEF ReadPipe, AssignWorker, Reap
  <2>3. CASE PrintFactors(w)
    BY <1>0, <1>rest, <1>reap, <2>3 DEF PrintFactors, AssignWorker, Reap
  <2>4. CASE ExitOnEOF(w)
    BY <1>0, <1>rest, <1>reap, <2>4 DEF ExitOnEOF, AssignWorker, Reap
  <2> QED BY <1>3, <2>1, <2>2, <2>3, <2>4 DEF Child
<1>4. CASE UNCHANGED vars
  BY <1>0, <1>rest, <1>4 DEF vars, Reap, AssignWorker
<1> QED BY <1>1, <1>2, <1>3, <1>4 DEF Next

\* Without a race the scan finds a flag that is up, and no assertion fails.
LEMMA ScanStep ==
  ASSUME FarmInv, [Next]_vars
  PROVE  ScanInv'
<1> USE FarmAssumption DEF ScanInv, AbortsOnlyInRace
<1>0. TypeOK /\ ScanInv /\ (mpc = "aborted" => ~Alive)
  BY DEF FarmInv, Alive, Terminal
<1>1. CASE CheckWorker
  <2> SUFFICES ASSUME mpc' = "scan", ~raced PROVE \E w \in Workers : available[w]
    BY <1>0, <1>1 DEF CheckWorker, farm, TypeOK, Workers, MainAt
  <2>1. numAvailable # 0 /\ numAvailable = Cardinality(RestSet)
    BY <1>1 DEF CheckWorker, MainAt, FarmInv, CountInv
  <2>2. RestSet # {}
    BY <2>1, FS_EmptySet
  <2> QED BY <2>2 DEF FarmInv, AvailInv, FlagOK, RestSet
<1>2. CASE Scan
  BY <1>0, <1>2 DEF Scan, MainAt, farm, TypeOK, Workers
<1>3. CASE AssignWorker
  BY <1>3, AssignUnrests
<1>4. ASSUME NEW w \in Workers, Reap(w) PROVE ScanInv'
  <2>1. /\ i' = i /\ raced' = (raced \/ Unrecorded(w)) /\ mpc # "aborted"
    BY <1>0, <1>4 DEF Reap
  <2>2. CASE ReapAborts(w)
    BY <1>4, <2>1, <2>2, AbortRaces DEF ReapAborts
  <2>3. CASE ReapMarks(w) \/ ReapNotes(w)
    BY <1>0, <2>1, <2>3 DEF ReapMarks, ReapNotes, TypeOK
  <2> QED BY <1>0, <1>4, <2>2, <2>3, ReapOutcomes
<1>5. CASE Next /\ ~CheckWorker /\ ~Scan /\ ~AssignWorker /\ \A w \in Workers : ~Reap(w)
  <2>1. mpc' # "aborted"
    BY <1>0, <1>5 DEF Next, Main, Fork, StoreWorker, StoreFlag, AllSpawned, ReadNumber,
                      EndOfInput, BadLine, BlockForWorker, Suspend, WriteNumber, ContinueWorker,
                      BlockForAll, CheckAll, ClosePipe, ContinueClosed, Return, Handler, Deliver,
                      HandlerReturns, Child, Halt, ReadPipe, PrintFactors, ExitOnEOF, main, Goto,
                      MainAt, ChildAt
  <2>2. mpc' = "scan" => mpc = "scan" /\ UNCHANGED <<i, available, raced>>
    BY <1>0, <1>5 DEF Next, Main, Fork, StoreWorker, StoreFlag, AllSpawned, ReadNumber,
                      EndOfInput, BadLine, BlockForWorker, Suspend, WriteNumber, ContinueWorker,
                      BlockForAll, CheckAll, ClosePipe, ContinueClosed, Return, Handler, Deliver,
                      HandlerReturns, Child, Halt, ReadPipe, PrintFactors, ExitOnEOF, main, Goto,
                      MainAt, ChildAt, farm
  <2> QED BY <1>0, <2>1, <2>2
<1>6. CASE UNCHANGED vars
  BY <1>0, <1>6 DEF vars, farm, main
<1> QED BY <1>1, <1>2, <1>3, <1>4, <1>5, <1>6

\* Pipes hold at most one number.
LEMMA Singletons ==
  ASSUME NEW m, NEW n
  PROVE  <<>> # <<n>> /\ (<<m>> = <<n>> <=> m = n)
OBVIOUS

\* A number is in one place, and the numbers to come are in none.
LEMMA OneStep ==
  ASSUME FarmInv, [Next]_vars
  PROVE  OneInv' /\ FreshInv'
<1> USE FarmAssumption
<1>0. TypeOK /\ MainInv /\ FreshInv /\ (\A w \in Workers : ChildOK(w)) /\ OneInv
  BY DEF FarmInv, ChildInv
<1>nat. /\ read \in Nat /\ line \in Nat /\ 1..read \subseteq Numbers /\ NoNumber = 0
        /\ Numbers \subseteq Nat /\ 0 \notin Numbers /\ printed \subseteq Numbers
  BY <1>0 DEF TypeOK, Numbers, NoNumber
<1>1. CASE UNCHANGED <<read, line, printed, num, pipe>>
  BY <1>0, <1>1 DEF OneInv, OneOK, FreshInv, Holds
<1>2. CASE ReadNumber
  <2>1. /\ line = NoNumber /\ read' = read + 1 /\ line' = read + 1
        /\ UNCHANGED <<num, printed, pipe>>
    BY <1>0, <1>2 DEF ReadNumber, Goto, MainAt, MainInv, HoldPCs, children, pipes
  <2>2. \A w, n : Holds(w, n)' <=> Holds(w, n)
    BY <2>1 DEF Holds
  <2>3. /\ \A n \in 1..(read + 1) : n \in 1..read \/ n = read + 1
        /\ \A n \in 1..read : n # read + 1 /\ n # 0
        /\ 1..read \subseteq 1..(read + 1) /\ \A n \in Numbers : n <= read => n <= read + 1
        /\ ~(read + 1 <= read) /\ read + 1 <= read + 1 /\ read + 1 \in Numbers
    BY <1>nat, <1>2 DEF ReadNumber, Numbers
  <2>4. FreshInv'
    BY <1>0, <2>1, <2>2, <2>3 DEF FreshInv
  <2>5. ASSUME NEW n \in 1..read PROVE OneOK(n)'
    BY <1>0, <1>nat, <2>1, <2>2, <2>3 DEF OneOK, OneInv
  <2>6. ASSUME NEW n, n = read + 1 PROVE OneOK(n)'
    <3>1. line' = n /\ n \notin printed'
      BY <1>0, <2>1, <2>3, <2>6 DEF FreshInv
    <3>2. \A w \in Workers : ~Holds(w, n)'
      BY <1>0, <2>2, <2>3, <2>6 DEF FreshInv
    <3> QED BY <3>1, <3>2 DEF OneOK
  <2>7. OneInv'
    BY <2>1, <2>3, <2>5, <2>6 DEF OneInv
  <2> QED BY <2>4, <2>7
<1>3. CASE WriteNumber
  <2>1. /\ i \in Workers /\ line \in Numbers /\ line' = NoNumber
        /\ pipe[i] = <<>> /\ num[i] = NoNumber
        /\ pipe' = [pipe EXCEPT ![i] = <<line>>]
        /\ UNCHANGED <<i, read, num, printed>>
    <3>1. i \in Workers /\ line \in Numbers /\ pipe[i] = <<>> /\ proc[i] = "stopped"
      BY <1>0, <1>3 DEF WriteNumber, Goto, MainAt, MainInv, HoldPCs, TypeOK
    <3>2. Append(pipe[i], line) = <<line>>
      BY <3>1
    <3> QED BY <1>0, <1>3, <3>1, <3>2 DEF WriteNumber, ChildOK, children
  <2>2. \A v \in Workers \ {i}, n \in Numbers : Holds(v, n)' <=> Holds(v, n)
    BY <1>0, <2>1 DEF Holds, TypeOK
  <2>5. \A n \in Numbers : ~Holds(i, n)
    BY <1>nat, <2>1, Singletons DEF Holds
  <2>6. \A n \in Numbers : Holds(i, n)' <=> n = line
    <3>1. pipe'[i] = <<line>> /\ num'[i] = NoNumber
      BY <1>0, <2>1 DEF TypeOK
    <3> QED BY <1>nat, <2>1, <3>1, Singletons DEF Holds
  <2>3. FreshInv'
    BY <1>0, <1>nat, <2>1, <2>2, <2>6 DEF FreshInv
  <2>4. ASSUME NEW n \in 1..read PROVE OneOK(n)'
    BY <1>0, <1>nat, <2>1, <2>2, <2>5, <2>6 DEF OneOK, OneInv
  <2> QED BY <2>1, <2>3, <2>4 DEF OneInv
<1>4. ASSUME NEW w \in Workers, ReadPipe(w) PROVE OneInv' /\ FreshInv'
  <2>1. PICK m \in Numbers : pipe[w] = <<m>>
    BY <1>0, <1>4 DEF ReadPipe, ChildOK
  <2>2. /\ num[w] = NoNumber /\ num' = [num EXCEPT ![w] = m]
        /\ pipe' = [pipe EXCEPT ![w] = <<>>]
        /\ UNCHANGED <<read, line, printed>>
    <3>1. Head(pipe[w]) = m /\ Tail(pipe[w]) = <<>>
      BY <2>1
    <3> QED BY <1>0, <1>4, <3>1 DEF ReadPipe, ChildAt, ChildOK, main
  <2>3. \A v \in Workers, n \in Numbers : Holds(v, n)' <=> Holds(v, n)
    <3>1. \A v \in Workers \ {w} : pipe'[v] = pipe[v] /\ num'[v] = num[v]
      BY <1>0, <2>2 DEF TypeOK
    <3>2. pipe'[w] = <<>> /\ num'[w] = m
      BY <1>0, <2>2 DEF TypeOK
    <3>3. \A n \in Numbers : Holds(w, n) <=> n = m
      BY <1>nat, <2>1, <2>2, Singletons DEF Holds
    <3>4. \A n \in Numbers : Holds(w, n)' <=> n = m
      BY <3>2, Singletons DEF Holds
    <3> QED BY <3>1, <3>3, <3>4 DEF Holds
  <2>4. FreshInv'
    BY <1>0, <1>nat, <2>2, <2>3 DEF FreshInv
  <2>5. ASSUME NEW n \in 1..read PROVE OneOK(n)'
    BY <1>0, <1>nat, <2>2, <2>3 DEF OneOK, OneInv
  <2> QED BY <2>2, <2>4, <2>5 DEF OneInv
<1>5. ASSUME NEW w \in Workers, PrintFactors(w) PROVE OneInv' /\ FreshInv'
  <2>1. /\ num[w] \in Numbers /\ num' = [num EXCEPT ![w] = NoNumber]
        /\ printed' = printed \union {num[w]} /\ pipe[w] = <<>>
        /\ UNCHANGED <<read, line, pipe>>
    BY <1>0, <1>5 DEF PrintFactors, ChildAt, ChildOK, main, pipes, MainInv, TypeOK
  <2>2. /\ \A v \in Workers \ {w}, n \in Numbers : Holds(v, n)' <=> Holds(v, n)
        /\ \A n \in Numbers : (Holds(w, n) <=> n = num[w]) /\ ~Holds(w, n)'
    BY <1>0, <1>nat, <2>1, Singletons DEF Holds, TypeOK
  <2>3. num[w] <= read /\ num[w] \in 1..read
    BY <1>0, <1>nat, <2>1, <2>2 DEF FreshInv, Numbers
  <2>4. FreshInv'
    BY <1>0, <1>nat, <2>1, <2>2, <2>3 DEF FreshInv
  <2>5. ASSUME NEW n \in 1..read PROVE OneOK(n)'
    BY <1>0, <1>nat, <2>1, <2>2 DEF OneOK, OneInv
  <2> QED BY <2>1, <2>4, <2>5 DEF OneInv
<1>6. CASE \/ Next /\ ~ReadNumber /\ ~WriteNumber
           \/ UNCHANGED vars
  <2>1. CASE \E w \in Workers : ReadPipe(w) \/ PrintFactors(w)
    BY <2>1, <1>4, <1>5
  <2>2. CASE \A w \in Workers : ~ReadPipe(w) /\ ~PrintFactors(w)
    <3>1. UNCHANGED <<read, line, printed, num, pipe>>
      BY <1>6, <2>2 DEF Next, Main, Fork, StoreWorker, StoreFlag, AllSpawned, EndOfInput, BadLine,
                        BlockForWorker, CheckWorker, Suspend, Scan, AssignWorker, ContinueWorker,
                        BlockForAll, CheckAll, ClosePipe, ContinueClosed, Return, Handler,
                        Deliver, HandlerReturns, Reap, Child, Halt, ExitOnEOF, main, children,
                        pipes, vars
    <3> QED BY <3>1, <1>1
  <2> QED BY <2>1, <2>2
<1> QED BY <1>2, <1>3, <1>6

\* All of it holds at the start.
LEMMA FarmInitial ==
  ASSUME Init
  PROVE  FarmInv
<1> USE FarmAssumption DEF Init
<1>1. TypeOK
  <2>1. /\ known \in [Workers -> BOOLEAN] /\ available \in [Workers -> BOOLEAN]
        /\ closed \in [Workers -> BOOLEAN] /\ raced \in BOOLEAN
        /\ blocked \in BOOLEAN /\ pending \in BOOLEAN /\ handling \in BOOLEAN
    OBVIOUS
  <2>2. numAvailable \in 0..NumCPUs /\ read \in 0..MaxNumbers /\ i \in 1..(NumCPUs + 1)
    OBVIOUS
  <2>3. /\ mpc \in MainPCs /\ proc \in [Workers -> ProcPCs]
        /\ event \in [Workers -> {"none", "stop", "exit"}]
    BY DEF MainPCs, ProcPCs
  <2>4. /\ line \in Numbers \union {NoNumber} /\ printed \subseteq Numbers
        /\ num \in [Workers -> Numbers \union {NoNumber}]
        /\ pipe \in [Workers -> Seq(Numbers)]
    OBVIOUS
  <2> QED BY <2>1, <2>2, <2>3, <2>4 DEF TypeOK
<1>2. SpawnInv /\ ChildInv /\ MainInv /\ CloseInv
  BY DEF SpawnInv, SpawnPCs, ChildInv, ChildOK, MainInv, HoldPCs, CloseInv, ClosePCs, Workers
<1>3. \A w \in Workers : ~Resting(w) /\ Unrecorded(w)
  BY DEF Resting, Unrecorded
<1>4. AvailInv /\ ScanInv
  BY <1>3 DEF AvailInv, FlagOK, ScanInv, AbortsOnlyInRace
<1>5. RestSet = {}
  BY <1>3 DEF RestSet
<1>6. CountInv
  BY <1>5, FS_EmptySet DEF CountInv
<1>7. OneInv /\ FreshInv
  BY Singletons DEF OneInv, FreshInv, Holds, NoNumber, Numbers
<1> QED BY <1>1, <1>2, <1>4, <1>6, <1>7 DEF FarmInv

\* The inductive invariant of the farm.
LEMMA FarmInvariant == Spec => []FarmInv
<1>1. FarmInv /\ [Next]_vars => FarmInv'
  <2> SUFFICES ASSUME FarmInv, [Next]_vars PROVE FarmInv'
    OBVIOUS
  <2>1. ChildInv' /\ AvailInv'
    BY ChildStep, FlagStep DEF ChildInv, AvailInv
  <2> QED BY <2>1, TypeStep, SpawnStep, MainStep, CloseStep, ScanStep, CountStep, OneStep
          DEF FarmInv
<1> QED BY <1>1, FarmInitial, PTL DEF Spec

\* The farm keeps its types; the counter stays within 0..workers.size().
THEOREM FarmTypeCorrect == Spec => []TypeOK
<1>1. FarmInv => TypeOK
  BY DEF FarmInv
<1> QED BY <1>1, FarmInvariant, PTL

\* Whatever the handler interrupts, and however many children halt at once, no assertion
\* of farm.cc (lines 71, 72, 83, 122, 135, 136) fails, except after a child has halted
\* before spawnAllWorkers() had stored its worker.
THEOREM AbortsCorrect == Spec => []AbortsOnlyInRace
<1>1. FarmInv => AbortsOnlyInRace
  BY DEF FarmInv, ScanInv
<1> QED BY <1>1, FarmInvariant, PTL

\* Without that race the counter that main() sleeps on is exactly the number of flags
\* that are set, at every step of main() and of the handler.
THEOREM CountCorrect == Spec => []CountExact
<1>1. FarmInv => CountExact
  <2> SUFFICES ASSUME FarmInv, ~raced
               PROVE  numAvailable = Cardinality({w \in Workers : ~Unrecorded(w) /\ available[w]})
    BY DEF CountExact
  <2>1. mpc # "aborted"
    BY DEF FarmInv, ScanInv, AbortsOnlyInRace
  <2>2. RestSet = {w \in Workers : ~Unrecorded(w) /\ available[w]}
    BY DEF FarmInv, AvailInv, FlagOK, RestSet
  <2> QED BY <2>1, <2>2 DEF FarmInv, CountInv
<1> QED BY <1>1, FarmInvariant, PTL

\* A number is only ever written to a child that stands halted, was reaped and has
\* nothing in its pipe.
THEOREM IdleCorrect == Spec => []OnlyIdleGetWork
<1>1. FarmInv => OnlyIdleGetWork
  <2> SUFFICES ASSUME FarmInv PROVE OnlyIdleGetWork
    OBVIOUS
  <2>1. ASSUME NEW w \in Workers, ~Unrecorded(w), available[w], ~closed[w] PROVE Idle(w)
    <3>1. Resting(w) /\ ChildOK(w)
      BY <2>1 DEF FarmInv, AvailInv, FlagOK, ChildInv
    <3>2. proc[w] = "stopped" /\ event[w] = "none"
      BY <2>1, <3>1 DEF Resting
    <3>3. ~(mpc = "continue" /\ i = w)
      BY <2>1 DEF FarmInv, MainInv
    <3> QED BY <3>1, <3>2, <3>3 DEF ChildOK, Idle
  <2>2. ASSUME mpc \in {"assign", "write"} PROVE Idle(i)
    <3>1. CASE mpc = "assign"
      <4>1. i \in Workers /\ available[i] /\ ~Unrecorded(i) /\ ~closed[i]
        BY <3>1 DEF FarmInv, MainInv, SpawnInv, SpawnPCs, Unrecorded, ChildInv, ChildOK, ClosePCs
      <4> QED BY <2>1, <4>1
    <3>2. CASE mpc = "write"
      BY <3>2 DEF FarmInv, MainInv, Idle
    <3> QED BY <2>2, <3>1, <3>2
  <2> QED BY <2>1, <2>2 DEF OnlyIdleGetWork
<1> QED BY <1>1, FarmInvariant, PTL

\* Where a number can be.
LEMMA PlacesMember ==
  ASSUME FarmInv, NEW n \in Numbers, NEW p
  PROVE  p \in Places(n) <=>
           \/ p = <<"main">> /\ line = n
           \/ \E w \in Workers : p = <<"pipe", w>> /\ pipe[w] = <<n>>
           \/ \E w \in Workers : p = <<"child", w>> /\ num[w] = n
           \/ p = <<"printed">> /\ n \in printed
<1>1. \A w \in Workers : (\E k \in DOMAIN pipe[w] : pipe[w][k] = n) <=> pipe[w] = <<n>>
  <2> SUFFICES ASSUME NEW w \in Workers
               PROVE  (\E k \in DOMAIN pipe[w] : pipe[w][k] = n) <=> pipe[w] = <<n>>
    OBVIOUS
  <2>1. CASE pipe[w] = <<>>
    BY <2>1, Singletons
  <2>2. ASSUME NEW m \in Numbers, pipe[w] = <<m>>
        PROVE  (\E k \in DOMAIN pipe[w] : pipe[w][k] = n) <=> pipe[w] = <<n>>
    <3>1. DOMAIN pipe[w] = {1} /\ pipe[w][1] = m
      BY <2>2
    <3> QED BY <2>2, <3>1, Singletons
  <2> QED BY <2>1, <2>2 DEF FarmInv, ChildInv, ChildOK
<1> QED BY <1>1 DEF Places

\* No number is lost and none is factored twice, and by the time the pipes are closed
\* every number that was read has been printed.
THEOREM NumbersCorrect == Spec => []EachNumberOnce
<1>1. FarmInv => EachNumberOnce
  <2> SUFFICES ASSUME FarmInv PROVE EachNumberOnce
    OBVIOUS
  <2>0. 1..read \subseteq Numbers /\ NoNumber \notin 1..read
    BY FarmAssumption DEF FarmInv, TypeOK, Numbers, NoNumber
  <2>1. ASSUME NEW n \in 1..read PROVE Cardinality(Places(n)) = 1
    <3> SUFFICES \E q : Places(n) = {q}
      BY FS_Singleton
    <3>1. OneOK(n) /\ n \in Numbers
      BY <2>0 DEF FarmInv, OneInv
    <3>2. CASE line = n /\ n \notin printed /\ \A w \in Workers : ~Holds(w, n)
      <4>1. Places(n) = {<<"main">>}
        BY <3>1, <3>2, PlacesMember DEF Holds
      <4> QED BY <4>1
    <3>3. CASE line # n /\ n \in printed /\ \A w \in Workers : ~Holds(w, n)
      <4>1. Places(n) = {<<"printed">>}
        BY <3>1, <3>3, PlacesMember DEF Holds
      <4> QED BY <4>1
    <3>4. ASSUME line # n, n \notin printed, NEW w \in Workers, Holds(w, n),
                 \A v \in Workers \ {w} : ~Holds(v, n)
          PROVE  \E q : Places(n) = {q}
      <4>1. CASE pipe[w] = <<n>>
        <5>1. num[w] # n
          BY <2>0, <4>1, Singletons DEF FarmInv, ChildInv, ChildOK, MainInv
        <5>2. Places(n) = {<<"pipe", w>>}
          BY <3>1, <3>4, <4>1, <5>1, PlacesMember DEF Holds
        <5> QED BY <5>2
      <4>2. CASE pipe[w] # <<n>>
        <5>1. num[w] = n
          BY <3>4, <4>2 DEF Holds
        <5>2. Places(n) = {<<"child", w>>}
          BY <3>1, <3>4, <4>2, <5>1, PlacesMember DEF Holds
        <5> QED BY <5>2
      <4> QED BY <4>1, <4>2
    <3> QED BY <3>1, <3>2, <3>3, <3>4 DEF OneOK
  <2>2. ASSUME mpc \in ClosePCs PROVE printed = 1..read
    <3>1. \A w \in Workers : pipe[w] = <<>> /\ num[w] = NoNumber
      <4> SUFFICES ASSUME NEW w \in Workers PROVE pipe[w] = <<>> /\ num[w] = NoNumber
        OBVIOUS
      <4> QED BY <2>2 DEF FarmInv, CloseInv, Resting, ChildInv, ChildOK, ClosePCs
    <3>2. line = NoNumber
      BY <2>2 DEF FarmInv, MainInv, ClosePCs, HoldPCs
    <3>3. \A n \in 1..read : n \in printed
      BY <2>0, <3>1, <3>2, Singletons DEF FarmInv, OneInv, OneOK, Holds
    <3> QED BY <3>3 DEF FarmInv, FreshInv
  <2> QED BY <2>1, <2>2 DEF EachNumberOnce, ClosePCs
<1> QED BY <1>1, FarmInvariant, PTL
=============================================================================
