-------------------------------- MODULE Farm --------------------------------
(***************************************************************************)
(* assign3/farm.cc: the farm forks one self-halting factor.py per CPU,     *)
(* gives each number it reads to a worker that has halted, and learns from *)
(* SIGCHLD and waitpid that a worker has halted again.                     *)
(*                                                                         *)
(* The handler markWorkersAsAvailable runs on the thread of main(), between*)
(* any two of its steps at which SIGCHLD is not blocked; main() does not   *)
(* move while it runs.  Only one SIGCHLD can be pending, and waitpid       *)
(* reports each change of state of a child at most once.                   *)
(***************************************************************************)
EXTENDS Integers, Sequences, FiniteSets

CONSTANTS
    NumCPUs,        \* kNumCPUs
    MaxNumbers      \* bound: lines of input that hold a number

ASSUME FarmAssumption == NumCPUs \in Nat /\ MaxNumbers \in Nat

Workers == 1..NumCPUs
Numbers == 1..MaxNumbers
NoNumber == 0

VARIABLES
    known,          \* workers[w].sp holds the child's pid
    available, numAvailable,    \* workers[w].available, numWorkersAvailable
    mpc, i, line,   \* main(): where it is, index in use, the number it has read
    read,           \* how many numbers main() has read
    blocked,        \* SIGCHLD is blocked
    pending,        \* SIGCHLD is pending
    handling,       \* the handler is running
    proc, num,      \* the children: where each is, the number it works on
    event,          \* the change of state that waitpid has not reported
    pipe, closed,   \* the pipe to each child, and whether the farm closed it
    printed,        \* the numbers whose factorization was printed
    raced           \* history: a child was reaped before its worker was stored

farm     == <<known, available, numAvailable, raced>>
main     == <<mpc, i, line, read>>
signals  == <<blocked, pending, handling>>
children == <<proc, num, event, printed>>
pipes    == <<pipe, closed>>
vars     == <<farm, main, signals, children, pipes>>

Terminal == {"returned", "aborted", "threw"}
MainPCs  == Terminal \union
    {"fork", "store", "storeFlag", "read", "block", "check", "enter", "suspend",
     "scan", "assign", "write", "continue", "blockAll", "checkAll", "enterAll",
     "suspendAll", "close", "closeContinue"}
ProcPCs  == {"none", "halting", "stopped", "reading", "factoring", "exited"}

\* workers is a vector whose elements' constructor leaves available undefined.
Init ==
    /\ known = [w \in Workers |-> FALSE]
    /\ available \in [Workers -> BOOLEAN] /\ numAvailable = 0 /\ raced = FALSE
    /\ mpc = "fork" /\ i = 1 /\ line = NoNumber /\ read = 0
    /\ blocked = FALSE /\ pending = FALSE /\ handling = FALSE
    /\ proc = [w \in Workers |-> "none"] /\ num = [w \in Workers |-> NoNumber]
    /\ event = [w \in Workers |-> "none"] /\ printed = {}
    /\ pipe = [w \in Workers |-> <<>>] /\ closed = [w \in Workers |-> FALSE]

Alive == mpc \notin Terminal
MainAt(pc) == Alive /\ ~handling /\ mpc = pc
Goto(from, to) == MainAt(from) /\ mpc' = to
ChildAt(w, pc) == Alive /\ proc[w] = pc

-----------------------------------------------------------------------------
(* Mutations: definitions of this module with a bug, used by no            *)
(* specification.                                                          *)

\* getAvailableWorker() does not block SIGCHLD before it looks at the counter.
BlockForWorker_Unblocked ==
    /\ Goto("block", "check")
    /\ UNCHANGED <<farm, i, line, read, signals, children, pipes>>

\* assignWorkerToTask() forgets the counter, or the flag.
AssignWorker_NoCount ==
    /\ Goto("assign", IF available[i] /\ numAvailable > 0 THEN "write" ELSE "aborted")
    /\ available' = [available EXCEPT ![i] = FALSE]
    /\ UNCHANGED <<known, numAvailable, raced, i, line, read, signals, children, pipes>>

AssignWorker_NoFlag ==
    /\ Goto("assign", IF available[i] /\ numAvailable > 0 THEN "write" ELSE "aborted")
    /\ numAvailable' = numAvailable - 1
    /\ UNCHANGED <<known, available, raced, i, line, read, signals, children, pipes>>

\* writeStringToFileDescriptor() does not count what it has written.
WriteNumber_Twice ==
    /\ Goto("write", "continue")
    /\ pipe' = [pipe EXCEPT ![i] = @ \o <<line, line>>]
    /\ line' = NoNumber
    /\ UNCHANGED <<farm, i, read, signals, children, closed>>

-----------------------------------------------------------------------------
(* spawnAllWorkers()                                                       *)

Fork ==
    /\ i \in Workers
    /\ Goto("fork", "store")
    /\ proc' = [proc EXCEPT ![i] = "halting"]
    /\ UNCHANGED <<farm, i, line, read, signals, num, event, printed, pipes>>

\* The assignment of a struct: the pid first ...
StoreWorker ==
    /\ Goto("store", "storeFlag")
    /\ known' = [known EXCEPT ![i] = TRUE]
    /\ UNCHANGED <<available, numAvailable, raced, i, line, read, signals, children,
                   pipes>>

\* ... and then the rest.
StoreFlag ==
    /\ Goto("storeFlag", "fork")
    /\ available' = [available EXCEPT ![i] = FALSE]
    /\ i' = i + 1
    /\ UNCHANGED <<known, numAvailable, raced, line, read, signals, children, pipes>>

AllSpawned ==
    /\ i > NumCPUs
    /\ Goto("fork", "read")
    /\ UNCHANGED <<farm, i, line, read, signals, children, pipes>>

-----------------------------------------------------------------------------
(* broadcastNumbersToWorkers()                                             *)

ReadNumber ==
    /\ read < MaxNumbers
    /\ Goto("read", "block")
    /\ read' = read + 1 /\ line' = read'
    /\ UNCHANGED <<farm, i, signals, children, pipes>>

\* End of file, or a number with something after it.
EndOfInput ==
    /\ Goto("read", "blockAll")
    /\ UNCHANGED <<farm, i, line, read, signals, children, pipes>>

\* stoll() throws for a line without a number, and nobody catches it.
BadLine ==
    /\ Goto("read", "threw")
    /\ UNCHANGED <<farm, i, line, read, signals, children, pipes>>

\* getAvailableWorker(): block, then suspend until there is a worker, unblock.
BlockForWorker ==
    /\ Goto("block", "check")
    /\ blocked' = TRUE
    /\ UNCHANGED <<farm, i, line, read, pending, handling, children, pipes>>

CheckWorker ==
    /\ MainAt("check")
    /\ IF numAvailable = 0
         THEN mpc' = "enter" /\ UNCHANGED <<i, blocked>>
         ELSE mpc' = "scan" /\ i' = 1 /\ blocked' = FALSE
    /\ UNCHANGED <<farm, line, read, pending, handling, children, pipes>>

\* sigsuspend: from here on a SIGCHLD can be delivered.
Suspend ==
    /\ Goto("enter", "suspend") \/ Goto("enterAll", "suspendAll")
    /\ UNCHANGED <<farm, i, line, read, signals, children, pipes>>

\* The scan, with SIGCHLD unblocked.  Past the end is assert(false).
Scan ==
    /\ MainAt("scan")
    /\ IF i \notin Workers THEN mpc' = "aborted" /\ UNCHANGED i
       ELSE IF available[i] THEN mpc' = "assign" /\ UNCHANGED i
       ELSE i' = i + 1 /\ UNCHANGED mpc
    /\ UNCHANGED <<farm, line, read, signals, children, pipes>>

\* assignWorkerToTask(), all of it with SIGCHLD blocked.
AssignWorker ==
    /\ Goto("assign", IF available[i] /\ numAvailable > 0 THEN "write" ELSE "aborted")
    /\ available' = [available EXCEPT ![i] = FALSE]
    /\ numAvailable' = numAvailable - 1
    /\ UNCHANGED <<known, raced, i, line, read, signals, children, pipes>>

WriteNumber ==
    /\ Goto("write", "continue")
    /\ pipe' = [pipe EXCEPT ![i] = Append(@, line)]
    /\ line' = NoNumber
    /\ UNCHANGED <<farm, i, read, signals, children, closed>>

\* kill(pid, SIGCONT): a stopped child goes on, an unreported stop is forgotten,
\* and the parent is sent SIGCHLD.
Continue(w) ==
    IF proc[w] = "stopped"
      THEN /\ proc' = [proc EXCEPT ![w] = "reading"]
           /\ event' = [event EXCEPT ![w] = "none"]
           /\ pending' = TRUE
      ELSE UNCHANGED <<proc, event, pending>>

ContinueWorker ==
    /\ Goto("continue", "read")
    /\ Continue(i)
    /\ UNCHANGED <<farm, i, line, read, blocked, handling, num, printed, pipes>>

-----------------------------------------------------------------------------
(* waitForAllWorkers() and closeAllWorkers()                               *)

BlockForAll ==
    /\ Goto("blockAll", "checkAll")
    /\ blocked' = TRUE
    /\ UNCHANGED <<farm, i, line, read, pending, handling, children, pipes>>

CheckAll ==
    /\ MainAt("checkAll")
    /\ IF numAvailable < NumCPUs
         THEN mpc' = "enterAll" /\ UNCHANGED <<i, blocked>>
         ELSE mpc' = "close" /\ i' = 1 /\ blocked' = FALSE
    /\ UNCHANGED <<farm, line, read, pending, handling, children, pipes>>

ClosePipe ==
    /\ i \in Workers
    /\ Goto("close", "closeContinue")
    /\ closed' = [closed EXCEPT ![i] = TRUE]
    /\ UNCHANGED <<farm, i, line, read, signals, children, pipe>>

ContinueClosed ==
    /\ Goto("closeContinue", "close")
    /\ Continue(i)
    /\ i' = i + 1
    /\ UNCHANGED <<farm, line, read, blocked, handling, num, printed, pipes>>

Return ==
    /\ i > NumCPUs
    /\ Goto("close", "returned")
    /\ UNCHANGED <<farm, i, line, read, signals, children, pipes>>

-----------------------------------------------------------------------------
(* markWorkersAsAvailable(), the handler of SIGCHLD.                       *)

Deliver ==
    /\ Alive /\ ~handling /\ pending
    /\ ~blocked \/ mpc \in {"suspend", "suspendAll"}
    /\ handling' = TRUE /\ pending' = FALSE
    /\ UNCHANGED <<farm, main, blocked, children, pipes>>

\* A child whose worker is not stored, or is stored half.
Unrecorded(w) == ~known[w] \/ (mpc = "storeFlag" /\ i = w)

\* waitpid reports child w; the assertions are those of lines 83, 71 and 72.
Reap(w) ==
    /\ Alive /\ handling
    /\ event[w] # "none" /\ event' = [event EXCEPT ![w] = "none"]
    /\ raced' = (raced \/ Unrecorded(w))
    /\ IF ~known[w] \/ (event[w] = "stop" /\ (available[w] \/ numAvailable >= NumCPUs))
         THEN mpc' = "aborted" /\ UNCHANGED <<available, numAvailable>>
       ELSE IF event[w] = "stop"
         THEN /\ available' = [available EXCEPT ![w] = TRUE]
              /\ numAvailable' = numAvailable + 1
              /\ UNCHANGED mpc
       ELSE UNCHANGED <<available, numAvailable, mpc>>
    /\ UNCHANGED <<known, i, line, read, signals, proc, num, printed, pipes>>

\* The handler returns, and so does the sigsuspend it interrupted.
HandlerReturns ==
    /\ Alive /\ handling /\ \A w \in Workers : event[w] = "none"
    /\ handling' = FALSE
    /\ mpc' = CASE mpc = "suspend"    -> "check"
                [] mpc = "suspendAll" -> "checkAll"
                [] OTHER              -> mpc
    /\ UNCHANGED <<farm, i, line, read, blocked, pending, children, pipes>>

-----------------------------------------------------------------------------
(* The children: factor.py --self-halting.                                 *)

Halt(w) ==
    /\ ChildAt(w, "halting") /\ proc' = [proc EXCEPT ![w] = "stopped"]
    /\ event' = [event EXCEPT ![w] = "stop"]
    /\ pending' = TRUE
    /\ UNCHANGED <<farm, main, blocked, handling, num, printed, pipes>>

ReadPipe(w) ==
    /\ ChildAt(w, "reading") /\ pipe[w] # <<>>
    /\ proc' = [proc EXCEPT ![w] = "factoring"]
    /\ num' = [num EXCEPT ![w] = Head(pipe[w])]
    /\ pipe' = [pipe EXCEPT ![w] = Tail(@)]
    /\ UNCHANGED <<farm, main, signals, event, printed, closed>>

PrintFactors(w) ==
    /\ ChildAt(w, "factoring") /\ proc' = [proc EXCEPT ![w] = "halting"]
    /\ printed' = printed \union {num[w]}
    /\ num' = [num EXCEPT ![w] = NoNumber]
    /\ UNCHANGED <<farm, main, signals, event, pipes>>

ExitOnEOF(w) ==
    /\ ChildAt(w, "reading") /\ pipe[w] = <<>> /\ closed[w]
    /\ proc' = [proc EXCEPT ![w] = "exited"]
    /\ event' = [event EXCEPT ![w] = "exit"]
    /\ pending' = TRUE
    /\ UNCHANGED <<farm, main, blocked, handling, num, printed, pipes>>

-----------------------------------------------------------------------------
Main ==
    \/ Fork \/ StoreWorker \/ StoreFlag \/ AllSpawned
    \/ ReadNumber \/ EndOfInput \/ BadLine
    \/ BlockForWorker \/ CheckWorker \/ Suspend \/ Scan \/ AssignWorker
    \/ WriteNumber \/ ContinueWorker
    \/ BlockForAll \/ CheckAll \/ ClosePipe \/ ContinueClosed \/ Return

Handler == Deliver \/ HandlerReturns \/ \E w \in Workers : Reap(w)

Child(w) == Halt(w) \/ ReadPipe(w) \/ PrintFactors(w) \/ ExitOnEOF(w)

Next == Main \/ Handler \/ \E w \in Workers : Child(w)

Spec == Init /\ [][Next]_vars

\* The kernel runs the farm and every child, and delivers a pending signal; the
\* factorization of a number ends.
FairSpec ==
    Spec /\ WF_vars(Main) /\ WF_vars(Handler) /\ \A w \in Workers : WF_vars(Child(w))

-----------------------------------------------------------------------------
\* The farm's bookkeeping, the children and the pipes keep their types; the
\* counter never leaves 0..workers.size() (the assertions at lines 72 and 136).
TypeOK ==
    /\ known \in [Workers -> BOOLEAN] /\ available \in [Workers -> BOOLEAN]
    /\ numAvailable \in 0..NumCPUs /\ raced \in BOOLEAN
    /\ mpc \in MainPCs /\ i \in 1..(NumCPUs + 1)
    /\ line \in Numbers \union {NoNumber} /\ read \in 0..MaxNumbers
    /\ blocked \in BOOLEAN /\ pending \in BOOLEAN /\ handling \in BOOLEAN
    /\ proc \in [Workers -> ProcPCs] /\ num \in [Workers -> Numbers \union {NoNumber}]
    /\ event \in [Workers -> {"none", "stop", "exit"}] /\ printed \subseteq Numbers
    /\ pipe \in [Workers -> Seq(Numbers)] /\ closed \in [Workers -> BOOLEAN]

\* No assertion of farm.cc fails (lines 71, 72, 83, 122, 135, 136), unless a
\* child halted before spawnAllWorkers() had stored its worker.
AbortsOnlyInRace == mpc = "aborted" => raced

\* The counter is the number of flags that are set, whatever the handler
\* interrupts (lines 73-74 against 137-138).
CountExact ==
    ~raced =>
        numAvailable = Cardinality({w \in Workers : ~Unrecorded(w) /\ available[w]})

Idle(w) == proc[w] = "stopped" /\ event[w] = "none" /\ pipe[w] = <<>>

\* A worker marked as available, or just assigned, has halted, was reaped and has
\* an empty pipe: no number is ever written to a worker that is still busy.
OnlyIdleGetWork ==
    /\ \A w \in Workers : ~Unrecorded(w) /\ available[w] /\ ~closed[w] => Idle(w)
    /\ mpc \in {"assign", "write"} => Idle(i)

\* Where a number is.
Places(n) ==
    {<<"main">> : x \in {y \in {line} : y = n}} \union
    {<<"pipe", w>> : w \in {v \in Workers : \E k \in DOMAIN pipe[v] : pipe[v][k] = n}} \union
    {<<"child", w>> : w \in {v \in Workers : num[v] = n}} \union
    {<<"printed">> : x \in {n} \intersect printed}

\* A number is with main(), in one pipe, with one child, or printed, and never in
\* two of these places: none is lost and none is factored twice.  When the pipes
\* are closed (line 166) all are printed: closing cannot cut a worker off.
EachNumberOnce ==
    /\ \A n \in 1..read : Cardinality(Places(n)) = 1
    /\ mpc \in {"close", "closeContinue", "returned"} => printed = 1..read

\* Every child that the handler reaps is one of the workers (the assertion at
\* line 83).
WorkerFound == handling => \A w \in Workers : event[w] # "none" => known[w]

\* main() ends: in particular it never sleeps in sigsuspend while a worker is
\* available, as the comment at line 109 fears.
FarmEnds == <>(mpc \in Terminal)
=============================================================================
