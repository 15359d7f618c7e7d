----------------------------- MODULE StshProofs -----------------------------
(***************************************************************************)
(* What the shell of Stsh keeps true, for any number of processes and of   *)
(* jobs.  One inductive invariant, ShellInv, carries all five properties:  *)
(* each of them relates the list to the children, and the list is only     *)
(* right while a job is being created because SIGCHLD is blocked then, so  *)
(* that none of the parts below survives a step without the others.        *)
(***************************************************************************)
EXTENDS Stsh, FiniteSetTheorems, WellFoundedInduction, TLAPS

Creating == mpc \in {"openInput", "block", "openOutput", "fork", "adopt"}

Free == {p \in Pids : proc[p] = "none"}

Listed(p) == \E j \in Nums : p \in Members(j)

Newborn(p) == mpc = "adopt" /\ p = child

-----------------------------------------------------------------------------
(* The inductive invariant                                                 *)

\* What waitpid has to say of p is what has become of p, and SIGCHLD says so.
ReportInv(p) ==
    /\ report[p] = "stopped" => proc[p] = "stopped"
    /\ report[p] = "exited" <=> proc[p] = "zombie"
    /\ report[p] = "continued" => proc[p] = "running" /\ p \in resumed
    /\ report[p] # "none" => pending \/ handling

\* What the list holds of p is right up to the report that is outstanding, and
\* a process is listed until it is reaped.
ListInv(p) ==
    /\ Listed(p) =>
          /\ proc[p] # "none" /\ state[p] # "waiting" /\ ~Newborn(p)
          /\ state[p] = "terminated" <=> proc[p] = "reaped"
          /\ report[p] = "none" /\ proc[p] # "reaped" => proc[p] = state[p]
    /\ ~Listed(p) => proc[p] \in {"none", "reaped"} \/ Newborn(p) \/ mpc = "exited"
    /\ Newborn(p) =>
          /\ proc[p] \notin {"none", "reaped"}
          /\ report[p] = "none" => proc[p] = "running"

\* The first process of a job names its group.  The shell put the others in it,
\* unless creating the job failed; the first one also puts itself there.
GroupInv(p) ==
    /\ \A j \in Nums : p \in Members(j) =>
          /\ j \notin failed => group[p] = Leader(j)
          /\ phase[p] = "setpgid" => Leader(j) = p
    /\ Newborn(p) /\ phase[p] \in {"setpgid", "tcsetpgrp"} => k = 1
    /\ phase[p] = "tcsetpgrp" => group[p] = p

\* A job is listed until all its processes have ended; only a job that is being
\* created, or that was given up, is without any.
JobInv(j) ==
    /\ ~jobs[j].listed => jobs[j] = NoJob
    /\ j >= next => jobs[j] = NoJob /\ j \notin failed
    /\ jobs[j].listed /\ Members(j) = {} =>
          j \in failed \/ (j = cur /\ Creating) \/ mpc = "exited"
    /\ Members(j) # {} => \E p \in Members(j) : state[p] # "terminated"

\* No process is in two jobs.
OneJobInv == \A i, j \in Nums : Members(i) \intersect Members(j) # {} => i = j

\* A job is in the foreground while the shell creates it or waits, and then the
\* list, or a report to come, says that one of its processes runs.
ForegroundInv(j) ==
    jobs[j].foreground /\ j \notin failed =>
        /\ \/ mpc \in {"wait", "suspend", "exited"}
           \/ j = cur /\ (Creating \/ mpc = "placed") /\ ~cmd.background
        /\ Members(j) # {} => \E p \in Members(j) : state[p] = "running" \/ report[p] # "none"

\* Where the shell is, and what it has blocked and created on its way there.
ControlInv ==
    /\ mpc \in {"openOutput", "fork", "adopt", "placed", "wait", "restore", "unblock"} =>
          blocked /\ ~handling
    /\ mpc = "suspend" => blocked /\ (~handling => HasForegroundJob)
    /\ mpc = "exited" => ~handling
    /\ Creating \/ mpc = "placed" =>
          /\ cur < next /\ cur \notin failed
          /\ jobs[cur].listed /\ jobs[cur].foreground = ~cmd.background
          /\ Len(jobs[cur].processes) = k - 1
    /\ mpc \in {"openInput", "block"} => k = 1
    /\ mpc \in {"openOutput", "fork", "adopt"} => k <= cmd.n
    /\ mpc = "placed" => k = cmd.n + 1
    /\ mpc \in {"wait", "suspend"} /\ cmd.stdin => ~cmd.background
    /\ mpc = "restore" => cmd.stdin /\ ~cmd.background

\* There is a process left to fork for every command that is still to start.
RoomInv ==
    /\ mpc \in {"openInput", "block", "openOutput", "fork"} =>
          cmd.n - k + 1 <= Cardinality(Free)
    /\ mpc = "adopt" => cmd.n - k <= Cardinality(Free)

\* A process of the last foreground job runs only while the job is in the
\* foreground, and one that can take the terminal is of that job: unless somebody
\* continued it.
AwakeInv(p) ==
    mpc # "exited" /\ proc[p] = "running" /\ p \notin resumed =>
        /\ cur \notin failed /\ ~cmd.background /\ p \in Members(cur) => jobs[cur].foreground
        /\ failed = {} /\ phase[p] \in {"setpgid", "tcsetpgrp"} =>
              cmd.stdin /\ ~cmd.background /\ (p \in Members(cur) \/ Newborn(p))

\* The terminal is with the shell except while a foreground job has it that
\* reads from it, and the shell knows whom to give it back to.
TerminalInv ==
    failed = {} =>
        /\ \/ terminal \in {Shell} \union resumed
           \/ /\ cmd.stdin /\ ~cmd.background
              /\ mpc \in {"openOutput", "fork", "adopt", "placed", "wait", "suspend",
                          "restore", "exited"}
        /\ cmd.stdin /\ ~cmd.background
           /\ mpc \in {"openOutput", "fork", "adopt", "placed", "wait", "suspend", "restore"} =>
              orig \in {Shell} \union resumed

\* The handler is started again and again only for a job without processes.
KeyInv ==
    key = "echoed" /\ mpc # "exited" =>
        HasForegroundJob /\ Members(ForegroundJob) = {}

ShellInv ==
    /\ TypeOK
    /\ \A p \in Pids : ReportInv(p) /\ ListInv(p) /\ GroupInv(p) /\ AwakeInv(p)
    /\ \A j \in Nums : JobInv(j) /\ ForegroundInv(j)
    /\ OneJobInv /\ ControlInv /\ RoomInv /\ TerminalInv /\ KeyInv
-----------------------------------------------------------------------------
(* The operators                                                           *)

\* A nonempty set of numbers of jobs, or of pids, has a least element.
LEMMA LeastExists ==
  ASSUME NEW N \in Nat, NEW S \in SUBSET (1..N), S # {}
  PROVE  \E m \in S : \A i \in 1..(m - 1) : i \notin S
<1>1. S \subseteq Nat
  OBVIOUS
<1>2. PICK m \in S : \A i \in S : ~(<<i, m>> \in OpToRel(<, Nat))
  BY <1>1, NatLessThanWellFounded, WFMin
<1>3. \A i \in S : ~(i < m)
  BY <1>1, <1>2 DEF OpToRel
<1> QED
  BY <1>1, <1>3

\* addProcess() adds the process, at the end, and leads the group if it is first.
LEMMA AppendMembers ==
  ASSUME NEW s \in Seq(Pids), NEW p \in Pids
  PROVE  /\ Append(s, p) \in Seq(Pids)
         /\ {Append(s, p)[x] : x \in DOMAIN Append(s, p)} = {s[x] : x \in DOMAIN s} \union {p}
         /\ Append(s, p) # <<>>
         /\ Len(Append(s, p)) = Len(s) + 1
         /\ Append(s, p)[1] = IF s = <<>> THEN p ELSE s[1]
<1>1. DOMAIN Append(s, p) = DOMAIN s \union {Len(s) + 1} /\ Len(s) + 1 \notin DOMAIN s
  OBVIOUS
<1>2. Append(s, p)[Len(s) + 1] = p /\ \A x \in DOMAIN s : Append(s, p)[x] = s[x]
  OBVIOUS
<1> QED
  BY <1>1, <1>2

\* What the list can tell of a job without processes, and of one with some.
LEMMA MembersFacts ==
  ASSUME TypeOK, NEW j \in Nums
  PROVE  /\ Members(j) \subseteq Pids
         /\ Members(j) = {} <=> jobs[j].processes = <<>>
         /\ Members(j) = {} <=> Leader(j) = Shell
         /\ Members(j) # {} => Leader(j) \in Members(j)
         /\ jobs[j] = NoJob => Members(j) = {} /\ ~jobs[j].foreground /\ ~jobs[j].listed
<1> DEFINE s == jobs[j].processes
<1>1. s \in Seq(Pids)
  BY DEF TypeOK
<1>2. DOMAIN s = 1..Len(s) /\ Len(s) \in Nat /\ (s = <<>> <=> Len(s) = 0)
  BY <1>1
<1>3. \A x \in DOMAIN s : s[x] \in Pids
  BY <1>1
<1>4. Shell \notin Pids
  BY DEF Shell, Pids
<1>5. Members(j) = {s[x] : x \in DOMAIN s}
  BY DEF Members
<1>6. s # <<>> => 1 \in DOMAIN s
  BY <1>2
<1>7. Leader(j) = IF s = <<>> THEN Shell ELSE s[1]
  BY DEF Leader
<1>8. s = <<>> => DOMAIN s = {}
  BY <1>2
<1>9. jobs[j] = NoJob => s = <<>> /\ ~jobs[j].foreground /\ ~jobs[j].listed
  BY DEF NoJob
<1> HIDE DEF s
<1> QED
  BY <1>3, <1>4, <1>5, <1>6, <1>7, <1>8, <1>9 DEF s

\* getForegroundJob() finds the first one, if there is one.
LEMMA ForegroundFound ==
  ASSUME HasForegroundJob
  PROVE  /\ ForegroundJob \in Nums /\ jobs[ForegroundJob].foreground
         /\ \A i \in 1..(ForegroundJob - 1) : ~jobs[i].foreground
<1> DEFINE S == {j \in Nums : jobs[j].foreground}
<1>1. \E m \in S : \A i \in 1..(m - 1) : i \notin S
  BY LeastExists, ShellAssumption DEF HasForegroundJob, Nums
<1>2. \E m \in Nums : jobs[m].foreground /\ \A i \in 1..(m - 1) : ~jobs[i].foreground
  BY <1>1, ShellAssumption DEF Nums
<1> QED
  BY <1>2 DEF ForegroundJob

\* The free pids can be counted.
LEMMA FreeFinite == IsFiniteSet(Free) /\ Cardinality(Free) \in Nat
<1>1. IsFiniteSet(Pids)
  BY FS_Interval, ShellAssumption DEF Pids
<1> QED
  BY <1>1, FS_Subset, FS_CardinalityType DEF Free

\* fork() has a pid to give, and takes it.
LEMMA ForkTakes ==
  ASSUME TypeOK, ControlInv, RoomInv, Fork
  PROVE  child' \in Free /\ Free' = Free \ {child'}
         /\ Cardinality(Free') = Cardinality(Free) - 1
<1>1. mpc = "fork" /\ 1 <= Cardinality(Free)
  BY FreeFinite DEF Fork, Goto, ControlInv, RoomInv, TypeOK, Commands
<1>2. Free # {}
  BY <1>1, FS_EmptySet
<1>3. \E m \in Free : \A i \in 1..(m - 1) : i \notin Free
  BY <1>2, LeastExists, ShellAssumption DEF Free, Pids
<1>4. \E p \in Pids : proc[p] = "none" /\ \A q \in 1..(p - 1) : proc[q] # "none"
  BY <1>3, ShellAssumption DEF Free, Pids
<1>5. child' \in Free
  BY <1>4 DEF Fork, Free
<1>6. Free' = Free \ {child'}
  BY <1>5 DEF Fork, Free, TypeOK
<1> QED
  BY <1>5, <1>6, FreeFinite, FS_RemoveElement
-----------------------------------------------------------------------------
(* Steps of the shell that touch neither the list nor the children         *)

ControlStep ==
    \/ OpenInput \/ BlockForJob \/ OpenOutput \/ PlaceJob \/ WaitForForeground
    \/ RestoreTerminal \/ Unblock \/ Quit
    \/ Deliver \/ HandlerReturns \/ TypeKey \/ SendToForeground \/ QuitSignal

\* What the operators say after a step that leaves the list alone.
LEMMA ListFrame ==
  ASSUME jobs' = jobs
  PROVE  /\ \A j \in Nums : Members(j)' = Members(j) /\ Leader(j)' = Leader(j)
         /\ \A p : Listed(p)' = Listed(p)
         /\ HasForegroundJob' = HasForegroundJob /\ ForegroundJob' = ForegroundJob
<1>1. \A j \in Nums : Members(j)' = Members(j) /\ Leader(j)' = Leader(j)
  BY DEF Members, Leader
<1>2. \A p : Listed(p)' = Listed(p)
  BY <1>1 DEF Listed
<1>3. HasForegroundJob' = HasForegroundJob
  BY DEF HasForegroundJob
<1>4. ForegroundJob' = ForegroundJob
  BY DEF ForegroundJob
<1> QED
  BY <1>1, <1>2, <1>3, <1>4

\* The shell goes on, sleeps, wakes up, or takes a signal.
LEMMA ControlKeeps ==
  ASSUME ShellInv, ControlStep
  PROVE  ShellInv'
<1>1. UNCHANGED <<jobs, next, state, proc, phase, group, report, resumed, cur, cmd, k, child>>
  BY DEF ControlStep, OpenInput, BlockForJob, OpenOutput, PlaceJob, WaitForForeground,
         RestoreTerminal, Unblock, Quit, Deliver, HandlerReturns, TypeKey, SendToForeground,
         QuitSignal, Goto, ThrowFrom, list, locals, signals, children, history
<1>2. TypeOK /\ ControlInv
  BY DEF ShellInv
<1>3. TypeOK'
  <2>1. mpc = "placed" => Leader(cur) \in Pids \union {Shell}
    BY <1>2, MembersFacts DEF TypeOK
  <2>2. terminal' \in Pids \union {Shell} /\ orig' \in Pids \union {Shell}
    BY <1>2, <2>1 DEF TypeOK, ControlStep, OpenInput, BlockForJob, OpenOutput, PlaceJob,
                      WaitForForeground, RestoreTerminal, Unblock, Quit, Deliver, HandlerReturns,
                      TypeKey, SendToForeground, QuitSignal, Goto, ThrowFrom, list, locals,
                      signals, children, history
  <2>3. failed' \subseteq Nums
    BY <1>2 DEF TypeOK, ControlStep, OpenInput, BlockForJob, OpenOutput, PlaceJob,
                WaitForForeground, RestoreTerminal, Unblock, Quit, Deliver, HandlerReturns,
                TypeKey, SendToForeground, QuitSignal, Goto, ThrowFrom, list, locals, signals,
                children, history
  <2>4. /\ mpc' \in {"prompt", "openInput", "block", "openOutput", "fork", "adopt", "placed",
                     "wait", "suspend", "restore", "unblock", "exited"}
        /\ key' \in {"none", "typed", "echoed"}
        /\ stdinOpen' \in BOOLEAN /\ blocked' \in BOOLEAN
        /\ pending' \in BOOLEAN /\ handling' \in BOOLEAN
    BY <1>2 DEF TypeOK, ControlStep, OpenInput, BlockForJob, OpenOutput, PlaceJob,
                WaitForForeground, RestoreTerminal, Unblock, Quit, Deliver, HandlerReturns,
                TypeKey, SendToForeground, QuitSignal, Goto, ThrowFrom, list, locals, signals,
                children, history
  <2> QED
    BY <1>1, <1>2, <2>2, <2>3, <2>4 DEF TypeOK
<1>4. /\ \A j \in Nums : Members(j)' = Members(j) /\ Leader(j)' = Leader(j)
      /\ \A p : Listed(p)' = Listed(p)
      /\ HasForegroundJob' = HasForegroundJob /\ ForegroundJob' = ForegroundJob
  BY <1>1, ListFrame
<1>5. Newborn(child)' <=> Newborn(child) /\ mpc' # "exited"
  BY <1>1, <1>2 DEF Newborn, ControlInv, ControlStep, OpenInput, BlockForJob, OpenOutput,
                    PlaceJob, WaitForForeground, RestoreTerminal, Unblock, Quit, Deliver,
                    HandlerReturns, TypeKey, SendToForeground, QuitSignal, Goto, ThrowFrom, list,
                    locals, signals, children, history
<1>6. \A p \in Pids : Newborn(p)' <=> Newborn(p) /\ mpc' # "exited"
  BY <1>1, <1>5 DEF Newborn
<1>7. ASSUME NEW p \in Pids
      PROVE  ReportInv(p)'
  <2>1. ReportInv(p)
    BY DEF ShellInv
  <2>2. report[p] # "none" /\ (pending \/ handling) => pending' \/ handling'
    BY <1>2 DEF TypeOK, ControlStep, OpenInput, BlockForJob, OpenOutput, PlaceJob,
                WaitForForeground, RestoreTerminal, Unblock, Quit, Deliver, HandlerReturns,
                TypeKey, SendToForeground, QuitSignal, Goto, ThrowFrom, list, locals, signals,
                children, history
  <2> QED
    BY <1>1, <2>1, <2>2 DEF ReportInv
<1>8. ASSUME NEW p \in Pids
      PROVE  ListInv(p)' /\ GroupInv(p)'
  <2>1. ListInv(p) /\ GroupInv(p)
    BY DEF ShellInv
  <2>2. mpc = "exited" => mpc' = "exited"
    BY <1>2 DEF ControlInv, ControlStep, OpenInput, BlockForJob, OpenOutput, PlaceJob,
                WaitForForeground, RestoreTerminal, Unblock, Quit, Deliver, HandlerReturns,
                TypeKey, SendToForeground, QuitSignal, Goto, ThrowFrom, list, locals, signals,
                children, history
  <2>3. failed \subseteq failed'
    BY DEF ControlStep, OpenInput, BlockForJob, OpenOutput, PlaceJob, WaitForForeground,
           RestoreTerminal, Unblock, Quit, Deliver, HandlerReturns, TypeKey, SendToForeground,
           QuitSignal, Goto, ThrowFrom, list, locals, signals, children, history
  <2>4. ListInv(p)'
    BY <1>1, <1>4, <1>6, <2>1, <2>2 DEF ListInv
  <2>5. GroupInv(p)'
    BY <1>1, <1>4, <1>6, <2>1, <2>3 DEF GroupInv
  <2> QED
    BY <2>4, <2>5
<1>9. ControlInv'
  BY <1>1, <1>2, <1>4 DEF TypeOK, Commands, ControlInv, Creating, ControlStep, OpenInput,
                          BlockForJob, OpenOutput, PlaceJob, WaitForForeground, RestoreTerminal,
                          Unblock, Quit, Deliver, HandlerReturns, TypeKey, SendToForeground,
                          QuitSignal, Goto, ThrowFrom, list, locals, signals, children, history
<1>10. ASSUME NEW j \in Nums
       PROVE  JobInv(j)'
  <2>1. JobInv(j)
    BY DEF ShellInv
  <2>2. failed \subseteq failed' /\ (j \in failed' => j \in failed \/ j < next)
    BY <1>2 DEF ControlInv, Creating, ControlStep, OpenInput, BlockForJob, OpenOutput, PlaceJob,
                WaitForForeground, RestoreTerminal, Unblock, Quit, Deliver, HandlerReturns,
                TypeKey, SendToForeground, QuitSignal, Goto, ThrowFrom, list, locals, signals,
                children, history
  <2>3. Creating /\ cur \notin failed' => Creating' \/ mpc' = "exited" \/ Members(cur) # {}
    <3>1. mpc = "adopt" => mpc' \in {"adopt", "exited"}
      BY <1>2 DEF ControlInv, ControlStep, OpenInput, BlockForJob, OpenOutput, PlaceJob,
                  WaitForForeground, RestoreTerminal, Unblock, Quit, Deliver, HandlerReturns,
                  TypeKey, SendToForeground, QuitSignal, Goto, ThrowFrom, list, locals, signals,
                  children, history
    <3> QED
      BY <1>2, <3>1 DEF Creating, ControlInv, ControlStep, OpenInput, BlockForJob, OpenOutput,
                        PlaceJob, WaitForForeground, RestoreTerminal, Unblock, Quit, Deliver,
                        HandlerReturns, TypeKey, SendToForeground, QuitSignal, Goto, ThrowFrom,
                        list, locals, signals, children, history
  <2>4. mpc = "exited" => mpc' = "exited"
    BY <1>2 DEF ControlInv, ControlStep, OpenInput, BlockForJob, OpenOutput, PlaceJob,
                WaitForForeground, RestoreTerminal, Unblock, Quit, Deliver, HandlerReturns,
                TypeKey, SendToForeground, QuitSignal, Goto, ThrowFrom, list, locals, signals,
                children, history
  <2>5. jobs[j].listed /\ Members(j) = {} =>
          j \in failed' \/ (j = cur /\ Creating') \/ mpc' = "exited"
    BY <2>1, <2>2, <2>3, <2>4 DEF JobInv
  <2>6. j >= next => jobs[j] = NoJob /\ j \notin failed'
    BY <1>2, <2>1, <2>2 DEF JobInv, TypeOK, Nums
  <2> QED
    BY <1>1, <1>4, <2>1, <2>5, <2>6 DEF JobInv
<1>11. ASSUME NEW j \in Nums
       PROVE  ForegroundInv(j)'
  <2>1. ForegroundInv(j)
    BY DEF ShellInv
  <2>2. failed \subseteq failed'
    BY DEF ControlStep, OpenInput, BlockForJob, OpenOutput, PlaceJob, WaitForForeground,
           RestoreTerminal, Unblock, Quit, Deliver, HandlerReturns, TypeKey, SendToForeground,
           QuitSignal, Goto, ThrowFrom, list, locals, signals, children, history
  <2>3. jobs[j].foreground /\ j \notin failed' =>
          \/ mpc' \in {"wait", "suspend", "exited"}
          \/ j = cur /\ (Creating' \/ mpc' = "placed") /\ ~cmd.background
    BY <1>2, <2>1, <2>2 DEF ForegroundInv, HasForegroundJob, Creating, ControlStep, OpenInput,
                            BlockForJob, OpenOutput, PlaceJob, WaitForForeground, RestoreTerminal,
                            Unblock, Quit, Deliver, HandlerReturns, TypeKey, SendToForeground,
                            QuitSignal, Goto, ThrowFrom, list, locals, signals, children, history
  <2> QED
    BY <1>1, <1>4, <2>1, <2>2, <2>3 DEF ForegroundInv
<1>12. ASSUME NEW p \in Pids
       PROVE  AwakeInv(p)'
  <2>1. AwakeInv(p)
    BY DEF ShellInv
  <2>2. failed \subseteq failed' /\ (mpc = "exited" => mpc' = "exited")
    BY <1>2 DEF ControlInv, ControlStep, OpenInput, BlockForJob, OpenOutput, PlaceJob,
                WaitForForeground, RestoreTerminal, Unblock, Quit, Deliver, HandlerReturns,
                TypeKey, SendToForeground, QuitSignal, Goto, ThrowFrom, list, locals, signals,
                children, history
  <2>3. cur \in Nums
    BY <1>2 DEF TypeOK
  <2> QED
    BY <1>1, <1>4, <1>6, <2>1, <2>2, <2>3 DEF AwakeInv
<1>13. OneJobInv'
  BY <1>4 DEF ShellInv, OneJobInv
<1>14. RoomInv'
  <2>1. Free' = Free /\ Cardinality(Free)' = Cardinality(Free)
    BY <1>1 DEF Free
  <2> QED
    BY <1>1, <1>2, <2>1 DEF ShellInv, RoomInv, ControlStep, OpenInput, BlockForJob, OpenOutput,
                            PlaceJob, WaitForForeground, RestoreTerminal, Unblock, Quit, Deliver,
                            HandlerReturns, TypeKey, SendToForeground, QuitSignal, Goto,
                            ThrowFrom, list, locals, signals, children, history
<1>15. TerminalInv'
  <2>1. TerminalInv
    BY DEF ShellInv
  <2>2. failed \subseteq failed'
    BY DEF ControlStep, OpenInput, BlockForJob, OpenOutput, PlaceJob, WaitForForeground,
           RestoreTerminal, Unblock, Quit, Deliver, HandlerReturns, TypeKey, SendToForeground,
           QuitSignal, Goto, ThrowFrom, list, locals, signals, children, history
  <2> QED
    BY <1>1, <1>2, <2>1, <2>2 DEF TerminalInv, ControlInv, ControlStep, OpenInput, BlockForJob,
                                  OpenOutput, PlaceJob, WaitForForeground, RestoreTerminal,
                                  Unblock, Quit, Deliver, HandlerReturns, TypeKey,
                                  SendToForeground, QuitSignal, Goto, ThrowFrom, list, locals,
                                  signals, children, history
<1>16. KeyInv'
  <2>1. KeyInv
    BY DEF ShellInv
  <2>2. HasForegroundJob /\ Leader(ForegroundJob) = Shell => Members(ForegroundJob) = {}
    BY <1>2, ForegroundFound, MembersFacts
  <2>3. Members(ForegroundJob)' = Members(ForegroundJob)
    BY <1>1 DEF Members, ForegroundJob
  <2>4. mpc = "exited" => mpc' = "exited"
    BY <1>2 DEF ControlInv, ControlStep, OpenInput, BlockForJob, OpenOutput, PlaceJob,
                WaitForForeground, RestoreTerminal, Unblock, Quit, Deliver, HandlerReturns,
                TypeKey, SendToForeground, QuitSignal, Goto, ThrowFrom, list, locals, signals,
                children, history
  <2> QED
    BY <1>4, <2>1, <2>2, <2>3, <2>4 DEF KeyInv, ControlStep, OpenInput, BlockForJob, OpenOutput,
                                        PlaceJob, WaitForForeground, RestoreTerminal, Unblock,
                                        Quit, Deliver, HandlerReturns, TypeKey, SendToForeground,
                                        QuitSignal, Goto, ThrowFrom, list, locals, signals,
                                        children, history
<1> QED
  BY <1>3, <1>7, <1>8, <1>9, <1>10, <1>11, <1>12, <1>13, <1>14, <1>15, <1>16 DEF ShellInv
-----------------------------------------------------------------------------
(* The children on their way to exec                                       *)

\* A child moves to its group, takes the terminal, or calls exec.
LEMMA ChildKeeps ==
  ASSUME ShellInv, NEW q \in Pids, SetOwnGroup(q) \/ TakeTerminal(q) \/ Exec(q)
  PROVE  ShellInv'
<1>1. /\ UNCHANGED <<jobs, next, state, proc, report, pending, handling, key, blocked, resumed,
                     failed, cur, cmd, k, child, orig, mpc>>
      /\ mpc # "exited" /\ proc[q] = "running"
  BY DEF SetOwnGroup, TakeTerminal, Exec, Runs, list, locals, signals, children, history
<1>2. TypeOK /\ ControlInv
  BY DEF ShellInv
<1>3. TypeOK'
  <2>1. phase' \in [Pids -> {"setpgid", "tcsetpgrp", "start", "exec"}]
    BY <1>2 DEF TypeOK, SetOwnGroup, TakeTerminal, Exec, Runs, list, locals, signals, children,
                history
  <2>2. group' \in [Pids -> Pids \union {Shell}] /\ terminal' \in Pids \union {Shell}
    BY <1>2 DEF TypeOK, SetOwnGroup, TakeTerminal, Exec, Runs, list, locals, signals, children,
                history
  <2>3. stdinOpen' \in BOOLEAN
    BY <1>2 DEF TypeOK, SetOwnGroup, TakeTerminal, Exec, Runs, list, locals, signals, children,
                history
  <2> QED
    BY <1>1, <1>2, <2>1, <2>2, <2>3 DEF TypeOK
<1>4. /\ \A j \in Nums : Members(j)' = Members(j) /\ Leader(j)' = Leader(j)
      /\ \A p : Listed(p)' = Listed(p)
      /\ HasForegroundJob' = HasForegroundJob /\ ForegroundJob' = ForegroundJob
  BY <1>1, ListFrame
<1>5. \A p \in Pids : Newborn(p)' <=> Newborn(p)
  BY <1>1 DEF Newborn
<1>6. Creating' <=> Creating
  BY <1>1 DEF Creating
<1>7. ASSUME NEW p \in Pids
      PROVE  ReportInv(p)' /\ ListInv(p)'
  <2>1. ReportInv(p) /\ ListInv(p)
    BY DEF ShellInv
  <2> QED
    BY <1>1, <1>4, <1>5, <2>1 DEF ReportInv, ListInv
<1>8. \A p \in Pids : p # q => phase'[p] = phase[p] /\ group'[p] = group[p]
  BY <1>2 DEF TypeOK, SetOwnGroup, TakeTerminal, Exec, Runs, list, locals, signals, children,
              history
<1>9. \/ phase[q] = "setpgid" /\ phase'[q] = "tcsetpgrp" /\ group'[q] = q
      \/ phase[q] = "tcsetpgrp" /\ phase'[q] = "start" /\ group'[q] = group[q]
      \/ phase[q] = "start" /\ phase'[q] = "exec" /\ group'[q] = group[q]
  BY <1>2 DEF TypeOK, SetOwnGroup, TakeTerminal, Exec, Runs, list, locals, signals, children,
              history
<1>10. ASSUME NEW p \in Pids
       PROVE  GroupInv(p)' /\ AwakeInv(p)'
  <2>1. GroupInv(p) /\ AwakeInv(p) /\ cur \in Nums
    BY <1>2 DEF ShellInv, TypeOK
  <2>2. GroupInv(p)'
    BY <1>1, <1>4, <1>5, <1>8, <1>9, <2>1 DEF GroupInv
  <2>3. AwakeInv(p)'
    BY <1>1, <1>4, <1>5, <1>8, <1>9, <2>1 DEF AwakeInv
  <2> QED
    BY <2>2, <2>3
<1>11. ASSUME NEW j \in Nums
       PROVE  JobInv(j)' /\ ForegroundInv(j)'
  <2>1. JobInv(j) /\ ForegroundInv(j)
    BY DEF ShellInv
  <2> QED
    BY <1>1, <1>4, <1>6, <2>1 DEF JobInv, ForegroundInv
<1>12. OneJobInv' /\ ControlInv' /\ RoomInv'
  <2>1. Free' = Free /\ Cardinality(Free)' = Cardinality(Free)
    BY <1>1 DEF Free
  <2> QED
    BY <1>1, <1>4, <1>6, <2>1 DEF ShellInv, OneJobInv, ControlInv, RoomInv
<1>13. TerminalInv'
  <2>1. TerminalInv /\ AwakeInv(q) /\ GroupInv(q) /\ ForegroundInv(cur) /\ cur \in Nums
    BY <1>2 DEF ShellInv, TypeOK
  <2>2. CASE terminal' = terminal
    BY <1>1, <2>1, <2>2 DEF TerminalInv
  <2>3. CASE TakeTerminal(q) /\ failed = {} /\ q \notin resumed
    <3>1. cmd.stdin /\ ~cmd.background /\ (q \in Members(cur) \/ Newborn(q))
      BY <1>1, <2>1, <2>3 DEF AwakeInv, TakeTerminal, Runs
    <3>2. q \in Members(cur) => mpc \in {"wait", "suspend", "placed"} \/ Creating
      BY <1>1, <2>1, <2>3, <3>1 DEF AwakeInv, ForegroundInv
    <3>3. q \in Members(cur) => mpc \notin {"openInput", "block"}
      BY <1>2, MembersFacts DEF ControlInv, TypeOK, Creating
    <3> QED
      BY <1>1, <2>1, <3>1, <3>2, <3>3 DEF TerminalInv, Creating, Newborn
  <2>4. CASE TakeTerminal(q) /\ q \in resumed
    <3>1. terminal' \in {Shell} \union resumed'
      BY <1>1, <2>1, <2>4 DEF GroupInv, TakeTerminal, Runs
    <3> QED
      BY <1>1, <2>1, <3>1 DEF TerminalInv
  <2>5. CASE failed # {}
    BY <1>1, <2>5 DEF TerminalInv
  <2> QED
    BY <2>2, <2>3, <2>4, <2>5 DEF SetOwnGroup, Exec
<1>14. KeyInv'
  <2>1. Members(ForegroundJob)' = Members(ForegroundJob)
    BY <1>1 DEF Members, ForegroundJob
  <2> QED
    BY <1>1, <1>4, <2>1 DEF ShellInv, KeyInv
<1> QED
  BY <1>3, <1>7, <1>10, <1>11, <1>12, <1>13, <1>14 DEF ShellInv
-----------------------------------------------------------------------------
(* Steps that change what becomes of the children: their own, those of      *)
(* others, and the builtins that send signals                              *)

\* What can happen to p while the shell does not wait for it.
Stirred(p) ==
    \/ proc'[p] = proc[p] /\ report'[p] = report[p]
    \/ /\ proc[p] \in {"running", "stopped"}
       /\ proc'[p] = "zombie" /\ report'[p] = "exited" /\ pending'
    \/ /\ proc[p] = "running"
       /\ proc'[p] = "stopped" /\ report'[p] = "stopped" /\ pending'
    \/ /\ proc[p] = "stopped"
       /\ proc'[p] = "running" /\ report'[p] = "continued" /\ pending' /\ p \in resumed'

ChildrenStir ==
    /\ proc' \in [Pids -> {"none", "running", "stopped", "zombie", "reaped"}]
    /\ report' \in [Pids -> {"none", "stopped", "continued", "exited"}]
    /\ pending' \in BOOLEAN /\ (pending => pending')
    /\ resumed \subseteq resumed' /\ resumed' \subseteq Pids
    /\ \A p \in Pids : Stirred(p)
    /\ UNCHANGED <<next, state, phase, group, failed, cur, k, child, orig, stdinOpen, handling,
                   key, terminal>>

\* The shell stays where it is, or a builtin takes it from the prompt.
ShellStirs ==
    \/ UNCHANGED <<mpc, jobs, cmd, blocked>> /\ mpc # "exited"
    \/ /\ mpc = "prompt" /\ ~handling /\ key = "none"
       /\ mpc' \in {"prompt", "unblock", "wait"} /\ blocked' = TRUE
       /\ cmd' \in Commands /\ cmd'.background = cmd.background
       /\ cmd'.stdin => cmd' = cmd
       /\ mpc' = "wait" => ~cmd'.stdin
       /\ jobs' \in [Nums -> [listed : BOOLEAN, foreground : BOOLEAN, processes : Seq(Pids)]]
       /\ \A j \in Nums : /\ jobs'[j].processes = jobs[j].processes
                          /\ jobs'[j].listed = jobs[j].listed
                          /\ ~jobs[j].listed => jobs'[j] = jobs[j]

\* Whatever becomes of the children, the list is right up to the reports.
LEMMA StirKeeps ==
  ASSUME ShellInv, ChildrenStir, ShellStirs, \A j \in Nums : ForegroundInv(j)'
  PROVE  ShellInv'
<1>1. TypeOK /\ ControlInv
  BY DEF ShellInv
<1>2. TypeOK'
  BY <1>1 DEF TypeOK, ChildrenStir, ShellStirs
<1>3. /\ \A j \in Nums : Members(j)' = Members(j) /\ Leader(j)' = Leader(j)
      /\ \A j \in Nums : jobs'[j].listed = jobs[j].listed
      /\ \A j \in Nums : ~jobs[j].listed => jobs'[j] = jobs[j]
  BY DEF ShellStirs, Members, Leader
<1>4. \A p : Listed(p)' = Listed(p)
  BY <1>3 DEF Listed
<1>5. \A p \in Pids : Newborn(p)' <=> Newborn(p)
  BY DEF Newborn, ChildrenStir, ShellStirs
<1>6. Creating' <=> Creating
  BY DEF Creating, ShellStirs
<1>7. mpc # "exited" /\ mpc' # "exited"
  BY DEF ShellStirs
<1>8. ASSUME NEW p \in Pids
      PROVE  ReportInv(p)' /\ ListInv(p)' /\ GroupInv(p)'
  <2>1. ReportInv(p) /\ ListInv(p) /\ GroupInv(p) /\ Stirred(p)
    BY DEF ShellInv, ChildrenStir
  <2>2. ReportInv(p)'
    BY <2>1 DEF ReportInv, Stirred, ChildrenStir
  <2>3. ListInv(p)'
    BY <1>4, <1>5, <1>7, <2>1 DEF ListInv, Stirred, ChildrenStir
  <2>4. GroupInv(p)'
    BY <1>3, <1>5, <2>1 DEF GroupInv, ChildrenStir
  <2> QED
    BY <2>2, <2>3, <2>4
<1>9. ASSUME NEW p \in Pids
      PROVE  AwakeInv(p)'
  <2>1. AwakeInv(p) /\ Stirred(p) /\ ForegroundInv(cur) /\ cur \in Nums
    BY <1>1 DEF ShellInv, ChildrenStir, TypeOK
  <2>2. proc'[p] = "running" /\ p \notin resumed' => proc[p] = "running" /\ p \notin resumed
    BY <2>1 DEF Stirred, ChildrenStir
  <2>3. CASE UNCHANGED <<mpc, jobs, cmd, blocked>>
    BY <1>3, <1>5, <2>1, <2>2, <2>3 DEF AwakeInv, ChildrenStir
  <2>4. CASE mpc = "prompt"
    <3>1. ~Creating /\ ~Newborn(p) /\ ~Newborn(p)'
      BY <1>5, <2>4 DEF Creating, Newborn
    <3>2. ~(jobs[cur].foreground /\ cur \notin failed)
      BY <2>1, <2>4, <3>1 DEF ForegroundInv
    <3>3. cmd'.background = cmd.background /\ cur' = cur /\ failed' = failed /\ phase' = phase
      BY DEF ShellStirs, ChildrenStir
    <3> QED
      BY <1>3, <1>7, <2>1, <2>2, <3>1, <3>2, <3>3 DEF AwakeInv
  <2> QED
    BY <2>3, <2>4 DEF ShellStirs
<1>10. ASSUME NEW j \in Nums
       PROVE  JobInv(j)'
  <2>1. JobInv(j)
    BY DEF ShellInv
  <2>2. jobs[j] = NoJob => jobs'[j] = NoJob
    BY <1>3 DEF NoJob
  <2> QED
    BY <1>3, <1>6, <1>7, <2>1, <2>2 DEF JobInv, ChildrenStir
<1>11. OneJobInv'
  BY <1>3 DEF ShellInv, OneJobInv
<1>12. ControlInv'
  <2>1. UNCHANGED <<mpc, jobs, cmd, blocked>> => HasForegroundJob' = HasForegroundJob
    BY ListFrame
  <2> QED
    BY <1>1, <1>6, <1>7, <2>1 DEF ControlInv, ShellStirs, ChildrenStir, Creating
<1>13. RoomInv'
  <2>1. \A p \in Pids : proc'[p] = "none" <=> proc[p] = "none"
    BY DEF ChildrenStir, Stirred
  <2>2. Free' = Free /\ Cardinality(Free)' = Cardinality(Free)
    BY <2>1 DEF Free
  <2> QED
    BY <2>2 DEF ShellInv, RoomInv, ShellStirs, ChildrenStir
<1>14. TerminalInv'
  BY DEF ShellInv, TerminalInv, ShellStirs, ChildrenStir
<1>15. KeyInv'
  <2>1. KeyInv
    BY DEF ShellInv
  <2>2. jobs' = jobs => /\ HasForegroundJob' = HasForegroundJob
                        /\ Members(ForegroundJob)' = Members(ForegroundJob)
    BY DEF HasForegroundJob, Members, ForegroundJob
  <2> QED
    BY <2>1, <2>2 DEF KeyInv, ShellStirs, ChildrenStir
<1> QED
  BY <1>2, <1>8, <1>9, <1>10, <1>11, <1>12, <1>13, <1>14, <1>15 DEF ShellInv

\* SIGCONT stirs the stopped ones among those it goes to.
LEMMA ContinueStirs ==
  ASSUME TypeOK, NEW S \in SUBSET Pids, Continue(S)
  PROVE  /\ proc' \in [Pids -> {"none", "running", "stopped", "zombie", "reaped"}]
         /\ report' \in [Pids -> {"none", "stopped", "continued", "exited"}]
         /\ pending' \in BOOLEAN /\ (pending => pending')
         /\ resumed \subseteq resumed' /\ resumed' \subseteq Pids
         /\ \A p \in Pids : Stirred(p)
         /\ \A p \in S : proc[p] = "stopped" => report'[p] = "continued"
         /\ \A p \in Pids : report[p] # "none" => report'[p] # "none"
<1> DEFINE woken == {p \in S : proc[p] = "stopped"}
<1>1. /\ proc' = [p \in Pids |-> IF p \in woken THEN "running" ELSE proc[p]]
      /\ report' = [p \in Pids |-> IF p \in woken THEN "continued" ELSE report[p]]
      /\ pending' = (pending \/ woken # {})
      /\ resumed' = resumed \union woken
  BY DEF Continue
<1>2. woken \subseteq Pids /\ (\A p \in woken : proc[p] = "stopped")
  OBVIOUS
<1>3. \A p \in S : proc[p] = "stopped" => p \in woken
  OBVIOUS
<1> HIDE DEF woken
<1>4. pending' \in BOOLEAN /\ (pending => pending') /\ (woken # {} => pending')
  BY <1>1 DEF TypeOK
<1> QED
  BY <1>1, <1>2, <1>3, <1>4 DEF TypeOK, Stirred

\* A child changes by itself, or somebody else continues it.
LEMMA ChangeStirs ==
  ASSUME TypeOK, NEW q \in Pids, Change(q) \/ ContinueFromOutside(q)
  PROVE  ChildrenStir /\ ShellStirs /\ jobs' = jobs /\ mpc' = mpc /\ cmd' = cmd
<1>1. CASE Change(q)
  <2>1. \A p \in Pids : Stirred(p)
    BY <1>1 DEF Change, TypeOK, Stirred
  <2> QED
    BY <1>1, <2>1 DEF Change, TypeOK, ChildrenStir, ShellStirs, list, locals, children, history
<1>2. CASE ContinueFromOutside(q)
  <2>1. Continue({q}) /\ {q} \in SUBSET Pids
    BY <1>2 DEF ContinueFromOutside
  <2> QED
    BY <1>2, <2>1, ContinueStirs DEF ContinueFromOutside, ChildrenStir, ShellStirs, list, locals,
                                     children, history
<1> QED
  BY <1>1, <1>2
\* A job that ran and runs no more has a report outstanding.
LEMMA ChangeKeeps ==
  ASSUME ShellInv, NEW q \in Pids, Change(q) \/ ContinueFromOutside(q)
  PROVE  ShellInv'
<1>1. TypeOK
  BY DEF ShellInv
<1>2. ChildrenStir /\ ShellStirs /\ jobs' = jobs /\ mpc' = mpc /\ cmd' = cmd
  BY <1>1, ChangeStirs
<1>3. ASSUME NEW j \in Nums
      PROVE  ForegroundInv(j)'
  <2>1. ForegroundInv(j) /\ Members(j) \subseteq Pids /\ Members(j)' = Members(j)
    BY <1>1, <1>2, MembersFacts, ListFrame DEF ShellInv
  <2>2. \A p \in Pids : report[p] # "none" => report'[p] # "none"
    BY <1>2 DEF ChildrenStir, Stirred
  <2> QED
    BY <1>2, <2>1, <2>2 DEF ForegroundInv, ChildrenStir, Creating
<1> QED
  BY <1>2, <1>3, StirKeeps

\* slay, halt and cont.
LEMMA SignalKeeps ==
  ASSUME ShellInv, NEW q \in Pids, NEW sig \in {"SIGKILL", "SIGSTOP", "SIGCONT"},
         SendSignal(q, sig)
  PROVE  ShellInv'
<1>1. TypeOK
  BY DEF ShellInv
<1>2. /\ mpc = "prompt" /\ ~handling /\ key = "none" /\ mpc' \in {"prompt", "unblock"}
      /\ blocked' = TRUE
      /\ UNCHANGED <<list, locals, stdinOpen, handling, key, phase, group, terminal, failed>>
  BY DEF SendSignal, Goto, ThrowFrom
<1>3. ChildrenStir
  <2>1. CASE UNCHANGED <<proc, report, pending, resumed>>
    BY <1>1, <1>2, <2>1 DEF ChildrenStir, Stirred, TypeOK, list, locals
  <2>2. CASE \E S \in SUBSET Pids : Continue(S)
    BY <1>1, <1>2, <2>2, ContinueStirs DEF ChildrenStir, list, locals
  <2>3. CASE /\ proc[q] = "running" \/ (proc[q] = "stopped" /\ sig = "SIGKILL")
             /\ LET to == sig = "SIGSTOP" /\ proc[q] = "running" IN
                /\ proc' = [proc EXCEPT ![q] = IF to THEN "stopped" ELSE "zombie"]
                /\ report' = [report EXCEPT ![q] = IF to THEN "stopped" ELSE "exited"]
             /\ pending' = TRUE /\ UNCHANGED resumed
    <3>1. \A p \in Pids : Stirred(p)
      BY <1>1, <2>3 DEF TypeOK, Stirred
    <3> QED
      BY <1>1, <1>2, <2>3, <3>1 DEF ChildrenStir, TypeOK, list, locals
  <2> QED
    BY <2>1, <2>2, <2>3 DEF SendSignal
<1>4. ShellStirs /\ jobs' = jobs
  BY <1>1, <1>2 DEF ShellStirs, TypeOK, list, locals
<1>5. ASSUME NEW j \in Nums
      PROVE  ForegroundInv(j)'
  <2>1. ForegroundInv(j)
    BY DEF ShellInv
  <2> QED
    BY <1>2, <1>4, <2>1 DEF ForegroundInv, Creating
<1> QED
  BY <1>3, <1>4, <1>5, StirKeeps

\* fg finds a process to continue, or one that runs already or is about to be
\* reported: the list holds a job only as long as that is so.
LEMMA ResumeKeeps ==
  ASSUME ShellInv, NEW j \in Nums, NEW inForeground \in BOOLEAN, Resume(j, inForeground)
  PROVE  ShellInv'
<1> DEFINE isRunning == \E p \in Members(j) : state[p] = "running"
           target == InGroup(Leader(j))
<1>1. TypeOK
  BY DEF ShellInv
<1>2. /\ mpc = "prompt" /\ ~handling /\ key = "none" /\ mpc' \in {"prompt", "unblock", "wait"}
      /\ blocked' = TRUE /\ cmd' = [cmd EXCEPT !.stdin = FALSE]
      /\ UNCHANGED <<next, state, cur, k, child, orig, stdinOpen, handling, key, phase, group,
                     terminal, failed>>
  BY DEF Resume, Goto, ThrowFrom
<1>3. \/ ~jobs[j].listed /\ jobs' = jobs /\ UNCHANGED <<proc, report, pending, resumed>>
      \/ /\ jobs[j].listed /\ jobs' = [jobs EXCEPT ![j].foreground = inForeground]
         /\ Continue(IF isRunning THEN {} ELSE target)
         /\ isRunning \/ target # {} \/ Leader(j) = Shell =>
               mpc' = IF inForeground THEN "wait" ELSE "unblock"
  BY DEF Resume, Goto
<1>4. target \in SUBSET Pids
  BY DEF InGroup
<1>5. ChildrenStir
  <2>1. CASE UNCHANGED <<proc, report, pending, resumed>>
    BY <1>1, <1>2, <2>1 DEF ChildrenStir, Stirred, TypeOK
  <2>2. CASE \E S \in SUBSET Pids : Continue(S)
    BY <1>1, <1>2, <2>2, ContinueStirs DEF ChildrenStir
  <2> QED
    BY <1>3, <1>4, <2>1, <2>2
<1>6. ShellStirs
  <2>1. cmd' \in Commands /\ cmd'.background = cmd.background /\ ~cmd'.stdin
    BY <1>1, <1>2 DEF TypeOK, Commands
  <2>2. PICK r \in [listed : BOOLEAN, foreground : BOOLEAN, processes : Seq(Pids)] :
          /\ jobs[j].listed => r.listed = jobs[j].listed /\ r.processes = jobs[j].processes
          /\ \/ ~jobs[j].listed /\ jobs' = jobs
             \/ jobs[j].listed /\ jobs' = [jobs EXCEPT ![j] = r]
    <3> DEFINE r == [jobs[j] EXCEPT !.foreground = inForeground]
    <3>1. r \in [listed : BOOLEAN, foreground : BOOLEAN, processes : Seq(Pids)]
      BY <1>1 DEF TypeOK
    <3>2. \/ ~jobs[j].listed /\ jobs' = jobs
          \/ jobs[j].listed /\ jobs' = [jobs EXCEPT ![j] = r]
      <4>1. CASE ~jobs[j].listed
        BY <1>3, <4>1
      <4>2. CASE jobs[j].listed
        <5>1. jobs' = [jobs EXCEPT ![j].foreground = inForeground]
          BY <1>3, <4>2
        <5>2. jobs' = [jobs EXCEPT ![j] = r]
          BY <5>1, Zenon
        <5> QED
          BY <4>2, <5>2
      <4> QED
        BY <4>1, <4>2
    <3>3. r.listed = jobs[j].listed /\ r.processes = jobs[j].processes
      BY <1>1 DEF TypeOK
    <3> QED
      BY <3>1, <3>2, <3>3
  <2>3. jobs' \in [Nums -> [listed : BOOLEAN, foreground : BOOLEAN, processes : Seq(Pids)]]
    BY <1>1, <2>2 DEF TypeOK
  <2>4. jobs' = jobs \/ \A i \in Nums : jobs'[i] = IF i = j THEN r ELSE jobs[i]
    BY <1>1, <2>2 DEF TypeOK
  <2>5. \A i \in Nums : /\ jobs'[i].processes = jobs[i].processes
                        /\ jobs'[i].listed = jobs[i].listed
                        /\ ~jobs[i].listed => jobs'[i] = jobs[i]
    BY <2>2, <2>4
  <2> QED
    BY <1>2, <2>1, <2>3, <2>5 DEF ShellStirs
<1>7. ASSUME NEW i \in Nums
      PROVE  ForegroundInv(i)'
  <2>1. ~(jobs[i].foreground /\ i \notin failed)
    BY <1>2 DEF ShellInv, ForegroundInv, Creating
  <2>2. CASE jobs'[i].foreground = jobs[i].foreground
    BY <1>2, <2>1, <2>2 DEF ForegroundInv
  <2>3. CASE i \in failed
    BY <1>2, <2>3 DEF ForegroundInv
  <2>4. CASE jobs'[i].foreground # jobs[i].foreground /\ i \notin failed
    <3>1. /\ i = j /\ jobs[j].listed /\ inForeground
          /\ Continue(IF isRunning THEN {} ELSE target)
      BY <1>1, <1>3, <2>1, <2>4 DEF TypeOK
    <3>2. Members(j) # {} /\ Leader(j) # Shell /\ Members(j)' = Members(j)
      <4>1. JobInv(j)
        BY DEF ShellInv
      <4>2. Members(j)' = Members(j)
        BY <1>6 DEF ShellStirs, Members
      <4> QED
        BY <1>1, <1>2, <2>4, <3>1, <4>1, <4>2, MembersFacts DEF JobInv, Creating
    <3>3. PICK p \in Members(j) : state[p] # "terminated"
      BY <3>2 DEF ShellInv, JobInv
    <3>4. p \in Pids
      BY <1>1, <3>3, MembersFacts
    <3>5. p \in target /\ (report[p] = "none" => proc[p] = state[p])
      <4>1. ListInv(p) /\ GroupInv(p) /\ Listed(p)
        BY <3>3, <3>4 DEF ShellInv, Listed
      <4> QED
        BY <2>4, <3>1, <3>3, <3>4, <4>1 DEF ListInv, GroupInv, InGroup
    <3>6. isRunning \/ report'[p] # "none"
      <4>1. CASE isRunning
        BY <4>1
      <4>2. CASE ~isRunning
        <5>1. state[p] = "stopped"
          <6>1. state[p] # "waiting" /\ state[p] # "running"
            BY <3>3, <3>4, <4>2 DEF ShellInv, ListInv, Listed
          <6> QED
            BY <1>1, <3>3, <3>4, <6>1 DEF TypeOK
        <5>2. Continue(target)
          BY <3>1, <4>2
        <5> QED
          BY <1>1, <1>4, <3>4, <3>5, <5>1, <5>2, ContinueStirs
      <4> QED
        BY <4>1, <4>2
    <3>7. mpc' = "wait"
      BY <1>3, <3>1, <3>5
    <3> QED
      BY <1>2, <3>1, <3>2, <3>3, <3>6, <3>7 DEF ForegroundInv
  <2> QED
    BY <2>2, <2>3, <2>4
<1> QED
  BY <1>5, <1>6, <1>7, StirKeeps
-----------------------------------------------------------------------------
(* Creating a job                                                          *)

\* The new job has no process yet, and no job but it is in the foreground.
LEMMA AddJobKeeps ==
  ASSUME ShellInv, AddJob
  PROVE  ShellInv'
<1>1. TypeOK /\ ControlInv
  BY DEF ShellInv
<1>2. PICK c \in Commands :
        /\ mpc = "prompt" /\ ~handling /\ key = "none"
        /\ mpc' = IF c.stdin THEN "block" ELSE "openInput"
        /\ cmd' = c /\ c.n <= Cardinality(Free)
        /\ jobs' = [jobs EXCEPT ![next] =
              [listed |-> TRUE, foreground |-> ~c.background, processes |-> <<>>]]
  BY DEF AddJob, Goto, Free
<1>3. /\ next \in Nums /\ cur' = next /\ next' = next + 1 /\ k' = 1
      /\ UNCHANGED <<state, child, orig, stdinOpen, blocked, pending, handling, key, proc, phase,
                     group, report, terminal, failed, resumed>>
  BY DEF AddJob, signals, children, history
<1>4. /\ jobs'[next].listed /\ jobs'[next].foreground = ~c.background
      /\ jobs'[next].processes = <<>>
      /\ \A j \in Nums : j # next => jobs'[j] = jobs[j]
  BY <1>1, <1>2, <1>3 DEF TypeOK
<1>5. jobs[next] = NoJob /\ next \notin failed /\ jobs[next].processes = <<>>
  BY <1>1, <1>3 DEF ShellInv, JobInv, TypeOK, NoJob
<1>6. TypeOK'
  <2>1. jobs' \in [Nums -> [listed : BOOLEAN, foreground : BOOLEAN, processes : Seq(Pids)]]
    <3>1. [listed |-> TRUE, foreground |-> ~c.background, processes |-> <<>>]
             \in [listed : BOOLEAN, foreground : BOOLEAN, processes : Seq(Pids)]
      BY DEF Commands
    <3> QED
      BY <1>1, <1>2, <1>3, <3>1 DEF TypeOK
  <2>2. next' \in 1..(MaxJobs + 1) /\ cur' \in Nums /\ k' \in 1..(MaxProcs + 1)
    BY <1>3, ShellAssumption DEF Nums
  <2> QED
    BY <1>1, <1>2, <1>3, <2>1, <2>2 DEF TypeOK
<1>7. \A j \in Nums : Members(j)' = Members(j) /\ Leader(j)' = Leader(j)
  BY <1>4, <1>5 DEF Members, Leader
<1>8. \A p : Listed(p)' = Listed(p)
  BY <1>7 DEF Listed
<1>9. \A p : ~Newborn(p) /\ ~Newborn(p)'
  BY <1>2 DEF Newborn
<1>10. Creating' /\ ~Creating /\ mpc' # "exited" /\ mpc' # "placed"
  BY <1>2 DEF Creating
<1>11. \A j \in Nums \ failed : ~jobs[j].foreground
  BY <1>2, <1>10 DEF ShellInv, ForegroundInv
<1>12. Members(next) = {}
  BY <1>1, <1>3, <1>5, MembersFacts
<1>13. ASSUME NEW p \in Pids
       PROVE  ReportInv(p)' /\ ListInv(p)' /\ GroupInv(p)' /\ AwakeInv(p)'
  <2>1. ReportInv(p) /\ ListInv(p) /\ GroupInv(p) /\ AwakeInv(p) /\ cur \in Nums
    BY <1>1 DEF ShellInv, TypeOK
  <2>2. ReportInv(p)' /\ ListInv(p)'
    BY <1>2, <1>3, <1>8, <1>9, <2>1 DEF ReportInv, ListInv
  <2>3. GroupInv(p)'
    BY <1>3, <1>7, <1>9, <2>1 DEF GroupInv
  <2>4. AwakeInv(p)'
    BY <1>2, <1>3, <1>7, <1>9, <1>11, <1>12, <2>1 DEF AwakeInv
  <2> QED
    BY <2>2, <2>3, <2>4
<1>14. ASSUME NEW j \in Nums
       PROVE  JobInv(j)' /\ ForegroundInv(j)'
  <2>1. JobInv(j) /\ ForegroundInv(j)
    BY DEF ShellInv
  <2>2. CASE j = next
    <3>1. j < next' /\ ~(j >= next')
      BY <1>3, <2>2 DEF Nums
    <3>2. JobInv(j)'
      BY <1>3, <1>4, <1>7, <1>10, <1>12, <2>2, <3>1 DEF JobInv
    <3>3. ForegroundInv(j)'
      BY <1>2, <1>3, <1>4, <1>7, <1>10, <1>12, <2>2 DEF ForegroundInv
    <3> QED
      BY <3>2, <3>3
  <2>3. CASE j # next
    <3>1. j >= next' => j >= next
      BY <1>3 DEF Nums
    <3>2. JobInv(j)'
      BY <1>2, <1>3, <1>4, <1>7, <1>10, <2>1, <2>3, <3>1 DEF JobInv
    <3>3. ForegroundInv(j)'
      BY <1>3, <1>4, <1>11, <2>3 DEF ForegroundInv
    <3> QED
      BY <3>2, <3>3
  <2> QED
    BY <2>2, <2>3
<1>15. OneJobInv'
  BY <1>7 DEF ShellInv, OneJobInv
<1>16. ControlInv'
  BY <1>2, <1>3, <1>4, <1>5, <1>10 DEF ControlInv, Nums
<1>17. RoomInv'
  <2>1. Free' = Free /\ Cardinality(Free)' = Cardinality(Free)
    BY <1>3 DEF Free
  <2> QED
    BY <1>2, <1>3, <2>1, FreeFinite DEF RoomInv, Commands
<1>18. TerminalInv' /\ KeyInv'
  BY <1>2, <1>3 DEF ShellInv, TerminalInv, KeyInv
<1> QED
  BY <1>6, <1>13, <1>14, <1>15, <1>16, <1>17, <1>18 DEF ShellInv

\* The child is known to the kernel, and to the list only at the next step.
LEMMA ForkKeeps ==
  ASSUME ShellInv, Fork
  PROVE  ShellInv'
<1>1. TypeOK /\ ControlInv
  BY DEF ShellInv
<1>2. child' \in Free /\ Free' = Free \ {child'}
      /\ Cardinality(Free)' = Cardinality(Free) - 1
  BY <1>1, ForkTakes DEF ShellInv
<1>3. child' \in Pids /\ proc[child'] = "none"
  BY <1>2 DEF Free
<1>4. /\ mpc = "fork" /\ mpc' = "adopt"
      /\ UNCHANGED <<jobs, next, state, cur, k, cmd, orig, stdinOpen, blocked, pending, handling,
                     key, group, report, terminal, failed, resumed>>
  BY DEF Fork, Goto, list, signals, history
<1>5. /\ proc' = [proc EXCEPT ![child'] = "running"]
      /\ \/ k = 1 /\ cmd.stdin /\ ~cmd.background
            /\ phase' = [phase EXCEPT ![child'] = "setpgid"]
         \/ phase' = [phase EXCEPT ![child'] = "start"]
  BY DEF Fork
<1>6. TypeOK'
  <2>1. /\ proc' \in [Pids -> {"none", "running", "stopped", "zombie", "reaped"}]
        /\ phase' \in [Pids -> {"setpgid", "tcsetpgrp", "start", "exec"}]
    BY <1>1, <1>3, <1>5 DEF TypeOK
  <2> QED
    BY <1>1, <1>3, <1>4, <2>1 DEF TypeOK
<1>7. /\ \A j \in Nums : Members(j)' = Members(j) /\ Leader(j)' = Leader(j)
      /\ \A p : Listed(p)' = Listed(p)
      /\ HasForegroundJob' = HasForegroundJob /\ ForegroundJob' = ForegroundJob
  BY <1>4, ListFrame
<1>8. \A p \in Pids : /\ ~Newborn(p) /\ (Newborn(p)' <=> p = child')
                      /\ p # child' => proc'[p] = proc[p] /\ phase'[p] = phase[p]
  BY <1>1, <1>4, <1>5 DEF Newborn, TypeOK
<1>9. Creating' /\ Creating
  BY <1>4 DEF Creating
<1>10. ASSUME NEW p \in Pids, p # child'
       PROVE  ReportInv(p)' /\ ListInv(p)' /\ GroupInv(p)' /\ AwakeInv(p)'
  <2>1. ReportInv(p) /\ ListInv(p) /\ GroupInv(p) /\ AwakeInv(p) /\ cur \in Nums
    BY <1>1 DEF ShellInv, TypeOK
  <2>2. ReportInv(p)' /\ ListInv(p)'
    BY <1>4, <1>7, <1>8, <1>10, <2>1 DEF ReportInv, ListInv
  <2>3. GroupInv(p)'
    BY <1>4, <1>7, <1>8, <1>10, <2>1 DEF GroupInv
  <2>4. AwakeInv(p)'
    BY <1>4, <1>7, <1>8, <1>10, <2>1 DEF AwakeInv
  <2> QED
    BY <2>2, <2>3, <2>4
<1>11. ASSUME NEW p \in Pids, p = child'
       PROVE  ReportInv(p)' /\ ListInv(p)' /\ GroupInv(p)' /\ AwakeInv(p)'
  <2>1. ReportInv(p) /\ ListInv(p) /\ GroupInv(p) /\ AwakeInv(p) /\ cur \in Nums
    BY <1>1 DEF ShellInv, TypeOK
  <2>2. proc[p] = "none" /\ proc'[p] = "running" /\ ~Listed(p) /\ report[p] = "none"
    BY <1>1, <1>3, <1>5, <1>11, <2>1 DEF TypeOK, ReportInv, ListInv
  <2>3. phase'[p] \notin {"tcsetpgrp"}
        /\ (phase'[p] = "setpgid" => k = 1 /\ cmd.stdin /\ ~cmd.background)
    BY <1>1, <1>5, <1>11 DEF TypeOK
  <2>4. ~Listed(p)' /\ Newborn(p)' /\ report'[p] = "none" /\ \A j \in Nums : p \notin Members(j)'
    BY <1>4, <1>7, <1>8, <1>11, <2>2 DEF Listed
  <2>5. ReportInv(p)' /\ ListInv(p)'
    BY <2>2, <2>4 DEF ReportInv, ListInv
  <2>6. GroupInv(p)'
    BY <1>4, <2>3, <2>4 DEF GroupInv
  <2>7. AwakeInv(p)'
    BY <1>4, <2>1, <2>3, <2>4 DEF AwakeInv
  <2> QED
    BY <2>5, <2>6, <2>7
<1>12. ASSUME NEW j \in Nums
       PROVE  JobInv(j)' /\ ForegroundInv(j)'
  <2>1. JobInv(j) /\ ForegroundInv(j)
    BY DEF ShellInv
  <2> QED
    BY <1>4, <1>7, <1>9, <2>1 DEF JobInv, ForegroundInv
<1>13. OneJobInv' /\ ControlInv'
  BY <1>1, <1>4, <1>7, <1>9 DEF ShellInv, OneJobInv, ControlInv
<1>14. RoomInv'
  <2>1. cmd.n - k + 1 <= Cardinality(Free)
    BY <1>4 DEF ShellInv, RoomInv
  <2>2. cmd.n \in Int /\ k \in Int /\ Cardinality(Free) \in Int
    BY <1>1, FreeFinite DEF TypeOK, Commands
  <2> QED
    BY <1>2, <1>4, <2>1, <2>2 DEF RoomInv
<1>15. TerminalInv' /\ KeyInv'
  <2>1. key = "none"
    BY DEF Fork, Goto
  <2> QED
    BY <1>4, <2>1 DEF ShellInv, TerminalInv, KeyInv
<1> QED
  BY <1>6, <1>10, <1>11, <1>12, <1>13, <1>14, <1>15 DEF ShellInv
\* The child is listed as running: SIGCHLD is blocked, so that whatever became of it
\* since fork() is still to be reported.
LEMMA AdoptKeeps ==
  ASSUME ShellInv, Adopt
  PROVE  ShellInv'
<1>1. TypeOK /\ ControlInv /\ cur \in Nums /\ child \in Pids
  BY DEF ShellInv, TypeOK
<1>0. PICK c \in Nums, d \in Pids : c = cur /\ d = child
  BY <1>1
<1>2. /\ mpc = "adopt" /\ ~handling /\ key = "none"
      /\ UNCHANGED <<next, cur, cmd, child, orig, blocked, pending, handling, key, proc, phase,
                     report, terminal, resumed>>
      /\ state' = [state EXCEPT ![child] = "running"]
      /\ jobs' = [jobs EXCEPT ![cur].processes = Append(jobs[cur].processes, child)]
  BY DEF Adopt, Goto, ThrowFrom, signals
<1>3. \/ /\ phase[child] = "exec" /\ mpc' = "prompt" /\ failed' = failed \union {cur}
         /\ stdinOpen' \in BOOLEAN /\ k' = k /\ group' = group
      \/ /\ phase[child] # "exec" /\ mpc' = (IF k < cmd.n THEN "openOutput" ELSE "placed")
         /\ group' = [group EXCEPT ![child] = jobs'[cur].processes[1]] /\ k' = k + 1
         /\ UNCHANGED <<failed, stdinOpen>>
  BY DEF Adopt, Goto, ThrowFrom
<1>4. Newborn(child) /\ ~Listed(child) /\ (\A p \in Pids : p # child => ~Newborn(p))
      /\ \A p : ~Newborn(p)'
  BY <1>0, <1>1, <1>2, <1>3 DEF ShellInv, ListInv, Newborn
<1>5. /\ jobs[cur].listed /\ cur < next /\ cur \notin failed
      /\ jobs[cur].foreground = ~cmd.background
      /\ Len(jobs[cur].processes) = k - 1 /\ k <= cmd.n
  BY <1>0, <1>1, <1>2 DEF ControlInv, Creating
<1> DEFINE s == jobs[cur].processes
           t == Append(s, child)
<1>6. s \in Seq(Pids) /\ t \in Seq(Pids)
  BY <1>0, <1>1, AppendMembers DEF TypeOK
<1>7. /\ jobs'[cur].listed /\ jobs'[cur].foreground = jobs[cur].foreground
      /\ jobs'[cur].processes = t
      /\ \A j \in Nums : j # cur => jobs'[j] = jobs[j]
  BY <1>0, <1>1, <1>2, <1>5 DEF TypeOK
<1>8. /\ Members(c)' = Members(c) \union {child} /\ Leader(c)' = t[1]
      /\ \A j \in Nums : j # cur => Members(j)' = Members(j) /\ Leader(j)' = Leader(j)
  <2>1. Members(cur) = {s[x] : x \in DOMAIN s} /\ Members(c)' = {t[x] : x \in DOMAIN t}
    BY <1>0, <1>7 DEF Members
  <2>2. t # <<>>
    BY <1>0, <1>1, <1>6, AppendMembers
  <2>3. Leader(c)' = t[1]
    BY <1>0, <1>7, <2>2 DEF Leader
  <2>4. \A j \in Nums : j # cur => Members(j)' = Members(j) /\ Leader(j)' = Leader(j)
    BY <1>0, <1>7 DEF Members, Leader
  <2> QED
    BY <1>0, <1>1, <1>6, <2>1, <2>3, <2>4, AppendMembers
<1>9. (Members(cur) # {} => Leader(c)' = Leader(cur)) /\ (k = 1 => Leader(c)' = child)
      /\ Len(t) = k
  <2>1. t[1] = IF s = <<>> THEN child ELSE s[1]
    BY <1>0, <1>1, <1>6, AppendMembers
  <2>2. k = 1 => s = <<>>
    BY <1>0, <1>5, <1>6
  <2>3. Len(t) = k
    BY <1>0, <1>1, <1>5, <1>6, AppendMembers DEF TypeOK
  <2> QED
    BY <1>0, <1>1, <1>8, <2>1, <2>2, <2>3, MembersFacts DEF Leader
<1>10. t[1] \in Pids
  BY <1>0, <1>1, <1>6, AppendMembers
<1> HIDE DEF s, t
<1>11. TypeOK'
  <2>1. jobs' \in [Nums -> [listed : BOOLEAN, foreground : BOOLEAN, processes : Seq(Pids)]]
    <3>1. ASSUME NEW j \in Nums
          PROVE  jobs'[j] \in [listed : BOOLEAN, foreground : BOOLEAN, processes : Seq(Pids)]
      <4>1. CASE j # cur
        BY <1>0, <1>1, <1>7, <4>1 DEF TypeOK
      <4>2. CASE j = cur
        <5>1. jobs'[cur] = [jobs[cur] EXCEPT !.processes = t]
          BY <1>0, <1>1, <1>2, Zenon DEF TypeOK, s, t
        <5>2. jobs[cur] \in [listed : BOOLEAN, foreground : BOOLEAN, processes : Seq(Pids)]
          BY <1>1 DEF TypeOK
        <5>3. [jobs[cur] EXCEPT !.processes = t]
                 \in [listed : BOOLEAN, foreground : BOOLEAN, processes : Seq(Pids)]
          BY <1>6, <5>2
        <5> QED
          BY <1>0, <4>2, <5>1, <5>3
      <4> QED
        BY <1>0, <4>1, <4>2
    <3>2. jobs' = [j \in Nums |-> jobs'[j]]
      BY <1>0, <1>1, <1>2 DEF TypeOK
    <3> QED
      BY <1>0, <3>1, <3>2
  <2>2. k' \in 1..(MaxProcs + 1)
    BY <1>0, <1>1, <1>3, <1>5, ShellAssumption DEF TypeOK, Commands
  <2>3. group' \in [Pids -> Pids \union {Shell}]
    BY <1>0, <1>1, <1>3, <1>7, <1>10 DEF TypeOK
  <2>4. state' \in [Pids -> {"waiting", "running", "stopped", "terminated"}]
    BY <1>0, <1>1, <1>2 DEF TypeOK
  <2>5. /\ mpc' \in {"prompt", "openOutput", "placed"}
        /\ failed' \subseteq Nums /\ stdinOpen' \in BOOLEAN
    BY <1>0, <1>1, <1>3 DEF TypeOK
  <2> QED
    BY <1>0, <1>1, <1>2, <2>1, <2>2, <2>3, <2>4, <2>5 DEF TypeOK
<1>12. /\ Listed(d)' /\ state'[child] = "running"
       /\ \A j \in Nums : d \in Members(j)' => j = cur
       /\ \A p \in Pids : p # child =>
             (Listed(p)' <=> Listed(p)) /\ state'[p] = state[p] /\ group'[p] = group[p]
  <2>1. d \in Members(c)' /\ \A j \in Nums : d \notin Members(j)
    BY <1>0, <1>4, <1>8 DEF Listed
  <2>2. \A j \in Nums : d \in Members(j)' => j = c
    BY <1>0, <1>8, <2>1
  <2>3. \A p, j : j \in Nums /\ p # d => (p \in Members(j)' <=> p \in Members(j))
    BY <1>0, <1>8
  <2>4. Listed(d)' /\ \A p : p # d => (Listed(p)' <=> Listed(p))
    BY <2>1, <2>3 DEF Listed
  <2>5. state'[d] = "running" /\ \A p \in Pids : p # d => state'[p] = state[p]
    BY <1>0, <1>1, <1>2 DEF TypeOK
  <2>6. \A p \in Pids : p # d => group'[p] = group[p]
    BY <1>0, <1>1, <1>3 DEF TypeOK
  <2> QED
    BY <1>0, <2>2, <2>4, <2>5, <2>6
<1>13. failed \subseteq failed' /\ (\A j \in Nums : j # cur => (j \in failed' <=> j \in failed))
       /\ (cur \notin failed' => mpc' \in {"openOutput", "placed"} /\ group'[child] = Leader(c)')
  BY <1>0, <1>1, <1>3, <1>5, <1>7, <1>8 DEF TypeOK
<1>14. ASSUME NEW p \in Pids
       PROVE  ReportInv(p)' /\ ListInv(p)' /\ GroupInv(p)' /\ AwakeInv(p)'
  <2>1. ReportInv(p) /\ ListInv(p) /\ GroupInv(p) /\ AwakeInv(p)
    BY <1>0 DEF ShellInv
  <2>2. ReportInv(p)'
    BY <1>0, <1>2, <2>1 DEF ReportInv
  <2>3. ListInv(p)'
    BY <1>0, <1>2, <1>4, <1>12, <2>1 DEF ListInv
  <2>4. GroupInv(p)'
    <3>1. CASE p = child
      <4>1. phase[p] \in {"setpgid", "tcsetpgrp"} => k = 1 /\ cur \notin failed'
        BY <1>0, <1>3, <1>4, <1>5, <2>1, <3>1 DEF GroupInv
      <4> QED
        BY <1>0, <1>2, <1>4, <1>9, <1>12, <1>13, <3>1, <4>1 DEF GroupInv
    <3>2. CASE p # child
      <4>1. \A j \in Nums : p \in Members(j)' => p \in Members(j) /\ Leader(j)' = Leader(j)
        BY <1>0, <1>8, <1>9, <3>2
      <4> QED
        BY <1>0, <1>2, <1>4, <1>12, <1>13, <2>1, <3>2, <4>1 DEF GroupInv
    <3> QED
      BY <1>0, <3>1, <3>2
  <2>5. AwakeInv(p)'
    BY <1>0, <1>2, <1>4, <1>5, <1>7, <1>8, <1>13, <2>1 DEF AwakeInv, Newborn
  <2> QED
    BY <1>0, <2>2, <2>3, <2>4, <2>5
<1>15. ASSUME NEW j \in Nums
       PROVE  JobInv(j)' /\ ForegroundInv(j)'
  <2>1. JobInv(j) /\ ForegroundInv(j)
    BY <1>0 DEF ShellInv
  <2>2. CASE j = cur
    <3>1. ~(j >= next)
      BY <1>0, <1>1, <1>5, <2>2 DEF TypeOK, Nums
    <3>2. d \in Members(j)'
      BY <1>0, <1>8, <2>2
    <3>3. JobInv(j)'
      BY <1>0, <1>2, <1>7, <1>12, <2>2, <3>1, <3>2 DEF JobInv
    <3>4. ForegroundInv(j)'
      BY <1>0, <1>2, <1>5, <1>7, <1>12, <1>13, <2>2, <3>2 DEF ForegroundInv, Creating
    <3> QED
      BY <1>0, <3>3, <3>4
  <2>3. CASE j # cur
    <3>1. Members(j)' = Members(j) /\ jobs'[j] = jobs[j] /\ Members(j) \subseteq Pids \ {child}
      BY <1>0, <1>1, <1>4, <1>7, <1>8, <2>3, MembersFacts DEF Listed
    <3>2. \A p \in Members(j) : state'[p] = state[p]
      BY <1>0, <1>12, <3>1
    <3>3. JobInv(j)'
      BY <1>0, <1>2, <1>13, <2>1, <2>3, <3>1, <3>2 DEF JobInv
    <3>4. ForegroundInv(j)'
      BY <1>0, <1>2, <1>13, <2>1, <2>3, <3>1 DEF ForegroundInv, Creating
    <3> QED
      BY <1>0, <3>3, <3>4
  <2> QED
    BY <1>0, <2>2, <2>3
<1>16. OneJobInv'
  <2>1. OneJobInv /\ \A j \in Nums : child \notin Members(j)
    BY <1>0, <1>4 DEF ShellInv, Listed
  <2> QED
    BY <1>0, <1>1, <1>8, <2>1 DEF OneJobInv
<1>17. ControlInv'
  <2>1. cmd.n \in Int /\ k \in Int
    BY <1>0, <1>1 DEF TypeOK, Commands
  <2>2. k' = k + 1 => k' - 1 = Len(t)
    BY <1>0, <1>9, <2>1
  <2>3. mpc' = "openOutput" => k' <= cmd.n
    BY <1>0, <1>3, <2>1
  <2>4. mpc' = "placed" => k' = cmd.n + 1
    BY <1>0, <1>3, <1>5, <2>1
  <2> QED
    BY <1>0, <1>1, <1>2, <1>3, <1>5, <1>7, <2>2, <2>3, <2>4 DEF ControlInv, Creating
<1>18. RoomInv'
  <2>1. Free' = Free /\ Cardinality(Free)' = Cardinality(Free)
    BY <1>0, <1>2 DEF Free
  <2>2. cmd.n - k <= Cardinality(Free) /\ cmd.n \in Int /\ k \in Int /\ Cardinality(Free) \in Int
    BY <1>0, <1>1, <1>2, FreeFinite DEF ShellInv, RoomInv, TypeOK, Commands
  <2> QED
    BY <1>0, <1>2, <1>3, <2>1, <2>2 DEF RoomInv
<1>19. TerminalInv' /\ KeyInv'
  BY <1>0, <1>2, <1>3 DEF ShellInv, TerminalInv, KeyInv
<1> QED
  BY <1>11, <1>14, <1>15, <1>16, <1>17, <1>18, <1>19 DEF ShellInv
-----------------------------------------------------------------------------
(* The handler of SIGCHLD                                                  *)

\* What synchronize() makes of a job: erased, or shown with the same processes.
Synchronized(j) ==
    \/ jobs'[j] = NoJob /\ \A p \in Members(j) : state'[p] = "terminated"
    \/ /\ \E p \in Members(j) : state'[p] # "terminated"
       /\ jobs'[j].listed = jobs[j].listed /\ jobs'[j].processes = jobs[j].processes
       /\ jobs'[j].foreground <=>
             jobs[j].foreground /\ \E p \in Members(j) : state'[p] = "running"

\* A report is of a process that is in exactly one job, and only that job changes.
LEMMA ReapEffect ==
  ASSUME ShellInv, NEW q \in Pids, Reap(q)
  PROVE  /\ \E j \in Nums : /\ q \in Members(j) /\ Synchronized(j)
                            /\ \A i \in Nums : i # j => jobs'[i] = jobs[i]
         /\ jobs' \in [Nums -> [listed : BOOLEAN, foreground : BOOLEAN, processes : Seq(Pids)]]
         /\ state' \in [Pids -> {"waiting", "running", "stopped", "terminated"}]
         /\ \A p \in Pids : p # q => state'[p] = state[p]
         /\ state'[q] = "terminated" <=> proc'[q] = "reaped"
         /\ proc'[q] # "reaped" => proc'[q] = state'[q]
         /\ state'[q] # "waiting"
<1>1. TypeOK /\ ControlInv /\ ReportInv(q) /\ ListInv(q)
  BY DEF ShellInv
<1>2. /\ handling /\ report[q] # "none"
      /\ proc' = [proc EXCEPT ![q] = IF report[q] = "exited" THEN "reaped" ELSE proc[q]]
  BY DEF Reap
<1>3. report[q] \in {"exited", "stopped", "continued"}
  BY <1>1, <1>2 DEF TypeOK
<1>4. Listed(q)
  BY <1>1, <1>2, <1>3 DEF ReportInv, ListInv, ControlInv, Newborn
<1>5. /\ state' = [state EXCEPT ![q] = CASE report[q] = "exited"    -> "terminated"
                                         [] report[q] = "stopped"   -> "stopped"
                                         [] report[q] = "continued" -> "running"]
      /\ \E j \in Nums : q \in Members(j) /\ Synchronize(j, state')
  BY <1>4 DEF Reap, Listed
<1>6. state'[q] = IF report[q] = "exited" THEN "terminated"
                  ELSE IF report[q] = "stopped" THEN "stopped" ELSE "running"
  BY <1>1, <1>3, <1>5 DEF TypeOK
<1>7. state' \in [Pids -> {"waiting", "running", "stopped", "terminated"}]
      /\ \A p \in Pids : p # q => state'[p] = state[p]
  BY <1>1, <1>5, <1>6 DEF TypeOK
<1>8. /\ state'[q] = "terminated" <=> proc'[q] = "reaped"
      /\ proc'[q] # "reaped" => proc'[q] = state'[q]
      /\ state'[q] # "waiting"
  BY <1>1, <1>2, <1>3, <1>6 DEF TypeOK, ReportInv
<1>9. PICK j \in Nums : q \in Members(j) /\ Synchronize(j, state')
  BY <1>5
<1> DEFINE Job == [listed : BOOLEAN, foreground : BOOLEAN, processes : Seq(Pids)]
           runs == \E p \in Members(j) : state'[p] = "running"
           r == IF \A p \in Members(j) : state'[p] = "terminated" THEN NoJob
                ELSE [jobs[j] EXCEPT !.foreground = jobs[j].foreground /\ runs]
<1>10. jobs' = [jobs EXCEPT ![j] = r]
  BY <1>9 DEF Synchronize
<1>11. jobs[j] \in Job /\ NoJob \in Job
  BY <1>1 DEF TypeOK, NoJob
<1>12. runs \in BOOLEAN
  OBVIOUS
<1>13. [jobs[j] EXCEPT !.foreground = jobs[j].foreground /\ runs] \in Job
  <2> HIDE DEF runs
  <2> QED
    BY <1>11, <1>12
<1>14. \/ r = NoJob /\ \A p \in Members(j) : state'[p] = "terminated"
       \/ /\ \E p \in Members(j) : state'[p] # "terminated"
          /\ r.listed = jobs[j].listed /\ r.processes = jobs[j].processes
          /\ r.foreground <=> jobs[j].foreground /\ runs
  <2>1. CASE \A p \in Members(j) : state'[p] = "terminated"
    BY <2>1
  <2>2. CASE ~\A p \in Members(j) : state'[p] = "terminated"
    <3>1. r = [jobs[j] EXCEPT !.foreground = jobs[j].foreground /\ runs]
      BY <2>2
    <3>2. \E p \in Members(j) : state'[p] # "terminated"
      BY <2>2
    <3> HIDE DEF r, runs
    <3> QED
      BY <1>11, <1>12, <3>1, <3>2
  <2> QED
    BY <2>1, <2>2
<1>15. r \in Job
  BY <1>11, <1>13
<1> HIDE DEF r
<1>16. jobs' \in [Nums -> Job] /\ jobs'[j] = r /\ \A i \in Nums : i # j => jobs'[i] = jobs[i]
  BY <1>1, <1>10, <1>15 DEF TypeOK
<1>17. Synchronized(j)
  BY <1>14, <1>16 DEF Synchronized
<1> QED
  BY <1>7, <1>8, <1>9, <1>16, <1>17
\* The list takes over one report; a job whose processes all ended is erased.
LEMMA ReapKeeps ==
  ASSUME ShellInv, NEW q \in Pids, Reap(q)
  PROVE  ShellInv'
<1>1. TypeOK /\ ControlInv /\ cur \in Nums
  BY DEF ShellInv, TypeOK
<1>2. /\ handling /\ report[q] # "none" /\ report' = [report EXCEPT ![q] = "none"]
      /\ proc' = [proc EXCEPT ![q] = IF report[q] = "exited" THEN "reaped" ELSE proc[q]]
      /\ UNCHANGED <<next, mpc, cur, k, cmd, child, orig, stdinOpen, blocked, pending, handling,
                     key, phase, group, terminal, failed, resumed>>
  BY DEF Reap, locals, signals, history
<1>3. PICK j \in Nums : /\ q \in Members(j) /\ Synchronized(j)
                        /\ \A i \in Nums : i # j => jobs'[i] = jobs[i]
  BY ReapEffect
<1>4. /\ \A p \in Pids : p # q => state'[p] = state[p]
      /\ state'[q] = "terminated" <=> proc'[q] = "reaped"
      /\ proc'[q] # "reaped" => proc'[q] = state'[q]
      /\ state'[q] # "waiting"
  BY ReapEffect
<1>5. /\ \A p \in Pids : p # q => proc'[p] = proc[p] /\ report'[p] = report[p]
      /\ report'[q] = "none" /\ proc[q] # "none" /\ proc'[q] # "none"
      /\ proc'[q] = proc[q] \/ proc'[q] = "reaped"
      /\ proc'[q] # "zombie"
  BY <1>1, <1>2 DEF ShellInv, ReportInv, TypeOK
<1>6. TypeOK'
  <2>1. /\ proc' \in [Pids -> {"none", "running", "stopped", "zombie", "reaped"}]
        /\ report' \in [Pids -> {"none", "stopped", "continued", "exited"}]
    BY <1>1, <1>2 DEF TypeOK
  <2>2. /\ jobs' \in [Nums -> [listed : BOOLEAN, foreground : BOOLEAN, processes : Seq(Pids)]]
        /\ state' \in [Pids -> {"waiting", "running", "stopped", "terminated"}]
    BY ReapEffect
  <2> QED
    BY <1>1, <1>2, <2>1, <2>2 DEF TypeOK
<1>7. mpc \in {"prompt", "openInput", "block", "suspend"}
  BY <1>1, <1>2 DEF ControlInv, TypeOK
<1>8. \A i \in Nums : i # j => Members(i)' = Members(i) /\ Leader(i)' = Leader(i)
  BY <1>3 DEF Members, Leader
<1>9. \/ /\ jobs'[j] = NoJob /\ Members(j)' = {}
         /\ \A p \in Members(j) : state'[p] = "terminated"
      \/ /\ Members(j)' = Members(j) /\ Leader(j)' = Leader(j)
         /\ \E p \in Members(j) : state'[p] # "terminated"
         /\ jobs'[j].listed = jobs[j].listed
         /\ jobs'[j].foreground <=>
               jobs[j].foreground /\ \E p \in Members(j) : state'[p] = "running"
  BY <1>3 DEF Synchronized, Members, Leader, NoJob
<1>10. \A i \in Nums, p \in Pids : p \in Members(i) /\ i # j => p \notin Members(j) /\ p # q
  BY <1>3 DEF ShellInv, OneJobInv
<1>11. \A p \in Pids : ~Newborn(p) /\ ~Newborn(p)'
  BY <1>2, <1>7 DEF Newborn
<1>12. Creating => j # cur /\ Members(cur) = {}
  <2>1. Creating => Len(jobs[cur].processes) = 0
    BY <1>1, <1>7 DEF ControlInv, Creating
  <2>2. Len(jobs[cur].processes) = 0 => jobs[cur].processes = <<>>
    BY <1>1 DEF TypeOK
  <2> QED
    BY <1>1, <1>3, <2>1, <2>2, MembersFacts
<1>13. (Creating' <=> Creating) /\ jobs' \in [Nums -> [listed : BOOLEAN, foreground : BOOLEAN,
                                                     processes : Seq(Pids)]]
  BY <1>2, <1>6 DEF Creating, TypeOK
<1>14. \A p \in Pids : /\ Listed(p)' => Listed(p)
                       /\ Listed(p) => Listed(p)' \/ state'[p] = "terminated"
  BY <1>3, <1>8, <1>9 DEF Listed
<1>15. Listed(q)
  BY <1>3 DEF Listed
<1>16. ASSUME NEW p \in Pids
       PROVE  ReportInv(p)' /\ ListInv(p)' /\ GroupInv(p)'
  <2>1. ReportInv(p) /\ ListInv(p) /\ GroupInv(p)
    BY DEF ShellInv
  <2>2. ReportInv(p)'
    BY <1>2, <1>5, <2>1 DEF ReportInv
  <2>3. ListInv(p)'
    <3>1. CASE p = q
      BY <1>4, <1>5, <1>11, <1>14, <1>15, <3>1 DEF ListInv
    <3>2. CASE p # q
      BY <1>2, <1>4, <1>5, <1>11, <1>14, <2>1, <3>2 DEF ListInv
    <3> QED
      BY <3>1, <3>2
  <2>4. GroupInv(p)'
    <3>1. \A i \in Nums : p \in Members(i)' => p \in Members(i) /\ Leader(i)' = Leader(i)
      BY <1>8, <1>9
    <3> QED
      BY <1>2, <1>11, <2>1, <3>1 DEF GroupInv
  <2> QED
    BY <2>2, <2>3, <2>4
<1>17. PICK c \in Nums : c = cur
  BY <1>1
<1>18. ASSUME NEW p \in Pids
       PROVE  AwakeInv(p)'
  <2>1. AwakeInv(p) /\ ReportInv(p)' /\ ListInv(p)'
    BY <1>16 DEF ShellInv
  <2>2. CASE proc'[p] = "running" /\ p \notin resumed
    <3>1. proc[p] = "running"
      BY <1>5, <2>2
    <3>2. report'[p] = "none" /\ (Listed(p)' => state'[p] = "running")
      BY <1>2, <1>6, <2>1, <2>2 DEF ReportInv, ListInv, TypeOK
    <3>3. p \in Members(c) => p \in Members(c)'
      <4>1. p \in Members(c) /\ p \notin Members(c)' => state'[p] = "terminated"
        BY <1>8, <1>9
      <4>2. Listed(p) => state'[p] # "terminated"
        BY <1>4, <1>5, <2>2, <3>1 DEF ShellInv, ListInv
      <4> QED
        BY <4>1, <4>2 DEF Listed
    <3>4. p \in Members(c)' => p \in Members(c) /\ state'[p] = "running"
      BY <1>8, <1>9, <3>2 DEF Listed
    <3>5. p \in Members(c) /\ jobs[c].foreground => jobs'[c].foreground
      BY <1>3, <1>9, <3>3, <3>4
    <3> QED
      BY <1>2, <1>11, <1>17, <2>1, <2>2, <3>1, <3>3, <3>4, <3>5 DEF AwakeInv
  <2>3. CASE ~(proc'[p] = "running" /\ p \notin resumed)
    BY <1>2, <2>3 DEF AwakeInv
  <2> QED
    BY <2>2, <2>3
<1>19. ASSUME NEW i \in Nums
       PROVE  JobInv(i)' /\ ForegroundInv(i)'
  <2>1. JobInv(i) /\ ForegroundInv(i)
    BY DEF ShellInv
  <2>2. CASE i # j
    <3>1. \A p \in Members(i) : p \in Pids /\ p # q
      BY <1>1, <1>10, <2>2, MembersFacts
    <3>2. \A p \in Members(i) : state'[p] = state[p] /\ report'[p] = report[p]
      BY <1>4, <1>5, <3>1
    <3>3. JobInv(i)'
      BY <1>2, <1>3, <1>8, <1>13, <2>1, <2>2, <3>2 DEF JobInv
    <3>4. ForegroundInv(i)'
      BY <1>2, <1>3, <1>8, <1>13, <2>1, <2>2, <3>2 DEF ForegroundInv
    <3> QED
      BY <3>3, <3>4
  <2>3. CASE i = j
    <3>1. Members(i) # {} /\ jobs[i] # NoJob
      BY <1>1, <1>3, <2>3, MembersFacts
    <3>2. JobInv(i)'
      <4>1. CASE jobs'[j] = NoJob /\ Members(j)' = {}
        <5>1. ~jobs'[i].listed
          BY <2>3, <4>1 DEF NoJob
        <5> QED
          BY <1>2, <2>1, <2>3, <4>1, <5>1 DEF JobInv
      <4>2. CASE Members(j)' = Members(j) /\ jobs'[j].listed = jobs[j].listed
                 /\ \E p \in Members(j) : state'[p] # "terminated"
        BY <1>2, <2>1, <2>3, <3>1, <4>2 DEF JobInv
      <4> QED
        BY <1>9, <4>1, <4>2
    <3>3. ForegroundInv(i)'
      <4>1. jobs'[i].foreground =>
               jobs[i].foreground /\ Members(i)' = Members(i)
               /\ \E p \in Members(i) : state'[p] = "running"
        BY <1>9, <2>3 DEF NoJob
      <4> QED
        BY <1>2, <1>13, <2>1, <4>1 DEF ForegroundInv
    <3> QED
      BY <3>2, <3>3
  <2> QED
    BY <2>2, <2>3
<1>20. OneJobInv'
  <2>1. \A i \in Nums : Members(i)' \subseteq Members(i)
    BY <1>8, <1>9
  <2> QED
    BY <2>1 DEF ShellInv, OneJobInv
<1>21. ControlInv'
  BY <1>1, <1>2, <1>3, <1>7, <1>12, <1>13 DEF ControlInv, Creating
<1>22. RoomInv'
  <2>1. Free' = Free /\ Cardinality(Free)' = Cardinality(Free)
    BY <1>5 DEF Free
  <2> QED
    BY <1>2, <2>1 DEF ShellInv, RoomInv
<1>23. TerminalInv'
  BY <1>2 DEF ShellInv, TerminalInv
<1>24. KeyInv'
  <2>1. CASE key = "echoed" /\ mpc # "exited"
    <3>1. PICK f \in Nums : f = ForegroundJob
      BY <2>1, ForegroundFound DEF ShellInv, KeyInv
    <3>2. jobs[f].foreground /\ Members(f) = {} /\ \A i \in 1..(f - 1) : ~jobs[i].foreground
      BY <2>1, <3>1, ForegroundFound DEF ShellInv, KeyInv
    <3>3. f # j /\ jobs'[f].foreground /\ Members(f)' = {}
      BY <1>3, <1>8, <3>2
    <3>4. \A i \in Nums : jobs'[i].foreground => jobs[i].foreground
      BY <1>3, <1>9 DEF NoJob
    <3>5. \A i \in 1..(f - 1) : ~jobs'[i].foreground
      BY <3>2, <3>4, ShellAssumption DEF Nums
    <3>6. \A i \in Nums :
            jobs'[i].foreground /\ (\A h \in 1..(i - 1) : ~jobs'[h].foreground) <=> i = f
      BY <3>3, <3>5, ShellAssumption DEF Nums
    <3>7. ForegroundJob' = f
      BY <3>6 DEF ForegroundJob
    <3>8. Members(ForegroundJob)' = Members(f)'
      BY <3>7 DEF Members
    <3>9. HasForegroundJob'
      BY <3>3 DEF HasForegroundJob
    <3> QED
      BY <3>3, <3>8, <3>9 DEF KeyInv
  <2> QED
    BY <1>2, <2>1 DEF KeyInv
<1> QED
  BY <1>6, <1>16, <1>18, <1>19, <1>20, <1>21, <1>22, <1>23, <1>24 DEF ShellInv
-----------------------------------------------------------------------------
(* The theorems                                                            *)

\* The list is empty, and there are no children.
LEMMA ShellInitial == Init => ShellInv
<1> SUFFICES ASSUME Init PROVE ShellInv
  OBVIOUS
<1>1. 1 \in Pids /\ 1 \in Nums
  BY ShellAssumption DEF Pids, Nums
<1>2. TypeOK
  <2>1. NoJob \in [listed : BOOLEAN, foreground : BOOLEAN, processes : Seq(Pids)]
    BY DEF NoJob
  <2>2. cmd \in Commands
    BY ShellAssumption DEF Init, Commands
  <2>3. 1 \in 1..(MaxJobs + 1) /\ 1 \in 1..(MaxProcs + 1)
    BY ShellAssumption
  <2>4. jobs \in [Nums -> [listed : BOOLEAN, foreground : BOOLEAN, processes : Seq(Pids)]]
    BY <2>1 DEF Init
  <2> QED
    BY <1>1, <2>2, <2>3, <2>4 DEF Init, TypeOK
<1>3. \A j \in Nums : jobs[j] = NoJob /\ Members(j) = {} /\ ~jobs[j].foreground /\ ~jobs[j].listed
  BY <1>2, MembersFacts DEF Init
<1>4. \A p \in Pids : ~Listed(p) /\ ~Newborn(p)
  BY <1>3 DEF Listed, Newborn, Init
<1>5. \A p \in Pids : ReportInv(p) /\ ListInv(p) /\ GroupInv(p) /\ AwakeInv(p)
  BY <1>3, <1>4 DEF Init, ReportInv, ListInv, GroupInv, AwakeInv
<1>6. \A j \in Nums : JobInv(j) /\ ForegroundInv(j)
  BY <1>3 DEF Init, JobInv, ForegroundInv
<1>7. OneJobInv /\ ControlInv /\ RoomInv /\ TerminalInv /\ KeyInv
  BY <1>3 DEF Init, OneJobInv, ControlInv, RoomInv, TerminalInv, KeyInv, Creating
<1> QED
  BY <1>2, <1>5, <1>6, <1>7 DEF ShellInv

\* A step of somebody else.
LEMMA ShellStutters ==
  ASSUME ShellInv, UNCHANGED vars
  PROVE  ShellInv'
<1>1. UNCHANGED <<jobs, next, state, mpc, cur, k, cmd, child, orig, stdinOpen, blocked, pending,
                  handling, key, proc, phase, group, report, terminal, failed, resumed>>
  BY DEF vars, list, locals, signals, children, history
<1>2. /\ \A j \in Nums : Members(j)' = Members(j) /\ Leader(j)' = Leader(j)
      /\ \A p : Listed(p)' = Listed(p)
      /\ HasForegroundJob' = HasForegroundJob /\ ForegroundJob' = ForegroundJob
  BY <1>1, ListFrame
<1>3. /\ TypeOK' /\ (Creating' <=> Creating) /\ \A p : Newborn(p)' <=> Newborn(p)
      /\ cur \in Nums
  BY <1>1 DEF ShellInv, TypeOK, Creating, Newborn
<1>4. ASSUME NEW p \in Pids
      PROVE  ReportInv(p)' /\ ListInv(p)' /\ GroupInv(p)' /\ AwakeInv(p)'
  <2>1. ReportInv(p)' /\ ListInv(p)'
    BY <1>1, <1>2, <1>3 DEF ShellInv, ReportInv, ListInv
  <2>2. GroupInv(p)' /\ AwakeInv(p)'
    BY <1>1, <1>2, <1>3 DEF ShellInv, GroupInv, AwakeInv
  <2> QED
    BY <2>1, <2>2
<1>5. ASSUME NEW j \in Nums
      PROVE  JobInv(j)' /\ ForegroundInv(j)'
  BY <1>1, <1>2, <1>3 DEF ShellInv, JobInv, ForegroundInv
<1>6. OneJobInv' /\ ControlInv' /\ TerminalInv'
  BY <1>1, <1>2, <1>3 DEF ShellInv, OneJobInv, ControlInv, TerminalInv
<1>7. RoomInv'
  BY <1>1 DEF ShellInv, RoomInv, Free
<1>8. KeyInv'
  BY <1>1 DEF ShellInv, KeyInv, HasForegroundJob, Members, ForegroundJob
<1> QED
  BY <1>3, <1>4, <1>5, <1>6, <1>7, <1>8 DEF ShellInv

\* Every step keeps the invariant.
LEMMA ShellNextKeeps ==
  ASSUME ShellInv, [Next]_vars
  PROVE  ShellInv'
<1>1. CASE ControlStep
  BY <1>1, ControlKeeps
<1>2. CASE AddJob
  BY <1>2, AddJobKeeps
<1>3. CASE Fork
  BY <1>3, ForkKeeps
<1>4. CASE Adopt
  BY <1>4, AdoptKeeps
<1>5. CASE \E j \in Nums, inForeground \in BOOLEAN : Resume(j, inForeground)
  BY <1>5, ResumeKeeps
<1>6. CASE \E p \in Pids, sig \in {"SIGKILL", "SIGSTOP", "SIGCONT"} : SendSignal(p, sig)
  BY <1>6, SignalKeeps
<1>7. CASE \E p \in Pids : Reap(p)
  BY <1>7, ReapKeeps
<1>8. CASE \E p \in Pids : Child(p)
  <2>1. PICK p \in Pids : Child(p)
    BY <1>8
  <2>2. CASE SetOwnGroup(p) \/ TakeTerminal(p) \/ Exec(p)
    BY <2>2, ChildKeeps
  <2>3. CASE Change(p) \/ ContinueFromOutside(p)
    BY <2>3, ChangeKeeps
  <2> QED
    BY <2>1, <2>2, <2>3 DEF Child
<1>9. CASE UNCHANGED vars
  BY <1>9, ShellStutters
<1> QED
  BY <1>1, <1>2, <1>3, <1>4, <1>5, <1>6, <1>7, <1>8, <1>9 DEF Next, ShellStep, Command, Handler,
                                                              ControlStep

\* The inductive invariant, on which the theorems below rest.
THEOREM ShellInvariant == Spec => []ShellInv
<1>1. Init => ShellInv
  BY ShellInitial
<1>2. ShellInv /\ [Next]_vars => ShellInv'
  BY ShellNextKeeps
<1> QED
  BY <1>1, <1>2, PTL DEF Spec

\* The shell's variables keep their types; in particular fork() finds a pid for
\* every command of a line, and the current job is one that the list has.
THEOREM ShellTypeCorrect == Spec => []TypeOK
<1>1. ShellInv => TypeOK
  BY DEF ShellInv
<1> QED
  BY <1>1, ShellInvariant, PTL

\* updateJobList() keeps the list of jobs equal to what the kernel knows, as far
\* as it has been told, for any number of jobs and processes.
THEOREM ListCorrect == Spec => []ListMatchesKernel
<1>1. ASSUME ShellInv, mpc # "exited", NEW p \in Pids
      PROVE  /\ report[p] # "none" => pending \/ handling
             /\ IF \E j \in Nums : p \in Members(j)
                THEN report[p] = "none" =>
                        \/ proc[p] = state[p]
                        \/ proc[p] = "reaped" /\ state[p] = "terminated"
                ELSE proc[p] \in {"none", "reaped"} \/ (mpc = "adopt" /\ p = child)
  <2>1. ReportInv(p) /\ ListInv(p)
    BY <1>1 DEF ShellInv
  <2>2. Listed(p) <=> \E j \in Nums : p \in Members(j)
    BY DEF Listed
  <2> QED
    BY <1>1, <2>1, <2>2 DEF ReportInv, ListInv, Newborn
<1>2. ShellInv => ListMatchesKernel
  BY <1>1 DEF ListMatchesKernel
<1> QED
  BY <1>2, ShellInvariant, PTL

\* The prompt comes back only when the foreground is empty, for any number of
\* jobs and processes.
THEOREM PromptCorrect == Spec => []PromptMeansBackground
<1>1. ASSUME ShellInv, mpc = "prompt"
      PROVE  /\ \A j \in Nums \ failed : ~jobs[j].foreground
             /\ cur \notin failed /\ ~cmd.background =>
                   \A p \in Members(cur) \ resumed : proc[p] # "running"
  <2>1. TypeOK /\ cur \in Nums
    BY <1>1 DEF ShellInv, TypeOK
  <2>2. \A j \in Nums \ failed : ~jobs[j].foreground
    BY <1>1 DEF ShellInv, ForegroundInv, Creating
  <2>3. Members(cur) \subseteq Pids /\ \A p \in Pids : AwakeInv(p)
    BY <1>1, <2>1, MembersFacts DEF ShellInv
  <2> QED
    BY <1>1, <2>1, <2>2, <2>3 DEF AwakeInv
<1>2. ShellInv => PromptMeansBackground
  BY <1>1 DEF PromptMeansBackground
<1> QED
  BY <1>2, ShellInvariant, PTL

\* createJob() gives the terminal back to whom it had it from, for any number of
\* jobs and processes.
THEOREM TerminalCorrect == Spec => []TerminalAtPrompt
<1>1. ShellInv => TerminalAtPrompt
  BY DEF ShellInv, TerminalInv, TerminalAtPrompt
<1> QED
  BY <1>1, ShellInvariant, PTL

\* The shell never sleeps in sigsuspend() for a job that nobody is going to
\* report on, for any number of jobs and processes.
THEOREM SleepCorrect == Spec => []SleepJustified
<1>1. ASSUME ShellInv, mpc = "suspend", ~handling, ~pending
      PROVE  \E j \in Nums : /\ jobs[j].foreground
                             /\ j \in failed \/ \E p \in Members(j) : proc[p] = "running"
  <2>1. PICK j \in Nums : jobs[j].foreground
    BY <1>1 DEF ShellInv, ControlInv, HasForegroundJob
  <2>2. CASE j \notin failed
    <3>1. Members(j) # {} /\ Members(j) \subseteq Pids
      BY <1>1, <2>1, <2>2, MembersFacts DEF ShellInv, JobInv, Creating, NoJob
    <3>2. PICK p \in Members(j) : state[p] = "running" \/ report[p] # "none"
      BY <1>1, <2>1, <2>2, <3>1 DEF ShellInv, ForegroundInv
    <3>3. ReportInv(p) /\ ListInv(p) /\ Listed(p)
      BY <1>1, <3>1, <3>2 DEF ShellInv, Listed
    <3>4. proc[p] = "running"
      BY <1>1, <3>2, <3>3 DEF ReportInv, ListInv
    <3> QED
      BY <2>1, <3>2, <3>4
  <2> QED
    BY <2>1, <2>2
<1>2. ShellInv => SleepJustified
  BY <1>1 DEF SleepJustified
<1> QED
  BY <1>2, ShellInvariant, PTL

\* sendToForeground() signals the shell itself only for a job that has no process
\* yet, or that an exception left without one, for any number of jobs.
THEOREM EchoCorrect == Spec => []EchoesOnlyForEmptyJob
<1>1. ASSUME ShellInv, key = "echoed", mpc # "exited"
      PROVE  /\ HasForegroundJob /\ Members(ForegroundJob) = {}
             /\ \/ ForegroundJob \in failed
                \/ /\ ForegroundJob = cur
                   /\ mpc \in {"openInput", "block", "openOutput", "fork", "adopt"}
  <2>1. HasForegroundJob /\ Members(ForegroundJob) = {}
    BY <1>1 DEF ShellInv, KeyInv
  <2>2. ForegroundJob \in Nums /\ jobs[ForegroundJob].foreground
    BY <2>1, ForegroundFound
  <2>3. JobInv(ForegroundJob) /\ jobs[ForegroundJob].listed
    BY <1>1, <2>2, MembersFacts DEF ShellInv, JobInv
  <2> QED
    BY <1>1, <2>1, <2>3 DEF JobInv, Creating
<1>2. ShellInv => EchoesOnlyForEmptyJob
  BY <1>1 DEF EchoesOnlyForEmptyJob
<1> QED
  BY <1>2, ShellInvariant, PTL
=============================================================================
