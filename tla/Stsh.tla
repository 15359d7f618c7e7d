-------------------------------- MODULE Stsh --------------------------------
(***************************************************************************)
(* assign4/stsh.cc, stsh-job-list.cc, stsh-job.cc: a shell with job control*)
(* and its children.  The shell keeps a list of jobs, which the handler of *)
(* SIGCHLD updates from what waitpid reports; the children change state by *)
(* themselves, by signals from anywhere, or because the shell signals them.*)
(*                                                                         *)
(* A handler runs on the shell's thread, between any two steps at which its*)
(* signal is not blocked; handlers do not interrupt each other.  What a    *)
(* SIGINT or SIGTSTP does to a child is among the changes that a child can *)
(* undergo at any time; what it does to the shell is SendToForeground.  Of *)
(* the calls to the system open, setpgid, kill, killpg and exec can fail.  *)
(***************************************************************************)
EXTENDS Integers, Sequences, FiniteSets

CONSTANTS
    MaxProcs,       \* bound: processes the shell forks; pids are not used again
    MaxJobs         \* bound: jobs the shell creates

ASSUME ShellAssumption == MaxProcs \in Nat \ {0} /\ MaxJobs \in Nat \ {0}

Pids == 1..MaxProcs
Nums == 1..MaxJobs
Shell == 0          \* the shell's own process group

VARIABLES
    jobs, next, state,              \* joblist; the state it holds of a process
    mpc, cur, k, cmd, child, orig,  \* the shell: pc, job, process index, command, locals
    stdinOpen,                      \* the shell can read another line
    blocked, pending, handling,     \* SIGCHLD blocked, pending, being handled
    key,                            \* SIGINT or SIGTSTP for the shell: "none",
                                    \* "typed", or "echoed" by its own handler
    proc, phase, group, report,     \* the children, and what waitpid has to say of them
    terminal,                       \* the foreground group of the terminal
    failed,     \* history: jobs whose creation ended in an exception
    resumed     \* history: processes continued by somebody

list     == <<jobs, next, state>>
locals   == <<cur, k, cmd, child, orig>>
signals  == <<blocked, pending, handling, key>>
children == <<proc, phase, group, report>>
history  == <<failed, resumed>>
vars     == <<list, mpc, locals, stdinOpen, signals, children, terminal, history>>

NoJob == [listed |-> FALSE, foreground |-> FALSE, processes |-> <<>>]
Commands == [n : 1..MaxProcs, background : BOOLEAN, stdin : BOOLEAN]

Init ==
    /\ jobs = [j \in Nums |-> NoJob] /\ next = 1
    /\ state = [p \in Pids |-> "waiting"]
    /\ mpc = "prompt" /\ cur = 1 /\ k = 1 /\ child = 1 /\ orig = Shell
    /\ cmd = [n |-> 1, background |-> TRUE, stdin |-> TRUE]
    /\ stdinOpen = TRUE
    /\ blocked = FALSE /\ pending = FALSE /\ handling = FALSE /\ key = "none"
    /\ proc = [p \in Pids |-> "none"] /\ phase = [p \in Pids |-> "exec"]
    /\ group = [p \in Pids |-> Shell] /\ report = [p \in Pids |-> "none"]
    /\ terminal = Shell
    /\ failed = {} /\ resumed = {}

Members(j) == {jobs[j].processes[x] : x \in DOMAIN jobs[j].processes}

\* STSHJob::getGroupID()
Leader(j) == IF jobs[j].processes = <<>> THEN Shell ELSE jobs[j].processes[1]

\* STSHJobList::getForegroundJob(), the first in the order of numbers, and
\* hasForegroundJob()
HasForegroundJob == \E j \in Nums : jobs[j].foreground
ForegroundJob ==
    CHOOSE j \in Nums : jobs[j].foreground /\ \A i \in 1..(j - 1) : ~jobs[i].foreground

\* The processes that kill(-g) and killpg(g) find; they fail if there is none.
InGroup(g) == {p \in Pids : group[p] = g /\ proc[p] \notin {"none", "reaped"}}

\* A pending signal is handled before the shell goes on.
Goto(from, to) == ~handling /\ key = "none" /\ mpc = from /\ mpc' = to

\* An exception reaches main(), which prints it and prompts again.
ThrowFrom(from) == Goto(from, "prompt")

\* SIGCONT for the processes in S: an unreported stop is forgotten.
Continue(S) ==
    LET woken == {p \in S : proc[p] = "stopped"} IN
    /\ proc' = [p \in Pids |-> IF p \in woken THEN "running" ELSE proc[p]]
    /\ report' = [p \in Pids |-> IF p \in woken THEN "continued" ELSE report[p]]
    /\ pending' = (pending \/ woken # {})
    /\ resumed' = resumed \union woken

-----------------------------------------------------------------------------
(* createJob()                                                             *)

\* handleBuiltin() has returned false.  The bound on processes is in Fork.
AddJob ==
    /\ stdinOpen /\ next \in Nums
    /\ \E c \in Commands :
          /\ Goto("prompt", IF c.stdin THEN "block" ELSE "openInput")
          /\ cmd' = c /\ c.n <= Cardinality({p \in Pids : proc[p] = "none"})
          /\ jobs' = [jobs EXCEPT ![next] =
                [listed |-> TRUE, foreground |-> ~c.background, processes |-> <<>>]]
    /\ cur' = next /\ next' = next + 1 /\ k' = 1
    /\ UNCHANGED <<state, child, orig, stdinOpen, signals, children, terminal, history>>

OpenInput ==
    /\ \/ Goto("openInput", "block") /\ UNCHANGED failed
       \/ ThrowFrom("openInput") /\ failed' = failed \union {cur}
    /\ UNCHANGED <<list, locals, stdinOpen, signals, children, terminal, resumed>>

\* Mutation: SIGCHLD stays open while the job is created.
BlockForJob_Open ==
    /\ Goto("block", "openOutput")
    /\ orig' = IF cmd.stdin /\ ~cmd.background THEN terminal ELSE orig
    /\ UNCHANGED <<list, cur, k, cmd, child, stdinOpen, signals, children, terminal, history>>

\* Block SIGCHLD, and remember who has the terminal.
BlockForJob ==
    /\ Goto("block", "openOutput")
    /\ blocked' = TRUE
    /\ orig' = IF cmd.stdin /\ ~cmd.background THEN terminal ELSE orig
    /\ UNCHANGED <<list, cur, k, cmd, child, stdinOpen, pending, handling, key, children,
                   terminal, history>>

\* A pipe, or the standard output, or a file.
OpenOutput ==
    /\ \/ Goto("openOutput", "fork") /\ UNCHANGED failed
       \/ k = cmd.n /\ ThrowFrom("openOutput") /\ failed' = failed \union {cur}
    /\ UNCHANGED <<list, locals, stdinOpen, signals, children, terminal, resumed>>

\* Only the first process of a foreground job that reads from the terminal
\* moves itself to its group.
Fork ==
    LET own == k = 1 /\ cmd.stdin /\ ~cmd.background IN
    /\ Goto("fork", "adopt")
    /\ child' = CHOOSE p \in Pids : proc[p] = "none" /\ \A q \in 1..(p - 1) : proc[q] # "none"
    /\ proc' = [proc EXCEPT ![child'] = "running"]
    /\ phase' = [phase EXCEPT ![child'] = IF own THEN "setpgid" ELSE "start"]
    /\ UNCHANGED <<list, cur, k, cmd, orig, stdinOpen, signals, group, report, terminal,
                   history>>

\* addProcess() and setpgid(), which fails once the child has called exec: the
\* descriptors are closed, the standard input of the shell among them.
Adopt ==
    /\ jobs' = [jobs EXCEPT ![cur].processes = Append(@, child)]
    /\ state' = [state EXCEPT ![child] = "running"]
    /\ IF phase[child] = "exec"
         THEN /\ ThrowFrom("adopt") /\ failed' = failed \union {cur}
              /\ stdinOpen' = ~(k = 1 /\ cmd.stdin)
              /\ UNCHANGED <<k, group>>
         ELSE /\ Goto("adopt", IF k < cmd.n THEN "openOutput" ELSE "placed")
              /\ group' = [group EXCEPT ![child] = jobs'[cur].processes[1]]
              /\ k' = k + 1
              /\ UNCHANGED <<failed, stdinOpen>>
    /\ UNCHANGED <<next, cur, cmd, child, orig, signals, proc, phase, report, terminal,
                   resumed>>

\* Hand over the terminal and wait, wait, or do neither.
PlaceJob ==
    /\ Goto("placed", IF cmd.background THEN "unblock" ELSE "wait")
    /\ terminal' = IF ~cmd.background /\ cmd.stdin THEN Leader(cur) ELSE terminal
    /\ UNCHANGED <<list, locals, stdinOpen, signals, children, history>>

\* waitForForeground()
WaitForForeground ==
    /\ Goto("wait", IF HasForegroundJob THEN "suspend"
                    ELSE IF cmd.stdin THEN "restore" ELSE "unblock")
    /\ UNCHANGED <<list, locals, stdinOpen, signals, children, terminal, history>>

\* Mutation: the terminal goes to the job once more.
RestoreTerminal_ToJob ==
    /\ Goto("restore", "unblock")
    /\ terminal' = Leader(cur)
    /\ UNCHANGED <<list, locals, stdinOpen, signals, children, history>>

RestoreTerminal ==
    /\ Goto("restore", "unblock")
    /\ terminal' = orig
    /\ UNCHANGED <<list, locals, stdinOpen, signals, children, history>>

Unblock ==
    /\ Goto("unblock", "prompt")
    /\ blocked' = FALSE
    /\ UNCHANGED <<list, locals, stdinOpen, pending, handling, key, children, terminal, history>>

-----------------------------------------------------------------------------
(* The builtins                                                            *)

\* fg and bg.  The decision rests on the states in the list.  No terminal is
\* handed over, so the command is one that does not read from it.
Resume(j, inForeground) ==
    LET isRunning == \E p \in Members(j) : state[p] = "running"
        target    == InGroup(Leader(j))
    IN
    /\ stdinOpen /\ blocked' = TRUE
    /\ cmd' = [cmd EXCEPT !.stdin = FALSE]
    /\ IF ~jobs[j].listed
         THEN ThrowFrom("prompt") /\ UNCHANGED <<jobs, proc, report, pending, resumed>>
         ELSE /\ jobs' = [jobs EXCEPT ![j].foreground = inForeground]
              /\ IF isRunning \/ target # {} \/ Leader(j) = Shell
                   THEN Goto("prompt", IF inForeground THEN "wait" ELSE "unblock")
                   ELSE ThrowFrom("prompt")
              /\ Continue(IF isRunning THEN {} ELSE target)
    /\ UNCHANGED <<next, state, cur, k, child, orig, stdinOpen, handling, key, phase, group,
                   terminal, failed>>

\* slay, halt and cont.  Two ways out leave SIGCHLD blocked: an exception, and
\* the return when the list says that there is nothing to do.
SendSignal(p, sig) ==
    LET inList  == \E j \in Nums : p \in Members(j)
        nothing == \/ sig = "SIGSTOP" /\ state[p] = "stopped"
                   \/ sig = "SIGCONT" /\ state[p] = "running"
        stops   == sig = "SIGSTOP" /\ proc[p] = "running"
        dies    == sig = "SIGKILL" /\ proc[p] \in {"running", "stopped"}
    IN
    /\ stdinOpen /\ blocked' = TRUE
    /\ IF ~inList \/ nothing \/ proc[p] = "reaped"
         THEN ThrowFrom("prompt") /\ UNCHANGED <<proc, report, pending, resumed>>
         ELSE /\ Goto("prompt", "unblock")
              /\ IF stops \/ dies
                   THEN /\ proc' = [proc EXCEPT ![p] = IF stops THEN "stopped" ELSE "zombie"]
                        /\ report' = [report EXCEPT ![p] = IF stops THEN "stopped" ELSE "exited"]
                        /\ pending' = TRUE /\ UNCHANGED resumed
                   ELSE Continue(IF sig = "SIGCONT" THEN {p} ELSE {})
    /\ UNCHANGED <<list, locals, stdinOpen, handling, key, phase, group, terminal, failed>>

\* quit, exit, or the end of the input.
Quit ==
    /\ Goto("prompt", "exited")
    /\ UNCHANGED <<list, locals, stdinOpen, signals, children, terminal, history>>

-----------------------------------------------------------------------------
(* updateJobList(), the handler of SIGCHLD.                                *)

Deliver ==
    /\ mpc # "exited" /\ ~handling /\ pending
    /\ ~blocked \/ mpc = "suspend"
    /\ handling' = TRUE /\ pending' = FALSE
    /\ UNCHANGED <<list, mpc, locals, stdinOpen, blocked, key, children, terminal, history>>

\* STSHJobList::synchronize(), after the list has taken over the new states.
Synchronize(j, states) ==
    jobs' = [jobs EXCEPT ![j] =
        IF \A p \in Members(j) : states[p] = "terminated" THEN NoJob
        ELSE [jobs[j] EXCEPT !.foreground = @ /\ \E p \in Members(j) : states[p] = "running"]]

\* Mutation: a continued process is taken for one that nothing happened to.
Reap_NotContinued(p) ==
    /\ handling
    /\ report[p] # "none" /\ report' = [report EXCEPT ![p] = "none"]
    /\ proc' = [proc EXCEPT ![p] = IF report[p] = "exited" THEN "reaped" ELSE @]
    /\ IF report[p] # "continued" /\ \E j \in Nums : p \in Members(j)
         THEN /\ state' = [state EXCEPT ![p] =
                    IF report[p] = "exited" THEN "terminated" ELSE "stopped"]
              /\ \E j \in Nums : p \in Members(j) /\ Synchronize(j, state')
         ELSE UNCHANGED <<jobs, state>>
    /\ UNCHANGED <<next, mpc, locals, stdinOpen, signals, phase, group, terminal, history>>

\* One report of waitpid, and updateJobListHelper().
Reap(p) ==
    /\ handling
    /\ report[p] # "none" /\ report' = [report EXCEPT ![p] = "none"]
    /\ proc' = [proc EXCEPT ![p] = IF report[p] = "exited" THEN "reaped" ELSE @]
    /\ IF \E j \in Nums : p \in Members(j)
         THEN /\ state' = [state EXCEPT ![p] =
                    CASE report[p] = "exited"    -> "terminated"
                      [] report[p] = "stopped"   -> "stopped"
                      [] report[p] = "continued" -> "running"]
              /\ \E j \in Nums : p \in Members(j) /\ Synchronize(j, state')
         ELSE UNCHANGED <<jobs, state>>
    /\ UNCHANGED <<next, mpc, locals, stdinOpen, signals, phase, group, terminal, history>>

\* Mutation: waitForForeground() checks once and not again.
HandlerReturns_NoRecheck ==
    /\ handling /\ \A p \in Pids : report[p] = "none"
    /\ handling' = FALSE
    /\ mpc' = IF mpc # "suspend" THEN mpc ELSE IF cmd.stdin THEN "restore" ELSE "unblock"
    /\ UNCHANGED <<list, locals, stdinOpen, blocked, pending, key, children, terminal, history>>

HandlerReturns ==
    /\ handling /\ \A p \in Pids : report[p] = "none"
    /\ handling' = FALSE
    /\ mpc' = IF mpc = "suspend" THEN "wait" ELSE mpc
    /\ UNCHANGED <<list, locals, stdinOpen, blocked, pending, key, children, terminal, history>>

-----------------------------------------------------------------------------
(* sendToForeground(), the handler of SIGINT and SIGTSTP, and SIGQUIT.      *)

TypeKey ==
    /\ mpc # "exited" /\ key = "none" /\ key' = "typed"
    /\ UNCHANGED <<list, mpc, locals, stdinOpen, blocked, pending, handling, children,
                   terminal, history>>

\* Mutation: nobody asks whether there is a foreground job; njob has no process.
SendToForeground_NoCheck ==
    LET g == IF HasForegroundJob THEN Leader(ForegroundJob) ELSE Shell IN
    /\ mpc # "exited" /\ ~handling /\ key # "none"
    /\ key' = IF g = Shell THEN "echoed" ELSE "none"
    /\ mpc' = IF mpc = "suspend" THEN "wait" ELSE mpc
    /\ UNCHANGED <<list, locals, stdinOpen, blocked, pending, handling, children, terminal,
                   history>>

\* The group of a job without processes is 0: killpg(0) signals the shell's own
\* group, and the handler starts again as soon as it returns.  An exception
\* that leaves a handler is taken to end the shell.
SendToForeground ==
    LET g == Leader(ForegroundJob)
        own == HasForegroundJob /\ g = Shell
        fails == HasForegroundJob /\ g # Shell /\ InGroup(g) = {}
    IN
    /\ mpc # "exited" /\ ~handling /\ key # "none"
    /\ key' = IF own THEN "echoed" ELSE "none"
    /\ mpc' = IF fails THEN "exited" ELSE IF mpc = "suspend" THEN "wait" ELSE mpc
    /\ UNCHANGED <<list, locals, stdinOpen, blocked, pending, handling, children, terminal,
                   history>>

QuitSignal ==
    /\ mpc # "exited" /\ ~handling /\ mpc' = "exited"
    /\ UNCHANGED <<list, locals, stdinOpen, signals, children, terminal, history>>

-----------------------------------------------------------------------------
(* The children.                                                           *)

Runs(p, at) == mpc # "exited" /\ proc[p] = "running" /\ phase[p] = at

SetOwnGroup(p) ==
    /\ Runs(p, "setpgid") /\ phase' = [phase EXCEPT ![p] = "tcsetpgrp"]
    /\ group' = [group EXCEPT ![p] = p]
    /\ UNCHANGED <<list, mpc, locals, stdinOpen, signals, proc, report, terminal, history>>

\* SIGTTOU is ignored here, so a process in the background gets it too.
TakeTerminal(p) ==
    /\ Runs(p, "tcsetpgrp") /\ phase' = [phase EXCEPT ![p] = "start"]
    /\ terminal' = group[p]
    /\ UNCHANGED <<list, mpc, locals, stdinOpen, signals, proc, group, report, history>>

Exec(p) ==
    /\ Runs(p, "start") /\ phase' = [phase EXCEPT ![p] = "exec"]
    /\ UNCHANGED <<list, mpc, locals, stdinOpen, signals, proc, group, report, terminal,
                   history>>

\* The child ends, is killed or is stopped, by whatever and whenever.
Change(p) ==
    /\ mpc # "exited"
    /\ \/ /\ proc[p] \in {"running", "stopped"}
          /\ proc' = [proc EXCEPT ![p] = "zombie"]
          /\ report' = [report EXCEPT ![p] = "exited"]
       \/ /\ proc[p] = "running"
          /\ proc' = [proc EXCEPT ![p] = "stopped"]
          /\ report' = [report EXCEPT ![p] = "stopped"]
    /\ pending' = TRUE
    /\ UNCHANGED <<list, mpc, locals, stdinOpen, blocked, handling, key, phase, group, terminal,
                   history>>

\* Somebody other than the shell continues it.
ContinueFromOutside(p) ==
    /\ mpc # "exited" /\ proc[p] = "stopped"
    /\ Continue({p})
    /\ UNCHANGED <<list, mpc, locals, stdinOpen, blocked, handling, key, phase, group, terminal,
                   failed>>

-----------------------------------------------------------------------------
ShellStep ==
    \/ OpenInput \/ BlockForJob \/ OpenOutput \/ Fork \/ Adopt \/ PlaceJob
    \/ WaitForForeground \/ RestoreTerminal \/ Unblock

\* What the user may type.
Command ==
    \/ AddJob \/ Quit
    \/ \E j \in Nums, inForeground \in BOOLEAN : Resume(j, inForeground)
    \/ \E p \in Pids, sig \in {"SIGKILL", "SIGSTOP", "SIGCONT"} : SendSignal(p, sig)

Handler ==
    \/ Deliver \/ HandlerReturns \/ \E p \in Pids : Reap(p)
    \/ TypeKey \/ SendToForeground \/ QuitSignal

Child(p) ==
    \/ SetOwnGroup(p) \/ TakeTerminal(p) \/ Exec(p)
    \/ Change(p) \/ ContinueFromOutside(p)

Next == ShellStep \/ Command \/ Handler \/ \E p \in Pids : Child(p)

Spec == Init /\ [][Next]_vars

-----------------------------------------------------------------------------
(* Properties                                                              *)

\* Type correctness.  In particular the current job is one the list has numbered
\* (addJob()), and the terminal always has an owner.
TypeOK ==
    /\ jobs \in [Nums -> [listed : BOOLEAN, foreground : BOOLEAN, processes : Seq(Pids)]]
    /\ next \in 1..(MaxJobs + 1)
    /\ state \in [Pids -> {"waiting", "running", "stopped", "terminated"}]
    /\ mpc \in {"prompt", "openInput", "block", "openOutput", "fork", "adopt", "placed",
                "wait", "suspend", "restore", "unblock", "exited"}
    /\ cur \in Nums /\ k \in 1..(MaxProcs + 1) /\ cmd \in Commands
    /\ child \in Pids /\ orig \in Pids \union {Shell}
    /\ stdinOpen \in BOOLEAN
    /\ blocked \in BOOLEAN /\ pending \in BOOLEAN /\ handling \in BOOLEAN
    /\ key \in {"none", "typed", "echoed"}
    /\ proc \in [Pids -> {"none", "running", "stopped", "zombie", "reaped"}]
    /\ phase \in [Pids -> {"setpgid", "tcsetpgrp", "start", "exec"}]
    /\ group \in [Pids -> Pids \union {Shell}]
    /\ report \in [Pids -> {"none", "stopped", "continued", "exited"}]
    /\ terminal \in Pids \union {Shell}
    /\ failed \subseteq Nums /\ resumed \subseteq Pids

\* Where no report is outstanding, the list has the state the kernel has, and a
\* child that is not in the list was just forked, or is gone; a report that is
\* outstanding has its SIGCHLD still to come, or its handler at work
\* (updateJobList(), although reports are merged into one signal and arrive
\* while jobs are created).
ListMatchesKernel ==
    mpc # "exited" => \A p \in Pids :
        /\ report[p] # "none" => pending \/ handling
        /\ IF \E j \in Nums : p \in Members(j)
           THEN report[p] = "none" =>
                   \/ proc[p] = state[p]
                   \/ proc[p] = "reaped" /\ state[p] = "terminated"
           ELSE proc[p] \in {"none", "reaped"} \/ (mpc = "adopt" /\ p = child)

\* The shell prompts only when no job is in the foreground, unless an exception
\* left that job half-made, and when every process of the last foreground job has
\* stopped or ended; what somebody continued since then runs in the background
\* (createJob(), resume() and waitForForeground()).
PromptMeansBackground ==
    mpc = "prompt" =>
        /\ \A j \in Nums \ failed : ~jobs[j].foreground
        /\ cur \notin failed /\ ~cmd.background =>
              \A p \in Members(cur) \ resumed : proc[p] # "running"

\* The shell that prompts owns the terminal: createJob() takes it back.  Two ways
\* to lose it are left out: an exception before line 489, and a child that was
\* stopped before its tcsetpgrp() and gets there when it is continued.
TerminalAtPrompt ==
    mpc = "prompt" /\ failed = {} => terminal \in {Shell} \union resumed

\* No wakeup is lost between the check of waitForForeground() and sigsuspend():
\* when the shell sleeps and no signal is on its way, a process of a foreground
\* job runs, and so can wake it; or the job is one that an exception left behind.
SleepJustified ==
    mpc = "suspend" /\ ~handling /\ ~pending =>
        \E j \in Nums : /\ jobs[j].foreground
                        /\ j \in failed \/ \E p \in Members(j) : proc[p] = "running"

\* The handler of SIGINT and SIGTSTP, which "skips the shell" (line 317), signals
\* the shell itself, and so starts again for ever, only while a foreground job
\* has no process yet, or was left without one by an exception.
EchoesOnlyForEmptyJob ==
    key = "echoed" /\ mpc # "exited" =>
        /\ HasForegroundJob /\ Members(ForegroundJob) = {}
        /\ \/ ForegroundJob \in failed
           \/ ForegroundJob = cur /\ mpc \in {"openInput", "block", "openOutput", "fork", "adopt"}

\* stsh-job-list.h says of the foreground job that "there can be at most one".
\* The code breaks this: a job that createJob() gives up stays in the foreground.
AtMostOneForeground ==
    Cardinality({j \in Nums : jobs[j].foreground}) <= 1
=============================================================================
