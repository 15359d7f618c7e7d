------------------------------- MODULE Trace -------------------------------
(***************************************************************************)
(* assign3, trace.cc: runs a program under ptrace and prints each of its   *)
(* system calls, as numbers (--simple) or with name, arguments and error.  *)
(*                                                                         *)
(* The tracee runs between two stops: at the entry and at the exit of a    *)
(* system call, and where a signal is delivered.  The tracer wakes up at   *)
(* each stop and at the end of the tracee.                                 *)
(***************************************************************************)
EXTENDS SystemCalls

CONSTANTS
    Calls,              \* what a tracee calls: [number, args, results]
    CommandLines,       \* sequences of flags, then what to trace
    ExitGroup,          \* the number of exit_group
    Half,               \* an int is in -Half..Half-1: 2^31
    MaxCalls, MaxSignals, MaxRuns   \* bounds

ASSUME TraceAssumption ==
    /\ Half \in Nat \ {0} /\ \A k \in {MaxCalls, MaxSignals, MaxRuns} : k \in Nat
    /\ \A c \in Calls : c.results \subseteq Int
    /\ ErrorLines \in Seq([matches : BOOLEAN, name : STRING, number : Nat])

VARIABLES
    phase,              \* where main() stands
    simple, rebuild,    \* the flags
    state, stop,        \* the tracee, and what it is stopped for
    call,               \* the call the tracee is in, or << >>
    calls,              \* history: its calls, with their results
    signals,            \* bound
    printed,            \* what trace printed: calls, with what they returned
    runs                \* bound

tracee == <<state, stop, call, calls, signals>>
tracer == <<phase, simple, rebuild, printed, runs>>
vars == <<tables, tracee, tracer>>

\* What is printed of a value, an argument or a result.
Value(v) == [value |-> v]
NoReturn == [returns |-> FALSE]
NotYet == [printed |-> FALSE]
NoSignature == <<[signature |-> FALSE]>>

Init ==
    /\ InitTables
    /\ phase = "start" /\ simple = FALSE /\ rebuild = FALSE /\ printed = <<>> /\ runs = 0
    /\ state = "none" /\ stop = "none" /\ call = <<>> /\ calls = <<>> /\ signals = 0

-----------------------------------------------------------------------------
(* The tracee, as the kernel shows it.                                     *)

Running == state = "running"

EnterCall ==
    /\ Running /\ call = <<>> /\ Len(calls) < MaxCalls
    /\ \E c \in Calls : call' = <<c>>
    /\ state' = "stopped" /\ stop' = "entry"
    /\ UNCHANGED <<calls, signals, tables, tracer>>

ReturnFromCall ==
    /\ Running /\ call # <<>>
    /\ IF call[1].number = ExitGroup
       THEN state' = "exited" /\ calls' = Append(calls, <<call[1], NoReturn>>) /\ UNCHANGED <<stop, call>>
       ELSE /\ \E r \in call[1].results : calls' = Append(calls, <<call[1], Value(r)>>)
            /\ state' = "stopped" /\ stop' = "exit" /\ call' = <<>>
    /\ UNCHANGED <<signals, tables, tracer>>

SignalStop ==
    /\ Running /\ call = <<>> /\ signals < MaxSignals
    /\ state' = "stopped" /\ stop' = "signal" /\ signals' = signals + 1
    /\ UNCHANGED <<call, calls, tables, tracer>>

\* SIGKILL does not stop a tracee.
KillTracee ==
    /\ state \in {"running", "stopped"} /\ phase \in {"entry", "exit"} /\ signals < MaxSignals
    /\ state' = "killed" /\ signals' = signals + 1
    /\ UNCHANGED <<stop, call, calls, tables, tracer>>

-----------------------------------------------------------------------------
(* main()                                                                  *)

TakeFlag(o, arg) ==
    IF o.past THEN o
    ELSE CASE arg = "--simple" -> [o EXCEPT !.simple = TRUE]
           [] arg = "--rebuild" -> [o EXCEPT !.rebuild = TRUE]
           [] arg = "--other" -> [o EXCEPT !.failed = TRUE, !.past = TRUE]
           [] OTHER -> [o EXCEPT !.past = TRUE, !.command = TRUE]
processCommandLineFlags(args) ==
    FoldLeft(TakeFlag, [simple |-> FALSE, rebuild |-> FALSE, past |-> FALSE,
                        command |-> FALSE, failed |-> FALSE], args)

\* The flags; then a child that is stopped until the tables are there.
Start ==
    /\ phase = "start" /\ runs < MaxRuns /\ runs' = runs + 1
    /\ \E args \in CommandLines :
         LET o == processCommandLineFlags(args) IN
         /\ simple' = o.simple /\ rebuild' = o.rebuild
         /\ phase' = IF o.failed THEN "died" ELSE IF ~o.command THEN "done"
                     ELSE IF o.simple THEN "entry" ELSE "build"
    /\ state' = "stopped" /\ stop' = "signal" /\ call' = <<>> /\ calls' = <<>> /\ signals' = 0
    /\ printed' = <<>> /\ signatures' = << >> /\ pending' = {} /\ build' = "start"
    /\ source' = 0 /\ taken' = 0 /\ macro' = <<>>
    /\ UNCHANGED <<tree, cacheFile, torn>>

Compile ==
    /\ phase = "build" /\ Collect(rebuild)
    /\ phase' = CASE build' = "ready" -> "entry" [] build' = "died" -> "died" [] OTHER -> "build"
    /\ UNCHANGED <<simple, rebuild, printed, runs, tracee>>

\* A keyboard interrupt while the tables are compiled; the tracee goes, too.
Interrupt ==
    /\ phase = "build" /\ phase' = "died"
    /\ UNCHANGED <<simple, rebuild, printed, runs, tables, tracee>>

\* Mutation: every stop counts.
Stopped_AnySignal == state = "stopped" /\ stop # "none"
\* A stop at a system call: PTRACE_O_TRACESYSGOOD tells it from others.
Stopped == state = "stopped" /\ stop \in {"entry", "exit"}

\* continueAndGetRegister(): the tracee goes on, without the signal it was
\* stopped for.
Resume ==
    /\ phase \in {"entry", "exit"} /\ state = "stopped" /\ ~Stopped
    /\ state' = "running" /\ stop' = "none"
    /\ UNCHANGED <<call, calls, signals, tables, tracer>>

ToInt(v) == ((v + Half) % (2 * Half)) - Half
Argument(type, v) ==
    CASE type = "INTEGER" -> Value(ToInt(v))
      [] type = "STRING" -> [stringAt |-> v]
      [] type = "POINTER" -> Value(v)
      [] OTHER -> [type |-> "unknown"]

\* The arguments, each as its type in the table says.
Arguments(c) ==
    LET name == systemCallNumbers[c.number] IN
    IF name \notin DOMAIN signatures THEN NoSignature
    ELSE [k \in DOMAIN signatures[name] |-> Argument(signatures[name][k], c.args[k])]

\* What the register of that name holds at a stop.
ORIG_RAX == IF call = <<>> THEN -1 ELSE call[1].number

\* The first half of printSyscallInfo(): a number that the table lacks makes
\* map::at throw.
PrintEntry ==
    /\ phase = "entry" /\ Stopped
    /\ IF ~simple /\ ORIG_RAX \notin DOMAIN systemCallNumbers
       THEN phase' = "died" /\ UNCHANGED <<state, stop, printed>>
       ELSE /\ printed' = Append(printed, [number |-> ORIG_RAX, result |-> NotYet,
                                           args |-> IF simple THEN <<>> ELSE Arguments(call[1])])
            /\ phase' = "exit" /\ state' = "running" /\ stop' = "none"
    /\ UNCHANGED <<call, calls, signals, tables, simple, rebuild, runs>>

Result(v, number) ==
    IF simple \/ systemCallNumbers[number] \in {"brk", "mmap"} THEN Value(v)
    ELSE IF v >= 0 THEN Value(ToInt(v)) ELSE [error |-> errorConstants[-v]]

\* The second half: so does an error that the table lacks.
PrintReturn ==
    LET line == printed[Len(printed)]
        v == calls[Len(calls)][2].value
    IN  /\ phase = "exit" /\ Stopped
        /\ IF ~simple /\ systemCallNumbers[line.number] \notin {"brk", "mmap"}
              /\ v < 0 /\ -v \notin DOMAIN errorConstants
           THEN phase' = "died" /\ UNCHANGED <<state, stop, printed>>
           ELSE /\ printed' = [printed EXCEPT ![Len(printed)].result = Result(v, line.number)]
                /\ phase' = "entry" /\ state' = "running" /\ stop' = "none"
        /\ UNCHANGED <<call, calls, signals, tables, simple, rebuild, runs>>

PrintNoReturn ==
    /\ phase = "exit" /\ state = "exited"
    /\ printed' = [printed EXCEPT ![Len(printed)].result = NoReturn]
    /\ phase' = "done"
    /\ UNCHANGED <<simple, rebuild, runs, tables, tracee>>

\* trace is run again, and finds the cache of the last run.
Again ==
    /\ phase \in {"done", "died"} /\ runs < MaxRuns
    /\ phase' = "start"
    /\ UNCHANGED <<simple, rebuild, printed, runs, tables, tracee>>

Next ==
    \/ EnterCall \/ ReturnFromCall \/ SignalStop \/ KillTracee
    \/ Start \/ Compile \/ Interrupt \/ Resume \/ PrintEntry \/ PrintReturn \/ PrintNoReturn \/ Again

Spec == Init /\ [][Next]_vars

-----------------------------------------------------------------------------
(* Properties.                                                             *)

\* Whatever was killed or cut short before, the types trace uses for a
\* system call are those of its first macro in the kernel sources; types are
\* unknown, or missing, only if the cache that was read had not been written
\* to its end, and never after --rebuild (collectSystemCallSignatures).
SignaturesTrue ==
    phase \in {"entry", "exit"} /\ ~simple =>
        /\ \A name \in DOMAIN signatures :
             /\ Len(signatures[name]) = Len(Defined(name))
             /\ \A k \in DOMAIN signatures[name] :
                  signatures[name][k] = Defined(name)[k] \/ (signatures[name][k] = "UNKNOWN" /\ torn /\ ~rebuild)
        /\ DOMAIN signatures = {name \in Known : Macros(name) # {}} \/ (torn /\ ~rebuild)

\* What should be printed of a call that has returned.
Shown(line, done) ==
    IF done = NoReturn THEN line.result = NoReturn
    ELSE IF simple \/ systemCallNumbers[line.number] \in {"brk", "mmap"} \/ done.value \in 0..Half-1
    THEN line.result = done
    ELSE IF done.value >= Half THEN line.result.value \in -Half..Half-1
    ELSE \E k \in DOMAIN ErrorLines :
           line.result = [error |-> ErrorLines[k].name] /\ ErrorLines[k].number = -done.value

\* The lines of trace are the system calls of the tracee, in their order and
\* each with its own arguments and result, whatever signals stop the tracee
\* between them; trace ends when the tracee has exited, with a last call that
\* does not return, and never if a signal kills it (printSyscallInfo,
\* continueAndGetRegister).
TraceExact ==
    /\ Len(printed) \in {Len(calls), Len(calls) + 1}
    /\ \A k \in DOMAIN printed :
         LET line == printed[k]
             c == IF k <= Len(calls) THEN calls[k][1] ELSE call[1]
         IN  /\ k > Len(calls) => call # <<>>
             /\ line.number = c.number
             /\ k < Len(printed) => line.result # NotYet
             /\ line.result # NotYet => k <= Len(calls) /\ Shown(line, calls[k][2])
             /\ ~simple /\ line.args # NoSignature =>
                  \A j \in DOMAIN line.args :
                    line.args[j] \in {[stringAt |-> c.args[j]], Value(c.args[j]),
                                      Value(ToInt(c.args[j])), [type |-> "unknown"]}
    /\ phase = "done" /\ printed # <<>> => state = "exited" /\ Len(printed) = Len(calls)
=============================================================================
