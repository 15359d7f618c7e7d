# A verification project for the CS110 assignments

The repository holds the programs of an operating-systems course: a keyword
search, a Unix v6 file-system reader, a process farm, a shell, a thread pool with
the news aggregator that runs on it, a caching HTTP proxy, and exercises. This
directory models the parts whose correctness depends on an order of events that
nobody chooses, and checks and proves what those parts must guarantee.

Contents: 1 the system, 2 the plan, 3 the modules, 4 the runs, 5 the bounds,
6 fairness, 7 the proofs, 8 disagreements found, 9 what is not modelled.

## 1. The system

| component | source | state | operations | what is hard |
|---|---|---|---|---|
| ThreadPool | `assign5/thread-pool.{h,cc}` | FIFO of thunks, three kinds of semaphore, a count of available workers, a condition variable, one `Worker` record per thread | `schedule`, `wait`, destructor; `dispatcher`, `worker` | flags read without a lock, counts that change in several steps, shutdown through the semaphore that also hands out work, a notification sent without the mutex of the waiter |
| ParallelCalculate | `assessment2/parallel_calculate.cc` | `dataQueue`, `printQueue`, a mutex each, a condition variable | `worker`, `main` | nested mutexes, ordered output from unordered calculations, a wakeup for all of which only one may go on |
| Farm | `assign3/farm.cc`, `subprocess.cc`, `factor.py` | vector of workers (pid, flag), count of available workers, children and pipes, blocked and pending SIGCHLD | spawn, assign a number, wait for all, close; the SIGCHLD handler | a handler between any two steps, merged signals, a check before a sleep |
| NewsAggregator | `assign5/news-aggregator.{h,cc}`, `rss-index.*` | set of known URLs, map server → title → (article, tokens), two pools, counting semaphores on the stack | `processAllFeeds`, `processFeed`, `processArticle`, `updateArticle` | check and insert in two critical sections, a merge outside the lock, a semaphore that is destroyed while it is signalled |
| Stsh | `assign4/stsh*.cc` | job list, states of the processes, blocked and pending signals, owner of the terminal | create a job, `fg`/`bg`/`slay`/`halt`/`cont`/`quit`/`jobs`; handlers of SIGCHLD, SIGINT, SIGTSTP | a list that lags behind the kernel, exceptions half-way through a command, process groups made by parent and child |
| Proxy | `assign6/*.cc` | process options, a pool of handlers, a mutex per hash class, the cache directory, strike set | `acceptAndProxyRequest`, `serviceRequest`, cache lookup and store, tunnels, forwarding, reading and writing of messages | a request that is changed between lookup and store, a lock and a thread held over the network, two handlers in one directory, a kill while an entry is written |
| FileSystem | `assign2/*.c` | none but the disk image | `inode_iget`, `inode_indexlookup`, `file_getblock`, `directory_findname`, `pathname_lookup`, `chksumfile_*`, `diskimageaccess -i`/`-p` | the boundaries of direct, indirect and doubly indirect blocks, scans beyond a buffer, names without a terminator |
| KeywordSearch | `assign1/amazon*.cc` | two mapped files; options, reviews found and sorted | `convertQuery`, `findKeyword`, `findReviewsContainingTerm`, `searchKeywordIndex`, `genericReviewCompare`, `main` | words in a row, offsets that wrap, what quotes and dashes mean, four orders of seven keys |
| Trace | `assign3/trace*.cc` | tables of numbers, errors and signatures, a cache file, the stops of the tracee | `compileSystemCallData`, `printSyscallInfo`, `main` | signals between the two stops of a call, a cache that is cut off |
| Pipeline, parsers, exercises, external libraries | see section 9 | | | |

**Interaction.** Clients call `ThreadPool::schedule` and `wait`; the pool runs the
thunks. NewsAggregator is a client of two pools: a thunk of the feed pool
schedules thunks on the article pool and waits for them on a semaphore of its own.
Proxy is a client of one pool: every connection is a thunk, and thunks share the
cache. Farm and Stsh do not use threads: they interact with their children through
signals, `waitpid`, pipes and the terminal, and their handler shares global
variables with `main()`. Trace has one child and takes it from stop to stop.
ParallelCalculate, FileSystem and KeywordSearch stand alone.

**What makes each component correct.**

- ThreadPool: every scheduled thunk is executed once, in FIFO order of hand-out, by
  at most as many threads as there are workers; `wait()` does not return before the
  thunks scheduled earlier are done, and does return; the destructor drops nothing
  and ends all threads; no assertion fails; no semaphore or queue underflows.
- ParallelCalculate: results are printed in the order of the data although they are
  calculated in any order; nobody sleeps through its turn.
- Farm: the counter equals the number of free workers; a number goes to a worker
  that is idle; every number is factored once; pipes are closed only at the end.
- NewsAggregator: when `processAllFeeds` goes on, every article has been processed;
  the tokens stored for a title are the intersection over all its URLs. (That a URL
  is downloaded once cannot be asked: the code does not see to it, see section 8.)
- Stsh: the job list agrees with the kernel whenever no report is outstanding; there
  is at most one foreground job; the prompt comes back; the shell has the terminal
  when it prompts.
- Proxy: what a client gets from the cache was answered to its own request and is
  still fresh; a handler that is alone on an entry never fails on it; every request is
  answered once, or not at all where an exception ends its thunk; chains of proxies have
  no loop and block nobody else.
- HTTP messages: what is read is what was sent, and what is written reads the same.
- FileSystem: each inode and path is printed with the bytes its file was stored with.
- KeywordSearch: the reviews found are those in which the words are consecutive;
  they are shown in the order asked for, as many as asked for.
- Trace: the lines are the calls of the tracee, each with its own arguments and
  result; the types of arguments are those of the kernel's sources.

The hazards that follow from this, each at its line, are in `PROJECT.json`.

## 2. The plan

In the order of writing; every module has its own constants with a named
assumption, one action per step, and no `RECURSIVE` operator where a theorem is
meant.

1. **WorkPool** (abstract) and **ThreadPool** (detailed), shown to implement it;
   `ThreadPoolProofs`. *Modelled, checked; every safety property and
   the refinement proved.*
2. **ParallelCalculate** and `ParallelCalculateProofs`. *Modelled, checked, proved.*
3. **Farm** and `FarmProofs`. *Modelled, checked; every invariant proved.*
4. **NewsAggregator**, over two pools as `WorkPool` describes them (a pool is a
   queue of thunks of which a limited number run at once), and
   `NewsAggregatorProofs`. *Modelled, checked; every invariant proved.*
5. **Stsh**: the job list against the kernel's processes, with the handlers of
   SIGCHLD, SIGINT, SIGTSTP and SIGQUIT, and `StshProofs`. *Modelled, checked; every
   invariant proved.*
6. **Proxy** over a WorkPool, with `ProxyProofs`, and **HttpMessage**. *Modelled and
   checked; every property of Proxy proved.*
7. **FileSystem**, **KeywordSearch**, **SystemCalls** and **Trace**: programs against
   what their input was made from; `FileSystemProofs` and `TraceProofs`. *Modelled and
   checked; the two properties of Trace proved, and of FileSystem that nothing false is
   printed.*

## 3. The modules

**WorkPool** says what `thread-pool.h` promises, without threads: a FIFO `backlog`,
a set `busy` of at most `Limit` thunks, the set `done`, and clients inside `wait()`
that may leave only when everything scheduled before is done.

**ThreadPool** has one program counter per thread: `cpc` for the clients, `dpc` for
the dispatcher, `wpc` for the workers. Its variables carry the names of the members
(`availableWork`, `availableWorker`, `numAvailable` = `numAvailableWorkers`,
`stopWorking`, `available`, `requested`, `work`). A step is what another thread can
observe: `workers[i].available = false`, the decrement of the counter and the pop
of the queue are three actions because `wait()` can look in between; the body of
`pushWork` is one because it holds `workQueueMutex` from start to end. `wait()` is
split into the evaluation of the predicate and the enrolment of the waiter
(`EvalPredicate`, `Block`), both under `workQueueMutex`, since a notifier that does
not hold that mutex can come in between. `popWork()` returns a reference to an
element it destroys, so the copy made from it is a choice: intact or not
(`FreedSlotSurvives`). `pushed`, `owed` and `done` are history variables. The model
takes a thunk to call no operation of the pool. At the bottom the refinement
mapping turns the pool into a `WorkPool`: a worker owns its thunk from the moment
the dispatcher clears its flag.

**ParallelCalculate** has one program counter per worker and both mutexes as
variables; `calculate()` returns its argument, so a datum stands for its result.

**Farm** has the program counter of `main()`, a flag for the handler, and a state
for each child. The handler may start at any step of `main()` at which SIGCHLD is
not blocked, and `main()` then stands still. A child's change of state sets the one
pending SIGCHLD and leaves a report that `waitpid` returns once; SIGCONT cancels an
unreported stop. The assignment `workers[i] = Worker(...)` is two steps (the pid,
then the flag), since the handler can run in between.

**NewsAggregator** composes two `INSTANCE`s of WorkPool, the pool of feeds and the
pool of articles: a thunk starts when its pool takes it and its last statement is the
pool's `Finish`. `mpc`, `fpc` and `apc` are the program counters of
`processAllFeeds()`, of the thunks of feeds and of those of articles; `allDone` and
`completed` are the counting semaphores on the stack, with the negative values they
start from. Where the code leaves a lock there is a step: between the check of a URL
and its insertion, and between the two critical sections of `updateArticle()`. The
intersection of tokens is taken without a lock through references into the map; if
another thread assigns that entry meanwhile (`torn`), what is read is any choice, or
the end of the process. Downloads and parsing may fail.

**Stsh** has the program counter of the shell (`mpc`), the job list (`jobs`, `next`,
and `state` for what the list says of a process), the signal state (`blocked`,
`pending`, `handling`), and the children as the kernel sees them: `proc`, their group,
how far they are between `fork` and `exec` (`phase`), and the report that `waitpid`
has for the parent. `Deliver` starts the handler wherever SIGCHLD is open or inside
`sigsuspend`; each `Reap` is one turn of its loop. An action that throws goes back to
the prompt and leaves signals, list and terminal as they are, like the code.
Children change state at any time by `Change` and `ContinueFromOutside`, which stand
for whatever sends them signals, a forwarded SIGINT or SIGTSTP included. `TypeKey` is
a Ctrl-C or Ctrl-Z for the shell and `SendToForeground` its handler, which sends the
signal on to the foreground job; where that job has no process the signal comes back
to the shell (`key = "echoed"`) and the handler runs again.
`failed` and `resumed` are history variables: jobs whose creation ended in an
exception, processes somebody continued.

**Proxy** composes the process (`Configure` with its command line, of which every
flag counts up to the first that is refused, `ClientConnects`, the clock, `Kill` and
restart), the pool, as an `INSTANCE` of WorkPool, and one thunk per connection with a
program counter. Everything from `Enter` to `End` happens
with the mutex of the request's class (`owner`, a map from the locked mutexes to their
handlers). The cache is a map from the text of a
request to a directory of files; each action on it is one system call, so that
handlers with different mutexes meet in a directory between any two. `ConnectToSelf`
makes the proxy a client of itself: the forwarded request is a new connection whose
answer the first thunk awaits. The address that a thunk reads through a dangling
reference is a choice (`misread`). So is whether the length of a payload throws
(`PayloadThrows`, for the request of a POST and for a server's answer to all but a
HEAD): the thunk then ends as "unread". It ends as "dropped" when a system call on a
directory throws; both times the client gets nothing. `answered`, `contested` and `cut` are history: what
servers answered to what, directories two handlers were in at once, directories whose
store was killed.

**HttpMessage** reads one message from a stream (`wire`) the way the proxy does,
line by line and with the body by length, in chunks or not at all, and writes it; the
written message is read once more. Lines and values are sequences of tokens.

**FileSystem** lays out a disk from a tree of files (`Sector`; the only part that is not
code of the repository) and reads it back with the functions of the code, layer by
layer, named as there; its actions are the loops of `diskimageaccess`, with the
recursion over directories as a stack of what is left of each loop. Sectors are small,
so that every form of address is needed by short files. What a scan finds beyond its
buffer is a choice.

**KeywordSearch** has the phases of `amazon_search`: arguments, a query, the search,
the sort (any order the comparison allows), and pages of reviews. The functions of
`amazon.cc` are operators of the same names; the width of an offset is a constant, so
that an offset of -1 is in reach.

**SystemCalls** holds the tables that trace needs and the steps that compile them: from
the lines of headers and macros, or from the cache file of an earlier run, which may
have been cut off by a kill or a full disk. The sources are read a line at a time
(`ReadLine`), and `macro` holds what `ingestEntireMacro()` has joined so far, so that
no recursion stands between a source and its signatures. **Trace** EXTENDS it with the tracee, as the
kernel shows it, and the loop of `main()` with its two stops for each call. An argument
is the value of a register, and a string the place it is read from.

`MCPrograms` extends Trace by instances of FileSystem, KeywordSearch and HttpMessage:
`Programs` chooses a program at the beginning, and then takes the steps of its `Next`.

`MC*` modules give values to constants and define symmetry. Each module has a
section "Mutations": faulty variants of its definitions, used by no specification,
which document what each property is sensitive to.

## 4. The runs

| run | question | result |
|---|---|---|
| `pool_safety` | two clients, two workers, three thunks, every interleaving | assertions hold, each thunk runs once, shutdown loses nothing, `wait()` is never early; if all threads wait for each other the pool is idle and has done everything, and whoever waits for it is asleep (`StopsOnlyByLostWakeup`) |
| `pool_liveness` | fair threads | the fair WorkPool is implemented: thunks are handed out in FIFO order, to no more threads than there are, and each is executed; a waiter that sleeps while work is outstanding is woken; shutdown completes |
| `pool_lost_wakeup` | does `wait()` return? | no: see section 8 |
| `pool_dangling_thunk` | is the closure that runs the one scheduled? | not necessarily: see section 8 |
| `calculate` | three threads, five data | printed in order, `printQueue` never read empty, every result printed |
| `farm` | three workers, four numbers | nothing is lost or doubled, counter and flags agree, the farm ends; assertions fail only if a child halts before its worker is stored |
| `news` | three feeds, their articles in every interleaving | no frame is left while a thunk refers to it, no URL is lost, merges are exact for every title that was not merged by two thunks at once, the build ends |
| `stsh` | two jobs of up to two processes, any command, any change of a child | the list agrees with the kernel, no report is lost, the shell sleeps only for a process that can wake it, and prompts with nothing in the foreground; two ways to lose the terminal are left out of `TerminalAtPrompt` and named there; a key comes back to the shell only for a job without processes |
| `proxy` | two clients, a clock, one kill, loops through the proxy itself | hits are the client's own and fresh; handlers fail on a directory only where two are in it; each thunk answers as it should; a loop is cut at the fourth pass; only a loop can wait for itself |
| `programs` | `diskimageaccess`, `amazon_search`, `trace` and the messages of the proxy, on all inputs of their instances | what is printed, found, shown, traced and kept is what the input was made from, with the exceptions named in section 8 |
| `stsh_two_foreground` | is there at most one foreground job? | no: see section 8 |
| `farm_spawn_race` | is every reaped child known? | no: see section 8 |

`farm` also answers a question the source asks: the comment at `farm.cc:109` fears
that `sigsuspend` never wakes up if all handlers end at that point. SIGCHLD is
blocked from line 107 on, so a report can come only before the test of the counter
or inside `sigsuspend`: `FarmEnds` holds.

No run checks for deadlock as such: all of these programs are meant to end, and the
clients of a pool need not make another call. What must not stop is stated instead,
as `StopsOnlyByLostWakeup` and `StuckOnlyInLoop` and as liveness. These two say where
a thread can wait for another (`AllWait`, `Waits`: no permit, no mutex, nobody to join,
no thread, no answer) instead of using `ENABLED`, so that they can be proved.

The type invariants of Farm, NewsAggregator, Stsh and Proxy are no property of a run:
they are proved (`FarmTypeCorrect`, `AggregatorTypeCorrect`, `ShellTypeCorrect`,
`ProxyTypeCorrect`), and three of them say more than types: the bounds of a semaphore,
the reports that are outstanding, the owner of a mutex. That of ThreadPool is checked
and proved.

## 5. The bounds

- `Thunks`, `Workers` (3 and 2): one thunk more than workers, so that a worker is
  used again while another is busy and the queue is non-empty; two workers are
  needed for the dispatcher's scan to pass one by.
- `Clients` (2): one waits, the other schedules or destroys.
- `MaxWaits`: calls of `wait()` beside the destructor's own. Two allow both clients
  to be inside at once, and one client to come back.
- `MaxSpurious`: spurious wakeups of a condition variable. One suffices to reach a
  waiter that re-evaluates its predicate without a notification.
- `NumThreads` = 3 with five data, two of them repeated: the print queue has a
  middle, and a thread takes a second datum.
- `NumCPUs` = 3, `MaxNumbers` = 4: all workers busy at once and one number more.
- `news`: three feeds, one of them empty and two with an article in common; all
  articles share a title, so that they are merged. Two threads for feeds, three for
  articles: two merges of one title overlap while a third thunk runs.
- `stsh`: `MaxProcs` = 2 and `MaxJobs` = 2, a pipeline of two processes or two jobs
  of one, with as many stops, continues and builtins as one likes. Pids are not
  reused.

- `proxy`: two clients at a time and up to six connections, so that a request which the
  proxy sends to itself can come back as often as it is let in; four threads; six
  classes, chosen so that the proxy's name p1 leads to other classes than the client's
  and p2 back to the same; one second of `--max-age` on a clock of three; one misread
  address, one kill. One server with one cacheable answer; one POST, to the blocked
  server, which is enough for its payload to be read or to throw.
- `programs`: disks with direct, indirect and doubly indirect files, with directories
  that are longer than a block, names of 14 characters and stale entries; reviews that
  tie in all keys but one; queries with quotes, dashes and punctuation; messages
  with repeated, continued and missing headers and bodies that end early.
  In trace: two runs, so that one finds the cache of the other; three kernel trees, with
  a doubly defined and an unfinished macro; a second call, with signals before, between
  and after; results that are a value, an error and an error that no header lists.

A pool without workers is covered by the theorems and by no run, but for `StopsCorrect`,
which needs a worker (`NumWorkers # 0`): without one the dispatcher waits for ever for a
worker as soon as a thunk is scheduled.

## 6. Fairness

Weak fairness for every thread and process: the operating system runs what can run.
A thunk, `calculate()` and the factorization of a number end. No fairness is assumed
for calls by clients (`ClientCall`), for spurious wakeups, or for the mutexes beyond
that of the thread that waits. `farm` assumes in addition that a pending signal that
is not blocked is delivered. In `news` a download and the parsing of a feed end. Stsh
is checked without fairness: nobody has to type, and a child may run for ever. That
the shell does not miss its wakeup is stated as an invariant, `SleepJustified`. Proxy
and the sequential programs are checked without fairness: servers and clients owe
nobody an answer, and what could block for ever is an invariant, `StuckOnlyInLoop`.

## 7. The proofs

| module | theorem | statement |
|---|---|---|
| ThreadPoolProofs | `TypeCorrect` | `Spec => []TypeOK` |
| | `WaitCorrect` | `Spec => WaitSound`: `wait()` is never early |
| | `AssertsCorrect` | `Spec => []AssertsHold` |
| | `RunsOnceCorrect` | `Spec => []RunsEachOnce` |
| | `StopCorrect` | `Spec => []StopLosesNothing` |
| | `StopsCorrect` | `NumWorkers # 0`: `Spec => []StopsOnlyByLostWakeup` |
| | `RefinesWorkPool` | `Spec => Abstract!Spec`: the pool is a WorkPool |
| ParallelCalculateProofs | `PrintsCorrect`, `RegisteredCorrect` | `Spec => []PrintsInOrder`, `Spec => []RegisteredOnce` |
| FarmProofs | `FarmTypeCorrect` | `Spec => []TypeOK` |
| | `AbortsCorrect` | `Spec => []AbortsOnlyInRace` |
| | `CountCorrect`, `IdleCorrect` | `Spec => []CountExact`, `Spec => []OnlyIdleGetWork` |
| | `NumbersCorrect` | `Spec => []EachNumberOnce` |
| NewsAggregatorProofs | `AggregatorTypeCorrect` | `Spec => []TypeOK` |
| | `FramesCorrect` | `Spec => []FramesOutliveThunks` |
| | `MergesCorrect`, `UrlsCorrect` | `Spec => []MergesExact`, `Spec => []EveryUrlStored` |
| StshProofs | `ShellTypeCorrect` | `Spec => []TypeOK` |
| | `ListCorrect` | `Spec => []ListMatchesKernel` |
| | `PromptCorrect`, `TerminalCorrect` | `Spec => []PromptMeansBackground`, `Spec => []TerminalAtPrompt` |
| | `SleepCorrect`, `EchoCorrect` | `Spec => []SleepJustified`, `Spec => []EchoesOnlyForEmptyJob` |
| ProxyProofs | `ProxyTypeCorrect` | `Spec => []TypeOK` |
| | `AnswersCorrect` | `Spec => []AnswersOnce` |
| | `HitsCorrect`, `FreshCorrect` | `Spec => []HitsAreOwn`, `Spec => HitsAreFresh` |
| | `AloneCorrect` | `Spec => []AloneMeansSafe` |
| | `LoopsCorrect`, `StuckCorrect` | `Spec => []LoopsAreCut`, `Spec => []StuckOnlyInLoop` |
| TraceProofs | `TraceCorrect` | `Spec => []TraceExact` |
| | `SignaturesCorrect` | `Spec => []SignaturesTrue` |
| FileSystemProofs | `InodesCorrect` | `Spec => []InodesDumped` |
| | `PathsCorrect` | `Spec => []PathsTrue` |

They hold for every value of the constants that satisfies the assumption of its
module: `PoolAssumption` (finitely many clients, the owner among them, `NoOne` and
`NoThunk` not values), `CalculateAssumption`, `FarmAssumption`, `ShellAssumption` and
`AggregatorAssumption` (sizes are natural numbers, every article has a URL and a key),
`ProxyAssumption` (ages are natural numbers, clients send requests, `--max-age` is
at least -1 where it is accepted, and the pool has a thread: `scheduler.cc:11` gives it
64), `TraceAssumption` (results are integers, a line of the
error headers has a name and a natural number, an int has a range),
`SourcesAssumption` (source files are sequences of lines) and `FileSystemAssumption` (a
disk has whole sectors of inodes and every byte of its files; 24 bits of size are less
than the addresses of an inode reach; a directory has whole entries, as `GetDirEntries()`
asserts, and an entry in use has a name of its own). Each inductive invariant was first checked by
TLC, together with its parts, on the instance of the run of its component.

*`wait()` is sound.* `WaitSound` is an action property that depends on the counter
and the queue; neither is inductive. `WaitInv` adds: which workers exist
(`SpawnInv`), what the flags mean (`FlagInv`), that a claimed worker is charged for
(`ClaimInv`), that the counter plus the charged workers never exceed the number of
workers (`CountInv`, on cardinalities), and that every scheduled thunk is in line,
in the dispatcher's hand, with a charged worker, or done (`CoverInv`). If the queue
is empty and the counter is full nobody is charged, so everything is done
(`QuiescentMeansDone`).

*No assertion fails.* The dispatcher's scan can run off the end only if it holds a
permit of `availableWorker` that no flagged worker stands for. `AssertInv` adds the
balance of permits (`PermitInv`: the thunks in the queue against `availableWork`,
the flagged workers against `availableWorker` and the dispatcher's own claim), the
same during shutdown (`StopInv`, `ClosingInv`), and that the workers the scan has
passed are not the one it needs (`ScanInv`).

*The pool is a WorkPool.* `CoverInv` says that no thunk is lost; that none is
doubled needs more: `PlaceInv` says that the queue, the dispatcher's hand, the
workers' slots and `done` are disjoint, and that queue and slots hold no thunk twice.
`RestInv` says that the pool is at rest from the destructor's own `wait()` on, since
nobody may call it any more. With `HandInv`, their conjunction with `AssertInv`, each
step of the code maps to a step of WorkPool or to none: the dispatcher's pop of the
queue is `Take`, which has room because the dispatcher has claimed a worker before it
pops, and the clearing of that worker's flag maps to nothing. Spurious wakeups and
notifications are invisible.

*The pool does not stop short.* `LiveInv` says of each wait that somebody will end it:
the mutex is held by a client that has a step to take (`LockInv`), a worker whose flag is
cleared is about to be asked or has been (`AskedInv`), the destructor's two signals are
there until the dispatcher has taken them (`ReleaseInv`), and every worker that the
dispatcher has passed when it stops them has been told (`ToldInv`). Without the
destructor, all threads can then wait only with the dispatcher at `takeWork` and all
workers idle; the balance of permits of `AssertInv` makes the queue empty and the counter
full (`WaitingMeansIdle`). With it, they wait only when it is done (`StoppingEnds`). So
nothing is left but clients that call nothing or sleep on `allWorkFinished`.

*Results are printed in order.* `OrderInv` describes the line: data printed, then
the data of the workers in `printQueue` in their order, then the rest of
`dataQueue`, make up the input. The one worker between push and pop (it holds
`dataQueueMutex`) is the last of `printQueue` and its datum is the head of
`dataQueue`.

*The farm's counter.* The counter is compared with flags that are wrong for a moment
(between the handler and the store of a worker), so that `CountExact` is not
inductive. `FarmInv` counts instead what a flag stands for: children that have halted,
were reaped and have not been handed a number (`RestSet`, `CountInv`). `AvailInv` ties the
flags to it, except for a worker the handler saw before it was stored, and `raced`
records that this has happened. `ChildInv` and `MainInv` say where a number can be
(`OneInv`): in `line`, in one pipe, in one child, or printed.

*The aggregator's frames.* A semaphore on the stack is destroyed when its function
returns; that all its thunks have signalled it by then is arithmetic: it starts at
1 - n, each thunk signals once, and whoever passes it sees it positive. `FrameInv` counts
the signals for both levels. `DataInv` builds on it: an entry is what the finished
downloads of its key have in common (`EntryInv`), and what a thunk read of an entry is
still true while nobody else merges into it (`WorkInv`).

*The shell's list.* `ListMatchesKernel` is right between any two steps only because
SIGCHLD is blocked while a job is created; `ShellInv` says so (`ControlInv`) together
with what a report stands for (`ReportInv`), what the list may say while one is
outstanding (`ListInv`), which group a process is in and who put it there (`GroupInv`),
and why a foreground job is still one (`ForegroundInv`). `AwakeInv` and `TerminalInv`
follow the terminal through the calls of `tcsetpgrp()` in child and parent; `KeyInv` is
what the loop of the SIGINT handler needs to go on. The parts refer to each other, so that
there is one induction.

*The proxy's cache.* `ControlInv` is about the thunks: a handler holds the mutex of its
class and no other (`OwnerInv`), connections are in the pool once (`PoolInv`), nobody
runs while the process does not (`ModeInv`). A key does not depend on the address that
is read through a dangling reference, so that a misread changes no class. `ReplyInv`
says what a client has got before its thunk ends. `EntryInv` describes a directory by
who is at work on it: every file is what was answered to its key, for no longer than the
server allowed, or it is empty because its writer is at its last step, was killed
there, or met another (`FileInv`); a handler that is alone finds the directory as its last step left it
(`LookInv`, `PutInv`), because a step changes no directory but its own handler's
(`CacheStays`), and two handlers at one directory are on record (`OverlapInv`). That
mutexes play no part in this is the point: lookup and store use two keys of which only
one is locked. `AloneCorrect` is about exceptions that a directory causes ("dropped"),
not about those that the length of a payload causes ("unread"), which need no other
handler.

*Loops are cut.* `LoopsAreCut` bounds a chain of requests, each sent on as the next; a
chain is a set of connections of which one is not sent on as another of the set, so
that nothing need be counted along it. `BeforeInv` says of any two requests of a chain
that the address of one is in the list of the other, and last only if the other is what
it was sent on as; `LinkInv`, that nothing is sent on whose own address is there before
the last place; `ExitInv`, that no chain is a circle. So two requests of a chain that
came from the proxy, were read properly and were sent on follow each other directly
(`TwoPasses`), and there are no three of them; with the client's request and the last
one (`TwoEnds`), four requests are left, and those that were misread.

*Who blocks whom.* If all open connections wait, take the handlers that await an answer
of this proxy. `ExitInv` gives one among them whose request is not itself such a handler,
so it is still in line or at a mutex: the loop that `StuckOnlyInLoop` names. If there are
none, nobody holds a mutex, for every holder is a handler, then nobody waits for one
either, and no thread is busy; the first in line can be taken (`LineInv`: the line, the
busy threads and the program counters agree).

*What trace prints.* A line is printed in two halves, at two stops, and signals fall
between. `TraceInv` ties the loop of `continueAndGetRegister()` that main() is in to what
the tracee is stopped for: it waits for an entry only while every line has its result
(`EntryInv`, `Even`), and for a return only while the last one has none (`ExitInv`,
`Odd`). So each line is about the call at its place (`LineInv`). That a result looked
up in the table of errors has the number it was looked up by follows from the last line
for a number being well defined, which rests on the order of the natural numbers
(`Greatest`).

*What trace knows of a call.* `SignaturesTrue` compares a table that was built, cached,
cut off and loaded again with the first macro of the sources; `TablesInv` says of each
stage what it owes the next. While the sources are read (`ReadInv`), the table holds
exactly the macros among the lines that are dealt with, because a macro that is open is
the only one that begins there (`PlaceInv`, `ReadLinePast`): the first of a name is the
one that is kept (`FirstMacro`). While the cache is written (`WriteInv`), the lines that
are there and the names that are `pending` make up the table. From run to run only the
file is left (`CacheInv`): each of its lines is a beginning of the truth, and it is the
whole unless `torn` is on record.

*What a disk holds.* The layout of a disk is arithmetic on sector numbers, and reading it
back is the inverse: `SectorStored` undoes `Spot`, `TableStored` and `DoubleStored` say
what a table of addresses holds, and `BlockFound` that each of the three forms of address
leads to the block, up to the last one that the doubly indirect table reaches. With the
length of the last block (`LastBlock`), `ChecksumRead` follows: the checksum of an inode
is that of its file. `DumpInv` then says which inodes the loop of `-i` has printed.
`PathInv` is about `-p`: what is due is the root or an entry of a directory that was
printed, and neither a line nor another call goes on from the names of a call that is
due, so that no path comes twice. `PathsTrue` is the first half of `PathsDumped`, that
nothing false is printed, and needs nothing of what the lookup of a name finds; that a
path is printed at all depends on the lookup, and is only checked.

Only model-checked:

- liveness (`FarmEnds`, `BuildEnds`, the fairness of `ImplementsFairWorkPool`, and the
  other properties under weak fairness), which the prover does not handle;
- the other properties of `programs`: what folds and recursive functions compute for
  every input (`convertQuery`, `pathname_lookup`, chunks) needs induction over data. The
  first part of `PathsDumped`, and `InodesDumped`, are proved of FileSystem itself, of
  which the run checks an instance.

## 8. Disagreements found

- `pool_lost_wakeup` (`thread-pool.cc:140`): `notify_all` is called without
  `workQueueMutex`, so the last notification can fall between the predicate of
  `wait()` and its enrolment. `wait()`, and a destructor that calls it, then sleep
  for ever although all work is done. `pool_safety` shows that this is the only way
  to get stuck.
- `pool_dangling_thunk` (`thread-pool.cc:150`): `popWork()` returns a reference to
  an element it has removed.
- `farm_spawn_race` (`farm.cc:95`): SIGCHLD is open between the fork of a child and
  the store of its pid; the handler's `assert(workerFound)` can fail.
- `stsh_two_foreground` (`stsh.cc:451`): a job is added to the list before the
  redirected input is opened; when that throws the job stays, empty and in the
  foreground, and `stsh-job-list.h:64` is no longer true.

More are visible in the models without a run of their own; the properties name them as
exceptions.

*NewsAggregator.* Two concurrent merges of one title lose an update, although the
comment at `news-aggregator.cc:175` says "Atomically": `MergesExact` holds for titles
outside `overlapped` only. A URL is looked up in one critical section and inserted in
another: two articles of one URL may both be downloaded.

*Stsh.* A child that is stopped before its `tcsetpgrp()` and continued later takes the
terminal from the prompting shell, and an exception before `stsh.cc:489` leaves the
terminal with the job: `TerminalAtPrompt` excludes both. Ctrl-C and Ctrl-Z while the
foreground job has no process make the handler signal group 0, the shell's own, and so
start again as soon as it returns. The kernel need not let the shell take a step in
between, so that this may never end; in the model the shell may also go on, and a run of
the handler that finds a process in the job sends the signal there. A job that an
exception left empty never has one. The comment at `stsh.cc:316` says that it "skips the
shell". `slay`, `halt` and `cont` with
two arguments read both from `tokens[0]`, so that the index is the job's number; in the
model any process of the list can be meant.

*Proxy.* Entries are stored under the request with the proxy's own headers and looked
up under the request as it came: a request without those headers never hits, contrary to
the comment at `cache.cc:13-16`. The entry that is stored belongs, as a rule, to a class
whose mutex another handler may hold: of two handlers in one directory one may fail and
leave its client without an answer, or two files stay. Alone or not, a handler gives no
answer if the length of a payload, the client's or the server's, is negative or too
large: `AloneMeansSafe` leaves these out. A kill between the creation and
the end of a file leaves an entry that a later process serves. If a server is out of
reach its client gets an error and an empty response behind it, or, for a CONNECT,
nothing. The last forwarded address is never compared, so that a request runs through the
proxy three times before it is refused; a loop may also wait for a mutex or for the last
thread of the pool, which its own sender holds. `--clear-cache` takes effect even if a
later flag is refused; the values of `--proxy-server` and `--proxy-port` are used for
nothing but a choice of what the request line says.

*HttpMessage.* Names are folded to lower case and the last header of a name wins
(`header.cc:47`). A body without a length that is not "chunked" to the letter is lost. A
body that ends early is filled up with NULs. Trailers are dropped. A negative length
throws, and the connection is closed without an answer.

*FileSystem.* The loop of `diskimageaccess -i` leaves out the last inode, although the
comment at `diskimageaccess.c:89` says "all allocated inodes". `directory_findname` takes
the size of its buffer in bytes for a number of entries: a name beyond the first block of
a directory may or may not be found. A name of 14 characters is printed with the bytes
that follow it in memory. `PathsDumped` asks for completeness only where neither happens.

*Trace.* A tracee that is killed is waited for in an endless loop. Calls and errors that
the headers do not list end trace with an exception. Signals that stop the tracee are not
passed on to it. A cache of signatures that was cut off is used without notice until
`--rebuild`. A macro that its file does not close is read for ever.

## 9. What is not modelled

- Pipeline: two forks and a pipe, no state after it returns.
- Parsers, readline, logs: text in, text out.
- Exercises and test programs: they show how the components are called.
- Libraries of which the repository has only headers (`thread-pool-release`,
  `semaphore`, socket++, libxml2): external; their semaphores, mutexes and condition
  variables are part of the models that use them.
- In Farm: failing system calls, a child killed from outside, the output pipe of
  `subprocess()` (the farm does not ask for one).
- In NewsAggregator: `queryIndex()`, which reads the finished index, and how often a
  token occurs in an article.
- In Stsh: the output of `jobs`, and with it the walk over a list that the handler may
  change; failures of system calls other than `open`, `setpgid`, `kill` and `exec`. An
  exception that leaves the handler is taken to end the shell.
- In Proxy: a CONNECT to the proxy itself, the bytes that pass through a tunnel, the text
  of errors, failures of the disk, collisions of the hash other than those of its class.
  The two times in the name of an entry are taken with one reading of the clock.
- In HttpMessage: chunk sizes that are not numbers and so make the rest of the body be
  read as lines.
- In FileSystem: damaged disks (holes, entries of inodes that are not in use, failing
  reads), paths of more than 1008 characters, `chksumfile_cvt2string`.
- In KeywordSearch: malformed files.
- In SystemCalls: the regular expressions; a line is a record of what they match. The
  kernel's sources and headers are the same in every run, as the comment at
  `trace-system-calls.cc:315` takes for granted.
- In Trace: strings that cannot be read. `readString` is taken to end; at an address that
  the tracee has not mapped, PEEKDATA gives -1 and the loop at `trace.cc:43` goes on.
