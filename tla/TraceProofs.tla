---------------------------- MODULE TraceProofs ----------------------------
(***************************************************************************)
(* What trace prints is what the tracee called, for any calls, results,    *)
(* tables and signals, and however often trace is run.  The argument       *)
(* follows a call from stop to stop: which of the two loops of             *)
(* continueAndGetRegister() waits, and for what, says how many lines there *)
(* are and whether the last one is still open.                             *)
(*                                                                         *)
(* And the types it prints them by are what the kernel sources say, for    *)
(* any sources, however the cache was cut short: the argument follows the  *)
(* sources line by line, and the cache from run to run.                    *)
(***************************************************************************)
EXTENDS Trace, WellFoundedInduction, SequenceTheorems, TLAPS

\* How a call may end.
Outcomes == {NoReturn} \union {Value(r) : r \in Int}

\* The types of what is called and printed.
TraceType ==
    /\ phase \in {"start", "build", "entry", "exit", "done", "died"}
    /\ call = <<>> \/ \E c \in Calls : call = <<c>>
    /\ calls \in Seq(Calls \X Outcomes)
    /\ \E S : printed \in Seq(S)

\* The call that a line is about.
CallOf(k) == IF k <= Len(calls) THEN calls[k][1] ELSE call[1]

\* The arguments as the table says, or as far as it is known.
ArgumentsInv(line, c) ==
    ~simple /\ line.args # NoSignature =>
        \A j \in DOMAIN line.args :
            line.args[j] \in {[stringAt |-> c.args[j]], Value(c.args[j]), Value(ToInt(c.args[j])),
                              [type |-> "unknown"]}

\* A line is about the call at its place.  All but the last have their result.
LineInv(k) ==
    LET line == printed[k] IN
    /\ DOMAIN line = {"number", "result", "args"}
    /\ k > Len(calls) => call # <<>>
    /\ line.number = CallOf(k).number
    /\ k < Len(printed) => line.result # NotYet
    /\ line.result # NotYet => k <= Len(calls) /\ Shown(line, calls[k][2])
    /\ ArgumentsInv(line, CallOf(k))

\* Every line has its result, and there is one for each call that has ended.
Even == Len(printed) = Len(calls) /\ \A k \in DOMAIN printed : printed[k].result # NotYet

\* The last line waits for its result.
Odd == printed # <<>> /\ printed[Len(printed)].result = NotYet

\* Where the tracee is while main() waits for its next entry, or for its return.
EntryInv ==
    /\ Even
    /\ \/ state = "running" /\ stop = "none" /\ call = <<>>
       \/ state \in {"stopped", "killed"} /\ stop = "entry" /\ call # <<>>
       \/ state \in {"stopped", "killed"} /\ stop \in {"signal", "none"} /\ call = <<>>
ExitInv ==
    /\ Odd
    /\ \/ state \in {"running", "killed"} /\ call # <<>> /\ Len(printed) = Len(calls) + 1
       \/ /\ state \in {"stopped", "killed"} /\ stop = "exit" /\ call = <<>>
          /\ Len(printed) = Len(calls) /\ calls[Len(calls)][2] # NoReturn
       \/ /\ state = "exited" /\ call # <<>>
          /\ Len(printed) = Len(calls) /\ calls[Len(calls)][2] = NoReturn

TraceInv ==
    /\ TraceType
    /\ Len(printed) \in {Len(calls), Len(calls) + 1}
    /\ \A k \in DOMAIN printed : LineInv(k)
    /\ phase = "entry" => EntryInv
    /\ phase = "exit" => ExitInv
    /\ phase = "build" => /\ printed = <<>> /\ calls = <<>> /\ call = <<>>
                          /\ state = "stopped" /\ stop = "signal"
    /\ phase = "done" => printed = <<>> \/ (state = "exited" /\ Len(printed) = Len(calls))
    /\ state = "running" => phase \in {"entry", "exit"}

-----------------------------------------------------------------------------
(* The operators                                                           *)

\* A set of natural numbers has a least member.
LEMMA Least ==
  ASSUME NEW T, T \subseteq Nat, T # {}
  PROVE  \E x \in T : \A y \in T : x <= y
<1>1. PICK R : R = {s \in Nat \X Nat : s[1] < s[2]}
  OBVIOUS
<1>2. R = OpToRel(<, Nat)
  BY <1>1 DEF OpToRel
<1>3. IsWellFoundedOn(R, Nat)
  BY <1>2, NatLessThanWellFounded
<1>4. PICK x \in T : \A y \in T : ~(<<y, x>> \in R)
  BY <1>3, WFMin
<1>5. ASSUME NEW y \in T PROVE x <= y
  <2>1. x \in Nat /\ y \in Nat /\ <<y, x>> \in Nat \X Nat
    OBVIOUS
  <2>2. ~(y < x)
    BY <1>1, <1>4, <2>1
  <2> QED
    BY <2>1, <2>2
<1> QED
  BY <1>5

\* A set of positions in a sequence has a last one.
LEMMA Greatest ==
  ASSUME NEW n \in Nat, NEW T, T \subseteq 1..n, T # {}
  PROVE  Max(T) \in T
<1>1. PICK U : U = {n - x : x \in T}
  OBVIOUS
<1>2. U \subseteq Nat
  <2>1. \A x \in T : n - x \in Nat
    OBVIOUS
  <2> QED
    BY <1>1, <2>1
<1>3. U # {}
  BY <1>1
<1>4. PICK u \in U : \A y \in U : u <= y
  BY <1>2, <1>3, Least
<1>5. PICK x \in T : u = n - x
  BY <1>1
<1>6. ASSUME NEW y \in T PROVE x >= y
  <2>1. n - y \in U /\ x \in 1..n /\ y \in 1..n
    BY <1>1
  <2> QED
    BY <1>4, <1>5, <2>1
<1> QED
  BY <1>6 DEF Max

\* What the table of errors says of a number is said by a line of the headers.
LEMMA ErrorFacts ==
  ASSUME NEW e \in DOMAIN errorConstants
  PROVE  \E k \in DOMAIN ErrorLines :
            ErrorLines[k].name = errorConstants[e] /\ ErrorLines[k].number = e
<1>1. PICK k \in DOMAIN ErrorLines : ErrorLines[k].matches /\ ErrorLines[k].number = e
  BY DEF errorConstants, Table
<1>2. k \in LinesFor(ErrorLines, e)
  BY <1>1 DEF LinesFor
<1>3. Len(ErrorLines) \in Nat /\ DOMAIN ErrorLines = 1..Len(ErrorLines)
  BY TraceAssumption
<1>4. LinesFor(ErrorLines, e) \subseteq 1..Len(ErrorLines)
  BY <1>3 DEF LinesFor
<1>5. Max(LinesFor(ErrorLines, e)) \in LinesFor(ErrorLines, e)
  BY <1>2, <1>3, <1>4, Greatest
<1>6. errorConstants[e] = ErrorLines[Max(LinesFor(ErrorLines, e))].name
  BY DEF errorConstants, Table
<1> QED
  BY <1>5, <1>6 DEF LinesFor

\* A value that fits an int stays, and whatever becomes an int fits it.
LEMMA ToIntFacts ==
  ASSUME NEW v \in Int
  PROVE  /\ ToInt(v) \in -Half..Half-1
         /\ v \in 0..Half-1 => ToInt(v) = v
<1>1. Half \in Nat \ {0}
  BY TraceAssumption
<1> QED
  BY <1>1 DEF ToInt

\* Nothing that a call returns is taken for a result that is still to come.
LEMMA ResultsDiffer ==
  /\ NoReturn # NotYet /\ \A v : Value(v) # NotYet /\ Value(v) # NoReturn
  /\ \A e : [error |-> e] # NotYet
<1>1. /\ DOMAIN NoReturn = {"returns"} /\ DOMAIN NotYet = {"printed"}
      /\ \A v : DOMAIN Value(v) = {"value"} /\ DOMAIN [error |-> v] = {"error"}
  BY DEF NoReturn, NotYet, Value
<1>2. "returns" # "printed" /\ "value" # "printed" /\ "value" # "returns" /\ "error" # "printed"
  OBVIOUS
<1> QED
  BY <1>1, <1>2

-----------------------------------------------------------------------------
(* TraceInv, step by step                                                  *)

\* A step that prints nothing, while no call begins or ends, changes no line.
LEMMA LinesStay ==
  ASSUME TraceInv, UNCHANGED <<printed, calls, simple>>,
         Len(printed) > Len(calls) => UNCHANGED call
  PROVE  \A k \in DOMAIN printed' : LineInv(k)'
<1>1. TraceType /\ \A k \in DOMAIN printed : LineInv(k)
  BY DEF TraceInv
<1>2. PICK S : printed \in Seq(S)
  BY <1>1 DEF TraceType
<1>3. ASSUME NEW k \in DOMAIN printed PROVE LineInv(k)'
  <2>1. LineInv(k) /\ k \in 1..Len(printed) /\ Len(calls) \in Nat /\ Len(printed) \in Nat
    BY <1>1, <1>2, <1>3 DEF TraceType
  <2>2. CallOf(k)' = CallOf(k)
    BY <2>1 DEF CallOf
  <2> QED
    BY <2>1, <2>2 DEF LineInv, ArgumentsInv, Shown
<1> QED
  BY <1>3

\* The tracee calls.
LEMMA EnterCallTrace ==
  ASSUME TraceInv, EnterCall
  PROVE  TraceInv'
<1>1. /\ state = "running" /\ call = <<>> /\ state' = "stopped" /\ stop' = "entry"
      /\ \E c \in Calls : call' = <<c>>
      /\ UNCHANGED <<calls, phase, simple, printed>>
  BY DEF EnterCall, Running, tracer
<1>2. TraceType /\ phase \in {"entry", "exit"} /\ Len(printed) = Len(calls)
  BY <1>1 DEF TraceInv, EntryInv, ExitInv, Even
<1>3. phase = "entry" /\ Even
  BY <1>1, <1>2 DEF TraceInv, EntryInv, ExitInv
<1>4. \A k \in DOMAIN printed' : LineInv(k)'
  <2>1. Len(calls) \in Nat
    BY <1>2 DEF TraceType
  <2> QED
    BY <1>1, <1>2, <2>1, LinesStay
<1>5. TraceType' /\ EntryInv'
  BY <1>1, <1>2, <1>3 DEF TraceType, EntryInv, Even
<1> QED
  BY <1>1, <1>2, <1>3, <1>4, <1>5 DEF TraceInv

\* A call returns, or the tracee exits in it.
LEMMA ReturnFromCallTrace ==
  ASSUME TraceInv, ReturnFromCall
  PROVE  TraceInv'
<1>1. /\ state = "running" /\ call # <<>> /\ UNCHANGED <<phase, simple, printed>>
  BY DEF ReturnFromCall, Running, tracer
<1>2. TraceType /\ phase = "exit" /\ Odd /\ Len(printed) = Len(calls) + 1
  BY <1>1 DEF TraceInv, EntryInv, ExitInv
<1>3. PICK c \in Calls : call = <<c>>
  BY <1>1, <1>2 DEF TraceType
<1>4. PICK o \in Outcomes :
        /\ calls' = Append(calls, <<c, o>>)
        /\ \/ o = NoReturn /\ state' = "exited" /\ call' = call
           \/ o # NoReturn /\ state' = "stopped" /\ stop' = "exit" /\ call' = <<>>
  <2>1. CASE call[1].number = ExitGroup
    BY <1>3, <2>1 DEF ReturnFromCall, Outcomes
  <2>2. CASE call[1].number # ExitGroup
    <3>1. PICK r \in c.results : calls' = Append(calls, <<c, Value(r)>>)
      BY <1>3, <2>2 DEF ReturnFromCall
    <3>2. Value(r) \in Outcomes /\ Value(r) # NoReturn
      BY <3>1, ResultsDiffer, TraceAssumption DEF Outcomes
    <3> QED
      BY <2>2, <3>1, <3>2 DEF ReturnFromCall
  <2> QED
    BY <2>1, <2>2
<1>5. /\ Len(calls) \in Nat /\ Len(calls') = Len(calls) + 1
      /\ calls' \in Seq(Calls \X Outcomes)
      /\ \A k \in 1..Len(calls) : calls'[k] = calls[k]
      /\ calls'[Len(calls) + 1] = <<c, o>>
  BY <1>2, <1>4 DEF TraceType
<1>6. PICK S : printed \in Seq(S)
  BY <1>2 DEF TraceType
<1>7. ASSUME NEW k \in DOMAIN printed' PROVE LineInv(k)'
  <2>1. k \in DOMAIN printed /\ k \in 1..Len(calls) + 1 /\ LineInv(k)
    BY <1>1, <1>2, <1>5, <1>6, <1>7 DEF TraceInv
  <2>2. CallOf(k)' = CallOf(k)
    BY <1>3, <1>5, <2>1 DEF CallOf
  <2>3. printed[k].result # NotYet => k \in 1..Len(calls) /\ calls'[k] = calls[k]
    BY <1>5, <2>1 DEF LineInv
  <2>4. ~(k > Len(calls))'
    BY <1>5, <2>1
  <2> QED
    BY <1>1, <1>2, <1>5, <2>1, <2>2, <2>3, <2>4 DEF LineInv, ArgumentsInv, Shown
<1>8. TraceType'
  BY <1>1, <1>2, <1>3, <1>4, <1>5 DEF TraceType
<1>9. ExitInv'
  BY <1>1, <1>2, <1>4, <1>5 DEF ExitInv, Odd
<1> QED
  BY <1>1, <1>2, <1>4, <1>5, <1>7, <1>8, <1>9 DEF TraceInv

\* A signal stops the tracee, or kills it.
LEMMA SignalsTrace ==
  ASSUME TraceInv, SignalStop \/ KillTracee \/ Resume
  PROVE  TraceInv'
<1>1. /\ UNCHANGED <<phase, simple, printed, calls, call>>
      /\ \/ state = "running" /\ call = <<>> /\ state' = "stopped" /\ stop' = "signal"
         \/ state \in {"running", "stopped"} /\ phase \in {"entry", "exit"}
            /\ state' = "killed" /\ stop' = stop
         \/ /\ phase \in {"entry", "exit"} /\ state = "stopped" /\ stop \notin {"entry", "exit"}
            /\ state' = "running" /\ stop' = "none"
  BY DEF SignalStop, KillTracee, Resume, Running, Stopped, tracer
<1>2. \A k \in DOMAIN printed' : LineInv(k)'
  BY <1>1, LinesStay
<1>3. TraceType'
  BY <1>1 DEF TraceInv, TraceType
<1>4. phase = "entry" => EntryInv'
  BY <1>1 DEF TraceInv, EntryInv, Even
<1>5. phase = "exit" => ExitInv'
  BY <1>1 DEF TraceInv, ExitInv, Odd
<1> QED
  BY <1>1, <1>2, <1>3, <1>4, <1>5 DEF TraceInv

\* A run of trace begins: nothing was called or printed yet.
LEMMA StartTrace ==
  ASSUME TraceInv, Start
  PROVE  TraceInv'
<1>1. /\ printed' = <<>> /\ calls' = <<>> /\ call' = <<>> /\ state' = "stopped" /\ stop' = "signal"
      /\ phase' \in {"died", "done", "entry", "build"}
  BY DEF Start
<1>2. TraceType'
  BY <1>1 DEF TraceType
<1>3. Even' /\ EntryInv'
  BY <1>1 DEF Even, EntryInv
<1> QED
  BY <1>1, <1>2, <1>3 DEF TraceInv

\* The tables are compiled, or the program is interrupted, or it is run again.
LEMMA TablesTrace ==
  ASSUME TraceInv, Compile \/ Interrupt \/ Again
  PROVE  TraceInv'
<1>1. /\ UNCHANGED <<simple, printed, calls, call, state, stop>>
      /\ \/ phase = "build" /\ phase' \in {"entry", "died", "build"}
         \/ phase \in {"done", "died"} /\ phase' = "start"
  BY DEF Compile, Interrupt, Again, tracee
<1>2. \A k \in DOMAIN printed' : LineInv(k)'
  BY <1>1, LinesStay
<1>3. TraceType'
  BY <1>1 DEF TraceInv, TraceType
<1>4. phase' = "entry" => Even' /\ EntryInv'
  BY <1>1 DEF TraceInv, Even, EntryInv
<1> QED
  BY <1>1, <1>2, <1>3, <1>4 DEF TraceInv

\* The arguments are those of the call.
LEMMA ArgumentsFacts ==
  ASSUME NEW c
  PROVE  ArgumentsInv([number |-> c.number, result |-> NotYet,
                       args |-> IF simple THEN <<>> ELSE Arguments(c)], c)
<1>1. ASSUME NEW type, NEW v
      PROVE  Argument(type, v) \in {[stringAt |-> v], Value(v), Value(ToInt(v)),
                                    [type |-> "unknown"]}
  BY DEF Argument
<1>2. ASSUME ~simple, Arguments(c) # NoSignature, NEW j \in DOMAIN Arguments(c)
      PROVE  Arguments(c)[j] \in {[stringAt |-> c.args[j]], Value(c.args[j]),
                                  Value(ToInt(c.args[j])), [type |-> "unknown"]}
  <2>1. PICK name : name = systemCallNumbers[c.number]
    OBVIOUS
  <2>2. Arguments(c) =
          [k \in DOMAIN signatures[name] |-> Argument(signatures[name][k], c.args[k])]
    BY <1>2, <2>1 DEF Arguments
  <2>3. Arguments(c)[j] = Argument(signatures[name][j], c.args[j])
    BY <1>2, <2>2
  <2> QED
    BY <1>1, <2>3
<1> QED
  BY <1>2 DEF ArgumentsInv

\* A call is printed as it begins, or is one that the table lacks.
LEMMA PrintEntryTrace ==
  ASSUME TraceInv, PrintEntry
  PROVE  TraceInv'
<1>1. /\ phase = "entry" /\ EntryInv /\ Even /\ TraceType
      /\ state = "stopped" /\ stop = "entry" /\ call # <<>>
      /\ UNCHANGED <<call, calls, simple>>
  BY DEF PrintEntry, TraceInv, EntryInv, Stopped
<1>2. PICK c \in Calls : call = <<c>>
  BY <1>1 DEF TraceType
<1>3. CASE phase' = "died" /\ UNCHANGED <<state, stop, printed>>
  <2>1. \A k \in DOMAIN printed' : LineInv(k)'
    BY <1>1, <1>3, LinesStay
  <2>2. TraceType'
    BY <1>1, <1>3 DEF TraceType
  <2> QED
    BY <1>1, <1>3, <2>1, <2>2 DEF TraceInv
<1>4. ASSUME NEW line,
             line = [number |-> c.number, result |-> NotYet,
                     args |-> IF simple THEN <<>> ELSE Arguments(c)],
             printed' = Append(printed, line), phase' = "exit", state' = "running", stop' = "none"
      PROVE  TraceInv'
  <2>1. PICK S : printed \in Seq(S)
    BY <1>1 DEF TraceType
  <2>2. printed \in Seq(S \union {line})
    BY <2>1, SeqMonotonic
  <2>3. /\ Len(printed) \in Nat /\ Len(printed) = Len(calls)
        /\ printed' \in Seq(S \union {line}) /\ Len(printed') = Len(printed) + 1
        /\ DOMAIN printed' = 1..Len(printed) + 1 /\ DOMAIN printed = 1..Len(printed)
        /\ printed'[Len(printed) + 1] = line
        /\ \A k \in 1..Len(printed) : printed'[k] = printed[k]
    BY <1>1, <1>4, <2>2 DEF Even
  <2>4. TraceType'
    BY <1>1, <1>4, <2>3 DEF TraceType
  <2>5. ASSUME NEW k \in 1..Len(printed) PROVE LineInv(k)'
    <3>1. LineInv(k) /\ printed[k].result # NotYet /\ k <= Len(calls)
      BY <1>1, <2>3, <2>5 DEF TraceInv, Even
    <3>2. CallOf(k)' = CallOf(k)
      BY <1>1, <3>1 DEF CallOf
    <3> QED
      BY <1>1, <2>3, <2>5, <3>1, <3>2 DEF LineInv, ArgumentsInv, Shown
  <2>6. ASSUME NEW k, k = Len(printed) + 1 PROVE LineInv(k)'
    <3>1. ArgumentsInv(line, c)'
      BY <1>1, <1>4, ArgumentsFacts DEF ArgumentsInv
    <3>2. CallOf(k)' = c
      BY <1>1, <1>2, <2>3, <2>6 DEF CallOf
    <3>3. printed'[k] = line /\ k = Len(printed') /\ call' # <<>>
      BY <1>1, <2>3, <2>6
    <3>4. /\ DOMAIN line = {"number", "result", "args"}
          /\ line.number = c.number /\ line.result = NotYet
      BY <1>4
    <3> QED
      BY <2>3, <3>1, <3>2, <3>3, <3>4 DEF LineInv
  <2>7. ExitInv'
    BY <1>1, <1>4, <2>3 DEF ExitInv, Odd
  <2> QED
    <3>1. \A k \in DOMAIN printed' : LineInv(k)'
      <4>1. \A k \in DOMAIN printed' : k \in 1..Len(printed) \/ k = Len(printed) + 1
        BY <2>3
      <4> QED
        BY <2>5, <2>6, <4>1
    <3>2. Len(printed') = Len(calls') + 1
      BY <1>1, <2>3
    <3> QED
      BY <1>4, <2>4, <2>7, <3>1, <3>2 DEF TraceInv
<1> QED
  BY <1>1, <1>2, <1>3, <1>4 DEF PrintEntry, ORIG_RAX

\* The last line gets its result.
LEMMA LastLine ==
  ASSUME TraceInv, Odd, Len(printed) = Len(calls), UNCHANGED <<calls, simple>>,
         NEW result, result # NotYet,
         printed' = [printed EXCEPT ![Len(printed)].result = result],
         \A line : line.number = printed[Len(printed)].number /\ line.result = result
                      => Shown(line, calls[Len(calls)][2])
  PROVE  /\ \A k \in DOMAIN printed' : LineInv(k)' /\ printed'[k].result # NotYet
         /\ Len(printed') = Len(printed) /\ \E S : printed' \in Seq(S)
<1>1. TraceType /\ \A k \in DOMAIN printed : LineInv(k)
  BY DEF TraceInv
<1>2. PICK S : printed \in Seq(S)
  BY <1>1 DEF TraceType
<1>3. PICK n \in 1..Len(printed) : n = Len(printed)
  BY <1>2 DEF Odd
<1>4. PICK line : line = [printed[n] EXCEPT !.result = result]
  OBVIOUS
<1>5. printed \in Seq(S \union {line})
  BY <1>2, SeqMonotonic
<1>6. /\ printed' \in Seq(S \union {line}) /\ Len(printed') = Len(printed)
      /\ DOMAIN printed' = 1..Len(printed) /\ DOMAIN printed = 1..Len(printed)
      /\ printed'[n] = line /\ \A k \in 1..Len(printed) : k # n => printed'[k] = printed[k]
  BY <1>3, <1>4, <1>5
<1>7. /\ line.number = printed[n].number /\ line.result = result /\ line.args = printed[n].args
      /\ DOMAIN line = {"number", "result", "args"}
  BY <1>1, <1>3, <1>4, <1>6 DEF LineInv
<1>8. \A k \in 1..Len(printed) : k <= Len(calls) /\ CallOf(k) = calls[k][1] /\ CallOf(k)' = calls[k][1]
  BY <1>2 DEF CallOf
<1>9. ASSUME NEW k \in 1..Len(printed)
      PROVE  LineInv(k)' /\ printed'[k].result # NotYet
  <2>1. LineInv(k) /\ k <= Len(calls) /\ CallOf(k)' = CallOf(k)
    BY <1>1, <1>6, <1>8
  <2>2. CASE k = n
    <3>1. Shown(line, calls[n][2])
      BY <1>3, <1>7
    <3> QED
      BY <1>3, <1>6, <1>7, <2>1, <2>2, <3>1 DEF LineInv, ArgumentsInv, Shown
  <2>3. CASE k # n
    <3>1. printed[k].result # NotYet
      BY <1>3, <2>1, <2>3 DEF LineInv
    <3> QED
      BY <1>6, <2>1, <2>3, <3>1 DEF LineInv, ArgumentsInv, Shown
  <2> QED
    BY <2>2, <2>3
<1> QED
  BY <1>6, <1>9

\* A call is printed as it returns, or fails with an error that the table lacks.
LEMMA PrintReturnTrace ==
  ASSUME TraceInv, PrintReturn
  PROVE  TraceInv'
<1>1. /\ phase = "exit" /\ ExitInv /\ Odd /\ TraceType /\ state = "stopped"
      /\ stop = "exit" /\ call = <<>> /\ Len(printed) = Len(calls)
      /\ calls[Len(calls)][2] # NoReturn
      /\ UNCHANGED <<call, calls, simple>>
  BY DEF PrintReturn, TraceInv, ExitInv, Stopped
<1>2. PICK n : n = Len(printed)
  OBVIOUS
<1>3. PICK S : printed \in Seq(S)
  BY <1>1 DEF TraceType
<1>4. n \in 1..Len(calls) /\ calls[n] \in Calls \X Outcomes
  BY <1>1, <1>2, <1>3 DEF Odd, TraceType
<1>5. PICK v \in Int : calls[n][2] = Value(v)
  BY <1>1, <1>2, <1>4 DEF Outcomes
<1>6. calls[n][2].value = v
  BY <1>5 DEF Value
<1>7. CASE phase' = "died" /\ UNCHANGED <<state, stop, printed>>
  <2>1. \A k \in DOMAIN printed' : LineInv(k)'
    BY <1>1, <1>7, LinesStay
  <2>2. TraceType'
    BY <1>1, <1>7 DEF TraceType
  <2> QED
    BY <1>1, <1>7, <2>1, <2>2 DEF TraceInv
<1>8. ASSUME NEW result, result = Result(v, printed[n].number),
             simple \/ systemCallNumbers[printed[n].number] \in {"brk", "mmap"} \/ v >= 0
                \/ -v \in DOMAIN errorConstants,
             printed' = [printed EXCEPT ![n].result = result],
             phase' = "entry", state' = "running", stop' = "none"
      PROVE  TraceInv'
  <2>1. result # NotYet
    BY <1>8, ResultsDiffer DEF Result
  <2>2. ASSUME NEW line, line.number = printed[n].number, line.result = result
        PROVE  Shown(line, calls[n][2])
    <3>1. calls[n][2] # NoReturn
      BY <1>1, <1>2
    <3>2. CASE simple \/ systemCallNumbers[line.number] \in {"brk", "mmap"}
      BY <1>5, <1>8, <2>2, <3>1, <3>2 DEF Shown, Result
    <3>3. CASE ~(simple \/ systemCallNumbers[line.number] \in {"brk", "mmap"}) /\ v >= 0
      <4>1. result = Value(ToInt(v))
        BY <1>8, <2>2, <3>3 DEF Result
      <4>2. CASE v \in 0..Half-1
        BY <1>5, <1>6, <2>2, <3>1, <4>1, <4>2, ToIntFacts DEF Shown
      <4>3. CASE v >= Half
        <5>1. Half \in Nat /\ v \notin 0..Half-1
          BY <4>3, TraceAssumption
        <5>2. line.result.value \in -Half..Half-1
          BY <2>2, <4>1, ToIntFacts DEF Value
        <5> QED
          BY <1>6, <3>1, <3>3, <4>3, <5>1, <5>2 DEF Shown
      <4> QED
        BY <3>3, <4>2, <4>3, TraceAssumption
    <3>4. CASE ~(simple \/ systemCallNumbers[line.number] \in {"brk", "mmap"}) /\ v < 0
      <4>1. result = [error |-> errorConstants[-v]] /\ -v \in DOMAIN errorConstants
        BY <1>8, <2>2, <3>4 DEF Result
      <4>2. PICK k \in DOMAIN ErrorLines :
              ErrorLines[k].name = errorConstants[-v] /\ ErrorLines[k].number = -v
        BY <4>1, ErrorFacts
      <4>3. Half \in Nat /\ v \notin 0..Half-1 /\ ~(v >= Half)
        BY <3>4, TraceAssumption
      <4> QED
        BY <1>6, <2>2, <3>1, <3>4, <4>1, <4>2, <4>3 DEF Shown
    <3> QED
      BY <3>2, <3>3, <3>4
  <2>3. /\ \A k \in DOMAIN printed' : LineInv(k)' /\ printed'[k].result # NotYet
        /\ Len(printed') = Len(printed) /\ \E T : printed' \in Seq(T)
    BY <1>1, <1>2, <1>8, <2>1, <2>2, LastLine
  <2>4. TraceType'
    BY <1>1, <1>8, <2>3 DEF TraceType
  <2>5. EntryInv'
    BY <1>1, <1>8, <2>3 DEF EntryInv, Even
  <2> QED
    BY <1>1, <1>8, <2>3, <2>4, <2>5 DEF TraceInv
<1> QED
  <2>1. CASE ~(/\ ~simple /\ systemCallNumbers[printed[n].number] \notin {"brk", "mmap"}
               /\ v < 0 /\ -v \notin DOMAIN errorConstants)
    <3>1. /\ printed' = [printed EXCEPT ![n].result = Result(v, printed[n].number)]
          /\ phase' = "entry" /\ state' = "running" /\ stop' = "none"
      BY <1>1, <1>2, <1>6, <2>1 DEF PrintReturn
    <3> QED
      <4>1. \/ simple \/ systemCallNumbers[printed[n].number] \in {"brk", "mmap"} \/ v >= 0
            \/ -v \in DOMAIN errorConstants
        BY <2>1
      <4> QED
        BY <1>8, <3>1, <4>1
  <2>2. CASE /\ ~simple /\ systemCallNumbers[printed[n].number] \notin {"brk", "mmap"}
             /\ v < 0 /\ -v \notin DOMAIN errorConstants
    BY <1>1, <1>2, <1>6, <1>7, <2>2 DEF PrintReturn
  <2> QED
    BY <2>1, <2>2

\* The tracee has exited in a call.
LEMMA PrintNoReturnTrace ==
  ASSUME TraceInv, PrintNoReturn
  PROVE  TraceInv'
<1>1. /\ phase = "exit" /\ ExitInv /\ Odd /\ TraceType /\ state = "exited"
      /\ Len(printed) = Len(calls) /\ calls[Len(calls)][2] = NoReturn
      /\ UNCHANGED <<call, calls, simple, state, stop>> /\ phase' = "done"
      /\ printed' = [printed EXCEPT ![Len(printed)].result = NoReturn]
  BY DEF PrintNoReturn, TraceInv, ExitInv, tracee
<1>2. \A line : line.result = NoReturn => Shown(line, calls[Len(calls)][2])
  BY <1>1 DEF Shown
<1>3. /\ \A k \in DOMAIN printed' : LineInv(k)' /\ printed'[k].result # NotYet
      /\ Len(printed') = Len(printed) /\ \E T : printed' \in Seq(T)
  BY <1>1, <1>2, ResultsDiffer, LastLine
<1>4. TraceType'
  BY <1>1, <1>3 DEF TraceType
<1> QED
  BY <1>1, <1>3, <1>4 DEF TraceInv

-----------------------------------------------------------------------------
\* TraceInv is inductive.
LEMMA TraceStep ==
  ASSUME TraceInv, [Next]_vars
  PROVE  TraceInv'
<1>1. CASE UNCHANGED vars
  <2>1. UNCHANGED <<phase, simple, printed, calls, call, state, stop>>
    BY <1>1 DEF vars, tracee, tracer
  <2>2. \A k \in DOMAIN printed' : LineInv(k)'
    BY <2>1, LinesStay
  <2> QED
    BY <2>1, <2>2 DEF TraceInv, TraceType, EntryInv, ExitInv, Even, Odd
<1> QED
  BY <1>1, EnterCallTrace, ReturnFromCallTrace, SignalsTrace, StartTrace, TablesTrace,
     PrintEntryTrace, PrintReturnTrace, PrintNoReturnTrace DEF Next

\* Nothing was called or printed at first.
LEMMA TraceInit == Init => TraceInv
  BY DEF Init, TraceInv, TraceType

\* The lines of trace are the system calls of the tracee, in their order and each
\* with its own arguments and result, whatever signals stop the tracee between
\* them (printSyscallInfo, continueAndGetRegister).
THEOREM TraceCorrect ==
  Spec => []TraceExact
<1>1. TraceInv => TraceExact
  BY DEF TraceInv, TraceExact, LineInv, CallOf, ArgumentsInv
<1>2. TraceInv /\ [Next]_vars => TraceInv'
  BY TraceStep
<1> QED
  BY <1>1, <1>2, TraceInit, PTL DEF Spec
-----------------------------------------------------------------------------
(* The tables: what was read, written and loaded                           *)

Types == {"STRING", "POINTER", "INTEGER"}
SourceLines == [define : BOOLEAN, count : Nat, name : STRING, items : Seq(STRING), closed : BOOLEAN]
CacheLines == [name : Known, count : Int, types : Seq(Types)]

\* The system calls that the sources define.
Full == {name \in Known : Macros(name) # {}}

\* The lines of the next source that are dealt with: all but those of an open macro;
\* and the macros among what is dealt with.
Passed == taken - Len(macro)
IsPast(m) == m[1] <= source \/ (m[1] = source + 1 /\ m[2] <= Passed)

\* Where the reading stands: what is open is a macro, and nothing was open before it.
PlaceInv ==
    /\ source \in 0..Len(SourceFiles) /\ taken \in Nat /\ Len(macro) \in 0..taken
    /\ source = Len(SourceFiles) => taken = 0
    /\ source < Len(SourceFiles) =>
          /\ taken <= Len(Source) /\ macro = SubSeq(Source, Passed + 1, taken)
          /\ macro # <<>> => Source[Passed + 1].define
          /\ \A k \in Passed+1..taken : ~Source[k].closed
          /\ \A j \in 1..Passed : Source[j].define => \E h \in j..Passed : Source[h].closed

Exact(name) == signatures[name] = Defined(name) /\ Defined(name) \in Seq(Types)

\* The signatures are those of the macros that were read.
ReadInv ==
    /\ PlaceInv
    /\ DOMAIN signatures = {name \in Known : \E m \in Macros(name) : IsPast(m)}
    /\ \A name \in DOMAIN signatures : Exact(name)

\* A line of the cache is about one of them, as far as it goes.
LineOfCache(l) ==
    /\ l \in CacheLines /\ l.name \in Full /\ Defined(l.name) \in Seq(Types)
    /\ l.count # Missing =>
          /\ l.count = Len(Defined(l.name)) /\ Len(l.types) <= l.count
          /\ \A j \in 1..Len(l.types) : l.types[j] = Defined(l.name)[j]
IsWhole(l) == l.count # Missing /\ Len(l.types) = l.count

\* A cache that was written to its end says all.
CacheInv ==
    cacheFile # NoFile =>
        /\ cacheFile \in Seq(CacheLines) /\ \A k \in DOMAIN cacheFile : LineOfCache(cacheFile[k])
        /\ ~torn => /\ \A k \in DOMAIN cacheFile : IsWhole(cacheFile[k])
                    /\ \A name \in Full : \E k \in DOMAIN cacheFile : cacheFile[k].name = name

\* While it is written, what it does not say yet is pending.
WriteInv ==
    /\ DOMAIN signatures = Full /\ \A name \in Full : Exact(name)
    /\ torn /\ pending \subseteq Full
    /\ cacheFile \in Seq(CacheLines)
    /\ \A k \in DOMAIN cacheFile : LineOfCache(cacheFile[k]) /\ IsWhole(cacheFile[k])
    /\ \A name \in Full \ pending : \E k \in DOMAIN cacheFile : cacheFile[k].name = name

\* What SignaturesTrue asks for.
Faithful ==
    /\ \A name \in DOMAIN signatures :
         /\ Len(signatures[name]) = Len(Defined(name))
         /\ \A k \in DOMAIN signatures[name] :
              signatures[name][k] = Defined(name)[k] \/ (signatures[name][k] = "UNKNOWN" /\ torn /\ ~rebuild)
    /\ DOMAIN signatures = Full \/ (torn /\ ~rebuild)

TablesInv ==
    /\ tree \in DOMAIN SourceTrees
    /\ CacheInv
    /\ phase = "build" /\ build = "start" => signatures = << >> /\ source = 0 /\ taken = 0 /\ macro = <<>>
    /\ phase = "build" /\ build = "read" => ReadInv
    /\ phase = "build" /\ build = "write" => WriteInv
    /\ phase \in {"entry", "exit"} /\ ~simple => Faithful
-----------------------------------------------------------------------------
(* The macros of the sources                                               *)

\* The source files are sequences of lines.
LEMMA SourceFacts ==
  ASSUME tree \in DOMAIN SourceTrees
  PROVE  /\ SourceFiles \in Seq(Seq(SourceLines))
         /\ Len(SourceFiles) \in Nat /\ DOMAIN SourceFiles = 1..Len(SourceFiles)
         /\ \A f \in 1..Len(SourceFiles) :
              /\ SourceFiles[f] \in Seq(SourceLines) /\ Len(SourceFiles[f]) \in Nat
              /\ DOMAIN SourceFiles[f] = 1..Len(SourceFiles[f])
<1>1. SourceFiles \in Seq(Seq(SourceLines))
  BY SourcesAssumption DEF SourceFiles, SourceLines
<1> QED
  BY <1>1

\* A macro has a file and a line, where it begins.
LEMMA MacroFacts ==
  ASSUME tree \in DOMAIN SourceTrees, NEW name, NEW m \in Macros(name)
  PROVE  /\ m[1] \in 1..Len(SourceFiles) /\ m[2] \in 1..Len(SourceFiles[m[1]])
         /\ m = <<m[1], m[2]>> /\ Begins(m[1], m[2]) /\ SourceFiles[m[1]][m[2]].name = name
<1>1. PICK f \in DOMAIN SourceFiles : m \in {f} \X (DOMAIN SourceFiles[f])
  BY DEF Macros
<1>2. f \in 1..Len(SourceFiles) /\ m[1] = f /\ m[2] \in 1..Len(SourceFiles[f]) /\ m = <<m[1], m[2]>>
  BY <1>1, SourceFacts
<1> QED
  BY <1>2 DEF Macros

\* Of two macros the one comes after the other.
LEMMA NotAfterFacts ==
  ASSUME NEW m \in Nat \X Nat, NEW n \in Nat \X Nat, NotAfter(m, n), NotAfter(n, m)
  PROVE  m = n
<1>1. m = <<m[1], m[2]>> /\ n = <<n[1], n[2]>> /\ m[1] \in Nat /\ m[2] \in Nat /\ n[1] \in Nat /\ n[2] \in Nat
  OBVIOUS
<1>2. m[1] = n[1] /\ m[2] = n[2]
  BY <1>1 DEF NotAfter
<1> QED
  BY <1>1, <1>2

\* The lines of a macro end with the first ')'.
LEMMA MacroAtFacts ==
  ASSUME tree \in DOMAIN SourceTrees, NEW f \in 1..Len(SourceFiles),
         NEW k \in 1..Len(SourceFiles[f]), NEW e \in k..Len(SourceFiles[f]),
         SourceFiles[f][e].closed, \A j \in k..e-1 : ~SourceFiles[f][j].closed
  PROVE  MacroAt(<<f, k>>) = SubSeq(SourceFiles[f], k, e)
<1>1. Len(SourceFiles[f]) \in Nat
  BY SourceFacts
<1>2. PICK file : file = SourceFiles[f]
  OBVIOUS
<1> DEFINE Ends(i) == file[i].closed /\ \A j \in k..i-1 : ~file[j].closed
<1>3. ASSUME NEW i \in k..Len(file), Ends(i) PROVE i = e
  <2>1. i \in Int /\ e \in Int /\ k \in Int
    BY <1>1, <1>2
  <2>2. ~(i < e)
    BY <1>2, <1>3, <2>1
  <2>3. ~(e < i)
    BY <1>2, <1>3, <2>1
  <2> QED
    BY <2>1, <2>2, <2>3
<1>4. e \in k..Len(file) /\ Ends(e)
  BY <1>2
<1>5. (CHOOSE i \in k..Len(file) : Ends(i)) = e
  <2> HIDE DEF Ends
  <2> QED
    BY <1>3, <1>4
<1> QED
  BY <1>2, <1>5 DEF MacroAt

\* What the first macro of a system call says is what the sources say of it.
LEMMA FirstMacro ==
  ASSUME tree \in DOMAIN SourceTrees, NEW name, NEW f, NEW k, <<f, k>> \in Macros(name),
         \A n \in Macros(name) : NotAfter(<<f, k>>, n)
  PROVE  Defined(name) = processSystemCallArguments(MacroAt(<<f, k>>))
<1> DEFINE First(m) == \A n \in Macros(name) : NotAfter(m, n)
<1>1. \A m \in Macros(name) : m \in Nat \X Nat
  <2>1. ASSUME NEW m \in Macros(name) PROVE m \in Nat \X Nat
    <3>1. m[1] \in 1..Len(SourceFiles) /\ m[2] \in 1..Len(SourceFiles[m[1]]) /\ m = <<m[1], m[2]>>
      BY MacroFacts
    <3>2. m[1] \in Nat /\ m[2] \in Nat
      BY <3>1, SourceFacts
    <3> QED
      BY <3>1, <3>2
  <2> QED
    BY <2>1
<1>2. ASSUME NEW m \in Macros(name), First(m) PROVE m = <<f, k>>
  BY <1>1, <1>2, NotAfterFacts
<1>3. First(<<f, k>>)
  OBVIOUS
<1>4. (CHOOSE m \in Macros(name) : First(m)) = <<f, k>>
  <2> HIDE DEF First
  <2> QED
    BY <1>2, <1>3
<1> QED
  BY <1>4 DEF Defined, processSystemCallArguments, Items

\* The types of the parameters of a macro.
LEMMA ArgumentTypes ==
  ASSUME NEW text, text[1].count \in Nat
  PROVE  processSystemCallArguments(text) \in Seq(Types)
<1>1. \A type : normalizeType(type) \in Types
  BY DEF normalizeType, Types
<1>2. PICK n \in Nat : n = text[1].count
  OBVIOUS
<1>3. processSystemCallArguments(text) \in [1..n -> Types]
  BY <1>1, <1>2 DEF processSystemCallArguments
<1> QED
  BY <1>3

\* The source that is being read.
LEMMA SourceInFacts ==
  ASSUME tree \in DOMAIN SourceTrees, PlaceInv, source < Len(SourceFiles)
  PROVE  /\ source \in Nat /\ taken \in Nat /\ source + 1 \in 1..Len(SourceFiles)
         /\ SourceFiles[source + 1] = Source
         /\ Source \in Seq(SourceLines) /\ Len(Source) \in Nat /\ DOMAIN Source = 1..Len(Source)
         /\ Len(macro) \in Nat /\ Passed \in 0..taken
         /\ macro = SubSeq(Source, Passed + 1, taken) /\ taken <= Len(Source)
         /\ macro # <<>> => Source[Passed + 1].define
<1>1. source \in Nat /\ taken \in Nat /\ Len(macro) \in 0..taken /\ Len(SourceFiles) \in Nat
  <2>1. source \in 0..Len(SourceFiles) /\ taken \in Nat /\ Len(macro) \in 0..taken
    BY DEF PlaceInv
  <2>2. Len(SourceFiles) \in Nat
    BY SourceFacts
  <2> QED
    BY <2>1, <2>2
<1>2. source + 1 \in 1..Len(SourceFiles)
  BY <1>1
<1>3. Passed \in 0..taken
  BY <1>1 DEF Passed
<1>4. SourceFiles[source + 1] = Source
  BY DEF Source
<1>5. Source \in Seq(SourceLines) /\ Len(Source) \in Nat /\ DOMAIN Source = 1..Len(Source)
  BY <1>2, <1>4, SourceFacts
<1>6. /\ macro = SubSeq(Source, Passed + 1, taken) /\ taken <= Len(Source)
      /\ macro # <<>> => Source[Passed + 1].define
  BY DEF PlaceInv
<1>7. Len(macro) \in Nat
  BY <1>1
<1>8. source \in Nat /\ taken \in Nat
  BY <1>1
<1> QED
  BY <1>2, <1>3, <1>4, <1>5, <1>6, <1>7, <1>8

\* A part of a sequence and the next element are a part of it.
LEMMA SubSeqGrows ==
  ASSUME NEW S, NEW s \in Seq(S), NEW t \in Nat, NEW p \in 0..t, t + 1 \in p+1..Len(s)
  PROVE  SubSeq(s, p + 1, t + 1) = Append(SubSeq(s, p + 1, t), s[t + 1])
<1>1. Len(s) \in Nat /\ p \in Nat /\ t < Len(s)
  OBVIOUS
<1>2. /\ SubSeq(s, p + 1, t) \in Seq(S) /\ Len(SubSeq(s, p + 1, t)) = t - p
      /\ \A i \in 1..t-p : SubSeq(s, p + 1, t)[i] = s[p + i]
  BY <1>1
<1>3. /\ SubSeq(s, p + 1, t + 1) \in Seq(S) /\ Len(SubSeq(s, p + 1, t + 1)) = t + 1 - p
      /\ \A i \in 1..t+1-p : SubSeq(s, p + 1, t + 1)[i] = s[p + i]
  BY <1>1
<1>4. s[t + 1] \in S
  BY <1>1
<1>5. PICK u, w : u = SubSeq(s, p + 1, t) /\ w = SubSeq(s, p + 1, t + 1)
  OBVIOUS
<1>6. Append(u, s[t + 1]) \in Seq(S) /\ Len(Append(u, s[t + 1])) = t + 1 - p
  BY <1>1, <1>2, <1>4, <1>5
<1>7. ASSUME NEW i \in 1..t+1-p PROVE Append(u, s[t + 1])[i] = w[i]
  <2>1. CASE i = t + 1 - p
    BY <1>1, <1>2, <1>3, <1>5, <2>1
  <2>2. CASE i \in 1..t-p
    BY <1>1, <1>2, <1>3, <1>5, <2>2
  <2>3. i = t + 1 - p \/ i \in 1..t-p
    <3>1. t \in Int /\ p \in Int /\ i \in Int /\ 1 <= i /\ i <= t + 1 - p
      BY <1>7
    <3> QED
      BY <3>1
  <2> QED
    BY <2>1, <2>2, <2>3
<1> QED
  BY <1>3, <1>5, <1>6, <1>7, SeqEqual

\* What the open macro is with the next line, or where that one begins a macro.
LEMMA TextFacts ==
  ASSUME tree \in DOMAIN SourceTrees, PlaceInv, source < Len(SourceFiles), taken < Len(Source),
         NEW text, text = ingestEntireMacro(macro, Source[taken + 1]), text # <<>>
  PROVE  /\ text = SubSeq(Source, Passed + 1, taken + 1)
         /\ Len(text) = Len(macro) + 1 /\ text[1] = Source[Passed + 1]
         /\ Source[Passed + 1].define /\ Begins(source + 1, Passed + 1)
<1>1. PICK s, p, t : s = Source /\ p = Passed /\ t = taken
  OBVIOUS
<1>2. s \in Seq(SourceLines) /\ Len(s) \in Nat /\ t \in Nat /\ t < Len(s) /\ p \in 0..t
  BY <1>1, SourceInFacts
<1>3. macro = SubSeq(s, p + 1, t)
  BY <1>1, SourceInFacts
<1>4. Len(macro) = t - p /\ (p = t <=> macro = <<>>)
  <2>1. PICK c : c = Len(macro)
    OBVIOUS
  <2>2. c \in Nat /\ p = t - c
    BY <1>1, <2>1, SourceInFacts DEF Passed
  <2>3. c = t - p
    BY <1>2, <2>2
  <2>4. p = t => macro = <<>>
    BY <1>2, <1>3, SubSeqEmpty
  <2>5. macro = <<>> => c = 0
    BY <2>1
  <2>6. p \in Nat /\ (c = 0 => p = t)
    BY <1>2, <2>2
  <2> QED
    BY <2>1, <2>3, <2>4, <2>5, <2>6
<1>5. text = SubSeq(s, p + 1, t + 1)
  <2>1. t + 1 \in p+1..Len(s)
    BY <1>2
  <2>2. SubSeq(s, p + 1, t + 1) = Append(SubSeq(s, p + 1, t), s[t + 1])
    BY <1>2, <2>1, SubSeqGrows
  <2>3. text = Append(macro, s[t + 1])
    BY <1>1 DEF ingestEntireMacro
  <2> QED
    BY <1>3, <2>2, <2>3
<1>6. Len(text) = t + 1 - p /\ text[1] = s[p + 1]
  BY <1>2, <1>5
<1>7. s[p + 1].define
  <2>1. CASE macro = <<>>
    <3>1. p = t
      BY <1>4, <2>1
    <3> QED
      BY <1>1, <2>1, <3>1 DEF ingestEntireMacro
  <2>2. CASE macro # <<>>
    BY <1>1, <2>2, SourceInFacts
  <2> QED
    BY <2>1, <2>2
<1>8. Begins(source + 1, Passed + 1)
  <2>1. \A j \in 1..p : s[j].define => \E h \in j..p : s[h].closed
    BY <1>1 DEF PlaceInv
  <2>2. SourceFiles[source + 1] = s /\ p \in Int
    BY <1>1, <1>2, SourceInFacts
  <2>3. PICK b, f : b = Passed + 1 /\ f = source + 1
    OBVIOUS
  <2>4. b = p + 1 /\ b - 1 = p /\ SourceFiles[f] = s
    <3>1. b = p + 1
      BY <1>1, <2>3
    <3>2. b - 1 = p
      BY <2>2, <3>1
    <3> QED
      BY <2>2, <2>3, <3>1, <3>2
  <2>5. /\ SourceFiles[f][b].define
        /\ \A j \in 1..b-1 : SourceFiles[f][j].define => \E h \in j..b-1 : SourceFiles[f][h].closed
    BY <1>7, <2>1, <2>4
  <2>6. Begins(f, b)
    BY <2>5 DEF Begins
  <2> QED
    BY <2>3, <2>6
<1>9. Len(text) = Len(macro) + 1
  <2>1. t \in Int /\ p \in Int
    BY <1>2
  <2> QED
    BY <1>4, <1>6, <2>1
<1> QED
  BY <1>1, <1>5, <1>6, <1>7, <1>8, <1>9

\* One more line: it goes on a macro, begins one, closes one, or is none of a macro.
LEMMA ReadLinePlace ==
  ASSUME tree \in DOMAIN SourceTrees, PlaceInv, ReadLine,
         NEW text, text = ingestEntireMacro(macro, Source[taken + 1])
  PROVE  /\ PlaceInv' /\ UNCHANGED <<tree, source>>
         /\ text = <<>> => Passed' = Passed + 1 /\ Passed = taken /\ ~Source[taken + 1].define
         /\ text # <<>> /\ ~Source[taken + 1].closed => Passed' = Passed
         /\ text # <<>> /\ Source[taken + 1].closed => Passed' = taken + 1
<1>1. /\ source < Len(SourceFiles) /\ taken < Len(Source)
      /\ taken' = taken + 1 /\ UNCHANGED <<tree, source>>
      /\ macro' = IF text # <<>> /\ Source[taken + 1].closed THEN <<>> ELSE text
  BY DEF ReadLine
<1>2. SourceFiles' = SourceFiles /\ Source' = Source
  BY <1>1 DEF SourceFiles, Source
<1>3. PICK s, p, t : s = Source /\ p = Passed /\ t = taken
  OBVIOUS
<1>4. /\ Len(s) \in Nat /\ s \in Seq(SourceLines) /\ t \in Nat /\ t < Len(s) /\ p \in 0..t
      /\ p = t - Len(macro) /\ Len(macro) \in Nat
  BY <1>1, <1>3, SourceInFacts DEF Passed
<1>5. Passed' = t + 1 - Len(macro')
  <2>1. taken' = t + 1
    BY <1>1, <1>3
  <2> QED
    BY <1>4, <2>1 DEF Passed
<1>6. Append(macro, s[t + 1]) # <<>>
  <2>1. macro = SubSeq(s, p + 1, t)
    BY <1>1, <1>3, SourceInFacts
  <2>2. SubSeq(s, p + 1, t) \in Seq(SourceLines) /\ s[t + 1] \in SourceLines
    BY <1>4
  <2> QED
    BY <2>1, <2>2, AppendProperties
<1>7. /\ \A k \in p+1..t : ~s[k].closed
      /\ \A j \in 1..p : s[j].define => \E h \in j..p : s[h].closed
  BY <1>1, <1>3 DEF PlaceInv
<1>8. source' \in 0..Len(SourceFiles)' /\ taken' \in Nat /\ source' # Len(SourceFiles)'
  <2>1. source \in 0..Len(SourceFiles)
    BY DEF PlaceInv
  <2>2. source # Len(SourceFiles)
    BY <1>1, <2>1, SourceFacts
  <2> QED
    BY <1>1, <1>2, <1>3, <1>4, <2>1, <2>2
<1>9. ASSUME NEW q \in 0..t+1, q = Passed', Len(macro') \in 0..t+1, macro' = SubSeq(s, q + 1, t + 1),
             macro' # <<>> => s[q + 1].define,
             \A k \in q+1..t+1 : ~s[k].closed,
             \A j \in 1..q : s[j].define => \E h \in j..q : s[h].closed
      PROVE  PlaceInv'
  <2>1. /\ Source' = s /\ taken' = t + 1 /\ taken' <= Len(s)
    BY <1>1, <1>2, <1>3, <1>4
  <2> QED
    BY <1>8, <1>9, <2>1 DEF PlaceInv
<1>10. CASE text = <<>>
  <2>1. macro' = <<>> /\ macro = <<>> /\ ~s[t + 1].define
    BY <1>1, <1>3, <1>10, <1>6 DEF ingestEntireMacro
  <2>2. Len(macro') = 0 /\ Len(macro) = 0
    BY <2>1
  <2>3. p = t /\ Passed' = t + 1
    BY <1>4, <1>5, <2>2
  <2>4. macro' = SubSeq(s, t + 2, t + 1)
    BY <1>4, <2>1, SubSeqEmpty
  <2>5. ASSUME NEW j \in 1..t+1, s[j].define PROVE \E h \in j..t+1 : s[h].closed
    <3>1. j \in 1..p
      BY <1>4, <2>1, <2>3, <2>5
    <3> QED
      BY <1>4, <1>7, <2>3, <2>5, <3>1
  <2>6. PlaceInv'
    BY <1>4, <1>9, <2>1, <2>2, <2>3, <2>4, <2>5
  <2> QED
    BY <1>1, <1>3, <1>10, <2>1, <2>3, <2>6
<1>11. CASE text # <<>>
  <2>1. text = SubSeq(s, p + 1, t + 1) /\ Len(text) = Len(macro) + 1 /\ s[p + 1].define
    BY <1>1, <1>3, <1>11, TextFacts
  <2>2. CASE s[t + 1].closed
    <3>1. macro' = <<>> /\ Len(macro') = 0
      BY <1>1, <1>3, <1>11, <2>2
    <3>2. Passed' = t + 1
      BY <1>4, <1>5, <3>1
    <3>3. macro' = SubSeq(s, t + 2, t + 1)
      BY <1>4, <3>1, SubSeqEmpty
    <3>4. \A j \in 1..t+1 : t + 1 \in j..t+1
      BY <1>4
    <3>5. PlaceInv'
      BY <1>4, <1>9, <2>2, <3>1, <3>2, <3>3, <3>4
    <3> QED
      BY <1>1, <1>3, <1>11, <2>2, <3>2, <3>5
  <2>3. CASE ~s[t + 1].closed
    <3>1. macro' = text
      BY <1>1, <1>3, <2>3
    <3>2. Passed' = p /\ Len(macro') \in 0..t+1
      <4>1. PICK c \in Nat : c = Len(macro)
        BY <1>4
      <4>2. Len(macro') = c + 1 /\ p = t - c /\ p >= 0
        BY <1>4, <2>1, <3>1, <4>1
      <4>3. t + 1 - (c + 1) = p /\ c + 1 \in 0..t+1
        BY <1>4, <4>2
      <4> QED
        BY <1>5, <4>2, <4>3
    <3>3. \A k \in p+1..t+1 : k \in p+1..t \/ k = t + 1
      BY <1>4
    <3>4. p \in 0..t+1
      BY <1>4
    <3>5. PlaceInv'
      BY <1>7, <1>9, <2>1, <2>3, <3>1, <3>2, <3>3, <3>4
    <3> QED
      BY <1>1, <1>3, <1>11, <2>3, <3>2, <3>5
  <2> QED
    BY <2>2, <2>3
<1> QED
  BY <1>10, <1>11

\* What is dealt with of a macro is its first line, or the end of a file.
LEMMA ReadLinePast ==
  ASSUME tree \in DOMAIN SourceTrees, PlaceInv, ReadLine,
         NEW text, text = ingestEntireMacro(macro, Source[taken + 1]),
         NEW name, NEW m \in Macros(name)
  PROVE  IsPast(m)' <=>
           IsPast(m) \/ (text # <<>> /\ Source[taken + 1].closed /\ m = <<source + 1, Passed + 1>>)
<1>1. /\ source < Len(SourceFiles) /\ taken < Len(Source) /\ UNCHANGED source
  BY DEF ReadLine
<1>2. PICK f, k : f = m[1] /\ k = m[2]
  OBVIOUS
<1>3. f \in Nat /\ k \in Nat /\ m = <<f, k>> /\ k \in 1..Len(SourceFiles[f]) /\ Begins(f, k)
  BY <1>2, MacroFacts, SourceFacts
<1>4. PICK s, p, t, n : s = Source /\ p = Passed /\ t = taken /\ n = source
  OBVIOUS
<1>5. /\ Len(s) \in Nat /\ t \in Nat /\ t < Len(s) /\ p \in 0..t /\ n \in Nat
      /\ SourceFiles[n + 1] = s
  BY <1>1, <1>4, SourceInFacts
<1>6. IsPast(m) <=> f <= n \/ (f = n + 1 /\ k <= p)
  BY <1>2, <1>4 DEF IsPast
<1>7. IsPast(m)' <=> f <= n \/ (f = n + 1 /\ k <= Passed')
  BY <1>1, <1>2, <1>4 DEF IsPast
<1>8. CASE f # n + 1
  BY <1>3, <1>4, <1>6, <1>7, <1>8
<1>9. CASE f = n + 1
  <2>1. /\ s[k].define /\ k \in 1..Len(s)
        /\ \A j \in 1..k-1 : s[j].define => \E h \in j..k-1 : s[h].closed
    BY <1>3, <1>5, <1>9 DEF Begins
  <2>2. m = <<n + 1, p + 1>> <=> k = p + 1
    BY <1>3, <1>9
  <2>3. CASE text = <<>>
    <3>1. Passed' = p + 1 /\ p = t /\ ~s[p + 1].define
      BY <1>4, <2>3, ReadLinePlace
    <3>2. k # p + 1
      BY <2>1, <3>1
    <3>3. k <= p + 1 <=> k <= p
      BY <1>3, <1>5, <3>2
    <3> QED
      BY <1>6, <1>7, <2>3, <3>1, <3>3
  <2>4. CASE text # <<>> /\ ~s[t + 1].closed
    <3>1. Passed' = p
      BY <1>4, <2>4, ReadLinePlace
    <3> QED
      BY <1>4, <1>6, <1>7, <2>4, <3>1
  <2>5. CASE text # <<>> /\ s[t + 1].closed
    <3>1. Passed' = t + 1
      BY <1>4, <2>5, ReadLinePlace
    <3>2. s[p + 1].define
      BY <1>1, <1>4, <2>5, TextFacts
    <3>3. \A h \in p+1..t : ~s[h].closed
      BY <1>1, <1>4 DEF PlaceInv
    <3>4. ASSUME k \in p+2..t+1 PROVE FALSE
      <4>1. p + 1 \in 1..k-1
        BY <1>5, <3>4
      <4>2. PICK h \in p+1..k-1 : s[h].closed
        BY <2>1, <3>2, <4>1
      <4>3. h \in p+1..t
        BY <1>3, <1>5, <3>4, <4>2
      <4> QED
        BY <3>3, <4>2, <4>3
    <3>5. k <= t + 1 <=> k <= p \/ k = p + 1
      BY <1>3, <1>5, <3>4
    <3> QED
      BY <1>4, <1>6, <1>7, <1>9, <2>2, <2>5, <3>1, <3>5
  <2> QED
    BY <2>3, <2>4, <2>5
<1> QED
  BY <1>8, <1>9

\* What the sources say stays.
LEMMA SourcesStay ==
  ASSUME UNCHANGED tree
  PROVE  /\ SourceFiles' = SourceFiles /\ Full' = Full
         /\ \A name : Macros(name)' = Macros(name) /\ Defined(name)' = Defined(name)
<1>1. SourceFiles' = SourceFiles
  BY DEF SourceFiles
<1>2. \A f, k : Begins(f, k)' <=> Begins(f, k)
  BY <1>1 DEF Begins
<1>3. \A name : Macros(name)' = Macros(name)
  BY <1>1, <1>2 DEF Macros
<1>4. \A m : MacroAt(m)' = MacroAt(m)
  BY <1>1 DEF MacroAt
<1>5. \A name : Defined(name)' = Defined(name)
  <2>1. ASSUME NEW name PROVE Defined(name)' = Defined(name)
    <3>1. PICK m : m = CHOOSE x \in Macros(name) : \A y \in Macros(name) : NotAfter(x, y)
      OBVIOUS
    <3>2. m = (CHOOSE x \in Macros(name) : \A y \in Macros(name) : NotAfter(x, y))'
      BY <1>3, <3>1 DEF NotAfter
    <3>3. PICK text : text = MacroAt(m)
      OBVIOUS
    <3>4. Defined(name) = processSystemCallArguments(text)
      BY <3>1, <3>3 DEF Defined, processSystemCallArguments, Items
    <3>5. Defined(name)' = processSystemCallArguments(text)
      BY <1>4, <3>2, <3>3 DEF Defined, processSystemCallArguments, Items
    <3> QED
      BY <3>4, <3>5
  <2> QED
    BY <2>1
<1> QED
  BY <1>1, <1>3, <1>5 DEF Full

\* A line is read: of a system call that trace knows the first macro counts, and what
\* is kept of it is what it says.
LEMMA ReadLineInv ==
  ASSUME tree \in DOMAIN SourceTrees, ReadInv, ReadLine
  PROVE  build' \in {"read", "died"} /\ (build' = "read" => ReadInv')
<1>1. PICK text : text = ingestEntireMacro(macro, Source[taken + 1])
  OBVIOUS
<1>2. PICK s, p, t : s = Source /\ p = Passed /\ t = taken
  OBVIOUS
<1>3. /\ build = "read" /\ source < Len(SourceFiles) /\ t < Len(s) /\ UNCHANGED tree
      /\ text # <<>> /\ s[t + 1].closed => processSystemCallSignature(text)
      /\ ~(text # <<>> /\ s[t + 1].closed) => UNCHANGED <<signatures, build>>
  BY <1>1, <1>2 DEF ReadLine
<1>4. PlaceInv /\ PlaceInv'
  BY <1>1, ReadLinePlace DEF ReadInv
<1>5. /\ DOMAIN signatures = {name \in Known : \E m \in Macros(name) : IsPast(m)}
      /\ \A name \in DOMAIN signatures : signatures[name] = Defined(name) /\ Defined(name) \in Seq(Types)
  BY DEF ReadInv, Exact
<1>6. \A name : Macros(name)' = Macros(name) /\ Defined(name)' = Defined(name)
  BY <1>3, SourcesStay
<1>7. CASE ~(text # <<>> /\ s[t + 1].closed)
  <2>1. \A name : \A m \in Macros(name) : IsPast(m)' <=> IsPast(m)
    BY <1>1, <1>2, <1>4, <1>7, ReadLinePast
  <2>2. {name \in Known : \E m \in Macros(name) : IsPast(m)}' = {name \in Known : \E m \in Macros(name) : IsPast(m)}
    BY <1>6, <2>1
  <2> QED
    BY <1>3, <1>4, <1>5, <1>6, <1>7, <2>2 DEF ReadInv, Exact
<1>8. CASE text # <<>> /\ s[t + 1].closed
  <2>1. PICK n, k, new : n = source + 1 /\ k = p + 1 /\ new = text[1].name
    OBVIOUS
  <2>2. /\ s \in Seq(SourceLines) /\ Len(s) \in Nat /\ t \in Nat /\ p \in 0..t /\ t + 1 <= Len(s)
        /\ n \in 1..Len(SourceFiles) /\ SourceFiles[n] = s
    BY <1>2, <1>3, <1>4, <2>1, SourceInFacts
  <2>3. /\ text = SubSeq(s, k, t + 1) /\ text[1] = s[k] /\ s[k].define /\ Begins(n, k)
    BY <1>1, <1>2, <1>3, <1>4, <1>8, <2>1, TextFacts
  <2>4. k \in 1..Len(s) /\ t + 1 \in k..Len(s) /\ \A j \in k..t : ~s[j].closed
    <3>1. \A j \in p+1..t : ~s[j].closed
      BY <1>2, <1>3, <1>4 DEF PlaceInv
    <3> QED
      BY <2>1, <2>2, <3>1
  <2>5. \A name : <<n, k>> \in Macros(name) <=> name = new
    <3>1. <<n, k>> \in UNION {{f} \X (DOMAIN SourceFiles[f]) : f \in DOMAIN SourceFiles}
      <4>1. n \in DOMAIN SourceFiles /\ k \in DOMAIN SourceFiles[n]
        BY <2>2, <2>4, SourceFacts
      <4> QED
        BY <4>1
    <3> QED
      BY <2>1, <2>2, <2>3, <3>1 DEF Macros
  <2>6. \A name : \A m \in Macros(name) : IsPast(m)' <=> IsPast(m) \/ m = <<n, k>>
    BY <1>1, <1>2, <1>4, <1>8, <2>1, ReadLinePast
  <2>7. {name \in Known : \E m \in Macros(name) : IsPast(m)}'
          = DOMAIN signatures \union ({new} \intersect Known)
    BY <1>5, <1>6, <2>5, <2>6
  <2>8. ASSUME UNCHANGED <<signatures, build>>, new \in DOMAIN signatures \/ new \notin Known
        PROVE  build' = "read" /\ ReadInv'
    <3>1. DOMAIN signatures \union ({new} \intersect Known) = DOMAIN signatures
      BY <1>5, <2>8
    <3> QED
      BY <1>3, <1>4, <1>5, <1>6, <2>7, <2>8, <3>1 DEF ReadInv, Exact
  <2>9. ASSUME Defines(text), UNCHANGED build, new \in Known \ DOMAIN signatures
        PROVE  build' = "read" /\ ReadInv'
    <3>1. Defined(new) = processSystemCallArguments(text)
      <4>1. <<n, k>> \in Macros(new)
        BY <2>5
      <4>2. ASSUME NEW m \in Macros(new) PROVE NotAfter(<<n, k>>, m)
        <5>1. ~IsPast(m)
          BY <1>5, <2>9
        <5>2. m[1] \in Nat /\ m[2] \in Nat
          BY MacroFacts, SourceFacts
        <5>3. n \in Nat /\ k \in Nat /\ n - 1 = source /\ k - 1 = p
          <6>1. source \in Int /\ p \in Int
            BY <1>3, <1>4, <2>2, SourceInFacts
          <6> QED
            BY <2>1, <2>2, <6>1
        <5>4. ~(m[1] <= n - 1) /\ ~(m[1] = n /\ m[2] <= k - 1)
          BY <1>2, <2>1, <5>1, <5>3 DEF IsPast
        <5> QED
          BY <5>2, <5>3, <5>4 DEF NotAfter
      <4>3. MacroAt(<<n, k>>) = text
        <5>1. \A j \in k..(t + 1)-1 : ~s[j].closed
          BY <2>2, <2>4
        <5> QED
          BY <1>8, <2>2, <2>3, <2>4, <5>1, MacroAtFacts
      <4> QED
        BY <4>1, <4>2, <4>3, FirstMacro
    <3>2. processSystemCallArguments(text) \in Seq(Types)
      <4>1. s[k] \in SourceLines
        BY <2>2, <2>4
      <4> QED
        BY <2>3, <4>1, ArgumentTypes DEF SourceLines
    <3>3. signatures' = [name \in DOMAIN signatures \union {new} |->
                            IF name = new THEN processSystemCallArguments(text) ELSE signatures[name]]
      BY <2>1, <2>9 DEF Defines
    <3>4. /\ DOMAIN signatures' = DOMAIN signatures \union {new}
          /\ signatures'[new] = processSystemCallArguments(text)
          /\ \A name \in DOMAIN signatures : signatures'[name] = signatures[name]
      BY <2>9, <3>3
    <3>5. \A name \in DOMAIN signatures' : Exact(name)'
      BY <1>5, <1>6, <3>1, <3>2, <3>4 DEF Exact
    <3>6. DOMAIN signatures' = DOMAIN signatures \union ({new} \intersect Known)
      BY <2>9, <3>4
    <3> QED
      BY <1>3, <1>4, <2>7, <2>9, <3>5, <3>6 DEF ReadInv
  <2> QED
    BY <1>3, <1>8, <2>1, <2>8, <2>9 DEF processSystemCallSignature
<1> QED
  BY <1>7, <1>8

\* A file ends, and with it what was left open is never read.
LEMMA NextSourceInv ==
  ASSUME tree \in DOMAIN SourceTrees, ReadInv, NextSource
  PROVE  build' \in {"read", "spins"} /\ (build' = "read" => ReadInv')
<1>1. /\ build = "read" /\ source < Len(SourceFiles) /\ taken = Len(Source) /\ PlaceInv
      /\ UNCHANGED <<tree, signatures>>
  BY DEF NextSource, ReadInv
<1>2. CASE macro # <<>>
  BY <1>2 DEF NextSource
<1>3. CASE macro = <<>>
  <2>1. build' = "read" /\ source' = source + 1 /\ taken' = 0 /\ macro' = <<>> /\ SourceFiles' = SourceFiles
    BY <1>1, <1>3, SourcesStay DEF NextSource
  <2>2. PICK n, t : n = source /\ t = taken
    OBVIOUS
  <2>3. /\ n \in Nat /\ n + 1 \in 1..Len(SourceFiles) /\ t \in Nat /\ Len(SourceFiles[n + 1]) = t
        /\ Passed = t /\ Len(SourceFiles) \in Nat
    <3>1. Len(macro) = 0
      BY <1>3
    <3> QED
      BY <1>1, <2>2, <3>1, SourceInFacts, SourceFacts DEF Passed
  <2>4. Passed' = 0 /\ Len(macro') = 0
    <3>1. Len(macro') = 0
      BY <2>1
    <3>2. taken' = 0
      BY <2>1
    <3> QED
      BY <3>1, <3>2 DEF Passed
  <2>5. PlaceInv'
    <3>1. Source' = SourceFiles[n + 2]
      BY <2>1, <2>2, <2>3 DEF Source
    <3>2. source' = n + 1
      BY <2>1, <2>2
    <3>3. n + 1 < Len(SourceFiles) =>
            Source' \in Seq(SourceLines) /\ Len(Source') \in Nat /\ macro' = SubSeq(Source', 1, 0)
      <4>1. ASSUME n + 1 < Len(SourceFiles)
            PROVE  Source' \in Seq(SourceLines) /\ Len(Source') \in Nat
        <5>1. n + 2 \in 1..Len(SourceFiles)
          BY <2>3, <4>1
        <5> QED
          BY <3>1, <5>1, SourceFacts
      <4>2. \A u \in Seq(SourceLines) : SubSeq(u, 1, 0) = <<>>
        BY SubSeqEmpty
      <4> QED
        BY <2>1, <4>1, <4>2
    <3> QED
      BY <2>1, <2>3, <2>4, <3>2, <3>3 DEF PlaceInv
  <2>6. ASSUME NEW name, NEW m \in Macros(name) PROVE IsPast(m)' <=> IsPast(m)
    <3>1. m[1] \in 1..Len(SourceFiles) /\ m[2] \in 1..Len(SourceFiles[m[1]])
      BY MacroFacts
    <3>2. PICK f, k : f = m[1] /\ k = m[2]
      OBVIOUS
    <3>3. f \in Nat /\ k \in Nat /\ k >= 1 /\ (f = n + 1 => k <= t)
      <4>1. f \in 1..Len(SourceFiles) /\ k \in 1..Len(SourceFiles[f])
        BY <3>1, <3>2
      <4>2. f \in Nat /\ k \in Nat /\ k >= 1 /\ k <= Len(SourceFiles[f])
        BY <4>1, SourceFacts
      <4> QED
        BY <2>3, <4>2
    <3>4. IsPast(m) <=> f <= n \/ (f = n + 1 /\ k <= t)
      BY <2>2, <2>3, <3>2 DEF IsPast
    <3>5. IsPast(m)' <=> f <= n + 1 \/ (f = n + 1 + 1 /\ k <= 0)
      BY <2>1, <2>2, <2>4, <3>2 DEF IsPast
    <3> QED
      BY <2>3, <3>3, <3>4, <3>5
  <2>7. \A name : Macros(name)' = Macros(name) /\ Defined(name)' = Defined(name)
    BY <1>1, SourcesStay
  <2>8. {name \in Known : \E m \in Macros(name) : IsPast(m)}' = {name \in Known : \E m \in Macros(name) : IsPast(m)}
    BY <2>6, <2>7
  <2> QED
    BY <1>1, <2>1, <2>5, <2>7, <2>8 DEF ReadInv, Exact
<1> QED
  BY <1>2, <1>3

\* At first nothing is read.
LEMMA FindSourcesInv ==
  ASSUME tree \in DOMAIN SourceTrees, FindSources(rebuild),
         signatures = << >>, source = 0, taken = 0, macro = <<>>
  PROVE  ReadInv'
<1>1. /\ UNCHANGED <<tree, signatures>> /\ source' = 0 /\ taken' = 0 /\ macro' = <<>>
      /\ SourceFiles' = SourceFiles /\ \A name : Macros(name)' = Macros(name)
  BY SourcesStay DEF FindSources, reading
<1>2. Len(macro') = 0 /\ Passed' = 0
  <2>1. Len(macro') = 0
    BY <1>1
  <2>2. taken' = 0
    BY <1>1
  <2> QED
    BY <2>1, <2>2 DEF Passed
<1>3. PlaceInv'
  <2>1. 0 < Len(SourceFiles) => Source' \in Seq(SourceLines) /\ Len(Source') \in Nat /\ macro' = SubSeq(Source', 1, 0)
    <3>1. Source' = SourceFiles[1]
      BY <1>1 DEF Source
    <3>2. 0 < Len(SourceFiles) => Source' \in Seq(SourceLines) /\ Len(Source') \in Nat
      <4>1. 0 < Len(SourceFiles) => 1 \in 1..Len(SourceFiles)
        BY SourceFacts
      <4> QED
        BY <3>1, <4>1, SourceFacts
    <3>3. \A u \in Seq(SourceLines) : SubSeq(u, 1, 0) = <<>>
      BY SubSeqEmpty
    <3> QED
      BY <1>1, <3>2, <3>3
  <2>2. Len(SourceFiles) \in Nat
    BY SourceFacts
  <2> QED
    BY <1>1, <1>2, <2>1, <2>2 DEF PlaceInv
<1>4. ASSUME NEW name, NEW m \in Macros(name) PROVE ~IsPast(m)'
  <2>1. m[1] \in 1..Len(SourceFiles) /\ m[2] \in 1..Len(SourceFiles[m[1]])
    BY MacroFacts
  <2>2. m[1] \in Nat /\ m[1] >= 1 /\ m[2] \in Nat /\ m[2] >= 1
    BY <2>1, SourceFacts
  <2> QED
    BY <1>1, <1>2, <2>2 DEF IsPast
<1>5. DOMAIN signatures' = {}
  BY <1>1
<1> QED
  BY <1>1, <1>3, <1>4, <1>5 DEF ReadInv

-----------------------------------------------------------------------------
(* The cache                                                               *)

\* What a line of the cache is about stays.
LEMMA LinesOfCacheStay ==
  ASSUME UNCHANGED tree
  PROVE  \A l : LineOfCache(l)' <=> LineOfCache(l)
BY SourcesStay DEF LineOfCache

\* The cache is as good as it was.
LEMMA CacheStays ==
  ASSUME CacheInv, UNCHANGED <<tree, cacheFile, torn>>
  PROVE  CacheInv'
<1>1. /\ cacheFile' = cacheFile /\ torn' = torn /\ Full' = Full
      /\ \A l : LineOfCache(l)' <=> LineOfCache(l)
  BY SourcesStay, LinesOfCacheStay
<1>2. \A k \in DOMAIN cacheFile : LineOfCache(cacheFile[k]) => LineOfCache(cacheFile[k])'
  BY <1>1, LinesOfCacheStay DEF LineOfCache
<1> QED
  BY <1>1, <1>2 DEF CacheInv

\* What is loaded of a line is what the sources say, or unknown where it was cut off.
LEMMA LoadLineFacts ==
  ASSUME NEW l, LineOfCache(l), l.count # Missing
  PROVE  /\ LoadLine(l) \in Seq(Types \union {"UNKNOWN"})
         /\ Len(LoadLine(l)) = Len(Defined(l.name)) /\ DOMAIN LoadLine(l) = 1..l.count
         /\ \A k \in 1..l.count :
              LoadLine(l)[k] = Defined(l.name)[k] \/ (LoadLine(l)[k] = "UNKNOWN" /\ ~IsWhole(l))
<1>1. PICK d \in Seq(Types) : d = Defined(l.name)
  BY DEF LineOfCache
<1>2. /\ l.count = Len(d) /\ Len(d) \in Nat /\ l.types \in Seq(Types)
      /\ Len(l.types) \in Nat /\ Len(l.types) <= l.count
      /\ \A j \in 1..Len(l.types) : l.types[j] = d[j]
  BY <1>1 DEF LineOfCache, CacheLines
<1>3. PICK n, types : n \in Nat /\ n = l.count /\ types = l.types
  BY <1>2
<1>4. LoadLine(l) = [k \in 1..n |-> IF k <= Len(types) THEN types[k] ELSE "UNKNOWN"]
  BY <1>3 DEF LoadLine
<1>5. LoadLine(l) \in [1..n -> Types \union {"UNKNOWN"}]
  <2>1. \A k \in 1..n : k <= Len(types) => types[k] \in Types
    BY <1>2, <1>3
  <2> QED
    BY <1>4, <2>1
<1>6. LoadLine(l) \in Seq(Types \union {"UNKNOWN"}) /\ Len(LoadLine(l)) = n /\ DOMAIN LoadLine(l) = 1..n
  BY <1>3, <1>5
<1>7. ASSUME NEW k \in 1..n
      PROVE  LoadLine(l)[k] = d[k] \/ (LoadLine(l)[k] = "UNKNOWN" /\ ~IsWhole(l))
  <2>1. CASE k <= Len(types)
    <3>1. k \in 1..Len(types)
      BY <1>2, <1>3, <1>7, <2>1
    <3> QED
      BY <1>2, <1>3, <1>4, <1>7, <2>1, <3>1
  <2>2. CASE ~(k <= Len(types))
    <3>1. Len(types) # n
      BY <1>2, <1>3, <1>7, <2>2
    <3> QED
      BY <1>3, <1>4, <1>7, <2>2, <3>1 DEF IsWhole
  <2> QED
    BY <2>1, <2>2
<1> QED
  BY <1>1, <1>2, <1>3, <1>6, <1>7

\* The cache is loaded.
LEMMA LoadCacheInv ==
  ASSUME CacheInv, signatures = << >>, LoadCache(rebuild), UNCHANGED rebuild
  PROVE  build' \in {"ready", "died"} /\ (build' = "ready" => Faithful')
<1>1. /\ ~rebuild /\ ~rebuild' /\ cacheFile # NoFile /\ UNCHANGED <<tree, cacheFile, torn>>
  BY DEF LoadCache
<1>2. CASE \E k \in DOMAIN cacheFile : cacheFile[k].count = Missing
  BY <1>2 DEF LoadCache
<1>3. CASE \A k \in DOMAIN cacheFile : cacheFile[k].count # Missing
  <2>1. PICK names : names = {cacheFile[k].name : k \in DOMAIN cacheFile}
    OBVIOUS
  <2>2. /\ build' = "ready"
        /\ signatures' = [name \in names |->
             LoadLine(cacheFile[CHOOSE k \in DOMAIN cacheFile : cacheFile[k].name = name])]
    BY <1>3, <2>1 DEF LoadCache
  <2>3. \A name : Defined(name)' = Defined(name) /\ Full' = Full
    BY <1>1, SourcesStay
  <2>4. ASSUME NEW name \in names
        PROVE  /\ Len(signatures'[name]) = Len(Defined(name))
               /\ \A j \in DOMAIN signatures'[name] :
                    signatures'[name][j] = Defined(name)[j] \/ (signatures'[name][j] = "UNKNOWN" /\ torn)
    <3>1. PICK k \in DOMAIN cacheFile :
            cacheFile[k].name = name /\ signatures'[name] = LoadLine(cacheFile[k])
      BY <2>1, <2>2
    <3>2. PICK l : l = cacheFile[k]
      OBVIOUS
    <3>3. LineOfCache(l) /\ l.count # Missing /\ l.name = name /\ (~torn => IsWhole(l))
      BY <1>1, <1>3, <3>1, <3>2 DEF CacheInv
    <3>4. PICK u : u = LoadLine(l)
      OBVIOUS
    <3>5. /\ Len(u) = Len(Defined(name)) /\ DOMAIN u = 1..l.count
          /\ \A j \in 1..l.count : u[j] = Defined(name)[j] \/ (u[j] = "UNKNOWN" /\ ~IsWhole(l))
      BY <3>3, <3>4, LoadLineFacts
    <3>6. signatures'[name] = u
      BY <3>1, <3>2, <3>4
    <3> QED
      BY <3>3, <3>5, <3>6
  <2>5. DOMAIN signatures' = Full \/ torn
    <3>1. \A k \in DOMAIN cacheFile : cacheFile[k].name \in Full
      BY <1>1 DEF CacheInv, LineOfCache
    <3>2. ~torn => \A name \in Full : \E k \in DOMAIN cacheFile : cacheFile[k].name = name
      BY <1>1 DEF CacheInv
    <3> QED
      BY <2>1, <2>2, <3>1, <3>2
  <2> QED
    <3>1. DOMAIN signatures' = names /\ torn' = torn /\ Full' = Full
      BY <1>1, <2>2, <2>3
    <3>2. \A name \in names :
            /\ Len(signatures'[name]) = Len(Defined(name)')
            /\ \A j \in DOMAIN signatures'[name] :
                 signatures'[name][j] = Defined(name)'[j] \/ (signatures'[name][j] = "UNKNOWN" /\ torn)
      BY <2>3, <2>4
    <3> QED
      BY <1>1, <2>2, <2>5, <3>1, <3>2 DEF Faithful
<1> QED
  BY <1>2, <1>3

\* All sources are read, and the cache is emptied.
LEMMA OpenCacheInv ==
  ASSUME tree \in DOMAIN SourceTrees, ReadInv, OpenCache
  PROVE  CacheInv' /\ WriteInv'
<1>1. /\ source = Len(SourceFiles) /\ cacheFile' = <<>> /\ torn' = TRUE
      /\ pending' = DOMAIN signatures /\ UNCHANGED <<tree, signatures>>
      /\ Full' = Full /\ \A name : Defined(name)' = Defined(name)
  BY SourcesStay DEF OpenCache
<1>2. \A name : \A m \in Macros(name) : IsPast(m)
  BY <1>1, MacroFacts, SourceFacts DEF IsPast
<1>3. DOMAIN signatures = Full /\ \A name \in DOMAIN signatures : Exact(name)
  BY <1>2 DEF ReadInv, Full
<1>4. cacheFile' \in Seq(CacheLines) /\ DOMAIN cacheFile' = {}
  BY <1>1
<1>5. CacheInv'
  BY <1>1, <1>4 DEF CacheInv
<1> QED
  BY <1>1, <1>3, <1>4, <1>5 DEF WriteInv, Exact

\* A line as it is written.
LEMMA CacheLineFacts ==
  ASSUME WriteInv, NEW name \in Full
  PROVE  /\ LineOfCache(CacheLine(name)) /\ IsWhole(CacheLine(name))
         /\ CacheLine(name).name = name /\ CacheLine(name).types = Defined(name)
<1>1. PICK d \in Seq(Types) : d = Defined(name) /\ d = signatures[name]
  BY DEF WriteInv, Exact
<1>2. CacheLine(name) = [name |-> name, count |-> Len(d), types |-> d]
  BY <1>1 DEF CacheLine
<1>3. PICK l : l = CacheLine(name)
  OBVIOUS
<1>4. l.name = name /\ l.count = Len(d) /\ l.types = d /\ Len(d) \in Nat /\ Len(d) # Missing
  BY <1>2, <1>3 DEF Missing
<1>5. l \in CacheLines
  BY <1>2, <1>3 DEF CacheLines, Full
<1>6. LineOfCache(l)
  <2>1. Defined(l.name) = d /\ l.name \in Full
    BY <1>1, <1>4
  <2>2. Len(l.types) = l.count /\ \A j \in 1..Len(l.types) : l.types[j] = d[j]
    BY <1>4
  <2>3. Len(l.types) <= l.count
    BY <1>4, <2>2
  <2> QED
    BY <1>1, <1>4, <1>5, <2>1, <2>2, <2>3 DEF LineOfCache
<1>7. IsWhole(l)
  BY <1>4 DEF IsWhole
<1> QED
  BY <1>1, <1>3, <1>4, <1>6, <1>7

\* One more line.
LEMMA AppendFacts ==
  ASSUME cacheFile \in Seq(CacheLines), UNCHANGED tree,
         \A k \in DOMAIN cacheFile : LineOfCache(cacheFile[k]),
         NEW l, LineOfCache(l), cacheFile' = Append(cacheFile, l)
  PROVE  /\ cacheFile' \in Seq(CacheLines)
         /\ \A k \in DOMAIN cacheFile' : LineOfCache(cacheFile[k])'
         /\ \A k \in DOMAIN cacheFile' :
              cacheFile'[k] = l \/ (k \in DOMAIN cacheFile /\ cacheFile'[k] = cacheFile[k])
         /\ \A k \in DOMAIN cacheFile : k \in DOMAIN cacheFile' /\ cacheFile'[k] = cacheFile[k]
         /\ \E k \in DOMAIN cacheFile' : cacheFile'[k] = l
<1>1. l \in CacheLines
  BY DEF LineOfCache
<1>2. PICK n \in Nat : n = Len(cacheFile)
  OBVIOUS
<1>3. /\ cacheFile' \in Seq(CacheLines) /\ DOMAIN cacheFile' = 1..n+1 /\ DOMAIN cacheFile = 1..n
      /\ cacheFile'[n + 1] = l /\ \A k \in 1..n : cacheFile'[k] = cacheFile[k]
  BY <1>1, <1>2
<1>4. \A k \in 1..n+1 : k \in 1..n \/ k = n + 1
  BY <1>2
<1>5. \A k \in DOMAIN cacheFile' :
        cacheFile'[k] = l \/ (k \in DOMAIN cacheFile /\ cacheFile'[k] = cacheFile[k])
  BY <1>3, <1>4
<1>6. ASSUME NEW k \in DOMAIN cacheFile' PROVE LineOfCache(cacheFile[k])'
  <2>1. PICK u : u = cacheFile'[k]
    OBVIOUS
  <2>2. LineOfCache(u)
    BY <1>5, <2>1
  <2>3. LineOfCache(u)'
    BY <2>2, LinesOfCacheStay
  <2> QED
    BY <2>1, <2>3 DEF LineOfCache
<1>7. n + 1 \in 1..n+1 /\ \A k \in 1..n : k \in 1..n+1
  BY <1>2
<1> QED
  BY <1>3, <1>5, <1>6, <1>7

\* One more line is written.
LEMMA WriteLineInv ==
  ASSUME WriteInv, WriteLine
  PROVE  CacheInv' /\ WriteInv'
<1>1. PICK name : name = Following
  OBVIOUS
<1>2. /\ name \in pending /\ cacheFile' = Append(cacheFile, CacheLine(name))
      /\ pending' = pending \ {name} /\ UNCHANGED <<tree, signatures, torn>>
      /\ Full' = Full /\ \A n : Defined(n)' = Defined(n)
  BY <1>1, SourcesStay DEF WriteLine, Following
<1>3. name \in Full
  BY <1>2 DEF WriteInv
<1>4. PICK l : l = CacheLine(name)
  OBVIOUS
<1>5. LineOfCache(l) /\ IsWhole(l) /\ l.name = name
  BY <1>3, <1>4, CacheLineFacts
<1>6. /\ cacheFile' \in Seq(CacheLines)
      /\ \A k \in DOMAIN cacheFile' : LineOfCache(cacheFile[k])'
      /\ \A k \in DOMAIN cacheFile' :
           cacheFile'[k] = l \/ (k \in DOMAIN cacheFile /\ cacheFile'[k] = cacheFile[k])
      /\ \A k \in DOMAIN cacheFile : k \in DOMAIN cacheFile' /\ cacheFile'[k] = cacheFile[k]
      /\ \E k \in DOMAIN cacheFile' : cacheFile'[k] = l
  <2>1. cacheFile \in Seq(CacheLines) /\ \A k \in DOMAIN cacheFile : LineOfCache(cacheFile[k])
    BY DEF WriteInv
  <2> QED
    BY <1>2, <1>4, <1>5, <2>1, AppendFacts
<1>7. ASSUME NEW k \in DOMAIN cacheFile' PROVE IsWhole(cacheFile[k])'
  <2>1. IsWhole(cacheFile'[k])
    BY <1>5, <1>6 DEF WriteInv
  <2> QED
    BY <2>1 DEF IsWhole
<1>8. \A n \in Full \ pending' : \E k \in DOMAIN cacheFile' : cacheFile'[k].name = n
  <2>1. ASSUME NEW n \in Full, n \notin pending \/ n = name
        PROVE  \E k \in DOMAIN cacheFile' : cacheFile'[k].name = n
    <3>1. CASE n = name
      BY <1>5, <1>6, <3>1
    <3>2. CASE n \notin pending
      <4>1. PICK k \in DOMAIN cacheFile : cacheFile[k].name = n
        BY <2>1, <3>2 DEF WriteInv
      <4> QED
        BY <1>6, <4>1
    <3> QED
      BY <2>1, <3>1, <3>2
  <2> QED
    BY <1>2, <2>1
<1>9. WriteInv'
  <2>1. DOMAIN signatures' = Full' /\ \A n \in Full' : Exact(n)'
    BY <1>2 DEF WriteInv, Exact
  <2>2. torn' /\ pending' \subseteq Full'
    BY <1>2 DEF WriteInv
  <2> QED
    BY <1>2, <1>6, <1>7, <1>8, <2>1, <2>2 DEF WriteInv
<1> QED
  BY <1>9 DEF WriteInv, CacheInv

\* Where the sources are read to their end, the signatures are what they say.
LEMMA WriteFaithful ==
  ASSUME WriteInv, UNCHANGED <<tree, signatures>>
  PROVE  Faithful'
<1>1. Full' = Full /\ \A name : Defined(name)' = Defined(name)
  BY SourcesStay
<1> QED
  BY <1>1 DEF WriteInv, Faithful, Exact

\* The disk is full: a line is cut off.
LEMMA DiskFullInv ==
  ASSUME WriteInv, DiskFull
  PROVE  CacheInv' /\ Faithful'
<1>1. PICK name, line : name = Following /\ line = CacheLine(name)
  OBVIOUS
<1>2. PICK cut : /\ cacheFile' = Append(cacheFile, cut)
                 /\ \/ cut = [line EXCEPT !.count = Missing, !.types = <<>>]
                    \/ \E k \in 0..Len(signatures[name])-1 :
                         cut = [line EXCEPT !.types = SubSeq(line.types, 1, k)]
  BY <1>1 DEF DiskFull
<1>3. name \in pending /\ UNCHANGED <<tree, signatures, torn>>
  BY <1>1 DEF DiskFull, Following
<1>4. name \in Full
  BY <1>3 DEF WriteInv
<1>5. PICK d \in Seq(Types) : d = Defined(name) /\ d = signatures[name]
  BY <1>4 DEF WriteInv, Exact
<1>6. line = [name |-> name, count |-> Len(d), types |-> d] /\ Len(d) \in Nat
  BY <1>1, <1>5 DEF CacheLine
<1>7. LineOfCache(cut)
  <2>1. CASE cut = [line EXCEPT !.count = Missing, !.types = <<>>]
    <3>1. cut = [name |-> name, count |-> Missing, types |-> <<>>]
      BY <1>6, <2>1
    <3>2. cut \in CacheLines /\ cut.name = name /\ cut.count = Missing
      BY <1>4, <3>1 DEF CacheLines, Full, Missing
    <3> QED
      BY <1>4, <1>5, <3>2 DEF LineOfCache
  <2>2. CASE \E k \in 0..Len(signatures[name])-1 : cut = [line EXCEPT !.types = SubSeq(line.types, 1, k)]
    <3>1. PICK k \in 0..Len(d)-1 : cut = [line EXCEPT !.types = SubSeq(line.types, 1, k)]
      BY <1>5, <2>2
    <3>2. PICK e : e = SubSeq(d, 1, k)
      OBVIOUS
    <3>3. cut = [name |-> name, count |-> Len(d), types |-> e]
      BY <1>6, <3>1, <3>2
    <3>4. e \in Seq(Types) /\ Len(e) <= Len(d) /\ \A j \in 1..Len(e) : e[j] = d[j]
      BY <1>6, <3>2
    <3>5. cut \in CacheLines /\ cut.name = name /\ cut.count = Len(d) /\ cut.types = e
      BY <1>4, <1>6, <3>3, <3>4 DEF CacheLines, Full
    <3> QED
      BY <1>4, <1>5, <3>4, <3>5 DEF LineOfCache
  <2> QED
    BY <1>2, <2>1, <2>2
<1>8. /\ cacheFile' \in Seq(CacheLines) /\ \A k \in DOMAIN cacheFile' : LineOfCache(cacheFile[k])'
  <2>1. cacheFile \in Seq(CacheLines) /\ \A k \in DOMAIN cacheFile : LineOfCache(cacheFile[k])
    BY DEF WriteInv
  <2> QED
    BY <1>2, <1>3, <1>7, <2>1, AppendFacts
<1>9. torn'
  BY <1>3 DEF WriteInv
<1> QED
  BY <1>3, <1>8, <1>9, WriteFaithful DEF CacheInv

\* All is written.
LEMMA WrittenInv ==
  ASSUME WriteInv, Written
  PROVE  CacheInv' /\ Faithful'
<1>1. pending = {} /\ UNCHANGED <<tree, signatures, cacheFile>> /\ Full' = Full
  BY SourcesStay DEF Written
<1>2. /\ cacheFile' \in Seq(CacheLines)
      /\ \A name \in Full : \E k \in DOMAIN cacheFile : cacheFile[k].name = name
  BY <1>1 DEF WriteInv
<1>3. ASSUME NEW k \in DOMAIN cacheFile PROVE LineOfCache(cacheFile[k])' /\ IsWhole(cacheFile[k])'
  <2>1. PICK u : u = cacheFile[k]
    OBVIOUS
  <2>2. LineOfCache(u)' /\ IsWhole(u)
    BY <1>1, <2>1, LinesOfCacheStay DEF WriteInv
  <2> QED
    BY <1>1, <2>1, <2>2 DEF LineOfCache, IsWhole
<1> QED
  BY <1>1, <1>2, <1>3, WriteFaithful DEF CacheInv

-----------------------------------------------------------------------------
(* TablesInv, step by step                                                 *)

\* The signatures are as good as they were.
LEMMA FaithfulStays ==
  ASSUME Faithful, UNCHANGED <<tree, signatures, torn, rebuild>>
  PROVE  Faithful'
BY SourcesStay DEF Faithful

\* What was read and written is as good as it was.
LEMMA ReadStays ==
  ASSUME UNCHANGED tables
  PROVE  (ReadInv => ReadInv') /\ (WriteInv => WriteInv')
<1>1. /\ UNCHANGED <<tree, signatures, source, taken, macro, pending, cacheFile, torn>>
      /\ SourceFiles' = SourceFiles /\ Full' = Full
      /\ \A name : Macros(name)' = Macros(name) /\ Defined(name)' = Defined(name)
  BY SourcesStay DEF tables, reading
<1>2. Source' = Source /\ Passed' = Passed
  BY <1>1 DEF Source, Passed
<1>3. PlaceInv => PlaceInv'
  BY <1>1, <1>2 DEF PlaceInv
<1>4. \A m : IsPast(m)' <=> IsPast(m)
  BY <1>1, <1>2 DEF IsPast
<1>5. {name \in Known : \E m \in Macros(name) : IsPast(m)}' = {name \in Known : \E m \in Macros(name) : IsPast(m)}
  BY <1>1, <1>4
<1>6. \A name : Exact(name) => Exact(name)'
  BY <1>1 DEF Exact
<1>7. ReadInv => ReadInv'
  BY <1>1, <1>3, <1>5, <1>6 DEF ReadInv
<1>8. ASSUME WriteInv PROVE WriteInv'
  <2>1. ASSUME NEW k \in DOMAIN cacheFile PROVE LineOfCache(cacheFile[k])' /\ IsWhole(cacheFile[k])'
    <3>1. PICK u : u = cacheFile[k]
      OBVIOUS
    <3>2. LineOfCache(u)' /\ IsWhole(u)
      BY <1>1, <1>8, <3>1, LinesOfCacheStay DEF WriteInv
    <3> QED
      BY <1>1, <3>1, <3>2 DEF LineOfCache, IsWhole
  <2>2. \A name \in Full : Exact(name)'
    BY <1>6, <1>8 DEF WriteInv
  <2>3. /\ DOMAIN signatures = Full /\ torn /\ pending \subseteq Full /\ cacheFile \in Seq(CacheLines)
        /\ \A name \in Full \ pending : \E k \in DOMAIN cacheFile : cacheFile[k].name = name
    BY <1>8 DEF WriteInv
  <2> QED
    BY <1>1, <2>1, <2>2, <2>3 DEF WriteInv
<1> QED
  BY <1>7, <1>8

\* main() goes on without the tables, or with them as they are.
LEMMA TablesStay ==
  ASSUME TablesInv, UNCHANGED <<tables, simple, rebuild>>,
         \/ phase' = phase
         \/ phase \in {"entry", "exit"} /\ phase' \in {"entry", "exit"}
         \/ phase' \in {"start", "done", "died"}
  PROVE  TablesInv'
<1>1. /\ UNCHANGED <<tree, signatures, source, taken, macro, cacheFile, torn, build>>
  BY DEF tables, reading
<1>2. CacheInv'
  BY <1>1, CacheStays DEF TablesInv
<1>3. (ReadInv => ReadInv') /\ (WriteInv => WriteInv') /\ (Faithful => Faithful')
  BY <1>1, ReadStays, FaithfulStays
<1> QED
  BY <1>1, <1>2, <1>3 DEF TablesInv

\* One step of collectSystemCallSignatures().
LEMMA CompileTables ==
  ASSUME TablesInv, Compile
  PROVE  TablesInv'
<1>1. /\ phase = "build" /\ Collect(rebuild) /\ UNCHANGED <<simple, rebuild>> /\ tree \in DOMAIN SourceTrees
      /\ phase' = CASE build' = "ready" -> "entry" [] build' = "died" -> "died" [] OTHER -> "build"
  BY DEF Compile, TablesInv
<1>2. /\ build' = "ready" => phase' = "entry"
      /\ build' = "died" => phase' = "died"
      /\ build' \notin {"ready", "died"} => phase' = "build"
  BY <1>1
<1>3. tree' = tree
  BY <1>1 DEF Collect, LoadCache, FindSources, ReadLine, NextSource, OpenCache, WriteLine, DiskFull, Written
<1>4. ASSUME CacheInv', build' \in {"died", "spins"} PROVE TablesInv'
  BY <1>1, <1>2, <1>3, <1>4 DEF TablesInv
<1>5. ASSUME CacheInv', build' = "ready", Faithful' PROVE TablesInv'
  BY <1>1, <1>2, <1>3, <1>5 DEF TablesInv
<1>6. ASSUME CacheInv', build' = "read", ReadInv' PROVE TablesInv'
  BY <1>1, <1>2, <1>3, <1>6 DEF TablesInv
<1>7. ASSUME CacheInv', build' = "write", WriteInv' PROVE TablesInv'
  BY <1>1, <1>2, <1>3, <1>7 DEF TablesInv
<1>8. ASSUME UNCHANGED <<cacheFile, torn>> PROVE CacheInv'
  BY <1>3, <1>8, CacheStays DEF TablesInv
<1>9. CASE LoadCache(rebuild)
  <2>1. /\ build = "start" /\ UNCHANGED <<cacheFile, torn>>
    BY <1>9 DEF LoadCache
  <2>2. CacheInv /\ signatures = << >>
    BY <1>1, <2>1 DEF TablesInv
  <2> QED
    BY <1>1, <1>4, <1>5, <1>8, <1>9, <2>1, <2>2, LoadCacheInv
<1>10. CASE FindSources(rebuild)
  <2>1. build = "start" /\ build' = "read" /\ UNCHANGED <<cacheFile, torn>>
    BY <1>10 DEF FindSources
  <2>2. signatures = << >> /\ source = 0 /\ taken = 0 /\ macro = <<>>
    BY <1>1, <2>1 DEF TablesInv
  <2> QED
    BY <1>1, <1>6, <1>8, <1>10, <2>1, <2>2, FindSourcesInv
<1>11. CASE ReadLine \/ NextSource
  <2>1. build = "read" /\ UNCHANGED <<cacheFile, torn>>
    BY <1>11 DEF ReadLine, NextSource
  <2>2. ReadInv
    BY <1>1, <2>1 DEF TablesInv
  <2>3. build' \in {"read", "died", "spins"} /\ (build' = "read" => ReadInv')
    BY <1>1, <1>11, <2>2, ReadLineInv, NextSourceInv
  <2> QED
    BY <1>4, <1>6, <1>8, <2>1, <2>3
<1>12. CASE OpenCache
  <2>1. build = "read" /\ build' = "write"
    BY <1>12 DEF OpenCache
  <2>2. ReadInv
    BY <1>1, <2>1 DEF TablesInv
  <2> QED
    BY <1>1, <1>7, <1>12, <2>1, <2>2, OpenCacheInv
<1>13. CASE WriteLine \/ DiskFull \/ Written
  <2>1. build = "write"
    BY <1>13 DEF WriteLine, DiskFull, Written
  <2>2. WriteInv
    BY <1>1, <2>1 DEF TablesInv
  <2>3. CASE WriteLine
    <3>1. build' = "write"
      BY <2>1, <2>3 DEF WriteLine
    <3> QED
      BY <1>7, <2>2, <2>3, <3>1, WriteLineInv
  <2>4. CASE DiskFull
    <3>1. build' = "ready"
      BY <2>4 DEF DiskFull
    <3> QED
      BY <1>5, <2>2, <2>4, <3>1, DiskFullInv
  <2>5. CASE Written
    <3>1. build' = "ready"
      BY <2>5 DEF Written
    <3> QED
      BY <1>5, <2>2, <2>5, <3>1, WrittenInv
  <2> QED
    BY <1>13, <2>3, <2>4, <2>5
<1> QED
  BY <1>1, <1>9, <1>10, <1>11, <1>12, <1>13 DEF Collect

\* A run begins with no signatures, and the cache of the last one.
LEMMA StartTables ==
  ASSUME TablesInv, Start
  PROVE  TablesInv'
<1>1. /\ UNCHANGED <<tree, cacheFile, torn>> /\ build' = "start" /\ signatures' = << >>
      /\ source' = 0 /\ taken' = 0 /\ macro' = <<>>
  BY DEF Start
<1>2. phase' \in {"died", "done", "build"} \/ (phase' = "entry" /\ simple')
  BY DEF Start
<1>3. CacheInv'
  BY <1>1, CacheStays DEF TablesInv
<1> QED
  BY <1>1, <1>2, <1>3 DEF TablesInv

\* TablesInv is inductive.
LEMMA TablesStep ==
  ASSUME TablesInv, [Next]_vars
  PROVE  TablesInv'
<1>1. CASE EnterCall \/ ReturnFromCall \/ SignalStop \/ KillTracee \/ Resume \/ UNCHANGED vars
  <2>1. UNCHANGED <<tables, phase, simple, rebuild>>
    BY <1>1 DEF EnterCall, ReturnFromCall, SignalStop, KillTracee, Resume, vars, tracer
  <2> QED
    BY <2>1, TablesStay
<1>2. CASE PrintEntry \/ PrintReturn \/ PrintNoReturn \/ Interrupt \/ Again
  <2>1. /\ UNCHANGED <<tables, simple, rebuild>>
        /\ \/ phase \in {"entry", "exit"} /\ phase' \in {"entry", "exit"}
           \/ phase' \in {"start", "done", "died"}
    BY <1>2 DEF PrintEntry, PrintReturn, PrintNoReturn, Interrupt, Again
  <2> QED
    BY <2>1, TablesStay
<1> QED
  BY <1>1, <1>2, CompileTables, StartTables DEF Next

\* At first there is no cache.
LEMMA TablesInit == Init => TablesInv
  BY DEF Init, InitTables, TablesInv, CacheInv

\* Whatever was killed or cut short before, the types trace uses for a system call
\* are those of its first macro in the kernel sources; types are unknown, or missing,
\* only if the cache that was read had not been written to its end, and never after
\* --rebuild (collectSystemCallSignatures).
THEOREM SignaturesCorrect ==
  Spec => []SignaturesTrue
<1>1. TablesInv => SignaturesTrue
  BY DEF TablesInv, Faithful, Full, SignaturesTrue
<1>2. TablesInv /\ [Next]_vars => TablesInv'
  BY TablesStep
<1> QED
  BY <1>1, <1>2, TablesInit, PTL DEF Spec
=============================================================================
