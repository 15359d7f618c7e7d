---------------------------- MODULE SystemCalls ----------------------------
(***************************************************************************)
(* assign3, trace-system-calls.cc and trace-error-constants.cc: the tables *)
(* trace needs.  The numbers of system calls and errors come from system   *)
(* headers, the types of parameters from the SYSCALL_DEFINE macros of the  *)
(* kernel sources, which take a minute to read and are therefore kept in a *)
(* cache file.  The process may be killed, or the disk be full, while that *)
(* file is written; the next run reads what is there.                      *)
(***************************************************************************)
EXTENDS Integers, SequencesExt

CONSTANTS
    NumberLines,        \* of unistd_64.h: [matches, name, number]
    ErrorLines,         \* of errno-base.h and errno.h: the same
    SourceTrees,        \* kernel sources: files in the order of find, which are
                        \* sequences of lines [define, count, name, items, closed]:
                        \* a macro that begins, the arguments on the line, a ')'
    Pointers,           \* types with a '*'
    NoFile

VARIABLES
    tree,               \* the kernel sources
    signatures,         \* systemCallSignatures
    source, taken,      \* source files that are read, lines taken from the next
    macro,              \* the lines of the macro that is being read
    pending,            \* system calls whose signature is not written yet
    cacheFile,          \* .trace_signatures.txt: lines [name, count, types]
    torn,               \* history: the cache was not written to its end
    build               \* where collectSystemCallSignatures() stands

reading == <<source, taken, macro>>
tables == <<tree, signatures, reading, pending, cacheFile, torn, build>>

Missing == -1
Known == {NumberLines[k].name : k \in {j \in DOMAIN NumberLines : NumberLines[j].matches}}

SourceFiles == SourceTrees[tree]
Source == SourceFiles[source + 1]

ASSUME SourcesAssumption ==
    \A t \in DOMAIN SourceTrees :
        SourceTrees[t] \in Seq(Seq([define : BOOLEAN, count : Nat, name : STRING,
                                   items : Seq(STRING), closed : BOOLEAN]))

InitTables ==
    /\ tree \in DOMAIN SourceTrees
    /\ signatures = << >> /\ pending = {} /\ build = "none"
    /\ source = 0 /\ taken = 0 /\ macro = <<>>
    /\ cacheFile = NoFile /\ torn = FALSE

\* collectSystemCallNumbers(), compileSystemCallErrorStrings(): of the lines for
\* a number the last one counts.
LinesFor(lines, number) == {k \in DOMAIN lines : lines[k].matches /\ lines[k].number = number}
Table(lines) ==
    [number \in {lines[k].number : k \in {j \in DOMAIN lines : lines[j].matches}} |->
        lines[Max(LinesFor(lines, number))].name]
systemCallNumbers == Table(NumberLines)
errorConstants == Table(ErrorLines)

normalizeType(type) ==
    CASE type \in {"const char __user *", "const char *"} -> "STRING"
      [] type = "unsigned long" \/ type \in Pointers \ {"const char __user *", "const char *"} -> "POINTER"
      [] OTHER -> "INTEGER"

\* processSystemCallArguments(): each parameter is a type and a name.
Items(text) == FlattenSeq([k \in DOMAIN text |-> text[k].items])
processSystemCallArguments(text) ==
    [k \in 1..text[1].count |-> normalizeType(Items(text)[2 * k - 1])]
Defines(text) ==
    signatures' = [name \in DOMAIN signatures \union {text[1].name} |->
                      IF name = text[1].name THEN processSystemCallArguments(text) ELSE signatures[name]]

\* Mutation: the last definition of a system call counts.
processSystemCallSignature_Last(text) ==
    /\ IF text[1].name \in Known THEN Defines(text) ELSE UNCHANGED signatures
    /\ UNCHANGED build
\* The first definition counts; one that does not fit its pattern fails an
\* assertion.
processSystemCallSignature(text) ==
    IF text[1].name \notin Known \/ text[1].name \in DOMAIN signatures
    THEN UNCHANGED <<signatures, build>>
    ELSE IF text[1].count # 0 /\ Len(Items(text)) # 2 * text[1].count
    THEN build' = "died" /\ UNCHANGED signatures
    ELSE Defines(text) /\ UNCHANGED build

\* ingestEntireMacro(): a line goes on a macro or begins one.
ingestEntireMacro(text, line) == IF text # <<>> \/ line.define THEN Append(text, line) ELSE <<>>

-----------------------------------------------------------------------------
(* collectSystemCallSignatures()                                           *)

\* A type that is cut off reads as SYSCALL_UNKNOWN_TYPE, a missing count
\* makes stoi() throw.
LoadLine(line) == [k \in 1..line.count |-> IF k <= Len(line.types) THEN line.types[k] ELSE "UNKNOWN"]

\* loadSignaturesFromCache()
LoadCache(rebuild) ==
    /\ build = "start" /\ ~rebuild /\ cacheFile # NoFile
    /\ IF \E k \in DOMAIN cacheFile : cacheFile[k].count = Missing
       THEN build' = "died" /\ UNCHANGED signatures
       ELSE /\ build' = "ready"
            /\ signatures' = [name \in {cacheFile[k].name : k \in DOMAIN cacheFile} |->
                 LoadLine(cacheFile[CHOOSE k \in DOMAIN cacheFile : cacheFile[k].name = name])]
    /\ UNCHANGED <<tree, reading, pending, cacheFile, torn>>

\* The subprocess is started that lists the source files.
FindSources(rebuild) ==
    /\ build = "start" /\ (rebuild \/ cacheFile = NoFile)
    /\ build' = "read"
    /\ UNCHANGED <<tree, signatures, reading, pending, cacheFile, torn>>

\* processSignaturesWithinKernelSourceFile(), one line.
ReadLine ==
    /\ build = "read" /\ source < Len(SourceFiles) /\ taken < Len(Source)
    /\ LET text == ingestEntireMacro(macro, Source[taken + 1]) IN
       IF text # <<>> /\ Source[taken + 1].closed
       THEN macro' = <<>> /\ processSystemCallSignature(text)
       ELSE macro' = text /\ UNCHANGED <<signatures, build>>
    /\ taken' = taken + 1
    /\ UNCHANGED <<tree, source, pending, cacheFile, torn>>

\* processAllKernelSourceFiles(): the file ends.  For the ')' of a macro that it
\* does not close trace reads on forever.
NextSource ==
    /\ build = "read" /\ source < Len(SourceFiles) /\ taken = Len(Source)
    /\ IF macro # <<>> THEN build' = "spins" /\ UNCHANGED reading
       ELSE source' = source + 1 /\ taken' = 0 /\ UNCHANGED <<macro, build>>
    /\ UNCHANGED <<tree, signatures, pending, cacheFile, torn>>

\* cacheSignatures(): the file is opened, and emptied, ...
OpenCache ==
    /\ build = "read" /\ source = Len(SourceFiles)
    /\ build' = "write"
    /\ cacheFile' = <<>> /\ torn' = TRUE
    /\ pending' = DOMAIN signatures
    /\ UNCHANGED <<tree, signatures, reading>>

CacheLine(name) == [name |-> name, count |-> Len(signatures[name]), types |-> signatures[name]]

\* The next one in the order of the map, whatever that is.
Following == CHOOSE name \in pending : TRUE

\* ... and written line by line, each flushed by endl.
WriteLine ==
    /\ build = "write" /\ pending # {}
    /\ cacheFile' = Append(cacheFile, CacheLine(Following))
    /\ pending' = pending \ {Following}
    /\ UNCHANGED <<tree, signatures, reading, torn, build>>

\* Where the disk is full, a line ends after one of its words, and the
\* lines that follow are dropped: nobody looks at the state of the stream.
DiskFull ==
    /\ build = "write" /\ pending # {}
    /\ \E cut \in {[CacheLine(Following) EXCEPT !.count = Missing, !.types = <<>>]}
                  \union {[CacheLine(Following) EXCEPT !.types = SubSeq(@, 1, k)] :
                            k \in 0..Len(signatures[Following])-1} :
         cacheFile' = Append(cacheFile, cut)
    /\ build' = "ready" /\ pending' = {}
    /\ UNCHANGED <<tree, signatures, reading, torn>>

Written ==
    /\ build = "write" /\ pending = {}
    /\ build' = "ready" /\ torn' = FALSE
    /\ UNCHANGED <<tree, signatures, reading, pending, cacheFile>>

Collect(rebuild) ==
    \/ LoadCache(rebuild) \/ FindSources(rebuild) \/ ReadLine \/ NextSource
    \/ OpenCache \/ WriteLine \/ DiskFull \/ Written

-----------------------------------------------------------------------------
(* What the sources say of a system call: its first macro, with the        *)
(* arguments up to the first ')'.                                          *)

\* A macro begins where no other goes on.
Begins(f, k) ==
    LET file == SourceFiles[f] IN
    /\ file[k].define
    /\ \A j \in 1..k-1 : file[j].define => \E h \in j..k-1 : file[h].closed

Macros(name) ==
    {m \in UNION {{f} \X (DOMAIN SourceFiles[f]) : f \in DOMAIN SourceFiles} :
        Begins(m[1], m[2]) /\ SourceFiles[m[1]][m[2]].name = name}

NotAfter(m, n) == m[1] < n[1] \/ (m[1] = n[1] /\ m[2] <= n[2])

MacroAt(m) ==
    LET file == SourceFiles[m[1]] IN
    SubSeq(file, m[2], CHOOSE k \in m[2]..Len(file) :
                          file[k].closed /\ \A j \in m[2]..k-1 : ~file[j].closed)

Defined(name) ==
    LET text == MacroAt(CHOOSE m \in Macros(name) : \A n \in Macros(name) : NotAfter(m, n))
        items == FlattenSeq([k \in DOMAIN text |-> text[k].items])
    IN  [k \in 1..text[1].count |-> normalizeType(items[2 * k - 1])]
=============================================================================
