---------------------------- MODULE MCPrograms ----------------------------
(***************************************************************************)
(* The components that run alone, each on its small instance: the readers  *)
(* of disk images (assign2) and of reviews (assign1), trace (assign3) and  *)
(* the messages of the proxy (assign6).  A behaviour is one of one of      *)
(* them; the variables of the others keep their initial values.            *)
(***************************************************************************)
EXTENDS Trace

VARIABLES
    program,            \* the component that runs
    step,               \* the phase of all but trace
    image, disk, flags, inumber, inodeLines, pathLines, paths,
    options, searchString, asked, found, sorted, shown, quit,
    wire, sent, first, headers, payload, name, ignorePayload, stored

ofFileSystem == <<image, disk, flags, inumber, inodeLines, pathLines, paths>>
ofSearch == <<options, searchString, asked, found, sorted, shown, quit>>
ofMessage == <<wire, sent, first, headers, payload, name, ignorePayload, stored>>

-----------------------------------------------------------------------------
(* assign2                                                                 *)

Slot(i, n) == [inumber |-> i, name |-> n]
FreeInode == [alloc |-> FALSE, dir |-> FALSE, size |-> 0, content |-> << >>]
File(id, size) ==
    [alloc |-> TRUE, dir |-> FALSE, size |-> size,
     content |-> [b \in 0..(size + 7) \div 8 - 1 |-> <<id, b>>]]
Directory(blocks, entries) ==
    [alloc |-> TRUE, dir |-> TRUE, size |-> 2 * entries,
     content |-> [b \in 0..Len(blocks)-1 |-> blocks[b + 1]]]
dots(up) == <<Slot(up, "."), Slot(1, "..")>>
Disk(size, second) ==
    <<Directory(<<dots(1) \o <<Slot(2, "d"), Slot(3, "f")>>,
                  <<Slot(5, "g"), Slot(0, "x"), Slot(6, "long name"), Slot(4, "stale")>>>>, 7),
      Directory(<<dots(2) \o second>>, 2 + Len(second)),
      File("f", size), FreeInode, File("g", 9), File("last", 3)>>
Images ==
    [k \in 1..9 |-> Disk(<<0, 7, 8, 24, 25, 32, 33, 48, 64>>[k], <<>>)] \o
    <<Disk(17, <<Slot(5, "long name"), Slot(3, "g")>>),
      Disk(17, <<Slot(5, "long name"), Slot(6, "g")>>),
      Disk(17, <<Slot(3, "g"), Slot(5, "long name")>>)>>
SectorSize == 8
EntrySize == 2
AddressesPerBlock == 2
InodesPerSector == 2
NumAddresses == 3
MaxEntries == 7
LongNames == {"long name"}
Slash == 6
FS == INSTANCE FileSystem WITH phase <- step, calls <- paths
ASSUME FS!FileSystemAssumption

-----------------------------------------------------------------------------
(* assign1                                                                 *)

Review(title, headline, body, stars, date) ==
    [text |-> <<title, headline, body>>, stars |-> stars, date |-> date]
a == <<1>>
b == <<2>>
ab == <<1, 2>>
Reviews ==
    <<Review(<<a>>, <<b>>, <<a, b, ab>>, 5, <<2019, 1, 2>>),
      Review(<<a>>, <<ab, b>>, <<b, a>>, 1, <<2019, 1, 2>>),
      Review(<<b, a>>, <<>>, <<a, b>>, 5, <<2018, 12, 31>>),
      Review(<<b, a>>, <<ab>>, <<a, b>>, 5, <<2018, 12, 31>>)>>
Letters == [c \in {"a", "A", "b"} |-> IF c = "b" THEN 2 ELSE 1]
Query(terms, text) == [terms |-> terms, text |-> text]
Queries ==
    "a" :> Query(<<<<a>>>>, <<"a">>) @@
    "a b" :> Query(<<<<a>>, <<b>>>>, <<"blank", "A", "blank", "blank", "b", "blank">>) @@
    "'a b'" :> Query(<<<<a, b>>>>, <<"quote", "a", "blank", "b", "quote">>) @@
    "a-b ab" :> Query(<<<<a, b>>, <<ab>>>>, <<"a", "dash", "b", "blank", "a", "other", "b">>) @@
    "'a-b a' a" :> Query(<<<<a, b, a>>, <<a>>>>, <<"quote", "a", "dash", "b", "blank", "a", "quote", "blank", "a">>) @@
    "aa" :> Query(<<<<<<1, 1>>>>>>, <<"a", "A">>) @@
    "bb" :> Query(<<<<<<2, 2>>>>>>, <<"b", "b">>) @@
    "?" :> Query(<<>>, <<"other">>)
Numerals == "-1" :> -1 @@ "0" :> 0 @@ "3" :> 3
Searches ==
    {<<>>, <<"-r", "a">>, <<"-k", "stars", "-n", "3", "-r">>, <<"-k", "bodysize", "-d", "dir">>,
     <<"-n", "-1", "-k", "titlesize", "a", "-f", "files", "a b">>, <<"-n", "0", "a", "-k">>,
     <<"-k", "titlesize", "-r">>, <<"-n", "a", "a">>, <<"-h">>, <<"a", "-n">>}
Title == 1
Headline == 2
Body == 3
PageSize == 2
Wrap == 8
MaxQueries == 2
KS == INSTANCE KeywordSearch WITH phase <- step, CommandLines <- Searches, Number <- Numerals
ASSUME KS!KeywordSearchAssumption

-----------------------------------------------------------------------------
(* assign3: the tracee opens a file, grows its heap, exits, or makes a     *)
(* call that no header lists.  Of the three kernel trees the first defines *)
(* a call twice, the second leaves a macro open, the third lacks arguments.*)

Numbered(n, number) == [matches |-> TRUE, name |-> n, number |-> number]
SomeNumberLines ==
    <<[matches |-> FALSE, name |-> "", number |-> 0], Numbered("open", 2), Numbered("brk", 12),
      Numbered("gone", 13), Numbered("exit_group", 231), Numbered("fork", 57)>>
SomeErrorLines == <<Numbered("ENOENT", 2), Numbered("EAGAIN", 11), Numbered("EOLD", 2)>>

Define(count, n, items, closed) ==
    [define |-> TRUE, count |-> count, name |-> n, items |-> items, closed |-> closed]
Other(items, closed) == [define |-> FALSE, count |-> 0, name |-> "", items |-> items, closed |-> closed]
Open2 == Define(2, "open", <<"const char __user *", "filename">>, FALSE)
Exit1 == Define(1, "exit_group", <<"int", "status">>, TRUE)
SomeSourceTrees ==
    <<<< <<Other(<<>>, TRUE), Open2, Other(<<"int", "flags">>, TRUE), Define(1, "odd", <<"int">>, TRUE)>>,
         <<Define(2, "open", <<"int", "a", "char *", "b">>, TRUE), Exit1,
           Define(1, "brk", <<"unsigned long", "brk">>, TRUE), Define(0, "fork", <<>>, TRUE)>> >>,
      << <<Exit1, Open2>> >>,
      << <<Define(1, "open", <<"const char *", "a", "int", "b">>, TRUE)>> >> >>

Call(number, args, results) == [number |-> number, args |-> args, results |-> results]
SomeCalls ==
    {Call(2, <<7, 9>>, {3, -2, -512}), Call(12, <<100, 0>>, {100}), Call(231, <<0, 0>>, {}),
     Call(99, <<>>, {0})}
SomeCommandLines ==
    {<<"--simple", "prog">>, <<"prog", "--simple">>, <<"--rebuild", "prog">>, <<"--rebuild">>,
     <<"--other", "prog">>}
SomePointers == {"const char __user *", "const char *", "char *"}

-----------------------------------------------------------------------------
(* assign6                                                                 *)

Words == "8" :> 8 @@ "0x2" :> 2 @@ "3" :> 3 @@ "-1" :> -1 @@ "80000" :> 80000 @@ "200" :> 200 @@ "0" :> 0
ErrorText == <<"w", "h", "y">>
Field(n, s, value) == [kind |-> "field", name |-> <<n, s>>, value |-> value]
More(value) == [kind |-> "more", value |-> value]
Empty == [kind |-> "empty"]
GET(url, origin) ==
    [request |-> TRUE, first |-> [method |-> "GET", url |-> url, protocol |-> "HTTP/1.1"],
     lines |-> <<Field("a", "A", <<"x">>), Empty>>, body |-> <<>>, data |-> <<>>, origin |-> origin]
POST(lines, body, data) ==
    [request |-> TRUE, first |-> [method |-> "POST", url |-> <<"http://", "h", "/">>, protocol |-> "HTTP/1.1"],
     lines |-> lines, body |-> body, data |-> data, origin |-> <<<<"h">>, 80, <<"/">>>>]
Answer(code, lines, body, data) ==
    [request |-> FALSE, first |-> [protocol |-> "HTTP/1.1", code |-> code],
     lines |-> lines, body |-> body, data |-> data, origin |-> << >>]
Length(word) == Field("content-length", "Content-Length", <<word>>)
Chunks(word) == Field("transfer-encoding", "transfer-encoding", <<word>>)
Urls ==
    {<<<<"http://", "h">>, <<<<"h">>, 80, <<"/">>>>>>,
     <<<<"http://", "h", ":", "80000", "/", "p", "/">>, <<<<"h">>, 14464, <<"/", "p", "/">>>>>>,
     <<<<"h", ":", "8">>, <<<<"h">>, 8, <<"/">>>>>>,
     <<<<"/", "p">>, << >>>>,
     <<<<"https", ":", "/", "/", "h">>, << >>>>}
Messages ==
    {GET(u[1], u[2]) : u \in Urls} \union
    {POST(<<Length("0x2"), Empty>>, <<"d", "e">>, <<"d", "e">>),
     POST(<<Length("8"), Chunks("chunked"), Empty>>, <<"0x2", "d", "e", "\r", "\n", "0", "\r", "\n">>, <<"d", "e">>),
     Answer("200", <<Field("a", "a", <<"x">>), More(<<"y">>), Field("b", "B", <<>>), Field("a", "A", <<"z">>),
                     More(<<>>), Length("3"), Empty, Length("8")>>, <<"d">>, <<"d">>),
     Answer("none", <<Length("-1"), Empty>>, <<"d">>, <<"d">>),
     Answer("200", <<Length("3"), Length("0x2")>>, <<>>, <<>>),
     Answer("200", <<Field("content-length", "Content-Length", <<"3", "3">>), Empty>>, <<"d", "e", "f">>, <<>>),
     Answer("200", <<Chunks("Chunked"), Empty>>, <<"3", "d", "e", "f", "\r", "\n", "0", "\r", "\n">>, <<>>),
     Answer("200", <<Chunks("chunked"), Empty>>, <<"3", "d">>, <<"d", "NUL", "NUL", "NUL", "NUL">>),
     Answer("200", <<Chunks("chunked"), Empty>>,
            <<"3", "d", "e", "f", "\r", "\n", "0x2", "d", "e", "\r", "\n", "0", "t", "r", "\r", "\n">>,
            <<"d", "e", "f", "d", "e">>)}
Ports == 65536
HM == INSTANCE HttpMessage WITH phase <- step, Number <- Words
ASSUME HM!HttpMessageAssumption

-----------------------------------------------------------------------------

InitPrograms ==
    /\ program \in {"file system", "search", "trace", "message"}
    /\ FS!Init /\ KS!Init /\ Init /\ HM!Init
    /\ program = "file system" \/ image = 1
    /\ program = "trace" \/ tree = 1

ReadDisk == program = "file system" /\ FS!Next /\ UNCHANGED <<program, ofSearch, vars, ofMessage>>
SearchReviews == program = "search" /\ KS!Next /\ UNCHANGED <<program, ofFileSystem, vars, ofMessage>>
TraceProgram ==
    program = "trace" /\ Next /\ UNCHANGED <<program, step, ofFileSystem, ofSearch, ofMessage>>
PassMessage == program = "message" /\ HM!Next /\ UNCHANGED <<program, ofFileSystem, ofSearch, vars>>

NextOfProgram == ReadDisk \/ SearchReviews \/ TraceProgram \/ PassMessage

Programs ==
    InitPrograms /\ [][NextOfProgram]_<<program, step, ofFileSystem, ofSearch, vars, ofMessage>>

-----------------------------------------------------------------------------
(* The properties are stated in the modules of the components; those of    *)
(* Trace are SignaturesTrue and TraceExact.                                *)

\* diskimageaccess -i: see FileSystem.
InodesDumped == program = "file system" => FS!InodesDumped
\* diskimageaccess -p: see FileSystem.
PathsDumped == program = "file system" => FS!PathsDumped
\* The reviews that match a query: see KeywordSearch.
SearchExact == program = "search" => KS!SearchExact
\* What amazon_search shows: see KeywordSearch.
ShownInOrder == program = "search" => KS!ShownInOrder
\* The messages the proxy reads: see HttpMessage.
MessageExact == program = "message" => HM!MessageExact
\* The messages the proxy writes: see HttpMessage.
MessageKept == program = "message" => HM!MessageKept
=============================================================================
