------------------------------- MODULE Proxy -------------------------------
(***************************************************************************)
(* assign6: a caching HTTP proxy.  main() accepts connections and schedules*)
(* a thunk for each; the thunk reads the request, takes the mutex of its   *)
(* hash class, and answers from the cache, from the origin server or with  *)
(* an error, all under that mutex.                                         *)
(*                                                                         *)
(* The cache is a directory of directories, one for each hash of a request *)
(* (taken to be injective), with one file for each stored response.  Steps *)
(* on it are system calls, which handlers that hold different mutexes may  *)
(* interleave, and a signal may end the process between any two of them.   *)
(* The pool is a WorkPool.  Headers are the two that the proxy writes; how *)
(* messages are read and written is in HttpMessage.                        *)
(***************************************************************************)
EXTENDS Integers, SequencesExt

CONSTANTS
    Sends,              \* what clients may send: [from : address, request]
    BlockedFile,        \* blocked-domains.txt: per line, the servers it matches
    Own,                \* servers that are this proxy
    Answers,            \* what origin servers may answer: code, bars, age
    ProxyAddress,       \* the proxy's address, as a server of its own sees it
    Garbage,            \* what a dangling reference to an address may read
    MutexOf(_),         \* hashRequest(): the mutex of a request, its class
    NumThreads,
    Arguments,          \* command lines: sequences of [flag, value], value
                        \* Bad when it is missing or malformed
    Bad, NoServer,
    MaxClients, MaxConnections, MaxTime, MaxMisreads, MaxKills   \* bounds

Connections == 1..MaxConnections
None == 0

\* Requests as they are sent, and with the address they came from.
Addresses == {"none", ProxyAddress, Garbage} \union {s.from : s \in Sends}
             \union UNION {ToSet(s.request.via) : s \in Sends}
Methods   == {"none"} \union {s.request.method : s \in Sends}
Servers   == {"none", NoServer} \union {s.request.server : s \in Sends}
Texts     == [method : Methods, server : Servers, proto : BOOLEAN, via : Seq(Addresses)]
Requests  == [method : Methods, server : Servers, proto : BOOLEAN, via : Seq(Addresses),
              ip : Addresses]

ASSUME ProxyAssumption ==
    /\ NumThreads \in Nat \ {0}
    /\ \A k \in {MaxClients, MaxConnections, MaxTime, MaxMisreads, MaxKills} : k \in Nat
    /\ Sends \subseteq [from : Addresses, request : Texts]
    /\ \A a \in Answers : a.age \in Nat
    /\ \A args \in Arguments : \A k \in DOMAIN args : k \in Nat \ {0} /\
          (args[k].flag = "max-age" => args[k].value \in Nat \union {-1, Bad})

VARIABLES
    mode, maxAge, forwardToProxy,   \* the process and its options
    now,                        \* the clock
    queue, busy, done,          \* the pool
    pc, req, child,             \* the thunk, its request, who it waits for
    owner,                      \* requestMutexes: locked mutex -> its holder
    cache,                      \* key -> (name of file -> response)
    name, todo, resp, sides,    \* locals of a handler
    replies, hit,               \* what a client got, and where a hit came from
    opened, kills,              \* bounds: connections so far
    answered,                   \* history: what was answered to which request
    contested,                  \* history: keys two handlers worked on at once
    cut,                        \* history: keys whose store was killed
    misread                     \* history: thunks that read another address

process == <<mode, maxAge, forwardToProxy, now, kills>>
thunks  == <<queue, busy, done>>
handler == <<pc, req, child>>
locals  == <<name, todo, resp, sides>>
client  == <<replies, hit, opened>>
history == <<answered, cut, misread>>
vars    == <<process, thunks, handler, owner, cache, locals, client, history, contested>>

Pool == INSTANCE WorkPool WITH
    Clients <- {}, Thunks <- Connections, Limit <- NumThreads,
    backlog <- queue, waiting <- {}, owed <- <<>>, stopped <- ~TRUE

Least(a, b) == IF a < b THEN a ELSE b
Set(f, x, y) == [z \in DOMAIN f \union {x} |-> IF z = x THEN y ELSE f[z]]
Handlers == {"GET", "POST", "HEAD", "CONNECT"}
NoRequest == [method |-> "none", server |-> "none", proto |-> FALSE, via |-> <<>>, ip |-> "none"]
NoName == [created |-> -1, expires |-> -1]

\* A response the proxy invents, and the one no field of which was ever set; what
\* a server answered to a request.
Error(code) == [code |-> code, bars |-> {}, age |-> 0, of |-> NoRequest]
Empty == Error(0)
Response(a, text) == [code |-> a.code, bars |-> a.bars, age |-> a.age, of |-> text]

Init ==
    /\ mode = "starting" /\ maxAge = -1 /\ forwardToProxy = FALSE
    /\ now = 0 /\ kills = 0
    /\ queue = <<>> /\ busy = {} /\ done = {}
    /\ pc = [c \in Connections |-> "none"] /\ req = [c \in Connections |-> NoRequest]
    /\ child = [c \in Connections |-> None]
    /\ owner = << >>
    /\ cache = << >>
    /\ name = [c \in Connections |-> NoName] /\ todo = [c \in Connections |-> {}]
    /\ resp = [c \in Connections |-> Empty]
    /\ sides = [c \in Connections |-> {"client", "server"}]
    /\ replies = [c \in Connections |-> <<>>] /\ hit = [c \in Connections |-> <<>>]
    /\ opened = 0
    /\ answered = {} /\ contested = {} /\ cut = {} /\ misread = {}

\* The thunk's own steps.  from is where it stands, to where it goes on.
At(c, step) == mode = "running" /\ pc[c] = step
Goto(c, from, to) == At(c, from) /\ pc' = [pc EXCEPT ![c] = to]
Open(c) == pc[c] \notin {"none", "closed", "dropped", "unread", "cut"}
Holds(c) == Open(c) /\ pc[c] \notin {"queued", "ingest"}

-----------------------------------------------------------------------------
(* Requests and responses.                                                 *)

\* addHeaders(): the request as it is sent on, and as it is cached.
AddHeaders(r, ip) == [r EXCEPT !.proto = TRUE, !.via = Append(@, ip)]
Forwarded(c) == AddHeaders(req[c], req[c].ip)

\* The text of a request, without the address it came from.
Text(r) == [method |-> r.method, server |-> r.server, proto |-> r.proto, via |-> r.via]

\* Mutation: the headers do not count.
Key_NoHeaders(r) == [Text(r) EXCEPT !.proto = FALSE, !.via = <<>>]
\* hashRequest(), hashRequestAsString(), serializeRequest().
Key(r) == Text(r)

\* Mutation: only the first address is compared.
ContainsProxyLoop_First(r) == Len(r.via) > 1 /\ r.via[1] = r.ip
\* The last address is followed by no delimiter and never compared.
ContainsProxyLoop(r) == \E k \in 1..Len(r.via)-1 : r.via[k] = r.ip

\* HTTPStrikeSet::serverIsAllowed(): no line of the file matches.
ServerIsAllowed(server) == \A k \in DOMAIN BlockedFile : server \notin BlockedFile[k]

\* The error that serviceRequest() answers with before it handles a request.
Verdict(r) ==
    IF ~ServerIsAllowed(r.server) THEN 403
    ELSE IF ContainsProxyLoop(r) THEN 504
    ELSE IF r.method \notin Handlers THEN 405
    ELSE 0

PermitsCaching(answer) == answer.bars = {} /\ answer.age > 0

ShouldCache(r, answer) ==
    /\ maxAge # 0 /\ r.method = "GET" /\ answer.code = 200
    /\ PermitsCaching(answer)

\* The name of a file: when it was created and when it expires.
EntryName(answer) ==
    [created |-> now,
     expires |-> now + IF maxAge >= 0 THEN Least(maxAge, answer.age) ELSE answer.age]

\* Mutation: only the server's limit counts.
CachedEntryIsValid_Server(n) == now <= n.expires
CachedEntryIsValid(n) ==
    now <= IF maxAge > 0 THEN Least(n.created + maxAge, n.expires) ELSE n.expires

Files(k) == IF k \in DOMAIN cache THEN DOMAIN cache[k] ELSE {}
WithFile(k, n, body) == [cache EXCEPT ![k] = Set(cache[k], n, body)]
WithoutFile(k, n) == [cache EXCEPT ![k] = Restrict(cache[k], DOMAIN cache[k] \ {n})]
WithDirectory(k) == Set(cache, k, << >>)
WithoutDirectory(k) == Restrict(cache, DOMAIN cache \ {k})

-----------------------------------------------------------------------------
(* The process: its options, its connections, its end.                     *)

\* configureFromArgumentList(): each flag takes effect when it is read, up to the
\* first that is refused.  The name and the port of another proxy are stored and
\* used by nobody; that a port was given is what makes forwardToProxy true.
Read(args) == {k \in DOMAIN args : \A h \in 1..k : args[h].value # Bad}
Given(args, flag) == {k \in Read(args) : args[k].flag = flag}

Refused(args) ==
    \/ Read(args) # DOMAIN args
    \/ Given(args, "proxy-port") # {} /\ Given(args, "proxy-server") = {}

\* The last --max-age, or -1.
MaxAges(args) ==
    LET ages == Given(args, "max-age") IN
    IF ages = {} THEN {-1} ELSE {args[k].value : k \in {h \in ages : \A g \in ages : g <= h}}

\* createServerSocket(), configureServerSocket(): the port may be in use.
ServerSocket == {"running", "exited"}

\* HTTPCache::clear(), which empties the directory it has made sure of.
Cleared == << >>

\* The constructors of HTTPProxy and its members.  The list of blocked
\* domains may be missing.
Configure ==
    /\ mode = "starting"
    /\ \/ mode' = "exited" /\ UNCHANGED <<maxAge, forwardToProxy, cache>>
       \/ \E args \in Arguments :
            /\ mode' \in IF Refused(args) THEN {"exited"} ELSE ServerSocket
            /\ maxAge' \in MaxAges(args)
            /\ forwardToProxy' = (Given(args, "proxy-port") # {})
            /\ cache' = IF Given(args, "clear-cache") # {} THEN Cleared ELSE cache
    /\ UNCHANGED <<now, kills, thunks, handler, owner, locals, client, history>>

Received(text, from) ==
    [method |-> text.method, server |-> text.server, proto |-> text.proto, via |-> text.via,
     ip |-> from]

\* acceptAndProxyRequest() and scheduleRequest(), for the next connection.
Accept(request, from) ==
    /\ opened < MaxConnections
    /\ opened' = opened + 1
    /\ req' = [req EXCEPT ![opened'] = Received(request, from)]
    /\ Pool!Schedule(opened')

ClientConnects ==
    /\ mode = "running" /\ opened - Cardinality({c \in Connections : child[c] # None}) < MaxClients
    /\ \E s \in Sends : Accept(s.request, s.from)
    /\ pc' = [pc EXCEPT ![opened'] = "queued"]
    /\ UNCHANGED <<process, child, owner, cache, locals, replies, hit, history>>

Tick == mode = "running" /\ now < MaxTime /\ now' = now + 1
        /\ UNCHANGED <<mode, maxAge, forwardToProxy, kills, thunks, handler, owner, cache,
                      locals, client, history>>

\* SIGINT or SIGTSTP: exit(0), whatever the threads are doing.  The next
\* process finds the cache as it is.
StoreSteps == {"list", "clear", "create", "write"}
Kill ==
    /\ mode = "running" /\ kills < MaxKills /\ kills' = kills + 1
    /\ mode' = "starting"
    /\ pc' = [c \in Connections |-> IF Open(c) THEN "cut" ELSE pc[c]]
    /\ queue' = <<>> /\ busy' = {} /\ done' = 1..opened
    /\ owner' = << >>
    /\ cut' = cut \union {Key(Forwarded(c)) : c \in {d \in Connections : pc[d] \in StoreSteps}}
    /\ UNCHANGED <<maxAge, forwardToProxy, now, req, child, cache, locals, client, answered, misread>>

-----------------------------------------------------------------------------
(* serviceRequest(), from the pool to the handlers.                        *)

Class(c) == MutexOf(Key(req[c]))

\* Mutation: the mutex is unlocked by hand, and not on this path.
End_Locked(c, last) == pc' = [pc EXCEPT ![c] = last] /\ Pool!Finish(c) /\ UNCHANGED owner
\* The end of a thunk: its socket is closed, its mutex released.
End(c, last) ==
    /\ pc' = [pc EXCEPT ![c] = last]
    /\ owner' = Restrict(owner, {m \in DOMAIN owner : owner[m] # c})
    /\ Pool!Finish(c)
\* An exception of the file system, which serviceRequest() swallows.
Drop(c) == End(c, "dropped") /\ UNCHANGED replies
Respond(c, responses) ==
    /\ replies' = [replies EXCEPT ![c] = @ \o responses]
    /\ End(c, "closed")

\* The thunk starts, copies the address and reads the request.  The string
\* it refers to is a temporary of acceptAndProxyRequest().
Ingest(c) ==
    /\ mode = "running" /\ queue # <<>> /\ Head(queue) = c
    /\ pc' = [pc EXCEPT ![c] = "ingest"]
    /\ Pool!Take
    /\ \/ UNCHANGED <<req, misread>>
       \/ /\ Cardinality(misread) < MaxMisreads
          /\ req' = [req EXCEPT ![c].ip = Garbage]
          /\ misread' = misread \union {c}
    /\ UNCHANGED <<process, child, owner, cache, locals, client, answered, cut>>

\* The exception of a payload, which serviceRequest() swallows too: no buffer can be
\* made for the length of a POST, or of a server's answer (no payload follows the
\* answer to a HEAD, and what the proxy answers itself has a length that fits).
PayloadThrows(c) ==
    /\ \/ At(c, "ingest") /\ req[c].method = "POST"
       \/ At(c, "await") /\ req[c].method # "HEAD" /\ child[c] = None
    /\ End(c, "unread")
    /\ UNCHANGED <<process, req, child, cache, locals, client, history>>

\* A first line that cannot be read; otherwise the request waits for its
\* mutex, and is refused or handed to a handler.
BadRequest(c) ==
    /\ At(c, "ingest") /\ req[c].method = "unreadable"
    /\ Respond(c, <<Error(400)>>)
    /\ UNCHANGED <<process, req, child, cache, locals, hit, opened, history>>

Enter(c) ==
    /\ At(c, "ingest") /\ req[c].method # "unreadable"
    /\ Class(c) \notin DOMAIN owner
    /\ IF Verdict(req[c]) # 0
       THEN Respond(c, <<Error(Verdict(req[c]))>>)
       ELSE /\ owner' = Set(owner, Class(c), c)
            /\ pc' = [pc EXCEPT ![c] = IF maxAge # 0 /\ req[c].method = "GET" THEN "lookup" ELSE "connect"]
            /\ UNCHANGED <<thunks, replies>>
    /\ UNCHANGED <<process, req, child, cache, locals, hit, opened, history>>

-----------------------------------------------------------------------------
(* containsCacheEntry(): each step is one system call on the directory of  *)
(* the request as it came.                                                 *)

Lookup(c) ==
    /\ Goto(c, "lookup", IF Key(req[c]) \in DOMAIN cache THEN "scan" ELSE "connect")
    /\ UNCHANGED <<process, thunks, req, child, owner, cache, locals, client, history>>

ScanEntry(c) ==
    /\ At(c, "scan")
    /\ IF Key(req[c]) \in DOMAIN cache
       THEN /\ Goto(c, "scan", IF Files(Key(req[c])) = {} THEN "connect" ELSE "name")
            /\ UNCHANGED <<thunks, owner, replies>>
       ELSE Drop(c)
    /\ UNCHANGED <<process, req, child, cache, locals, hit, opened, history>>

\* getRequestHashCacheEntryName() and cachedEntryIsValid(): the first file.
FindName(c) ==
    /\ At(c, "name")
    /\ \/ Files(Key(req[c])) = {} /\ Goto(c, "name", "connect") /\ UNCHANGED name
       \/ \E n \in Files(Key(req[c])) :
            /\ Goto(c, "name", IF CachedEntryIsValid(n) THEN "open" ELSE "expire")
            /\ name' = [name EXCEPT ![c] = n]
    /\ UNCHANGED <<process, thunks, req, child, owner, cache, todo, resp, sides, client, history>>

RemoveExpired(c) ==
    /\ At(c, "expire")
    /\ IF name[c] \in Files(Key(req[c]))
       THEN /\ Goto(c, "expire", "rmdir")
            /\ cache' = WithoutFile(Key(req[c]), name[c])
            /\ UNCHANGED <<thunks, owner, replies>>
       ELSE Drop(c) /\ UNCHANGED cache
    /\ UNCHANGED <<process, req, child, locals, hit, opened, history>>

RemoveDirectory(c) ==
    /\ At(c, "rmdir")
    /\ IF Key(req[c]) \in DOMAIN cache /\ Files(Key(req[c])) = {}
       THEN /\ Goto(c, "rmdir", "connect")
            /\ cache' = WithoutDirectory(Key(req[c]))
            /\ UNCHANGED <<thunks, owner, replies>>
       ELSE Drop(c) /\ UNCHANGED cache
    /\ UNCHANGED <<process, req, child, locals, hit, opened, history>>

\* Mutation: the request is forwarded although it was answered.
OpenEntry_NoReturn(c) ==
    LET k == Key(req[c]) IN
    /\ Goto(c, "open", "connect")
    /\ name[c] \in Files(k) /\ replies' = [replies EXCEPT ![c] = <<cache[k][name[c]]>>]
    /\ UNCHANGED <<process, thunks, req, child, owner, cache, locals, hit, opened, history>>

\* The file may have gone since it was named, or be empty still.
OpenEntry(c) ==
    LET k == Key(req[c]) IN
    /\ At(c, "open")
    /\ IF name[c] \in Files(k)
       THEN /\ Respond(c, <<cache[k][name[c]]>>)
            /\ hit' = [hit EXCEPT ![c] = <<[name |-> name[c], body |-> cache[k][name[c]]]>>]
       ELSE Drop(c) /\ UNCHANGED hit
    /\ UNCHANGED <<process, req, child, cache, locals, opened, history>>

-----------------------------------------------------------------------------
(* Forwarding, tunnels.                                                    *)

\* The server is out of reach: the exception of setupClientSocket() is
\* caught by handleRequest(), which goes on to send the response it never
\* got, and not by handleCONNECTRequest().
CannotConnect(c) ==
    /\ At(c, "connect")
    /\ Respond(c, IF req[c].method = "CONNECT" THEN <<>> ELSE <<Error(504), Empty>>)
    /\ UNCHANGED <<process, req, child, cache, locals, hit, opened, history>>

OpenTunnel(c) ==
    /\ req[c].method = "CONNECT" /\ req[c].server \notin Own \union {NoServer}
    /\ Goto(c, "connect", "tunnel")
    /\ replies' = [replies EXCEPT ![c] = Append(@, Error(200))]
    /\ UNCHANGED <<process, thunks, req, child, owner, cache, locals, hit, opened, history>>

ConnectToServer(c) ==
    /\ req[c].method # "CONNECT" /\ req[c].server \notin Own \union {NoServer}
    /\ Goto(c, "connect", "await")
    /\ UNCHANGED <<process, thunks, req, child, owner, cache, locals, client, history>>

\* HTTPRequest::forward(): with forwardToProxy the request line has only the
\* path, and whoever reads it finds no server.
OnWire(c) ==
    IF forwardToProxy THEN [Text(Forwarded(c)) EXCEPT !.server = NoServer] ELSE Text(Forwarded(c))

\* The server is this proxy: it serves the forwarded request as any other.
\* The bound on connections plays the part of the backlog of listen().
ConnectToSelf(c) ==
    /\ At(c, "connect") /\ req[c].server \in Own /\ req[c].method # "CONNECT"
    /\ Accept(OnWire(c), ProxyAddress)
    /\ pc' = [pc EXCEPT ![c] = "await", ![opened'] = "queued"]
    /\ child' = [child EXCEPT ![c] = opened']
    /\ UNCHANGED <<process, owner, cache, locals, replies, hit, history>>

\* A server may close the connection without an answer, this proxy too.
AnswersTo(c) ==
    IF child[c] = None THEN {Response(a, OnWire(c)) : a \in Answers} \union {Empty}
    ELSE IF replies[child[c]] = <<>> THEN {Empty} ELSE {Head(replies[child[c]])}

GetResponse(c) ==
    /\ At(c, "await")
    /\ child[c] # None => ~Open(child[c])
    /\ \E answer \in AnswersTo(c) :
        /\ answered' = answered \union {<<Text(Forwarded(c)), answer>>}
        /\ IF ShouldCache(req[c], answer)
           THEN /\ Goto(c, "await", "stat")
                /\ resp' = [resp EXCEPT ![c] = answer]
                /\ UNCHANGED <<thunks, owner, replies>>
           ELSE Respond(c, <<answer>>) /\ UNCHANGED resp
    /\ UNCHANGED <<process, req, child, cache, name, todo, sides, hit, opened, cut, misread>>

\* manageClientServerBridge(): bytes pass without a trace here.  A silence
\* of five seconds ends the tunnel (ProxyWatchset::wait), and so does a side
\* that ends at the first byte of a turn; one that ends later in it leaves
\* the other side open.
Timeout(c) ==
    /\ At(c, "tunnel") /\ Respond(c, <<>>)
    /\ UNCHANGED <<process, req, child, cache, locals, hit, opened, history>>

SideEnds(c) ==
    /\ At(c, "tunnel")
    /\ \E s \in sides[c] :
        /\ sides' = [sides EXCEPT ![c] = @ \ {s}]
        /\ \/ Respond(c, <<>>)
           \/ sides[c] # {s} /\ UNCHANGED <<pc, owner, thunks, replies>>
    /\ UNCHANGED <<process, req, child, cache, name, todo, resp, hit, opened, history>>

-----------------------------------------------------------------------------
(* cacheEntry(): each step is one system call on the directory of the      *)
(* request as it was sent on.                                              *)

StoreKey(c) == Key(Forwarded(c))

Stat(c) ==
    /\ Goto(c, "stat", IF StoreKey(c) \in DOMAIN cache THEN "list" ELSE "mkdir")
    /\ UNCHANGED <<process, thunks, req, child, owner, cache, locals, client, history>>

MakeDirectory(c) ==
    /\ At(c, "mkdir")
    /\ IF StoreKey(c) \in DOMAIN cache
       THEN Drop(c) /\ UNCHANGED cache
       ELSE /\ Goto(c, "mkdir", "list")
            /\ cache' = WithDirectory(StoreKey(c))
            /\ UNCHANGED <<thunks, owner, replies>>
    /\ UNCHANGED <<process, req, child, locals, hit, opened, history>>

\* Mutation: the directory is not emptied.
ListEntries_Keep(c) ==
    /\ At(c, "list")
    /\ IF StoreKey(c) \in DOMAIN cache
       THEN Goto(c, "list", "create") /\ UNCHANGED <<thunks, owner, replies>>
       ELSE Drop(c)
    /\ UNCHANGED <<process, req, child, cache, locals, hit, opened, history>>
ListEntries(c) ==
    /\ At(c, "list")
    /\ IF StoreKey(c) \in DOMAIN cache
       THEN /\ Goto(c, "list", IF Files(StoreKey(c)) = {} THEN "create" ELSE "clear")
            /\ todo' = [todo EXCEPT ![c] = Files(StoreKey(c))]
            /\ UNCHANGED <<thunks, owner, replies>>
       ELSE Drop(c) /\ UNCHANGED todo
    /\ UNCHANGED <<process, req, child, cache, name, resp, sides, hit, opened, history>>

ClearEntry(c) ==
    /\ At(c, "clear")
    /\ \E n \in todo[c] :
        IF n \in Files(StoreKey(c))
        THEN /\ Goto(c, "clear", IF todo[c] = {n} THEN "create" ELSE "clear")
             /\ todo' = [todo EXCEPT ![c] = @ \ {n}]
             /\ cache' = WithoutFile(StoreKey(c), n)
             /\ UNCHANGED <<thunks, owner, replies>>
        ELSE Drop(c) /\ UNCHANGED <<todo, cache>>
    /\ UNCHANGED <<process, req, child, name, resp, sides, hit, opened, history>>

\* The file is opened, and thereby emptied; its text follows.
CreateEntry(c) ==
    /\ At(c, "create")
    /\ IF StoreKey(c) \in DOMAIN cache
       THEN /\ Goto(c, "create", "write")
            /\ name' = [name EXCEPT ![c] = EntryName(resp[c])]
            /\ cache' = WithFile(StoreKey(c), EntryName(resp[c]), Empty)
            /\ UNCHANGED <<thunks, owner, replies>>
       ELSE Drop(c) /\ UNCHANGED <<name, cache>>
    /\ UNCHANGED <<process, req, child, todo, resp, sides, hit, opened, history>>

WriteEntry(c) ==
    /\ At(c, "write")
    /\ cache' = IF name[c] \in Files(StoreKey(c))
                THEN WithFile(StoreKey(c), name[c], resp[c]) ELSE cache
    /\ Respond(c, <<resp[c]>>)
    /\ UNCHANGED <<process, req, child, locals, hit, opened, history>>

-----------------------------------------------------------------------------
Thunk(c) ==
    \/ Ingest(c) \/ PayloadThrows(c) \/ BadRequest(c) \/ Enter(c)
    \/ Lookup(c) \/ ScanEntry(c) \/ FindName(c) \/ RemoveExpired(c) \/ RemoveDirectory(c) \/ OpenEntry(c)
    \/ CannotConnect(c) \/ OpenTunnel(c) \/ ConnectToServer(c) \/ ConnectToSelf(c)
    \/ GetResponse(c) \/ Timeout(c) \/ SideEnds(c)
    \/ Stat(c) \/ MakeDirectory(c) \/ ListEntries(c) \/ ClearEntry(c) \/ CreateEntry(c)
    \/ WriteEntry(c)

Step == Configure \/ ClientConnects \/ Tick \/ Kill \/ \E c \in Connections : Thunk(c)

\* Keys on whose directory two handlers are at work.
Uses(c) ==
    IF pc[c] \in {"scan", "name", "expire", "rmdir", "open"} THEN {Key(req[c])}
    ELSE IF pc[c] \in {"stat", "mkdir"} \union StoreSteps THEN {StoreKey(c)} ELSE {}
Overlap == UNION {Uses(c) \intersect UNION {Uses(d) : d \in Connections \ {c}} : c \in Connections}

Next == Step /\ contested' = contested \union Overlap'

Spec == Init /\ [][Next]_vars

-----------------------------------------------------------------------------
(* Properties.                                                             *)

Steps == {"none", "queued", "ingest", "lookup", "scan", "name", "expire", "rmdir", "open",
          "connect", "await", "tunnel", "stat", "mkdir", "closed", "dropped", "unread",
          "cut"}
         \union StoreSteps

\* The variables have their types; a class of requests has one owner, which
\* holds it as long as its handler runs (requestMutexes, the lock_guard).
TypeOK ==
    /\ mode \in {"starting", "running", "exited"} /\ now \in 0..MaxTime
    /\ maxAge \in Nat \union {-1} /\ forwardToProxy \in BOOLEAN
    /\ pc \in [Connections -> Steps] /\ req \in [Connections -> Requests]
    /\ child \in [Connections -> Connections \union {None}]
    /\ Pool!Scheduled = 1..opened
    /\ \A c \in Connections :
         \A m \in DOMAIN owner \union {Class(c)} :
            m \in DOMAIN owner /\ owner[m] = c <=> Holds(c) /\ m = Class(c)
    /\ \A c \in Connections : sides[c] # {} \/ ~Open(c)

\* What a client gets out of the cache is what some server once answered to
\* the very request the client sent, header by header; the text is missing
\* only where two handlers met on the entry or the process was killed while
\* it stored it.  No request hits that does not carry the proxy's headers
\* already (containsCacheEntry, cacheEntry, hashRequest).
HitsAreOwn ==
    \A c \in Connections : hit[c] # <<>> =>
        LET body == hit[c][1].body IN
        /\ req[c].proto /\ req[c].via # <<>>
        /\ IF body = Empty THEN Key(req[c]) \in contested \union cut
           ELSE <<Text(req[c]), body>> \in answered

\* An entry found valid is not older than the server allowed, nor than the
\* --max-age of this process, even if another process stored it under
\* another limit (getExpirationTime, cachedEntryIsValid).
HitsAreFresh ==
    [][\A c \in Connections : pc[c] = "name" /\ pc'[c] = "open" =>
        LET n == name'[c]
            body == cache[Key(req[c])][n]
        IN  /\ maxAge > 0 => now - n.created <= maxAge
            /\ body # Empty => now - n.created <= body.age]_vars

\* A handler that is alone on a directory never finds it in a state that
\* makes it throw, and leaves one file in it: those exceptions, which leave a
\* client without any answer, come from handlers that hold different
\* mutexes and work on one directory (cache.h:26, "you should acquire the
\* lock on the relevant request").  Left out are the clients who get no answer
\* because no buffer fits the length of a payload: no directory is involved, and
\* their thunks end as "unread" (HTTPPayload::ingestCompletePayload).
AloneMeansSafe ==
    /\ \A k \in DOMAIN cache \ contested : Cardinality(Files(k)) <= 1
    /\ \A c \in Connections : pc[c] = "dropped" => {Key(req[c]), StoreKey(c)} \intersect contested # {}

\* A thunk that ends without an exception has sent one response; if the
\* server is out of reach it has sent an error and an empty response after
\* it, or nothing at all to a CONNECT (handleRequest, handleCONNECTRequest).
AnswersOnce ==
    \A c \in Connections : pc[c] = "closed" =>
        \/ Len(replies[c]) = 1
        \/ req[c].method # "CONNECT" /\ replies[c] = <<Error(504), Empty>>
        \/ req[c].method = "CONNECT" /\ replies[c] = <<>>

\* A request and what it was sent on as, again and again: of these connections
\* one, the last, was not sent on as another of them.
IsChain(S) == \A c, d \in S : child[c] \notin S /\ child[d] \notin S => c = d

\* A request that the proxy sends to itself is refused when it comes in for
\* the fourth time: once because the first address is the client's, twice
\* because the last address is not compared.  Each address read through a
\* dangling reference may add one pass (containsProxyLoop, addHeaders).
LoopsAreCut ==
    \A S \in SUBSET Connections : IsChain(S) => Cardinality(S) <= 4 + Cardinality(misread)

\* Where a thunk waits for another: in line for a thread of the pool, for the mutex
\* of its class, and for this proxy to answer a request that it sent to itself.
Waits(c) ==
    \/ pc[c] = "queued" /\ (Head(queue) # c \/ Cardinality(busy) >= NumThreads)
    \/ pc[c] = "ingest" /\ req[c].method # "unreadable" /\ Class(c) \in DOMAIN owner
    \/ pc[c] = "await" /\ child[c] # None /\ Open(child[c])

\* If all the open connections wait for each other, there is a handler that keeps
\* its mutex and its thread while the request that it sent to the proxy itself waits
\* for a mutex or for a thread: but for loops, a mutex held during forwarding blocks
\* nobody for ever (lock_guard in serviceRequest, the threads of the scheduler).
StuckOnlyInLoop ==
    LET open == {c \in Connections : Open(c)} IN
    mode = "running" /\ open # {} /\ (\A c \in open : Waits(c)) =>
        \E c \in open : pc[c] = "await" /\ child[c] # None /\ pc[child[c]] \in {"queued", "ingest"}
=============================================================================
