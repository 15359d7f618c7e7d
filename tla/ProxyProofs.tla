---------------------------- MODULE ProxyProofs ----------------------------
(***************************************************************************)
(* What the proxy of Proxy keeps true, for any requests, answers, mutexes, *)
(* threads, options and bounds.  ControlInv is about the thunks: where they*)
(* are, who holds which mutex, what is in the pool.  ReplyInv is about what*)
(* a client has got.  EntryInv is about the directories of the cache and   *)
(* the handlers that are at work on them: a handler that is alone on a     *)
(* directory finds it as it left it.  ChainInv is about the requests that  *)
(* the proxy sends to itself, and what their lists of addresses say.       *)
(***************************************************************************)
EXTENDS Proxy, FiniteSetTheorems, TLAPS

\* Where a thunk is a handler, under a mutex.
HoldSteps == Steps \ {"none", "queued", "ingest", "closed", "dropped", "unread", "cut"}

\* The thunks that no worker has taken yet.
Queued == {queue[x] : x \in DOMAIN queue}

-----------------------------------------------------------------------------
(* The thunks, the mutexes and the pool                                    *)

\* The types of the control variables.
ControlType ==
    /\ mode \in {"starting", "running", "exited"} /\ now \in 0..MaxTime
    /\ maxAge \in Nat \union {-1} /\ forwardToProxy \in BOOLEAN
    /\ opened \in 0..MaxConnections
    /\ queue \in Seq(Connections)
    /\ pc \in [Connections -> Steps] /\ req \in [Connections -> Requests]
    /\ child \in [Connections -> Connections \union {None}]
    /\ DOMAIN sides = Connections

\* Nobody runs before the process does, or after it.
ModeInv == mode # "running" => \A c \in Connections : ~Open(c)

\* A connection is in the pool, once, from its thunk's scheduling on.
PoolInv ==
    /\ Queued \union busy \union done = 1..opened
    /\ \A c \in Connections : c > opened => pc[c] = "none"
    /\ \A x \in DOMAIN queue : pc[queue[x]] = "queued"
    /\ \A x, y \in DOMAIN queue : queue[x] = queue[y] => x = y

\* A handler holds the mutex of its class, and no other.
OwnerInv ==
    \A c \in Connections :
        /\ Holds(c) => Class(c) \in DOMAIN owner /\ owner[Class(c)] = c
        /\ \A m \in DOMAIN owner : owner[m] = c => Holds(c) /\ m = Class(c)

\* A tunnel has a side that is open, until it ends.
SidesInv == \A c \in Connections : pc[c] = "none" \/ Open(c) => sides[c] # {}

ControlInv == ControlType /\ ModeInv /\ PoolInv /\ OwnerInv /\ SidesInv

-----------------------------------------------------------------------------
(* What the steps of a thunk do to its control                             *)

Control == <<mode, now, maxAge, forwardToProxy, opened, child>>

\* The handler goes on, under its mutex.
Moves(c) ==
    /\ mode = "running" /\ pc[c] \in HoldSteps
    /\ \E to \in HoldSteps : pc' = [pc EXCEPT ![c] = to]
    /\ UNCHANGED <<Control, queue, busy, done, req, owner, sides>>

\* One side of a tunnel ends, the other goes on.
Narrows(c) ==
    /\ mode = "running" /\ pc[c] \in HoldSteps
    /\ \E s \in sides[c] : sides[c] # {s} /\ sides' = [sides EXCEPT ![c] = sides[c] \ {s}]
    /\ UNCHANGED <<Control, queue, busy, done, req, owner, pc>>

\* The thunk ends.
Ends(c) ==
    /\ mode = "running" /\ pc[c] \in HoldSteps \union {"ingest"}
    /\ \E last \in {"closed", "dropped", "unread"} : End(c, last)
    /\ \A d \in Connections : d # c => sides'[d] = sides[d]
    /\ DOMAIN sides' = DOMAIN sides
    /\ UNCHANGED <<Control, req>>

\* The thunk takes its mutex and hands the request to a handler.
Enters(c) ==
    /\ mode = "running" /\ pc[c] = "ingest" /\ Class(c) \notin DOMAIN owner
    /\ owner' = Set(owner, Class(c), c)
    /\ \E to \in HoldSteps : pc' = [pc EXCEPT ![c] = to]
    /\ UNCHANGED <<Control, queue, busy, done, req, sides>>

-----------------------------------------------------------------------------
(* The operators                                                           *)

\* A key does not depend on the address a request came from.
LEMMA RequestFacts ==
  /\ \A r \in Requests : Text(r) \in Texts
  /\ \A r \in Requests, ip \in Addresses :
        /\ AddHeaders(r, ip) \in Requests /\ AddHeaders(r, ip).via # <<>>
        /\ AddHeaders(r, ip).proto
        /\ [r EXCEPT !.ip = ip] \in Requests /\ Text([r EXCEPT !.ip = ip]) = Text(r)
  /\ \A t \in Texts, ip \in Addresses : Received(t, ip) \in Requests
  /\ NoRequest \in Requests /\ ProxyAddress \in Addresses /\ Garbage \in Addresses
  /\ \A s \in Sends : s.request \in Texts /\ s.from \in Addresses
<1>1. \A r \in Requests : Text(r) \in Texts
  BY DEF Requests, Texts, Text
<1>2. ASSUME NEW r \in Requests, NEW ip \in Addresses
      PROVE  /\ AddHeaders(r, ip) \in Requests /\ AddHeaders(r, ip).via # <<>>
             /\ AddHeaders(r, ip).proto
  <2>1. Append(r.via, ip) \in Seq(Addresses) /\ Append(r.via, ip) # <<>>
    BY DEF Requests
  <2> QED
    BY <2>1 DEF Requests, AddHeaders
<1>3. ASSUME NEW r \in Requests, NEW ip \in Addresses
      PROVE  [r EXCEPT !.ip = ip] \in Requests /\ Text([r EXCEPT !.ip = ip]) = Text(r)
  BY DEF Requests, Text
<1>4. \A t \in Texts, ip \in Addresses : Received(t, ip) \in Requests
  BY DEF Texts, Requests, Received
<1>5. NoRequest \in Requests /\ ProxyAddress \in Addresses /\ Garbage \in Addresses
  BY DEF NoRequest, Requests, Addresses, Methods, Servers
<1>6. \A s \in Sends : s.request \in Texts /\ s.from \in Addresses
  BY ProxyAssumption
<1> QED
  BY <1>1, <1>2, <1>3, <1>4, <1>5, <1>6

\* What is sent on is a request, too.
LEMMA WireFacts ==
  ASSUME ControlType, NEW c \in Connections
  PROVE  /\ req[c] \in Requests /\ Forwarded(c) \in Requests
         /\ OnWire(c) \in Texts /\ StoreKey(c) \in Texts /\ Key(req[c]) \in Texts
         /\ StoreKey(c).proto /\ StoreKey(c).via # <<>>
<1>1. req[c] \in Requests /\ req[c].ip \in Addresses
  BY DEF ControlType, Requests
<1>2. Forwarded(c) \in Requests /\ Forwarded(c).proto /\ Forwarded(c).via # <<>>
  BY <1>1, RequestFacts DEF Forwarded
<1>3. Text(Forwarded(c)) \in Texts /\ Text(req[c]) \in Texts
  BY <1>1, <1>2, RequestFacts
<1>4. [Text(Forwarded(c)) EXCEPT !.server = NoServer] \in Texts
  BY <1>3 DEF Texts, Servers
<1>5. OnWire(c) \in Texts
  BY <1>3, <1>4 DEF OnWire
<1> QED
  BY <1>1, <1>2, <1>3, <1>5 DEF StoreKey, Key, Text

\* Every step of a thunk is of one of these kinds.
LEMMA ThunkKinds ==
  ASSUME ControlType, NEW c \in Connections, Thunk(c)
  PROVE  Ingest(c) \/ ConnectToSelf(c) \/ Enters(c) \/ Moves(c) \/ Narrows(c) \/ Ends(c)
<1> USE DEF Control, process, thunks, handler, locals, client, At, Goto, HoldSteps, Steps,
            StoreSteps
<1>1. CASE BadRequest(c)
  BY <1>1 DEF BadRequest, Respond, End, Ends
<1>2. CASE Enter(c)
  <2>1. CASE Verdict(req[c]) # 0
    BY <1>2, <2>1 DEF Enter, Respond, End, Ends
  <2>2. CASE Verdict(req[c]) = 0
    BY <1>2, <2>2 DEF Enter, Enters
  <2> QED
    BY <2>1, <2>2
<1>3. CASE Lookup(c) \/ FindName(c) \/ OpenTunnel(c) \/ ConnectToServer(c) \/ Stat(c)
  BY <1>3 DEF Lookup, FindName, OpenTunnel, ConnectToServer, Stat, Moves
<1>4. CASE ScanEntry(c)
  BY <1>4 DEF ScanEntry, Drop, End, Moves, Ends
<1>5. CASE RemoveExpired(c)
  BY <1>5 DEF RemoveExpired, Drop, End, Moves, Ends
<1>6. CASE RemoveDirectory(c)
  BY <1>6 DEF RemoveDirectory, Drop, End, Moves, Ends
<1>7. CASE OpenEntry(c)
  BY <1>7 DEF OpenEntry, Respond, Drop, End, Ends
<1>8. CASE CannotConnect(c) \/ Timeout(c) \/ WriteEntry(c)
  BY <1>8 DEF CannotConnect, Timeout, WriteEntry, Respond, End, Ends
<1>9. CASE GetResponse(c)
  BY <1>9 DEF GetResponse, Respond, End, Moves, Ends
<1>10. CASE SideEnds(c)
  <2>1. PICK s \in sides[c] :
          /\ sides' = [sides EXCEPT ![c] = sides[c] \ {s}]
          /\ \/ Respond(c, <<>>)
             \/ sides[c] # {s} /\ UNCHANGED <<pc, owner, thunks, replies>>
    BY <1>10 DEF SideEnds
  <2>2. At(c, "tunnel") /\ UNCHANGED <<Control, req>>
    BY <1>10 DEF SideEnds
  <2>3. CASE Respond(c, <<>>)
    BY <2>1, <2>2, <2>3 DEF Respond, Ends, ControlType
  <2>4. CASE sides[c] # {s} /\ UNCHANGED <<pc, owner, thunks, replies>>
    BY <2>1, <2>2, <2>4 DEF Narrows
  <2> QED
    BY <2>1, <2>3, <2>4
<1>11. CASE MakeDirectory(c)
  BY <1>11 DEF MakeDirectory, Drop, End, Moves, Ends
<1>12. CASE ListEntries(c)
  BY <1>12 DEF ListEntries, Drop, End, Moves, Ends
<1>13. CASE ClearEntry(c)
  BY <1>13 DEF ClearEntry, Drop, End, Moves, Ends
<1>14. CASE CreateEntry(c)
  BY <1>14 DEF CreateEntry, Drop, End, Moves, Ends
<1>15. CASE PayloadThrows(c)
  BY <1>15 DEF PayloadThrows, End, Ends
<1> QED
  BY <1>1, <1>2, <1>3, <1>4, <1>5, <1>6, <1>7, <1>8, <1>9, <1>10, <1>11, <1>12, <1>13, <1>14,
     <1>15 DEF Thunk

-----------------------------------------------------------------------------
(* ControlInv, step by step                                                *)

\* A handler goes on, or one side of its tunnel ends: it holds what it held.
LEMMA MovesControl ==
  ASSUME ControlInv, NEW c \in Connections, Moves(c) \/ Narrows(c)
  PROVE  ControlInv'
<1>1. ControlType /\ ModeInv /\ PoolInv /\ OwnerInv /\ SidesInv
  BY DEF ControlInv
<1>2. UNCHANGED <<mode, now, maxAge, forwardToProxy, opened, child, queue, busy, done, req, owner>>
  BY DEF Moves, Narrows, Control
<1>3. /\ pc[c] \in HoldSteps /\ pc'[c] \in HoldSteps /\ mode = "running"
      /\ \A d \in Connections : d # c => pc'[d] = pc[d]
      /\ pc' \in [Connections -> Steps]
  BY <1>1 DEF Moves, Narrows, ControlType, HoldSteps
<1>4. \A d \in Connections : /\ Holds(d)' <=> Holds(d)
                             /\ Open(d)' <=> Open(d)
  BY <1>3 DEF Holds, Open, HoldSteps
<1>5. \A d \in Connections : sides[d] # {} => sides'[d] # {}
  BY <1>1 DEF Moves, Narrows, ControlType
<1>6. DOMAIN sides' = Connections
  BY <1>1 DEF Moves, Narrows, ControlType
<1>7. ControlType'
  BY <1>1, <1>2, <1>3, <1>6 DEF ControlType
<1>8. ModeInv'
  BY <1>2, <1>3 DEF ModeInv
<1>9. PoolInv'
  <2>1. Queued' = Queued
    BY <1>2 DEF Queued
  <2>2. c <= opened /\ \A x \in DOMAIN queue : queue[x] # c
    BY <1>1, <1>3 DEF PoolInv, HoldSteps, ControlType, Connections
  <2>3. \A x \in DOMAIN queue : queue[x] \in Connections
    BY <1>1 DEF ControlType
  <2>4. \A d \in Connections : d > opened => pc'[d] = "none"
    BY <1>1, <1>3, <2>2 DEF PoolInv, ControlType, Connections
  <2>5. \A x \in DOMAIN queue : pc'[queue[x]] = "queued"
    BY <1>1, <1>3, <2>2, <2>3 DEF PoolInv
  <2> QED
    BY <1>1, <1>2, <2>1, <2>4, <2>5 DEF PoolInv
<1>10. OwnerInv'
  <2>1. \A d \in Connections : Class(d)' = Class(d)
    BY <1>2 DEF Class
  <2> QED
    BY <1>1, <1>2, <1>4, <2>1 DEF OwnerInv
<1>11. SidesInv'
  BY <1>1, <1>3, <1>4, <1>5 DEF SidesInv, HoldSteps
<1> QED
  BY <1>7, <1>8, <1>9, <1>10, <1>11 DEF ControlInv

\* A thunk ends and releases its mutex, if it holds one.
LEMMA EndsControl ==
  ASSUME ControlInv, NEW c \in Connections, Ends(c)
  PROVE  ControlInv'
<1>1. ControlType /\ ModeInv /\ PoolInv /\ OwnerInv /\ SidesInv
  BY DEF ControlInv
<1>2. UNCHANGED <<mode, now, maxAge, forwardToProxy, opened, child, req, queue>>
  BY DEF Ends, Control, End, Pool!Finish
<1>3. /\ pc[c] \in HoldSteps \union {"ingest"} /\ pc'[c] \in {"closed", "dropped", "unread"}
      /\ mode = "running" /\ \A d \in Connections : d # c => pc'[d] = pc[d]
      /\ pc' \in [Connections -> Steps]
  BY <1>1 DEF Ends, End, ControlType, Steps
<1>4. /\ c \in busy /\ busy' = busy \ {c} /\ done' = done \union {c}
      /\ owner' = Restrict(owner, {m \in DOMAIN owner : owner[m] # c})
  BY DEF Ends, End, Pool!Finish
<1>5. /\ DOMAIN owner' = {m \in DOMAIN owner : owner[m] # c}
      /\ \A m \in DOMAIN owner' : owner'[m] = owner[m]
  BY <1>4 DEF Restrict
<1>6. /\ ~Holds(c)' /\ ~Open(c)'
      /\ \A d \in Connections : d # c => /\ Holds(d)' <=> Holds(d)
                                         /\ Open(d)' <=> Open(d)
                                         /\ sides'[d] = sides[d]
  BY <1>3 DEF Holds, Open, Ends
<1>7. ControlType'
  BY <1>1, <1>2, <1>3 DEF ControlType, Ends
<1>8. ModeInv'
  BY <1>2, <1>3 DEF ModeInv
<1>9. PoolInv'
  <2>1. Queued' \union busy' \union done' = 1..opened
    BY <1>1, <1>2, <1>4 DEF Queued, PoolInv
  <2>2. c <= opened /\ \A x \in DOMAIN queue : queue[x] # c
    BY <1>1, <1>3 DEF PoolInv, HoldSteps, ControlType, Connections
  <2>3. \A x \in DOMAIN queue : queue[x] \in Connections
    BY <1>1 DEF ControlType
  <2>4. \A d \in Connections : d > opened => pc'[d] = "none"
    BY <1>1, <1>3, <2>2 DEF PoolInv, ControlType, Connections
  <2>5. \A x \in DOMAIN queue : pc'[queue[x]] = "queued"
    BY <1>1, <1>3, <2>2, <2>3 DEF PoolInv
  <2> QED
    BY <1>1, <1>2, <2>1, <2>4, <2>5 DEF PoolInv
<1>10. ASSUME NEW d \in Connections
       PROVE  /\ Holds(d)' => Class(d)' \in DOMAIN owner' /\ owner'[Class(d)'] = d
              /\ \A m \in DOMAIN owner' : owner'[m] = d => Holds(d)' /\ m = Class(d)'
  <2>1. Class(d)' = Class(d)
    BY <1>2 DEF Class
  <2>2. CASE d = c
    BY <1>5, <1>6, <2>2
  <2>3. CASE d # c
    BY <1>1, <1>5, <1>6, <2>1, <2>3 DEF OwnerInv
  <2> QED
    BY <2>2, <2>3
<1>11. OwnerInv'
  BY <1>10 DEF OwnerInv
<1>12. SidesInv'
  BY <1>1, <1>3, <1>6 DEF SidesInv
<1> QED
  BY <1>7, <1>8, <1>9, <1>11, <1>12 DEF ControlInv

\* A thunk takes a mutex that nobody holds.
LEMMA EntersControl ==
  ASSUME ControlInv, NEW c \in Connections, Enters(c)
  PROVE  ControlInv'
<1>1. ControlType /\ ModeInv /\ PoolInv /\ OwnerInv /\ SidesInv
  BY DEF ControlInv
<1>2. UNCHANGED <<mode, now, maxAge, forwardToProxy, opened, child, req, queue, busy, done, sides>>
  BY DEF Enters, Control
<1>3. /\ pc[c] = "ingest" /\ pc'[c] \in HoldSteps
      /\ mode = "running" /\ \A d \in Connections : d # c => pc'[d] = pc[d]
      /\ pc' \in [Connections -> Steps]
  BY <1>1 DEF Enters, ControlType, HoldSteps
<1>4. /\ Class(c) \notin DOMAIN owner /\ DOMAIN owner' = DOMAIN owner \union {Class(c)}
      /\ owner'[Class(c)] = c /\ \A m \in DOMAIN owner : owner'[m] = owner[m]
  BY DEF Enters, Set
<1>5. /\ ~Holds(c) /\ Holds(c)' /\ Open(c) /\ Open(c)'
      /\ \A d \in Connections : d # c => /\ Holds(d)' <=> Holds(d)
                                         /\ Open(d)' <=> Open(d)
  BY <1>3 DEF Holds, Open, HoldSteps
<1>6. ControlType'
  BY <1>1, <1>2, <1>3 DEF ControlType
<1>7. ModeInv' /\ SidesInv'
  BY <1>1, <1>2, <1>3, <1>5 DEF ModeInv, SidesInv, HoldSteps
<1>8. PoolInv'
  <2>1. Queued' = Queued
    BY <1>2 DEF Queued
  <2>2. c <= opened /\ \A x \in DOMAIN queue : queue[x] # c
    BY <1>1, <1>3 DEF PoolInv, HoldSteps, ControlType, Connections
  <2>3. \A x \in DOMAIN queue : queue[x] \in Connections
    BY <1>1 DEF ControlType
  <2>4. \A d \in Connections : d > opened => pc'[d] = "none"
    BY <1>1, <1>3, <2>2 DEF PoolInv, ControlType, Connections
  <2>5. \A x \in DOMAIN queue : pc'[queue[x]] = "queued"
    BY <1>1, <1>3, <2>2, <2>3 DEF PoolInv
  <2> QED
    BY <1>1, <1>2, <2>1, <2>4, <2>5 DEF PoolInv
<1>9. ASSUME NEW d \in Connections
      PROVE  /\ Holds(d)' => Class(d)' \in DOMAIN owner' /\ owner'[Class(d)'] = d
             /\ \A m \in DOMAIN owner' : owner'[m] = d => Holds(d)' /\ m = Class(d)'
  <2>1. Class(d)' = Class(d)
    BY <1>2 DEF Class
  <2>2. CASE d = c
    BY <1>1, <1>4, <1>5, <2>1, <2>2 DEF OwnerInv
  <2>3. CASE d # c
    BY <1>1, <1>4, <1>5, <2>1, <2>3 DEF OwnerInv
  <2> QED
    BY <2>2, <2>3
<1>10. OwnerInv'
  BY <1>9 DEF OwnerInv
<1> QED
  BY <1>6, <1>7, <1>8, <1>10 DEF ControlInv

\* The thunk starts and reads its request: its key stays, whatever the address.
LEMMA IngestControl ==
  ASSUME ControlInv, NEW c \in Connections, Ingest(c)
  PROVE  ControlInv'
<1>1. ControlType /\ ModeInv /\ PoolInv /\ OwnerInv /\ SidesInv
  BY DEF ControlInv
<1>2. /\ mode = "running" /\ queue # <<>> /\ Head(queue) = c /\ queue' = Tail(queue)
      /\ pc' = [pc EXCEPT ![c] = "ingest"]
      /\ busy' = busy \union {c} /\ done' = done
      /\ req' = req \/ req' = [req EXCEPT ![c] = [req[c] EXCEPT !.ip = Garbage]]
      /\ UNCHANGED <<mode, now, maxAge, forwardToProxy, opened, child, owner, sides>>
  BY DEF Ingest, Pool!Take, process, locals, client
<1>3. /\ 1 \in DOMAIN queue /\ c = queue[1]
      /\ \A x \in DOMAIN queue' : /\ x + 1 \in DOMAIN queue /\ x \in Nat \ {0}
                                  /\ queue'[x] = queue[x + 1]
      /\ \A y \in DOMAIN queue \ {1} : y - 1 \in DOMAIN queue' /\ (y - 1) + 1 = y
      /\ queue' \in Seq(Connections)
  BY <1>1, <1>2 DEF ControlType
<1>4. /\ pc[c] = "queued" /\ pc'[c] = "ingest"
      /\ \A d \in Connections : d # c => pc'[d] = pc[d]
      /\ pc' \in [Connections -> Steps]
  BY <1>1, <1>2, <1>3 DEF PoolInv, ControlType, Steps
<1>5. \A d \in Connections : (Holds(d)' <=> Holds(d)) /\ (Open(d)' <=> Open(d))
  BY <1>4 DEF Holds, Open
<1>6. /\ req' \in [Connections -> Requests]
      /\ \A d \in Connections : Text(req'[d]) = Text(req[d])
  <2>1. req[c] \in Requests /\ [req[c] EXCEPT !.ip = Garbage] \in Requests
        /\ Text([req[c] EXCEPT !.ip = Garbage]) = Text(req[c])
    BY <1>1, RequestFacts DEF ControlType
  <2> QED
    BY <1>1, <1>2, <2>1 DEF ControlType
<1>7. ControlType'
  BY <1>1, <1>2, <1>3, <1>4, <1>6 DEF ControlType
<1>8. ModeInv' /\ SidesInv'
  BY <1>1, <1>2, <1>4, <1>5 DEF ModeInv, SidesInv
<1>9. PoolInv'
  <2>1. Queued' \union busy' \union done' = 1..opened
    <3>1. Queued' \subseteq Queued
      BY <1>3 DEF Queued
    <3>2. Queued \subseteq Queued' \union {c}
      <4>1. ASSUME NEW y \in DOMAIN queue, y # 1
            PROVE  queue[y] \in Queued'
        <5>1. y - 1 \in DOMAIN queue' /\ queue'[y - 1] = queue[y]
          BY <1>3, <4>1
        <5> QED
          BY <5>1 DEF Queued
      <4> QED
        BY <1>3, <4>1 DEF Queued
    <3>3. c \in Queued
      BY <1>3 DEF Queued
    <3> QED
      BY <1>1, <1>2, <3>1, <3>2, <3>3 DEF PoolInv
  <2>2. c <= opened
    BY <1>1, <1>4 DEF PoolInv, ControlType, Connections
  <2>3. ASSUME NEW x \in DOMAIN queue'
        PROVE  pc'[queue'[x]] = "queued"
    <3>1. x + 1 \in DOMAIN queue /\ x + 1 # 1 /\ queue'[x] = queue[x + 1]
      BY <1>3
    <3>2. queue[x + 1] # c /\ queue[x + 1] \in Connections
      BY <1>1, <1>3, <3>1 DEF PoolInv, ControlType
    <3> QED
      BY <1>1, <1>4, <3>1, <3>2 DEF PoolInv
  <2>4. ASSUME NEW x \in DOMAIN queue', NEW y \in DOMAIN queue', queue'[x] = queue'[y]
        PROVE  x = y
    <3>1. x + 1 = y + 1
      BY <1>1, <1>3, <2>4 DEF PoolInv
    <3> QED
      BY <1>3, <3>1
  <2> QED
    BY <1>1, <1>2, <1>4, <2>1, <2>2, <2>3, <2>4 DEF PoolInv, ControlType, Connections
<1>10. OwnerInv'
  <2>1. \A d \in Connections : Class(d)' = Class(d)
    BY <1>6 DEF Class, Key
  <2> QED
    BY <1>1, <1>2, <1>5, <2>1 DEF OwnerInv
<1> QED
  BY <1>7, <1>8, <1>9, <1>10 DEF ControlInv
\* A connection comes in; a handler that has made it, if any, goes on.
LEMMA AcceptControl ==
  ASSUME ControlInv, mode = "running", NEW text \in Texts, NEW from \in Addresses,
         Accept(text, from),
         pc' \in [Connections -> Steps], pc'[opened'] = "queued",
         \A d \in Connections \ {opened'} : \/ pc'[d] = pc[d]
                                            \/ pc[d] \in HoldSteps /\ pc'[d] \in HoldSteps,
         child' \in [Connections -> Connections \union {None}],
         UNCHANGED <<mode, now, maxAge, forwardToProxy, owner, sides>>
  PROVE  /\ ControlInv' /\ opened' \in Connections /\ pc[opened'] = "none"
         /\ \A d \in Connections \ {opened'} : req'[d] = req[d]
<1>1. ControlType /\ ModeInv /\ PoolInv /\ OwnerInv /\ SidesInv
  BY DEF ControlInv
<1>0. PICK n \in Nat : n = opened + 1
  BY <1>1 DEF ControlType
<1>2. /\ opened' = n /\ opened < MaxConnections
      /\ req' = [req EXCEPT ![n] = Received(text, from)]
      /\ queue' = Append(queue, n) /\ UNCHANGED <<busy, done>>
  BY <1>0 DEF Accept, Pool!Schedule
<1>3. n \in Connections /\ opened' \in 0..MaxConnections /\ n \notin 1..opened
      /\ opened \in 0..MaxConnections /\ 1..opened' = (1..opened) \union {n}
      /\ \A d \in Connections : d > opened' => d > opened /\ d # n
  BY <1>0, <1>1, <1>2, ProxyAssumption DEF ControlType, Connections
<1>4. /\ queue' \in Seq(Connections) /\ DOMAIN queue' = DOMAIN queue \union {Len(queue) + 1}
      /\ queue'[Len(queue) + 1] = n /\ \A x \in DOMAIN queue : queue'[x] = queue[x]
      /\ \A x \in DOMAIN queue : queue[x] \in Connections /\ queue[x] \in Queued
  BY <1>1, <1>2, <1>3 DEF ControlType, Queued
<1>5. pc[n] = "none" /\ \A x \in DOMAIN queue : queue[x] # n
  BY <1>0, <1>1, <1>3, <1>4 DEF PoolInv, Connections
<1>6. /\ req' \in [Connections -> Requests]
      /\ \A d \in Connections \ {n} : req'[d] = req[d]
  BY <1>1, <1>2, <1>3, RequestFacts DEF ControlType
<1>7. /\ ~Holds(n) /\ ~Holds(n)'
      /\ \A d \in Connections : /\ Holds(d)' <=> Holds(d)
                                /\ d # n => (Open(d)' <=> Open(d))
                                /\ d # n => (pc'[d] = "none" <=> pc[d] = "none")
  <2>1. pc'[n] = "queued"
    BY <1>2
  <2>2. ASSUME NEW d \in Connections, d # n
        PROVE  \/ pc'[d] = pc[d]
               \/ pc[d] \in HoldSteps /\ pc'[d] \in HoldSteps
    BY <1>2, <2>2
  <2>3. ASSUME NEW d \in Connections, d # n
        PROVE  /\ Holds(d)' <=> Holds(d)
               /\ Open(d)' <=> Open(d)
               /\ pc'[d] = "none" <=> pc[d] = "none"
    BY <2>2, <2>3 DEF Holds, Open, HoldSteps
  <2>4. ~Holds(n) /\ ~Holds(n)'
    BY <1>5, <2>1 DEF Holds, Open
  <2> QED
    BY <2>3, <2>4
<1>8. ControlType'
  BY <1>1, <1>3, <1>4, <1>6 DEF ControlType
<1>9. ModeInv'
  BY DEF ModeInv
<1>10. PoolInv'
  <2>1. Queued' = Queued \union {n}
    BY <1>4 DEF Queued
  <2>2. Queued' \union busy' \union done' = 1..opened'
    BY <1>1, <1>2, <1>3, <2>1 DEF PoolInv
  <2>3. \A d \in Connections : d > opened' => pc'[d] = "none"
    BY <1>1, <1>2, <1>3 DEF PoolInv, HoldSteps
  <2>4. \A x \in DOMAIN queue' : pc'[queue'[x]] = "queued"
    <3>1. ASSUME NEW x \in DOMAIN queue
          PROVE  pc'[queue[x]] = "queued"
      <4>1. pc[queue[x]] = "queued" /\ queue[x] \in Connections /\ queue[x] # n
        BY <1>1, <1>4, <1>5 DEF PoolInv
      <4> QED
        BY <1>2, <4>1 DEF HoldSteps
    <3> QED
      BY <1>2, <1>4, <3>1
  <2>5. \A x, y \in DOMAIN queue' : queue'[x] = queue'[y] => x = y
    BY <1>1, <1>4, <1>5 DEF PoolInv
  <2> QED
    BY <2>2, <2>3, <2>4, <2>5 DEF PoolInv
<1>11. ASSUME NEW d \in Connections
       PROVE  /\ Holds(d)' => Class(d)' \in DOMAIN owner' /\ owner'[Class(d)'] = d
              /\ \A m \in DOMAIN owner' : owner'[m] = d => Holds(d)' /\ m = Class(d)'
  <2>1. CASE d = n
    BY <1>1, <1>7, <2>1 DEF OwnerInv
  <2>2. CASE d # n
    <3>1. Class(d)' = Class(d)
      BY <1>6, <2>2 DEF Class
    <3> QED
      BY <1>1, <1>7, <3>1 DEF OwnerInv
  <2> QED
    BY <2>1, <2>2
<1>12. OwnerInv'
  BY <1>11 DEF OwnerInv
<1>13. SidesInv'
  BY <1>1, <1>5, <1>7 DEF SidesInv
<1> QED
  BY <1>2, <1>3, <1>5, <1>6, <1>8, <1>9, <1>10, <1>12, <1>13 DEF ControlInv

\* A handler sends its request to the proxy itself and waits.
LEMMA ConnectToSelfControl ==
  ASSUME ControlInv, NEW c \in Connections, ConnectToSelf(c)
  PROVE  /\ ControlInv' /\ opened' \in Connections /\ pc[opened'] = "none"
         /\ \A d \in Connections \ {opened'} : req'[d] = req[d]
<1>1. ControlType /\ PoolInv
  BY DEF ControlInv
<1>2. /\ mode = "running" /\ pc[c] = "connect" /\ Accept(OnWire(c), ProxyAddress)
      /\ pc' = [pc EXCEPT ![c] = "await", ![opened'] = "queued"]
      /\ child' = [child EXCEPT ![c] = opened']
      /\ UNCHANGED <<mode, now, maxAge, forwardToProxy, owner, sides>>
  BY DEF ConnectToSelf, At, process, locals
<1>3. opened' \in Connections
  BY <1>1, <1>2, ProxyAssumption DEF Accept, ControlType, Connections
<1>4. OnWire(c) \in Texts /\ ProxyAddress \in Addresses
  BY <1>1, WireFacts, RequestFacts
<1>5. /\ pc' \in [Connections -> Steps] /\ pc'[opened'] = "queued"
      /\ \A d \in Connections \ {opened', c} : pc'[d] = pc[d]
      /\ c # opened' => pc'[c] = "await"
      /\ child' \in [Connections -> Connections \union {None}]
  BY <1>1, <1>2, <1>3 DEF ControlType, Steps
<1>6. "await" \in HoldSteps /\ "connect" \in HoldSteps
  BY DEF HoldSteps, Steps
<1>7. \A d \in Connections \ {opened'} : \/ pc'[d] = pc[d]
                                         \/ pc[d] \in HoldSteps /\ pc'[d] \in HoldSteps
  BY <1>2, <1>5, <1>6
<1> QED
  BY <1>2, <1>4, <1>5, <1>7, AcceptControl

\* A client's connection is accepted and scheduled.
LEMMA ClientConnectsControl ==
  ASSUME ControlInv, ClientConnects
  PROVE  /\ ControlInv' /\ opened' \in Connections /\ pc[opened'] = "none"
         /\ \A d \in Connections \ {opened'} : req'[d] = req[d]
<1>1. ControlType
  BY DEF ControlInv
<1>2. PICK s \in Sends : Accept(s.request, s.from)
  BY DEF ClientConnects
<1>3. /\ mode = "running" /\ pc' = [pc EXCEPT ![opened'] = "queued"]
      /\ UNCHANGED <<mode, now, maxAge, forwardToProxy, owner, sides, child>>
  BY DEF ClientConnects, process, locals
<1>4. opened' \in Connections
  BY <1>1, <1>2, ProxyAssumption DEF Accept, ControlType, Connections
<1>5. s.request \in Texts /\ s.from \in Addresses
  BY RequestFacts
<1>6. /\ pc' \in [Connections -> Steps] /\ pc'[opened'] = "queued"
      /\ \A d \in Connections \ {opened'} : pc'[d] = pc[d]
      /\ child' \in [Connections -> Connections \union {None}]
  BY <1>1, <1>3, <1>4 DEF ControlType, Steps
<1> QED
  BY <1>2, <1>3, <1>5, <1>6, AcceptControl

\* What the last --max-age, if any, leaves as a limit.
LEMMA MaxAgesFacts ==
  ASSUME NEW args \in Arguments, NEW age \in MaxAges(args)
  PROVE  age \in Nat \union {-1}
<1>1. CASE Given(args, "max-age") = {}
  BY <1>1 DEF MaxAges
<1>2. CASE Given(args, "max-age") # {}
  <2>1. PICK k \in Given(args, "max-age") : age = args[k].value
    BY <1>2 DEF MaxAges
  <2>2. k \in DOMAIN args /\ args[k].flag = "max-age"
    BY DEF Given, Read
  <2>3. args[k].value # Bad
    <3>1. k \in 1..k /\ k \in Read(args)
      BY <2>2, ProxyAssumption DEF Given
    <3> QED
      BY <3>1 DEF Read
  <2> QED
    BY <2>1, <2>2, <2>3, ProxyAssumption
<1> QED
  BY <1>1, <1>2

\* The process reads its options and starts, or gives up.
LEMMA ConfigureControl ==
  ASSUME ControlInv, Configure
  PROVE  ControlInv'
<1>1. ControlType /\ ModeInv /\ PoolInv /\ OwnerInv /\ SidesInv
  BY DEF ControlInv
<1>2. /\ mode = "starting"
      /\ UNCHANGED <<now, opened, queue, busy, done, pc, req, child, owner, sides>>
  BY DEF Configure, thunks, handler, locals, client
<1>3. /\ mode' \in {"starting", "running", "exited"} /\ maxAge' \in Nat \union {-1}
      /\ forwardToProxy' \in BOOLEAN
  <2>1. CASE mode' = "exited" /\ UNCHANGED <<maxAge, forwardToProxy, cache>>
    BY <1>1, <2>1 DEF ControlType
  <2>2. CASE \E args \in Arguments :
            /\ mode' \in IF Refused(args) THEN {"exited"} ELSE ServerSocket
            /\ maxAge' \in MaxAges(args)
            /\ forwardToProxy' = (Given(args, "proxy-port") # {})
    BY <2>2, MaxAgesFacts DEF ServerSocket
  <2> QED
    BY <2>1, <2>2 DEF Configure
<1>4. \A d \in Connections : /\ Holds(d)' <=> Holds(d)
                             /\ Open(d)' <=> Open(d)
                             /\ Class(d)' = Class(d)
  BY <1>2 DEF Holds, Open, Class
<1>5. ControlType'
  BY <1>1, <1>2, <1>3 DEF ControlType
<1>6. ModeInv'
  BY <1>1, <1>2, <1>4 DEF ModeInv
<1>7. PoolInv' /\ SidesInv'
  BY <1>1, <1>2, <1>4 DEF PoolInv, SidesInv, Queued
<1>8. OwnerInv'
  BY <1>1, <1>2, <1>4 DEF OwnerInv
<1> QED
  BY <1>5, <1>6, <1>7, <1>8 DEF ControlInv

\* The process ends: every thunk with it.
LEMMA KillControl ==
  ASSUME ControlInv, Kill
  PROVE  ControlInv'
<1>1. ControlType /\ ModeInv /\ PoolInv /\ OwnerInv /\ SidesInv
  BY DEF ControlInv
<1>2. /\ mode' = "starting" /\ queue' = <<>> /\ busy' = {} /\ done' = 1..opened /\ owner' = << >>
      /\ pc' = [c \in Connections |-> IF Open(c) THEN "cut" ELSE pc[c]]
      /\ UNCHANGED <<maxAge, forwardToProxy, now, opened, req, child, sides>>
  BY DEF Kill, locals, client
<1>3. \A d \in Connections : /\ ~Open(d)' /\ ~Holds(d)'
                             /\ pc[d] = "none" <=> pc'[d] = "none"
  BY <1>2 DEF Open, Holds
<1>4. pc' \in [Connections -> Steps]
  <2>1. \A d \in Connections : (IF Open(d) THEN "cut" ELSE pc[d]) \in Steps
    BY <1>1 DEF ControlType, Steps
  <2> QED
    BY <1>2, <2>1
<1>5. ControlType'
  BY <1>1, <1>2, <1>4 DEF ControlType
<1>6. ModeInv' /\ SidesInv'
  BY <1>1, <1>2, <1>3 DEF ModeInv, SidesInv
<1>7. PoolInv'
  BY <1>1, <1>2, <1>3 DEF PoolInv, Queued
<1>8. OwnerInv'
  BY <1>2, <1>3 DEF OwnerInv
<1> QED
  BY <1>5, <1>6, <1>7, <1>8 DEF ControlInv

\* ControlInv is inductive by itself.
LEMMA ControlStep ==
  ASSUME ControlInv, [Next]_vars
  PROVE  ControlInv'
<1>1. ControlType /\ ModeInv /\ PoolInv /\ OwnerInv /\ SidesInv
  BY DEF ControlInv
<1>2. CASE Configure
  BY <1>2, ConfigureControl
<1>3. CASE ClientConnects
  BY <1>3, ClientConnectsControl
<1>4. CASE Tick
  <2>1. now' \in 0..MaxTime /\ UNCHANGED <<mode, maxAge, forwardToProxy, opened, queue, busy, done,
                                           pc, req, child, owner, sides>>
    BY <1>1, <1>4, ProxyAssumption DEF Tick, ControlType, thunks, handler, locals, client
  <2> QED
    BY <2>1 DEF ControlInv, ControlType, ModeInv, PoolInv, OwnerInv, SidesInv, Queued, Open, Holds,
                Class
<1>5. CASE Kill
  BY <1>5, KillControl
<1>6. ASSUME NEW c \in Connections, Thunk(c)
      PROVE  ControlInv'
  BY <1>1, <1>6, ThunkKinds, IngestControl, ConnectToSelfControl, EntersControl, MovesControl,
     EndsControl
<1>7. CASE UNCHANGED vars
  BY <1>7 DEF vars, process, thunks, handler, locals, client, ControlInv, ControlType, ModeInv,
              PoolInv, OwnerInv, SidesInv, Queued, Open, Holds, Class
<1> QED
  BY <1>2, <1>3, <1>4, <1>5, <1>6, <1>7 DEF Next, Step

\* Nobody has connected at first.
LEMMA ControlInit == Init => ControlInv
<1> SUFFICES ASSUME Init PROVE ControlInv
  OBVIOUS
<1> USE DEF Init
<1>1. ControlType
  <2>1. opened \in 0..MaxConnections /\ now \in 0..MaxTime
    BY ProxyAssumption
  <2>2. pc \in [Connections -> Steps] /\ child \in [Connections -> Connections \union {None}]
    BY DEF Steps
  <2>3. req \in [Connections -> Requests]
    BY RequestFacts
  <2>4. queue \in Seq(Connections) /\ DOMAIN sides = Connections
    OBVIOUS
  <2>5. mode \in {"starting", "running", "exited"} /\ maxAge \in Nat \union {-1}
        /\ forwardToProxy \in BOOLEAN
    OBVIOUS
  <2> HIDE DEF Init
  <2> QED
    BY <2>1, <2>2, <2>3, <2>4, <2>5 DEF ControlType
<1>2. ModeInv /\ SidesInv /\ OwnerInv
  BY DEF ModeInv, SidesInv, OwnerInv, Open, Holds
<1>3. PoolInv
  BY DEF PoolInv, Queued
<1> QED
  BY <1>1, <1>2, <1>3 DEF ControlInv

\* The control invariant holds in every reachable state.
LEMMA ControlInvariant == Spec => []ControlInv
<1>1. ControlInv /\ [Next]_vars => ControlInv'
  BY ControlStep
<1> QED
  BY <1>1, ControlInit, PTL DEF Spec

\* The variables have their types, and a class of requests has one owner: the
\* handler whose request is of it, as long as it runs.
THEOREM ProxyTypeCorrect == Spec => []TypeOK
<1>1. ControlInv => TypeOK
  <2> SUFFICES ASSUME ControlInv PROVE TypeOK
    OBVIOUS
  <2>1. Pool!Scheduled = 1..opened
    BY DEF ControlInv, PoolInv, Queued, Pool!Scheduled
  <2>2. ASSUME NEW c \in Connections, NEW m \in DOMAIN owner \union {Class(c)}
        PROVE  m \in DOMAIN owner /\ owner[m] = c <=> Holds(c) /\ m = Class(c)
    BY DEF ControlInv, OwnerInv
  <2> QED
    BY <2>1, <2>2 DEF TypeOK, ControlInv, ControlType, SidesInv
<1> QED
  BY <1>1, ControlInvariant, PTL
-----------------------------------------------------------------------------
(* What clients get                                                        *)

\* What a client may get and the cache may hold.
Bodies == [code : {0, 200, 400, 403, 405, 504} \union {a.code : a \in Answers},
           bars : {{}} \union {a.bars : a \in Answers}, age : Nat,
           of : Texts \union {NoRequest}]

\* Where a thunk has ended.
Ended == {"closed", "dropped", "unread", "cut"}

\* Nothing is sent before the answer, but the line that opens a tunnel.
ReplyInv(c) ==
    /\ pc[c] \notin Ended \union {"tunnel"} => replies[c] = <<>>
    /\ pc[c] = "tunnel" => replies[c] = <<Error(200)>>
    /\ pc[c] = "closed" =>
          \/ Len(replies[c]) = 1
          \/ req[c].method # "CONNECT" /\ replies[c] = <<Error(504), Empty>>
          \/ req[c].method = "CONNECT" /\ replies[c] = <<>>

\* Files are named by two instants and hold answers.
CacheType ==
    \A k \in DOMAIN cache : \A n \in DOMAIN cache[k] :
        n.created \in Int /\ n.expires \in Int /\ cache[k][n] \in Bodies

\* The types of what is stored, sent and held in locals.
DataInv ==
    /\ CacheType
    /\ DOMAIN name = Connections /\ DOMAIN todo = Connections /\ DOMAIN hit = Connections
    /\ resp \in [Connections -> Bodies] /\ replies \in [Connections -> Seq(Bodies)]

-----------------------------------------------------------------------------
(* The cache and the handlers                                              *)

\* The steps of containsCacheEntry() and of cacheEntry() on a directory.
LookSteps == {"scan", "name", "expire", "rmdir", "open"}
PutSteps == {"stat", "mkdir"} \union StoreSteps

\* Two handlers on one directory are on record.
OverlapInv == Overlap \subseteq contested

\* What a handler stores was answered to the request that it stores it under.
StoredInv(c) ==
    pc[c] \in PutSteps =>
        /\ resp[c].code = 200 /\ <<StoreKey(c), resp[c]>> \in answered
        /\ pc[c] = "write" => /\ name[c].created \in Int /\ name[c].expires \in Int
                              /\ name[c].expires <= name[c].created + resp[c].age

\* A handler that is alone on a directory finds it as it left it.
LookInv(c) ==
    LET k == Key(req[c]) IN
    k \notin contested =>
        /\ pc[c] = "scan" => k \in DOMAIN cache
        /\ pc[c] = "name" => Files(k) # {}
        /\ pc[c] \in {"expire", "open"} => name[c] \in Files(k)
        /\ pc[c] = "rmdir" => k \in DOMAIN cache /\ Files(k) = {}
PutInv(c) ==
    LET k == StoreKey(c) IN
    k \notin contested =>
        /\ pc[c] = "mkdir" => k \notin DOMAIN cache
        /\ pc[c] = "list" => k \in DOMAIN cache
        /\ pc[c] = "clear" => todo[c] = Files(k) /\ todo[c] # {}
        /\ pc[c] = "create" => k \in DOMAIN cache /\ Files(k) = {}
        /\ pc[c] = "write" => Files(k) = {name[c]}

DropInv(c) == pc[c] = "dropped" => Key(req[c]) \in contested \/ StoreKey(c) \in contested

\* A hit is what was answered to the request of the client.
HitInv(c) ==
    /\ pc[c] \in {"none", "queued"} => hit[c] = <<>>
    /\ hit[c] # <<>> =>
        /\ req[c].proto /\ req[c].via # <<>>
        /\ IF hit[c][1].body = Empty THEN Key(req[c]) \in contested \union cut
           ELSE <<Text(req[c]), hit[c][1].body>> \in answered

HandlerInv(c) == StoredInv(c) /\ LookInv(c) /\ PutInv(c) /\ DropInv(c) /\ HitInv(c)

\* A file has the text that was answered to its key, for no longer than the server
\* allowed, or is still to be written, or will never be.
Writer(d, k, n) == pc[d] = "write" /\ StoreKey(d) = k /\ name[d] = n
FileInv(k, n) ==
    IF cache[k][n] = Empty
    THEN k \in contested \union cut \/ \E d \in Connections : Writer(d, k, n)
    ELSE n.expires <= n.created + cache[k][n].age /\ <<k, cache[k][n]>> \in answered

\* Only what the proxy has sent on is a key, and a directory nobody has met
\* another on has one file.
KeyInv(k) ==
    /\ k.proto /\ k.via # <<>>
    /\ k \notin contested => \A m, n \in Files(k) : m = n
    /\ \A n \in DOMAIN cache[k] : FileInv(k, n)

\* The cache, the handlers at work on it and their record.
EntryInv ==
    /\ OverlapInv
    /\ \A c \in Connections : HandlerInv(c)
    /\ \A k \in DOMAIN cache : KeyInv(k)
-----------------------------------------------------------------------------
(* What a step leaves alone                                                *)

\* The responses that the proxy invents, and the servers', are of the type.
LEMMA BodyFacts ==
  /\ \A code \in {0, 200, 400, 403, 405, 504} : Error(code) \in Bodies
  /\ \A a \in Answers, text \in Texts : Response(a, text) \in Bodies
  /\ Empty \in Bodies /\ Empty.code = 0
  /\ \A b \in Bodies : b.age \in Nat
  BY ProxyAssumption DEF Error, Response, Empty, Bodies

\* The directories of the cache after each of the system calls on them.
LEMMA WithFileFacts ==
  ASSUME NEW k \in DOMAIN cache, NEW n, NEW b
  PROVE  /\ DOMAIN WithFile(k, n, b) = DOMAIN cache
         /\ DOMAIN WithFile(k, n, b)[k] = DOMAIN cache[k] \union {n}
         /\ WithFile(k, n, b)[k][n] = b
         /\ \A m \in DOMAIN cache[k] : m # n => WithFile(k, n, b)[k][m] = cache[k][m]
         /\ \A h \in DOMAIN cache : h # k => WithFile(k, n, b)[h] = cache[h]
<1>1. /\ DOMAIN Set(cache[k], n, b) = DOMAIN cache[k] \union {n}
      /\ Set(cache[k], n, b)[n] = b
      /\ \A m \in DOMAIN cache[k] : m # n => Set(cache[k], n, b)[m] = cache[k][m]
  BY DEF Set
<1>2. /\ DOMAIN WithFile(k, n, b) = DOMAIN cache
      /\ WithFile(k, n, b)[k] = Set(cache[k], n, b)
      /\ \A h \in DOMAIN cache : h # k => WithFile(k, n, b)[h] = cache[h]
  BY DEF WithFile
<1> QED
  BY <1>1, <1>2

\* A file is removed.
LEMMA WithoutFileFacts ==
  ASSUME NEW k \in DOMAIN cache, NEW n
  PROVE  /\ DOMAIN WithoutFile(k, n) = DOMAIN cache
         /\ DOMAIN WithoutFile(k, n)[k] = DOMAIN cache[k] \ {n}
         /\ \A m \in DOMAIN cache[k] : m # n => WithoutFile(k, n)[k][m] = cache[k][m]
         /\ \A h \in DOMAIN cache : h # k => WithoutFile(k, n)[h] = cache[h]
<1>1. /\ DOMAIN Restrict(cache[k], DOMAIN cache[k] \ {n}) = DOMAIN cache[k] \ {n}
      /\ \A m \in DOMAIN cache[k] :
            m # n => Restrict(cache[k], DOMAIN cache[k] \ {n})[m] = cache[k][m]
  BY DEF Restrict
<1>2. /\ DOMAIN WithoutFile(k, n) = DOMAIN cache
      /\ WithoutFile(k, n)[k] = Restrict(cache[k], DOMAIN cache[k] \ {n})
      /\ \A h \in DOMAIN cache : h # k => WithoutFile(k, n)[h] = cache[h]
  BY DEF WithoutFile
<1> QED
  BY <1>1, <1>2

\* A directory is made.
LEMMA WithDirectoryFacts ==
  ASSUME NEW k
  PROVE  /\ DOMAIN WithDirectory(k) = DOMAIN cache \union {k}
         /\ \A h \in DOMAIN cache : h # k => WithDirectory(k)[h] = cache[h]
  BY DEF WithDirectory, Set

\* It is empty.
LEMMA NewDirectoryIsEmpty == \A k : DOMAIN WithDirectory(k)[k] = {}
  BY DEF WithDirectory, Set

\* A directory is removed.
LEMMA WithoutDirectoryFacts ==
  ASSUME NEW k
  PROVE  /\ DOMAIN WithoutDirectory(k) = DOMAIN cache \ {k}
         /\ \A h \in DOMAIN cache : h # k => WithoutDirectory(k)[h] = cache[h]
  BY DEF WithoutDirectory, Restrict

\* A thunk leaves the locals and the clients of the others alone.
LEMMA LocalsStay ==
  ASSUME DataInv, NEW c \in Connections, Thunk(c), NEW d \in Connections, d # c
  PROVE  /\ name'[d] = name[d] /\ todo'[d] = todo[d] /\ resp'[d] = resp[d]
         /\ replies'[d] = replies[d] /\ hit'[d] = hit[d]
<1> USE DEF DataInv, locals, client, Respond, Drop
<1>1. CASE Ingest(c) \/ BadRequest(c) \/ Enter(c) \/ Lookup(c) \/ ScanEntry(c)
  BY <1>1 DEF Ingest, BadRequest, Enter, Lookup, ScanEntry
<1>2. CASE FindName(c) \/ RemoveExpired(c) \/ RemoveDirectory(c) \/ OpenEntry(c)
  BY <1>2 DEF FindName, RemoveExpired, RemoveDirectory, OpenEntry
<1>3. CASE CannotConnect(c) \/ OpenTunnel(c) \/ ConnectToServer(c) \/ ConnectToSelf(c)
  BY <1>3 DEF CannotConnect, OpenTunnel, ConnectToServer, ConnectToSelf
<1>4. CASE GetResponse(c) \/ PayloadThrows(c) \/ Timeout(c) \/ SideEnds(c)
  BY <1>4 DEF GetResponse, PayloadThrows, Timeout, SideEnds
<1>5. CASE Stat(c) \/ MakeDirectory(c) \/ ListEntries(c)
  BY <1>5 DEF Stat, MakeDirectory, ListEntries
<1>6. CASE ClearEntry(c) \/ CreateEntry(c) \/ WriteEntry(c)
  BY <1>6 DEF ClearEntry, CreateEntry, WriteEntry
<1> QED
  BY <1>1, <1>2, <1>3, <1>4, <1>5, <1>6 DEF Thunk

\* It moves no other, but brings a new one in.
LEMMA OthersStay ==
  ASSUME ControlInv, NEW c \in Connections, Thunk(c), NEW d \in Connections, d # c
  PROVE  \/ pc'[d] = pc[d] /\ req'[d] = req[d]
         \/ pc[d] = "none" /\ pc'[d] = "queued"
<1>1. ControlType
  BY DEF ControlInv
<1>2. CASE Ingest(c)
  BY <1>1, <1>2 DEF Ingest, ControlType
<1>3. CASE Enters(c) \/ Moves(c) \/ Narrows(c) \/ Ends(c)
  BY <1>1, <1>3 DEF Enters, Moves, Narrows, Ends, End, ControlType
<1>4. CASE ConnectToSelf(c)
  <2>1. /\ opened' \in Connections /\ pc[opened'] = "none"
        /\ \A e \in Connections \ {opened'} : req'[e] = req[e]
    BY <1>4, ConnectToSelfControl
  <2>2. pc' = [pc EXCEPT ![c] = "await", ![opened'] = "queued"]
    BY <1>4 DEF ConnectToSelf
  <2> QED
    BY <1>1, <2>1, <2>2 DEF ControlType
<1> QED
  BY <1>1, <1>2, <1>3, <1>4, ThunkKinds

\* It changes no directory but the one that it is at work on.
LEMMA CacheStays ==
  ASSUME NEW c \in Connections, Thunk(c), NEW k, k \notin Uses(c)
  PROVE  /\ k \in DOMAIN cache' <=> k \in DOMAIN cache
         /\ k \in DOMAIN cache => cache'[k] = cache[k]
<1>1. CASE cache' = cache
  BY <1>1
<1>2. ASSUME NEW h \in DOMAIN cache, k # h, NEW n, NEW b,
             cache' = WithFile(h, n, b) \/ cache' = WithoutFile(h, n)
      PROVE  /\ k \in DOMAIN cache' <=> k \in DOMAIN cache
             /\ k \in DOMAIN cache => cache'[k] = cache[k]
  <2>1. CASE cache' = WithFile(h, n, b)
    BY <1>2, <2>1, WithFileFacts
  <2>2. CASE cache' = WithoutFile(h, n)
    BY <1>2, <2>2, WithoutFileFacts
  <2> QED
    BY <1>2, <2>1, <2>2
<1>3. ASSUME NEW h, k # h, cache' = WithDirectory(h) \/ cache' = WithoutDirectory(h)
      PROVE  /\ k \in DOMAIN cache' <=> k \in DOMAIN cache
             /\ k \in DOMAIN cache => cache'[k] = cache[k]
  <2>1. CASE cache' = WithDirectory(h)
    BY <1>3, <2>1, WithDirectoryFacts
  <2>2. CASE cache' = WithoutDirectory(h)
    BY <1>3, <2>2, WithoutDirectoryFacts
  <2> QED
    BY <1>3, <2>1, <2>2
<1>4. CASE \/ Ingest(c) \/ BadRequest(c) \/ Enter(c) \/ Lookup(c) \/ ScanEntry(c) \/ FindName(c)
           \/ OpenEntry(c) \/ CannotConnect(c) \/ OpenTunnel(c) \/ ConnectToServer(c)
           \/ ConnectToSelf(c) \/ GetResponse(c) \/ Timeout(c) \/ SideEnds(c) \/ Stat(c)
           \/ ListEntries(c) \/ PayloadThrows(c)
  BY <1>1, <1>4 DEF Ingest, BadRequest, Enter, Lookup, ScanEntry, FindName, OpenEntry,
     CannotConnect, OpenTunnel, ConnectToServer, ConnectToSelf, GetResponse, Timeout, SideEnds,
     Stat, ListEntries, PayloadThrows
<1>5. CASE RemoveExpired(c)
  <2>1. pc[c] = "expire" /\ Key(req[c]) # k
    BY <1>5 DEF RemoveExpired, At, Uses
  <2>2. name[c] \in Files(Key(req[c])) => Key(req[c]) \in DOMAIN cache
    BY DEF Files
  <2> QED
    BY <1>1, <1>2, <1>5, <2>1, <2>2 DEF RemoveExpired
<1>6. CASE RemoveDirectory(c)
  <2>1. pc[c] = "rmdir" /\ Key(req[c]) # k
    BY <1>6 DEF RemoveDirectory, At, Uses
  <2> QED
    BY <1>1, <1>3, <1>6, <2>1 DEF RemoveDirectory
<1>7. CASE MakeDirectory(c)
  <2>1. pc[c] = "mkdir" /\ StoreKey(c) # k
    BY <1>7 DEF MakeDirectory, At, Uses
  <2> QED
    BY <1>1, <1>3, <1>7, <2>1 DEF MakeDirectory
<1>8. CASE ClearEntry(c)
  <2>1. pc[c] = "clear" /\ StoreKey(c) # k
    BY <1>8 DEF ClearEntry, At, Uses, StoreSteps
  <2>2. PICK n \in todo[c] :
          \/ n \in Files(StoreKey(c)) /\ cache' = WithoutFile(StoreKey(c), n)
          \/ cache' = cache
    BY <1>8 DEF ClearEntry
  <2>3. n \in Files(StoreKey(c)) => StoreKey(c) \in DOMAIN cache
    BY DEF Files
  <2> QED
    BY <1>1, <1>2, <2>1, <2>2, <2>3
<1>9. CASE CreateEntry(c)
  <2>1. pc[c] = "create" /\ StoreKey(c) # k
    BY <1>9 DEF CreateEntry, At, Uses, StoreSteps
  <2> QED
    BY <1>1, <1>2, <1>9, <2>1 DEF CreateEntry
<1>10. CASE WriteEntry(c)
  <2>1. pc[c] = "write" /\ StoreKey(c) # k
    BY <1>10 DEF WriteEntry, At, Uses, StoreSteps
  <2>2. name[c] \in Files(StoreKey(c)) => StoreKey(c) \in DOMAIN cache
    BY DEF Files
  <2> QED
    BY <1>1, <1>2, <1>10, <2>1, <2>2 DEF WriteEntry
<1> QED
  BY <1>4, <1>5, <1>6, <1>7, <1>8, <1>9, <1>10 DEF Thunk
-----------------------------------------------------------------------------
(* What clients get, step by step                                          *)

\* What a server answers, this proxy or another, is an answer.
LEMMA AnswersFacts ==
  ASSUME ControlType, DataInv, NEW c \in Connections, NEW answer \in AnswersTo(c)
  PROVE  answer \in Bodies
<1>1. CASE child[c] = None
  BY <1>1, WireFacts, BodyFacts DEF AnswersTo
<1>2. CASE child[c] # None
  <2>1. child[c] \in Connections
    BY <1>2 DEF ControlType
  <2>2. replies[child[c]] \in Seq(Bodies)
    BY <2>1 DEF DataInv
  <2>3. CASE replies[child[c]] = <<>>
    BY <1>2, <2>3, BodyFacts DEF AnswersTo
  <2>4. CASE replies[child[c]] # <<>>
    <3>1. Head(replies[child[c]]) \in Bodies
      BY <2>2, <2>4
    <3> QED
      BY <1>2, <2>4, <3>1 DEF AnswersTo
  <2> QED
    BY <2>3, <2>4
<1> QED
  BY <1>1, <1>2

\* A file that is added or rewritten keeps the types of the cache.
LEMMA CacheTyped ==
  ASSUME CacheType, NEW k
  PROVE  /\ \A n : \A b \in Bodies :
               k \in DOMAIN cache /\ n.created \in Int /\ n.expires \in Int
                  /\ cache' = WithFile(k, n, b) => CacheType'
         /\ \A n : k \in DOMAIN cache /\ cache' = WithoutFile(k, n) => CacheType'
         /\ cache' = WithDirectory(k) => CacheType'
         /\ cache' = WithoutDirectory(k) => CacheType'
<1>1. ASSUME NEW n, NEW b \in Bodies, k \in DOMAIN cache, n.created \in Int, n.expires \in Int,
             cache' = WithFile(k, n, b)
      PROVE  CacheType'
  <2> SUFFICES ASSUME NEW h \in DOMAIN cache', NEW m \in DOMAIN cache'[h]
               PROVE  m.created \in Int /\ m.expires \in Int /\ cache'[h][m] \in Bodies
    BY DEF CacheType
  <2>1. CASE h = k /\ m = n
    BY <1>1, <2>1, WithFileFacts
  <2>2. CASE h # k \/ m # n
    <3>1. h \in DOMAIN cache /\ m \in DOMAIN cache[h] /\ cache'[h][m] = cache[h][m]
      BY <1>1, <2>2, WithFileFacts
    <3> QED
      BY <3>1 DEF CacheType
  <2> QED
    BY <2>1, <2>2
<1>2. ASSUME NEW n, k \in DOMAIN cache, cache' = WithoutFile(k, n)
      PROVE  CacheType'
  <2> SUFFICES ASSUME NEW h \in DOMAIN cache', NEW m \in DOMAIN cache'[h]
               PROVE  m.created \in Int /\ m.expires \in Int /\ cache'[h][m] \in Bodies
    BY DEF CacheType
  <2>1. h \in DOMAIN cache /\ m \in DOMAIN cache[h] /\ cache'[h][m] = cache[h][m]
    BY <1>2, WithoutFileFacts
  <2> QED
    BY <2>1 DEF CacheType
<1>3. ASSUME cache' = WithDirectory(k)
      PROVE  CacheType'
  <2> SUFFICES ASSUME NEW h \in DOMAIN cache', NEW m \in DOMAIN cache'[h]
               PROVE  m.created \in Int /\ m.expires \in Int /\ cache'[h][m] \in Bodies
    BY DEF CacheType
  <2>1. h # k
    BY <1>3, NewDirectoryIsEmpty
  <2>2. h \in DOMAIN cache /\ cache'[h] = cache[h]
    BY <1>3, <2>1, WithDirectoryFacts
  <2> QED
    BY <2>2 DEF CacheType
<1>4. ASSUME cache' = WithoutDirectory(k)
      PROVE  CacheType'
  <2> SUFFICES ASSUME NEW h \in DOMAIN cache', NEW m \in DOMAIN cache'[h]
               PROVE  m.created \in Int /\ m.expires \in Int /\ cache'[h][m] \in Bodies
    BY DEF CacheType
  <2>1. h \in DOMAIN cache /\ cache'[h] = cache[h]
    BY <1>4, WithoutDirectoryFacts
  <2> QED
    BY <2>1 DEF CacheType
<1> QED
  BY <1>1, <1>2, <1>3, <1>4

\* A thunk stores answers under names made of two instants.
LEMMA CacheTypeThunk ==
  ASSUME ControlInv, DataInv, NEW c \in Connections, Thunk(c)
  PROVE  CacheType'
<1> USE DEF DataInv
<1>1. CASE cache' = cache
  BY <1>1 DEF CacheType
<1>2. CASE \/ Ingest(c) \/ BadRequest(c) \/ Enter(c) \/ Lookup(c) \/ ScanEntry(c) \/ FindName(c)
           \/ OpenEntry(c) \/ CannotConnect(c) \/ OpenTunnel(c) \/ ConnectToServer(c)
           \/ ConnectToSelf(c) \/ GetResponse(c) \/ Timeout(c) \/ SideEnds(c) \/ Stat(c)
           \/ ListEntries(c) \/ PayloadThrows(c)
  BY <1>1, <1>2 DEF Ingest, BadRequest, Enter, Lookup, ScanEntry, FindName, OpenEntry,
     CannotConnect, OpenTunnel, ConnectToServer, ConnectToSelf, GetResponse, Timeout, SideEnds,
     Stat, ListEntries, PayloadThrows
<1>3. CASE RemoveExpired(c)
  <2>1. name[c] \in Files(Key(req[c])) => Key(req[c]) \in DOMAIN cache
    BY DEF Files
  <2> QED
    BY <1>1, <1>3, <2>1, CacheTyped DEF RemoveExpired
<1>4. CASE RemoveDirectory(c) \/ MakeDirectory(c)
  BY <1>1, <1>4, CacheTyped DEF RemoveDirectory, MakeDirectory
<1>5. CASE ClearEntry(c)
  <2>1. PICK n \in todo[c] :
          \/ n \in Files(StoreKey(c)) /\ cache' = WithoutFile(StoreKey(c), n)
          \/ cache' = cache
    BY <1>5 DEF ClearEntry
  <2>2. n \in Files(StoreKey(c)) => StoreKey(c) \in DOMAIN cache
    BY DEF Files
  <2> QED
    BY <1>1, <2>1, <2>2, CacheTyped
<1>6. CASE CreateEntry(c)
  <2>1. EntryName(resp[c]).created \in Int /\ EntryName(resp[c]).expires \in Int
    <3>1. now \in Int /\ maxAge \in Int /\ resp[c].age \in Int
      BY BodyFacts DEF ControlInv, ControlType
    <3> QED
      BY <3>1 DEF EntryName, Least
  <2>2. Empty \in Bodies
    BY BodyFacts
  <2> QED
    BY <1>1, <1>6, <2>1, <2>2, CacheTyped DEF CreateEntry
<1>7. CASE WriteEntry(c)
  <2>1. CASE name[c] \in Files(StoreKey(c))
    <3>1. StoreKey(c) \in DOMAIN cache /\ name[c] \in DOMAIN cache[StoreKey(c)]
      BY <2>1 DEF Files
    <3>2. name[c].created \in Int /\ name[c].expires \in Int /\ resp[c] \in Bodies
      BY <3>1 DEF CacheType
    <3> QED
      BY <1>7, <2>1, <3>1, <3>2, CacheTyped DEF WriteEntry
  <2> QED
    BY <1>1, <1>7, <2>1 DEF WriteEntry
<1> QED
  BY <1>2, <1>3, <1>4, <1>5, <1>6, <1>7 DEF Thunk

\* A thunk keeps the types of responses, replies and locals.
LEMMA DataThunk ==
  ASSUME ControlInv, DataInv, NEW c \in Connections, Thunk(c)
  PROVE  DataInv'
<1>1. CacheType'
  BY CacheTypeThunk
<1>2. /\ DOMAIN name' = Connections /\ DOMAIN todo' = Connections /\ DOMAIN hit' = Connections
      /\ DOMAIN resp' = Connections /\ DOMAIN replies' = Connections
      /\ (resp' = resp \/ \E v : resp' = [resp EXCEPT ![c] = v])
      /\ (replies' = replies \/ \E v : replies' = [replies EXCEPT ![c] = v])
  <2> USE DEF DataInv, locals, client, Respond, Drop
  <2>1. CASE Ingest(c) \/ BadRequest(c) \/ Enter(c) \/ Lookup(c) \/ ScanEntry(c)
    BY <2>1 DEF Ingest, BadRequest, Enter, Lookup, ScanEntry
  <2>2. CASE FindName(c) \/ RemoveExpired(c) \/ RemoveDirectory(c) \/ OpenEntry(c)
    BY <2>2 DEF FindName, RemoveExpired, RemoveDirectory, OpenEntry
  <2>3. CASE CannotConnect(c) \/ OpenTunnel(c) \/ ConnectToServer(c) \/ ConnectToSelf(c)
    BY <2>3 DEF CannotConnect, OpenTunnel, ConnectToServer, ConnectToSelf
  <2>4. CASE GetResponse(c) \/ PayloadThrows(c) \/ Timeout(c) \/ SideEnds(c)
    BY <2>4 DEF GetResponse, PayloadThrows, Timeout, SideEnds
  <2>5. CASE Stat(c) \/ MakeDirectory(c) \/ ListEntries(c)
    BY <2>5 DEF Stat, MakeDirectory, ListEntries
  <2>6. CASE ClearEntry(c) \/ CreateEntry(c) \/ WriteEntry(c)
    BY <2>6 DEF ClearEntry, CreateEntry, WriteEntry
  <2> QED
    BY <2>1, <2>2, <2>3, <2>4, <2>5, <2>6 DEF Thunk
<1>3. resp'[c] \in Bodies
  <2>1. CASE resp' = resp
    BY <2>1 DEF DataInv
  <2>2. CASE GetResponse(c)
    <3>1. PICK answer \in AnswersTo(c) : resp' = resp \/ resp' = [resp EXCEPT ![c] = answer]
      BY <2>2 DEF GetResponse
    <3>2. answer \in Bodies
      BY AnswersFacts DEF ControlInv
    <3> QED
      BY <3>1, <3>2 DEF DataInv
  <2> QED
    BY <2>1, <2>2 DEF Thunk, Ingest, PayloadThrows, BadRequest, Enter, Lookup, ScanEntry, FindName,
       RemoveExpired, RemoveDirectory, OpenEntry, CannotConnect, OpenTunnel, ConnectToServer,
       ConnectToSelf, Timeout, SideEnds, Stat, MakeDirectory, ListEntries, ClearEntry,
       CreateEntry, WriteEntry, locals
<1>4. replies'[c] \in Seq(Bodies)
  <2>1. replies[c] \in Seq(Bodies) /\ DOMAIN replies = Connections /\ CacheType
    BY DEF DataInv
  <2>2. ASSUME NEW b \in Bodies, Respond(c, <<b>>)
        PROVE  replies'[c] \in Seq(Bodies)
    BY <2>1, <2>2 DEF Respond
  <2>3. ASSUME Respond(c, <<>>)
        PROVE  replies'[c] \in Seq(Bodies)
    BY <2>1, <2>3 DEF Respond
  <2>4. CASE replies' = replies
    BY <2>1, <2>4
  <2>5. \A code \in {200, 400, 403, 405, 504} : Error(code) \in Bodies
    BY BodyFacts
  <2>6. CASE BadRequest(c)
    BY <2>2, <2>5, <2>6 DEF BadRequest
  <2>7. CASE Enter(c)
    <3>1. Verdict(req[c]) # 0 => Verdict(req[c]) \in {403, 405, 504}
      BY DEF Verdict
    <3> QED
      BY <2>2, <2>4, <2>5, <2>7, <3>1 DEF Enter
  <2>8. CASE OpenEntry(c)
    <3>1. ASSUME name[c] \in Files(Key(req[c]))
          PROVE  cache[Key(req[c])][name[c]] \in Bodies
      BY <2>1, <3>1 DEF Files, CacheType
    <3> QED
      BY <2>2, <2>4, <2>8, <3>1 DEF OpenEntry, Drop
  <2>9. CASE CannotConnect(c)
    <3>1. Error(504) \in Bodies /\ Empty \in Bodies
      BY BodyFacts
    <3>2. ASSUME Respond(c, <<Error(504), Empty>>)
          PROVE  replies'[c] \in Seq(Bodies)
      <4> HIDE DEF Bodies
      <4>1. <<Error(504), Empty>> \in Seq(Bodies)
        BY <3>1
      <4>2. replies'[c] = replies[c] \o <<Error(504), Empty>>
        BY <2>1, <3>2 DEF Respond
      <4> QED
        BY <2>1, <4>1, <4>2
    <3> QED
      BY <2>3, <2>9, <3>2 DEF CannotConnect
  <2>10. CASE OpenTunnel(c)
    BY <2>1, <2>5, <2>10 DEF OpenTunnel
  <2>11. CASE GetResponse(c)
    <3>1. PICK answer \in AnswersTo(c) : replies' = replies \/ Respond(c, <<answer>>)
      BY <2>11 DEF GetResponse
    <3>2. answer \in Bodies
      BY AnswersFacts DEF ControlInv
    <3> QED
      BY <2>2, <2>4, <3>1, <3>2
  <2>12. CASE Timeout(c) \/ SideEnds(c)
    BY <2>3, <2>4, <2>12 DEF Timeout, SideEnds
  <2>13. CASE WriteEntry(c)
    <3>1. resp[c] \in Bodies
      BY DEF DataInv
    <3> QED
      BY <2>2, <2>13, <3>1 DEF WriteEntry
  <2>14. CASE \/ Ingest(c) \/ Lookup(c) \/ ScanEntry(c) \/ FindName(c) \/ RemoveExpired(c)
              \/ RemoveDirectory(c) \/ ConnectToServer(c) \/ ConnectToSelf(c) \/ Stat(c)
              \/ MakeDirectory(c) \/ ListEntries(c) \/ ClearEntry(c) \/ CreateEntry(c)
              \/ PayloadThrows(c)
    BY <2>4, <2>14 DEF Ingest, PayloadThrows, Lookup, ScanEntry, FindName, RemoveExpired, RemoveDirectory,
       ConnectToServer, ConnectToSelf, Stat, MakeDirectory, ListEntries, ClearEntry, CreateEntry,
       Drop, client
  <2> QED
    BY <2>6, <2>7, <2>8, <2>9, <2>10, <2>11, <2>12, <2>13, <2>14 DEF Thunk
<1>5. resp' \in [Connections -> Bodies]
  BY <1>2, <1>3 DEF DataInv
<1>6. replies' \in [Connections -> Seq(Bodies)]
  BY <1>2, <1>4 DEF DataInv
<1> QED
  BY <1>1, <1>2, <1>5, <1>6 DEF DataInv

\* A thunk sends its client one answer, but for the exceptions that end it without
\* one or with two.
LEMMA ReplyThunk ==
  ASSUME ControlInv, DataInv, NEW c \in Connections, Thunk(c), ReplyInv(c)
  PROVE  ReplyInv(c)'
<1>1. /\ replies[c] \in Seq(Bodies) /\ DOMAIN replies = Connections /\ DOMAIN pc = Connections
  BY DEF DataInv, ControlInv, ControlType
<1>2. ASSUME NEW b, Respond(c, <<b>>), replies[c] = <<>>
      PROVE  ReplyInv(c)'
  <2>1. replies'[c] = <<b>> /\ pc'[c] = "closed"
    BY <1>1, <1>2 DEF Respond, End
  <2> QED
    BY <2>1 DEF ReplyInv, Ended
<1>3. ASSUME NEW to, to \notin {"closed", "tunnel"}, pc' = [pc EXCEPT ![c] = to],
             replies' = replies, replies[c] = <<>>
      PROVE  ReplyInv(c)'
  BY <1>1, <1>3 DEF ReplyInv
<1>4. ASSUME Drop(c), replies[c] = <<>>
      PROVE  ReplyInv(c)'
  BY <1>3, <1>4 DEF Drop, End
<1>5. CASE Ingest(c)
  <2>1. pc[c] = "queued"
    BY <1>5 DEF Ingest, ControlInv, ControlType, PoolInv
  <2> QED
    BY <1>3, <1>5, <2>1 DEF Ingest, client, ReplyInv, Ended
<1>6. ASSUME pc[c] \in HoldSteps \union {"ingest"}, pc[c] # "tunnel"
      PROVE  replies[c] = <<>>
  BY <1>6 DEF ReplyInv, Ended, HoldSteps
<1> USE DEF At, Goto, HoldSteps, Steps, StoreSteps, client
<1>7. CASE BadRequest(c)
  BY <1>2, <1>6, <1>7 DEF BadRequest
<1>8. CASE Enter(c)
  BY <1>2, <1>3, <1>6, <1>8 DEF Enter
<1>9. CASE Lookup(c) \/ ScanEntry(c) \/ FindName(c)
  BY <1>3, <1>4, <1>6, <1>9 DEF Lookup, ScanEntry, FindName
<1>10. CASE RemoveExpired(c) \/ RemoveDirectory(c)
  BY <1>3, <1>4, <1>6, <1>10 DEF RemoveExpired, RemoveDirectory
<1>11. CASE OpenEntry(c)
  BY <1>2, <1>4, <1>6, <1>11 DEF OpenEntry
<1>12. CASE CannotConnect(c)
  <2>1. pc[c] = "connect" /\ replies[c] = <<>> /\ req' = req
    BY <1>6, <1>12 DEF CannotConnect
  <2>2. CASE req[c].method = "CONNECT"
    BY <1>1, <1>12, <2>1, <2>2 DEF CannotConnect, Respond, End, ReplyInv
  <2>3. CASE req[c].method # "CONNECT"
    <3>1. replies'[c] = <<Error(504), Empty>> /\ pc'[c] = "closed"
      BY <1>1, <1>12, <2>1, <2>3 DEF CannotConnect, Respond, End
    <3> QED
      BY <2>1, <2>3, <3>1 DEF ReplyInv, Ended
  <2> QED
    BY <2>2, <2>3
<1>13. CASE OpenTunnel(c)
  <2>1. replies[c] = <<>> /\ pc'[c] = "tunnel" /\ replies'[c] = Append(replies[c], Error(200))
    BY <1>1, <1>6, <1>13 DEF OpenTunnel
  <2>2. replies'[c] = <<Error(200)>>
    BY <2>1
  <2> QED
    BY <2>1, <2>2 DEF ReplyInv
<1>14. CASE ConnectToServer(c) \/ Stat(c)
  BY <1>3, <1>6, <1>14 DEF ConnectToServer, Stat
<1>15. CASE ConnectToSelf(c)
  <2>1. pc[c] = "connect" /\ pc' = [pc EXCEPT ![c] = "await", ![opened'] = "queued"]
        /\ replies' = replies
    BY <1>15 DEF ConnectToSelf
  <2>2. pc'[c] \in {"await", "queued"}
    BY <1>1, <2>1
  <2> QED
    BY <1>6, <2>1, <2>2 DEF ReplyInv
<1>16. CASE GetResponse(c)
  BY <1>2, <1>3, <1>6, <1>16 DEF GetResponse
<1>17. CASE Timeout(c) \/ SideEnds(c)
  <2>1. pc[c] = "tunnel" /\ replies[c] = <<Error(200)>>
    BY <1>17 DEF Timeout, SideEnds, ReplyInv
  <2>2. CASE Respond(c, <<>>)
    <3>1. replies'[c] = <<Error(200)>> /\ pc'[c] = "closed"
      BY <1>1, <2>1, <2>2 DEF Respond, End
    <3> QED
      BY <3>1 DEF ReplyInv, Ended
  <2>3. CASE UNCHANGED <<pc, replies>>
    BY <2>1, <2>3 DEF ReplyInv
  <2> QED
    BY <1>17, <2>2, <2>3 DEF Timeout, SideEnds
<1>18. CASE MakeDirectory(c) \/ ListEntries(c)
  BY <1>3, <1>4, <1>6, <1>18 DEF MakeDirectory, ListEntries
<1>19. CASE ClearEntry(c) \/ CreateEntry(c)
  BY <1>3, <1>4, <1>6, <1>19 DEF ClearEntry, CreateEntry
<1>20. CASE WriteEntry(c)
  BY <1>2, <1>6, <1>20 DEF WriteEntry
<1>21. CASE PayloadThrows(c)
  BY <1>3, <1>6, <1>21 DEF PayloadThrows, End
<1> QED
  BY <1>5, <1>7, <1>8, <1>9, <1>10, <1>11, <1>12, <1>13, <1>14, <1>15, <1>16, <1>17, <1>18,
     <1>19, <1>20, <1>21 DEF Thunk

\* What clients have got, in every step.
LEMMA ReplyStep ==
  ASSUME ControlInv, DataInv, \A c \in Connections : ReplyInv(c), [Next]_vars
  PROVE  DataInv' /\ \A c \in Connections : ReplyInv(c)'
<1>1. CASE Configure
  <2>1. UNCHANGED <<pc, req, locals, client>> /\ (cache' = cache \/ cache' = << >>)
    BY <1>1 DEF Configure, Cleared, handler
  <2>2. CacheType'
    BY <2>1 DEF CacheType, DataInv
  <2> QED
    BY <2>1, <2>2 DEF DataInv, ReplyInv, locals, client
<1>2. CASE ClientConnects
  <2>1. /\ opened' \in Connections /\ pc[opened'] = "none"
        /\ \A d \in Connections \ {opened'} : req'[d] = req[d]
    BY <1>2, ClientConnectsControl
  <2>2. pc' = [pc EXCEPT ![opened'] = "queued"] /\ UNCHANGED <<cache, locals, replies, hit>>
    BY <1>2 DEF ClientConnects
  <2>3. DataInv'
    BY <2>2 DEF DataInv, CacheType, locals
  <2>4. ASSUME NEW d \in Connections
        PROVE  ReplyInv(d)'
    <3>1. ReplyInv(d) /\ DOMAIN pc = Connections
      BY DEF ControlInv, ControlType
    <3>2. CASE d = opened'
      <4>1. replies'[d] = <<>> /\ pc'[d] = "queued"
        BY <2>1, <2>2, <3>1, <3>2 DEF ReplyInv, Ended
      <4> QED
        BY <4>1 DEF ReplyInv
    <3>3. CASE d # opened'
      BY <2>1, <2>2, <3>1, <3>3 DEF ReplyInv
    <3> QED
      BY <3>2, <3>3
  <2> QED
    BY <2>3, <2>4
<1>3. CASE Tick \/ UNCHANGED vars
  BY <1>3 DEF Tick, vars, handler, locals, client, DataInv, CacheType, ReplyInv
<1>4. CASE Kill
  <2>1. /\ pc' = [c \in Connections |-> IF Open(c) THEN "cut" ELSE pc[c]]
        /\ UNCHANGED <<req, cache, locals, client>>
    BY <1>4 DEF Kill
  <2>2. \A c \in Connections : pc'[c] = "cut" \/ pc'[c] = pc[c]
    BY <2>1
  <2> QED
    BY <2>1, <2>2 DEF DataInv, CacheType, ReplyInv, locals, client, Ended
<1>5. ASSUME NEW c \in Connections, Thunk(c)
      PROVE  DataInv' /\ \A d \in Connections : ReplyInv(d)'
  <2>1. DataInv' /\ ReplyInv(c)'
    BY <1>5, DataThunk, ReplyThunk
  <2>2. ASSUME NEW d \in Connections, d # c
        PROVE  ReplyInv(d)'
    <3>1. replies'[d] = replies[d]
      BY <1>5, <2>2, LocalsStay
    <3>2. \/ pc'[d] = pc[d] /\ req'[d] = req[d]
          \/ pc[d] = "none" /\ pc'[d] = "queued"
      BY <1>5, <2>2, OthersStay
    <3> QED
      BY <3>1, <3>2 DEF ReplyInv, Ended
  <2> QED
    BY <2>1, <2>2
<1> QED
  BY <1>1, <1>2, <1>3, <1>4, <1>5 DEF Next, Step

\* Nobody has got anything at first.
LEMMA ReplyInit == Init => DataInv /\ \A c \in Connections : ReplyInv(c)
  BY BodyFacts DEF Init, DataInv, CacheType, ReplyInv

\* What a client has got when its thunk ends without an exception.
THEOREM AnswersCorrect == Spec => []AnswersOnce
<1> DEFINE Inv == ControlInv /\ DataInv /\ \A c \in Connections : ReplyInv(c)
<1>1. Init => Inv
  BY ControlInit, ReplyInit
<1>2. Inv /\ [Next]_vars => Inv'
  BY ControlStep, ReplyStep
<1>3. Inv => AnswersOnce
  BY DEF AnswersOnce, ReplyInv
<1> QED
  BY <1>1, <1>2, <1>3, PTL DEF Spec
-----------------------------------------------------------------------------
(* The cache and the handlers, step by step                                *)

\* Two handlers on a directory are on record from then on.
LEMMA OverlapFacts ==
  ASSUME OverlapInv, NEW c \in Connections, NEW d \in Connections, c # d,
         NEW k \in Uses(c), k \in Uses(d)
  PROVE  k \in contested
<1>1. k \in UNION {Uses(e) : e \in Connections \ {c}}
  OBVIOUS
<1>2. k \in Overlap
  BY <1>1 DEF Overlap
<1> QED
  BY <1>2 DEF OverlapInv

\* Where a handler at work on the cache is, and on what.
LEMMA UsesFacts ==
  ASSUME NEW c \in Connections
  PROVE  /\ pc[c] \in LookSteps => Uses(c) = {Key(req[c])}
         /\ pc[c] \in PutSteps => Uses(c) = {StoreKey(c)}
         /\ pc[c] \notin LookSteps \union PutSteps => Uses(c) = {}
  BY DEF Uses, LookSteps, PutSteps, StoreSteps

\* A thunk forgets no answer, and kills nobody's store.
LEMMA HistoryGrows ==
  ASSUME NEW c \in Connections, Thunk(c)
  PROVE  answered \subseteq answered' /\ cut' = cut
<1> USE DEF history
<1>1. CASE Ingest(c) \/ BadRequest(c) \/ Enter(c) \/ Lookup(c) \/ ScanEntry(c)
  BY <1>1 DEF Ingest, BadRequest, Enter, Lookup, ScanEntry
<1>2. CASE FindName(c) \/ RemoveExpired(c) \/ RemoveDirectory(c) \/ OpenEntry(c)
  BY <1>2 DEF FindName, RemoveExpired, RemoveDirectory, OpenEntry
<1>3. CASE CannotConnect(c) \/ OpenTunnel(c) \/ ConnectToServer(c) \/ ConnectToSelf(c)
  BY <1>3 DEF CannotConnect, OpenTunnel, ConnectToServer, ConnectToSelf
<1>4. CASE GetResponse(c) \/ PayloadThrows(c) \/ Timeout(c) \/ SideEnds(c)
  BY <1>4 DEF GetResponse, PayloadThrows, Timeout, SideEnds
<1>5. CASE Stat(c) \/ MakeDirectory(c) \/ ListEntries(c)
  BY <1>5 DEF Stat, MakeDirectory, ListEntries
<1>6. CASE ClearEntry(c) \/ CreateEntry(c) \/ WriteEntry(c)
  BY <1>6 DEF ClearEntry, CreateEntry, WriteEntry
<1> QED
  BY <1>1, <1>2, <1>3, <1>4, <1>5, <1>6 DEF Thunk

\* A directory of which no file is added, rewritten or finished.
LEMMA KeyStays ==
  ASSUME ControlInv, DataInv, NEW c \in Connections, Thunk(c), contested \subseteq contested',
         NEW k \in DOMAIN cache, k \in DOMAIN cache', KeyInv(k),
         \A n \in DOMAIN cache'[k] :
            n \in DOMAIN cache[k] /\ cache'[k][n] = cache[k][n] /\ ~Writer(c, k, n)
  PROVE  KeyInv(k)'
<1>1. answered \subseteq answered' /\ cut' = cut
  BY HistoryGrows
<1>2. ASSUME NEW n \in DOMAIN cache'[k]
      PROVE  FileInv(k, n)'
  <2>1. n \in DOMAIN cache[k] /\ cache'[k][n] = cache[k][n] /\ FileInv(k, n)
    BY DEF KeyInv
  <2>2. CASE cache[k][n] # Empty
    BY <1>1, <2>1, <2>2 DEF FileInv
  <2>3. CASE cache[k][n] = Empty /\ k \in contested \union cut
    BY <1>1, <2>1, <2>3 DEF FileInv
  <2>4. ASSUME cache[k][n] = Empty, NEW d \in Connections, Writer(d, k, n)
        PROVE  FileInv(k, n)'
    <3>1. d # c
      BY <2>4
    <3>2. pc'[d] = pc[d] /\ req'[d] = req[d] /\ name'[d] = name[d]
      BY <2>4, <3>1, LocalsStay, OthersStay DEF Writer
    <3>3. Writer(d, k, n)'
      BY <2>4, <3>2 DEF Writer, StoreKey, Forwarded
    <3> QED
      BY <2>1, <2>4, <3>3 DEF FileInv
  <2> QED
    BY <2>1, <2>2, <2>3, <2>4 DEF FileInv
<1>3. k \notin contested' => \A m, n \in Files(k)' : m = n
  BY DEF KeyInv, Files
<1>4. k.proto /\ k.via # <<>>
  BY DEF KeyInv
<1> QED
  BY <1>2, <1>3, <1>4 DEF KeyInv

\* The other handlers, none of which is on the same directory off the record.
LEMMA HandlerStays ==
  ASSUME ControlInv, DataInv, EntryInv, NEW c \in Connections, Thunk(c),
         contested \subseteq contested', NEW d \in Connections, d # c
  PROVE  HandlerInv(d)'
<1>1. HandlerInv(d) /\ OverlapInv
  BY DEF EntryInv
<1>2. /\ name'[d] = name[d] /\ todo'[d] = todo[d] /\ resp'[d] = resp[d] /\ hit'[d] = hit[d]
      /\ answered \subseteq answered' /\ cut' = cut
  BY LocalsStay, HistoryGrows
<1>3. CASE pc[d] = "none" /\ pc'[d] = "queued"
  BY <1>1, <1>2, <1>3 DEF HandlerInv, StoredInv, LookInv, PutInv, DropInv, HitInv, PutSteps,
     StoreSteps
<1>4. CASE pc'[d] = pc[d] /\ req'[d] = req[d]
  <2>1. Key(req'[d]) = Key(req[d]) /\ StoreKey(d)' = StoreKey(d)
    BY <1>4 DEF StoreKey, Forwarded
  <2>2. StoredInv(d)' /\ DropInv(d)' /\ HitInv(d)'
    BY <1>1, <1>2, <1>4, <2>1 DEF HandlerInv, StoredInv, DropInv, HitInv
  <2>3. ASSUME NEW k \in Uses(d), k \notin contested'
        PROVE  k \notin contested /\ Files(k)' = Files(k)
               /\ (k \in DOMAIN cache' <=> k \in DOMAIN cache)
    <3>1. k \notin contested /\ k \notin Uses(c)
      BY <1>1, <2>3, OverlapFacts
    <3> QED
      BY <3>1, CacheStays DEF Files
  <2>4. LookInv(d)'
    <3>1. PICK k : k = Key(req[d])
      OBVIOUS
    <3>2. CASE pc[d] \in LookSteps
      <4>1. k \in Uses(d)
        BY <3>1, <3>2, UsesFacts
      <4>2. Key(req[d])' = k
        BY <2>1, <3>1
      <4> QED
        BY <1>1, <1>2, <1>4, <2>3, <3>1, <4>1, <4>2 DEF HandlerInv, LookInv
    <3>3. CASE pc[d] \notin LookSteps
      BY <1>4, <3>3 DEF LookInv, LookSteps
    <3> QED
      BY <3>2, <3>3
  <2>5. PutInv(d)'
    <3>1. PICK k : k = StoreKey(d)
      OBVIOUS
    <3>2. CASE pc[d] \in PutSteps
      <4>1. k \in Uses(d)
        BY <3>1, <3>2, UsesFacts
      <4>2. StoreKey(d)' = k
        BY <2>1, <3>1
      <4> QED
        BY <1>1, <1>2, <1>4, <2>3, <3>1, <4>1, <4>2 DEF HandlerInv, PutInv
    <3>3. CASE pc[d] \notin PutSteps
      BY <1>4, <3>3 DEF PutInv, PutSteps, StoreSteps
    <3> QED
      BY <3>2, <3>3
  <2> QED
    BY <2>2, <2>4, <2>5 DEF HandlerInv
<1> QED
  BY <1>3, <1>4, OthersStay
\* The handler that takes the step, when it does not work on the cache after it.
LEMMA RestOwn ==
  ASSUME EntryInv, NEW c \in Connections, Thunk(c), contested \subseteq contested',
         pc'[c] \notin LookSteps \union PutSteps \union {"none", "queued"},
         pc'[c] = "dropped" => Key(req[c]) \in contested \/ StoreKey(c) \in contested,
         req'[c] = req[c], hit'[c] = hit[c]
  PROVE  HandlerInv(c)'
<1>1. HitInv(c) /\ answered \subseteq answered' /\ cut' = cut
  BY HistoryGrows DEF EntryInv, HandlerInv
<1>2. Key(req'[c]) = Key(req[c]) /\ StoreKey(c)' = StoreKey(c)
  BY DEF StoreKey, Forwarded
<1>3. StoredInv(c)' /\ LookInv(c)' /\ PutInv(c)'
  BY DEF StoredInv, LookInv, PutInv, LookSteps, PutSteps, StoreSteps
<1>4. DropInv(c)'
  BY <1>2 DEF DropInv
<1>5. HitInv(c)'
  BY <1>1, <1>2 DEF HitInv
<1> QED
  BY <1>3, <1>4, <1>5 DEF HandlerInv

\* The handler that takes the step, when it works on the cache after it.
LEMMA WorkOwn ==
  ASSUME EntryInv, NEW c \in Connections, Thunk(c), contested \subseteq contested',
         pc'[c] \in LookSteps \union PutSteps,
         StoredInv(c)', LookInv(c)', PutInv(c)',
         req'[c] = req[c], hit'[c] = hit[c]
  PROVE  HandlerInv(c)'
<1>1. HitInv(c) /\ answered \subseteq answered' /\ cut' = cut
  BY HistoryGrows DEF EntryInv, HandlerInv
<1>2. Key(req'[c]) = Key(req[c])
  OBVIOUS
<1>3. DropInv(c)'
  BY DEF DropInv, LookSteps, PutSteps, StoreSteps
<1>4. HitInv(c)'
  BY <1>1, <1>2 DEF HitInv, LookSteps, PutSteps, StoreSteps
<1> QED
  BY <1>3, <1>4 DEF HandlerInv

\* The steps that do not concern the cache.
LEMMA IdleOwn ==
  ASSUME ControlInv, DataInv, EntryInv, NEW c \in Connections, Thunk(c),
         contested \subseteq contested',
         \/ Ingest(c) \/ BadRequest(c) \/ Enter(c) \/ CannotConnect(c) \/ OpenTunnel(c)
         \/ ConnectToServer(c) \/ ConnectToSelf(c) \/ Timeout(c) \/ SideEnds(c)
         \/ PayloadThrows(c)
  PROVE  HandlerInv(c)' /\ Uses(c) = {}
<1>1. DOMAIN pc = Connections /\ DOMAIN req = Connections /\ HandlerInv(c)
  BY DEF ControlInv, ControlType, EntryInv
<1>2. CASE Ingest(c)
  <2>1. pc[c] = "queued" /\ pc'[c] = "ingest" /\ hit' = hit
    BY <1>1, <1>2 DEF Ingest, ControlInv, ControlType, PoolInv, client
  <2>2. hit'[c] = <<>>
    BY <1>1, <2>1 DEF HandlerInv, HitInv
  <2>3. HandlerInv(c)'
    BY <2>1, <2>2 DEF HandlerInv, StoredInv, LookInv, PutInv, DropInv, HitInv, PutSteps, StoreSteps
  <2> QED
    BY <2>1, <2>3, UsesFacts DEF LookSteps, PutSteps, StoreSteps
<1>3. CASE ConnectToSelf(c)
  <2>1. /\ opened' \in Connections /\ pc[opened'] = "none" /\ pc[c] = "connect"
        /\ \A d \in Connections \ {opened'} : req'[d] = req[d]
        /\ pc' = [pc EXCEPT ![c] = "await", ![opened'] = "queued"] /\ hit' = hit
    BY <1>3, ConnectToSelfControl DEF ConnectToSelf, At
  <2>2. c # opened' /\ pc'[c] = "await" /\ req'[c] = req[c]
    BY <1>1, <2>1
  <2>3. HandlerInv(c)'
    BY <2>1, <2>2, RestOwn DEF LookSteps, PutSteps, StoreSteps
  <2> QED
    BY <2>1, <2>3, UsesFacts DEF LookSteps, PutSteps, StoreSteps
<1>4. CASE \/ BadRequest(c) \/ Enter(c) \/ CannotConnect(c) \/ OpenTunnel(c)
           \/ ConnectToServer(c) \/ Timeout(c) \/ SideEnds(c) \/ PayloadThrows(c)
  <2>1. /\ pc[c] \in {"ingest", "connect", "await", "tunnel"} /\ req' = req /\ hit' = hit
        /\ pc'[c] \in {"closed", "unread", "lookup", "connect", "tunnel", "await"}
    BY <1>1, <1>4 DEF BadRequest, Enter, CannotConnect, OpenTunnel, ConnectToServer, Timeout,
       SideEnds, PayloadThrows, Respond, End, At, Goto, client
  <2>2. HandlerInv(c)'
    BY <2>1, RestOwn DEF LookSteps, PutSteps, StoreSteps
  <2> QED
    BY <2>1, <2>2, UsesFacts DEF LookSteps, PutSteps, StoreSteps
<1> QED
  BY <1>2, <1>3, <1>4

\* The answer comes in, and may be stored.
LEMMA AnswerOwn ==
  ASSUME ControlInv, DataInv, EntryInv, NEW c \in Connections, Thunk(c),
         contested \subseteq contested', GetResponse(c)
  PROVE  HandlerInv(c)' /\ Uses(c) = {}
<1>1. /\ pc[c] = "await" /\ req' = req /\ hit' = hit /\ DOMAIN pc = Connections
      /\ DOMAIN resp = Connections
  BY DEF GetResponse, At, ControlInv, ControlType, DataInv
<1>2. StoreKey(c)' = StoreKey(c)
  BY <1>1 DEF StoreKey, Forwarded
<1>3. PICK answer \in AnswersTo(c) :
        /\ answered' = answered \union {<<Text(Forwarded(c)), answer>>}
        /\ \/ /\ ShouldCache(req[c], answer)
              /\ pc' = [pc EXCEPT ![c] = "stat"] /\ resp' = [resp EXCEPT ![c] = answer]
           \/ Respond(c, <<answer>>)
  BY DEF GetResponse, Goto
<1>4. CASE Respond(c, <<answer>>)
  <2>1. pc'[c] = "closed"
    BY <1>1, <1>4 DEF Respond, End
  <2>2. Uses(c) = {}
    BY <1>1, UsesFacts DEF LookSteps, PutSteps, StoreSteps
  <2> QED
    BY <1>1, <2>1, <2>2, RestOwn DEF LookSteps, PutSteps, StoreSteps
<1>5. CASE /\ ShouldCache(req[c], answer)
           /\ pc' = [pc EXCEPT ![c] = "stat"] /\ resp' = [resp EXCEPT ![c] = answer]
  <2>1. pc'[c] = "stat" /\ resp'[c] = answer /\ answer.code = 200
    BY <1>1, <1>5 DEF ShouldCache
  <2>2. <<StoreKey(c)', resp'[c]>> \in answered'
    BY <1>2, <1>3, <2>1 DEF StoreKey, Key
  <2>3. StoredInv(c)' /\ LookInv(c)' /\ PutInv(c)'
    BY <2>1, <2>2 DEF StoredInv, LookInv, PutInv
  <2> QED
    BY <1>1, <2>1, <2>3, WorkOwn, UsesFacts DEF LookSteps, PutSteps, StoreSteps
<1> QED
  BY <1>1, <1>3, <1>4, <1>5, UsesFacts DEF LookSteps, PutSteps, StoreSteps
\* A handler that looks its request up in the cache.
LEMMA LookOwn ==
  ASSUME ControlInv, DataInv, EntryInv, NEW c \in Connections, Thunk(c),
         contested \subseteq contested',
         \/ Lookup(c) \/ ScanEntry(c) \/ FindName(c)
         \/ RemoveExpired(c) \/ RemoveDirectory(c) \/ OpenEntry(c)
  PROVE  HandlerInv(c)' /\ \A k \in DOMAIN cache' : k \in Uses(c) => KeyInv(k)'
<1>1. PICK k : k = Key(req[c])
  OBVIOUS
<1>2. /\ req' = req /\ answered' = answered /\ cut' = cut
      /\ DOMAIN pc = Connections /\ DOMAIN hit = Connections /\ DOMAIN name = Connections
  BY DEF Lookup, ScanEntry, FindName, RemoveExpired, RemoveDirectory, OpenEntry, history,
         ControlInv, ControlType, DataInv
<1>3. Key(req[c])' = k /\ pc[c] \in LookSteps \union {"lookup"}
      /\ \A h \in Uses(c) : h = k
  BY <1>1, <1>2, UsesFacts DEF Lookup, ScanEntry, FindName, RemoveExpired, RemoveDirectory,
     OpenEntry, At, Goto, LookSteps, PutSteps, StoreSteps
<1>4. /\ HandlerInv(c) /\ LookInv(c) /\ HitInv(c)
      /\ \A h \in DOMAIN cache : KeyInv(h)
  BY DEF EntryInv, HandlerInv
<1>5. \A h, n : ~Writer(c, h, n)
  BY <1>3 DEF Writer, LookSteps
<1>6. ASSUME pc'[c] \in LookSteps, LookInv(c)', hit' = hit
      PROVE  HandlerInv(c)'
  <2>1. StoredInv(c)' /\ PutInv(c)'
    BY <1>6 DEF StoredInv, PutInv, LookSteps, PutSteps, StoreSteps
  <2> QED
    BY <1>2, <1>6, <2>1, WorkOwn
<1>7. ASSUME Drop(c), k \in contested, hit' = hit
      PROVE  HandlerInv(c)'
  <2>1. pc'[c] = "dropped"
    BY <1>2, <1>7 DEF Drop, End
  <2> QED
    BY <1>1, <1>2, <1>7, <2>1, RestOwn DEF LookSteps, PutSteps, StoreSteps
<1>8. ASSUME pc' = [pc EXCEPT ![c] = "connect"], hit' = hit
      PROVE  HandlerInv(c)'
  <2>1. pc'[c] = "connect"
    BY <1>2, <1>8
  <2> QED
    BY <1>2, <1>8, <2>1, RestOwn DEF LookSteps, PutSteps, StoreSteps
<1>9. ASSUME cache' = cache
      PROVE  \A h \in DOMAIN cache' : KeyInv(h)'
  BY <1>4, <1>5, <1>9, KeyStays
<1>10. k \in DOMAIN cache => Files(k) = DOMAIN cache[k]
  BY DEF Files
<1>11. CASE Lookup(c)
  <2>1. cache' = cache /\ hit' = hit
        /\ pc' = [pc EXCEPT ![c] = IF k \in DOMAIN cache THEN "scan" ELSE "connect"]
    BY <1>1, <1>11 DEF Lookup, Goto, client
  <2>2. CASE k \in DOMAIN cache
    <3>1. pc'[c] = "scan"
      BY <1>2, <2>1, <2>2
    <3>2. LookInv(c)'
      BY <1>3, <2>1, <2>2, <3>1 DEF LookInv
    <3> QED
      BY <1>6, <1>9, <2>1, <3>1, <3>2 DEF LookSteps
  <2> QED
    BY <1>8, <1>9, <2>1, <2>2
<1>12. CASE ScanEntry(c)
  <2>1. pc[c] = "scan" /\ cache' = cache /\ hit' = hit
    BY <1>12 DEF ScanEntry, At
  <2>2. CASE k \notin DOMAIN cache
    <3>1. k \in contested
      BY <1>1, <1>4, <2>1, <2>2 DEF LookInv
    <3> QED
      BY <1>1, <1>7, <1>9, <1>12, <2>1, <2>2, <3>1 DEF ScanEntry
  <2>3. CASE k \in DOMAIN cache /\ Files(k) = {}
    BY <1>1, <1>8, <1>9, <1>12, <2>1, <2>3 DEF ScanEntry, Goto
  <2>4. CASE k \in DOMAIN cache /\ Files(k) # {}
    <3>1. pc'[c] = "name"
      BY <1>1, <1>2, <1>12, <2>4 DEF ScanEntry, Goto
    <3>2. LookInv(c)'
      BY <1>3, <2>1, <2>4, <3>1 DEF LookInv, Files
    <3> QED
      BY <1>6, <1>9, <2>1, <3>1, <3>2 DEF LookSteps
  <2> QED
    BY <2>2, <2>3, <2>4
<1>13. CASE FindName(c)
  <2>1. cache' = cache /\ hit' = hit
    BY <1>13 DEF FindName, client
  <2>2. CASE pc' = [pc EXCEPT ![c] = "connect"]
    BY <1>8, <1>9, <2>1, <2>2
  <2>3. ASSUME NEW n \in Files(k), name' = [name EXCEPT ![c] = n],
               pc' = [pc EXCEPT ![c] = IF CachedEntryIsValid(n) THEN "open" ELSE "expire"]
        PROVE  HandlerInv(c)'
    <3>1. pc'[c] \in {"open", "expire"} /\ name'[c] = n
      BY <1>2, <2>3
    <3>2. LookInv(c)'
      BY <1>3, <2>1, <2>3, <3>1 DEF LookInv, Files
    <3> QED
      BY <1>6, <2>1, <3>1, <3>2 DEF LookSteps
  <2> QED
    BY <1>1, <1>9, <1>13, <2>1, <2>2, <2>3 DEF FindName, Goto
<1>14. CASE RemoveExpired(c)
  <2>1. pc[c] = "expire" /\ hit' = hit /\ name' = name
    BY <1>14 DEF RemoveExpired, At, locals
  <2>2. CASE name[c] \notin Files(k)
    <3>1. k \in contested
      BY <1>1, <1>4, <2>1, <2>2 DEF LookInv
    <3> QED
      BY <1>1, <1>7, <1>9, <1>14, <2>1, <2>2, <3>1 DEF RemoveExpired
  <2>3. CASE name[c] \in Files(k)
    <3>1. k \in DOMAIN cache /\ cache' = WithoutFile(k, name[c]) /\ pc'[c] = "rmdir"
      BY <1>1, <1>2, <1>14, <2>3 DEF RemoveExpired, Goto, Files
    <3>2. /\ DOMAIN cache' = DOMAIN cache /\ DOMAIN cache'[k] = DOMAIN cache[k] \ {name[c]}
          /\ \A m \in DOMAIN cache[k] : m # name[c] => cache'[k][m] = cache[k][m]
      BY <3>1, WithoutFileFacts
    <3>3. KeyInv(k)'
      BY <1>4, <1>5, <3>1, <3>2, KeyStays
    <3>4. k \notin contested => \A m \in DOMAIN cache[k] : m = name[c]
      BY <1>4, <1>10, <2>3, <3>1 DEF KeyInv
    <3>5. LookInv(c)'
      BY <1>3, <3>1, <3>2, <3>4 DEF LookInv, Files
    <3> QED
      BY <1>3, <1>6, <2>1, <3>1, <3>3, <3>5 DEF LookSteps
  <2> QED
    BY <2>2, <2>3
<1>15. CASE RemoveDirectory(c)
  <2>1. pc[c] = "rmdir" /\ hit' = hit
    BY <1>15 DEF RemoveDirectory, At
  <2>2. CASE k \in DOMAIN cache /\ Files(k) = {}
    <3>1. cache' = WithoutDirectory(k) /\ pc' = [pc EXCEPT ![c] = "connect"]
      BY <1>1, <1>15, <2>2 DEF RemoveDirectory, Goto
    <3>2. k \notin DOMAIN cache'
      BY <3>1, WithoutDirectoryFacts
    <3> QED
      BY <1>3, <1>8, <2>1, <3>1, <3>2
  <2>3. CASE ~(k \in DOMAIN cache /\ Files(k) = {})
    <3>1. k \in contested
      BY <1>1, <1>4, <2>1, <2>3 DEF LookInv
    <3> QED
      BY <1>1, <1>7, <1>9, <1>15, <2>1, <2>3, <3>1 DEF RemoveDirectory
  <2> QED
    BY <2>2, <2>3
<1>16. CASE OpenEntry(c)
  <2>1. pc[c] = "open" /\ cache' = cache
    BY <1>16 DEF OpenEntry, At
  <2>2. CASE name[c] \notin Files(k)
    <3>1. k \in contested
      BY <1>1, <1>4, <2>1, <2>2 DEF LookInv
    <3> QED
      BY <1>1, <1>7, <1>9, <1>16, <2>1, <2>2, <3>1 DEF OpenEntry
  <2>3. CASE name[c] \in Files(k)
    <3>1. PICK b : b = cache[k][name[c]]
      OBVIOUS
    <3>2. pc'[c] = "closed" /\ hit'[c] = <<[name |-> name[c], body |-> b]>>
      BY <1>1, <1>2, <1>16, <2>3, <3>1 DEF OpenEntry, Respond, End
    <3>3. hit'[c][1].body = b
      BY <3>2
    <3>4. k \in DOMAIN cache /\ KeyInv(k) /\ FileInv(k, name[c])
      BY <1>4, <2>3 DEF Files, KeyInv
    <3>5. k.proto /\ k.via # <<>> /\ req[c].proto /\ req[c].via # <<>>
      BY <1>1, <3>4 DEF KeyInv, Key, Text
    <3>6. ASSUME b = Empty
          PROVE  HitInv(c)'
      <4>1. ASSUME NEW d \in Connections, Writer(d, k, name[c])
            PROVE  k \in contested
        <5>1. k \in Uses(d) /\ k \in Uses(c) /\ d # c
          BY <1>1, <2>1, <4>1, UsesFacts DEF Writer, LookSteps, PutSteps, StoreSteps
        <5> QED
          BY <5>1, OverlapFacts DEF EntryInv
      <4>2. k \in contested \union cut
        BY <3>1, <3>4, <3>6, <4>1 DEF FileInv
      <4> QED
        BY <1>2, <1>3, <3>2, <3>3, <3>5, <3>6, <4>2 DEF HitInv
    <3>7. ASSUME b # Empty
          PROVE  HitInv(c)'
      <4>1. <<k, b>> \in answered /\ Text(req'[c]) = k
        BY <1>1, <1>2, <3>1, <3>4, <3>7 DEF FileInv, Key
      <4> QED
        BY <1>2, <3>2, <3>3, <3>5, <3>7, <4>1 DEF HitInv
    <3>8. HitInv(c)'
      BY <3>6, <3>7
    <3>9. HandlerInv(c)'
      BY <3>2, <3>8 DEF HandlerInv, StoredInv, LookInv, PutInv, DropInv, PutSteps, StoreSteps
    <3> QED
      BY <1>9, <2>1, <3>9
  <2> QED
    BY <2>2, <2>3
<1> QED
  BY <1>11, <1>12, <1>13, <1>14, <1>15, <1>16
\* A handler that stores an answer.
LEMMA PutOwn ==
  ASSUME ControlInv, DataInv, EntryInv, NEW c \in Connections, Thunk(c),
         contested \subseteq contested',
         \/ Stat(c) \/ MakeDirectory(c) \/ ListEntries(c)
         \/ ClearEntry(c) \/ CreateEntry(c) \/ WriteEntry(c)
  PROVE  HandlerInv(c)' /\ \A k \in DOMAIN cache' : k \in Uses(c) => KeyInv(k)'
<1>1. PICK k : k = StoreKey(c)
  OBVIOUS
<1>2. /\ req' = req /\ answered' = answered /\ cut' = cut /\ resp' = resp /\ hit' = hit
      /\ DOMAIN pc = Connections /\ DOMAIN todo = Connections /\ DOMAIN name = Connections
      /\ resp[c] \in Bodies
  BY DEF Stat, MakeDirectory, ListEntries, ClearEntry, CreateEntry, WriteEntry, history, locals,
         client, ControlInv, ControlType, DataInv
<1>3. /\ pc[c] \in PutSteps /\ k \in Uses(c) /\ \A h \in Uses(c) : h = k
  <2>1. pc[c] \in PutSteps
    BY DEF Stat, MakeDirectory, ListEntries, ClearEntry, CreateEntry, WriteEntry, At, Goto,
           PutSteps, StoreSteps
  <2> QED
    BY <1>1, <2>1, UsesFacts
<1>4. StoreKey(c)' = k /\ \A h, n : Writer(c, h, n) <=> pc[c] = "write" /\ h = k /\ n = name[c]
  BY <1>1, <1>2 DEF StoreKey, Forwarded, Writer
<1>5. /\ HandlerInv(c) /\ StoredInv(c) /\ PutInv(c)
      /\ \A h \in DOMAIN cache : KeyInv(h)
      /\ resp[c].code = 200 /\ <<k, resp[c]>> \in answered
  BY <1>1, <1>3 DEF EntryInv, HandlerInv, StoredInv
<1>6. ASSUME pc'[c] \in PutSteps, pc'[c] # "write", PutInv(c)'
      PROVE  HandlerInv(c)'
  <2>1. StoredInv(c)'
    BY <1>1, <1>2, <1>4, <1>5, <1>6 DEF StoredInv
  <2>2. LookInv(c)'
    BY <1>6 DEF LookInv, PutSteps, StoreSteps
  <2> QED
    BY <1>2, <1>6, <2>1, <2>2, WorkOwn
<1>7. ASSUME Drop(c), k \in contested
      PROVE  HandlerInv(c)'
  <2>1. pc'[c] = "dropped"
    BY <1>2, <1>7 DEF Drop, End
  <2> QED
    BY <1>1, <1>2, <1>7, <2>1, RestOwn DEF LookSteps, PutSteps, StoreSteps
<1>8. ASSUME cache' = cache, pc[c] # "write"
      PROVE  \A h \in DOMAIN cache' : KeyInv(h)'
  BY <1>4, <1>5, <1>8, KeyStays
<1>9. k \in DOMAIN cache => Files(k) = DOMAIN cache[k]
  BY DEF Files
<1>10. CASE Stat(c)
  <2>1. /\ pc[c] = "stat" /\ cache' = cache
        /\ pc' = [pc EXCEPT ![c] = IF k \in DOMAIN cache THEN "list" ELSE "mkdir"]
    BY <1>1, <1>10 DEF Stat, Goto, At
  <2>2. pc'[c] = IF k \in DOMAIN cache THEN "list" ELSE "mkdir"
    BY <1>2, <2>1
  <2>3. PutInv(c)'
    BY <1>4, <2>1, <2>2 DEF PutInv
  <2> QED
    BY <1>6, <1>8, <2>1, <2>2, <2>3 DEF PutSteps, StoreSteps
<1>11. CASE MakeDirectory(c)
  <2>1. pc[c] = "mkdir"
    BY <1>11 DEF MakeDirectory, At
  <2>2. CASE k \in DOMAIN cache
    <3>1. k \in contested
      BY <1>1, <1>5, <2>1, <2>2 DEF PutInv
    <3> QED
      BY <1>1, <1>7, <1>8, <1>11, <2>1, <2>2, <3>1 DEF MakeDirectory
  <2>3. CASE k \notin DOMAIN cache
    <3>1. cache' = WithDirectory(k) /\ pc'[c] = "list"
      BY <1>1, <1>2, <1>11, <2>3 DEF MakeDirectory, Goto
    <3>2. k \in DOMAIN cache' /\ DOMAIN cache'[k] = {}
      BY <3>1, WithDirectoryFacts, NewDirectoryIsEmpty
    <3>3. PutInv(c)'
      BY <1>4, <3>1, <3>2 DEF PutInv
    <3>4. k.proto /\ k.via # <<>>
      BY <1>1, WireFacts DEF ControlInv
    <3>5. KeyInv(k)'
      BY <3>2, <3>4 DEF KeyInv, Files
    <3> QED
      BY <1>3, <1>6, <3>1, <3>3, <3>5 DEF PutSteps, StoreSteps
  <2> QED
    BY <2>2, <2>3
<1>12. CASE ListEntries(c)
  <2>1. pc[c] = "list" /\ cache' = cache
    BY <1>12 DEF ListEntries, At
  <2>2. CASE k \notin DOMAIN cache
    <3>1. k \in contested
      BY <1>1, <1>5, <2>1, <2>2 DEF PutInv
    <3> QED
      BY <1>1, <1>7, <1>8, <1>12, <2>1, <2>2, <3>1 DEF ListEntries
  <2>3. CASE k \in DOMAIN cache
    <3>1. /\ pc'[c] = IF Files(k) = {} THEN "create" ELSE "clear"
          /\ todo'[c] = Files(k)
      BY <1>1, <1>2, <1>12, <2>3 DEF ListEntries, Goto
    <3>2. PutInv(c)'
      BY <1>4, <1>9, <2>1, <2>3, <3>1 DEF PutInv, Files
    <3> QED
      BY <1>6, <1>8, <2>1, <3>1, <3>2 DEF PutSteps, StoreSteps
  <2> QED
    BY <2>2, <2>3
<1>13. CASE ClearEntry(c)
  <2>1. pc[c] = "clear"
    BY <1>13 DEF ClearEntry, At
  <2>2. PICK n \in todo[c] :
          IF n \in Files(k)
          THEN /\ pc' = [pc EXCEPT ![c] = IF todo[c] = {n} THEN "create" ELSE "clear"]
               /\ todo' = [todo EXCEPT ![c] = todo[c] \ {n}]
               /\ cache' = WithoutFile(k, n)
          ELSE Drop(c) /\ UNCHANGED <<todo, cache>>
    BY <1>1, <1>13 DEF ClearEntry, Goto
  <2>3. CASE n \notin Files(k)
    <3>1. k \in contested
      BY <1>1, <1>5, <2>1, <2>2, <2>3 DEF PutInv
    <3> QED
      BY <1>7, <1>8, <2>1, <2>2, <2>3, <3>1
  <2>4. CASE n \in Files(k)
    <3>1. /\ k \in DOMAIN cache /\ cache' = WithoutFile(k, n) /\ todo'[c] = todo[c] \ {n}
          /\ pc'[c] = IF todo[c] = {n} THEN "create" ELSE "clear"
      BY <1>2, <2>2, <2>4 DEF Files
    <3>2. /\ DOMAIN cache' = DOMAIN cache /\ DOMAIN cache'[k] = DOMAIN cache[k] \ {n}
          /\ \A m \in DOMAIN cache[k] : m # n => cache'[k][m] = cache[k][m]
      BY <3>1, WithoutFileFacts
    <3>3. KeyInv(k)'
      BY <1>4, <1>5, <2>1, <3>1, <3>2, KeyStays
    <3>4. k \notin contested => todo[c] = DOMAIN cache[k]
      BY <1>1, <1>5, <1>9, <2>1, <3>1 DEF PutInv
    <3>5. Files(k)' = DOMAIN cache[k] \ {n}
      BY <3>1, <3>2 DEF Files
    <3>6. PutInv(c)'
      BY <1>4, <3>1, <3>2, <3>4, <3>5 DEF PutInv
    <3> QED
      BY <1>3, <1>6, <3>1, <3>3, <3>6 DEF PutSteps, StoreSteps
  <2> QED
    BY <2>3, <2>4
<1>14. CASE CreateEntry(c)
  <2>1. pc[c] = "create"
    BY <1>14 DEF CreateEntry, At
  <2>2. CASE k \notin DOMAIN cache
    <3>1. k \in contested
      BY <1>1, <1>5, <2>1, <2>2 DEF PutInv
    <3> QED
      BY <1>1, <1>7, <1>8, <1>14, <2>1, <2>2, <3>1 DEF CreateEntry
  <2>3. CASE k \in DOMAIN cache
    <3>1. PICK n : n = EntryName(resp[c])
      OBVIOUS
    <3>2. pc'[c] = "write" /\ name'[c] = n /\ cache' = WithFile(k, n, Empty)
      BY <1>1, <1>2, <1>14, <2>3, <3>1 DEF CreateEntry, Goto
    <3>3. /\ DOMAIN cache' = DOMAIN cache /\ DOMAIN cache'[k] = DOMAIN cache[k] \union {n}
          /\ cache'[k][n] = Empty
          /\ \A m \in DOMAIN cache[k] : m # n => cache'[k][m] = cache[k][m]
      BY <2>3, <3>2, WithFileFacts
    <3>4. k \notin contested => DOMAIN cache[k] = {}
      BY <1>1, <1>5, <1>9, <2>1, <2>3 DEF PutInv
    <3>5. Files(k)' = DOMAIN cache[k] \union {n}
      BY <2>3, <3>3 DEF Files
    <3>6. PutInv(c)' /\ LookInv(c)'
      BY <1>4, <3>2, <3>4, <3>5 DEF PutInv, LookInv
    <3>7. n.created \in Int /\ n.expires \in Int /\ n.expires <= n.created + resp[c].age
      <4>1. now \in Int /\ maxAge \in Int /\ resp[c].age \in Int
        BY <1>2, BodyFacts DEF ControlInv, ControlType
      <4> QED
        BY <3>1, <4>1 DEF EntryName, Least
    <3>8. StoredInv(c)'
      BY <1>2, <1>4, <1>5, <3>2, <3>7 DEF StoredInv
    <3>9. HandlerInv(c)'
      BY <1>2, <3>2, <3>6, <3>8, WorkOwn DEF PutSteps, StoreSteps
    <3>10. ASSUME NEW m \in DOMAIN cache'[k]
           PROVE  FileInv(k, m)'
      <4>1. CASE m = n
        <5>1. Writer(c, k, m)'
          BY <1>4, <3>2, <4>1 DEF Writer
        <5> QED
          BY <3>3, <4>1, <5>1 DEF FileInv
      <4>2. CASE m # n
        <5>1. m \in DOMAIN cache[k] /\ cache'[k][m] = cache[k][m] /\ FileInv(k, m)
          BY <1>5, <2>3, <3>3, <4>2 DEF KeyInv
        <5>2. ASSUME cache[k][m] = Empty, NEW d \in Connections, Writer(d, k, m)
              PROVE  Writer(d, k, m)'
          <6>1. d # c /\ pc[d] = "write"
            BY <2>1, <5>2 DEF Writer
          <6>2. pc'[d] = pc[d] /\ req'[d] = req[d] /\ name'[d] = name[d]
            BY <6>1, LocalsStay, OthersStay
          <6> QED
            BY <5>2, <6>2 DEF Writer, StoreKey, Forwarded
        <5> QED
          BY <1>2, <5>1, <5>2 DEF FileInv
      <4> QED
        BY <4>1, <4>2
    <3>11. k.proto /\ k.via # <<>>
      BY <1>5, <2>3 DEF KeyInv
    <3>12. KeyInv(k)'
      BY <3>4, <3>5, <3>10, <3>11 DEF KeyInv
    <3> QED
      BY <1>3, <3>9, <3>12
  <2> QED
    BY <2>2, <2>3
<1>15. CASE WriteEntry(c)
  <2>1. pc[c] = "write" /\ pc'[c] = "closed"
    BY <1>2, <1>15 DEF WriteEntry, At, Respond, End
  <2>2. HandlerInv(c)'
    BY <1>2, <2>1, RestOwn DEF LookSteps, PutSteps, StoreSteps
  <2>3. CASE name[c] \notin Files(k)
    <3>1. cache' = cache
      BY <1>1, <1>15, <2>3 DEF WriteEntry
    <3>2. k \in DOMAIN cache => KeyInv(k)'
      BY <1>4, <1>5, <1>9, <2>3, <3>1, KeyStays
    <3> QED
      BY <1>3, <2>2, <3>1, <3>2
  <2>4. CASE name[c] \in Files(k)
    <3>1. /\ k \in DOMAIN cache /\ name[c] \in DOMAIN cache[k]
          /\ cache' = WithFile(k, name[c], resp[c])
      BY <1>1, <1>15, <2>4 DEF WriteEntry, Files
    <3>2. /\ DOMAIN cache' = DOMAIN cache /\ DOMAIN cache'[k] = DOMAIN cache[k]
          /\ cache'[k][name[c]] = resp[c]
          /\ \A m \in DOMAIN cache[k] : m # name[c] => cache'[k][m] = cache[k][m]
      BY <3>1, WithFileFacts
    <3>3. resp[c] # Empty
      BY <1>5, BodyFacts
    <3>4. ASSUME NEW m \in DOMAIN cache'[k]
          PROVE  FileInv(k, m)'
      <4>1. CASE m = name[c]
        <5>1. name[c].expires <= name[c].created + resp[c].age
          BY <1>5, <2>1, <1>3 DEF StoredInv
        <5> QED
          BY <1>2, <1>5, <3>2, <3>3, <4>1, <5>1 DEF FileInv
      <4>2. CASE m # name[c]
        <5>1. m \in DOMAIN cache[k] /\ cache'[k][m] = cache[k][m] /\ FileInv(k, m)
          BY <1>5, <3>1, <3>2, <4>2 DEF KeyInv
        <5>2. ASSUME NEW d \in Connections, Writer(d, k, m)
              PROVE  Writer(d, k, m)'
          <6>1. d # c /\ pc[d] = "write"
            BY <4>2, <5>2 DEF Writer
          <6>2. pc'[d] = pc[d] /\ req'[d] = req[d] /\ name'[d] = name[d]
            BY <6>1, LocalsStay, OthersStay
          <6> QED
            BY <5>2, <6>2 DEF Writer, StoreKey, Forwarded
        <5> QED
          BY <1>2, <5>1, <5>2 DEF FileInv
      <4> QED
        BY <4>1, <4>2
    <3>5. Files(k)' = Files(k)
      BY <3>1, <3>2 DEF Files
    <3>6. KeyInv(k)'
      BY <1>5, <3>1, <3>4, <3>5 DEF KeyInv
    <3> QED
      BY <1>3, <2>2, <3>6
  <2> QED
    BY <2>3, <2>4
<1> QED
  BY <1>10, <1>11, <1>12, <1>13, <1>14, <1>15

\* A step of a thunk: its own handler, the others, its directory, the others.
LEMMA EntryThunk ==
  ASSUME ControlInv, DataInv, EntryInv, NEW c \in Connections, Thunk(c),
         contested' = contested \union Overlap'
  PROVE  EntryInv'
<1>1. OverlapInv' /\ contested \subseteq contested'
  BY DEF OverlapInv
<1>2. HandlerInv(c)' /\ \A k \in DOMAIN cache' : k \in Uses(c) => KeyInv(k)'
  BY <1>1, IdleOwn, AnswerOwn, LookOwn, PutOwn DEF Thunk
<1>3. \A d \in Connections : HandlerInv(d)'
  BY <1>1, <1>2, HandlerStays
<1>4. ASSUME NEW k \in DOMAIN cache'
      PROVE  KeyInv(k)'
  <2>1. CASE k \in Uses(c)
    BY <1>2, <2>1
  <2>2. CASE k \notin Uses(c)
    <3>1. k \in DOMAIN cache /\ cache'[k] = cache[k] /\ KeyInv(k)
      BY <2>2, CacheStays DEF EntryInv
    <3>2. \A n : ~Writer(c, k, n)
      BY <2>2, UsesFacts DEF Writer, PutSteps, StoreSteps
    <3> QED
      BY <1>1, <3>1, <3>2, KeyStays
  <2> QED
    BY <2>1, <2>2
<1> QED
  BY <1>1, <1>3, <1>4 DEF EntryInv

\* A step that no handler takes: one comes in, or all of them end.
LEMMA QuietStep ==
  ASSUME EntryInv, contested \subseteq contested', cut \subseteq cut',
         UNCHANGED <<cache, name, todo, resp, hit, answered>>,
         \A d \in Connections :
            \/ pc'[d] = pc[d] /\ req'[d] = req[d]
            \/ pc[d] = "none" /\ pc'[d] = "queued"
            \/ pc'[d] = "cut" /\ req'[d] = req[d] /\ (pc[d] = "write" => StoreKey(d) \in cut')
  PROVE  (\A d \in Connections : HandlerInv(d)') /\ (\A k \in DOMAIN cache' : KeyInv(k)')
<1>1. ASSUME NEW d \in Connections
      PROVE  HandlerInv(d)'
  <2>1. HandlerInv(d)
    BY DEF EntryInv
  <2>2. CASE pc[d] = "none" /\ pc'[d] = "queued"
    BY <2>1, <2>2 DEF HandlerInv, StoredInv, LookInv, PutInv, DropInv, HitInv, PutSteps,
       StoreSteps
  <2>3. CASE req'[d] = req[d] /\ (pc'[d] = pc[d] \/ pc'[d] = "cut")
    <3>1. Key(req'[d]) = Key(req[d]) /\ StoreKey(d)' = StoreKey(d)
      BY <2>3 DEF StoreKey, Forwarded
    <3>2. StoredInv(d)' /\ DropInv(d)' /\ HitInv(d)'
      BY <2>1, <2>3, <3>1 DEF HandlerInv, StoredInv, DropInv, HitInv, PutSteps, StoreSteps
    <3>3. \A k : Files(k)' = Files(k)
      BY DEF Files
    <3>4. LookInv(d)'
      <4>1. PICK k : k = Key(req[d])
        OBVIOUS
      <4> QED
        BY <2>1, <2>3, <3>1, <3>3, <4>1 DEF HandlerInv, LookInv
    <3>5. PutInv(d)'
      <4>1. PICK k : k = StoreKey(d)
        OBVIOUS
      <4> QED
        BY <2>1, <2>3, <3>1, <3>3, <4>1 DEF HandlerInv, PutInv
    <3> QED
      BY <3>2, <3>4, <3>5 DEF HandlerInv
  <2> QED
    BY <2>2, <2>3
<1>2. ASSUME NEW k \in DOMAIN cache'
      PROVE  KeyInv(k)'
  <2>1. k \in DOMAIN cache /\ KeyInv(k)
    BY DEF EntryInv
  <2>2. ASSUME NEW n \in DOMAIN cache'[k]
        PROVE  FileInv(k, n)'
    <3>1. n \in DOMAIN cache[k] /\ FileInv(k, n)
      BY <2>1 DEF KeyInv
    <3>2. ASSUME NEW d \in Connections, Writer(d, k, n)
          PROVE  Writer(d, k, n)' \/ k \in cut'
      BY <3>2 DEF Writer, StoreKey, Forwarded
    <3> QED
      BY <3>1, <3>2 DEF FileInv
  <2>3. Files(k)' = Files(k)
    BY DEF Files
  <2> QED
    BY <2>1, <2>2, <2>3 DEF KeyInv
<1> QED
  BY <1>1, <1>2

\* The process starts, perhaps with an empty cache; nobody is at work on it.
LEMMA EntryConfigure ==
  ASSUME ControlInv, EntryInv, Configure, contested \subseteq contested'
  PROVE  (\A d \in Connections : HandlerInv(d)') /\ (\A k \in DOMAIN cache' : KeyInv(k)')
<1>1. /\ mode = "starting" /\ UNCHANGED <<pc, req, name, todo, resp, hit, answered, cut>>
      /\ cache' = cache \/ cache' = << >>
  BY DEF Configure, Cleared, handler, locals, client, history
<1>2. CASE cache' = cache
  BY <1>1, <1>2, QuietStep
<1>3. CASE cache' = << >>
  <2>1. ASSUME NEW d \in Connections
        PROVE  HandlerInv(d)'
    <3>1. HandlerInv(d) /\ ~Open(d)
      BY <1>1 DEF EntryInv, ControlInv, ModeInv
    <3>2. pc'[d] \notin LookSteps \union PutSteps
      BY <1>1, <3>1 DEF Open, LookSteps, PutSteps, StoreSteps
    <3>3. StoredInv(d)' /\ LookInv(d)' /\ PutInv(d)'
      BY <3>2 DEF StoredInv, LookInv, PutInv, LookSteps, PutSteps, StoreSteps
    <3>4. Key(req'[d]) = Key(req[d]) /\ StoreKey(d)' = StoreKey(d)
      BY <1>1 DEF StoreKey, Forwarded
    <3>5. DropInv(d)' /\ HitInv(d)'
      BY <1>1, <3>1, <3>4 DEF HandlerInv, DropInv, HitInv
    <3> QED
      BY <3>3, <3>5 DEF HandlerInv
  <2> QED
    BY <1>3, <2>1
<1> QED
  BY <1>1, <1>2, <1>3

\* EntryInv is inductive, given the control and the types.
LEMMA EntryStep ==
  ASSUME ControlInv, DataInv, EntryInv, [Next]_vars
  PROVE  EntryInv'
<1>1. CASE UNCHANGED vars
  <2>1. Overlap' = Overlap /\ contested' = contested
    BY <1>1 DEF vars, handler, Overlap, Uses, StoreKey, Forwarded
  <2>2. UNCHANGED <<cache, name, todo, resp, hit, answered, cut, pc, req>>
    BY <1>1 DEF vars, handler, locals, client, history
  <2> QED
    BY <2>1, <2>2, QuietStep DEF EntryInv, OverlapInv
<1>2. CASE Next
  <2>1. OverlapInv' /\ contested \subseteq contested'
    BY <1>2 DEF OverlapInv, Next
  <2>2. CASE Configure
    BY <2>1, <2>2, EntryConfigure DEF EntryInv
  <2>3. CASE ClientConnects
    <3>1. /\ UNCHANGED <<cache, name, todo, resp, hit, answered, cut>>
          /\ pc' = [pc EXCEPT ![opened'] = "queued"]
      BY <2>3 DEF ClientConnects, locals, history
    <3>2. /\ opened' \in Connections /\ pc[opened'] = "none" /\ DOMAIN pc = Connections
          /\ \A d \in Connections \ {opened'} : req'[d] = req[d]
      BY <2>3, ClientConnectsControl DEF ControlInv, ControlType
    <3>3. \A d \in Connections : \/ pc'[d] = pc[d] /\ req'[d] = req[d]
                                 \/ pc[d] = "none" /\ pc'[d] = "queued"
      BY <3>1, <3>2
    <3> QED
      BY <2>1, <3>1, <3>3, QuietStep DEF EntryInv
  <2>4. CASE Tick
    <3>1. UNCHANGED <<cache, name, todo, resp, hit, answered, cut, pc, req>>
      BY <2>4 DEF Tick, handler, locals, client, history
    <3> QED
      BY <2>1, <3>1, QuietStep DEF EntryInv
  <2>5. CASE Kill
    <3>1. /\ UNCHANGED <<cache, name, todo, resp, hit, answered, req>>
          /\ pc' = [c \in Connections |-> IF Open(c) THEN "cut" ELSE pc[c]]
          /\ cut' = cut \union
                {Key(Forwarded(c)) : c \in {d \in Connections : pc[d] \in StoreSteps}}
      BY <2>5 DEF Kill, locals, client
    <3>2. ASSUME NEW d \in Connections
          PROVE  \/ pc'[d] = pc[d] /\ req'[d] = req[d]
                 \/ pc'[d] = "cut" /\ req'[d] = req[d] /\ (pc[d] = "write" => StoreKey(d) \in cut')
      <4>1. pc'[d] = pc[d] \/ pc'[d] = "cut"
        BY <3>1
      <4>2. pc[d] = "write" => StoreKey(d) \in cut'
        BY <3>1 DEF StoreKey, StoreSteps
      <4> QED
        BY <3>1, <4>1, <4>2
    <3> QED
      BY <2>1, <3>1, <3>2, QuietStep DEF EntryInv
  <2>6. ASSUME NEW c \in Connections, Thunk(c)
        PROVE  EntryInv'
    BY <1>2, <2>6, EntryThunk DEF Next
  <2> QED
    BY <1>2, <2>2, <2>3, <2>4, <2>5, <2>6 DEF Next, Step
<1> QED
  BY <1>1, <1>2

\* The cache is empty and nobody is at work on it at first.
LEMMA EntryInit == Init => EntryInv
<1> SUFFICES ASSUME Init PROVE EntryInv
  OBVIOUS
<1>1. \A c \in Connections : pc[c] = "none" /\ hit[c] = <<>>
  BY DEF Init
<1>2. \A c \in Connections : Uses(c) = {}
  BY <1>1 DEF Uses, StoreSteps
<1>3. OverlapInv
  BY <1>2 DEF OverlapInv, Overlap
<1>4. \A c \in Connections : HandlerInv(c)
  BY <1>1 DEF HandlerInv, StoredInv, LookInv, PutInv, DropInv, HitInv, PutSteps, StoreSteps
<1>5. DOMAIN cache = {}
  BY DEF Init
<1> QED
  BY <1>3, <1>4, <1>5 DEF EntryInv

\* All of it.
ProxyInv == ControlInv /\ DataInv /\ (\A c \in Connections : ReplyInv(c)) /\ EntryInv

\* The inductive invariant of the proxy.
THEOREM ProxyInvariant == Spec => []ProxyInv
<1>1. Init => ProxyInv
  BY ControlInit, ReplyInit, EntryInit DEF ProxyInv
<1>2. ProxyInv /\ [Next]_vars => ProxyInv'
  BY ControlStep, ReplyStep, EntryStep DEF ProxyInv
<1> QED
  BY <1>1, <1>2, PTL DEF Spec

\* A client gets out of the cache only what was answered to its own request, or, on
\* a directory two handlers met on or a killed one left, nothing.
THEOREM HitsCorrect == Spec => []HitsAreOwn
<1>1. ProxyInv => HitsAreOwn
  BY DEF ProxyInv, EntryInv, HandlerInv, HitInv, HitsAreOwn
<1> QED
  BY <1>1, ProxyInvariant, PTL

\* A handler that is alone on a directory leaves no two files in it, and no exception
\* of the file system ends it.
THEOREM AloneCorrect == Spec => []AloneMeansSafe
<1>1. ProxyInv => AloneMeansSafe
  <2> SUFFICES ASSUME ProxyInv PROVE AloneMeansSafe
    OBVIOUS
  <2>1. ASSUME NEW k \in DOMAIN cache \ contested
        PROVE  Cardinality(Files(k)) <= 1
    <3>1. \A m, n \in Files(k) : m = n
      BY DEF ProxyInv, EntryInv, KeyInv
    <3>2. CASE Files(k) = {}
      BY <3>2, FS_EmptySet
    <3>3. CASE Files(k) # {}
      <4>1. PICK n : Files(k) = {n}
        BY <3>1, <3>3
      <4>2. Cardinality({n}) = 1
        BY FS_Singleton
      <4> QED
        BY <4>1, <4>2
    <3> QED
      BY <3>2, <3>3
  <2>2. \A c \in Connections : DropInv(c)
    BY DEF ProxyInv, EntryInv, HandlerInv
  <2> QED
    BY <2>1, <2>2 DEF AloneMeansSafe, DropInv
<1> QED
  BY <1>1, ProxyInvariant, PTL

\* An entry that is found valid is no older than the server and this process allow.
THEOREM FreshCorrect == Spec => HitsAreFresh
<1> DEFINE Fresh ==
      \A c \in Connections : pc[c] = "name" /\ pc'[c] = "open" =>
        LET n == name'[c]
            body == cache[Key(req[c])][n]
        IN  /\ maxAge > 0 => now - n.created <= maxAge
            /\ body # Empty => now - n.created <= body.age
<1>1. ProxyInv /\ [Next]_vars => [Fresh]_vars
  <2> SUFFICES ASSUME ProxyInv, Next, NEW c \in Connections, pc[c] = "name", pc'[c] = "open"
               PROVE  LET n == name'[c]
                          body == cache[Key(req[c])][n]
                      IN  /\ maxAge > 0 => now - n.created <= maxAge
                          /\ body # Empty => now - n.created <= body.age
    OBVIOUS
  <2>1. ControlInv /\ DataInv /\ EntryInv /\ ControlType
    BY DEF ProxyInv, ControlInv
  <2>2. Thunk(c)
    <3>1. ~Configure /\ ~Tick
      BY DEF Configure, Tick, handler
    <3>2. ~Kill
      BY <2>1 DEF Kill, Open
    <3>3. ~ClientConnects
      BY <2>1 DEF ClientConnects, ControlType
    <3>4. PICK d \in Connections : Thunk(d)
      BY <3>1, <3>2, <3>3 DEF Next, Step
    <3> QED
      BY <2>1, <3>4, OthersStay
  <2>3. FindName(c)
    <3>1. ~Ingest(c)
      BY <2>1 DEF Ingest, ControlType
    <3>2. ~(\/ PayloadThrows(c) \/ BadRequest(c) \/ Enter(c) \/ Lookup(c) \/ ScanEntry(c)
            \/ RemoveExpired(c) \/ RemoveDirectory(c) \/ OpenEntry(c))
      BY DEF PayloadThrows, BadRequest, Enter, Lookup, ScanEntry, RemoveExpired, RemoveDirectory,
             OpenEntry, At, Goto
    <3>3. ~(\/ CannotConnect(c) \/ ConnectToSelf(c) \/ GetResponse(c) \/ Timeout(c)
            \/ SideEnds(c) \/ OpenTunnel(c) \/ ConnectToServer(c))
      BY DEF CannotConnect, ConnectToSelf, GetResponse, Timeout, SideEnds, OpenTunnel,
             ConnectToServer, At, Goto
    <3>4. ~(\/ Stat(c) \/ MakeDirectory(c) \/ ListEntries(c) \/ ClearEntry(c) \/ CreateEntry(c)
            \/ WriteEntry(c))
      BY DEF Stat, MakeDirectory, ListEntries, ClearEntry, CreateEntry, WriteEntry, At, Goto
    <3> QED
      BY <2>2, <3>1, <3>2, <3>3, <3>4 DEF Thunk
  <2>4. PICK n \in Files(Key(req[c])) : CachedEntryIsValid(n) /\ name'[c] = n
    BY <2>1, <2>3 DEF FindName, Goto, ControlType, DataInv
  <2>5. PICK k : k = Key(req[c])
    OBVIOUS
  <2>6. k \in DOMAIN cache /\ n \in DOMAIN cache[k]
    BY <2>4, <2>5 DEF Files
  <2>7. /\ n.created \in Int /\ n.expires \in Int /\ cache[k][n].age \in Int
        /\ now \in Int /\ maxAge \in Int
    BY <2>1, <2>6, BodyFacts DEF DataInv, CacheType, ControlType
  <2>8. cache[k][n] # Empty => n.expires <= n.created + cache[k][n].age
    BY <2>1, <2>6 DEF EntryInv, KeyInv, FileInv
  <2>9. /\ maxAge > 0 => now <= n.created + maxAge
        /\ now <= n.expires
    BY <2>4, <2>7 DEF CachedEntryIsValid, Least
  <2> QED
    BY <2>4, <2>5, <2>7, <2>8, <2>9
<1> QED
  BY <1>1, ProxyInvariant, PTL DEF Spec, HitsAreFresh
-----------------------------------------------------------------------------
(* Requests that the proxy sends to itself                                 *)

\* Where a request is after it was sent on.
SentSteps == {"await", "stat", "mkdir", "closed", "dropped", "unread", "cut"} \union StoreSteps

\* Only what is not seen to have been here is handled and sent on.
LinkInv(c) ==
    /\ child[c] # None =>
          pc[c] \in SentSteps /\ child[c] \in 1..opened /\ ~ContainsProxyLoop(req[c])
    /\ pc[c] \in HoldSteps => ~ContainsProxyLoop(req[c])

\* A request that came in before another of its chain: it was sent on, and its
\* address stands among those of the other, last if the other is what it was
\* sent on as.
Before(p, w) ==
    /\ child[p] # None
    /\ req[w].ip = ProxyAddress \/ w \in misread
    /\ \E k \in 1..Len(req[w].via) :
          req[w].via[k] = req[p].ip /\ (k < Len(req[w].via) \/ child[p] = w)

\* No request leads back to itself.
ExitInv == \A S \in SUBSET Connections : S # {} => \E c \in S : child[c] \notin S

\* Two requests of a chain: one came before the other.
BeforeInv ==
    \A S \in SUBSET Connections :
        IsChain(S) => \A c, d \in S : c # d => Before(c, d) \/ Before(d, c)

ChainInv ==
    /\ misread \subseteq Connections
    /\ \A c \in Connections : LinkInv(c)
    /\ ExitInv /\ BeforeInv

\* What a thunk does to the request it has sent on: nothing.
LEMMA ThunkLinks ==
  ASSUME ControlType, NEW c \in Connections, Thunk(c), ~Ingest(c), ~ConnectToSelf(c)
  PROVE  /\ UNCHANGED <<child, opened, req, misread>>
         /\ pc'[c] \in HoldSteps => pc[c] \in HoldSteps \/ Verdict(req[c]) = 0
         /\ pc[c] \in SentSteps => pc'[c] \in SentSteps
<1> USE DEF process, thunks, handler, locals, client, history, At, Goto, HoldSteps, SentSteps,
            StoreSteps, ControlType
<1>1. CASE \/ PayloadThrows(c) \/ BadRequest(c) \/ CannotConnect(c) \/ Timeout(c)
           \/ WriteEntry(c)
  BY <1>1 DEF PayloadThrows, BadRequest, CannotConnect, Timeout, WriteEntry, Respond, End
<1>2. CASE Enter(c)
  BY <1>2 DEF Enter, Respond, End
<1>3. CASE Lookup(c) \/ FindName(c) \/ OpenTunnel(c) \/ ConnectToServer(c) \/ Stat(c)
  BY <1>3 DEF Lookup, FindName, OpenTunnel, ConnectToServer, Stat
<1>4. CASE ScanEntry(c) \/ RemoveExpired(c) \/ RemoveDirectory(c) \/ OpenEntry(c)
  BY <1>4 DEF ScanEntry, RemoveExpired, RemoveDirectory, OpenEntry, Respond, Drop, End
<1>5. CASE GetResponse(c)
  BY <1>5 DEF GetResponse, Respond, End
<1>6. CASE SideEnds(c)
  BY <1>6 DEF SideEnds, Respond, End
<1>7. CASE MakeDirectory(c) \/ ListEntries(c)
  BY <1>7 DEF MakeDirectory, ListEntries, Drop, End
<1>8. CASE ClearEntry(c) \/ CreateEntry(c)
  BY <1>8 DEF ClearEntry, CreateEntry, Drop, End
<1> QED
  BY <1>1, <1>2, <1>3, <1>4, <1>5, <1>6, <1>7, <1>8 DEF Thunk

\* No step but a connection to the proxy itself changes a chain.
LEMMA ChainsStay ==
  ASSUME ExitInv, BeforeInv, UNCHANGED child, misread \subseteq misread',
         \A c \in Connections :
            /\ req'[c].via = req[c].via
            /\ child[c] # None => req'[c].ip = req[c].ip
            /\ req'[c].ip = req[c].ip \/ c \in misread'
  PROVE  ExitInv' /\ BeforeInv'
<1>1. ExitInv'
  BY DEF ExitInv
<1>2. ASSUME NEW p \in Connections, NEW w \in Connections, Before(p, w)
      PROVE  Before(p, w)'
  BY <1>2 DEF Before
<1>3. ASSUME NEW S \in SUBSET Connections, IsChain(S)', NEW c \in S, NEW d \in S, c # d
      PROVE  Before(c, d)' \/ Before(d, c)'
  <2>1. IsChain(S)
    BY <1>3 DEF IsChain
  <2>2. Before(c, d) \/ Before(d, c)
    BY <1>3, <2>1 DEF BeforeInv
  <2> QED
    BY <1>2, <1>3, <2>2
<1> QED
  BY <1>1, <1>3 DEF BeforeInv

\* The steps that accept no connection.
LEMMA ChainQuiet ==
  ASSUME ChainInv, UNCHANGED <<child, opened, req, misread>>,
         \A c \in Connections :
            /\ pc'[c] \in HoldSteps => pc[c] \in HoldSteps \/ Verdict(req[c]) = 0
            /\ pc[c] \in SentSteps => pc'[c] \in SentSteps
  PROVE  ChainInv'
<1>1. ExitInv' /\ BeforeInv'
  BY ChainsStay DEF ChainInv
<1>2. ASSUME NEW c \in Connections
      PROVE  LinkInv(c)'
  <2>1. LinkInv(c)
    BY DEF ChainInv
  <2>2. Verdict(req[c]) = 0 => ~ContainsProxyLoop(req[c])
    BY DEF Verdict
  <2>3. ContainsProxyLoop(req[c])' <=> ContainsProxyLoop(req[c])
    BY DEF ContainsProxyLoop
  <2> QED
    BY <2>1, <2>2, <2>3 DEF LinkInv
<1> QED
  BY <1>1, <1>2 DEF ChainInv

\* A thunk starts: its request is of no use to another yet.
LEMMA ChainIngest ==
  ASSUME ControlInv, ChainInv, NEW c \in Connections, Ingest(c)
  PROVE  ChainInv'
<1>1. ControlType /\ PoolInv
  BY DEF ControlInv
<1>2. pc[c] = "queued" /\ pc' = [pc EXCEPT ![c] = "ingest"]
  BY <1>1 DEF Ingest, PoolInv, ControlType
<1>3. UNCHANGED <<child, opened>>
  BY DEF Ingest, client
<1>4. child[c] = None
  BY <1>2 DEF ChainInv, LinkInv, SentSteps, StoreSteps
<1>5. /\ misread \subseteq misread' /\ misread' \subseteq misread \union {c}
      /\ \A d \in Connections :
            /\ req'[d].via = req[d].via /\ (d # c => req'[d] = req[d])
            /\ req'[d].ip = req[d].ip \/ d \in misread'
  <2>1. CASE UNCHANGED <<req, misread>>
    BY <2>1
  <2>2. CASE req' = [req EXCEPT ![c].ip = Garbage] /\ misread' = misread \union {c}
    <3>1. req \in [Connections -> Requests] /\ req[c] \in Requests
      BY <1>1 DEF ControlType
    <3>2. req'[c].via = req[c].via
      BY <2>2, <3>1 DEF Requests
    <3> QED
      BY <2>2, <3>1, <3>2
  <2> QED
    BY <2>1, <2>2 DEF Ingest
<1>6. ExitInv' /\ BeforeInv'
  BY <1>3, <1>4, <1>5, ChainsStay DEF ChainInv
<1>7. ASSUME NEW d \in Connections
      PROVE  LinkInv(d)'
  <2>1. CASE d = c
    BY <1>1, <1>2, <1>3, <1>4, <2>1 DEF LinkInv, HoldSteps, ControlType
  <2>2. CASE d # c
    <3>1. pc'[d] = pc[d] /\ req'[d] = req[d] /\ LinkInv(d)
      BY <1>1, <1>2, <1>5, <2>2 DEF ChainInv, ControlType
    <3> QED
      BY <1>3, <3>1 DEF LinkInv, ContainsProxyLoop
  <2> QED
    BY <2>1, <2>2
<1> QED
  BY <1>5, <1>6, <1>7 DEF ChainInv

\* A client's connection is in no chain with another.
LEMMA ChainClient ==
  ASSUME ControlInv, ChainInv, ClientConnects
  PROVE  ChainInv'
<1>1. ControlType
  BY DEF ControlInv
<1>2. PICK n \in Connections : n = opened'
  BY ClientConnectsControl
<1>3. /\ UNCHANGED <<child, misread>> /\ opened' = opened + 1 /\ opened \in Nat
      /\ pc[n] = "none" /\ pc'[n] = "queued"
      /\ \A d \in Connections \ {n} : req'[d] = req[d] /\ pc'[d] = pc[d]
  <2>1. /\ UNCHANGED <<child, misread>> /\ opened' = opened + 1 /\ opened \in Nat
        /\ pc' = [pc EXCEPT ![n] = "queued"]
    BY <1>1, <1>2 DEF ClientConnects, Accept, history, ControlType
  <2>2. pc[n] = "none" /\ \A d \in Connections \ {n} : req'[d] = req[d]
    BY <1>2, ClientConnectsControl
  <2> QED
    BY <1>1, <2>1, <2>2 DEF ControlType
<1>4. child[n] = None /\ \A d \in Connections : child[d] # n
  <2>1. child[n] = None
    BY <1>3 DEF ChainInv, LinkInv, SentSteps, StoreSteps
  <2>2. n \notin 1..opened /\ n # None
    BY <1>2, <1>3 DEF None, Connections
  <2> QED
    BY <1>1, <2>1, <2>2 DEF ChainInv, LinkInv, ControlType
<1>5. ExitInv'
  BY <1>3 DEF ChainInv, ExitInv
<1>6. ASSUME NEW S \in SUBSET Connections, IsChain(S)', NEW p \in S, NEW w \in S, p # w
      PROVE  Before(p, w)' \/ Before(w, p)'
  <2>1. IsChain(S)
    BY <1>3, <1>6 DEF IsChain
  <2>2. n \notin S
    <3> SUFFICES ASSUME n \in S PROVE FALSE
      OBVIOUS
    <3>1. None \notin S
      BY DEF None, Connections
    <3>2. \A d \in S \ {n} : child[d] \in S \ {n}
      BY <1>4, <2>1, <3>1 DEF IsChain
    <3>3. S \ {n} # {}
      BY <1>6
    <3> QED
      BY <3>2, <3>3 DEF ChainInv, ExitInv
  <2>3. Before(p, w) \/ Before(w, p)
    BY <1>6, <2>1 DEF ChainInv, BeforeInv
  <2>4. req'[p] = req[p] /\ req'[w] = req[w]
    BY <1>3, <1>6, <2>2
  <2> QED
    BY <1>3, <2>3, <2>4 DEF Before
<1>7. ASSUME NEW d \in Connections
      PROVE  LinkInv(d)'
  <2>1. CASE d = n
    BY <1>3, <1>4, <2>1 DEF LinkInv, HoldSteps
  <2>2. CASE d # n
    BY <1>3, <2>2 DEF ChainInv, LinkInv, ContainsProxyLoop
  <2> QED
    BY <2>1, <2>2
<1> QED
  BY <1>3, <1>5, <1>6, <1>7 DEF ChainInv, BeforeInv

\* A request that is sent on is the last of its chains, and what it is sent on as
\* comes after all of them.
LEMMA ChainExtends ==
  ASSUME ControlInv, ChainInv, NEW c \in Connections, ConnectToSelf(c)
  PROVE  ChainInv'
<1>1. ControlType
  BY DEF ControlInv
<1>2. PICK n \in Connections : n = opened'
  BY ConnectToSelfControl
<1>3. /\ UNCHANGED misread /\ opened' = opened + 1 /\ opened \in Nat
      /\ pc[n] = "none" /\ pc[c] = "connect" /\ c # n
      /\ pc'[n] = "queued" /\ pc'[c] = "await"
      /\ \A d \in Connections \ {n, c} : pc'[d] = pc[d] /\ child'[d] = child[d]
      /\ child'[c] = n /\ child'[n] = child[n]
      /\ \A d \in Connections \ {n} : req'[d] = req[d]
  <2>1. /\ UNCHANGED misread /\ opened' = opened + 1 /\ opened \in Nat /\ pc[c] = "connect"
        /\ pc' = [pc EXCEPT ![c] = "await", ![n] = "queued"]
        /\ child' = [child EXCEPT ![c] = n]
    BY <1>1, <1>2 DEF ConnectToSelf, At, Accept, history, ControlType
  <2>2. pc[n] = "none" /\ \A d \in Connections \ {n} : req'[d] = req[d]
    BY <1>2, ConnectToSelfControl
  <2>3. c # n
    BY <2>1, <2>2
  <2> QED
    BY <1>1, <2>1, <2>2, <2>3 DEF ControlType
<1>4. /\ child[n] = None /\ child[c] = None /\ None \notin Connections
      /\ \A d \in Connections : child[d] # n
  <2>1. child[n] = None /\ child[c] = None
    BY <1>3 DEF ChainInv, LinkInv, SentSteps, StoreSteps
  <2>2. n \notin 1..opened /\ n # None /\ None \notin Connections
    BY <1>2, <1>3 DEF None, Connections
  <2> QED
    BY <1>1, <2>1, <2>2 DEF ChainInv, LinkInv, ControlType
<1>5. req'[n].ip = ProxyAddress /\ req'[n].via = Append(req[c].via, req[c].ip)
  <2>1. req[c] \in Requests /\ req \in [Connections -> Requests]
    BY <1>1 DEF ControlType
  <2>2. Forwarded(c).via = Append(req[c].via, req[c].ip)
    BY <2>1 DEF Forwarded, AddHeaders, Requests
  <2>3. OnWire(c).via = Forwarded(c).via
    BY DEF OnWire, Text
  <2>4. req'[n] = Received(OnWire(c), ProxyAddress)
    BY <1>2, <2>1 DEF ConnectToSelf, Accept
  <2> QED
    BY <2>2, <2>3, <2>4 DEF Received
<1>6. ExitInv'
  <2> SUFFICES ASSUME NEW S \in SUBSET Connections, S # {}, \A d \in S : child'[d] \in S
               PROVE  FALSE
    BY DEF ExitInv
  <2>1. n \notin S
    BY <1>3, <1>4
  <2>2. c \notin S
    BY <1>3, <2>1
  <2> QED
    BY <1>3, <2>1, <2>2 DEF ChainInv, ExitInv
<1>7. ASSUME NEW p \in Connections, NEW w \in Connections, Before(p, w), w # n
      PROVE  Before(p, w)'
  <2>1. p # n /\ p # c
    BY <1>4, <1>7 DEF Before
  <2> QED
    BY <1>3, <1>7, <2>1 DEF Before
<1>8. ASSUME NEW S \in SUBSET Connections, n \in S, IsChain(S)', NEW p \in S, p # n
      PROVE  Before(p, n)'
  <2>1. CASE p = c
    <3>1. /\ Len(req'[n].via) = Len(req[c].via) + 1 /\ Len(req[c].via) \in Nat
          /\ req'[n].via[Len(req[c].via) + 1] = req[c].ip
      BY <1>1, <1>5, <1>8 DEF ControlType, Requests
    <3> QED
      BY <1>3, <1>4, <1>5, <2>1, <3>1 DEF Before
  <2>2. CASE p # c
    <3>1. \A d \in S \ {n, c} : child[d] \in S \ {n}
      BY <1>3, <1>4, <1>8 DEF IsChain
    <3>2. PICK T \in SUBSET Connections : T = (S \ {n}) \union {c}
      OBVIOUS
    <3>3. IsChain(T)
      BY <3>1, <3>2 DEF IsChain
    <3>4. p \in T /\ c \in T
      BY <1>8, <3>2
    <3>5. Before(p, c)
      BY <1>4, <2>2, <3>3, <3>4 DEF ChainInv, BeforeInv, Before
    <3>6. PICK k \in 1..Len(req[c].via) : req[c].via[k] = req[p].ip
      BY <3>5 DEF Before
    <3>7. /\ k \in 1..Len(req'[n].via) /\ k < Len(req'[n].via)
          /\ req'[n].via[k] = req[p].ip
      BY <1>1, <1>5, <3>6 DEF ControlType, Requests
    <3>8. child'[p] # None /\ req'[p].ip = req[p].ip
      BY <1>3, <1>8, <2>2, <3>5 DEF Before
    <3> QED
      BY <1>5, <3>7, <3>8 DEF Before
  <2> QED
    BY <2>1, <2>2
<1>9. ASSUME NEW S \in SUBSET Connections, IsChain(S)', NEW p \in S, NEW w \in S, p # w
      PROVE  Before(p, w)' \/ Before(w, p)'
  <2>1. CASE n \in S /\ (p = n \/ w = n)
    BY <1>8, <1>9, <2>1
  <2>2. CASE n \in S /\ p # n /\ w # n
    <3>1. \A d \in S \ {n, c} : child[d] \in S \ {n}
      BY <1>3, <1>4, <1>9, <2>2 DEF IsChain
    <3>2. PICK T \in SUBSET Connections : T = (S \ {n}) \union {c}
      OBVIOUS
    <3>3. IsChain(T)
      BY <3>1, <3>2 DEF IsChain
    <3>4. Before(p, w) \/ Before(w, p)
      BY <1>9, <2>2, <3>2, <3>3 DEF ChainInv, BeforeInv
    <3> QED
      BY <1>7, <1>9, <2>2, <3>4
  <2>3. CASE n \notin S
    <3>1. IsChain(S)
      BY <1>3, <1>4, <1>9, <2>3 DEF IsChain
    <3>2. Before(p, w) \/ Before(w, p)
      BY <1>9, <3>1 DEF ChainInv, BeforeInv
    <3> QED
      BY <1>7, <1>9, <2>3, <3>2
  <2> QED
    BY <2>1, <2>2, <2>3
<1>10. ASSUME NEW d \in Connections
       PROVE  LinkInv(d)'
  <2>1. CASE d = n
    BY <1>3, <1>4, <2>1 DEF LinkInv, HoldSteps
  <2>2. CASE d = c
    <3>1. ~ContainsProxyLoop(req[c])
      BY <1>3 DEF ChainInv, LinkInv, HoldSteps, Steps
    <3>2. child'[c] \in 1..opened'
      BY <1>2, <1>3
    <3>3. pc'[c] \in SentSteps
      BY <1>3 DEF SentSteps
    <3>4. ~ContainsProxyLoop(req[c])'
      BY <1>3, <3>1 DEF ContainsProxyLoop
    <3> QED
      BY <2>2, <3>2, <3>3, <3>4 DEF LinkInv
  <2>3. CASE d # n /\ d # c
    BY <1>3, <2>3 DEF ChainInv, LinkInv, ContainsProxyLoop
  <2> QED
    BY <2>1, <2>2, <2>3
<1> QED
  BY <1>3, <1>6, <1>9, <1>10 DEF ChainInv, BeforeInv

\* The chains stay as they are said to be, whatever happens.
LEMMA ChainStep ==
  ASSUME ControlInv, ChainInv, [Next]_vars
  PROVE  ChainInv'
<1>1. ControlType
  BY DEF ControlInv
<1>2. CASE Configure \/ Tick
  BY <1>2, ChainQuiet DEF Configure, Tick, handler, client, history
<1>3. CASE ClientConnects
  BY <1>3, ChainClient
<1>4. CASE Kill
  <2>1. UNCHANGED <<child, opened, req, misread>>
    BY <1>4 DEF Kill, client
  <2>2. \A c \in Connections : pc'[c] = IF Open(c) THEN "cut" ELSE pc[c]
    BY <1>4 DEF Kill
  <2>3. \A c \in Connections :
            /\ pc'[c] \in HoldSteps => pc[c] \in HoldSteps \/ Verdict(req[c]) = 0
            /\ pc[c] \in SentSteps => pc'[c] \in SentSteps
    BY <2>2 DEF HoldSteps, SentSteps
  <2> QED
    BY <2>1, <2>3, ChainQuiet
<1>5. ASSUME NEW c \in Connections, Thunk(c)
      PROVE  ChainInv'
  <2>1. CASE Ingest(c)
    BY <2>1, ChainIngest
  <2>2. CASE ConnectToSelf(c)
    BY <2>2, ChainExtends
  <2>3. CASE ~Ingest(c) /\ ~ConnectToSelf(c)
    <3>1. /\ UNCHANGED <<child, opened, req, misread>>
          /\ pc'[c] \in HoldSteps => pc[c] \in HoldSteps \/ Verdict(req[c]) = 0
          /\ pc[c] \in SentSteps => pc'[c] \in SentSteps
      BY <1>1, <1>5, <2>3, ThunkLinks
    <3>2. ASSUME NEW d \in Connections, d # c
          PROVE  \/ pc'[d] = pc[d]
                 \/ pc[d] = "none" /\ pc'[d] = "queued"
      BY <1>5, <3>2, OthersStay
    <3>3. \A d \in Connections :
            /\ pc'[d] \in HoldSteps => pc[d] \in HoldSteps \/ Verdict(req[d]) = 0
            /\ pc[d] \in SentSteps => pc'[d] \in SentSteps
      BY <3>1, <3>2 DEF HoldSteps, SentSteps, StoreSteps
    <3> QED
      BY <3>1, <3>3, ChainQuiet
  <2> QED
    BY <2>1, <2>2, <2>3
<1>6. CASE UNCHANGED vars
  BY <1>6, ChainQuiet DEF vars, handler, client, history
<1> QED
  BY <1>2, <1>3, <1>4, <1>5, <1>6 DEF Next, Step

\* Nothing was sent on at first.
LEMMA ChainInit == Init => ChainInv
<1> SUFFICES ASSUME Init PROVE ChainInv
  OBVIOUS
<1>1. \A c \in Connections : child[c] = None /\ pc[c] = "none"
  BY DEF Init
<1>2. None \notin Connections /\ misread = {}
  BY DEF Init, None, Connections
<1>3. ExitInv /\ BeforeInv
  BY <1>1, <1>2 DEF ExitInv, BeforeInv, IsChain
<1>4. \A c \in Connections : LinkInv(c)
  BY <1>1 DEF LinkInv, HoldSteps
<1> QED
  BY <1>2, <1>3, <1>4 DEF ChainInv

\* Of three requests of a chain that were read properly, came from the proxy and
\* were sent on, two are the same: one of two is what the other was sent on as,
\* and three cannot be so in a circle.
LEMMA TwoPasses ==
  ASSUME ChainInv, NEW S \in SUBSET Connections, IsChain(S),
         NEW F, F = {c \in S \ misread : req[c].ip = ProxyAddress /\ child[c] # None},
         NEW x \in F, NEW y \in F, NEW z \in F, x # y, y # z, x # z
  PROVE  FALSE
<1>1. ASSUME NEW p \in F, NEW w \in F, p # w
      PROVE  child[p] = w \/ child[w] = p
  <2>1. ASSUME NEW a \in F, NEW b \in F, Before(a, b)
        PROVE  child[a] = b
    <3>1. ~ContainsProxyLoop(req[b]) /\ req[b].ip = ProxyAddress /\ req[a].ip = ProxyAddress
      BY DEF ChainInv, LinkInv
    <3>2. PICK k \in 1..Len(req[b].via) :
            req[b].via[k] = ProxyAddress /\ (k < Len(req[b].via) \/ child[a] = b)
      BY <2>1, <3>1 DEF Before
    <3>3. CASE k < Len(req[b].via)
      <4>1. k \in 1..Len(req[b].via) - 1
        BY <3>3
      <4> QED
        BY <3>1, <3>2, <4>1 DEF ContainsProxyLoop
    <3> QED
      BY <3>2, <3>3
  <2>2. Before(p, w) \/ Before(w, p)
    BY <1>1 DEF ChainInv, BeforeInv
  <2> QED
    BY <2>1, <2>2
<1>2. \E c \in {x, y, z} : child[c] \notin {x, y, z}
  BY DEF ChainInv, ExitInv
<1> QED
  BY <1>1, <1>2

\* At most two requests of a chain were read properly and are not like that: the
\* first, which came from a client, and the last, which was not sent on.
LEMMA TwoEnds ==
  ASSUME ChainInv, NEW S \in SUBSET Connections, IsChain(S),
         NEW E, E = {c \in S \ misread : ~(req[c].ip = ProxyAddress /\ child[c] # None)},
         NEW x \in E, NEW y \in E, NEW z \in E, x # y, y # z, x # z
  PROVE  FALSE
<1>1. /\ Before(x, y) \/ Before(y, x)
      /\ Before(y, z) \/ Before(z, y)
      /\ Before(x, z) \/ Before(z, x)
  BY DEF ChainInv, BeforeInv
<1>2. \A p, w \in E : Before(p, w) => child[p] # None /\ req[w].ip = ProxyAddress
  BY DEF Before
<1> QED
  BY <1>1, <1>2

\* A set without three different members has at most two.
LEMMA AtMostTwo ==
  ASSUME NEW F, \A x, y, z \in F : x = y \/ y = z \/ x = z
  PROVE  IsFiniteSet(F) /\ Cardinality(F) <= 2
<1>1. \E x, y : F \subseteq {x, y}
  <2>1. CASE F = {}
    BY <2>1
  <2>2. CASE F # {}
    <3>1. PICK x \in F : TRUE
      BY <2>2
    <3>2. CASE F \subseteq {x}
      BY <3>2
    <3>3. CASE ~(F \subseteq {x})
      <4>1. PICK y \in F : y # x
        BY <3>3
      <4>2. F \subseteq {x, y}
        BY <4>1
      <4> QED
        BY <4>2
    <3> QED
      BY <3>2, <3>3
  <2> QED
    BY <2>1, <2>2
<1>2. PICK x, y : F \subseteq {x, y}
  BY <1>1
<1>3. IsFiniteSet({x, y}) /\ Cardinality({x, y}) <= 2
  <2>1. IsFiniteSet({x}) /\ Cardinality({x}) = 1
    BY FS_Singleton
  <2>2. {x, y} = {x} \union {y}
    OBVIOUS
  <2> QED
    BY <2>1, <2>2, FS_AddElement
<1>4. Cardinality(F) \in Nat /\ Cardinality({x, y}) \in Nat /\ Cardinality(F) <= Cardinality({x, y})
  BY <1>2, <1>3, FS_Subset, FS_CardinalityType
<1> QED
  BY <1>2, <1>3, <1>4, FS_Subset

\* Together, two sets have at most as many members as the numbers of both add up to.
LEMMA FewTogether ==
  ASSUME NEW F, NEW E, IsFiniteSet(F), IsFiniteSet(E)
  PROVE  /\ IsFiniteSet(E \union F) /\ Cardinality(E \union F) \in Nat
         /\ Cardinality(E \union F) <= Cardinality(E) + Cardinality(F)
<1>1. /\ IsFiniteSet(E \union F)
      /\ Cardinality(E \union F) = Cardinality(E) + Cardinality(F) - Cardinality(E \cap F)
  BY FS_Union
<1>2. IsFiniteSet(E \cap F)
  BY FS_Intersection
<1>3. /\ Cardinality(E \cap F) \in Nat /\ Cardinality(E) \in Nat /\ Cardinality(F) \in Nat
      /\ Cardinality(E \union F) \in Nat
  BY <1>1, <1>2, FS_CardinalityType
<1> QED
  BY <1>1, <1>3

\* A request that leads to the proxy itself is refused at last, however the
\* proxy was asked, whatever its servers answer and whenever it is restarted.
THEOREM LoopsCorrect == Spec => []LoopsAreCut
<1>1. ChainInv => LoopsAreCut
  <2> SUFFICES ASSUME ChainInv, NEW S \in SUBSET Connections, IsChain(S)
               PROVE  Cardinality(S) <= 4 + Cardinality(misread)
    BY DEF LoopsAreCut
  <2>1. PICK F : F = {c \in S \ misread : req[c].ip = ProxyAddress /\ child[c] # None}
    OBVIOUS
  <2>2. PICK E : E = {c \in S \ misread : ~(req[c].ip = ProxyAddress /\ child[c] # None)}
    OBVIOUS
  <2>3. IsFiniteSet(F) /\ Cardinality(F) <= 2 /\ Cardinality(F) \in Nat
    BY <2>1, TwoPasses, AtMostTwo, FS_CardinalityType
  <2>4. IsFiniteSet(E) /\ Cardinality(E) <= 2 /\ Cardinality(E) \in Nat
    BY <2>2, TwoEnds, AtMostTwo, FS_CardinalityType
  <2>5. IsFiniteSet(misread) /\ Cardinality(misread) \in Nat
    <3>1. MaxConnections \in Int
      BY ProxyAssumption
    <3>2. IsFiniteSet(Connections)
      BY <3>1, FS_Interval DEF Connections
    <3> QED
      BY <3>2, FS_Subset, FS_CardinalityType DEF ChainInv
  <2>6. IsFiniteSet(E \union F) /\ Cardinality(E \union F) <= 4
        /\ Cardinality(E \union F) \in Nat
    BY <2>3, <2>4, FewTogether
  <2>7. PICK U : U = (E \union F) \union misread
    OBVIOUS
  <2>8. IsFiniteSet(U) /\ Cardinality(U) <= 4 + Cardinality(misread) /\ Cardinality(U) \in Nat
    BY <2>5, <2>6, <2>7, FewTogether
  <2>9. S \subseteq U
    BY <2>1, <2>2, <2>7
  <2> QED
    BY <2>5, <2>8, <2>9, FS_Subset, FS_CardinalityType
<1>2. ControlInv /\ ChainInv /\ [Next]_vars => ChainInv'
  BY ChainStep
<1> QED
  BY <1>1, <1>2, ControlInvariant, ChainInit, PTL DEF Spec

-----------------------------------------------------------------------------
(* Whom a thunk waits for                                                  *)

\* A thunk that is queued is in line, one in the hands of a worker runs, and who
\* holds a mutex is a handler.
LineInv ==
    /\ \A c \in Connections : pc[c] = "queued" => c \in Queued
    /\ \A c \in busy : pc[c] \in HoldSteps \union {"ingest"}
    /\ \A m \in DOMAIN owner : owner[m] \in Connections

\* A connection comes in: it goes to the end of the line.
LEMMA AcceptLine ==
  ASSUME ControlInv, LineInv, NEW text, NEW from, Accept(text, from), owner' = owner,
         pc'[opened'] = "queued",
         \A d \in Connections \ {opened'} : \/ pc'[d] = pc[d]
                                            \/ pc[d] \in HoldSteps /\ pc'[d] \in HoldSteps
  PROVE  LineInv'
<1>1. /\ opened \in Nat /\ opened' = opened + 1 /\ UNCHANGED busy
      /\ queue \in Seq(Connections) /\ queue' = Append(queue, opened')
  BY ProxyAssumption DEF Accept, Pool!Schedule, ControlInv, ControlType
<1>2. Queued' = Queued \union {opened'}
  <2>1. /\ DOMAIN queue' = DOMAIN queue \union {Len(queue) + 1}
        /\ queue'[Len(queue) + 1] = opened' /\ \A x \in DOMAIN queue : queue'[x] = queue[x]
    BY <1>1
  <2> QED BY <2>1 DEF Queued
<1>3. \A c \in busy : c \in Connections /\ c # opened'
  BY <1>1, ProxyAssumption DEF ControlInv, ControlType, PoolInv, Connections
<1>4. \A c \in Connections : pc'[c] = "queued" => c \in Queued'
  BY <1>2 DEF LineInv, HoldSteps
<1>5. \A c \in busy' : pc'[c] \in HoldSteps \union {"ingest"}
  BY <1>1, <1>3 DEF LineInv
<1> QED BY <1>4, <1>5 DEF LineInv

\* A worker takes the first in line.
LEMMA IngestLine ==
  ASSUME ControlInv, LineInv, NEW c \in Connections, Ingest(c)
  PROVE  LineInv'
<1>1. /\ queue \in Seq(Connections) /\ queue # <<>> /\ queue' = Tail(queue) /\ c = queue[1]
      /\ pc \in [Connections -> Steps] /\ pc' = [pc EXCEPT ![c] = "ingest"]
      /\ busy' = busy \union {c} /\ owner' = owner
  BY DEF Ingest, Pool!Take, ControlInv, ControlType
<1>2. ASSUME NEW d \in Queued, d # c PROVE d \in Queued'
  <2>1. PICK x \in DOMAIN queue : d = queue[x]
    BY DEF Queued
  <2>2. x - 1 \in DOMAIN queue' /\ queue'[x - 1] = d
    BY <1>1, <1>2, <2>1
  <2> QED BY <2>2 DEF Queued
<1>3. \A d \in busy : d \in Connections
  BY ProxyAssumption DEF ControlInv, ControlType, PoolInv, Connections
<1> QED BY <1>1, <1>2, <1>3 DEF LineInv

\* A handler goes on, or begins.
LEMMA LineStays ==
  ASSUME ControlInv, LineInv, UNCHANGED <<queue, busy>>,
         \A d \in Connections : pc'[d] = pc[d] \/ pc'[d] \in HoldSteps,
         \A m \in DOMAIN owner' : owner'[m] \in Connections
  PROVE  LineInv'
<1>1. Queued' = Queued /\ busy' = busy
  BY DEF Queued
<1>2. \A d \in busy : d \in Connections
  BY ProxyAssumption DEF ControlInv, ControlType, PoolInv, Connections
<1>3. "queued" \notin HoldSteps
  BY DEF HoldSteps
<1>4. \A d \in Connections : pc'[d] = "queued" => d \in Queued
  BY <1>3 DEF LineInv
<1>5. \A d \in busy : pc'[d] \in HoldSteps \union {"ingest"}
  BY <1>2 DEF LineInv
<1> QED BY <1>1, <1>4, <1>5 DEF LineInv

\* The line, the workers and the mutexes agree with where the thunks are.
LEMMA LineStep ==
  ASSUME ControlInv, LineInv, [Next]_vars
  PROVE  LineInv'
<1>0. ControlType /\ PoolInv
  BY DEF ControlInv
<1>1. CASE Configure \/ Tick \/ UNCHANGED vars
  <2>1. UNCHANGED <<queue, busy, pc, owner>>
    BY <1>1 DEF Configure, Tick, vars, thunks, handler
  <2> QED BY <2>1 DEF LineInv, Queued
<1>2. CASE ClientConnects
  <2>1. PICK s \in Sends : Accept(s.request, s.from)
    BY <1>2 DEF ClientConnects
  <2>2. pc' = [pc EXCEPT ![opened'] = "queued"] /\ owner' = owner /\ opened' \in Connections
    BY <1>2, ClientConnectsControl DEF ClientConnects
  <2> QED BY <1>0, <2>1, <2>2, AcceptLine DEF ControlType
<1>3. CASE Kill
  <2>1. busy' = {} /\ DOMAIN owner' = {} /\ \A c \in Connections : pc'[c] # "queued"
    BY <1>3 DEF Kill, Open
  <2> QED BY <2>1 DEF LineInv
<1>4. ASSUME NEW c \in Connections, Thunk(c) PROVE LineInv'
  <2>1. CASE Ingest(c)
    BY <2>1, IngestLine
  <2>2. CASE ConnectToSelf(c)
    <3>1. /\ Accept(OnWire(c), ProxyAddress) /\ owner' = owner /\ pc[c] = "connect"
          /\ pc' = [pc EXCEPT ![c] = "await", ![opened'] = "queued"] /\ opened' \in Connections
      BY <2>2, ConnectToSelfControl DEF ConnectToSelf, At
    <3>2. \A d \in Connections \ {opened'} : \/ pc'[d] = pc[d]
                                             \/ pc[d] \in HoldSteps /\ pc'[d] \in HoldSteps
      <4>1. \A d \in Connections \ {opened'} : pc'[d] = IF d = c THEN "await" ELSE pc[d]
        BY <1>0, <3>1 DEF ControlType
      <4>2. "await" \in HoldSteps /\ "connect" \in HoldSteps
        BY DEF HoldSteps, Steps
      <4>3. pc[c] = "connect"
        BY <3>1
      <4> QED BY <4>1, <4>2, <4>3
    <3>3. pc'[opened'] = "queued"
      BY <1>0, <3>1 DEF ControlType
    <3> QED BY <3>1, <3>2, <3>3, AcceptLine
  <2>3. CASE Moves(c) \/ Narrows(c)
    <3>1. UNCHANGED <<queue, busy, owner>>
      BY <2>3 DEF Moves, Narrows, Control
    <3>2. \A d \in Connections : pc'[d] = pc[d] \/ (pc[d] \in HoldSteps /\ pc'[d] \in HoldSteps)
      <4>1. pc[c] \in HoldSteps /\ pc'[c] \in HoldSteps /\ \A d \in Connections : d # c => pc'[d] = pc[d]
        BY <1>0, <2>3 DEF Moves, Narrows, ControlType
      <4> QED BY <4>1
    <3>3. \A m \in DOMAIN owner' : owner'[m] \in Connections
      BY <3>1 DEF LineInv
    <3> QED BY <3>1, <3>2, <3>3, LineStays
  <2>4. CASE Enters(c)
    <3>1. UNCHANGED <<queue, busy>> /\ \A d \in Connections :
             pc'[d] = pc[d] \/ pc'[d] \in HoldSteps
      BY <1>0, <2>4 DEF Enters, ControlType
    <3>2. \A m \in DOMAIN owner' : owner'[m] \in Connections
      BY <2>4 DEF Enters, Set, LineInv
    <3> QED BY <3>1, <3>2, LineStays
  <2>5. CASE Ends(c)
    <3>1. /\ queue' = queue /\ busy' = busy \ {c}
          /\ \A d \in Connections : d # c => pc'[d] = pc[d]
          /\ pc'[c] \in {"closed", "dropped", "unread"}
      BY <1>0, <2>5 DEF Ends, End, Pool!Finish, ControlType
    <3>2. \A m \in DOMAIN owner' : owner'[m] \in Connections
      BY <2>5 DEF Ends, End, Restrict, LineInv
    <3>3. \A d \in busy' : d \in Connections /\ d \in busy /\ d # c
      BY <1>0, <3>1, ProxyAssumption DEF PoolInv, ControlType, Connections
    <3>4. \A d \in busy' : pc'[d] \in HoldSteps \union {"ingest"}
      BY <3>1, <3>3 DEF LineInv
    <3>5. \A d \in Connections : pc'[d] = "queued" => d \in Queued'
      BY <3>1 DEF LineInv, Queued
    <3> QED BY <3>2, <3>4, <3>5 DEF LineInv
  <2> QED BY <1>0, <1>4, <2>1, <2>2, <2>3, <2>4, <2>5, ThunkKinds
<1> QED BY <1>1, <1>2, <1>3, <1>4 DEF Next, Step

\* The proxy only stops in a loop: whatever the requests, the mutexes and the number
\* of threads, connections that all wait for each other have come through the proxy
\* itself (request-handler.cc, scheduler.cc).
THEOREM StuckCorrect == Spec => []StuckOnlyInLoop
<1>1. ControlInv /\ ChainInv /\ LineInv => StuckOnlyInLoop
  <2> SUFFICES ASSUME ControlInv, ChainInv, LineInv, NEW o \in Connections, Open(o),
                      \A c \in Connections : Open(c) => Waits(c)
               PROVE  \E c \in Connections : /\ Open(c) /\ pc[c] = "await" /\ child[c] # None
                                            /\ pc[child[c]] \in {"queued", "ingest"}
    BY DEF StuckOnlyInLoop
  <2>0. ControlType /\ PoolInv /\ OwnerInv
    BY DEF ControlInv
  <2>1. PICK A \in SUBSET Connections :
          A = {c \in Connections : pc[c] = "await" /\ child[c] # None /\ Open(child[c])}
    OBVIOUS
  <2>2. CASE A # {}
    <3>1. PICK c \in A : child[c] \notin A
      BY <2>2 DEF ChainInv, ExitInv
    <3>2. child[c] \in Connections /\ Open(child[c])
      BY <2>0, <2>1 DEF ControlType
    <3>3. pc[child[c]] \in {"queued", "ingest"}
      BY <2>1, <3>1, <3>2 DEF Waits
    <3> QED BY <2>1, <3>3 DEF Open
  <2>3. CASE A = {}
    <3>1. \A c \in Connections : ~Holds(c)
      BY <2>1, <2>3 DEF Holds, Waits
    <3>2. \A c \in Connections : pc[c] # "ingest"
      <4> SUFFICES ASSUME NEW c \in Connections, pc[c] = "ingest" PROVE FALSE
        OBVIOUS
      <4>1. Class(c) \in DOMAIN owner
        BY DEF Open, Waits
      <4>2. owner[Class(c)] \in Connections /\ Holds(owner[Class(c)])
        BY <2>0, <4>1 DEF LineInv, OwnerInv
      <4> QED BY <3>1, <4>2
    <3>3. busy = {}
      <4>1. \A c \in busy : c \in Connections
        BY <2>0, ProxyAssumption DEF ControlType, PoolInv, Connections
      <4>2. \A c \in Connections : pc[c] \in HoldSteps => Holds(c)
        BY DEF HoldSteps, Holds, Open
      <4> QED BY <3>1, <3>2, <4>1, <4>2 DEF LineInv
    <3>4. pc[o] = "queued"
      BY <3>1, <3>2 DEF Holds
    <3>5. /\ 1 \in DOMAIN queue /\ Head(queue) = queue[1] /\ queue[1] \in Connections
          /\ pc[queue[1]] = "queued"
      <4>1. queue \in Seq(Connections) /\ queue # <<>>
        BY <2>0, <3>4 DEF ControlType, LineInv, Queued
      <4> QED BY <2>0, <4>1 DEF PoolInv
    <3>6. Cardinality(busy) >= NumThreads
      BY <3>5 DEF Waits, Open
    <3>7. Cardinality(busy) = 0
      BY <3>3, FS_EmptySet
    <3> QED BY <3>6, <3>7, ProxyAssumption
  <2> QED BY <2>2, <2>3
<1>2. Init => LineInv
  BY DEF Init, LineInv
<1>3. ControlInv /\ LineInv /\ [Next]_vars => LineInv'
  BY LineStep
<1>4. ControlInv /\ ChainInv /\ [Next]_vars => ChainInv'
  BY ChainStep
<1> QED
  BY <1>1, <1>2, <1>3, <1>4, ControlInvariant, ChainInit, PTL DEF Spec
=============================================================================
