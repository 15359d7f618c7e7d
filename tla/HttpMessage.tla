---------------------------- MODULE HttpMessage ----------------------------
(***************************************************************************)
(* assign6: how the proxy reads a request or a response from a stream and  *)
(* writes it to another (header.cc, payload.cc, request.cc, response.cc).  *)
(* What it wrote is read once more: a stored response by the cache on its  *)
(* next hit, a request by the proxy behind this one, an answer the proxy   *)
(* made up by its client.                                                  *)
(*                                                                         *)
(* A message on the wire has a first line, header lines and bytes.  A name *)
(* is a pair of its lower case and its spelling, a value a sequence of     *)
(* words.  The line with the size of a chunk is one byte.                  *)
(***************************************************************************)
EXTENDS Integers, SequencesExt

CONSTANTS
    Messages,           \* what may be read: [request, first, lines, body], and
                        \* what it means: [data, origin]
    Number,             \* words that strtol() takes for a number -> that number
    Ports,              \* ports are unsigned shorts: 2^16
    ErrorText           \* the payload of an answer that the proxy makes up

HttpMessageAssumption == Ports \in Nat \ {0}

VARIABLES
    phase,              \* what is read next
    wire,               \* what is left of the stream
    sent,               \* history: the message that is read
    first, headers, payload,    \* the message
    name,               \* ingestHeader(): the name of the last header
    ignorePayload,      \* a request that is no POST, the response to a HEAD
    stored              \* history: the message as it was written, or << >>

vars == <<phase, wire, sent, first, headers, payload, name, ignorePayload, stored>>

Init ==
    /\ phase = "start" /\ wire = << >> /\ sent = << >> /\ first = << >> /\ headers = << >>
    /\ payload = <<>> /\ name = "" /\ ignorePayload = FALSE /\ stored = << >>

NUL == "NUL"
EndOfLine == <<"\r", "\n">>
ContentLength == "content-length"
\* How a number is printed.
Decimal(n) == CHOOSE word \in DOMAIN Number : Number[word] = n

-----------------------------------------------------------------------------
(* The first line.                                                         *)

Port(word) == IF word \in DOMAIN Number THEN Number[word] % Ports ELSE 0

\* The part of a sequence before its first element that is x.
Before(s, x) == SubSeq(s, 1, SelectInSeq(s, LAMBDA y : y = x) - 1)

\* ingestRequestLine(): the URL is a sequence of "http://", names, '/', ':'
\* and numbers.
ingestRequestLine(line) ==
    LET rest == IF line.url # <<>> /\ Head(line.url) = "http://" THEN Tail(line.url) ELSE line.url
        authority == IF Contains(rest, "/") THEN Before(rest, "/") ELSE rest
        path == IF Contains(rest, "/") THEN SubSeq(rest, Len(authority) + 1, Len(rest)) ELSE <<"/">>
        server == IF Contains(authority, ":") THEN Before(authority, ":") ELSE authority
        after == SubSeq(authority, Len(server) + 2, Len(authority))
    IN  [method |-> line.method, url |-> line.url, protocol |-> line.protocol,
         server |-> server, path |-> path,
         port |-> IF ~Contains(authority, ":") THEN 80 ELSE IF after = <<>> THEN 0 ELSE Port(after[1])]

\* ingestResponseHeader(): a code that is no number reads as 0.
ingestResponseLine(line) ==
    [protocol |-> line.protocol, code |-> IF line.code \in DOMAIN Number THEN Number[line.code] ELSE 0]

\* A message arrives, or the proxy makes up an answer (handleError): code and
\* payload are set, and the header with its size.
Receive ==
    /\ phase = "start"
    /\ \E m \in Messages :
         /\ sent' = m /\ wire' = [lines |-> m.lines, body |-> m.body]
         /\ ignorePayload' \in IF m.request THEN {m.first.method # "POST"} ELSE BOOLEAN
         /\ first' = IF m.request THEN ingestRequestLine(m.first) ELSE ingestResponseLine(m.first)
    /\ phase' = "header" /\ headers' = << >> /\ payload' = <<>> /\ name' = ""
    /\ UNCHANGED stored

setPayload ==
    /\ phase = "start"
    /\ first' = [protocol |-> "HTTP/1.0", code |-> 504]
    /\ payload' = ErrorText
    /\ headers' = ContentLength :> <<Decimal(Len(ErrorText))>>
    /\ ignorePayload' = FALSE
    /\ phase' = "write"
    /\ UNCHANGED <<wire, sent, name, stored>>

-----------------------------------------------------------------------------
(* header.cc                                                               *)

\* Mutation: a header that is there already stays.
addHeader_Keep(hs, n, value) == hs @@ (n :> value)
addHeader(hs, n, value) == (n :> value) @@ hs
getValue(n) == IF n \in DOMAIN headers THEN headers[n] ELSE <<>>
Extended(n, value) == addHeader(headers, n, getValue(n) \o value)

\* One line of ingestHeader().  A line that starts with a blank continues the
\* one before; one without a colon is a name.
ingestHeader ==
    /\ phase = "header" /\ wire.lines # <<>> /\ Head(wire.lines).kind # "empty"
    /\ LET line == Head(wire.lines) IN
       IF line.kind = "more" THEN headers' = Extended(name, line.value) /\ UNCHANGED name
       ELSE /\ name' = line.name[1]
            /\ headers' = addHeader(headers, line.name[1], line.value)
    /\ wire' = [wire EXCEPT !.lines = Tail(@)]
    /\ UNCHANGED <<phase, sent, first, payload, ignorePayload, stored>>

Chunked == getValue("transfer-encoding") = <<"chunked">>
\* A value that is not one number is 0.
getValueAsNumber(n) ==
    LET value == getValue(n) IN
    IF Len(value) = 1 /\ value[1] \in DOMAIN Number THEN Number[value[1]] ELSE 0

\* An empty line, or the end of the stream.
EndOfHeader ==
    /\ phase = "header" /\ (wire.lines # <<>> => Head(wire.lines).kind = "empty")
    /\ phase' = IF ignorePayload THEN "write" ELSE IF Chunked THEN "chunks" ELSE "complete"
    /\ UNCHANGED <<wire, sent, first, headers, payload, name, ignorePayload, stored>>

-----------------------------------------------------------------------------
(* payload.cc                                                              *)

\* istream::read() of n bytes into a vector of zeros.
Read(n) == [k \in 1..n |-> IF k <= Len(wire.body) THEN wire.body[k] ELSE NUL]
Skip(n) == [wire EXCEPT !.body = SubSeq(@, n + 1, Len(@))]

\* A negative length makes the vector throw, and the connection is closed.
ingestCompletePayload ==
    /\ phase = "complete"
    /\ LET n == getValueAsNumber(ContentLength) IN
       IF n < 0 THEN phase' = "dropped" /\ UNCHANGED <<payload, wire>>
       ELSE phase' = "write" /\ payload' = Read(n) /\ wire' = Skip(n)
    /\ UNCHANGED <<sent, first, headers, name, ignorePayload, stored>>

\* The size a line holds: none is 0.
Size(line) == IF line \in DOMAIN Number THEN Number[line] ELSE 0

\* One round of ingestChunkedPayload(): a line, as many bytes as it says and
\* the end of their line.  What follows the last chunk is not read.
Line == IF wire.body = <<>> THEN "" ELSE wire.body[1]
Data(n) == [k \in 1..n |-> IF k < Len(wire.body) THEN wire.body[k + 1] ELSE NUL]

\* Mutation: the end of the line is read but not kept.
Chunk_NoEndOfLine(line) == <<line>> \o IF Size(line) = 0 THEN EndOfLine ELSE Data(Size(line))
Chunk(line) == <<line>> \o IF Size(line) = 0 THEN EndOfLine ELSE Data(Size(line) + 2)

ingestChunk ==
    /\ phase = "chunks"
    /\ payload' = payload \o Chunk(Line)
    /\ wire' = Skip(1 + Size(Line) + 2)
    /\ phase' = IF Size(Line) = 0 THEN "write" ELSE "chunks"
    /\ UNCHANGED <<sent, first, headers, name, ignorePayload, stored>>

-----------------------------------------------------------------------------

\* operator<<, into the cache or to the peer, where it is read again.  A
\* line without a value has a name and a colon.
Write ==
    /\ phase = "write" /\ stored = << >>
    /\ stored' = [first |-> first, headers |-> headers, payload |-> payload]
    /\ wire' = [lines |-> [k \in 1..Cardinality(DOMAIN headers) |->
                             LET n == SetToSeq(DOMAIN headers)[k]
                             IN  [kind |-> "field", name |-> <<n, n>>, value |-> headers[n]]],
                body |-> payload]
    /\ first' = IF "url" \in DOMAIN first THEN ingestRequestLine(first) ELSE first
    /\ phase' = "header" /\ headers' = << >> /\ payload' = <<>> /\ name' = ""
    /\ UNCHANGED <<sent, ignorePayload>>

ReadAgain ==
    /\ phase = "write" /\ stored # << >> /\ phase' = "done"
    /\ UNCHANGED <<wire, sent, first, headers, payload, name, ignorePayload, stored>>

Next ==
    Receive \/ setPayload \/ ingestHeader \/ EndOfHeader \/ ingestCompletePayload \/ ingestChunk
    \/ Write \/ ReadAgain

Spec == Init /\ [][Next]_vars

-----------------------------------------------------------------------------
(* Properties.                                                             *)

\* The header lines, up to the first empty one.
HeaderLines ==
    IF \E k \in DOMAIN sent.lines : sent.lines[k].kind = "empty"
    THEN SubSeq(sent.lines, 1, SelectInSeq(sent.lines, LAMBDA line : line.kind = "empty") - 1)
    ELSE sent.lines
Named(n) == {k \in DOMAIN HeaderLines : HeaderLines[k].kind = "field" /\ HeaderLines[k].name[1] = n}
Folded(k) == {l \in k+1..Len(HeaderLines) : \A j \in k+1..l : HeaderLines[j].kind = "more"}
ValueOf(k) ==
    FlattenSeq([j \in 1..1+Cardinality(Folded(k)) |-> HeaderLines[k + j - 1].value])

\* A body that ends early is filled up to the length its header announces.
Padded(data, n) == [k \in 1..n |-> IF k <= Len(data) THEN data[k] ELSE NUL]

\* What the proxy has read is what was sent: the server, port and path of the
\* URL; for each name, whatever its case, the value of its last header with
\* the lines that continue it; and the bytes of the body, by its length or
\* chunk by chunk, padded where the stream ended early, and none where the
\* header tells neither (ingestRequestLine, ingestHeader, ingestPayload).
MessageExact ==
    phase = "write" /\ stored = << >> /\ sent # << >> =>
        /\ sent.origin # << >> =>
             first.server = sent.origin[1] /\ first.port = sent.origin[2] /\ first.path = sent.origin[3]
        /\ DOMAIN headers = {HeaderLines[k].name[1] : k \in {j \in DOMAIN HeaderLines :
                                                               HeaderLines[j].kind = "field"}}
        /\ \A n \in DOMAIN headers :
             \E k \in Named(n) : headers[n] = ValueOf(k) /\ \A l \in Named(n) : l <= k
        /\ IF ignorePayload THEN payload = <<>>
           ELSE IF Chunked
           THEN SelectSeq(payload, LAMBDA x : x \notin ToSet(EndOfLine) \union {""} \union DOMAIN Number) =
                  sent.data
           ELSE payload = Padded(sent.data, getValueAsNumber(ContentLength))

\* What was written reads as it was: a hit of the cache is the response that
\* was stored, the next proxy has the request that was forwarded, and a
\* client has the answer that was made up, even if the message was cut off,
\* repeated a name or announced no length; and nothing that was written is
\* dropped (operator<< of HTTPRequest, HTTPResponse and HTTPHeader).
MessageKept ==
    /\ phase = "done" => stored = [first |-> first, headers |-> headers, payload |-> payload]
    /\ phase = "dropped" => stored = << >>
=============================================================================
