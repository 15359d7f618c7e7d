------------------------------ MODULE MCProxy ------------------------------
(***************************************************************************)
(* An instance of Proxy for TLC: one origin server s, one blocked server,  *)
(* and the proxy under two names, p1 and p2.  Requests with longer chains  *)
(* of addresses fall into other classes; those for p2 have two classes     *)
(* only, so that a loop meets its own mutex.                               *)
(***************************************************************************)
EXTENDS Proxy

Request(m, s, proto, via) == [method |-> m, server |-> s, proto |-> proto, via |-> via]
From(a, r) == [from |-> a, request |-> r]

\* A GET as a browser sends it; with one header of a proxy; as an upstream
\* proxy u passes it on for a; and what must be refused or tunnelled.
SomeSends ==
    {From("a", Request("GET", "s", FALSE, <<>>)), From("a", Request("GET", "s", TRUE, <<>>)),
     From("u", Request("GET", "s", TRUE, <<"a">>)),
     From("a", Request("GET", "p1", FALSE, <<>>)), From("a", Request("GET", "p2", FALSE, <<>>)),
     From("a", Request("CONNECT", "s", FALSE, <<>>)), From("a", Request("POST", "bad", FALSE, <<>>)),
     From("a", Request("TRACE", "s", FALSE, <<>>)),
     From("a", Request("unreadable", "s", FALSE, <<>>))}

SomeAnswers == {[code |-> 200, bars |-> {}, age |-> 2]}

SomeMutex(r) ==
    IF r.server = "p2" THEN Len(r.via) % 2
    ELSE IF ~r.proto THEN 0 ELSE 1 + (Len(r.via) % 5)

Flag(f, v) == [flag |-> f, value |-> v]
SomeArguments ==
    {<<Flag("port", 0), Flag("max-age", 1)>>, <<Flag("proxy-server", 0), Flag("proxy-port", 0)>>,
     <<Flag("clear-cache", 0), Flag("max-age", 0), Flag("proxy-port", Bad)>>, <<Flag("proxy-port", 0)>>}

SomeBlocked == <<{}, {"bad"}>>
=============================================================================
