----------------------------- MODULE MCProxyLab -----------------------------
(***************************************************************************)
(* The parts of the proxy lab that share no state, checked in one run:     *)
(* each behaviour is one of one part, and the other parts stay as they     *)
(* begin.                                                                  *)
(***************************************************************************)
EXTENDS Sbuf, Rio, Tiny, ProxyText, Csapp

VARIABLE part
proxyLabVars == <<part, vars, rioVars, tinyVars, textVars, csappVars>>

\* Only the part that runs takes one of its initial states freely.
ProxyLabInit ==
    /\ part \in {"pool", "rio", "tiny", "text", "csapp"}
    /\ Init /\ RioInit /\ TinyInit /\ TextInit /\ CsappInit
    /\ part # "rio" => total = 0 /\ mode = "direct"
    /\ part # "text" => asked = [method |-> "GET", port |-> "", path |-> <<>>]

ProxyLabNext ==
    \/ part = "pool" /\ Next /\ UNCHANGED <<part, rioVars, tinyVars, textVars, csappVars>>
    \/ part = "rio" /\ RioNext /\ UNCHANGED <<part, vars, tinyVars, textVars, csappVars>>
    \/ part = "tiny" /\ TinyNext /\ UNCHANGED <<part, vars, rioVars, textVars, csappVars>>
    \/ part = "text" /\ TextNext /\ UNCHANGED <<part, vars, rioVars, tinyVars, csappVars>>
    \/ part = "csapp" /\ CsappNext /\ UNCHANGED <<part, vars, rioVars, tinyVars, textVars>>

ProxyLabSpec ==
    /\ ProxyLabInit /\ [][ProxyLabNext]_proxyLabVars
    /\ PoolFairness /\ TinyFairness

\* What a file may be; a home page, a CGI program with and without arguments, a
\* name that only looks like one.
FileOf(m, n) == [mode |-> m, size |-> n]
MCFiles ==
    {FileOf("missing", 0), FileOf("forbidden", 1), FileOf("denied", 1), FileOf("usable", 0), FileOf("usable", 2)}
MCUris ==
    {<<"/">>, <<"/", "x", "?", "cgi-bin">>, <<"/", "cgi-bin", "/", "adder", "?", "1&2">>,
     <<"/", "cgi-bin", "/", "adder">>}

\* Paths with a colon and without, and long ones: requests that leave the end of
\* their version, just \r\n, or the end of their path for a second line.  Header
\* lines of each kind, shorter and longer than MAXLINE, one of which leaves \r\n.
Long(n) == [i \in 1 .. n |-> IF i = 1 THEN "/" ELSE "a"]
MCPaths ==
    {<<"/">>, <<"/", "a">>, <<"/", "a", ":", "8", "/">>, <<"/", ":">>, <<"/", ":", "8">>, <<"/", "/">>}
        \cup {Long(n) : n \in {5, 6, 9}} \cup {Long(8) \o <<":", "8", "/">>}
HeaderLine(n, l) == [name |-> n, len |-> l]
MCLines ==
    {HeaderLine("Host:", 3), HeaderLine("User-Agent:", 4), HeaderLine("Connection:", 4),
     HeaderLine("Proxy-Connection:", 4), HeaderLine("Accept:", 5), HeaderLine("Cookie:", 17),
     HeaderLine("Host:", 20)}

MCNumbers == {-128, -127, -100, -99, -10, -9, -1, 0, 1, 9, 10, 99, 100, 127}
=============================================================================
