----------------------------- MODULE ProxyText -----------------------------
(***************************************************************************)
(* What the proxy of lab07_proxylab makes of a request: doit's reading of  *)
(* it, parse_url and build_header in proxy.c.  A request line is a         *)
(* sequence of characters and words, each of which counts as one byte; a   *)
(* header line has a name and a length, with its \r\n.                     *)
(***************************************************************************)
EXTENDS Integers, SequencesExt

CONSTANTS
    Paths,         \* the paths clients ask for, each begins with "/"
    Lines,         \* the header lines clients send: [name |-> ..., len |-> ...]
    MAXLINE, MAXBUF,
    MaxLines       \* bound: header lines before the blank one

ASSUME TextAssumption ==
    \* a line has room for the method, the host and the port
    /\ MAXLINE \in Nat /\ MAXLINE > 9 /\ MAXBUF \in Nat /\ MaxLines \in Nat
    /\ \A l \in Lines : l.len \in Nat \ {0, 1, 2}

VARIABLES
    asked,         \* what the client means: [method, port, path], port "" for none,
                   \* method "" when it closes without a request
    to_server,           \* the Url that parse_url fills
    current, bytes, \* the line being read, and how much is not read yet
    over,          \* the client sent the blank line, or closed
    given,         \* the header lines it sent
    header,        \* what build_header wrote: lines, or pieces of lines
    phase

textVars == <<asked, to_server, current, bytes, over, given, header, phase>>

Unset == [host |-> <<"?">>, port |-> <<"?">>, uri |-> <<"?">>]
NoLine == [name |-> "none", len |-> 0]

TextInit ==
    /\ asked \in [method : {"", "GET", "POST"}, port : {"", "8"}, path : Paths \cup {<<>>}]
    /\ to_server = Unset /\ current = NoLine /\ bytes = 0 /\ over = FALSE /\ given = <<>> /\ header = <<>>
    /\ phase = "request"

(***************************************************************************)
(* parse_url                                                               *)
(***************************************************************************)

\* The URL as it is sent: http://h, the port if there is one, the path.
Url(a) == <<"http:", "/", "/", "h">> \o (IF a.port = "" THEN <<>> ELSE <<":", a.port>>) \o a.path
RequestLine(a) == <<a.method, " ">> \o Url(a) \o <<" ", "HTTP/1.1", "\r", "\n">>

From(s, i) == SubSeq(s, i, Len(s))
\* strstr of one character: where it is, 0 when it is not there.
strstr(s, c) == LET at == {i \in 1 .. Len(s) : s[i] = c} IN IF at = {} THEN 0 ELSE Min(at)
Digit(s) == s # <<>> /\ Head(s) = "8"

\* What sscanf takes for the URL: up to a blank, or to the end of buf.
UrlIn(buf) ==
    LET rest == From(buf, 3)
        blank == strstr(rest, " ")
    IN  IF blank = 0 THEN rest ELSE SubSeq(rest, 1, blank - 1)

\* The host begins after "//", which a client's URL has.  Without a ":" the
\* search for the URI begins at a null pointer plus one.  A port that is no
\* number leaves val_port as it was, uninitialised.
parse_url(url) ==
    LET host == From(url, 4)
        port == strstr(host, ":")
        after == From(host, port + 1)
        uri == strstr(after, "/")
        buffer == [Unset EXCEPT !.port = IF Digit(after) THEN <<"8">> ELSE <<"?">>]
    IN  IF port = 0 THEN [rc |-> "crash", buf |-> [Unset EXCEPT !.port = <<"8", "0">>]]
        ELSE IF uri = 0 THEN [rc |-> "error", buf |-> buffer]
        ELSE [rc |-> "ok", buf |-> [buffer EXCEPT !.uri = From(after, uri), !.host = SubSeq(host, 1, port - 1)]]

\* doit: it returns when no line comes, and refuses any method but GET.  The
\* request line is read like every line, MAXLINE - 1 bytes at most; the rest of
\* a longer one is left for build_header.  What parse_url returns is not looked
\* at, and after an error the Url is what malloc left there: a name that cannot
\* be found, which ends the process, or an earlier request's.
Request ==
    /\ phase = "request"
    /\ CASE asked.method = "" -> phase' = "closed" /\ UNCHANGED <<to_server, header, bytes>>
         [] asked.method = "POST" -> phase' = "refused" /\ UNCHANGED <<to_server, header, bytes>>
         [] asked.method = "GET" ->
                LET line == RequestLine(asked)
                    n == Min({Len(line), MAXLINE - 1})
                    p == parse_url(UrlIn(SubSeq(line, 1, n)))
                IN  /\ to_server' = p.buf /\ bytes' = Len(line) - n
                    /\ CASE p.rc = "crash" -> phase' = "crashed" /\ UNCHANGED header
                         [] p.rc = "error" -> phase' \in {"exited", "misdirected"} /\ UNCHANGED header
                         [] p.rc = "ok" ->
                                /\ phase' = "headers"
                                /\ header' = <<[name |-> "GET", len |-> Len(p.buf.uri) + 2],
                                               [name |-> "Host:", len |-> Len(p.buf.host) + 2]>>
    /\ UNCHANGED <<asked, current, over, given>>

(***************************************************************************)
(* build_header                                                            *)
(***************************************************************************)

\* The client sends a header line, or the blank line, or closes.
Send ==
    /\ phase = "headers" /\ bytes = 0 /\ ~over
    /\ \/ /\ Len(given) < MaxLines /\ \E l \in Lines : current' = l /\ bytes' = l.len /\ given' = Append(given, l)
          /\ UNCHANGED over
       \/ /\ current' = NoLine /\ bytes' \in {0, 2} /\ over' = TRUE /\ UNCHANGED given
    /\ UNCHANGED <<asked, to_server, header, phase>>

\* Rio_readlineb gives a line in pieces of MAXLINE - 1 bytes at most; only the
\* first begins with the name, and a rest is none of the lines it looks for.
Piece == Min({bytes, MAXLINE - 1})
First == bytes = current.len
IsBlank == Piece = 2 /\ bytes = 2

\* Mutated: the client's User-Agent line is kept.
SkippedTwo == First /\ current.name \in {"Host:", "Connection:"}

\* The client's lines that are replaced.  Proxy-Connection: is compared with one
\* character more than it has, the null at its end, and never matches.
Skipped == First /\ current.name \in {"Host:", "User-Agent:", "Connection:"}

Size(h) == MapThenSumSet(LAMBDA i : h[i].len, DOMAIN h)

\* sprintf into header, which holds MAXBUF bytes: what goes beyond is undefined.
Put(ls, next) ==
    /\ header' = header \o ls
    /\ phase' = IF Size(header') >= MAXBUF THEN "overflow" ELSE next

ReadLine ==
    /\ phase = "headers" /\ bytes > 0 /\ ~IsBlank /\ bytes' = bytes - Piece
    /\ IF Skipped THEN UNCHANGED <<header, phase>>
       ELSE Put(<<[name |-> IF First THEN current.name ELSE "rest", len |-> Piece]>>, "headers")
    /\ UNCHANGED <<asked, to_server, current, over, given>>

Tail4 == <<[name |-> "User-Agent:", len |-> 3], [name |-> "Connection:", len |-> 3],
           [name |-> "Proxy-Connection:", len |-> 3], [name |-> "", len |-> 2]>>
EndHeader ==
    /\ phase = "headers" /\ (IsBlank \/ (bytes = 0 /\ over))
    /\ Put(Tail4, "done") /\ bytes' = 0
    /\ UNCHANGED <<asked, to_server, current, over, given>>

TextNext == Request \/ Send \/ ReadLine \/ EndHeader

(***************************************************************************)
(* Properties                                                              *)
(***************************************************************************)

\* A line as Rio_readlineb gives it: only the first piece has the name.
Pieces(l) ==
    LET full == (l.len - 1) \div (MAXLINE - 1)
    IN  [i \in 1 .. full + 1 |->
            [name |-> IF i = 1 THEN l.name ELSE "rest",
             len |-> IF i <= full THEN MAXLINE - 1 ELSE l.len - full * (MAXLINE - 1)]]

\* What follows the GET line, in pieces: the rest of the request line, and the
\* client's header lines.  A rest that is \r\n alone ends the header.
Sent ==
    LET line == Len(RequestLine(asked))
        first == IF line < MAXLINE THEN <<>> ELSE Tail(Pieces([name |-> "GET", len |-> line]))
        all == first \o FlattenSeq([i \in DOMAIN given |-> Pieces(given[i])])
        blank == SelectInSeq(all, LAMBDA l : l.name = "rest" /\ l.len = 2)
    IN  IF blank = 0 THEN all ELSE SubSeq(all, 1, blank - 1)

\* The path as far as it comes within the first MAXLINE - 1 bytes of the request.
PathRead ==
    LET before == 2 + Len(Url(asked)) - Len(asked.path)
    IN  SubSeq(asked.path, 1, Min({Len(asked.path), MAXLINE - 1 - before}))

\* What the server should get: one Host, User-Agent and Connection line, and all
\* other lines, or pieces of lines, in their order.
Kept(l) == l.name \notin {"Host:", "User-Agent:", "Connection:"}
Meant ==
    <<[name |-> "GET", len |-> Len(PathRead) + 2],
      [name |-> "Host:", len |-> Len(to_server.host) + 2]>> \o SelectSeq(Sent, Kept) \o Tail4

\* A GET with a port and a path goes to that host and port for that path, or for
\* as much of it as a line of MAXLINE holds, and the server gets the header it
\* should, in which only what is longer than a line is out of place: the rest of
\* the request line comes as a header line, the rest of a replaced line is sent
\* on, and a rest of \r\n hides the lines after it.  Nothing else is lost unless
\* the header is longer than its buffer.  A URL without a port crashes the proxy,
\* or, with a colon in its path, is taken apart at that colon.
ForwardsAsMeant ==
    /\ phase \notin {"request", "closed", "refused"} /\ asked.port # "" =>
           IF asked.path = <<>> THEN phase \in {"exited", "misdirected"}
           ELSE to_server = [host |-> <<"h">>, port |-> <<asked.port>>, uri |-> PathRead]
    /\ phase = "crashed" <=>
           phase # "request" /\ asked.method = "GET" /\ asked.port = "" /\ strstr(PathRead, ":") = 0
    /\ phase = "done" /\ asked.port # "" => header = Meant
    /\ phase = "overflow" /\ asked.port # "" => Size(Meant) >= MAXBUF
=============================================================================
