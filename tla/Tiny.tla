-------------------------------- MODULE Tiny --------------------------------
(***************************************************************************)
(* The iterative web server of lab07_proxylab/tiny: main and doit, a step  *)
(* per call that another process can notice.  A URI is a sequence of the   *)
(* tokens its parsing looks for; a request line, a header line and what a  *)
(* call writes are one token each.                                         *)
(***************************************************************************)
EXTENDS Integers, Sequences, FiniteSets

CONSTANTS
    Uris,          \* the URIs clients ask for
    Files,         \* what a file may be: [mode |-> ..., size |-> ...]
    Tty,           \* standard output is a terminal: no log line is kept back
    MaxHeaders     \* bound: header lines before the blank one

\* missing: not there; forbidden: no regular file or no permission bit;
\* denied: its owner may use it, the server may not.
ASSUME TinyAssumption ==
    /\ \A f \in Files : f.mode \in {"missing", "forbidden", "denied", "usable"} /\ f.size \in Nat
    /\ Tty \in BOOLEAN /\ MaxHeaders \in Nat

VARIABLES
    file,          \* what is found at the name the request leads to
    client,        \* there, gone
    request,       \* what the client asks: [method, uri]
    unread,        \* lines of the request sent and not read
    headers,       \* header lines sent
    whole,         \* the blank line was sent
    step, todo,      \* where doit is, and the writes before it goes on
    hdrs,          \* 1 once a header line was read
    name,          \* filename
    sbuf,          \* what stat found
    held,          \* descriptors and memory: subset of {"connfd", "srcfd", "srcp"}
    child,         \* none, forked, zombie
    log,           \* the stdio buffer holds log lines
    response       \* what was written to the client

clientVars == <<client, request, unread, headers, whole>>
tinyVars == <<file, clientVars, step, todo, hdrs, name, sbuf, held, child, log, response>>

Absent == [mode |-> "missing", size |-> 0]
Line(h, n) == [h |-> h, n |-> n]
HasToken(s, x) == \E i \in 1 .. Len(s) : s[i] = x

TinyInit ==
    /\ file = Absent /\ client = "gone" /\ request = [method |-> "GET", uri |-> <<>>]
    /\ unread = <<>> /\ headers = 0 /\ whole = FALSE /\ step = "accept" /\ todo = <<>> /\ hdrs = 0
    /\ name = <<>> /\ sbuf = Absent /\ held = {} /\ child = "none" /\ log = FALSE /\ response = <<>>

(***************************************************************************)
(* The client and the file system                                          *)
(***************************************************************************)

rest == <<file, step, todo, hdrs, name, sbuf, held, child, log, response>>

\* Someone changes the file while the request is served: before each of the calls
\* that take it by name, as no other step sees it.
Change ==
    /\ step \in {"stat", "open", "fork"} /\ file' \in Files
    /\ UNCHANGED <<clientVars, step, todo, hdrs, name, sbuf, held, child, log, response>>

SendHeader ==
    /\ client = "there" /\ ~whole /\ step \notin {"accept", "dead"}
    /\ \/ headers < MaxHeaders /\ unread' = Append(unread, "header") /\ headers' = headers + 1 /\ UNCHANGED whole
       \/ unread' = Append(unread, "blank") /\ whole' = TRUE /\ UNCHANGED headers
    /\ UNCHANGED <<client, request, rest>>
Leave ==
    /\ client = "there" /\ client' = "gone"
    /\ UNCHANGED <<request, unread, headers, whole, rest>>

(***************************************************************************)
(* The server                                                              *)
(***************************************************************************)

\* main: the connection of a client that sends a request line, or leaves first.
AcceptClient ==
    /\ step = "accept" /\ step' = "line" /\ held' = held \cup {"connfd"} /\ log' = ~Tty
    /\ headers' = 0 /\ whole' = FALSE /\ hdrs' = 0 /\ response' = <<>>
    /\ \E m \in {"GET", "POST"}, u \in Uris : request' = [method |-> m, uri |-> u]
    /\ \/ client' = "there" /\ unread' = <<"request">>
       \/ client' = "gone" /\ unread' = <<>>
    /\ file' \in Files /\ UNCHANGED <<todo, name, sbuf, child>>

\* A wrapper's call fails: unix_error.  An exit closes everything.
Die == step' = "dead" /\ held' = {} /\ todo' = <<>> /\ UNCHANGED <<hdrs, name, sbuf>>

\* clienterror: seven writes.
clienterror(code) ==
    <<Line("status", code), Line("type.html", 0), Line("title", 0), Line("color", 0),
      Line("message", code), Line("cause", 0), Line("hr", 0)>>
Refuse(code) == step' = "close" /\ todo' = clienterror(code)

\* doit: a client that leaves without a byte gets nothing.
ReadRequest ==
    /\ step = "line"
    /\ \/ /\ unread # <<>> /\ unread' = Tail(unread)
          /\ IF request.method # "GET" THEN Refuse(501) ELSE step' = "headers" /\ UNCHANGED todo
       \/ unread = <<>> /\ client = "gone" /\ step' = "close" /\ UNCHANGED <<unread, todo>>
    /\ UNCHANGED <<file, client, request, headers, whole, hdrs, name, sbuf, held, child, log, response>>

\* Mutated: the loop reads a line after the blank one.
ReadHeaderTwice ==
    /\ step = "headers" /\ unread # <<>> /\ unread' = Tail(unread)
    /\ step' = IF hdrs > 0 /\ Head(unread) = "blank" THEN "stat" ELSE "headers"
    /\ hdrs' = 1
    /\ UNCHANGED <<file, client, request, headers, whole, todo, name, sbuf, held, child, log, response>>

\* read_requesthdrs.
ReadHeader ==
    /\ step = "headers" /\ unread # <<>> /\ unread' = Tail(unread)
    /\ step' = IF Head(unread) = "blank" THEN "stat" ELSE "headers"
    /\ hdrs' = 1
    /\ UNCHANGED <<file, client, request, headers, whole, todo, name, sbuf, held, child, log, response>>

\* Its loop does not look at the end of the stream: it compares the last line
\* for ever, or, when there was none, whatever its buffer holds.
HeadersEnd ==
    /\ step = "headers" /\ unread = <<>> /\ client = "gone"
    /\ step' \in IF hdrs = 0 THEN {"stat", "spin"} ELSE {"spin"}
    /\ UNCHANGED <<file, clientVars, todo, hdrs, name, sbuf, held, child, log, response>>

\* A reset connection is an error of read().
Reset ==
    /\ step \in {"line", "headers"} /\ client = "gone" /\ Die
    /\ UNCHANGED <<file, clientVars, child, log, response>>

\* parse_uri.
is_static(uri) == ~HasToken(uri, "cgi-bin")
filename(uri) ==
    LET cut == {i \in 1 .. Len(uri) : uri[i] = "?"}
    IN  IF is_static(uri) THEN <<".">> \o uri \o (IF uri[Len(uri)] = "/" THEN <<"home", ".html">> ELSE <<>>)
        ELSE <<".">> \o SubSeq(uri, 1, IF cut = {} THEN Len(uri) ELSE (CHOOSE i \in cut : \A j \in cut : i <= j) - 1)
cgiargs(uri) == IF HasToken(uri, "?") THEN uri[Len(uri)] ELSE ""

get_filetype(f) ==
    CASE HasToken(f, ".html") -> "type.html"
      [] ~HasToken(f, ".html") /\ HasToken(f, ".gif") -> "type.gif"
      [] OTHER -> "type.plain"

OkLines == <<Line("status", 200), Line("server", 0)>>
FileLines(f, n) == OkLines \o <<Line("length", n), Line(get_filetype(f), 0)>>

\* doit: stat and the checks, and the first writes of what serves the request.
Stat ==
    LET f == filename(request.uri)
        s == file
    IN  /\ step = "stat" /\ name' = f /\ sbuf' = s
        /\ CASE s.mode = "missing" -> Refuse(404)
             [] s.mode = "forbidden" -> Refuse(403)
             [] s.mode \in {"denied", "usable"} /\ is_static(request.uri) ->
                    step' = "open" /\ todo' = FileLines(f, s.size)
             [] OTHER -> step' = "fork" /\ todo' = OkLines
        /\ UNCHANGED <<file, clientVars, hdrs, held, child, log, response>>

\* Rio_writen: to a client that left, a write succeeds once, or raises SIGPIPE,
\* which Tiny does not ignore.
Write ==
    /\ todo # <<>> /\ step # "dead"
    /\ \/ todo' = Tail(todo) /\ response' = Append(response, Head(todo)) /\ UNCHANGED <<step, held, hdrs, name, sbuf>>
       \/ client = "gone" /\ Die /\ UNCHANGED response
    /\ UNCHANGED <<file, clientVars, child, log>>

\* serve_static: Open by name, again.
Open ==
    /\ step = "open" /\ todo = <<>>
    /\ \/ file.mode \in {"usable", "forbidden"} /\ step' = "mmap" /\ held' = held \cup {"srcfd"}
          /\ UNCHANGED <<todo, hdrs, name, sbuf>>
       \/ file.mode # "usable" /\ Die
    /\ UNCHANGED <<file, clientVars, child, log, response>>

\* Mutated: the body is as long as the file is now.
LengthNow == file.size

\* The length that serve_static is given and maps and writes.
Length == sbuf.size

\* Mmap of no bytes fails, and of what is a file no more; what is beyond the end
\* of a file that shrank cannot be written.
Body ==
    /\ step = "mmap"
    /\ \/ /\ Length # 0 /\ todo' = <<Line("body", Length)>> /\ UNCHANGED <<hdrs, name, sbuf>>
          /\ step' = "body" /\ held' = (held \cup {"srcp"}) \ {"srcfd"}
       \/ (Length = 0 \/ file # sbuf) /\ Die
    /\ UNCHANGED <<file, clientVars, child, log, response>>
Truncated ==
    /\ step = "body" /\ todo # <<>> /\ file # sbuf /\ Die
    /\ UNCHANGED <<file, clientVars, child, log, response>>
Munmap ==
    /\ step = "body" /\ todo = <<>> /\ step' = "close" /\ held' = held \ {"srcp"}
    /\ UNCHANGED <<file, clientVars, todo, hdrs, name, sbuf, child, log, response>>

\* serve_dynamic.
Fork ==
    /\ step = "fork" /\ todo = <<>>
    /\ \/ child' = "forked" /\ step' = "wait" /\ UNCHANGED <<todo, hdrs, name, sbuf, held>>
       \/ Die /\ UNCHANGED child
    /\ UNCHANGED <<file, clientVars, log, response>>

\* cgi-bin/adder.c: one write of headers and content, or a null pointer when
\* its arguments hold no &.
adder(args) == IF args = "1&2" THEN <<Line("cgi length", 1), Line("cgi body", 1)>> ELSE <<>>

\* The child: Execve, then the program; a failed Execve is unix_error, whose
\* exit flushes the copy of the server's stdio buffer, now to the client.
Run ==
    /\ child = "forked" /\ child' = "zombie"
    /\ LET out == IF file.mode = "usable" /\ file.size > 0 THEN adder(cgiargs(request.uri))
                  ELSE IF log THEN <<Line("log", 0)>> ELSE <<>>
       IN  response' \in {response \o out} \cup (IF client = "gone" THEN {response} ELSE {})
    /\ UNCHANGED <<file, clientVars, step, todo, hdrs, name, sbuf, held, log>>

Wait ==
    /\ step = "wait" /\ child = "zombie" /\ child' = "none" /\ step' = "close"
    /\ UNCHANGED <<file, clientVars, todo, hdrs, name, sbuf, held, log, response>>

Close ==
    /\ step = "close" /\ todo = <<>> /\ step' = "accept" /\ held' = held \ {"connfd"}
    /\ UNCHANGED <<file, clientVars, todo, hdrs, name, sbuf, child, log, response>>

Server ==
    \/ ReadRequest \/ ReadHeader \/ HeadersEnd \/ Stat \/ Write \/ Open \/ Body \/ Munmap
    \/ Fork \/ Wait \/ Close
TinyNext == Server \/ AcceptClient \/ Reset \/ Truncated \/ Run \/ Change \/ SendHeader \/ Leave

\* The server and its child are processes that run; clients, files and the
\* errors of other systems owe nothing.
TinyFairness == WF_tinyVars(Server) /\ WF_tinyVars(Run)

(***************************************************************************)
(* Properties                                                              *)
(***************************************************************************)

Status == response[1].n
Sum(h) == {response[i].n : i \in {j \in 1 .. Len(response) : response[j].h = h}}

\* Between connections the server holds nothing of an earlier one: no
\* descriptor, mapping or child.
Tidy == step = "accept" => held = {} /\ child = "none" /\ todo = <<>>

\* A request that was answered got one status line, first, that agrees with
\* what stat found, and a body of the declared length; log lines of the server
\* reach the client only when the CGI program could not be run.
Answered ==
    step = "accept" /\ response # <<>> =>
        /\ response[1].h = "status" /\ Cardinality({i \in 1 .. Len(response) : response[i].h = "status"}) = 1
        /\ Status = 501 <=> request.method # "GET"
        /\ Status # 501 =>
               Status = (CASE sbuf.mode = "missing" -> 404 [] sbuf.mode = "forbidden" -> 403 [] OTHER -> 200)
        /\ Status = 200 /\ is_static(request.uri) => Sum("body") = {sbuf.size} /\ Sum("length") = Sum("body")
        /\ Sum("cgi length") = Sum("cgi body")
        /\ Sum("log") # {} => Status = 200 /\ ~is_static(request.uri) /\ ~Tty

\* A client that sent a request and stayed is not closed on without an answer.
NotIgnored == step = "accept" /\ client = "there" => response # <<>>

\* The server ends only because a client left, a file is empty, may not be
\* read, or changed after stat, or no process can be had.
DeathExplained ==
    step = "dead" => client = "gone" \/ sbuf.size = 0 \/ file # sbuf \/ sbuf.mode = "denied"
                      \/ ~is_static(request.uri)

\* What Tiny owes its clients: nothing kept between connections, one answer
\* that agrees with the file, no client ignored, no end without a cause.
TinyAnswers == Tidy /\ Answered /\ NotIgnored /\ DeathExplained

\* A whole request is served to its end: the connection is closed.
ConnectionsEnd ==
    (step \notin {"accept", "dead"} /\ whole /\ client = "there") ~> step \in {"accept", "dead"}
=============================================================================
