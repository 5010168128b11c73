------------------------------- MODULE Csapp -------------------------------
(***************************************************************************)
(* The wrappers of lab07_proxylab/csapp.c around system and library calls, *)
(* its signal-safe output of a number, and its two functions that open a   *)
(* socket.  A process makes one call after another, while signals that it  *)
(* handles arrive.  What the calls themselves return is external.          *)
(***************************************************************************)
EXTENDS Integers, Sequences

CONSTANTS
    LongBits,      \* width of a long
    Numbers,       \* bound: the numbers printed
    MaxAddresses   \* bound: addresses getaddrinfo finds

ASSUME CsappAssumption ==
    /\ LongBits \in Nat \ {0} /\ MaxAddresses \in Nat
    /\ Numbers \subseteq -(2 ^ (LongBits - 1)) .. 2 ^ (LongBits - 1) - 1

(***************************************************************************)
(* The wrapped calls                                                       *)
(***************************************************************************)

Process == {"fork", "execve", "wait", "waitpid", "kill", "pause", "sleep", "alarm", "setpgid", "getpgrp"}
Signals == {"sigprocmask", "sigemptyset", "sigfillset", "sigaddset", "sigdelset", "sigismember", "sigsuspend"}
UnixIO == {"open", "read", "write", "lseek", "close", "select", "dup2", "stat", "fstat"}
Directories == {"opendir", "readdir", "closedir"}
Memory == {"mmap", "munmap", "malloc", "realloc", "calloc", "free"}
StdIO == {"fclose", "fdopen", "fgets", "fopen", "fputs", "fread", "fwrite"}
Sockets == {"socket", "setsockopt", "bind", "listen", "accept", "connect"}
Addresses == {"getaddrinfo", "getnameinfo", "freeaddrinfo", "inet_ntop", "inet_pton"}
DNS == {"gethostbyname", "gethostbyaddr"}
Pthreads == {"pthread_create", "pthread_cancel", "pthread_join", "pthread_detach", "pthread_exit",
             "pthread_self", "pthread_once"}
Semaphores == {"sem_init", "sem_wait", "sem_post"}
Wrapped == Process \cup Signals \cup UnixIO \cup Directories \cup Memory \cup StdIO \cup Sockets
               \cup Addresses \cup DNS \cup Pthreads \cup Semaphores

Pointers == {"opendir", "malloc", "realloc", "calloc", "fdopen", "fopen", "inet_ntop"} \cup DNS
\* Calls that cannot fail.
Sure == {"pause", "sleep", "alarm", "getpgrp", "free", "freeaddrinfo", "pthread_exit", "pthread_self", "pthread_once"}

\* What a call returns, errno, and the stream's error flag.
R(rc, errno, ferror) == [rc |-> rc, errno |-> errno, ferror |-> ferror]

Failures(f) ==
    CASE f \in Sure -> {}
      [] f \in Pointers \cup {"readdir", "fwrite"} -> {R(0, "other", FALSE)}
      [] f \in {"fgets", "fread"} -> {R(0, "other", TRUE)}
      [] f \in Pthreads \ Sure -> {R(11, "none", FALSE)}
      [] f \in {"getaddrinfo", "getnameinfo"} -> {R(-2, "none", FALSE)}
      [] f = "inet_pton" -> {R(0, "none", FALSE), R(-1, "other", FALSE)}
      [] OTHER -> {R(-1, "other", FALSE)}
\* readdir, fgets and fread may be at the end; realloc to 0 bytes frees.
Successes(f) ==
    CASE f \in {"readdir", "fgets", "fread", "realloc", "sleep"} -> {R(1, "none", FALSE), R(0, "none", FALSE)}
      [] f \in (Pointers \ {"realloc"}) \cup {"mmap", "fwrite", "inet_pton"} -> {R(1, "none", FALSE)}
      [] f \in (Pthreads \ Sure) \cup {"getaddrinfo", "getnameinfo", "fclose"} -> {R(0, "none", FALSE)}
      [] f \in {"sigsuspend", "pause"} -> {R(-1, "EINTR", FALSE)}
      [] OTHER -> {R(0, "none", FALSE), R(1, "none", FALSE)}

\* Calls that wait and that a handled signal interrupts; those that the kernel
\* takes up again after a handler with SA_RESTART.
Slow == {"wait", "waitpid", "open", "read", "write", "accept", "connect", "sem_wait", "select"}
Restarted == Slow \ {"select"}

(***************************************************************************)
(* What the code makes of the results                                      *)
(***************************************************************************)

\* Mutated: the thread functions are taken to return -1, like system calls.
PthreadNegative(r) == r.rc < 0

PthreadFailed(r) == r.rc # 0

ProcessExits(f, r) == f \notin {"pause", "alarm", "getpgrp"} /\ f # "sleep" /\ r.rc < 0
SignalExits(f, r) == IF f = "sigsuspend" THEN r.errno # "EINTR" ELSE r.rc < 0
UnixIOExits(r) == r.rc < 0
DirectoryExits(f, r) ==
    CASE f = "opendir" -> r.rc = 0 [] f = "readdir" -> r.rc = 0 /\ r.errno # "none" [] OTHER -> r.rc < 0
MemoryExits(f, r) ==
    CASE f = "mmap" -> r.rc = -1 [] f = "munmap" -> r.rc < 0 [] f = "free" -> FALSE [] OTHER -> r.rc = 0
StdIOExits(f, r) ==
    CASE f = "fclose" -> r.rc # 0
      [] f \in {"fdopen", "fopen"} -> r.rc = 0
      [] f = "fputs" -> r.rc = -1
      [] f \in {"fgets", "fread"} -> r.rc = 0 /\ r.ferror
      [] OTHER -> r.rc < 1
SocketExits(r) == r.rc < 0
AddressExits(f, r) ==
    CASE f = "freeaddrinfo" -> FALSE
      [] f = "inet_ntop" -> r.rc = 0
      [] f = "inet_pton" -> r.rc <= 0
      [] OTHER -> r.rc # 0
DNSExits(r) == r.rc = 0
ThreadExits(f, r) == f \notin {"pthread_exit", "pthread_self", "pthread_once"} /\ PthreadFailed(r)
SemaphoreExits(r) == r.rc < 0

Exits(f, r) ==
    \/ (f \in Process /\ ProcessExits(f, r)) \/ (f \in Signals /\ SignalExits(f, r))
    \/ (f \in UnixIO /\ UnixIOExits(r)) \/ (f \in Directories /\ DirectoryExits(f, r))
    \/ (f \in Memory /\ MemoryExits(f, r)) \/ (f \in StdIO /\ StdIOExits(f, r))
    \/ (f \in Sockets /\ SocketExits(r)) \/ (f \in Addresses /\ AddressExits(f, r))
    \/ (f \in DNS /\ DNSExits(r)) \/ (f \in Pthreads /\ ThreadExits(f, r))
    \/ (f \in Semaphores /\ SemaphoreExits(r))

VARIABLES
    doing,         \* what the process does: a wrapped call, a function below, or idle
    done,          \* what it did last
    result,        \* ... and what that call returned
    failed,        \* ... and that it failed
    flags,         \* sa_flags of the handler that Signal installed, if any
    ended,         \* the process is over
    number, text,  \* what sio_putl printed, and as what, if that was last
    left, tried,   \* addresses to try, and a close failed among those tried
    fds, list      \* descriptors open, and the list of addresses is allocated

callVars == <<done, result, failed>>
openVars == <<left, tried, fds, list>>
csappVars == <<doing, callVars, flags, ended, number, text, openVars>>

CsappInit ==
    /\ doing = "idle" /\ done = "idle" /\ result = R(0, "none", FALSE) /\ failed = FALSE
    /\ flags = "no handler" /\ ended = FALSE /\ number = 0 /\ text = <<>>
    /\ left = 0 /\ tried = FALSE /\ fds = 0 /\ list = FALSE

Idle == doing = "idle" /\ ~ended
Quiet == number' = 0 /\ text' = <<>>

\* Signal.
Signal ==
    /\ Idle /\ flags' = "SA_RESTART"
    /\ Quiet /\ UNCHANGED <<doing, callVars, ended, openVars>>

Enter(f) ==
    /\ Idle /\ doing' = f
    /\ Quiet /\ UNCHANGED <<callVars, flags, ended, openVars>>

\* A wrapper's call is over: unix_error and its relatives exit.
Leaves(r, bad) ==
    /\ doing' = "idle" /\ done' = doing /\ result' = r /\ failed' = bad
    /\ ended' = Exits(doing, r)
    /\ Quiet /\ UNCHANGED <<flags, openVars>>
Returns ==
    /\ doing \in Wrapped
    /\ \/ \E r \in Successes(doing) : Leaves(r, FALSE)
       \/ \E r \in Failures(doing) : Leaves(r, TRUE)

\* A handler runs while the call waits; with SA_RESTART most calls go on.
Interrupt ==
    /\ doing \in Slow /\ flags # "no handler" /\ ~(flags = "SA_RESTART" /\ doing \in Restarted)
    /\ Leaves(R(-1, "EINTR", FALSE), TRUE)

(***************************************************************************)
(* sio_ltoa: digits from the last, of the number without its sign          *)
(***************************************************************************)

LongMin == -(2 ^ (LongBits - 1))
\* C's quotient and remainder truncate.
Quot(v) == IF v >= 0 THEN v \div 10 ELSE -((-v) \div 10)
Rem(v) == v - 10 * Quot(v)
Digits[v \in LongMin .. 2 ^ (LongBits - 1)] ==
    IF Quot(v) > 0 THEN Digits[Quot(v)] \o <<Rem(v)>> ELSE <<Rem(v)>>
\* Mutated: the digits are those of the number with its sign.
sio_ltoaSigned(v) == [neg |-> v < 0, digits |-> Digits[v]]

\* The smallest number is its own negative, as the hardware computes it.
sio_ltoa(v) == [neg |-> v < 0, digits |-> Digits[IF v < 0 /\ v # LongMin THEN -v ELSE v]]

sio_putl ==
    /\ Idle /\ \E v \in Numbers : number' = v /\ text' = <<sio_ltoa(v)>>
    /\ done' = "sio_putl" /\ UNCHANGED <<doing, result, failed, flags, ended, openVars>>

(***************************************************************************)
(* open_clientfd and open_listenfd, and their wrappers                     *)
(***************************************************************************)

Openers == {"open_clientfd", "open_listenfd"}

OpenEnds(rc) ==
    /\ doing' = "idle" /\ done' = doing /\ result' = R(rc, "other", FALSE) /\ failed' = (rc < 0)
    /\ ended' = (rc < 0)

LookUp(f) ==
    /\ Idle /\ fds = 0 /\ ~list
    /\ \/ /\ doing' = f /\ list' = TRUE /\ left' \in 1 .. MaxAddresses /\ tried' = FALSE
          /\ UNCHANGED <<callVars, ended>>
       \/ /\ doing' = "idle" /\ done' = f /\ result' = R(-2, "other", FALSE) /\ failed' = TRUE /\ ended' = TRUE
          /\ UNCHANGED <<list, left, tried>>
    /\ Quiet /\ UNCHANGED <<flags, fds>>

\* socket, then connect or bind: another address is tried when one fails.
Try ==
    /\ doing \in Openers /\ fds = 0 /\ left > 0
    /\ \/ fds' = 1 /\ UNCHANGED <<left, tried, doing, callVars, ended, list>>
       \/ left' = left - 1 /\ UNCHANGED <<fds, tried, doing, callVars, ended, list>>
       \/ tried' = TRUE /\ OpenEnds(-1) /\ fds' = 1 /\ UNCHANGED <<left, list>>
    /\ Quiet /\ UNCHANGED <<flags>>

\* The list is freed; a listening socket that cannot listen is closed.
Opened ==
    /\ doing \in Openers /\ (fds = 1 \/ left = 0) /\ list' = FALSE
    /\ \/ fds = 1 /\ OpenEnds(3) /\ UNCHANGED fds
       \/ (left = 0 \/ doing = "open_listenfd") /\ OpenEnds(-1) /\ fds' = 0
    /\ Quiet /\ UNCHANGED <<flags, left, tried>>

\* The caller is done with the descriptor.
CloseOpened ==
    /\ Idle /\ fds = 1 /\ fds' = 0 /\ Quiet /\ UNCHANGED <<doing, callVars, flags, ended, left, tried, list>>

CsappNext ==
    \/ \E f \in Wrapped : Enter(f)
    \/ \E f \in Openers : LookUp(f)
    \/ Signal \/ Returns \/ Interrupt \/ sio_putl \/ Try \/ Opened \/ CloseOpened

(***************************************************************************)
(* Properties                                                              *)
(***************************************************************************)

\* No wrapper returns from a call that failed, and none ends the process for
\* one that did not, but Realloc to 0 bytes.  A handled signal ends no process
\* that waits in a wrapped call, but in Select.
WrappersReport ==
    done \in Wrapped =>
        /\ failed => ended
        /\ ended => failed \/ (done = "realloc" /\ result.rc = 0)
        /\ ended /\ result.errno = "EINTR" => done = "select"

\* The number that decimal digits stand for.
Value[ds \in Seq(0 .. 9)] ==
    IF ds = <<>> THEN 0 ELSE 10 * Value[SubSeq(ds, 1, Len(ds) - 1)] + ds[Len(ds)]

\* The digits sio_putl prints are the number's, but for the least one, whose
\* negation is itself.
PrintsTheNumber ==
    \A i \in 1 .. Len(text) :
        number # LongMin =>
            /\ \A j \in 1 .. Len(text[i].digits) : text[i].digits[j] \in 0 .. 9
            /\ number = (IF text[i].neg THEN -1 ELSE 1) * Value[text[i].digits]

\* A descriptor is returned when one address worked, and no other stays open;
\* the list of addresses is given back unless a close failed.
OpensOne ==
    done \in Openers /\ doing = "idle" =>
        /\ result.rc < 0 <=> ended
        /\ result.rc = -1 /\ ~tried => fds = 0
        /\ list => tried

\* No wrapper hides a failure or invents one, and the functions that open a
\* socket keep none but the one they return.
CsappKeepsItsWord == WrappersReport /\ OpensOne
=============================================================================
