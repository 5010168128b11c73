-------------------------------- MODULE Rio --------------------------------
(***************************************************************************)
(* The robust I/O package of lab07_proxylab/csapp.c and its wrappers: one  *)
(* process on one descriptor, a step per read() or write().  The bytes of  *)
(* a stream are named by their place in it, 1, 2, 3, ...  A descriptor is  *)
(* read through its buffer, or read directly, or written.                  *)
(***************************************************************************)
EXTENDS Integers, Sequences

CONSTANTS
    RIO_BUFSIZE,
    MaxStream,     \* bound: bytes the peer sends
    MaxWant        \* bound: the n or maxlen of a call

ASSUME RioAssumption ==
    /\ RIO_BUFSIZE \in Nat \ {0}
    /\ MaxStream \in Nat /\ MaxWant \in Nat

VARIABLES
    total,         \* bytes the peer sends before it closes
    newlines,      \* those of them that are newlines
    mode,          \* buffered, direct, write
    taken,         \* bytes read() has given out
    rio_buf, rio_bufptr, rio_cnt,
    call,          \* the function running, or the last one
    want,          \* its n or maxlen
    before,        \* bytes that earlier calls gave out, or sent
    got,           \* bytes this call has given out, or sent
    rc,            \* what the last call returned
    proc           \* idle, running, exited

stream == <<total, newlines, mode>>
rio == <<rio_buf, rio_bufptr, rio_cnt>>
rioVars == <<stream, taken, rio, call, want, before, got, rc, proc>>

RioInit ==
    /\ total \in 0 .. MaxStream /\ newlines \in SUBSET (1 .. total)
    /\ mode \in {"buffered", "direct", "write"}
    /\ taken = 0 /\ call = "none" /\ want = 0 /\ before = 0 /\ got = <<>>
    /\ rc = 0 /\ proc = "idle"
    \* rio_readinitb
    /\ rio_buf = [i \in 1 .. RIO_BUFSIZE |-> 0] /\ rio_bufptr = 1 /\ rio_cnt = 0

Calls == [buffered |-> {"readnb", "readlineb"}, direct |-> {"readn"}, write |-> {"writen"}]
Call(c, n) ==
    /\ proc = "idle" /\ c \in Calls[mode]
    /\ proc' = "running" /\ call' = c /\ want' = n /\ before' = before + Len(got) /\ got' = <<>>
    /\ UNCHANGED <<stream, taken, rio, rc>>

Return(n) == rc' = n /\ proc' = "idle"

\* A wrapper ends the process on any error but an interrupted call, which its
\* loop repeats.
Fails == rc' = -1 /\ proc' = "exited"
Retries == UNCHANGED <<rc, proc>>

AtMost(m, n) == IF m <= n THEN m ELSE n
Left == want - Len(got)

(***************************************************************************)
(* The unbuffered functions                                                *)
(***************************************************************************)

\* Mutated: a short read ends the call.
ReadShort ==
    /\ proc = "running" /\ call = "readn"
    /\ \/ \E k \in 1 .. AtMost(Left, total - taken) :
              /\ got' = [i \in 1 .. k |-> taken + i] /\ taken' = taken + k /\ Return(k)
       \/ (Left = 0 \/ taken = total) /\ Return(Len(got)) /\ UNCHANGED <<got, taken>>
    /\ UNCHANGED <<stream, rio, call, want, before>>

rio_readn ==
    /\ proc = "running" /\ call = "readn"
    /\ \/ \E k \in 1 .. AtMost(Left, total - taken) :
              /\ got' = got \o [i \in 1 .. k |-> taken + i] /\ taken' = taken + k /\ Retries
       \/ /\ \/ (Left = 0 \/ taken = total) /\ Return(Len(got))
             \/ Left > 0 /\ (Fails \/ Retries)
          /\ UNCHANGED <<got, taken>>
    /\ UNCHANGED <<stream, rio, call, want, before>>

rio_writen ==
    /\ proc = "running" /\ call = "writen"
    /\ \/ \E k \in 1 .. Left : got' = got \o [i \in 1 .. k |-> before + Len(got) + i] /\ Retries
       \/ /\ (Left = 0 /\ Return(want)) \/ (Left > 0 /\ (Fails \/ Retries))
          /\ UNCHANGED got
    /\ UNCHANGED <<stream, taken, rio, call, want, before>>

(***************************************************************************)
(* The buffered functions                                                  *)
(***************************************************************************)

\* The loop of the call is over: all n bytes, or a line, or maxlen - 1 bytes.
Ended ==
    IF call = "readnb" THEN Left = 0
    ELSE Left <= 1 \/ (got # <<>> /\ got[Len(got)] \in newlines)

Buffered == proc = "running" /\ call \in {"readnb", "readlineb"}

\* rio_read, its loop: the buffer is empty and read() is called.  At the end of
\* the stream the call returns what it has, 0 if that is nothing.
Refill ==
    /\ Buffered /\ ~Ended /\ rio_cnt <= 0
    /\ \/ \E k \in 1 .. AtMost(RIO_BUFSIZE, total - taken) :
              /\ rio_buf' = [i \in DOMAIN rio_buf |-> IF i <= k THEN taken + i ELSE rio_buf[i]]
              /\ rio_bufptr' = 1 /\ rio_cnt' = k /\ taken' = taken + k /\ Retries
       \/ /\ \/ taken = total /\ rio_cnt' = 0 /\ Return(Len(got))
             \/ rio_cnt' = -1 /\ (Fails \/ Retries)
          /\ UNCHANGED <<rio_buf, rio_bufptr, taken>>
    /\ UNCHANGED <<stream, call, want, before, got>>

\* rio_read, its end: min(n, rio_cnt) bytes; rio_readlineb asks for one.
Transfer == IF call = "readlineb" THEN 1 ELSE AtMost(Left, rio_cnt)
Copy ==
    /\ Buffered /\ ~Ended /\ rio_cnt > 0
    /\ got' = got \o [i \in 1 .. Transfer |-> rio_buf[rio_bufptr + i - 1]]
    /\ rio_bufptr' = rio_bufptr + Transfer /\ rio_cnt' = rio_cnt - Transfer
    /\ UNCHANGED <<stream, taken, rio_buf, call, want, before, rc, proc>>

Finish ==
    /\ Buffered /\ Ended /\ Return(Len(got))
    /\ UNCHANGED <<stream, taken, rio, call, want, before, got>>

\* Bound: a call may ask for one byte more than the longest stream has left.
RioNext ==
    \/ \E c \in {"readn", "readnb", "readlineb", "writen"}, n \in 0 .. MaxWant :
           before + Len(got) + n <= MaxStream + 1 /\ Call(c, n)
    \/ rio_readn \/ rio_writen \/ Refill \/ Copy \/ Finish

RioSpec == RioInit /\ [][RioNext]_rioVars

(***************************************************************************)
(* Properties                                                              *)
(***************************************************************************)

RioTypeOK ==
    /\ total \in Nat /\ newlines \subseteq Nat /\ mode \in {"buffered", "direct", "write"}
    /\ taken \in 0 .. total /\ rio_buf \in [1 .. RIO_BUFSIZE -> Nat]
    /\ rio_bufptr \in 1 .. RIO_BUFSIZE + 1 /\ rio_cnt \in -1 .. RIO_BUFSIZE
    /\ call \in {"none", "readn", "readnb", "readlineb", "writen"}
    /\ want \in Nat /\ before \in Nat /\ got \in Seq(Nat) /\ rc \in Int
    /\ proc \in {"idle", "running", "exited"}

\* What the calls have given out, or sent, is the stream in order.
InOrder == \A i \in 1 .. Len(got) : got[i] = before + i

\* Every byte read() gave out was passed on or is in the buffer.
NothingLost == mode # "write" => taken = before + Len(got) + (IF rio_cnt > 0 THEN rio_cnt ELSE 0)

\* A call that returned was complete: n bytes, or fewer only at the end of the
\* stream; a whole line and no more, unless maxlen or the end cut it.
Complete ==
    proc = "idle" /\ call # "none" =>
        /\ rc = Len(got)
        /\ call = "writen" => rc = want
        /\ call \in {"readn", "readnb"} => rc = want \/ (rc < want /\ taken = total /\ rio_cnt <= 0)
        /\ call = "readlineb" =>
               /\ \A i \in 1 .. Len(got) - 1 : got[i] \notin newlines
               /\ \/ got # <<>> /\ got[Len(got)] \in newlines
                  \/ rc = want - 1 \/ (want = 0 /\ rc = 0)
                  \/ taken = total /\ rio_cnt <= 0

\* The package's promise: short counts and interrupted calls are invisible.
\* For a maxlen of 0 or 1 rio_readlineb returns 0, which its callers take for
\* the end of the stream.
RioKeepsTheStream == RioTypeOK /\ InOrder /\ NothingLost /\ Complete

(***************************************************************************)
(* The inductive invariant of the proof that RioSpec => []RioKeepsTheStream *)
(***************************************************************************)

\* The buffer holds the bytes that follow those given out, and none else.
BufferFollows ==
    rio_cnt > 0 =>
        /\ rio_bufptr + rio_cnt <= RIO_BUFSIZE + 1
        /\ \A i \in 0 .. rio_cnt - 1 : rio_buf[rio_bufptr + i] = before + Len(got) + 1 + i

\* A descriptor is used in one way.
OneMode ==
    /\ call # "none" => call \in Calls[mode]
    /\ mode # "buffered" => rio_cnt = 0
    /\ call = "none" => proc = "idle" /\ got = <<>>

\* A call never gives out more than it was asked for, and rio_readlineb, which
\* keeps a place for the final zero, stops at the first newline.
NotTooMuch ==
    /\ Len(got) <= want
    /\ call = "readlineb" =>
           /\ got # <<>> => Len(got) < want
           /\ \A i \in 1 .. Len(got) - 1 : got[i] \notin newlines

RioIInv == RioTypeOK /\ InOrder /\ NothingLost /\ Complete /\ BufferFollows /\ OneMode /\ NotTooMuch
=============================================================================
