-------------------------------- MODULE Sbuf --------------------------------
(***************************************************************************)
(* The proxy's connection pool (lab07_proxylab/sbuf.c and its use in       *)
(* proxy.c): the main thread accepts connections and inserts their         *)
(* descriptors into a ring; the workers remove them, serve them and close  *)
(* them.  Each semaphore operation and each access to the ring or to its   *)
(* counters is a step of its own, so that nothing but the semaphores keeps *)
(* the threads apart.                                                      *)
(***************************************************************************)
EXTENDS Integers, Sequences, FiniteSets

CONSTANTS
    Main,      \* the thread that accepts
    Workers,   \* the threads that serve
    Fds,       \* descriptors accept may return
    NoFd,      \* no descriptor
    N,         \* slots of the ring (SBUFSIZE)
    MaxConns   \* bound: connections accepted in a behaviour

ASSUME NAssumption == N \in Nat \ {0}
ASSUME NoFdAssumption == NoFd \notin Fds
ASSUME MainAssumption == Main \notin Workers
ASSUME WorkersAssumption == IsFiniteSet(Workers)
ASSUME MaxConnsAssumption == MaxConns \in Nat

VARIABLES
    buf,          \* the ring
    rear, front,  \* counters of insertions and of removals
    mutex, slots, items,  \* the three semaphores
    pc,           \* where each thread is
    conn,         \* the descriptor each thread works on
    open,         \* accepted and not closed
    accepted,     \* how many were accepted
    exited        \* a csapp wrapper has ended the process

poolVars == <<buf, rear, front, mutex, slots, items, pc, conn, open, accepted>>
vars == <<poolVars, exited>>
ringVars == <<buf, rear, front>>

Threads == {Main} \cup Workers
MainAt == {"accept", "slots", "lock", "rear", "store", "unlock", "items"}
WorkerAt == {"items", "lock", "front", "load", "unlock", "slots", "serve"}

TypeOK ==
    /\ buf \in [0 .. N - 1 -> Fds \cup {NoFd}]
    /\ rear \in Nat /\ front \in Nat
    /\ mutex \in {0, 1} /\ slots \in Nat /\ items \in Nat
    /\ pc \in [Threads -> MainAt \cup WorkerAt]
    /\ pc[Main] \in MainAt
    /\ \A t \in Workers : pc[t] \in WorkerAt
    /\ conn \in [Threads -> Fds \cup {NoFd}]
    /\ open \subseteq Fds
    /\ accepted \in 0 .. MaxConns
    /\ exited \in BOOLEAN

\* sbuf_init.  Calloc zeroes the ring: no descriptor accept ever returns.
Init ==
    /\ buf = [i \in 0 .. N - 1 |-> NoFd]
    /\ rear = 0 /\ front = 0
    /\ mutex = 1 /\ slots = N /\ items = 0
    /\ pc = [t \in Threads |-> IF t = Main THEN "accept" ELSE "items"]
    /\ conn = [t \in Threads |-> NoFd]
    /\ open = {} /\ accepted = 0 /\ exited = FALSE

Goto(t, from, to) == pc[t] = from /\ pc' = [pc EXCEPT ![t] = to]

(***************************************************************************)
(* The main thread                                                         *)
(***************************************************************************)

\* accept returns a descriptor that is not in use.
Accept ==
    /\ accepted < MaxConns
    /\ Goto(Main, "accept", "slots")
    /\ \E fd \in Fds \ open :
          /\ conn' = [conn EXCEPT ![Main] = fd]
          /\ open' = open \cup {fd}
    /\ accepted' = accepted + 1
    /\ UNCHANGED <<ringVars, mutex, slots, items>>

\* Mutated: the insertion does not wait for a free slot.
InsertPNoWait ==
    /\ Goto(Main, "slots", "lock")
    /\ slots' = slots - 1
    /\ UNCHANGED <<ringVars, mutex, items, conn, open, accepted>>

InsertP ==
    /\ slots > 0
    /\ Goto(Main, "slots", "lock")
    /\ slots' = slots - 1
    /\ UNCHANGED <<ringVars, mutex, items, conn, open, accepted>>

InsertLock ==
    /\ mutex = 1
    /\ Goto(Main, "lock", "rear")
    /\ mutex' = 0
    /\ UNCHANGED <<ringVars, slots, items, conn, open, accepted>>

InsertRear ==
    /\ Goto(Main, "rear", "store")
    /\ rear' = rear + 1
    /\ UNCHANGED <<buf, front, mutex, slots, items, conn, open, accepted>>

InsertStore ==
    /\ Goto(Main, "store", "unlock")
    /\ buf' = [buf EXCEPT ![rear % N] = conn[Main]]
    /\ UNCHANGED <<rear, front, mutex, slots, items, conn, open, accepted>>

InsertUnlock ==
    /\ Goto(Main, "unlock", "items")
    /\ mutex' = 1
    /\ UNCHANGED <<ringVars, slots, items, conn, open, accepted>>

InsertV ==
    /\ Goto(Main, "items", "accept")
    /\ items' = items + 1
    /\ conn' = [conn EXCEPT ![Main] = NoFd]
    /\ UNCHANGED <<ringVars, mutex, slots, open, accepted>>

(***************************************************************************)
(* A worker                                                                *)
(***************************************************************************)

RemoveP(t) ==
    /\ items > 0
    /\ Goto(t, "items", "lock")
    /\ items' = items - 1
    /\ UNCHANGED <<ringVars, mutex, slots, conn, open, accepted>>

\* Mutated: the removal does not take the mutex.
RemoveLockNoMutex(t) ==
    /\ Goto(t, "lock", "front")
    /\ UNCHANGED <<ringVars, mutex, slots, items, conn, open, accepted>>

RemoveLock(t) ==
    /\ mutex = 1
    /\ Goto(t, "lock", "front")
    /\ mutex' = 0
    /\ UNCHANGED <<ringVars, slots, items, conn, open, accepted>>

RemoveFront(t) ==
    /\ Goto(t, "front", "load")
    /\ front' = front + 1
    /\ UNCHANGED <<buf, rear, mutex, slots, items, conn, open, accepted>>

RemoveLoad(t) ==
    /\ Goto(t, "load", "unlock")
    /\ conn' = [conn EXCEPT ![t] = buf[front % N]]
    /\ UNCHANGED <<ringVars, mutex, slots, items, open, accepted>>

RemoveUnlock(t) ==
    /\ Goto(t, "unlock", "slots")
    /\ mutex' = 1
    /\ UNCHANGED <<ringVars, slots, items, conn, open, accepted>>

\* Mutated: the removal does not give the slot back.
RemoveVNone(t) ==
    /\ Goto(t, "slots", "serve")
    /\ UNCHANGED <<ringVars, mutex, slots, items, conn, open, accepted>>

RemoveV(t) ==
    /\ Goto(t, "slots", "serve")
    /\ slots' = slots + 1
    /\ UNCHANGED <<ringVars, mutex, items, conn, open, accepted>>

\* thread: doit has returned; Close.
Serve(t) ==
    /\ Goto(t, "serve", "items")
    /\ open' = open \ {conn[t]}
    /\ conn' = [conn EXCEPT ![t] = NoFd]
    /\ UNCHANGED <<ringVars, mutex, slots, items, accepted>>

\* A wrapper of csapp.c that fails ends the process: in main Accept and
\* Getnameinfo, in a worker those that doit calls.
Exit ==
    /\ ~exited /\ exited' = TRUE
    /\ pc[Main] \in {"accept", "slots"} \/ \E t \in Workers : pc[t] = "serve"
    /\ UNCHANGED poolVars

Alive == ~exited /\ UNCHANGED exited

MainStep ==
    Alive /\ \/ InsertP \/ InsertLock \/ InsertRear \/ InsertStore
             \/ InsertUnlock \/ InsertV

\* A worker on its way from one doit to the next.
WorkerStep(t) ==
    Alive /\ \/ RemoveP(t) \/ RemoveLock(t) \/ RemoveFront(t) \/ RemoveLoad(t)
             \/ RemoveUnlock(t) \/ RemoveV(t)

Next ==
    \/ Alive /\ Accept
    \/ MainStep
    \/ \E t \in Workers : WorkerStep(t) \/ (Alive /\ Serve(t))
    \/ Exit

Spec == Init /\ [][Next]_vars

\* Every thread that can run does.  Clients need not connect, and a doit need
\* not return: it waits without a timeout for its client and for its server.
PoolFairness == WF_vars(MainStep) /\ \A t \in Workers : WF_vars(WorkerStep(t))
FairSpec == Spec /\ PoolFairness

(***************************************************************************)
(* Properties                                                              *)
(***************************************************************************)

\* The ring's content: insertions and removals count once the slot has been
\* written or read, not when its counter moves.
Written == rear - (IF pc[Main] = "store" THEN 1 ELSE 0)
Read == front - (IF \E t \in Workers : pc[t] = "load" THEN 1 ELSE 0)
Pooled == [i \in 1 .. Written - Read |-> buf[(Read + i) % N]]

Pool == INSTANCE Channel WITH
    Items <- Fds, NoItem <- NoFd, Receivers <- Workers, Cap <- N,
    queue <- Pooled, held <- [t \in Workers |-> conn[t]]

\* The semaphores and the ring make a bounded first-in first-out channel: no
\* descriptor is overwritten, handed to two workers, invented or overtaken.
IsChannel == Pool!Spec

\* "sbuf_remove returns only if remove(get) a fd" (proxy.c:231): a worker
\* past sbuf_remove has a descriptor that is open, and no thread shares it.
ServesOwnFd ==
    /\ TypeOK
    /\ \A t \in Workers : pc[t] = "serve" =>
           conn[t] \in open /\ \A u \in Threads \ {t} : conn[u] # conn[t]

InDoit(fd) == \E t \in Workers : pc[t] = "serve" /\ conn[t] = fd

\* Every connection that is accepted comes to a worker's doit, whatever becomes
\* of the others: no wakeup of slots or items is lost, and a doit that never
\* returns keeps its own worker only.  Nothing but the end of the process, or a
\* doit that never returns in every worker, stops the pool.
EveryConnServed ==
    \/ <>[](exited \/ \A t \in Workers : pc[t] = "serve")
    \/ \A fd \in Fds : (fd \in open) ~> InDoit(fd)

(***************************************************************************)
(* The inductive invariant of the proofs in ProxyLabProofs                 *)
(***************************************************************************)

\* mutex is free when no thread is inside, and one thread is inside at most.
Inside(t) == pc[t] \in (IF t = Main THEN {"rear", "store", "unlock"} ELSE {"front", "load", "unlock"})
Exclusion ==
    /\ mutex = 1 => \A t \in Threads : ~Inside(t)
    /\ \A t, u \in Threads : Inside(t) /\ Inside(u) => t = u

\* Every descriptor in the ring is one of items, or on its way from or to it;
\* every other slot is one of slots, or on its way.
WorkersIn(P) == Cardinality({t \in Workers : pc[t] \in P})
MainIn(P) == IF pc[Main] \in P THEN 1 ELSE 0
ItemsCounted ==
    items + WorkersIn({"lock", "front"}) + MainIn({"store", "unlock", "items"}) = rear - front
SlotsCounted ==
    slots + WorkersIn({"load", "unlock", "slots"}) + MainIn({"lock", "rear"}) = N - (rear - front)

\* The descriptors in the ring, those of the workers that removed one, and the
\* one main is about to store are open and all different.
Holds(t) == pc[t] \in {"unlock", "slots", "serve"}
Bringing == pc[Main] \in {"slots", "lock", "rear", "store"}
Fd(p) == buf[p % N]
RingDistinct ==
    \A p \in Read + 1 .. Written :
        /\ Fd(p) \in open
        /\ \A q \in Read + 1 .. Written : Fd(p) = Fd(q) => p = q
        /\ \A t \in Workers : Holds(t) => Fd(p) # conn[t]
        /\ Bringing => Fd(p) # conn[Main]
ThreadsDistinct ==
    /\ \A t \in Workers :
           IF Holds(t)
           THEN /\ conn[t] \in open
                /\ \A u \in Workers : Holds(u) /\ conn[u] = conn[t] => u = t
                /\ Bringing => conn[Main] # conn[t]
           ELSE conn[t] = NoFd
    /\ Bringing => conn[Main] \in open
    /\ pc[Main] \in {"unlock", "items"} => conn[Main] = Fd(rear)
    /\ pc[Main] = "accept" => conn[Main] = NoFd

SbufIInv ==
    TypeOK /\ Exclusion /\ ItemsCounted /\ SlotsCounted /\ RingDistinct /\ ThreadsDistinct

=============================================================================
