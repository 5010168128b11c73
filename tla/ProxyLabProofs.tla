--------------------------- MODULE ProxyLabProofs ---------------------------
(***************************************************************************)
(* What is proved of the parts of the proxy lab that share no state: the   *)
(* connection pool, the robust I/O package, the web server Tiny and the    *)
(* wrappers of csapp.c.  Each has an invariant of its own.                 *)
(***************************************************************************)
EXTENDS Sbuf, Rio, Tiny, Csapp, FiniteSetTheorems, SequenceTheorems, TLAPS

-----------------------------------------------------------------------------
(***************************************************************************)
(* The connection pool, for any number of workers, of slots and of         *)
(* connections: what a worker removes is its own.                          *)
(***************************************************************************)

(***************************************************************************)
(* Arithmetic of the ring                                                  *)
(***************************************************************************)

LEMMA SlotInRing == ASSUME NEW p \in Nat PROVE p % N \in 0 .. N - 1
BY NAssumption

\* Two positions less than N apart have slots of their own.
LEMMA SlotsDiffer ==
    ASSUME NEW p \in Nat, NEW q \in Nat, p < q, q - p < N
    PROVE  p % N # q % N
<1> SUFFICES ASSUME p % N = q % N PROVE FALSE
  OBVIOUS
<1>1. p % N = p - N * (p \div N) /\ q % N = q - N * (q \div N)
  BY NAssumption
<1>2. p \div N \in Int /\ q \div N \in Int
  BY NAssumption
<1> DEFINE a == p \div N  b == q \div N
<1>3. p - N * a = q - N * b /\ a \in Int /\ b \in Int
  BY <1>1, <1>2
<1> HIDE DEF a, b
<1>4. N * (b - a) = q - p
  <2>1. N * (b - a) = N * b - N * a
    BY <1>3, NAssumption
  <2>2. N * a \in Int /\ N * b \in Int
    BY <1>3, NAssumption
  <2> QED
    BY <1>3, <2>1, <2>2
<1>5. CASE b - a <= 0
  <2>1. N * (b - a) <= 0
    BY <1>3, <1>5, NAssumption
  <2> QED
    BY <1>4, <2>1
<1>6. CASE b - a >= 1
  <2>1. N * (b - a) >= N
    BY <1>3, <1>6, NAssumption
  <2> QED
    BY <1>4, <2>1, NAssumption
<1> QED
  BY <1>3, <1>5, <1>6

(***************************************************************************)
(* Counting the threads at some of the places                              *)
(***************************************************************************)

LEMMA WorkersCount == ASSUME NEW P PROVE WorkersIn(P) \in Nat
<1>1. IsFiniteSet({t \in Workers : pc[t] \in P})
  BY WorkersAssumption, FS_Subset
<1> QED
  BY <1>1, FS_CardinalityType DEF WorkersIn

LEMMA WorkerMoves ==
    ASSUME NEW t \in Workers, NEW from, NEW to, Goto(t, from, to), pc \in [Threads -> MainAt \cup WorkerAt],
           NEW P
    PROVE  /\ WorkersIn(P)' = WorkersIn(P) + (IF to \in P THEN 1 ELSE 0) - (IF from \in P THEN 1 ELSE 0)
           /\ MainIn(P)' = MainIn(P)
<1> DEFINE S == {u \in Workers : pc[u] \in P}
           T == {u \in Workers : pc'[u] \in P}
<1>1. t \in Threads /\ Main \in Threads /\ t # Main /\ \A u \in Workers : u \in Threads
  BY MainAssumption DEF Threads
<1>2. pc[t] = from /\ pc'[t] = to /\ pc'[Main] = pc[Main] /\ \A u \in Workers \ {t} : pc'[u] = pc[u]
  BY <1>1 DEF Goto
<1>3. IsFiniteSet(S) /\ Cardinality(S) \in Nat
  BY WorkersAssumption, FS_Subset, FS_CardinalityType
<1>4. WorkersIn(P) = Cardinality(S) /\ WorkersIn(P)' = Cardinality(T)
  BY DEF WorkersIn
<1>5. MainIn(P)' = MainIn(P)
  BY <1>2 DEF MainIn
<1> HIDE DEF S, T
<1>6. CASE to \in P /\ from \in P
  <2>1. T = S
    BY <1>2, <1>6 DEF S, T
  <2> QED
    BY <1>3, <1>4, <1>5, <1>6, <2>1
<1>7. CASE to \notin P /\ from \notin P
  <2>1. T = S
    BY <1>2, <1>7 DEF S, T
  <2> QED
    BY <1>3, <1>4, <1>5, <1>7, <2>1
<1>8. CASE to \in P /\ from \notin P
  <2>1. T = S \cup {t} /\ t \notin S
    BY <1>2, <1>8 DEF S, T
  <2>2. Cardinality(T) = Cardinality(S) + 1
    BY <1>3, <2>1, FS_AddElement
  <2> QED
    BY <1>3, <1>4, <1>5, <1>8, <2>2
<1>9. CASE to \notin P /\ from \in P
  <2>1. T = S \ {t} /\ t \in S
    BY <1>2, <1>9 DEF S, T
  <2>2. Cardinality(T) = Cardinality(S) - 1
    BY <1>3, <2>1, FS_RemoveElement
  <2> QED
    BY <1>3, <1>4, <1>5, <1>9, <2>2
<1> QED
  BY <1>6, <1>7, <1>8, <1>9

LEMMA MainMoves ==
    ASSUME NEW from, NEW to, Goto(Main, from, to), pc \in [Threads -> MainAt \cup WorkerAt], NEW P
    PROVE  /\ WorkersIn(P)' = WorkersIn(P)
           /\ MainIn(P) = (IF from \in P THEN 1 ELSE 0)
           /\ MainIn(P)' = (IF to \in P THEN 1 ELSE 0)
<1>1. Main \in Threads /\ Main \notin Workers /\ \A u \in Workers : u \in Threads
  BY MainAssumption DEF Threads
<1>2. pc[Main] = from /\ pc'[Main] = to /\ \A u \in Workers : pc'[u] = pc[u]
  BY <1>1 DEF Goto
<1>3. {u \in Workers : pc'[u] \in P} = {u \in Workers : pc[u] \in P}
  BY <1>2
<1> QED
  BY <1>2, <1>3 DEF WorkersIn, MainIn

(***************************************************************************)
(* Types                                                                   *)
(***************************************************************************)

LEMMA ThreadsAre == Main \in Threads /\ Main \notin Workers /\ \A t \in Workers : t \in Threads /\ t # Main
BY MainAssumption DEF Threads

LEMMA TypeKept == ASSUME TypeOK, Next PROVE TypeOK'
<1>0. exited' \in BOOLEAN
  BY DEF TypeOK, Next, MainStep, WorkerStep, Alive, Exit
<1> USE <1>0, ThreadsAre, NAssumption DEF ringVars, Goto, MainAt, WorkerAt
<1>1. CASE Accept
  BY <1>1, MaxConnsAssumption DEF TypeOK, Accept
<1>2. CASE InsertP
  BY <1>2 DEF TypeOK, InsertP
<1>3. CASE InsertLock
  BY <1>3 DEF TypeOK, InsertLock
<1>4. CASE InsertRear
  BY <1>4 DEF TypeOK, InsertRear
<1>5. CASE InsertStore
  <2>1. rear % N \in 0 .. N - 1 /\ conn[Main] \in Fds \cup {NoFd}
    BY SlotInRing DEF TypeOK
  <2> QED
    BY <1>5, <2>1 DEF TypeOK, InsertStore
<1>6. CASE InsertUnlock
  BY <1>6 DEF TypeOK, InsertUnlock
<1>7. CASE InsertV
  BY <1>7 DEF TypeOK, InsertV
<1>8. ASSUME NEW t \in Workers, RemoveP(t) PROVE TypeOK'
  BY <1>8 DEF TypeOK, RemoveP
<1>9. ASSUME NEW t \in Workers, RemoveLock(t) PROVE TypeOK'
  BY <1>9 DEF TypeOK, RemoveLock
<1>10. ASSUME NEW t \in Workers, RemoveFront(t) PROVE TypeOK'
  BY <1>10 DEF TypeOK, RemoveFront
<1>11. ASSUME NEW t \in Workers, RemoveLoad(t) PROVE TypeOK'
  <2>1. front % N \in 0 .. N - 1
    BY SlotInRing DEF TypeOK
  <2>2. buf[front % N] \in Fds \cup {NoFd}
    BY <2>1 DEF TypeOK
  <2> QED
    BY <1>11, <2>2 DEF TypeOK, RemoveLoad
<1>12. ASSUME NEW t \in Workers, RemoveUnlock(t) PROVE TypeOK'
  BY <1>12 DEF TypeOK, RemoveUnlock
<1>13. ASSUME NEW t \in Workers, RemoveV(t) PROVE TypeOK'
  BY <1>13 DEF TypeOK, RemoveV
<1>14. ASSUME NEW t \in Workers, Serve(t) PROVE TypeOK'
  BY <1>14 DEF TypeOK, Serve
<1>15. CASE Exit
  BY <1>15 DEF TypeOK, Exit, poolVars
<1> QED
  BY <1>1, <1>2, <1>3, <1>4, <1>5, <1>6, <1>7, <1>8, <1>9, <1>10, <1>11, <1>12, <1>13, <1>14, <1>15
     DEF Next, MainStep, WorkerStep

(***************************************************************************)
(* The mutex                                                               *)
(***************************************************************************)

LEMMA ExclusionKept == ASSUME TypeOK, Exclusion, Next PROVE Exclusion'
<1> USE ThreadsAre DEF ringVars, Goto, TypeOK, Exclusion, Inside
<1>1. CASE Accept
  BY <1>1 DEF Accept
<1>2. CASE InsertP
  BY <1>2 DEF InsertP
<1>3. CASE InsertLock
  BY <1>3 DEF InsertLock
<1>4. CASE InsertRear
  BY <1>4 DEF InsertRear
<1>5. CASE InsertStore
  BY <1>5 DEF InsertStore
<1>6. CASE InsertUnlock
  BY <1>6 DEF InsertUnlock
<1>7. CASE InsertV
  BY <1>7 DEF InsertV
<1>8. ASSUME NEW t \in Workers, RemoveP(t) PROVE Exclusion'
  BY <1>8 DEF RemoveP
<1>9. ASSUME NEW t \in Workers, RemoveLock(t) PROVE Exclusion'
  BY <1>9 DEF RemoveLock
<1>10. ASSUME NEW t \in Workers, RemoveFront(t) PROVE Exclusion'
  BY <1>10 DEF RemoveFront
<1>11. ASSUME NEW t \in Workers, RemoveLoad(t) PROVE Exclusion'
  BY <1>11 DEF RemoveLoad
<1>12. ASSUME NEW t \in Workers, RemoveUnlock(t) PROVE Exclusion'
  BY <1>12 DEF RemoveUnlock
<1>13. ASSUME NEW t \in Workers, RemoveV(t) PROVE Exclusion'
  BY <1>13 DEF RemoveV
<1>14. ASSUME NEW t \in Workers, Serve(t) PROVE Exclusion'
  BY <1>14 DEF Serve
<1>15. CASE Exit
  BY <1>15 DEF Exit, poolVars
<1> QED
  BY <1>1, <1>2, <1>3, <1>4, <1>5, <1>6, <1>7, <1>8, <1>9, <1>10, <1>11, <1>12, <1>13, <1>14, <1>15
     DEF Next, MainStep, WorkerStep

(***************************************************************************)
(* The semaphores                                                          *)
(***************************************************************************)

LEMMA CountsKept ==
    ASSUME TypeOK, ItemsCounted, SlotsCounted, Next
    PROVE  ItemsCounted' /\ SlotsCounted'
<1> DEFINE OnTheWay == {"lock", "front"}  Back == {"load", "unlock", "slots"}
           Stored == {"store", "unlock", "items"}  Storing == {"lock", "rear"}
<1>1. /\ items \in Nat /\ slots \in Nat /\ rear \in Nat /\ front \in Nat /\ N \in Nat
      /\ pc \in [Threads -> MainAt \cup WorkerAt]
      /\ WorkersIn(OnTheWay) \in Nat /\ WorkersIn(Back) \in Nat
  BY WorkersCount, NAssumption DEF TypeOK
<1>2. /\ items + WorkersIn(OnTheWay) + MainIn(Stored) = rear - front
      /\ slots + WorkersIn(Back) + MainIn(Storing) = N - (rear - front)
  BY DEF ItemsCounted, SlotsCounted
<1>3. MainIn(Stored) \in {0, 1} /\ MainIn(Storing) \in {0, 1}
  BY DEF MainIn
<1>4. SUFFICES /\ items' + WorkersIn(OnTheWay)' + MainIn(Stored)' = rear' - front'
               /\ slots' + WorkersIn(Back)' + MainIn(Storing)' = N - (rear' - front')
  BY DEF ItemsCounted, SlotsCounted
<1>5. CASE Accept
  <2>1. Goto(Main, "accept", "slots")
    BY <1>5 DEF Accept
  <2>2. /\ WorkersIn(OnTheWay)' = WorkersIn(OnTheWay) /\ WorkersIn(Back)' = WorkersIn(Back)
        /\ MainIn(Stored) = 0 /\ MainIn(Stored)' = 0
        /\ MainIn(Storing) = 0 /\ MainIn(Storing)' = 0
    <3>1. /\ WorkersIn(OnTheWay)' = WorkersIn(OnTheWay) /\ WorkersIn(Back)' = WorkersIn(Back)
      BY <1>1, <2>1, MainMoves
    <3>2. /\ MainIn(Stored) = (IF "accept" \in Stored THEN 1 ELSE 0)
          /\ MainIn(Stored)' = (IF "slots" \in Stored THEN 1 ELSE 0)
      BY <1>1, <2>1, MainMoves
    <3>3. /\ MainIn(Storing) = (IF "accept" \in Storing THEN 1 ELSE 0)
          /\ MainIn(Storing)' = (IF "slots" \in Storing THEN 1 ELSE 0)
      BY <1>1, <2>1, MainMoves
    <3> QED
      BY <3>1, <3>2, <3>3
  <2> HIDE DEF OnTheWay, Back, Stored, Storing
  <2> QED
    BY <1>1, <1>2, <1>3, <1>5, <2>2 DEF Accept, ringVars
<1>6. CASE InsertP
  <2>1. Goto(Main, "slots", "lock")
    BY <1>6 DEF InsertP
  <2>2. /\ WorkersIn(OnTheWay)' = WorkersIn(OnTheWay) /\ WorkersIn(Back)' = WorkersIn(Back)
        /\ MainIn(Stored) = 0 /\ MainIn(Stored)' = 0
        /\ MainIn(Storing) = 0 /\ MainIn(Storing)' = 1
    <3>1. /\ WorkersIn(OnTheWay)' = WorkersIn(OnTheWay) /\ WorkersIn(Back)' = WorkersIn(Back)
      BY <1>1, <2>1, MainMoves
    <3>2. /\ MainIn(Stored) = (IF "slots" \in Stored THEN 1 ELSE 0)
          /\ MainIn(Stored)' = (IF "lock" \in Stored THEN 1 ELSE 0)
      BY <1>1, <2>1, MainMoves
    <3>3. /\ MainIn(Storing) = (IF "slots" \in Storing THEN 1 ELSE 0)
          /\ MainIn(Storing)' = (IF "lock" \in Storing THEN 1 ELSE 0)
      BY <1>1, <2>1, MainMoves
    <3> QED
      BY <3>1, <3>2, <3>3
  <2> HIDE DEF OnTheWay, Back, Stored, Storing
  <2> QED
    BY <1>1, <1>2, <1>3, <1>6, <2>2 DEF InsertP, ringVars
<1>7. CASE InsertLock
  <2>1. Goto(Main, "lock", "rear")
    BY <1>7 DEF InsertLock
  <2>2. /\ WorkersIn(OnTheWay)' = WorkersIn(OnTheWay) /\ WorkersIn(Back)' = WorkersIn(Back)
        /\ MainIn(Stored) = 0 /\ MainIn(Stored)' = 0
        /\ MainIn(Storing) = 1 /\ MainIn(Storing)' = 1
    <3>1. /\ WorkersIn(OnTheWay)' = WorkersIn(OnTheWay) /\ WorkersIn(Back)' = WorkersIn(Back)
      BY <1>1, <2>1, MainMoves
    <3>2. /\ MainIn(Stored) = (IF "lock" \in Stored THEN 1 ELSE 0)
          /\ MainIn(Stored)' = (IF "rear" \in Stored THEN 1 ELSE 0)
      BY <1>1, <2>1, MainMoves
    <3>3. /\ MainIn(Storing) = (IF "lock" \in Storing THEN 1 ELSE 0)
          /\ MainIn(Storing)' = (IF "rear" \in Storing THEN 1 ELSE 0)
      BY <1>1, <2>1, MainMoves
    <3> QED
      BY <3>1, <3>2, <3>3
  <2> HIDE DEF OnTheWay, Back, Stored, Storing
  <2> QED
    BY <1>1, <1>2, <1>3, <1>7, <2>2 DEF InsertLock, ringVars
<1>8. CASE InsertRear
  <2>1. Goto(Main, "rear", "store")
    BY <1>8 DEF InsertRear
  <2>2. /\ WorkersIn(OnTheWay)' = WorkersIn(OnTheWay) /\ WorkersIn(Back)' = WorkersIn(Back)
        /\ MainIn(Stored) = 0 /\ MainIn(Stored)' = 1
        /\ MainIn(Storing) = 1 /\ MainIn(Storing)' = 0
    <3>1. /\ WorkersIn(OnTheWay)' = WorkersIn(OnTheWay) /\ WorkersIn(Back)' = WorkersIn(Back)
      BY <1>1, <2>1, MainMoves
    <3>2. /\ MainIn(Stored) = (IF "rear" \in Stored THEN 1 ELSE 0)
          /\ MainIn(Stored)' = (IF "store" \in Stored THEN 1 ELSE 0)
      BY <1>1, <2>1, MainMoves
    <3>3. /\ MainIn(Storing) = (IF "rear" \in Storing THEN 1 ELSE 0)
          /\ MainIn(Storing)' = (IF "store" \in Storing THEN 1 ELSE 0)
      BY <1>1, <2>1, MainMoves
    <3> QED
      BY <3>1, <3>2, <3>3
  <2> HIDE DEF OnTheWay, Back, Stored, Storing
  <2> QED
    BY <1>1, <1>2, <1>3, <1>8, <2>2 DEF InsertRear, ringVars
<1>9. CASE InsertStore
  <2>1. Goto(Main, "store", "unlock")
    BY <1>9 DEF InsertStore
  <2>2. /\ WorkersIn(OnTheWay)' = WorkersIn(OnTheWay) /\ WorkersIn(Back)' = WorkersIn(Back)
        /\ MainIn(Stored) = 1 /\ MainIn(Stored)' = 1
        /\ MainIn(Storing) = 0 /\ MainIn(Storing)' = 0
    <3>1. /\ WorkersIn(OnTheWay)' = WorkersIn(OnTheWay) /\ WorkersIn(Back)' = WorkersIn(Back)
      BY <1>1, <2>1, MainMoves
    <3>2. /\ MainIn(Stored) = (IF "store" \in Stored THEN 1 ELSE 0)
          /\ MainIn(Stored)' = (IF "unlock" \in Stored THEN 1 ELSE 0)
      BY <1>1, <2>1, MainMoves
    <3>3. /\ MainIn(Storing) = (IF "store" \in Storing THEN 1 ELSE 0)
          /\ MainIn(Storing)' = (IF "unlock" \in Storing THEN 1 ELSE 0)
      BY <1>1, <2>1, MainMoves
    <3> QED
      BY <3>1, <3>2, <3>3
  <2> HIDE DEF OnTheWay, Back, Stored, Storing
  <2> QED
    BY <1>1, <1>2, <1>3, <1>9, <2>2 DEF InsertStore, ringVars
<1>10. CASE InsertUnlock
  <2>1. Goto(Main, "unlock", "items")
    BY <1>10 DEF InsertUnlock
  <2>2. /\ WorkersIn(OnTheWay)' = WorkersIn(OnTheWay) /\ WorkersIn(Back)' = WorkersIn(Back)
        /\ MainIn(Stored) = 1 /\ MainIn(Stored)' = 1
        /\ MainIn(Storing) = 0 /\ MainIn(Storing)' = 0
    <3>1. /\ WorkersIn(OnTheWay)' = WorkersIn(OnTheWay) /\ WorkersIn(Back)' = WorkersIn(Back)
      BY <1>1, <2>1, MainMoves
    <3>2. /\ MainIn(Stored) = (IF "unlock" \in Stored THEN 1 ELSE 0)
          /\ MainIn(Stored)' = (IF "items" \in Stored THEN 1 ELSE 0)
      BY <1>1, <2>1, MainMoves
    <3>3. /\ MainIn(Storing) = (IF "unlock" \in Storing THEN 1 ELSE 0)
          /\ MainIn(Storing)' = (IF "items" \in Storing THEN 1 ELSE 0)
      BY <1>1, <2>1, MainMoves
    <3> QED
      BY <3>1, <3>2, <3>3
  <2> HIDE DEF OnTheWay, Back, Stored, Storing
  <2> QED
    BY <1>1, <1>2, <1>3, <1>10, <2>2 DEF InsertUnlock, ringVars
<1>11. CASE InsertV
  <2>1. Goto(Main, "items", "accept")
    BY <1>11 DEF InsertV
  <2>2. /\ WorkersIn(OnTheWay)' = WorkersIn(OnTheWay) /\ WorkersIn(Back)' = WorkersIn(Back)
        /\ MainIn(Stored) = 1 /\ MainIn(Stored)' = 0
        /\ MainIn(Storing) = 0 /\ MainIn(Storing)' = 0
    <3>1. /\ WorkersIn(OnTheWay)' = WorkersIn(OnTheWay) /\ WorkersIn(Back)' = WorkersIn(Back)
      BY <1>1, <2>1, MainMoves
    <3>2. /\ MainIn(Stored) = (IF "items" \in Stored THEN 1 ELSE 0)
          /\ MainIn(Stored)' = (IF "accept" \in Stored THEN 1 ELSE 0)
      BY <1>1, <2>1, MainMoves
    <3>3. /\ MainIn(Storing) = (IF "items" \in Storing THEN 1 ELSE 0)
          /\ MainIn(Storing)' = (IF "accept" \in Storing THEN 1 ELSE 0)
      BY <1>1, <2>1, MainMoves
    <3> QED
      BY <3>1, <3>2, <3>3
  <2> HIDE DEF OnTheWay, Back, Stored, Storing
  <2> QED
    BY <1>1, <1>2, <1>3, <1>11, <2>2 DEF InsertV, ringVars
<1>12. ASSUME NEW t \in Workers, RemoveP(t)
      PROVE  /\ items' + WorkersIn(OnTheWay)' + MainIn(Stored)' = rear' - front'
             /\ slots' + WorkersIn(Back)' + MainIn(Storing)' = N - (rear' - front')
  <2>1. Goto(t, "items", "lock")
    BY <1>12 DEF RemoveP
  <2>2. /\ WorkersIn(OnTheWay)' = WorkersIn(OnTheWay) + 1 /\ MainIn(Stored)' = MainIn(Stored)
        /\ WorkersIn(Back)' = WorkersIn(Back) /\ MainIn(Storing)' = MainIn(Storing)
    <3>1. /\ WorkersIn(OnTheWay)' = WorkersIn(OnTheWay) + (IF "lock" \in OnTheWay THEN 1 ELSE 0)
                                        - (IF "items" \in OnTheWay THEN 1 ELSE 0)
          /\ MainIn(Stored)' = MainIn(Stored)
      BY <1>1, <2>1, WorkerMoves
    <3>2. /\ WorkersIn(Back)' = WorkersIn(Back) + (IF "lock" \in Back THEN 1 ELSE 0)
                                    - (IF "items" \in Back THEN 1 ELSE 0)
          /\ MainIn(Storing)' = MainIn(Storing)
      BY <1>1, <2>1, WorkerMoves
    <3> QED
      BY <1>1, <3>1, <3>2
  <2> HIDE DEF OnTheWay, Back, Stored, Storing
  <2> QED
    BY <1>1, <1>2, <1>3, <1>12, <2>2 DEF RemoveP, ringVars
<1>13. ASSUME NEW t \in Workers, RemoveLock(t)
      PROVE  /\ items' + WorkersIn(OnTheWay)' + MainIn(Stored)' = rear' - front'
             /\ slots' + WorkersIn(Back)' + MainIn(Storing)' = N - (rear' - front')
  <2>1. Goto(t, "lock", "front")
    BY <1>13 DEF RemoveLock
  <2>2. /\ WorkersIn(OnTheWay)' = WorkersIn(OnTheWay) /\ MainIn(Stored)' = MainIn(Stored)
        /\ WorkersIn(Back)' = WorkersIn(Back) /\ MainIn(Storing)' = MainIn(Storing)
    <3>1. /\ WorkersIn(OnTheWay)' = WorkersIn(OnTheWay) + (IF "front" \in OnTheWay THEN 1 ELSE 0)
                                        - (IF "lock" \in OnTheWay THEN 1 ELSE 0)
          /\ MainIn(Stored)' = MainIn(Stored)
      BY <1>1, <2>1, WorkerMoves
    <3>2. /\ WorkersIn(Back)' = WorkersIn(Back) + (IF "front" \in Back THEN 1 ELSE 0)
                                    - (IF "lock" \in Back THEN 1 ELSE 0)
          /\ MainIn(Storing)' = MainIn(Storing)
      BY <1>1, <2>1, WorkerMoves
    <3> QED
      BY <1>1, <3>1, <3>2
  <2> HIDE DEF OnTheWay, Back, Stored, Storing
  <2> QED
    BY <1>1, <1>2, <1>3, <1>13, <2>2 DEF RemoveLock, ringVars
<1>14. ASSUME NEW t \in Workers, RemoveFront(t)
      PROVE  /\ items' + WorkersIn(OnTheWay)' + MainIn(Stored)' = rear' - front'
             /\ slots' + WorkersIn(Back)' + MainIn(Storing)' = N - (rear' - front')
  <2>1. Goto(t, "front", "load")
    BY <1>14 DEF RemoveFront
  <2>2. /\ WorkersIn(OnTheWay)' = WorkersIn(OnTheWay) - 1 /\ MainIn(Stored)' = MainIn(Stored)
        /\ WorkersIn(Back)' = WorkersIn(Back) + 1 /\ MainIn(Storing)' = MainIn(Storing)
    <3>1. /\ WorkersIn(OnTheWay)' = WorkersIn(OnTheWay) + (IF "load" \in OnTheWay THEN 1 ELSE 0)
                                        - (IF "front" \in OnTheWay THEN 1 ELSE 0)
          /\ MainIn(Stored)' = MainIn(Stored)
      BY <1>1, <2>1, WorkerMoves
    <3>2. /\ WorkersIn(Back)' = WorkersIn(Back) + (IF "load" \in Back THEN 1 ELSE 0)
                                    - (IF "front" \in Back THEN 1 ELSE 0)
          /\ MainIn(Storing)' = MainIn(Storing)
      BY <1>1, <2>1, WorkerMoves
    <3> QED
      BY <1>1, <3>1, <3>2
  <2> HIDE DEF OnTheWay, Back, Stored, Storing
  <2> QED
    BY <1>1, <1>2, <1>3, <1>14, <2>2 DEF RemoveFront, ringVars
<1>15. ASSUME NEW t \in Workers, RemoveLoad(t)
      PROVE  /\ items' + WorkersIn(OnTheWay)' + MainIn(Stored)' = rear' - front'
             /\ slots' + WorkersIn(Back)' + MainIn(Storing)' = N - (rear' - front')
  <2>1. Goto(t, "load", "unlock")
    BY <1>15 DEF RemoveLoad
  <2>2. /\ WorkersIn(OnTheWay)' = WorkersIn(OnTheWay) /\ MainIn(Stored)' = MainIn(Stored)
        /\ WorkersIn(Back)' = WorkersIn(Back) /\ MainIn(Storing)' = MainIn(Storing)
    <3>1. /\ WorkersIn(OnTheWay)' = WorkersIn(OnTheWay) + (IF "unlock" \in OnTheWay THEN 1 ELSE 0)
                                        - (IF "load" \in OnTheWay THEN 1 ELSE 0)
          /\ MainIn(Stored)' = MainIn(Stored)
      BY <1>1, <2>1, WorkerMoves
    <3>2. /\ WorkersIn(Back)' = WorkersIn(Back) + (IF "unlock" \in Back THEN 1 ELSE 0)
                                    - (IF "load" \in Back THEN 1 ELSE 0)
          /\ MainIn(Storing)' = MainIn(Storing)
      BY <1>1, <2>1, WorkerMoves
    <3> QED
      BY <1>1, <3>1, <3>2
  <2> HIDE DEF OnTheWay, Back, Stored, Storing
  <2> QED
    BY <1>1, <1>2, <1>3, <1>15, <2>2 DEF RemoveLoad, ringVars
<1>16. ASSUME NEW t \in Workers, RemoveUnlock(t)
      PROVE  /\ items' + WorkersIn(OnTheWay)' + MainIn(Stored)' = rear' - front'
             /\ slots' + WorkersIn(Back)' + MainIn(Storing)' = N - (rear' - front')
  <2>1. Goto(t, "unlock", "slots")
    BY <1>16 DEF RemoveUnlock
  <2>2. /\ WorkersIn(OnTheWay)' = WorkersIn(OnTheWay) /\ MainIn(Stored)' = MainIn(Stored)
        /\ WorkersIn(Back)' = WorkersIn(Back) /\ MainIn(Storing)' = MainIn(Storing)
    <3>1. /\ WorkersIn(OnTheWay)' = WorkersIn(OnTheWay) + (IF "slots" \in OnTheWay THEN 1 ELSE 0)
                                        - (IF "unlock" \in OnTheWay THEN 1 ELSE 0)
          /\ MainIn(Stored)' = MainIn(Stored)
      BY <1>1, <2>1, WorkerMoves
    <3>2. /\ WorkersIn(Back)' = WorkersIn(Back) + (IF "slots" \in Back THEN 1 ELSE 0)
                                    - (IF "unlock" \in Back THEN 1 ELSE 0)
          /\ MainIn(Storing)' = MainIn(Storing)
      BY <1>1, <2>1, WorkerMoves
    <3> QED
      BY <1>1, <3>1, <3>2
  <2> HIDE DEF OnTheWay, Back, Stored, Storing
  <2> QED
    BY <1>1, <1>2, <1>3, <1>16, <2>2 DEF RemoveUnlock, ringVars
<1>17. ASSUME NEW t \in Workers, RemoveV(t)
      PROVE  /\ items' + WorkersIn(OnTheWay)' + MainIn(Stored)' = rear' - front'
             /\ slots' + WorkersIn(Back)' + MainIn(Storing)' = N - (rear' - front')
  <2>1. Goto(t, "slots", "serve")
    BY <1>17 DEF RemoveV
  <2>2. /\ WorkersIn(OnTheWay)' = WorkersIn(OnTheWay) /\ MainIn(Stored)' = MainIn(Stored)
        /\ WorkersIn(Back)' = WorkersIn(Back) - 1 /\ MainIn(Storing)' = MainIn(Storing)
    <3>1. /\ WorkersIn(OnTheWay)' = WorkersIn(OnTheWay) + (IF "serve" \in OnTheWay THEN 1 ELSE 0)
                                        - (IF "slots" \in OnTheWay THEN 1 ELSE 0)
          /\ MainIn(Stored)' = MainIn(Stored)
      BY <1>1, <2>1, WorkerMoves
    <3>2. /\ WorkersIn(Back)' = WorkersIn(Back) + (IF "serve" \in Back THEN 1 ELSE 0)
                                    - (IF "slots" \in Back THEN 1 ELSE 0)
          /\ MainIn(Storing)' = MainIn(Storing)
      BY <1>1, <2>1, WorkerMoves
    <3> QED
      BY <1>1, <3>1, <3>2
  <2> HIDE DEF OnTheWay, Back, Stored, Storing
  <2> QED
    BY <1>1, <1>2, <1>3, <1>17, <2>2 DEF RemoveV, ringVars
<1>18. ASSUME NEW t \in Workers, Serve(t)
      PROVE  /\ items' + WorkersIn(OnTheWay)' + MainIn(Stored)' = rear' - front'
             /\ slots' + WorkersIn(Back)' + MainIn(Storing)' = N - (rear' - front')
  <2>1. Goto(t, "serve", "items")
    BY <1>18 DEF Serve
  <2>2. /\ WorkersIn(OnTheWay)' = WorkersIn(OnTheWay) /\ MainIn(Stored)' = MainIn(Stored)
        /\ WorkersIn(Back)' = WorkersIn(Back) /\ MainIn(Storing)' = MainIn(Storing)
    <3>1. /\ WorkersIn(OnTheWay)' = WorkersIn(OnTheWay) + (IF "items" \in OnTheWay THEN 1 ELSE 0)
                                        - (IF "serve" \in OnTheWay THEN 1 ELSE 0)
          /\ MainIn(Stored)' = MainIn(Stored)
      BY <1>1, <2>1, WorkerMoves
    <3>2. /\ WorkersIn(Back)' = WorkersIn(Back) + (IF "items" \in Back THEN 1 ELSE 0)
                                    - (IF "serve" \in Back THEN 1 ELSE 0)
          /\ MainIn(Storing)' = MainIn(Storing)
      BY <1>1, <2>1, WorkerMoves
    <3> QED
      BY <1>1, <3>1, <3>2
  <2> HIDE DEF OnTheWay, Back, Stored, Storing
  <2> QED
    BY <1>1, <1>2, <1>3, <1>18, <2>2 DEF Serve, ringVars
<1>19. CASE Exit
  BY <1>19 DEF Exit, poolVars, ItemsCounted, SlotsCounted, WorkersIn, MainIn
<1> QED
  BY <1>5, <1>6, <1>7, <1>8, <1>9, <1>10, <1>11, <1>12, <1>13, <1>14, <1>15, <1>16, <1>17, <1>18, <1>19
     DEF Next, MainStep, WorkerStep

(***************************************************************************)
(* The ring                                                                *)
(***************************************************************************)

\* How many descriptors the ring may hold, as the places of the threads tell.
LEMMA RingBounds ==
    ASSUME TypeOK, ItemsCounted, SlotsCounted
    PROVE  /\ rear - front \in 0 .. N
           /\ pc[Main] \in {"store", "unlock", "items"} => rear - front >= 1
           /\ \A t \in Workers : pc[t] \in {"load", "unlock", "slots"} => rear - front < N
<1> DEFINE Back == {"load", "unlock", "slots"}
<1>1. /\ items \in Nat /\ slots \in Nat /\ rear \in Nat /\ front \in Nat /\ N \in Nat
      /\ WorkersIn({"lock", "front"}) \in Nat /\ WorkersIn(Back) \in Nat
      /\ MainIn({"store", "unlock", "items"}) \in Nat /\ MainIn({"lock", "rear"}) \in Nat
  BY WorkersCount, NAssumption DEF TypeOK, MainIn
<1>2. pc[Main] \in {"store", "unlock", "items"} => MainIn({"store", "unlock", "items"}) = 1
  BY DEF MainIn
<1>3. ASSUME NEW t \in Workers, pc[t] \in Back PROVE WorkersIn(Back) # 0
  <2>1. IsFiniteSet({u \in Workers : pc[u] \in Back}) /\ t \in {u \in Workers : pc[u] \in Back}
    BY <1>3, WorkersAssumption, FS_Subset
  <2>2. {u \in Workers : pc[u] \in Back} # {}
    BY <2>1
  <2> QED
    BY <2>1, <2>2, FS_EmptySet DEF WorkersIn
<1> HIDE DEF Back
<1>4. /\ items + WorkersIn({"lock", "front"}) + MainIn({"store", "unlock", "items"}) = rear - front
      /\ slots + WorkersIn(Back) + MainIn({"lock", "rear"}) = N - (rear - front)
  BY DEF ItemsCounted, SlotsCounted, Back
<1>5. ASSUME NEW t \in Workers, pc[t] \in Back PROVE rear - front < N
  <2>1. WorkersIn(Back) >= 1
    BY <1>1, <1>3, <1>5
  <2> QED
    BY <1>1, <1>4, <2>1
<1> QED
  BY <1>1, <1>2, <1>4, <1>5 DEF Back

\* Steps that move no descriptor.
LEMMA Undisturbed ==
    ASSUME RingDistinct, ThreadsDistinct, UNCHANGED <<buf, open, conn>>, Read' = Read, Written' = Written,
           Bringing' = Bringing, \A t \in Workers : Holds(t)' = Holds(t),
           pc'[Main] \in {"unlock", "items"} <=> pc[Main] \in {"unlock", "items"},
           pc[Main] \in {"unlock", "items"} => rear' = rear,
           pc'[Main] = "accept" => pc[Main] = "accept"
    PROVE  RingDistinct' /\ ThreadsDistinct'
<1>1. RingDistinct'
  BY DEF RingDistinct, Fd
<1>2. ThreadsDistinct'
  <2>1. \A t \in Workers :
           IF Holds(t)'
           THEN /\ conn'[t] \in open'
                /\ \A u \in Workers : Holds(u)' /\ conn'[u] = conn'[t] => u = t
                /\ Bringing' => conn'[Main] # conn'[t]
           ELSE conn'[t] = NoFd
    BY DEF ThreadsDistinct
  <2>2. /\ Bringing' => conn'[Main] \in open'
        /\ pc'[Main] \in {"unlock", "items"} => conn'[Main] = Fd(rear)'
        /\ pc'[Main] = "accept" => conn'[Main] = NoFd
    BY DEF ThreadsDistinct, Fd
  <2> QED
    BY <2>1, <2>2 DEF ThreadsDistinct
<1> QED
  BY <1>1, <1>2

(***************************************************************************)
(* The sequence of pooled descriptors                                      *)
(***************************************************************************)

\* A sequence of n + 1 elements is its first and the n that follow.
LEMMA FirstOf ==
    ASSUME NEW S, NEW n \in Nat, NEW f \in [1 .. n + 1 -> S]
    PROVE  f \in Seq(S) /\ Len(f) = n + 1 /\ f # <<>> /\ Head(f) = f[1]
<1>1. f \in Seq(S) /\ Len(f) = n + 1
  <2>1. f = [i \in 1 .. n + 1 |-> f[i]] /\ n + 1 \in Nat
    OBVIOUS
  <2>2. [i \in 1 .. n + 1 |-> f[i]] \in Seq(S)
    BY IsASeq
  <2>3. f \in Seq(S)
    BY <2>1, <2>2
  <2> QED
    BY <2>1, <2>3, LenProperties
<1> QED
  BY <1>1, HeadTailProperties

LEMMA RestOf ==
    ASSUME NEW S, NEW n \in Nat, NEW f \in [1 .. n + 1 -> S],
           NEW v \in [1 .. n -> S], \A i \in 1 .. n : v[i] = f[i + 1]
    PROVE  Tail(f) = v
<1>1. f \in Seq(S) /\ Len(f) = n + 1 /\ f # <<>>
  BY FirstOf
<1>2. v \in Seq(S) /\ Len(v) = n
  <2>1. v = [i \in 1 .. n |-> v[i]] /\ [i \in 1 .. n |-> v[i]] \in Seq(S)
    BY IsASeq
  <2>2. v \in Seq(S)
    BY <2>1
  <2> QED
    BY <2>1, <2>2, LenProperties
<1>3. Tail(f) \in Seq(S) /\ Len(Tail(f)) = n /\ \A i \in 1 .. n : Tail(f)[i] = f[i + 1]
  BY <1>1, HeadTailProperties
<1> QED
  BY <1>2, <1>3, SeqEqual

\* A sequence of n + 1 elements is its first n and its last.
LEMMA EndOf ==
    ASSUME NEW S, NEW n \in Nat, NEW f \in [1 .. n + 1 -> S]
    PROVE  Append([i \in 1 .. n |-> f[i]], f[n + 1]) = f
<1> DEFINE u == [i \in 1 .. n |-> f[i]]
<1>1. u \in Seq(S) /\ Len(u) = n
  <2>1. u \in Seq(S)
    BY IsASeq
  <2> QED
    BY <2>1, LenProperties
<1>2. f \in Seq(S) /\ Len(f) = n + 1
  BY FirstOf
<1>3. Append(u, f[n + 1]) = f
  <2>1. /\ Append(u, f[n + 1]) \in Seq(S) /\ Len(Append(u, f[n + 1])) = n + 1
        /\ \A i \in 1 .. n : Append(u, f[n + 1])[i] = u[i]
        /\ Append(u, f[n + 1])[n + 1] = f[n + 1]
    BY <1>1, AppendProperties
  <2>2. \A i \in 1 .. n + 1 : Append(u, f[n + 1])[i] = f[i]
    <3>1. \A i \in 1 .. n + 1 : i \in 1 .. n \/ i = n + 1
      OBVIOUS
    <3> QED
      BY <2>1, <3>1
  <2> QED
    BY <1>2, <2>1, <2>2, SeqEqual
<1> QED
  BY <1>3

\* A step that neither the queue nor the receivers of the channel notice.
Stutters == Pooled' = Pooled /\ [t \in Workers |-> conn'[t]] = [t \in Workers |-> conn[t]]

LEMMA QuietMainKept ==
    ASSUME SbufIInv, InsertP \/ InsertLock \/ InsertRear \/ InsertUnlock
    PROVE  RingDistinct' /\ ThreadsDistinct' /\ Stutters
<1> USE ThreadsAre DEF Goto, ringVars
<1>1. pc \in [Threads -> MainAt \cup WorkerAt] /\ rear \in Nat
  BY DEF SbufIInv, TypeOK
<1>2. /\ UNCHANGED <<buf, open, conn, front>> /\ \A t \in Workers : pc'[t] = pc[t]
      /\ pc[Main] \in {"slots", "lock", "rear", "unlock"}
  BY <1>1 DEF InsertP, InsertLock, InsertRear, InsertUnlock
<1>3. Read' = Read /\ \A t \in Workers : Holds(t)' = Holds(t)
  BY <1>2 DEF Read, Holds
<1>4. /\ Written' = Written /\ Bringing' = Bringing
      /\ pc'[Main] \in {"unlock", "items"} <=> pc[Main] \in {"unlock", "items"}
      /\ pc[Main] \in {"unlock", "items"} => rear' = rear
      /\ pc'[Main] = "accept" => pc[Main] = "accept"
  BY <1>1 DEF InsertP, InsertLock, InsertRear, InsertUnlock, Written, Bringing
<1>5. Stutters
  BY <1>2, <1>3, <1>4 DEF Stutters, Pooled
<1> QED
  BY <1>2, <1>3, <1>4, <1>5, Undisturbed DEF SbufIInv

LEMMA QuietWorkerKept ==
    ASSUME SbufIInv, NEW t \in Workers,
           RemoveP(t) \/ RemoveLock(t) \/ RemoveFront(t) \/ RemoveUnlock(t) \/ RemoveV(t)
    PROVE  RingDistinct' /\ ThreadsDistinct' /\ Stutters
<1> USE ThreadsAre DEF Goto, ringVars
<1>1. pc \in [Threads -> MainAt \cup WorkerAt] /\ front \in Nat
  BY DEF SbufIInv, TypeOK
<1>2. /\ UNCHANGED <<buf, open, conn, rear>> /\ pc'[Main] = pc[Main]
      /\ \A u \in Workers \ {t} : pc'[u] = pc[u]
      /\ Holds(t)' = Holds(t)
  BY <1>1 DEF RemoveP, RemoveLock, RemoveFront, RemoveUnlock, RemoveV, Holds
<1>3. Written' = Written /\ Bringing' = Bringing /\ \A u \in Workers : Holds(u)' = Holds(u)
  BY <1>2 DEF Written, Bringing, Holds
<1>4. Read' = Read
  <2>1. CASE RemoveFront(t)
    <3>1. pc[t] = "front" /\ pc'[t] = "load" /\ front' = front + 1
      BY <1>1, <2>1 DEF RemoveFront
    <3>2. \A u \in Workers : pc[u] # "load"
      BY <3>1 DEF SbufIInv, Exclusion, Inside
    <3> QED
      BY <1>1, <3>1, <3>2 DEF Read
  <2>2. CASE RemoveP(t) \/ RemoveLock(t) \/ RemoveUnlock(t) \/ RemoveV(t)
    <3>1. front' = front /\ pc[t] # "load" /\ pc'[t] # "load"
      BY <1>1, <2>2 DEF RemoveP, RemoveLock, RemoveUnlock, RemoveV
    <3> QED
      BY <1>2, <3>1 DEF Read
  <2> QED
    BY <2>1, <2>2
<1>5. Stutters
  BY <1>2, <1>3, <1>4 DEF Stutters, Pooled
<1> QED
  BY <1>2, <1>3, <1>4, <1>5, Undisturbed DEF SbufIInv

LEMMA AcceptKept == ASSUME SbufIInv, Accept PROVE RingDistinct' /\ ThreadsDistinct' /\ Stutters
<1> USE ThreadsAre DEF Goto, ringVars
<1>1. PICK fd \in Fds \ open : conn' = [conn EXCEPT ![Main] = fd] /\ open' = open \cup {fd}
  BY DEF Accept
<1>2. /\ UNCHANGED <<buf, rear, front>> /\ pc[Main] = "accept" /\ pc'[Main] = "slots"
      /\ conn'[Main] = fd
      /\ \A t \in Workers : pc'[t] = pc[t] /\ conn'[t] = conn[t]
  BY <1>1 DEF Accept, SbufIInv, TypeOK
<1>3. /\ Read' = Read /\ Written' = Written /\ ~Bringing /\ Bringing'
      /\ \A t \in Workers : Holds(t)' = Holds(t)
  BY <1>2 DEF Read, Written, Bringing, Holds
<1>4. RingDistinct'
  BY <1>1, <1>2, <1>3 DEF SbufIInv, RingDistinct, ThreadsDistinct, Fd
<1>5. ThreadsDistinct'
  BY <1>1, <1>2, <1>3 DEF SbufIInv, ThreadsDistinct
<1>6. Stutters
  BY <1>2, <1>3 DEF Stutters, Pooled
<1> QED
  BY <1>4, <1>5, <1>6

LEMMA StoreKept == ASSUME SbufIInv, InsertStore PROVE RingDistinct' /\ ThreadsDistinct' /\ Pool!Send(conn[Main])
<1> USE ThreadsAre DEF Goto, ringVars
<1>1. rear \in Nat /\ front \in Nat /\ N \in Nat /\ rear - front \in 1 .. N
  BY RingBounds, NAssumption DEF SbufIInv, TypeOK, InsertStore
<1>2. /\ UNCHANGED <<rear, front, conn, open>> /\ pc[Main] = "store" /\ pc'[Main] = "unlock"
      /\ \A t \in Workers : pc'[t] = pc[t]
      /\ buf' = [buf EXCEPT ![rear % N] = conn[Main]]
  BY DEF InsertStore, SbufIInv, TypeOK
<1>3. \A t \in Workers : pc[t] # "load"
  BY <1>2 DEF SbufIInv, Exclusion, Inside
<1>4. /\ Read = front /\ Read' = front /\ Written = rear - 1 /\ Written' = rear
      /\ Bringing /\ ~Bringing' /\ \A t \in Workers : Holds(t)' = Holds(t)
  BY <1>1, <1>2, <1>3 DEF Read, Written, Bringing, Holds
<1>5. buf'[rear % N] = conn[Main]
  <2>1. rear % N \in DOMAIN buf
    BY <1>1, SlotInRing DEF SbufIInv, TypeOK
  <2> QED
    BY <1>2, <2>1
<1>6. ASSUME NEW p \in front + 1 .. rear - 1 PROVE buf'[p % N] = Fd(p)
  <2>1. p \in Nat /\ p < rear /\ rear - p < N
    BY <1>1
  <2>2. p % N # rear % N
    BY <1>1, <2>1, SlotsDiffer
  <2>3. p % N \in DOMAIN buf
    BY <2>1, SlotInRing DEF SbufIInv, TypeOK
  <2> QED
    BY <1>2, <2>2, <2>3 DEF Fd
<1>7. RingDistinct'
  <2> SUFFICES ASSUME NEW p \in front + 1 .. rear
               PROVE  /\ buf'[p % N] \in open
                      /\ \A q \in front + 1 .. rear : buf'[p % N] = buf'[q % N] => p = q
                      /\ \A t \in Workers : Holds(t) => buf'[p % N] # conn[t]
    BY <1>2, <1>4 DEF RingDistinct, Fd
  <2>1. \A q \in front + 1 .. rear : q \in front + 1 .. rear - 1 \/ q = rear
    BY <1>1
  <2>2. \A q \in front + 1 .. rear - 1 :
            /\ Fd(q) \in open /\ Fd(q) # conn[Main]
            /\ \A r \in front + 1 .. rear - 1 : Fd(q) = Fd(r) => q = r
            /\ \A t \in Workers : Holds(t) => Fd(q) # conn[t]
    BY <1>4 DEF SbufIInv, RingDistinct
  <2>3. CASE p = rear
    BY <1>4, <1>5, <1>6, <2>1, <2>2, <2>3 DEF SbufIInv, ThreadsDistinct
  <2>4. CASE p \in front + 1 .. rear - 1
    BY <1>5, <1>6, <2>1, <2>2, <2>4
  <2> QED
    BY <2>1, <2>3, <2>4
<1>8. ThreadsDistinct'
  BY <1>2, <1>4, <1>5 DEF SbufIInv, ThreadsDistinct, Fd
<1>9. Pool!Send(conn[Main])
  <2> DEFINE n == rear - 1 - front
             f == [i \in 1 .. n + 1 |-> buf'[(front + i) % N]]
  <2>1. n \in Nat /\ n < N
    BY <1>1
  <2>2. f \in [1 .. n + 1 -> Fds \cup {NoFd}]
    <3>1. \A i \in 1 .. n + 1 : (front + i) % N \in 0 .. N - 1
      BY <1>1, <2>1, SlotInRing
    <3>2. buf' \in [0 .. N - 1 -> Fds \cup {NoFd}]
      BY <1>2 DEF SbufIInv, TypeOK
    <3> QED
      BY <3>1, <3>2
  <2>3. Pooled' = f
    BY <1>1, <1>4 DEF Pooled
  <2>4. Pooled = [i \in 1 .. n |-> f[i]]
    <3>1. ASSUME NEW i \in 1 .. n PROVE buf[(front + i) % N] = f[i]
      <4>1. front + i \in front + 1 .. rear - 1 /\ i \in 1 .. n + 1
        BY <1>1, <2>1
      <4> QED
        BY <1>6, <4>1 DEF Fd
    <3> QED
      BY <1>4, <3>1 DEF Pooled
  <2>5. f[n + 1] = conn[Main]
    <3>1. n + 1 \in 1 .. n + 1 /\ front + (n + 1) = rear
      BY <1>1, <2>1
    <3> QED
      BY <1>5, <3>1
  <2> HIDE DEF f, n
  <2>6. Pooled' = Append(Pooled, conn[Main])
    <3>1. Append([i \in 1 .. n |-> f[i]], f[n + 1]) = f
      BY <2>1, <2>2, EndOf
    <3> QED
      BY <2>3, <2>4, <2>5, <3>1
  <2>7. Len(Pooled) < N
    <3>1. [i \in 1 .. n |-> f[i]] \in Seq(Fds \cup {NoFd})
      BY <2>1, <2>2, IsASeq
    <3>2. Len(Pooled) = n
      BY <2>1, <2>4, <3>1, LenProperties
    <3> QED
      BY <2>1, <3>2
  <2> QED
    BY <1>2, <2>6, <2>7 DEF Pool!Send
<1> QED
  BY <1>7, <1>8, <1>9

LEMMA InsertVKept == ASSUME SbufIInv, InsertV PROVE RingDistinct' /\ ThreadsDistinct' /\ Stutters
<1> USE ThreadsAre DEF Goto, ringVars
<1>1. /\ UNCHANGED <<buf, rear, front, open>> /\ pc[Main] = "items" /\ pc'[Main] = "accept"
      /\ conn'[Main] = NoFd
      /\ \A t \in Workers : pc'[t] = pc[t] /\ conn'[t] = conn[t]
  BY DEF InsertV, SbufIInv, TypeOK
<1>2. /\ Read' = Read /\ Written' = Written /\ ~Bringing'
      /\ \A t \in Workers : Holds(t)' = Holds(t)
  BY <1>1 DEF Read, Written, Bringing, Holds
<1>3. RingDistinct'
  BY <1>1, <1>2 DEF SbufIInv, RingDistinct, Fd
<1>4. ThreadsDistinct'
  BY <1>1, <1>2 DEF SbufIInv, ThreadsDistinct
<1>5. Stutters
  BY <1>1, <1>2 DEF Stutters, Pooled
<1> QED
  BY <1>3, <1>4, <1>5

LEMMA LoadKept ==
    ASSUME SbufIInv, NEW t \in Workers, RemoveLoad(t)
    PROVE  RingDistinct' /\ ThreadsDistinct' /\ Pool!Receive(t)
<1> USE ThreadsAre DEF Goto, ringVars
<1>1. pc[t] = "load" /\ pc'[t] = "unlock" /\ rear \in Nat /\ front \in Nat /\ rear - front >= 0
  BY RingBounds, NAssumption DEF SbufIInv, TypeOK, RemoveLoad
<1>2. /\ UNCHANGED <<buf, rear, front, open>> /\ pc'[Main] = pc[Main] /\ conn'[Main] = conn[Main]
      /\ \A u \in Workers \ {t} : pc'[u] = pc[u] /\ conn'[u] = conn[u]
      /\ conn'[t] = Fd(front)
  BY DEF RemoveLoad, SbufIInv, TypeOK, Fd
<1>3. pc[Main] # "store" /\ \A u \in Workers \ {t} : pc[u] # "load"
  BY <1>1 DEF SbufIInv, Exclusion, Inside
<1>4. /\ Read = front - 1 /\ Read' = front /\ Written = rear /\ Written' = rear /\ Bringing' = Bringing
      /\ Holds(t)' /\ ~Holds(t) /\ \A u \in Workers \ {t} : Holds(u)' = Holds(u)
  BY <1>1, <1>2, <1>3 DEF Read, Written, Bringing, Holds
<1>5. /\ front \in Read + 1 .. Written
      /\ \A p \in Read' + 1 .. Written' : p \in Read + 1 .. Written /\ p # front
  BY <1>1, <1>4
<1>6. \A p : Fd(p)' = Fd(p)
  BY <1>2 DEF Fd
<1>7. RingDistinct'
  BY <1>2, <1>4, <1>5, <1>6 DEF SbufIInv, RingDistinct
<1>8. ThreadsDistinct'
  BY <1>2, <1>4, <1>5, <1>6 DEF SbufIInv, RingDistinct, ThreadsDistinct
<1>9. Pool!Receive(t)
  <2> DEFINE n == rear - front
             f == [i \in 1 .. n + 1 |-> buf[(front - 1 + i) % N]]
  <2>1. n \in Nat
    BY <1>1
  <2>2. f \in [1 .. n + 1 -> Fds \cup {NoFd}]
    <3>1. \A i \in 1 .. n + 1 : (front - 1 + i) % N \in 0 .. N - 1
      <4>1. \A i \in 1 .. n + 1 : front - 1 + i \in Nat
        BY <1>1, <2>1
      <4> QED
        BY <4>1, SlotInRing
    <3> QED
      BY <3>1 DEF SbufIInv, TypeOK
  <2>3. Pooled = f
    <3>1. Written - Read = n + 1
      BY <1>1, <1>4
    <3> QED
      BY <1>4, <3>1 DEF Pooled
  <2>4. Pooled' = [i \in 1 .. n |-> f[i + 1]]
    <3>1. ASSUME NEW i \in 1 .. n PROVE buf[(front + i) % N] = f[i + 1]
      <4>1. i + 1 \in 1 .. n + 1 /\ front - 1 + (i + 1) = front + i
        BY <1>1, <2>1
      <4> QED
        BY <4>1
    <3>2. Pooled' = [i \in 1 .. n |-> buf[(front + i) % N]]
      BY <1>2, <1>4 DEF Pooled
    <3> QED
      BY <3>1, <3>2
  <2>5. f[1] = Fd(front)
    <3>1. 1 \in 1 .. n + 1 /\ front - 1 + 1 = front
      BY <1>1, <2>1
    <3> QED
      BY <3>1 DEF Fd
  <2> HIDE DEF f, n
  <2>6. Pooled # <<>> /\ Head(Pooled) = Fd(front) /\ Pooled' = Tail(Pooled)
    <3>1. f # <<>> /\ Head(f) = f[1]
      BY <2>1, <2>2, FirstOf
    <3>2. Tail(f) = Pooled'
      <4> DEFINE v == [i \in 1 .. n |-> f[i + 1]]
      <4>1. v \in [1 .. n -> Fds \cup {NoFd}] /\ \A i \in 1 .. n : v[i] = f[i + 1]
        BY <2>1, <2>2
      <4>2. v = Pooled'
        BY <2>4
      <4> HIDE DEF v
      <4>3. Tail(f) = v
        BY <2>1, <2>2, <4>1, RestOf
      <4> QED
        BY <4>2, <4>3
    <3> QED
      BY <2>3, <2>5, <3>1, <3>2
  <2>7. conn[t] = NoFd
    BY <1>4 DEF SbufIInv, ThreadsDistinct
  <2>8. [u \in Workers |-> conn'[u]] = [[u \in Workers |-> conn[u]] EXCEPT ![t] = Fd(front)]
    BY <1>2
  <2> QED
    BY <2>6, <2>7, <2>8 DEF Pool!Receive
<1> QED
  BY <1>7, <1>8, <1>9

LEMMA ServeKept ==
    ASSUME SbufIInv, NEW t \in Workers, Serve(t)
    PROVE  RingDistinct' /\ ThreadsDistinct' /\ Pool!Release(t)
<1> USE ThreadsAre DEF Goto, ringVars
<1>1. /\ UNCHANGED <<buf, rear, front>> /\ pc[t] = "serve" /\ pc'[t] = "items"
      /\ pc'[Main] = pc[Main] /\ conn'[Main] = conn[Main] /\ conn'[t] = NoFd
      /\ \A u \in Workers \ {t} : pc'[u] = pc[u] /\ conn'[u] = conn[u]
      /\ open' = open \ {conn[t]}
  BY DEF Serve, SbufIInv, TypeOK
<1>2. /\ Read' = Read /\ Written' = Written /\ Bringing' = Bringing
      /\ ~Holds(t)' /\ Holds(t) /\ \A u \in Workers \ {t} : Holds(u)' = Holds(u)
  BY <1>1 DEF Read, Written, Bringing, Holds
<1>3. \A p : Fd(p)' = Fd(p)
  BY <1>1 DEF Fd
<1>4. RingDistinct'
  BY <1>1, <1>2, <1>3 DEF SbufIInv, RingDistinct
<1>5. ThreadsDistinct'
  BY <1>1, <1>2, <1>3 DEF SbufIInv, ThreadsDistinct
<1>6. Pool!Release(t)
  <2>1. Pooled' = Pooled
    BY <1>1, <1>2 DEF Pooled
  <2>2. conn[t] # NoFd
    BY <1>2, NoFdAssumption DEF SbufIInv, ThreadsDistinct, TypeOK
  <2>3. [u \in Workers |-> conn'[u]] = [[u \in Workers |-> conn[u]] EXCEPT ![t] = NoFd]
    BY <1>1
  <2> QED
    BY <2>1, <2>2, <2>3 DEF Pool!Release
<1> QED
  BY <1>4, <1>5, <1>6

(***************************************************************************)
(* The invariant                                                           *)
(***************************************************************************)

LEMMA SbufStarts == Init => SbufIInv
<1> SUFFICES ASSUME Init PROVE SbufIInv
  OBVIOUS
<1> USE ThreadsAre, NAssumption, NoFdAssumption DEF Init
<1>1. TypeOK
  <2>1. exited \in BOOLEAN
    OBVIOUS
  <2>2. pc \in [Threads -> MainAt \cup WorkerAt] /\ conn \in [Threads -> Fds \cup {NoFd}]
    BY DEF MainAt, WorkerAt
  <2>3. pc[Main] \in MainAt /\ \A t \in Workers : pc[t] \in WorkerAt
    BY DEF MainAt, WorkerAt
  <2> QED
    BY <2>1, <2>2, <2>3, MaxConnsAssumption DEF TypeOK
<1>2. pc[Main] = "accept" /\ \A t \in Workers : pc[t] = "items"
  OBVIOUS
<1>3. Exclusion
  BY <1>2 DEF Exclusion, Inside, Threads
<1>4. ItemsCounted /\ SlotsCounted
  <2>1. /\ {t \in Workers : pc[t] \in {"lock", "front"}} = {}
        /\ {t \in Workers : pc[t] \in {"load", "unlock", "slots"}} = {}
    BY <1>2
  <2>2. WorkersIn({"lock", "front"}) = 0 /\ WorkersIn({"load", "unlock", "slots"}) = 0
    BY <2>1, FS_EmptySet DEF WorkersIn
  <2>3. MainIn({"store", "unlock", "items"}) = 0 /\ MainIn({"lock", "rear"}) = 0
    BY <1>2 DEF MainIn
  <2> QED
    BY <2>2, <2>3 DEF ItemsCounted, SlotsCounted
<1>5. Read = 0 /\ Written = 0
  <2>1. rear = 0 /\ front = 0
    OBVIOUS
  <2> HIDE DEF Init
  <2>2. Read = 0
    <3>1. \A t \in Workers : pc[t] # "load"
      BY <1>2
    <3>2. front \in Nat
      BY <1>1 DEF TypeOK
    <3>3. Read = front
      BY <3>1, <3>2 DEF Read
    <3> QED
      BY <2>1, <3>3
  <2>3. Written = 0
    BY <1>2, <2>1 DEF Written
  <2> QED
    BY <2>2, <2>3
<1>6. RingDistinct
  BY <1>5 DEF RingDistinct
<1>7. ThreadsDistinct
  BY <1>2 DEF ThreadsDistinct, Holds, Bringing
<1> QED
  BY <1>1, <1>3, <1>4, <1>6, <1>7 DEF SbufIInv

LEMMA SbufKept == SbufIInv /\ [Next]_vars => SbufIInv'
<1> SUFFICES ASSUME SbufIInv, [Next]_vars PROVE SbufIInv'
  OBVIOUS
<1>1. CASE Next
  <2>1. TypeOK' /\ Exclusion' /\ ItemsCounted' /\ SlotsCounted'
    BY <1>1, TypeKept, ExclusionKept, CountsKept DEF SbufIInv
  <2>2. RingDistinct' /\ ThreadsDistinct'
    <3>1. CASE Accept
      BY <3>1, AcceptKept
    <3>2. CASE MainStep
      BY <3>2, QuietMainKept, StoreKept, InsertVKept DEF MainStep
    <3>3. ASSUME NEW t \in Workers, WorkerStep(t) PROVE RingDistinct' /\ ThreadsDistinct'
      BY <3>3, QuietWorkerKept, LoadKept DEF WorkerStep
    <3>4. ASSUME NEW t \in Workers, Serve(t) PROVE RingDistinct' /\ ThreadsDistinct'
      BY <3>4, ServeKept
    <3>5. CASE Exit
      BY <3>5 DEF Exit, poolVars, SbufIInv, RingDistinct, ThreadsDistinct, Fd, Holds, Bringing, Read, Written
    <3> QED
      BY <1>1, <3>1, <3>2, <3>3, <3>4, <3>5 DEF Next
  <2> QED
    BY <2>1, <2>2 DEF SbufIInv
<1>2. CASE UNCHANGED vars
  BY <1>2 DEF vars, poolVars, SbufIInv, TypeOK, Exclusion, Inside, ItemsCounted, SlotsCounted, WorkersIn, MainIn,
              RingDistinct, ThreadsDistinct, Fd, Holds, Bringing, Read, Written
<1> QED
  BY <1>1, <1>2

\* For any number of workers, slots and connections: a worker that serves has
\* an open descriptor that no other thread has.
THEOREM WorkersServeTheirOwn == Spec => []ServesOwnFd
<1>1. SbufIInv => ServesOwnFd
  <2> SUFFICES ASSUME SbufIInv, NEW t \in Workers, pc[t] = "serve"
               PROVE  conn[t] \in open /\ \A u \in Threads \ {t} : conn[u] # conn[t]
    BY DEF SbufIInv, ServesOwnFd
  <2>1. conn[t] \in open /\ conn[t] # NoFd /\ Holds(t)
    BY NoFdAssumption DEF SbufIInv, ThreadsDistinct, TypeOK, Holds
  <2>2. ASSUME NEW u \in Workers \ {t} PROVE conn[u] # conn[t]
    BY <2>1 DEF SbufIInv, ThreadsDistinct
  <2>3. conn[Main] # conn[t]
    <3>1. CASE Bringing
      BY <2>1, <3>1 DEF SbufIInv, ThreadsDistinct
    <3>2. CASE pc[Main] \in {"unlock", "items"}
      <4>1. rear \in Nat /\ front \in Nat /\ rear - front >= 1
        BY <3>2, RingBounds DEF SbufIInv, TypeOK
      <4>2. rear \in Read + 1 .. Written
        BY <3>2, <4>1 DEF Read, Written
      <4> QED
        BY <2>1, <3>2, <4>2 DEF SbufIInv, RingDistinct, ThreadsDistinct
    <3>3. CASE pc[Main] = "accept"
      BY <2>1, <3>3 DEF SbufIInv, ThreadsDistinct
    <3> QED
      BY <3>1, <3>2, <3>3 DEF SbufIInv, TypeOK, MainAt, Bringing
  <2> QED
    BY <2>1, <2>2, <2>3 DEF Threads
<1> QED
  BY <1>1, SbufStarts, SbufKept, PTL DEF Spec

\* The pool is a bounded first-in first-out channel: what main sends is received
\* in its order, each descriptor by one worker.
THEOREM PoolIsChannel == Spec => IsChannel
<1>1. Init => Pool!Init
  <2> SUFFICES ASSUME Init PROVE Pool!Init
    OBVIOUS
  <2>1. rear = 0 /\ front = 0 /\ pc[Main] = "accept"
        /\ (\A t \in Workers : pc[t] # "load") /\ \A t \in Workers : conn[t] = NoFd
    BY ThreadsAre DEF Init
  <2>2. Written - Read = 0
    <3>1. front \in Nat /\ rear \in Nat
      BY SbufStarts DEF SbufIInv, TypeOK
    <3>2. Read = front
      <4>1. \A t \in Workers : pc[t] # "load"
        BY <2>1
      <4> QED
        BY <3>1, <4>1 DEF Read
    <3>3. Written = rear
      BY <2>1 DEF Written
    <3> QED
      BY <2>1, <3>2, <3>3
  <2>3. Pooled = <<>>
    BY <2>2 DEF Pooled
  <2> QED
    BY <2>1, <2>3 DEF Pool!Init
<1>2. SbufIInv /\ [Next]_vars => [Pool!Next]_<<Pooled, [t \in Workers |-> conn[t]]>>
  <2> SUFFICES ASSUME SbufIInv, [Next]_vars PROVE Pool!Next \/ Stutters
    BY DEF Stutters
  <2>1. CASE Accept
    BY <2>1, AcceptKept
  <2>2. CASE InsertStore
    <3>1. conn[Main] \in Fds
      BY <2>2 DEF SbufIInv, ThreadsDistinct, TypeOK, InsertStore, Goto, Bringing
    <3> QED
      BY <2>2, <3>1, StoreKept DEF Pool!Next
  <2>3. CASE InsertV
    BY <2>3, InsertVKept
  <2>4. CASE InsertP \/ InsertLock \/ InsertRear \/ InsertUnlock
    BY <2>4, QuietMainKept
  <2>5. ASSUME NEW t \in Workers, WorkerStep(t) PROVE Pool!Next \/ Stutters
    <3>1. CASE RemoveLoad(t)
      BY <3>1, LoadKept DEF Pool!Next
    <3>2. CASE RemoveP(t) \/ RemoveLock(t) \/ RemoveFront(t) \/ RemoveUnlock(t) \/ RemoveV(t)
      BY <3>2, QuietWorkerKept
    <3> QED
      BY <2>5, <3>1, <3>2 DEF WorkerStep
  <2>6. ASSUME NEW t \in Workers, Serve(t) PROVE Pool!Next \/ Stutters
    BY <2>6, ServeKept DEF Pool!Next
  <2>7. CASE Exit \/ UNCHANGED vars
    BY <2>7 DEF vars, poolVars, Exit, Stutters, Pooled, Read, Written
  <2> QED
    BY <2>1, <2>2, <2>3, <2>4, <2>5, <2>6, <2>7 DEF Next, MainStep
<1> QED
  BY <1>1, <1>2, SbufStarts, SbufKept, PTL DEF Spec, IsChannel, Pool!Spec

-----------------------------------------------------------------------------
(***************************************************************************)
(* The robust I/O package keeps the stream, whatever read() and write()    *)
(* return: for every buffer size, stream and sequence of calls.            *)
(***************************************************************************)

(***************************************************************************)
(* A run of n bytes put after a sequence.                                  *)
(***************************************************************************)
LEMMA RunAppended ==
    ASSUME NEW u \in Seq(Nat), NEW n \in Nat, NEW f \in [1 .. n -> Nat]
    PROVE  /\ u \o f \in Seq(Nat)
           /\ Len(u \o f) = Len(u) + n
           /\ \A i \in 1 .. Len(u) : (u \o f)[i] = u[i]
           /\ \A i \in 1 .. n : (u \o f)[Len(u) + i] = f[i]
<1>1. f \in Seq(Nat)
  BY IsASeq
<1>2. Len(f) = n
  BY <1>1, LenProperties
<1>3. /\ u \o f \in Seq(Nat) /\ Len(u \o f) = Len(u) + n
      /\ \A i \in 1 .. Len(u) + n : (u \o f)[i] = IF i <= Len(u) THEN u[i] ELSE f[i - Len(u)]
  BY <1>1, <1>2, ConcatProperties
<1>4. Len(u) \in Nat
  OBVIOUS
<1>5. ASSUME NEW i \in 1 .. n PROVE (u \o f)[Len(u) + i] = f[i]
  <2>1. Len(u) + i \in 1 .. Len(u) + n /\ ~(Len(u) + i <= Len(u)) /\ (Len(u) + i) - Len(u) = i
    BY <1>4
  <2> QED
    BY <1>3, <2>1
<1> QED
  BY <1>3, <1>4, <1>5

(***************************************************************************)
(* The next n bytes of a stream put after those that were given out.       *)
(***************************************************************************)
LEMMA OrderAppended ==
    ASSUME NEW u \in Seq(Nat), NEW m \in Nat, NEW n \in Nat, NEW f,
           f = [i \in 1 .. n |-> m + Len(u) + i],
           \A i \in 1 .. Len(u) : u[i] = m + i
    PROVE  /\ u \o f \in Seq(Nat)
           /\ Len(u \o f) = Len(u) + n
           /\ \A i \in 1 .. Len(u) + n : (u \o f)[i] = m + i
           /\ \A i \in 1 .. Len(u) : (u \o f)[i] = u[i]
<1>1. Len(u) \in Nat
  OBVIOUS
<1>2. f \in [1 .. n -> Nat] /\ \A i \in 1 .. n : f[i] = m + Len(u) + i
  BY <1>1
<1>3. /\ u \o f \in Seq(Nat) /\ Len(u \o f) = Len(u) + n
      /\ \A i \in 1 .. Len(u) : (u \o f)[i] = u[i]
      /\ \A i \in 1 .. n : (u \o f)[Len(u) + i] = f[i]
  BY <1>2, RunAppended
<1>4. ASSUME NEW i \in 1 .. Len(u) + n PROVE (u \o f)[i] = m + i
  <2>1. CASE i <= Len(u)
    BY <1>1, <1>3, <2>1
  <2>2. CASE i > Len(u)
    <3>1. i - Len(u) \in 1 .. n /\ Len(u) + (i - Len(u)) = i
      BY <1>1, <2>2
    <3>2. (u \o f)[i] = f[i - Len(u)]
      BY <1>3, <3>1
    <3> QED
      BY <1>1, <1>2, <3>1, <3>2
  <2> QED
    BY <1>1, <2>1, <2>2
<1> QED
  BY <1>3, <1>4

(***************************************************************************)
(* The invariant holds when a descriptor is opened.                        *)
(***************************************************************************)
LEMMA RioStarts == RioInit => RioIInv
<1> SUFFICES ASSUME RioInit PROVE RioIInv
  OBVIOUS
<1> USE RioAssumption DEF RioInit
<1>1. RioTypeOK
  <2>1. <<>> \in Seq(Nat)
    OBVIOUS
  <2> QED
    BY <2>1 DEF RioTypeOK
<1>2. Len(got) = 0
  OBVIOUS
<1>3. InOrder /\ NothingLost /\ Complete
  BY <1>2 DEF InOrder, NothingLost, Complete
<1>4. BufferFollows /\ OneMode /\ NotTooMuch
  BY <1>2 DEF BufferFollows, OneMode, NotTooMuch
<1> QED
  BY <1>1, <1>3, <1>4 DEF RioIInv

(***************************************************************************)
(* Each action preserves it.                                               *)
(***************************************************************************)
LEMMA CallKeeps ==
    ASSUME RioIInv, NEW c \in {"readn", "readnb", "readlineb", "writen"}, NEW n \in 0 .. MaxWant, Call(c, n)
    PROVE  RioIInv'
<1> USE RioAssumption DEF Call, stream, rio
<1>1. Len(got) \in Nat /\ before \in Nat /\ got' = <<>> /\ Len(got') = 0
  BY DEF RioIInv, RioTypeOK
<1>2. RioTypeOK'
  BY <1>1 DEF RioIInv, RioTypeOK
<1>3. (InOrder /\ NothingLost /\ Complete)'
  BY <1>1 DEF RioIInv, RioTypeOK, InOrder, NothingLost, Complete
<1>4. (BufferFollows /\ OneMode /\ NotTooMuch)'
  BY <1>1 DEF RioIInv, RioTypeOK, BufferFollows, OneMode, NotTooMuch
<1> QED
  BY <1>2, <1>3, <1>4 DEF RioIInv

LEMMA FinishKeeps ==
    ASSUME RioIInv, Finish
    PROVE  RioIInv'
<1> USE RioAssumption DEF Finish, Return, Buffered, stream, rio
<1>1. Len(got) \in Nat /\ want \in Nat
  BY DEF RioIInv, RioTypeOK
<1>2. (RioTypeOK /\ InOrder /\ NothingLost)'
  BY <1>1 DEF RioIInv, RioTypeOK, InOrder, NothingLost
<1>3. Complete'
  <2>1. CASE call = "readnb"
    BY <1>1, <2>1 DEF RioIInv, Ended, Left, Complete
  <2>2. CASE call = "readlineb"
    <3>1. Len(got) <= want /\ (got # <<>> => Len(got) < want)
          /\ \A i \in 1 .. Len(got) - 1 : got[i] \notin newlines
      BY <2>2 DEF RioIInv, NotTooMuch
    <3>2. got = <<>> => Len(got) = 0
      OBVIOUS
    <3>3. want - Len(got) <= 1 \/ (got # <<>> /\ got[Len(got)] \in newlines)
      BY <2>2 DEF Ended, Left
    <3> QED
      BY <1>1, <2>2, <3>1, <3>2, <3>3 DEF Complete
  <2> QED
    BY <2>1, <2>2
<1>4. (BufferFollows /\ OneMode /\ NotTooMuch)'
  BY DEF RioIInv, BufferFollows, OneMode, NotTooMuch
<1> QED
  BY <1>2, <1>3, <1>4 DEF RioIInv

LEMMA ReadnKeeps ==
    ASSUME RioIInv, rio_readn
    PROVE  RioIInv'
<1> USE RioAssumption DEF stream, rio
<1>1. /\ Len(got) \in Nat /\ want \in Nat /\ Len(got) <= want /\ got \in Seq(Nat)
      /\ taken \in Nat /\ total \in Nat /\ before \in Nat /\ taken <= total
      /\ mode = "direct" /\ rio_cnt = 0 /\ taken = before + Len(got)
      /\ call = "readn" /\ proc = "running" /\ UNCHANGED <<stream, rio, call, want, before>>
  <2>1. call = "readn" /\ proc = "running" /\ UNCHANGED <<stream, rio, call, want, before>>
    BY DEF rio_readn
  <2>2. mode = "direct"
    BY <2>1 DEF RioIInv, RioTypeOK, OneMode, Calls
  <2>3. rio_cnt = 0
    BY <2>2 DEF RioIInv, OneMode
  <2> QED
    BY <2>1, <2>2, <2>3 DEF RioIInv, RioTypeOK, NotTooMuch, NothingLost
<1>2. ASSUME NEW k \in 1 .. AtMost(Left, total - taken),
             got' = got \o [i \in 1 .. k |-> taken + i], taken' = taken + k, Retries
      PROVE  RioIInv'
  <2>1. k \in Nat /\ k <= want - Len(got) /\ k <= total - taken
    BY <1>1, <1>2 DEF AtMost, Left
  <2> DEFINE run == [i \in 1 .. k |-> before + Len(got) + i]
  <2>2. got' = got \o run
    BY <1>1, <1>2, <2>1
  <2>3. \A i \in 1 .. Len(got) : got[i] = before + i
    BY DEF RioIInv, InOrder
  <2> HIDE DEF run
  <2>4. /\ got' \in Seq(Nat) /\ Len(got') = Len(got) + k
        /\ \A i \in 1 .. Len(got') : got'[i] = before + i
    <3>1. run = [i \in 1 .. k |-> before + Len(got) + i]
      BY DEF run
    <3>2. /\ got \o run \in Seq(Nat) /\ Len(got \o run) = Len(got) + k
          /\ \A i \in 1 .. Len(got) + k : (got \o run)[i] = before + i
      BY <1>1, <2>1, <2>3, <3>1, OrderAppended
    <3> QED
      BY <2>2, <3>2
  <2>5. RioTypeOK' /\ InOrder'
    BY <1>1, <1>2, <2>1, <2>4 DEF RioIInv, RioTypeOK, InOrder, Retries
  <2>6. (NothingLost /\ NotTooMuch /\ OneMode /\ BufferFollows /\ Complete)'
    BY <1>1, <1>2, <2>1, <2>4
       DEF RioIInv, NothingLost, NotTooMuch, OneMode, BufferFollows, Complete, Retries
  <2> QED
    BY <2>5, <2>6 DEF RioIInv
<1>3. ASSUME \/ (Left = 0 \/ taken = total) /\ Return(Len(got))
             \/ Left > 0 /\ (Fails \/ Retries),
             UNCHANGED <<got, taken>>
      PROVE  RioIInv'
  <2>1. RioTypeOK' /\ InOrder' /\ NothingLost'
    BY <1>1, <1>3 DEF RioIInv, RioTypeOK, InOrder, NothingLost, Return, Fails, Retries
  <2>2. Complete'
    BY <1>1, <1>3 DEF RioIInv, Complete, Left, Return, Fails, Retries
  <2>3. (BufferFollows /\ OneMode /\ NotTooMuch)'
    BY <1>1, <1>3 DEF RioIInv, BufferFollows, OneMode, NotTooMuch
  <2> QED
    BY <2>1, <2>2, <2>3 DEF RioIInv
<1>4. \/ \E k \in 1 .. AtMost(Left, total - taken) :
             got' = got \o [i \in 1 .. k |-> taken + i] /\ taken' = taken + k /\ Retries
      \/ /\ \/ (Left = 0 \/ taken = total) /\ Return(Len(got))
            \/ Left > 0 /\ (Fails \/ Retries)
         /\ UNCHANGED <<got, taken>>
  BY DEF rio_readn
<1> QED
  BY <1>2, <1>3, <1>4

LEMMA WritenKeeps ==
    ASSUME RioIInv, rio_writen
    PROVE  RioIInv'
<1> USE RioAssumption DEF stream, rio
<1>1. /\ Len(got) \in Nat /\ want \in Nat /\ Len(got) <= want /\ got \in Seq(Nat)
      /\ before \in Nat /\ mode = "write" /\ rio_cnt = 0
      /\ call = "writen" /\ proc = "running"
      /\ UNCHANGED <<stream, taken, rio, call, want, before>>
  BY DEF rio_writen, RioIInv, RioTypeOK, NotTooMuch, OneMode, Calls
<1>2. ASSUME NEW k \in 1 .. Left,
             got' = got \o [i \in 1 .. k |-> before + Len(got) + i], Retries
      PROVE  RioIInv'
  <2>1. k \in Nat /\ k <= want - Len(got)
    BY <1>1, <1>2 DEF Left
  <2> DEFINE run == [i \in 1 .. k |-> before + Len(got) + i]
  <2>2. got' = got \o run
    BY <1>1, <1>2, <2>1
  <2>3. \A i \in 1 .. Len(got) : got[i] = before + i
    BY DEF RioIInv, InOrder
  <2> HIDE DEF run
  <2>4. /\ got' \in Seq(Nat) /\ Len(got') = Len(got) + k
        /\ \A i \in 1 .. Len(got') : got'[i] = before + i
    <3>1. run = [i \in 1 .. k |-> before + Len(got) + i]
      BY DEF run
    <3>2. /\ got \o run \in Seq(Nat) /\ Len(got \o run) = Len(got) + k
          /\ \A i \in 1 .. Len(got) + k : (got \o run)[i] = before + i
      BY <1>1, <2>1, <2>3, <3>1, OrderAppended
    <3> QED
      BY <2>2, <3>2
  <2>5. RioTypeOK' /\ InOrder'
    BY <1>1, <1>2, <2>1, <2>4 DEF RioIInv, RioTypeOK, InOrder, Retries
  <2>6. (NothingLost /\ NotTooMuch /\ OneMode /\ BufferFollows /\ Complete)'
    BY <1>1, <1>2, <2>1, <2>4
       DEF RioIInv, NothingLost, NotTooMuch, OneMode, BufferFollows, Complete, Retries
  <2> QED
    BY <2>5, <2>6 DEF RioIInv
<1>3. ASSUME (Left = 0 /\ Return(want)) \/ (Left > 0 /\ (Fails \/ Retries)), UNCHANGED got
      PROVE  RioIInv'
  <2>1. RioTypeOK' /\ InOrder' /\ NothingLost'
    BY <1>1, <1>3 DEF RioIInv, RioTypeOK, InOrder, NothingLost, Return, Fails, Retries
  <2>2. Complete'
    BY <1>1, <1>3 DEF RioIInv, Complete, Left, Return, Fails, Retries
  <2>3. (BufferFollows /\ OneMode /\ NotTooMuch)'
    BY <1>1, <1>3 DEF RioIInv, BufferFollows, OneMode, NotTooMuch
  <2> QED
    BY <2>1, <2>2, <2>3 DEF RioIInv
<1> QED
  BY <1>2, <1>3 DEF rio_writen

LEMMA RefillKeeps ==
    ASSUME RioIInv, Refill
    PROVE  RioIInv'
<1> USE RioAssumption DEF stream, rio
<1>1. /\ Len(got) \in Nat /\ want \in Nat /\ Len(got) <= want /\ got \in Seq(Nat)
      /\ taken \in Nat /\ total \in Nat /\ before \in Nat /\ taken <= total
      /\ rio_cnt \in Int /\ rio_cnt <= 0 /\ rio_buf \in [1 .. RIO_BUFSIZE -> Nat]
      /\ call \in {"readnb", "readlineb"} /\ proc = "running" /\ mode = "buffered"
      /\ taken = before + Len(got) /\ ~Ended /\ UNCHANGED <<stream, call, want, before, got>>
  <2>1. /\ call \in {"readnb", "readlineb"} /\ proc = "running" /\ rio_cnt <= 0 /\ ~Ended
        /\ UNCHANGED <<stream, call, want, before, got>>
    BY DEF Refill, Buffered
  <2>2. mode = "buffered"
    BY <2>1 DEF RioIInv, RioTypeOK, OneMode, Calls
  <2> QED
    BY <2>1, <2>2 DEF RioIInv, RioTypeOK, NotTooMuch, NothingLost
<1>2. InOrder' /\ NotTooMuch' /\ OneMode'
  BY <1>1 DEF RioIInv, InOrder, NotTooMuch, OneMode
<1>3. ASSUME NEW k \in 1 .. AtMost(RIO_BUFSIZE, total - taken),
             rio_buf' = [i \in DOMAIN rio_buf |-> IF i <= k THEN taken + i ELSE rio_buf[i]],
             rio_bufptr' = 1, rio_cnt' = k, taken' = taken + k, Retries
      PROVE  RioIInv'
  <2>1. k \in Nat /\ 1 <= k /\ k <= RIO_BUFSIZE /\ k <= total - taken
    BY <1>1, <1>3 DEF AtMost
  <2>2. DOMAIN rio_buf = 1 .. RIO_BUFSIZE
    BY <1>1
  <2>3. rio_buf' \in [1 .. RIO_BUFSIZE -> Nat] /\ \A i \in 1 .. k : rio_buf'[i] = taken + i
    BY <1>1, <1>3, <2>1, <2>2
  <2>4. RioTypeOK'
    BY <1>1, <1>3, <2>1, <2>3 DEF RioIInv, RioTypeOK, Retries
  <2>5. NothingLost' /\ Complete'
    <3>1. taken' = before + Len(got) + k /\ rio_cnt' = k /\ k > 0 /\ proc' = "running"
      BY <1>1, <1>3, <2>1 DEF Retries
    <3> QED
      BY <1>1, <3>1 DEF NothingLost, Complete
  <2>6. BufferFollows'
    <3> SUFFICES ASSUME NEW i \in 0 .. rio_cnt' - 1
                 PROVE  /\ rio_bufptr' + rio_cnt' <= RIO_BUFSIZE + 1
                        /\ rio_buf'[rio_bufptr' + i] = before' + Len(got') + 1 + i
      BY <1>3, <2>1 DEF BufferFollows
    <3>1. i + 1 \in 1 .. k /\ rio_bufptr' + i = i + 1
      BY <1>3, <2>1
    <3>2. rio_buf'[rio_bufptr' + i] = taken + (i + 1)
      BY <2>3, <3>1
    <3> QED
      BY <1>1, <1>3, <2>1, <3>1, <3>2
  <2> QED
    BY <1>2, <2>4, <2>5, <2>6 DEF RioIInv
<1>4. ASSUME \/ taken = total /\ rio_cnt' = 0 /\ Return(Len(got))
             \/ rio_cnt' = -1 /\ (Fails \/ Retries),
             UNCHANGED <<rio_buf, rio_bufptr, taken>>
      PROVE  RioIInv'
  <2>1. RioTypeOK' /\ NothingLost' /\ BufferFollows'
    BY <1>1, <1>4
       DEF RioIInv, RioTypeOK, NothingLost, BufferFollows, Return, Fails, Retries
  <2>2. Complete'
    <3>1. CASE taken = total /\ rio_cnt' = 0 /\ Return(Len(got))
      <4>1. call = "readnb" => Len(got) < want
        BY <1>1 DEF Ended, Left
      <4>2. call = "readlineb" => \A i \in 1 .. Len(got) - 1 : got[i] \notin newlines
        BY DEF RioIInv, NotTooMuch
      <4> QED
        BY <1>1, <1>4, <3>1, <4>1, <4>2 DEF Complete, Return
    <3>2. CASE rio_cnt' = -1 /\ (Fails \/ Retries)
      BY <1>1, <1>4, <3>2 DEF Complete, Fails, Retries
    <3> QED
      BY <1>4, <3>1, <3>2
  <2> QED
    BY <1>2, <2>1, <2>2 DEF RioIInv
<1>5. \/ \E k \in 1 .. AtMost(RIO_BUFSIZE, total - taken) :
             /\ rio_buf' = [i \in DOMAIN rio_buf |-> IF i <= k THEN taken + i ELSE rio_buf[i]]
             /\ rio_bufptr' = 1 /\ rio_cnt' = k /\ taken' = taken + k /\ Retries
      \/ /\ \/ taken = total /\ rio_cnt' = 0 /\ Return(Len(got))
            \/ rio_cnt' = -1 /\ (Fails \/ Retries)
         /\ UNCHANGED <<rio_buf, rio_bufptr, taken>>
  BY DEF Refill
<1> QED
  BY <1>3, <1>4, <1>5

LEMMA CopyKeeps ==
    ASSUME RioIInv, Copy
    PROVE  RioIInv'
<1> USE RioAssumption DEF stream, rio
<1>1. /\ call \in {"readnb", "readlineb"} /\ proc = "running" /\ rio_cnt > 0 /\ ~Ended
      /\ got' = got \o [i \in 1 .. Transfer |-> rio_buf[rio_bufptr + i - 1]]
      /\ rio_bufptr' = rio_bufptr + Transfer /\ rio_cnt' = rio_cnt - Transfer
      /\ UNCHANGED <<stream, taken, rio_buf, call, want, before, rc, proc>>
  BY DEF Copy, Buffered
<1>2. /\ Len(got) \in Nat /\ want \in Nat /\ Len(got) <= want /\ got \in Seq(Nat)
      /\ taken \in Nat /\ total \in Nat /\ before \in Nat /\ taken <= total
      /\ rio_cnt \in Nat /\ rio_buf \in [1 .. RIO_BUFSIZE -> Nat] /\ rio_bufptr \in Nat
      /\ rio_bufptr >= 1
  BY <1>1 DEF RioIInv, RioTypeOK, NotTooMuch
<1>3. mode = "buffered" /\ taken = before + Len(got) + rio_cnt
  <2>1. mode = "buffered"
    BY <1>1 DEF RioIInv, RioTypeOK, OneMode, Calls
  <2> QED
    BY <1>1, <2>1 DEF RioIInv, NothingLost
<1>4. /\ rio_bufptr + rio_cnt <= RIO_BUFSIZE + 1
      /\ \A i \in 0 .. rio_cnt - 1 : rio_buf[rio_bufptr + i] = before + Len(got) + 1 + i
  BY <1>1 DEF RioIInv, BufferFollows
<1> DEFINE n == Transfer
<1>5. /\ n \in Nat /\ 1 <= n /\ n <= rio_cnt /\ n <= want - Len(got)
      /\ call = "readlineb" => n = 1 /\ Len(got) + 1 < want
  BY <1>1, <1>2 DEF Transfer, AtMost, Ended, Left
<1> DEFINE run == [i \in 1 .. n |-> rio_buf[rio_bufptr + i - 1]]
<1>6. run = [i \in 1 .. n |-> before + Len(got) + i]
  <2>1. ASSUME NEW i \in 1 .. n PROVE rio_buf[rio_bufptr + i - 1] = before + Len(got) + i
    <3>1. i - 1 \in 0 .. rio_cnt - 1 /\ rio_bufptr + (i - 1) = rio_bufptr + i - 1
      BY <1>2, <1>5
    <3>2. rio_buf[rio_bufptr + (i - 1)] = before + Len(got) + 1 + (i - 1)
      BY <1>4, <3>1
    <3> QED
      BY <1>2, <1>5, <3>1, <3>2
  <2> QED
    BY <2>1
<1>7. got' = got \o run
  BY <1>1
<1> HIDE DEF run, n
<1>8. /\ got' \in Seq(Nat) /\ Len(got') = Len(got) + n
      /\ \A i \in 1 .. Len(got') : got'[i] = before + i
      /\ \A i \in 1 .. Len(got) : got'[i] = got[i]
  <2>1. \A i \in 1 .. Len(got) : got[i] = before + i
    BY DEF RioIInv, InOrder
  <2>2. /\ got \o run \in Seq(Nat) /\ Len(got \o run) = Len(got) + n
        /\ \A i \in 1 .. Len(got) + n : (got \o run)[i] = before + i
        /\ \A i \in 1 .. Len(got) : (got \o run)[i] = got[i]
    BY <1>2, <1>5, <1>6, <2>1, OrderAppended
  <2> QED
    BY <1>7, <2>2
<1>9. /\ rio_bufptr' = rio_bufptr + n /\ rio_cnt' = rio_cnt - n
      /\ UNCHANGED <<stream, taken, rio_buf, call, want, before, rc, proc>>
  BY <1>1 DEF n
<1>10. RioTypeOK' /\ InOrder' /\ NothingLost' /\ Complete'
  <2>1. RioTypeOK'
    <3>1. rio_bufptr' \in 1 .. RIO_BUFSIZE + 1 /\ rio_cnt' \in -1 .. RIO_BUFSIZE
      BY <1>2, <1>4, <1>5, <1>9
    <3>2. got' \in Seq(Nat)
      BY <1>8
    <3> QED
      BY <1>9, <3>1, <3>2 DEF RioIInv, RioTypeOK
  <2>2. NothingLost'
    <3>1. rio_cnt' \in Nat /\ before' + Len(got') \in Nat /\ taken' = before' + Len(got') + rio_cnt'
      BY <1>2, <1>3, <1>5, <1>8, <1>9
    <3>2. CASE rio_cnt' > 0
      BY <3>1, <3>2 DEF NothingLost
    <3>3. CASE rio_cnt' = 0
      BY <3>1, <3>3 DEF NothingLost
    <3> QED
      BY <3>1, <3>2, <3>3
  <2> QED
    BY <1>1, <1>8, <1>9, <2>1, <2>2 DEF InOrder, Complete
<1>11. OneMode'
  BY <1>1, <1>3, <1>9 DEF RioIInv, OneMode
<1>12. BufferFollows'
  <2>1. rio_bufptr' + rio_cnt' <= RIO_BUFSIZE + 1
    BY <1>2, <1>4, <1>5, <1>9
  <2>2. ASSUME NEW i \in 0 .. rio_cnt' - 1
        PROVE  rio_buf'[rio_bufptr' + i] = before' + Len(got') + 1 + i
    <3>1. n + i \in 0 .. rio_cnt - 1 /\ rio_bufptr' + i = rio_bufptr + (n + i)
      BY <1>2, <1>5, <1>9
    <3>2. rio_buf[rio_bufptr + (n + i)] = before + Len(got) + 1 + (n + i)
      BY <1>4, <3>1
    <3>3. rio_buf'[rio_bufptr' + i] = rio_buf[rio_bufptr + (n + i)]
      BY <1>9, <3>1
    <3> QED
      BY <1>2, <1>5, <1>8, <1>9, <3>2, <3>3
  <2> QED
    BY <2>1, <2>2 DEF BufferFollows
<1>13. NotTooMuch'
  <2>1. Len(got') <= want'
    BY <1>2, <1>5, <1>8, <1>9
  <2>2. ASSUME call = "readlineb", NEW i \in 1 .. Len(got') - 1
        PROVE  got'[i] \notin newlines
    <3>1. i \in 1 .. Len(got) /\ got'[i] = got[i]
      BY <1>2, <1>5, <1>8, <2>2
    <3>2. CASE i = Len(got)
      <4>1. got # <<>>
        BY <3>1
      <4> QED
        BY <1>1, <2>2, <3>1, <3>2, <4>1 DEF Ended
    <3>3. CASE i # Len(got)
      <4>1. i \in 1 .. Len(got) - 1
        BY <1>2, <3>1, <3>3
      <4> QED
        BY <2>2, <3>1, <4>1 DEF RioIInv, NotTooMuch
    <3> QED
      BY <3>2, <3>3
  <2> QED
    BY <1>2, <1>5, <1>8, <1>9, <2>1, <2>2 DEF NotTooMuch
<1> QED
  BY <1>10, <1>11, <1>12, <1>13 DEF RioIInv

(***************************************************************************)
(* The theorem                                                             *)
(***************************************************************************)

\* For every buffer size, stream, sequence of calls and every way read() and
\* write() may cut them short, interrupt them or fail: what the calls give out is
\* the stream in order and complete, and nothing is lost between them.
THEOREM KeepsTheStream == RioSpec => []RioKeepsTheStream
<1>1. RioInit => RioIInv
  BY RioStarts
<1>2. RioIInv /\ [RioNext]_rioVars => RioIInv'
  <2> SUFFICES ASSUME RioIInv, [RioNext]_rioVars PROVE RioIInv'
    OBVIOUS
  <2>1. ASSUME NEW c \in {"readn", "readnb", "readlineb", "writen"}, NEW n \in 0 .. MaxWant,
               Call(c, n)
        PROVE  RioIInv'
    BY <2>1, CallKeeps
  <2>2. CASE rio_readn
    BY <2>2, ReadnKeeps
  <2>3. CASE rio_writen
    BY <2>3, WritenKeeps
  <2>4. CASE Refill
    BY <2>4, RefillKeeps
  <2>5. CASE Copy
    BY <2>5, CopyKeeps
  <2>6. CASE Finish
    BY <2>6, FinishKeeps
  <2>7. CASE UNCHANGED rioVars
    BY <2>7 DEF rioVars, stream, rio, RioIInv, RioTypeOK, InOrder, NothingLost, Complete,
                BufferFollows, OneMode, NotTooMuch
  <2> QED
    BY <2>1, <2>2, <2>3, <2>4, <2>5, <2>6, <2>7 DEF RioNext
<1>3. RioIInv => RioKeepsTheStream
  BY DEF RioIInv, RioKeepsTheStream
<1> QED
  BY <1>1, <1>2, <1>3, PTL DEF RioSpec

-----------------------------------------------------------------------------
(***************************************************************************)
(* Tiny, for every set of URIs and of files and every number of header     *)
(* lines: what it holds and what it has written follow from where it is.   *)
(***************************************************************************)

\* What a call writes.
Heads == {"status", "type.html", "title", "color", "message", "cause", "hr", "server", "length", "type.gif",
          "type.plain", "body", "cgi length", "cgi body", "log"}
Out == [h : Heads, n : Nat]

\* All that a request may be answered by; a client that left before its line
\* was read is answered by nothing.
CgiLines == <<Line("cgi length", 1), Line("cgi body", 1)>>
Page == FileLines(name, sbuf.size) \o <<Line("body", sbuf.size)>>
Served == request.method = "GET" /\ sbuf.mode \in {"denied", "usable"}
Full(q) ==
    \/ q = <<>> /\ client = "gone"
    \/ request.method # "GET" /\ q = clienterror(501)
    \/ request.method = "GET" /\ sbuf.mode = "missing" /\ q = clienterror(404)
    \/ request.method = "GET" /\ sbuf.mode = "forbidden" /\ q = clienterror(403)
    \/ Served /\ is_static(request.uri) /\ q = Page
    \/ /\ Served /\ ~is_static(request.uri)
       /\ \/ q = OkLines \/ q = OkLines \o CgiLines
          \/ q = OkLines \o <<Line("log", 0)>> /\ ~Tty

TinyType ==
    /\ step \in {"accept", "line", "headers", "spin", "stat", "open", "mmap", "body", "fork", "wait", "close", "dead"}
    /\ child \in {"none", "forked", "zombie"}
    /\ file \in Files \cup {Absent} /\ sbuf \in Files \cup {Absent}
    /\ todo \in Seq(Out) /\ response \in Seq(Out)
    /\ log => ~Tty

\* What the server holds, by where it is.
Holding ==
    /\ step \in {"accept", "dead"} => held = {}
    /\ step \in {"line", "headers", "spin", "stat", "open", "fork", "wait", "close"} => held = {"connfd"}
    /\ step = "mmap" => held = {"connfd", "srcfd"}
    /\ step = "body" => held = {"connfd", "srcp"}
    /\ step = "wait" <=> child # "none"

\* What was written, and what is still to be, is part of one answer.
Scripted ==
    /\ step \in {"accept", "line", "headers", "spin", "stat", "mmap", "wait", "dead"} => todo = <<>>
    /\ step \in {"line", "headers", "spin", "stat"} => response = <<>>
    /\ step \in {"headers", "spin", "stat"} => request.method = "GET"
    /\ step \in {"open", "mmap", "body"} => Served /\ is_static(request.uri)
    /\ step \in {"fork", "wait"} => Served /\ ~is_static(request.uri)
    /\ step \in {"open", "mmap"} => response \o todo = FileLines(name, sbuf.size)
    /\ step = "body" => response \o todo = Page
    /\ step = "fork" => response \o todo = OkLines
    /\ step = "wait" /\ child = "forked" => response = OkLines
    /\ step = "wait" /\ child # "forked" => Full(response)
    /\ step = "close" => Full(response \o todo)
    /\ step = "accept" => Full(response)

TinyIInv == TinyType /\ Holding /\ Scripted /\ DeathExplained

LEMMA OutLines ==
    ASSUME NEW n \in Nat
    PROVE  /\ clienterror(n) \in Seq(Out) /\ OkLines \in Seq(Out) /\ CgiLines \in Seq(Out)
           /\ \A f : FileLines(f, n) \in Seq(Out) /\ get_filetype(f) \in {"type.html", "type.gif", "type.plain"}
           /\ <<Line("body", n)>> \in Seq(Out) /\ <<Line("log", 0)>> \in Seq(Out)
<1>1. \A f : get_filetype(f) \in {"type.html", "type.gif", "type.plain"}
  BY DEF get_filetype
<1>2. clienterror(n) \in Seq(Out)
  <2>1. /\ Line("status", n) \in Out /\ Line("type.html", 0) \in Out /\ Line("title", 0) \in Out
        /\ Line("color", 0) \in Out /\ Line("message", n) \in Out /\ Line("cause", 0) \in Out
        /\ Line("hr", 0) \in Out
    BY DEF Line, Out, Heads
  <2> QED BY <2>1 DEF clienterror
<1>3. OkLines \in Seq(Out) /\ CgiLines \in Seq(Out)
  <2>1. \A x, y \in Out : <<x, y>> \in Seq(Out)
    OBVIOUS
  <2>2. Line("status", 200) \in Out /\ Line("server", 0) \in Out
    BY DEF Line, Out, Heads
  <2>3. Line("cgi length", 1) \in Out /\ Line("cgi body", 1) \in Out
    BY DEF Line, Out, Heads
  <2>4. OkLines \in Seq(Out)
    BY <2>1, <2>2 DEF OkLines
  <2>5. CgiLines \in Seq(Out)
    BY <2>1, <2>3 DEF CgiLines
  <2> QED BY <2>4, <2>5
<1>4. ASSUME NEW f PROVE FileLines(f, n) \in Seq(Out)
  <2>1. <<Line("length", n), Line(get_filetype(f), 0)>> \in Seq(Out)
    <3>1. PICK t \in {"type.html", "type.gif", "type.plain"} : t = get_filetype(f)
      BY <1>1
    <3>2. t \in Heads
      BY DEF Heads
    <3>3. Line("length", n) \in Out /\ Line(t, 0) \in Out
      BY <3>2 DEF Line, Out, Heads
    <3> QED BY <3>1, <3>3
  <2> QED BY <1>3, <2>1, ConcatProperties DEF FileLines
<1>5. <<Line("body", n)>> \in Seq(Out) /\ <<Line("log", 0)>> \in Seq(Out)
  <2>1. Line("body", n) \in Out /\ Line("log", 0) \in Out
    BY DEF Line, Out, Heads
  <2> QED BY <2>1
<1> QED BY <1>1, <1>2, <1>3, <1>4, <1>5

\* A write moves one line from what is to be written to what was.
LEMMA OneWritten ==
    ASSUME NEW r \in Seq(Out), NEW t \in Seq(Out), t # <<>>
    PROVE  /\ Append(r, Head(t)) \in Seq(Out) /\ Tail(t) \in Seq(Out)
           /\ Append(r, Head(t)) \o Tail(t) = r \o t
<1>1. Head(t) \in Out /\ Tail(t) \in Seq(Out) /\ t = <<Head(t)>> \o Tail(t)
  <2>1. Head(t) \in Out /\ Tail(t) \in Seq(Out) /\ Len(Tail(t)) = Len(t) - 1 /\ Head(t) = t[1]
        /\ \A i \in 1 .. Len(Tail(t)) : Tail(t)[i] = t[i + 1]
    BY HeadTailProperties
  <2>2. <<Head(t)>> \in Seq(Out) /\ Len(<<Head(t)>>) = 1 /\ <<Head(t)>>[1] = Head(t) /\ Len(t) \in Nat
    BY <2>1, LenProperties
  <2>3. /\ <<Head(t)>> \o Tail(t) \in Seq(Out) /\ Len(<<Head(t)>> \o Tail(t)) = Len(t)
        /\ \A i \in 1 .. Len(t) : (<<Head(t)>> \o Tail(t))[i] = IF i <= 1 THEN <<Head(t)>>[i] ELSE Tail(t)[i - 1]
    BY <2>1, <2>2, ConcatProperties
  <2>4. \A i \in 1 .. Len(t) : (<<Head(t)>> \o Tail(t))[i] = t[i]
    <3>1. \A i \in 1 .. Len(t) : i # 1 => i - 1 \in 1 .. Len(Tail(t)) /\ (i - 1) + 1 = i /\ ~ (i <= 1)
      BY <2>1, <2>2
    <3>2. ASSUME NEW i \in 1 .. Len(t) PROVE (<<Head(t)>> \o Tail(t))[i] = t[i]
      <4>1. CASE i = 1
        BY <2>1, <2>2, <2>3, <4>1
      <4>2. CASE i # 1
        BY <2>1, <2>3, <3>1, <4>2
      <4> QED BY <4>1, <4>2
    <3> QED BY <3>2
  <2> QED BY <2>1, <2>3, <2>4, SeqEqual
<1>2. Append(r, Head(t)) \in Seq(Out) /\ Append(r, Head(t)) = r \o <<Head(t)>> /\ <<Head(t)>> \in Seq(Out)
  BY <1>1, AppendProperties, AppendIsConcat
<1>3. (r \o <<Head(t)>>) \o Tail(t) = r \o (<<Head(t)>> \o Tail(t))
  BY <1>1, <1>2, ConcatAssociative
<1> QED BY <1>1, <1>2, <1>3

LEMMA TinyStarts == TinyInit => TinyIInv
<1> SUFFICES ASSUME TinyInit PROVE TinyIInv
  OBVIOUS
<1>1. TinyType /\ Holding /\ Scripted /\ DeathExplained
  BY DEF TinyInit, TinyType, Holding, Scripted, Full, DeathExplained
<1> QED BY <1>1 DEF TinyIInv

\* Full says the same of a request as long as it, sbuf and the client are the
\* same, or the client leaves.
LEMMA FullStays ==
    ASSUME NEW q, Full(q), UNCHANGED <<request, name, sbuf>>, client = "gone" => client' = "gone"
    PROVE  Full(q)'
BY DEF Full, Served, Page, FileLines, OkLines

LEMMA OutsideKeeps ==
    ASSUME TinyIInv, Change \/ SendHeader \/ Leave
    PROVE  TinyIInv'
<1> USE DEF TinyIInv, Change, SendHeader, Leave, rest, clientVars
<1>1. /\ UNCHANGED <<request, step, todo, hdrs, name, sbuf, held, child, log, response>>
      /\ client = "gone" => client' = "gone"
  OBVIOUS
<1>2. TinyType' /\ Holding'
  BY <1>1 DEF TinyType, Holding
<1>3. DeathExplained'
  BY <1>1 DEF DeathExplained
<1>4. Full(response) => Full(response)'
  BY <1>1, FullStays
<1>5. Full(response \o todo) => Full(response \o todo)'
  BY <1>1, FullStays
<1>6. Scripted'
  BY <1>1, <1>4, <1>5 DEF Scripted, Served, Page
<1> QED BY <1>2, <1>3, <1>6

\* The process is over, for a reason that DeathExplained allows.
LEMMA DieKeeps ==
    ASSUME TinyIInv, Die, step # "wait", DeathExplained', file' \in Files \cup {Absent},
           UNCHANGED <<child, log, response>>
    PROVE  TinyIInv'
<1>1. TinyType'
  <2>1. <<>> \in Seq(Out)
    OBVIOUS
  <2> QED BY <2>1 DEF TinyIInv, TinyType, Die
<1>2. child = "none"
  BY DEF TinyIInv, Holding
<1>3. Holding' /\ Scripted'
  BY <1>2 DEF Holding, Scripted, Die
<1> QED BY <1>1, <1>3 DEF TinyIInv

LEMMA AcceptKeeps ==
    ASSUME TinyIInv, AcceptClient
    PROVE  TinyIInv'
<1>1. /\ step' = "line" /\ response' = <<>> /\ file' \in Files /\ todo' = todo /\ sbuf' = sbuf /\ child' = child
      /\ log' = ~Tty /\ step = "accept" /\ held' = held \cup {"connfd"}
  BY DEF AcceptClient
<1>2. TinyType'
  <2>1. <<>> \in Seq(Out)
    OBVIOUS
  <2> QED BY <1>1, <2>1 DEF TinyType, TinyIInv
<1>3. Holding' /\ DeathExplained' /\ Scripted'
  BY <1>1 DEF TinyIInv, Holding, Scripted, DeathExplained
<1> QED BY <1>2, <1>3 DEF TinyIInv

LEMMA ReadRequestKeeps ==
    ASSUME TinyIInv, ReadRequest
    PROVE  TinyIInv'
<1>1. /\ step = "line" /\ UNCHANGED <<file, client, request, name, sbuf, held, child, log, response>>
      /\ \/ step' = "close" /\ todo' = clienterror(501) /\ request.method # "GET"
         \/ step' = "headers" /\ todo' = todo /\ request.method = "GET"
         \/ step' = "close" /\ todo' = todo /\ client = "gone"
  BY DEF ReadRequest, Refuse
<1>2. response = <<>> /\ todo = <<>> /\ child = "none"
  BY <1>1 DEF TinyIInv, Scripted, Holding
<1>3. clienterror(501) \in Seq(Out)
  BY OutLines
<1>4. TinyType' /\ Holding' /\ DeathExplained'
  BY <1>1, <1>3 DEF TinyIInv, TinyType, Holding, DeathExplained
<1>5. CASE step' = "close"
  <2>1. Full(response \o todo)'
    <3>1. CASE todo' = clienterror(501) /\ request.method # "GET"
      <4>1. response' \o todo' = clienterror(501)
        BY <1>1, <1>2, <1>3, <3>1, ConcatEmptySeq
      <4> QED BY <1>1, <3>1, <4>1 DEF Full
    <3>2. CASE client = "gone" /\ todo' = todo
      <4>1. response' \o todo' = <<>>
        BY <1>1, <1>2, <3>2
      <4> QED BY <1>1, <3>2, <4>1 DEF Full
    <3> QED BY <1>1, <1>5, <3>1, <3>2
  <2>2. Scripted'
    BY <1>5, <2>1 DEF Scripted
  <2> QED BY <1>4, <2>2 DEF TinyIInv
<1>6. CASE step' = "headers"
  <2>1. Scripted'
    BY <1>1, <1>2, <1>6 DEF Scripted
  <2> QED BY <1>4, <2>1 DEF TinyIInv
<1> QED BY <1>1, <1>5, <1>6

LEMMA HeadersKeep ==
    ASSUME TinyIInv, ReadHeader \/ HeadersEnd
    PROVE  TinyIInv'
<1> USE DEF TinyIInv, ReadHeader, HeadersEnd, clientVars
<1>1. step = "headers" /\ step' \in {"headers", "stat", "spin"}
      /\ UNCHANGED <<file, client, request, todo, name, sbuf, held, child, log, response>>
  OBVIOUS
<1>2. TinyType' /\ Holding' /\ Scripted' /\ DeathExplained'
  BY <1>1 DEF TinyType, Holding, Scripted, DeathExplained
<1> QED BY <1>2

LEMMA ResetKeeps ==
    ASSUME TinyIInv, Reset
    PROVE  TinyIInv'
<1> USE DEF Reset, clientVars
<1>1. file' \in Files \cup {Absent} /\ DeathExplained'
  BY DEF TinyIInv, TinyType, DeathExplained
<1> QED BY <1>1, DieKeeps

LEMMA StatKeeps ==
    ASSUME TinyIInv, Stat
    PROVE  TinyIInv'
<1> USE DEF TinyIInv, Stat, clientVars
<1>1. /\ file \in Files \cup {Absent} /\ file.size \in Nat
      /\ file.mode \in {"missing", "forbidden", "denied", "usable"}
  BY TinyAssumption DEF TinyType, Absent
<1>2. /\ step = "stat" /\ sbuf' = file /\ response = <<>> /\ todo = <<>> /\ request.method = "GET"
      /\ UNCHANGED <<file, client, request, held, child, log, response>>
  BY DEF Scripted
<1>3. \/ file.mode = "missing" /\ Refuse(404)
      \/ file.mode = "forbidden" /\ Refuse(403)
      \/ /\ file.mode \in {"denied", "usable"} /\ is_static(request.uri)
         /\ step' = "open" /\ todo' = FileLines(name', file.size)
      \/ file.mode \in {"denied", "usable"} /\ ~is_static(request.uri) /\ step' = "fork" /\ todo' = OkLines
  BY <1>1
<1>4. todo' \in Seq(Out) /\ response' \o todo' = todo'
  <2>1. /\ clienterror(404) \in Seq(Out) /\ clienterror(403) \in Seq(Out) /\ OkLines \in Seq(Out)
        /\ FileLines(name', file.size) \in Seq(Out)
    BY <1>1, OutLines
  <2>2. todo' \in Seq(Out)
    BY <1>3, <2>1 DEF Refuse
  <2> QED BY <1>2, <2>2, ConcatEmptySeq
<1>5. TinyType' /\ Holding' /\ DeathExplained'
  BY <1>1, <1>2, <1>3, <1>4 DEF TinyType, Holding, DeathExplained, Refuse
<1>6. Scripted'
  <2>1. CASE Refuse(404) /\ file.mode = "missing"
    BY <1>2, <1>4, <2>1 DEF Scripted, Refuse, Full
  <2>2. CASE Refuse(403) /\ file.mode = "forbidden"
    BY <1>2, <1>4, <2>2 DEF Scripted, Refuse, Full
  <2>3. CASE /\ file.mode \in {"denied", "usable"} /\ is_static(request.uri)
             /\ step' = "open" /\ todo' = FileLines(name', file.size)
    BY <1>2, <1>4, <2>3 DEF Scripted, Served, FileLines, OkLines
  <2>4. CASE file.mode \in {"denied", "usable"} /\ ~is_static(request.uri) /\ step' = "fork" /\ todo' = OkLines
    BY <1>2, <1>4, <2>4 DEF Scripted, Served
  <2> QED BY <1>3, <2>1, <2>2, <2>3, <2>4
<1> QED BY <1>5, <1>6

\* A write of one line of the rest of the answer, or the end of the process.
LEMMA WriteKeeps ==
    ASSUME TinyIInv, Write
    PROVE  TinyIInv'
<1>1. /\ todo # <<>> /\ todo \in Seq(Out) /\ response \in Seq(Out)
      /\ step \in {"open", "body", "fork", "close"}
  BY DEF TinyIInv, Scripted, TinyType, Write
<1>2. CASE client = "gone" /\ Die /\ UNCHANGED response
  <2>1. file' \in Files \cup {Absent} /\ DeathExplained' /\ UNCHANGED <<child, log, response>>
    BY <1>2 DEF TinyIInv, TinyType, DeathExplained, Write, clientVars
  <2> QED BY <1>1, <1>2, <2>1, DieKeeps
<1>3. CASE todo' = Tail(todo) /\ response' = Append(response, Head(todo)) /\ UNCHANGED <<step, held, hdrs, name, sbuf>>
  <2>1. /\ todo' \in Seq(Out) /\ response' \in Seq(Out) /\ response' \o todo' = response \o todo
    BY <1>1, <1>3, OneWritten
  <2>2. UNCHANGED <<step, held, name, sbuf, file, client, request, child, log>>
    BY <1>3 DEF Write, clientVars
  <2>3. TinyType' /\ Holding' /\ DeathExplained'
    BY <2>1, <2>2 DEF TinyIInv, TinyType, Holding, DeathExplained
  <2>4. PICK q : q = response \o todo
    OBVIOUS
  <2>5. Full(q) => Full(q)'
    BY <2>2, FullStays
  <2>6. Full(response \o todo) => Full(response \o todo)'
    BY <2>1, <2>4, <2>5
  <2>7. Scripted'
    BY <1>1, <2>1, <2>2, <2>6 DEF TinyIInv, Scripted, Served, Page
  <2> QED BY <2>3, <2>7 DEF TinyIInv
<1> QED BY <1>2, <1>3 DEF Write

LEMMA OpenKeeps ==
    ASSUME TinyIInv, Open
    PROVE  TinyIInv'
<1>1. CASE Die
  <2>1. file' \in Files \cup {Absent} /\ DeathExplained' /\ step # "wait" /\ UNCHANGED <<child, log, response>>
    BY <1>1 DEF TinyIInv, TinyType, DeathExplained, Open, clientVars, Scripted, Served, Die
  <2> QED BY <1>1, <2>1, DieKeeps
<1>2. CASE step' = "mmap" /\ held' = held \cup {"srcfd"} /\ UNCHANGED <<todo, hdrs, name, sbuf>>
  <2>1. TinyType' /\ Holding' /\ DeathExplained'
    BY <1>2 DEF TinyIInv, TinyType, Holding, DeathExplained, Open, clientVars
  <2>2. Scripted'
    BY <1>2 DEF TinyIInv, Scripted, Open, clientVars, Served
  <2> QED BY <2>1, <2>2 DEF TinyIInv
<1> QED BY <1>1, <1>2 DEF Open

LEMMA BodyKeeps ==
    ASSUME TinyIInv, Body
    PROVE  TinyIInv'
<1>1. CASE (Length = 0 \/ file # sbuf) /\ Die
  <2>1. file' \in Files \cup {Absent} /\ DeathExplained' /\ step # "wait" /\ UNCHANGED <<child, log, response>>
    BY <1>1 DEF TinyIInv, TinyType, DeathExplained, Body, clientVars, Length, Die
  <2> QED BY <1>1, <2>1, DieKeeps
<1>2. CASE /\ todo' = <<Line("body", Length)>> /\ UNCHANGED <<hdrs, name, sbuf>>
           /\ step' = "body" /\ held' = (held \cup {"srcp"}) \ {"srcfd"}
  <2>0. sbuf.size \in Nat
    BY TinyAssumption DEF TinyIInv, TinyType, Absent
  <2>1. todo' \in Seq(Out)
    BY <1>2, <2>0, OutLines DEF Length
  <2>2. TinyType' /\ Holding' /\ DeathExplained'
    BY <1>2, <2>1 DEF TinyIInv, TinyType, Holding, DeathExplained, Body, clientVars
  <2>3. response \in Seq(Out) /\ response \o <<>> = FileLines(name, sbuf.size)
    BY DEF TinyIInv, TinyType, Scripted, Body
  <2>4. response = FileLines(name, sbuf.size)
    BY <2>3, ConcatEmptySeq
  <2>5. response' \o todo' = Page'
    BY <1>2, <2>4 DEF Page, Body, Length, FileLines, OkLines
  <2>6. Scripted'
    BY <1>2, <2>5 DEF TinyIInv, Scripted, Body, clientVars, Served
  <2> QED BY <2>2, <2>6 DEF TinyIInv
<1> QED BY <1>1, <1>2 DEF Body

LEMMA TruncatedKeeps ==
    ASSUME TinyIInv, Truncated
    PROVE  TinyIInv'
<1>1. file' \in Files \cup {Absent} /\ DeathExplained' /\ step # "wait" /\ UNCHANGED <<child, log, response>>
  BY DEF TinyIInv, TinyType, DeathExplained, Truncated, clientVars, Die
<1> QED BY <1>1, DieKeeps DEF Truncated

\* The answers that are complete with the step: nothing is left to be written.
LEMMA MunmapKeeps ==
    ASSUME TinyIInv, Munmap
    PROVE  TinyIInv'
<1>1. TinyType' /\ Holding' /\ DeathExplained'
  BY DEF TinyIInv, TinyType, Holding, DeathExplained, Munmap, clientVars
<1>2. Full(response \o todo)'
  BY DEF TinyIInv, Scripted, Munmap, clientVars, Full, Served, Page, FileLines, OkLines
<1>3. Scripted'
  BY <1>2 DEF TinyIInv, Scripted, Munmap, clientVars
<1> QED BY <1>1, <1>3 DEF TinyIInv

LEMMA ForkKeeps ==
    ASSUME TinyIInv, Fork
    PROVE  TinyIInv'
<1>1. CASE Die /\ UNCHANGED child
  <2>1. file' \in Files \cup {Absent} /\ DeathExplained' /\ step # "wait" /\ UNCHANGED <<child, log, response>>
    BY <1>1 DEF TinyIInv, TinyType, DeathExplained, Scripted, Fork, clientVars, Die
  <2> QED BY <1>1, <2>1, DieKeeps
<1>2. CASE child' = "forked" /\ step' = "wait" /\ UNCHANGED <<todo, hdrs, name, sbuf, held>>
  <2>1. TinyType' /\ Holding' /\ DeathExplained'
    BY <1>2 DEF TinyIInv, TinyType, Holding, DeathExplained, Fork, clientVars
  <2>2. response \in Seq(Out) /\ response \o <<>> = OkLines
    BY DEF TinyIInv, TinyType, Scripted, Fork
  <2>3. response = OkLines
    BY <2>2, ConcatEmptySeq
  <2>4. Scripted'
    BY <1>2, <2>3 DEF TinyIInv, Scripted, Fork, clientVars, Served, OkLines
  <2> QED BY <2>1, <2>4 DEF TinyIInv
<1> QED BY <1>1, <1>2 DEF Fork

\* What the CGI program, or the server's copy that could not run it, adds.
LEMMA RunKeeps ==
    ASSUME TinyIInv, Run
    PROVE  TinyIInv'
<1> DEFINE out == IF file.mode = "usable" /\ file.size > 0 THEN adder(cgiargs(request.uri))
                  ELSE IF log THEN <<Line("log", 0)>> ELSE <<>>
<1>1. /\ step = "wait" /\ response = OkLines /\ Served /\ ~is_static(request.uri) /\ (log => ~Tty)
      /\ UNCHANGED <<file, client, request, step, todo, hdrs, name, sbuf, held, log>> /\ child' = "zombie"
  BY DEF TinyIInv, TinyType, Holding, Scripted, Run, clientVars
<1>2. response' = response \o out \/ response' = response
  BY DEF Run
<1>3. out = <<>> \/ out = CgiLines \/ (out = <<Line("log", 0)>> /\ ~Tty)
  BY <1>1 DEF adder, CgiLines
<1> HIDE DEF out
<1>4. OkLines \in Seq(Out) /\ CgiLines \in Seq(Out) /\ <<Line("log", 0)>> \in Seq(Out) /\ 0 \in Nat
  BY OutLines
<1>5. \/ response' = OkLines \/ response' = OkLines \o CgiLines
      \/ response' = OkLines \o <<Line("log", 0)>> /\ ~Tty
  BY <1>1, <1>2, <1>3, <1>4, ConcatEmptySeq
<1>6. response' \in Seq(Out)
  BY <1>4, <1>5, ConcatProperties
<1>7. TinyType' /\ Holding' /\ DeathExplained'
  BY <1>1, <1>6 DEF TinyIInv, TinyType, Holding, DeathExplained
<1>8. Full(response)'
  BY <1>1, <1>5 DEF Full, Served, OkLines, CgiLines
<1>9. Scripted'
  BY <1>1, <1>8 DEF TinyIInv, Scripted, Served
<1> QED BY <1>7, <1>9 DEF TinyIInv

LEMMA WaitKeeps ==
    ASSUME TinyIInv, Wait
    PROVE  TinyIInv'
<1>1. TinyType' /\ Holding' /\ DeathExplained'
  BY DEF TinyIInv, TinyType, Holding, DeathExplained, Wait, clientVars
<1>2. Full(response) /\ todo = <<>> /\ response \in Seq(Out)
      /\ UNCHANGED <<client, request, name, sbuf, response, todo>>
  BY DEF TinyIInv, TinyType, Scripted, Wait, clientVars
<1>3. response' \o todo' = response
  BY <1>2, ConcatEmptySeq
<1>4. Full(response \o todo)'
  BY <1>2, <1>3, FullStays
<1>5. Scripted'
  BY <1>4 DEF TinyIInv, Scripted, Wait, clientVars
<1> QED BY <1>1, <1>5 DEF TinyIInv

LEMMA CloseKeeps ==
    ASSUME TinyIInv, Close
    PROVE  TinyIInv'
<1>1. TinyType' /\ Holding' /\ DeathExplained'
  BY DEF TinyIInv, TinyType, Holding, DeathExplained, Close, clientVars
<1>2. Full(response \o todo) /\ todo = <<>> /\ response \in Seq(Out)
      /\ UNCHANGED <<client, request, name, sbuf, response, todo>>
  BY DEF TinyIInv, TinyType, Scripted, Close, clientVars
<1>3. response \o todo = response
  BY <1>2, ConcatEmptySeq
<1>4. Full(response)'
  BY <1>2, <1>3, FullStays
<1>5. Scripted'
  BY <1>2, <1>4 DEF TinyIInv, Scripted, Close, clientVars
<1> QED BY <1>1, <1>5 DEF TinyIInv

LEMMA TinyStutters ==
    ASSUME TinyIInv, UNCHANGED tinyVars
    PROVE  TinyIInv'
<1>1. UNCHANGED <<file, client, request, step, todo, hdrs, name, sbuf, held, child, log, response>>
  BY DEF tinyVars, clientVars
<1>2. TinyType' /\ Holding' /\ DeathExplained'
  BY <1>1 DEF TinyIInv, TinyType, Holding, DeathExplained
<1>3. (Full(response) => Full(response)') /\ (Full(response \o todo) => Full(response \o todo)')
  BY <1>1, FullStays
<1>4. Scripted'
  BY <1>1, <1>3 DEF TinyIInv, Scripted, Served, Page
<1> QED BY <1>2, <1>4 DEF TinyIInv

\* What the server holds and has written follows from where it is in doit.
THEOREM TinyInvariance == TinyInit /\ [][TinyNext]_tinyVars => []TinyIInv
<1>1. TinyIInv /\ [TinyNext]_tinyVars => TinyIInv'
  <2> SUFFICES ASSUME TinyIInv, [TinyNext]_tinyVars PROVE TinyIInv'
    OBVIOUS
  <2>1. CASE Server
    BY <2>1, ReadRequestKeeps, HeadersKeep, StatKeeps, WriteKeeps, OpenKeeps, BodyKeeps, MunmapKeeps,
       ForkKeeps, WaitKeeps, CloseKeeps DEF Server
  <2>2. CASE AcceptClient
    BY <2>2, AcceptKeeps
  <2>3. CASE Reset
    BY <2>3, ResetKeeps
  <2>4. CASE Truncated
    BY <2>4, TruncatedKeeps
  <2>5. CASE Run
    BY <2>5, RunKeeps
  <2>6. CASE Change \/ SendHeader \/ Leave
    BY <2>6, OutsideKeeps
  <2>7. CASE UNCHANGED tinyVars
    BY <2>7, TinyStutters
  <2> QED BY <2>1, <2>2, <2>3, <2>4, <2>5, <2>6, <2>7 DEF TinyNext
<1> QED BY <1>1, TinyStarts, PTL

LEMMA TwoAndOne ==
    ASSUME NEW w1, NEW w2, NEW w3
    PROVE  <<w1, w2>> \o <<w3>> = <<w1, w2, w3>>
<1> DEFINE T == {w1, w2, w3}
<1>1. w1 \in T /\ w2 \in T /\ w3 \in T
  OBVIOUS
<1> HIDE DEF T
<1>2. <<w1, w2>> \in Seq(T) /\ <<w3>> \in Seq(T) /\ <<w1, w2, w3>> \in Seq(T)
  BY <1>1
<1>3. Len(<<w1, w2>>) = 2 /\ Len(<<w3>>) = 1 /\ Len(<<w1, w2, w3>>) = 3
  OBVIOUS
<1>4. /\ <<w1, w2>> \o <<w3>> \in Seq(T) /\ Len(<<w1, w2>> \o <<w3>>) = 3
      /\ \A i \in 1 .. 3 : (<<w1, w2>> \o <<w3>>)[i] = IF i <= 2 THEN <<w1, w2>>[i] ELSE <<w3>>[i - 2]
  BY <1>2, <1>3, ConcatProperties
<1>5. \A i \in 1 .. 3 : <<w1, w2, w3>>[i] = IF i <= 2 THEN <<w1, w2>>[i] ELSE <<w3>>[i - 2]
  <2>1. \A i \in 1 .. 3 : i = 1 \/ i = 2 \/ i = 3
    OBVIOUS
  <2> QED BY <2>1
<1>6. \A i \in 1 .. 3 : (<<w1, w2>> \o <<w3>>)[i] = <<w1, w2, w3>>[i]
  BY <1>4, <1>5
<1>7. PICK u, v : u = <<w1, w2>> \o <<w3>> /\ v = <<w1, w2, w3>>
  OBVIOUS
<1>8. u \in Seq(T) /\ v \in Seq(T) /\ Len(u) = 3 /\ Len(v) = 3 /\ \A i \in 1 .. 3 : u[i] = v[i]
  BY <1>2, <1>3, <1>4, <1>6, <1>7
<1>9. u = v
  BY <1>8, SeqEqual
<1> QED BY <1>7, <1>9

LEMMA TwoAndTwo ==
    ASSUME NEW w1, NEW w2, NEW w3, NEW w4
    PROVE  <<w1, w2>> \o <<w3, w4>> = <<w1, w2, w3, w4>>
<1> DEFINE T == {w1, w2, w3, w4}
<1>1. w1 \in T /\ w2 \in T /\ w3 \in T /\ w4 \in T
  OBVIOUS
<1> HIDE DEF T
<1>2. <<w1, w2>> \in Seq(T) /\ <<w3, w4>> \in Seq(T) /\ <<w1, w2, w3, w4>> \in Seq(T)
  BY <1>1
<1>3. Len(<<w1, w2>>) = 2 /\ Len(<<w3, w4>>) = 2 /\ Len(<<w1, w2, w3, w4>>) = 4
  OBVIOUS
<1>4. /\ <<w1, w2>> \o <<w3, w4>> \in Seq(T) /\ Len(<<w1, w2>> \o <<w3, w4>>) = 4
      /\ \A i \in 1 .. 4 : (<<w1, w2>> \o <<w3, w4>>)[i] = IF i <= 2 THEN <<w1, w2>>[i] ELSE <<w3, w4>>[i - 2]
  BY <1>2, <1>3, ConcatProperties
<1>5. \A i \in 1 .. 4 : <<w1, w2, w3, w4>>[i] = IF i <= 2 THEN <<w1, w2>>[i] ELSE <<w3, w4>>[i - 2]
  <2>1. \A i \in 1 .. 4 : i = 1 \/ i = 2 \/ i = 3 \/ i = 4
    OBVIOUS
  <2> QED BY <2>1
<1>6. \A i \in 1 .. 4 : (<<w1, w2>> \o <<w3, w4>>)[i] = <<w1, w2, w3, w4>>[i]
  BY <1>4, <1>5
<1>7. PICK u, v : u = <<w1, w2>> \o <<w3, w4>> /\ v = <<w1, w2, w3, w4>>
  OBVIOUS
<1>8. u \in Seq(T) /\ v \in Seq(T) /\ Len(u) = 4 /\ Len(v) = 4 /\ \A i \in 1 .. 4 : u[i] = v[i]
  BY <1>2, <1>3, <1>4, <1>6, <1>7
<1>9. u = v
  BY <1>8, SeqEqual
<1> QED BY <1>7, <1>9

LEMMA FourAndOne ==
    ASSUME NEW w1, NEW w2, NEW w3, NEW w4, NEW w5
    PROVE  <<w1, w2, w3, w4>> \o <<w5>> = <<w1, w2, w3, w4, w5>>
<1> DEFINE T == {w1, w2, w3, w4, w5}
<1>1. w1 \in T /\ w2 \in T /\ w3 \in T /\ w4 \in T /\ w5 \in T
  OBVIOUS
<1> HIDE DEF T
<1>2. <<w1, w2, w3, w4>> \in Seq(T) /\ <<w5>> \in Seq(T) /\ <<w1, w2, w3, w4, w5>> \in Seq(T)
  BY <1>1
<1>3. Len(<<w1, w2, w3, w4>>) = 4 /\ Len(<<w5>>) = 1 /\ Len(<<w1, w2, w3, w4, w5>>) = 5
  OBVIOUS
<1>4. /\ <<w1, w2, w3, w4>> \o <<w5>> \in Seq(T) /\ Len(<<w1, w2, w3, w4>> \o <<w5>>) = 5
      /\ \A i \in 1 .. 5 : (<<w1, w2, w3, w4>> \o <<w5>>)[i] = IF i <= 4 THEN <<w1, w2, w3, w4>>[i] ELSE <<w5>>[i - 4]
  BY <1>2, <1>3, ConcatProperties
<1>5. \A i \in 1 .. 5 : <<w1, w2, w3, w4, w5>>[i] = IF i <= 4 THEN <<w1, w2, w3, w4>>[i] ELSE <<w5>>[i - 4]
  <2>1. \A i \in 1 .. 5 : i = 1 \/ i = 2 \/ i = 3 \/ i = 4 \/ i = 5
    OBVIOUS
  <2> QED BY <2>1
<1>6. \A i \in 1 .. 5 : (<<w1, w2, w3, w4>> \o <<w5>>)[i] = <<w1, w2, w3, w4, w5>>[i]
  BY <1>4, <1>5
<1>7. PICK u, v : u = <<w1, w2, w3, w4>> \o <<w5>> /\ v = <<w1, w2, w3, w4, w5>>
  OBVIOUS
<1>8. u \in Seq(T) /\ v \in Seq(T) /\ Len(u) = 5 /\ Len(v) = 5 /\ \A i \in 1 .. 5 : u[i] = v[i]
  BY <1>2, <1>3, <1>4, <1>6, <1>7
<1>9. u = v
  BY <1>8, SeqEqual
<1> QED BY <1>7, <1>9

\* The pages of the three kinds of answer, line by line.
LEMMA Pages ==
    ASSUME NEW f, NEW n \in Nat
    PROVE  /\ FileLines(f, n) \o <<Line("body", n)>> =
              <<Line("status", 200), Line("server", 0), Line("length", n), Line(get_filetype(f), 0), Line("body", n)>>
           /\ OkLines \o CgiLines =
              <<Line("status", 200), Line("server", 0), Line("cgi length", 1), Line("cgi body", 1)>>
           /\ OkLines \o <<Line("log", 0)>> = <<Line("status", 200), Line("server", 0), Line("log", 0)>>
<1>1. FileLines(f, n) = <<Line("status", 200), Line("server", 0), Line("length", n), Line(get_filetype(f), 0)>>
  BY TwoAndTwo DEF FileLines, OkLines
<1>2. FileLines(f, n) \o <<Line("body", n)>> =
          <<Line("status", 200), Line("server", 0), Line("length", n), Line(get_filetype(f), 0), Line("body", n)>>
  BY <1>1, FourAndOne
<1>3. OkLines \o CgiLines = <<Line("status", 200), Line("server", 0), Line("cgi length", 1), Line("cgi body", 1)>>
  <2>1. PICK w1, w2, w3, w4 : /\ w1 = Line("status", 200) /\ w2 = Line("server", 0)
                             /\ w3 = Line("cgi length", 1) /\ w4 = Line("cgi body", 1)
    OBVIOUS
  <2>2. OkLines = <<w1, w2>> /\ CgiLines = <<w3, w4>>
    BY <2>1 DEF OkLines, CgiLines
  <2>3. <<w1, w2>> \o <<w3, w4>> = <<w1, w2, w3, w4>>
    BY TwoAndTwo
  <2> QED BY <2>1, <2>2, <2>3
<1>4. OkLines \o <<Line("log", 0)>> = <<Line("status", 200), Line("server", 0), Line("log", 0)>>
  BY TwoAndOne DEF OkLines
<1> QED BY <1>2, <1>3, <1>4

\* What a client reads in an answer: where its status line is, and the numbers
\* of its lines of one kind.
Lines(r, h) == {j \in 1 .. Len(r) : r[j].h = h}
Amounts(r, h) == {r[i].n : i \in Lines(r, h)}
Reads(r, code, length, cgi, logs) ==
    /\ r # <<>> /\ r[1].h = "status" /\ r[1].n = code /\ Lines(r, "status") = {1}
    /\ Amounts(r, "length") = length /\ Amounts(r, "body") = length
    /\ Amounts(r, "cgi length") = cgi /\ Amounts(r, "cgi body") = cgi
    /\ Amounts(r, "log") \subseteq logs

\* A kind of line that an answer has once, and one that it has not.
Only(r, h, k) == k \in 1 .. Len(r) /\ r[k].h = h /\ \A i \in 1 .. Len(r) : i # k => r[i].h # h

LEMMA OneLine ==
    ASSUME NEW r, NEW h, NEW k, Only(r, h, k)
    PROVE  Lines(r, h) = {k} /\ Amounts(r, h) = {r[k].n}
<1>1. Lines(r, h) = {k}
  BY DEF Lines, Only
<1> QED BY <1>1 DEF Amounts

LEMMA NoLine ==
    ASSUME NEW r, NEW h, \A i \in 1 .. Len(r) : r[i].h # h
    PROVE  Lines(r, h) = {} /\ Amounts(r, h) = {}
<1>1. Lines(r, h) = {}
  BY DEF Lines
<1> QED BY <1>1 DEF Amounts

LEMMA RefusalReads ==
    ASSUME NEW n \in Nat
    PROVE  Reads(clienterror(n), n, {}, {}, {}) /\ clienterror(n) # <<>>
<1>1. PICK r : r = clienterror(n)
  OBVIOUS
<1>2. r = <<Line("status", n), Line("type.html", 0), Line("title", 0), Line("color", 0), Line("message", n), Line("cause", 0), Line("hr", 0)>>
  BY <1>1 DEF clienterror
<1>3. Len(r) = 7 /\ r # <<>>
  BY <1>2
<1>4. /\ r[1].h = "status" /\ r[2].h = "type.html" /\ r[3].h = "title" /\ r[4].h = "color"
      /\ r[5].h = "message" /\ r[6].h = "cause" /\ r[7].h = "hr"
  BY <1>2 DEF Line
<1>5. \A i \in 1 .. Len(r) : i = 1 \/ i = 2 \/ i = 3 \/ i = 4 \/ i = 5 \/ i = 6 \/ i = 7
  BY <1>3
<1>6. Lines(r, "status") = {1} /\ Amounts(r, "status") = {n}
  <2>1. r[1].n = n
    BY <1>2 DEF Line
  <2>2. 1 \in 1 .. Len(r) /\ r[1].h = "status"
    <3>1. 1 \in 1 .. 7
      OBVIOUS
    <3> QED BY <1>3, <1>4, <3>1
  <2>3. \A i \in 1 .. Len(r) : i # 1 => r[i].h # "status"
    BY <1>4, <1>5
  <2>4. Only(r, "status", 1)
    BY <2>2, <2>3 DEF Only
  <2>5. Lines(r, "status") = {1} /\ Amounts(r, "status") = {r[1].n}
    BY <2>4, OneLine
  <2> QED BY <2>1, <2>5
<1>7. \A i \in 1 .. Len(r) : r[i].h \notin {"length", "body", "cgi length", "cgi body", "log"}
  BY <1>4, <1>5
<1>8. /\ Amounts(r, "length") = {} /\ Amounts(r, "body") = {} /\ Amounts(r, "cgi length") = {}
      /\ Amounts(r, "cgi body") = {} /\ Amounts(r, "log") = {}
  BY <1>7, NoLine
<1>9. r[1].h = "status" /\ r[1].n = n
  BY <1>2, <1>4 DEF Line
<1>10. Reads(r, n, {}, {}, {})
  BY <1>3, <1>6, <1>8, <1>9 DEF Reads
<1> QED BY <1>1, <1>3, <1>10

LEMMA PageReads ==
    ASSUME NEW f, NEW n \in Nat
    PROVE  Reads((FileLines(f, n) \o <<Line("body", n)>>), 200, {n}, {}, {}) /\ (FileLines(f, n) \o <<Line("body", n)>>) # <<>>
<1>1. PICK r : r = (FileLines(f, n) \o <<Line("body", n)>>)
  OBVIOUS
<1>2. r = <<Line("status", 200), Line("server", 0), Line("length", n), Line(get_filetype(f), 0), Line("body", n)>>
  BY <1>1, Pages
<1>3. Len(r) = 5 /\ r # <<>>
  BY <1>2
<1>4. /\ r[1].h = "status" /\ r[2].h = "server" /\ r[3].h = "length" /\ r[4].h \in {"type.html", "type.gif", "type.plain"}
      /\ r[5].h = "body"
  BY <1>2, OutLines DEF Line
<1>5. \A i \in 1 .. Len(r) : i = 1 \/ i = 2 \/ i = 3 \/ i = 4 \/ i = 5
  BY <1>3
<1>6. Lines(r, "status") = {1} /\ Amounts(r, "status") = {200}
  <2>1. r[1].n = 200
    BY <1>2 DEF Line
  <2>2. 1 \in 1 .. Len(r) /\ r[1].h = "status"
    <3>1. 1 \in 1 .. 5
      OBVIOUS
    <3> QED BY <1>3, <1>4, <3>1
  <2>3. \A i \in 1 .. Len(r) : i # 1 => r[i].h # "status"
    BY <1>4, <1>5
  <2>4. Only(r, "status", 1)
    BY <2>2, <2>3 DEF Only
  <2>5. Lines(r, "status") = {1} /\ Amounts(r, "status") = {r[1].n}
    BY <2>4, OneLine
  <2> QED BY <2>1, <2>5
<1>7. Lines(r, "length") = {3} /\ Amounts(r, "length") = {n}
  <2>1. r[3].n = n
    BY <1>2 DEF Line
  <2>2. 3 \in 1 .. Len(r) /\ r[3].h = "length"
    <3>1. 3 \in 1 .. 5
      OBVIOUS
    <3> QED BY <1>3, <1>4, <3>1
  <2>3. \A i \in 1 .. Len(r) : i # 3 => r[i].h # "length"
    BY <1>4, <1>5
  <2>4. Only(r, "length", 3)
    BY <2>2, <2>3 DEF Only
  <2>5. Lines(r, "length") = {3} /\ Amounts(r, "length") = {r[3].n}
    BY <2>4, OneLine
  <2> QED BY <2>1, <2>5
<1>8. Lines(r, "body") = {5} /\ Amounts(r, "body") = {n}
  <2>1. r[5].n = n
    BY <1>2 DEF Line
  <2>2. 5 \in 1 .. Len(r) /\ r[5].h = "body"
    <3>1. 5 \in 1 .. 5
      OBVIOUS
    <3> QED BY <1>3, <1>4, <3>1
  <2>3. \A i \in 1 .. Len(r) : i # 5 => r[i].h # "body"
    BY <1>4, <1>5
  <2>4. Only(r, "body", 5)
    BY <2>2, <2>3 DEF Only
  <2>5. Lines(r, "body") = {5} /\ Amounts(r, "body") = {r[5].n}
    BY <2>4, OneLine
  <2> QED BY <2>1, <2>5
<1>9. \A i \in 1 .. Len(r) : r[i].h \notin {"cgi length", "cgi body", "log"}
  BY <1>4, <1>5
<1>10. /\ Amounts(r, "cgi length") = {} /\ Amounts(r, "cgi body") = {} /\ Amounts(r, "log") = {}
  BY <1>9, NoLine
<1>11. r[1].h = "status" /\ r[1].n = 200
  BY <1>2, <1>4 DEF Line
<1>12. Reads(r, 200, {n}, {}, {})
  BY <1>3, <1>6, <1>7, <1>8, <1>10, <1>11 DEF Reads
<1> QED BY <1>1, <1>3, <1>12

LEMMA OkReads ==
    Reads(OkLines, 200, {}, {}, {}) /\ OkLines # <<>>
<1>1. PICK r : r = OkLines
  OBVIOUS
<1>2. r = <<Line("status", 200), Line("server", 0)>>
  BY <1>1 DEF OkLines
<1>3. Len(r) = 2 /\ r # <<>>
  BY <1>2
<1>4. /\ r[1].h = "status" /\ r[2].h = "server"
  BY <1>2 DEF Line
<1>5. \A i \in 1 .. Len(r) : i = 1 \/ i = 2
  BY <1>3
<1>6. Lines(r, "status") = {1} /\ Amounts(r, "status") = {200}
  <2>1. r[1].n = 200
    BY <1>2 DEF Line
  <2>2. 1 \in 1 .. Len(r) /\ r[1].h = "status"
    <3>1. 1 \in 1 .. 2
      OBVIOUS
    <3> QED BY <1>3, <1>4, <3>1
  <2>3. \A i \in 1 .. Len(r) : i # 1 => r[i].h # "status"
    BY <1>4, <1>5
  <2>4. Only(r, "status", 1)
    BY <2>2, <2>3 DEF Only
  <2>5. Lines(r, "status") = {1} /\ Amounts(r, "status") = {r[1].n}
    BY <2>4, OneLine
  <2> QED BY <2>1, <2>5
<1>7. \A i \in 1 .. Len(r) : r[i].h \notin {"length", "body", "cgi length", "cgi body", "log"}
  BY <1>4, <1>5
<1>8. /\ Amounts(r, "length") = {} /\ Amounts(r, "body") = {} /\ Amounts(r, "cgi length") = {}
      /\ Amounts(r, "cgi body") = {} /\ Amounts(r, "log") = {}
  BY <1>7, NoLine
<1>9. r[1].h = "status" /\ r[1].n = 200
  BY <1>2, <1>4 DEF Line
<1>10. Reads(r, 200, {}, {}, {})
  BY <1>3, <1>6, <1>8, <1>9 DEF Reads
<1> QED BY <1>1, <1>3, <1>10

LEMMA CgiReads ==
    Reads((OkLines \o CgiLines), 200, {}, {1}, {}) /\ (OkLines \o CgiLines) # <<>>
<1>1. PICK r : r = (OkLines \o CgiLines)
  OBVIOUS
<1>2. r = <<Line("status", 200), Line("server", 0), Line("cgi length", 1), Line("cgi body", 1)>>
  BY <1>1, Pages
<1>3. Len(r) = 4 /\ r # <<>>
  BY <1>2
<1>4. /\ r[1].h = "status" /\ r[2].h = "server" /\ r[3].h = "cgi length" /\ r[4].h = "cgi body"
  BY <1>2 DEF Line
<1>5. \A i \in 1 .. Len(r) : i = 1 \/ i = 2 \/ i = 3 \/ i = 4
  BY <1>3
<1>6. Lines(r, "status") = {1} /\ Amounts(r, "status") = {200}
  <2>1. r[1].n = 200
    BY <1>2 DEF Line
  <2>2. 1 \in 1 .. Len(r) /\ r[1].h = "status"
    <3>1. 1 \in 1 .. 4
      OBVIOUS
    <3> QED BY <1>3, <1>4, <3>1
  <2>3. \A i \in 1 .. Len(r) : i # 1 => r[i].h # "status"
    BY <1>4, <1>5
  <2>4. Only(r, "status", 1)
    BY <2>2, <2>3 DEF Only
  <2>5. Lines(r, "status") = {1} /\ Amounts(r, "status") = {r[1].n}
    BY <2>4, OneLine
  <2> QED BY <2>1, <2>5
<1>7. Lines(r, "cgi length") = {3} /\ Amounts(r, "cgi length") = {1}
  <2>1. r[3].n = 1
    BY <1>2 DEF Line
  <2>2. 3 \in 1 .. Len(r) /\ r[3].h = "cgi length"
    <3>1. 3 \in 1 .. 4
      OBVIOUS
    <3> QED BY <1>3, <1>4, <3>1
  <2>3. \A i \in 1 .. Len(r) : i # 3 => r[i].h # "cgi length"
    BY <1>4, <1>5
  <2>4. Only(r, "cgi length", 3)
    BY <2>2, <2>3 DEF Only
  <2>5. Lines(r, "cgi length") = {3} /\ Amounts(r, "cgi length") = {r[3].n}
    BY <2>4, OneLine
  <2> QED BY <2>1, <2>5
<1>8. Lines(r, "cgi body") = {4} /\ Amounts(r, "cgi body") = {1}
  <2>1. r[4].n = 1
    BY <1>2 DEF Line
  <2>2. 4 \in 1 .. Len(r) /\ r[4].h = "cgi body"
    <3>1. 4 \in 1 .. 4
      OBVIOUS
    <3> QED BY <1>3, <1>4, <3>1
  <2>3. \A i \in 1 .. Len(r) : i # 4 => r[i].h # "cgi body"
    BY <1>4, <1>5
  <2>4. Only(r, "cgi body", 4)
    BY <2>2, <2>3 DEF Only
  <2>5. Lines(r, "cgi body") = {4} /\ Amounts(r, "cgi body") = {r[4].n}
    BY <2>4, OneLine
  <2> QED BY <2>1, <2>5
<1>9. \A i \in 1 .. Len(r) : r[i].h \notin {"length", "body", "log"}
  BY <1>4, <1>5
<1>10. /\ Amounts(r, "length") = {} /\ Amounts(r, "body") = {} /\ Amounts(r, "log") = {}
  BY <1>9, NoLine
<1>11. r[1].h = "status" /\ r[1].n = 200
  BY <1>2, <1>4 DEF Line
<1>12. Reads(r, 200, {}, {1}, {})
  BY <1>3, <1>6, <1>7, <1>8, <1>10, <1>11 DEF Reads
<1> QED BY <1>1, <1>3, <1>12

LEMMA LogReads ==
    Reads((OkLines \o <<Line("log", 0)>>), 200, {}, {}, {0}) /\ (OkLines \o <<Line("log", 0)>>) # <<>>
<1>1. PICK r : r = (OkLines \o <<Line("log", 0)>>)
  OBVIOUS
<1>2. r = <<Line("status", 200), Line("server", 0), Line("log", 0)>>
  BY <1>1, Pages
<1>3. Len(r) = 3 /\ r # <<>>
  BY <1>2
<1>4. /\ r[1].h = "status" /\ r[2].h = "server" /\ r[3].h = "log"
  BY <1>2 DEF Line
<1>5. \A i \in 1 .. Len(r) : i = 1 \/ i = 2 \/ i = 3
  BY <1>3
<1>6. Lines(r, "status") = {1} /\ Amounts(r, "status") = {200}
  <2>1. r[1].n = 200
    BY <1>2 DEF Line
  <2>2. 1 \in 1 .. Len(r) /\ r[1].h = "status"
    <3>1. 1 \in 1 .. 3
      OBVIOUS
    <3> QED BY <1>3, <1>4, <3>1
  <2>3. \A i \in 1 .. Len(r) : i # 1 => r[i].h # "status"
    BY <1>4, <1>5
  <2>4. Only(r, "status", 1)
    BY <2>2, <2>3 DEF Only
  <2>5. Lines(r, "status") = {1} /\ Amounts(r, "status") = {r[1].n}
    BY <2>4, OneLine
  <2> QED BY <2>1, <2>5
<1>7. Lines(r, "log") = {3} /\ Amounts(r, "log") = {0}
  <2>1. r[3].n = 0
    BY <1>2 DEF Line
  <2>2. 3 \in 1 .. Len(r) /\ r[3].h = "log"
    <3>1. 3 \in 1 .. 3
      OBVIOUS
    <3> QED BY <1>3, <1>4, <3>1
  <2>3. \A i \in 1 .. Len(r) : i # 3 => r[i].h # "log"
    BY <1>4, <1>5
  <2>4. Only(r, "log", 3)
    BY <2>2, <2>3 DEF Only
  <2>5. Lines(r, "log") = {3} /\ Amounts(r, "log") = {r[3].n}
    BY <2>4, OneLine
  <2> QED BY <2>1, <2>5
<1>8. \A i \in 1 .. Len(r) : r[i].h \notin {"length", "body", "cgi length", "cgi body"}
  BY <1>4, <1>5
<1>9. /\ Amounts(r, "length") = {} /\ Amounts(r, "body") = {} /\ Amounts(r, "cgi length") = {}
      /\ Amounts(r, "cgi body") = {}
  BY <1>8, NoLine
<1>10. r[1].h = "status" /\ r[1].n = 200
  BY <1>2, <1>4 DEF Line
<1>11. Reads(r, 200, {}, {}, {0})
  BY <1>3, <1>6, <1>7, <1>9, <1>10 DEF Reads
<1> QED BY <1>1, <1>3, <1>11

\* What Reads says, in the words of the properties.
Agrees ==
    /\ Status = 501 <=> request.method # "GET"
    /\ Status # 501 => Status = (CASE sbuf.mode = "missing" -> 404 [] sbuf.mode = "forbidden" -> 403 [] OTHER -> 200)
    /\ Status = 200 /\ is_static(request.uri) => Sum("body") = {sbuf.size}
    /\ Sum("log") # {} => Status = 200 /\ ~is_static(request.uri) /\ ~Tty
Says(code, length, logs) ==
    /\ response[1].h = "status" /\ Cardinality({i \in 1 .. Len(response) : response[i].h = "status"}) = 1
    /\ Status = code /\ Sum("body") = length /\ Sum("length") = Sum("body")
    /\ Sum("cgi length") = Sum("cgi body") /\ Sum("log") \subseteq logs

LEMMA ReadsMeans ==
    ASSUME NEW code, NEW length, NEW cgi, NEW logs, Reads(response, code, length, cgi, logs)
    PROVE  Says(code, length, logs)
<1>1. \A h : Sum(h) = Amounts(response, h)
  BY DEF Sum, Amounts, Lines
<1>2. {i \in 1 .. Len(response) : response[i].h = "status"} = {1}
  BY DEF Reads, Lines
<1>3. Cardinality({i \in 1 .. Len(response) : response[i].h = "status"}) = 1
  BY <1>2, FS_Singleton
<1> QED BY <1>1, <1>3 DEF Reads, Status, Says

\* A full answer reads as Answered says.
LEMMA AgreesSays ==
    ASSUME NEW code, NEW length, NEW logs, Says(code, length, logs), Agrees
    PROVE  Answered
<1>1. /\ response[1].h = "status" /\ Cardinality({i \in 1 .. Len(response) : response[i].h = "status"}) = 1
      /\ Sum("length") = Sum("body") /\ Sum("cgi length") = Sum("cgi body")
  BY DEF Says
<1> QED BY <1>1, Zenon DEF Agrees, Answered

LEMMA FullIsAnswered ==
    ASSUME TinyIInv, step = "accept", response # <<>>
    PROVE  Answered
<1>1. Full(response) /\ sbuf \in Files \cup {Absent}
  BY DEF TinyIInv, TinyType, Scripted
<1>2. sbuf.size \in Nat
  BY <1>1, TinyAssumption DEF Absent
<1>3. \A n \in {501, 404, 403} : response = clienterror(n) => Reads(response, n, {}, {}, {})
  BY RefusalReads
<1>4. CASE request.method # "GET" /\ response = clienterror(501)
  <2>1. Reads(response, 501, {}, {}, {})
    BY <1>3, <1>4
  <2>2. Says(501, {}, {})
    BY <2>1, ReadsMeans
  <2>3. Status = 501 /\ Sum("body") = {} /\ Sum("log") \subseteq {}
    BY <2>2 DEF Says
  <2>4. Agrees
    BY <1>4, <2>3 DEF Agrees
  <2> QED BY <2>2, <2>4, AgreesSays
<1>5. CASE request.method = "GET" /\ sbuf.mode = "missing" /\ response = clienterror(404)
  <2>1. Reads(response, 404, {}, {}, {})
    BY <1>3, <1>5
  <2>2. Says(404, {}, {})
    BY <2>1, ReadsMeans
  <2>3. Status = 404 /\ Sum("body") = {} /\ Sum("log") \subseteq {}
    BY <2>2 DEF Says
  <2>4. Agrees
    BY <1>5, <2>3 DEF Agrees
  <2> QED BY <2>2, <2>4, AgreesSays
<1>6. CASE request.method = "GET" /\ sbuf.mode = "forbidden" /\ response = clienterror(403)
  <2>1. Reads(response, 403, {}, {}, {})
    BY <1>3, <1>6
  <2>2. Says(403, {}, {})
    BY <2>1, ReadsMeans
  <2>3. Status = 403 /\ Sum("body") = {} /\ Sum("log") \subseteq {}
    BY <2>2 DEF Says
  <2>4. Agrees
    BY <1>6, <2>3 DEF Agrees
  <2> QED BY <2>2, <2>4, AgreesSays
<1>7. CASE Served /\ is_static(request.uri) /\ response = Page
  <2>1. Reads(response, 200, {sbuf.size}, {}, {})
    BY <1>2, <1>7, PageReads DEF Page
  <2>2. Says(200, {sbuf.size}, {})
    BY <2>1, ReadsMeans
  <2>3. Status = 200 /\ Sum("body") = {sbuf.size} /\ Sum("log") \subseteq {}
    BY <2>2 DEF Says
  <2>4. Agrees
    BY <1>7, <2>3 DEF Agrees, Served
  <2> QED BY <2>2, <2>4, AgreesSays
<1>8. CASE Served /\ ~is_static(request.uri) /\ (response = OkLines \/ response = OkLines \o CgiLines)
  <2>1. Reads(response, 200, {}, {}, {}) \/ Reads(response, 200, {}, {1}, {})
    BY <1>8, OkReads, CgiReads
  <2>2. Says(200, {}, {})
    BY <2>1, ReadsMeans
  <2>3. Status = 200 /\ Sum("body") = {} /\ Sum("log") \subseteq {}
    BY <2>2 DEF Says
  <2>4. Agrees
    BY <1>8, <2>3 DEF Agrees, Served
  <2> QED BY <2>2, <2>4, AgreesSays
<1>9. CASE Served /\ ~is_static(request.uri) /\ response = OkLines \o <<Line("log", 0)>> /\ ~Tty
  <2>1. Reads(response, 200, {}, {}, {0})
    BY <1>9, LogReads
  <2>2. Says(200, {}, {0})
    BY <2>1, ReadsMeans
  <2>3. Status = 200 /\ Sum("body") = {} /\ Sum("log") \subseteq {0}
    BY <2>2 DEF Says
  <2>4. Agrees
    BY <1>9, <2>3 DEF Agrees, Served
  <2> QED BY <2>2, <2>4, AgreesSays
<1> QED BY <1>1, <1>4, <1>5, <1>6, <1>7, <1>8, <1>9 DEF Full

\* Between connections Tiny holds nothing, every request that was answered got
\* a whole and consistent answer, no client that stayed was ignored, and the
\* server died only of what DeathExplained names.
THEOREM TinyServes == TinyInit /\ [][TinyNext]_tinyVars => []TinyAnswers
<1>1. TinyIInv => TinyAnswers
  <2> SUFFICES ASSUME TinyIInv PROVE TinyAnswers
    OBVIOUS
  <2>1. Tidy
    BY DEF TinyIInv, Holding, Scripted, Tidy
  <2>2. Answered
    BY FullIsAnswered DEF Answered
  <2>3. NotIgnored
    <3>1. CASE step = "accept" /\ client = "there" /\ response = <<>>
      <4>1. Full(<<>>)
        BY <3>1 DEF TinyIInv, Scripted
      <4>2. PICK q : q = <<>>
        OBVIOUS
      <4>3. ~Full(q)
        <5>1. /\ clienterror(501) # <<>> /\ clienterror(404) # <<>> /\ clienterror(403) # <<>> /\ Page # <<>>
              /\ OkLines # <<>> /\ OkLines \o CgiLines # <<>> /\ OkLines \o <<Line("log", 0)>> # <<>>
          <6>1. sbuf.size \in Nat
            BY TinyAssumption DEF TinyIInv, TinyType, Absent
          <6>2. Page # <<>>
            BY <6>1, PageReads DEF Page
          <6>3. \A n \in {501, 404, 403} : clienterror(n) # <<>>
            BY RefusalReads
          <6> QED BY <6>2, <6>3, OkReads, CgiReads, LogReads
        <5> QED BY <3>1, <4>2, <5>1 DEF Full
      <4> QED BY <4>1, <4>2, <4>3
    <3> QED BY <3>1 DEF NotIgnored
  <2> QED BY <2>1, <2>2, <2>3 DEF TinyAnswers, TinyIInv
<1> QED BY <1>1, TinyInvariance, PTL

-----------------------------------------------------------------------------
(***************************************************************************)
(* The wrappers: each tests its call as the call reports a failure, for    *)
(* every sequence of calls and interruptions.                              *)
(***************************************************************************)

\* What happens to a call of each class: a failure ends the process, a success
\* does not, but for realloc to 0 bytes; EINTR ends it in select alone.
Reported(f, r, bad) ==
    /\ bad => Exits(f, r)
    /\ Exits(f, r) => bad \/ (f = "realloc" /\ r.rc = 0)
    /\ Exits(f, r) /\ r.errno = "EINTR" => f = "select"

\* Where the process is, and that an end is an end.
CsappIInv ==
    /\ doing \in Wrapped \cup Openers \cup {"idle"} /\ flags \in {"no handler", "SA_RESTART"}
    /\ ended => doing = "idle"
    /\ list => tried \/ doing \in Openers
    /\ WrappersReport /\ OpensOne

\* Each class of wrappers tests what its calls return on failure.
LEMMA ProcessReport ==
    ASSUME NEW f \in Process
    PROVE  /\ \A r \in Successes(f) : Reported(f, r, FALSE)
           /\ \A r \in Failures(f) : Reported(f, r, TRUE)
<1>1. f \notin Signals /\ f \notin UnixIO /\ f \notin Directories /\ f \notin Memory /\ f \notin StdIO /\ f \notin Sockets /\ f \notin Addresses /\ f \notin DNS /\ f \notin Pthreads /\ f \notin Semaphores
  BY DEF Signals, UnixIO, Directories, Memory, StdIO, Sockets, Addresses, DNS, Pthreads, Semaphores, Process
<1>2. \A r : Exits(f, r) <=> ProcessExits(f, r)
  BY <1>1, Zenon DEF Exits
<1>3. CASE f \in {"fork", "execve", "wait", "waitpid", "kill", "setpgid"}
  <2>1. Successes(f) = {R(0, "none", FALSE), R(1, "none", FALSE)}
    BY <1>3 DEF Successes, Pointers, DNS, Pthreads, Sure
  <2>2. Failures(f) = {R(-1, "other", FALSE)}
    BY <1>3 DEF Failures, Pointers, DNS, Pthreads, Sure
  <2> QED BY <1>2, <1>3, <2>1, <2>2 DEF Reported, R, ProcessExits
<1>4. CASE f \in {"pause"}
  <2>1. Successes(f) = {R(-1, "EINTR", FALSE)}
    BY <1>4 DEF Successes, Pointers, DNS, Pthreads, Sure
  <2>2. Failures(f) = {}
    BY <1>4 DEF Failures, Pointers, DNS, Pthreads, Sure
  <2> QED BY <1>2, <1>4, <2>1, <2>2 DEF Reported, R, ProcessExits
<1>5. CASE f \in {"sleep"}
  <2>1. Successes(f) = {R(1, "none", FALSE), R(0, "none", FALSE)}
    BY <1>5 DEF Successes, Pointers, DNS, Pthreads, Sure
  <2>2. Failures(f) = {}
    BY <1>5 DEF Failures, Pointers, DNS, Pthreads, Sure
  <2> QED BY <1>2, <1>5, <2>1, <2>2 DEF Reported, R, ProcessExits
<1>6. CASE f \in {"alarm", "getpgrp"}
  <2>1. Successes(f) = {R(0, "none", FALSE), R(1, "none", FALSE)}
    BY <1>6 DEF Successes, Pointers, DNS, Pthreads, Sure
  <2>2. Failures(f) = {}
    BY <1>6 DEF Failures, Pointers, DNS, Pthreads, Sure
  <2> QED BY <1>2, <1>6, <2>1, <2>2 DEF Reported, R, ProcessExits
<1> QED BY <1>3, <1>4, <1>5, <1>6 DEF Process

LEMMA SignalsReport ==
    ASSUME NEW f \in Signals
    PROVE  /\ \A r \in Successes(f) : Reported(f, r, FALSE)
           /\ \A r \in Failures(f) : Reported(f, r, TRUE)
<1>1. f \notin Process /\ f \notin UnixIO /\ f \notin Directories /\ f \notin Memory /\ f \notin StdIO /\ f \notin Sockets /\ f \notin Addresses /\ f \notin DNS /\ f \notin Pthreads /\ f \notin Semaphores
  BY DEF Process, UnixIO, Directories, Memory, StdIO, Sockets, Addresses, DNS, Pthreads, Semaphores, Signals
<1>2. \A r : Exits(f, r) <=> SignalExits(f, r)
  BY <1>1, Zenon DEF Exits
<1>3. CASE f \in {"sigprocmask", "sigemptyset", "sigfillset", "sigaddset", "sigdelset", "sigismember"}
  <2>1. Successes(f) = {R(0, "none", FALSE), R(1, "none", FALSE)}
    BY <1>3 DEF Successes, Pointers, DNS, Pthreads, Sure
  <2>2. Failures(f) = {R(-1, "other", FALSE)}
    BY <1>3 DEF Failures, Pointers, DNS, Pthreads, Sure
  <2> QED BY <1>2, <1>3, <2>1, <2>2 DEF Reported, R, SignalExits
<1>4. CASE f \in {"sigsuspend"}
  <2>1. Successes(f) = {R(-1, "EINTR", FALSE)}
    BY <1>4 DEF Successes, Pointers, DNS, Pthreads, Sure
  <2>2. Failures(f) = {R(-1, "other", FALSE)}
    BY <1>4 DEF Failures, Pointers, DNS, Pthreads, Sure
  <2> QED BY <1>2, <1>4, <2>1, <2>2 DEF Reported, R, SignalExits
<1> QED BY <1>3, <1>4 DEF Signals

LEMMA UnixIOReport ==
    ASSUME NEW f \in UnixIO
    PROVE  /\ \A r \in Successes(f) : Reported(f, r, FALSE)
           /\ \A r \in Failures(f) : Reported(f, r, TRUE)
<1>1. f \notin Process /\ f \notin Signals /\ f \notin Directories /\ f \notin Memory /\ f \notin StdIO /\ f \notin Sockets /\ f \notin Addresses /\ f \notin DNS /\ f \notin Pthreads /\ f \notin Semaphores
  BY DEF Process, Signals, Directories, Memory, StdIO, Sockets, Addresses, DNS, Pthreads, Semaphores, UnixIO
<1>2. \A r : Exits(f, r) <=> UnixIOExits(r)
  BY <1>1, Zenon DEF Exits
<1>3. CASE f \in {"open", "read", "write", "lseek", "close", "select", "dup2", "stat", "fstat"}
  <2>1. Successes(f) = {R(0, "none", FALSE), R(1, "none", FALSE)}
    BY <1>3 DEF Successes, Pointers, DNS, Pthreads, Sure
  <2>2. Failures(f) = {R(-1, "other", FALSE)}
    BY <1>3 DEF Failures, Pointers, DNS, Pthreads, Sure
  <2> QED BY <1>2, <1>3, <2>1, <2>2 DEF Reported, R, UnixIOExits
<1> QED BY <1>3 DEF UnixIO

LEMMA DirectoriesReport ==
    ASSUME NEW f \in Directories
    PROVE  /\ \A r \in Successes(f) : Reported(f, r, FALSE)
           /\ \A r \in Failures(f) : Reported(f, r, TRUE)
<1>1. f \notin Process /\ f \notin Signals /\ f \notin UnixIO /\ f \notin Memory /\ f \notin StdIO /\ f \notin Sockets /\ f \notin Addresses /\ f \notin DNS /\ f \notin Pthreads /\ f \notin Semaphores
  BY DEF Process, Signals, UnixIO, Memory, StdIO, Sockets, Addresses, DNS, Pthreads, Semaphores, Directories
<1>2. \A r : Exits(f, r) <=> DirectoryExits(f, r)
  BY <1>1, Zenon DEF Exits
<1>3. CASE f \in {"opendir"}
  <2>1. Successes(f) = {R(1, "none", FALSE)}
    BY <1>3 DEF Successes, Pointers, DNS, Pthreads, Sure
  <2>2. Failures(f) = {R(0, "other", FALSE)}
    BY <1>3 DEF Failures, Pointers, DNS, Pthreads, Sure
  <2> QED BY <1>2, <1>3, <2>1, <2>2 DEF Reported, R, DirectoryExits
<1>4. CASE f \in {"readdir"}
  <2>1. Successes(f) = {R(1, "none", FALSE), R(0, "none", FALSE)}
    BY <1>4 DEF Successes, Pointers, DNS, Pthreads, Sure
  <2>2. Failures(f) = {R(0, "other", FALSE)}
    BY <1>4 DEF Failures, Pointers, DNS, Pthreads, Sure
  <2> QED BY <1>2, <1>4, <2>1, <2>2 DEF Reported, R, DirectoryExits
<1>5. CASE f \in {"closedir"}
  <2>1. Successes(f) = {R(0, "none", FALSE), R(1, "none", FALSE)}
    BY <1>5 DEF Successes, Pointers, DNS, Pthreads, Sure
  <2>2. Failures(f) = {R(-1, "other", FALSE)}
    BY <1>5 DEF Failures, Pointers, DNS, Pthreads, Sure
  <2> QED BY <1>2, <1>5, <2>1, <2>2 DEF Reported, R, DirectoryExits
<1> QED BY <1>3, <1>4, <1>5 DEF Directories

LEMMA MemoryReport ==
    ASSUME NEW f \in Memory
    PROVE  /\ \A r \in Successes(f) : Reported(f, r, FALSE)
           /\ \A r \in Failures(f) : Reported(f, r, TRUE)
<1>1. f \notin Process /\ f \notin Signals /\ f \notin UnixIO /\ f \notin Directories /\ f \notin StdIO /\ f \notin Sockets /\ f \notin Addresses /\ f \notin DNS /\ f \notin Pthreads /\ f \notin Semaphores
  BY DEF Process, Signals, UnixIO, Directories, StdIO, Sockets, Addresses, DNS, Pthreads, Semaphores, Memory
<1>2. \A r : Exits(f, r) <=> MemoryExits(f, r)
  BY <1>1, Zenon DEF Exits
<1>3. CASE f \in {"mmap"}
  <2>1. Successes(f) = {R(1, "none", FALSE)}
    BY <1>3 DEF Successes, Pointers, DNS, Pthreads, Sure
  <2>2. Failures(f) = {R(-1, "other", FALSE)}
    BY <1>3 DEF Failures, Pointers, DNS, Pthreads, Sure
  <2> QED BY <1>2, <1>3, <2>1, <2>2 DEF Reported, R, MemoryExits
<1>4. CASE f \in {"munmap"}
  <2>1. Successes(f) = {R(0, "none", FALSE), R(1, "none", FALSE)}
    BY <1>4 DEF Successes, Pointers, DNS, Pthreads, Sure
  <2>2. Failures(f) = {R(-1, "other", FALSE)}
    BY <1>4 DEF Failures, Pointers, DNS, Pthreads, Sure
  <2> QED BY <1>2, <1>4, <2>1, <2>2 DEF Reported, R, MemoryExits
<1>5. CASE f \in {"malloc", "calloc"}
  <2>1. Successes(f) = {R(1, "none", FALSE)}
    BY <1>5 DEF Successes, Pointers, DNS, Pthreads, Sure
  <2>2. Failures(f) = {R(0, "other", FALSE)}
    BY <1>5 DEF Failures, Pointers, DNS, Pthreads, Sure
  <2> QED BY <1>2, <1>5, <2>1, <2>2 DEF Reported, R, MemoryExits
<1>6. CASE f \in {"realloc"}
  <2>1. Successes(f) = {R(1, "none", FALSE), R(0, "none", FALSE)}
    BY <1>6 DEF Successes, Pointers, DNS, Pthreads, Sure
  <2>2. Failures(f) = {R(0, "other", FALSE)}
    BY <1>6 DEF Failures, Pointers, DNS, Pthreads, Sure
  <2> QED BY <1>2, <1>6, <2>1, <2>2 DEF Reported, R, MemoryExits
<1>7. CASE f \in {"free"}
  <2>1. Successes(f) = {R(0, "none", FALSE), R(1, "none", FALSE)}
    BY <1>7 DEF Successes, Pointers, DNS, Pthreads, Sure
  <2>2. Failures(f) = {}
    BY <1>7 DEF Failures, Pointers, DNS, Pthreads, Sure
  <2> QED BY <1>2, <1>7, <2>1, <2>2 DEF Reported, R, MemoryExits
<1> QED BY <1>3, <1>4, <1>5, <1>6, <1>7 DEF Memory

LEMMA StdIOReport ==
    ASSUME NEW f \in StdIO
    PROVE  /\ \A r \in Successes(f) : Reported(f, r, FALSE)
           /\ \A r \in Failures(f) : Reported(f, r, TRUE)
<1>1. f \notin Process /\ f \notin Signals /\ f \notin UnixIO /\ f \notin Directories /\ f \notin Memory /\ f \notin Sockets /\ f \notin Addresses /\ f \notin DNS /\ f \notin Pthreads /\ f \notin Semaphores
  BY DEF Process, Signals, UnixIO, Directories, Memory, Sockets, Addresses, DNS, Pthreads, Semaphores, StdIO
<1>2. \A r : Exits(f, r) <=> StdIOExits(f, r)
  BY <1>1, Zenon DEF Exits
<1>3. CASE f \in {"fclose"}
  <2>1. Successes(f) = {R(0, "none", FALSE)}
    BY <1>3 DEF Successes, Pointers, DNS, Pthreads, Sure
  <2>2. Failures(f) = {R(-1, "other", FALSE)}
    BY <1>3 DEF Failures, Pointers, DNS, Pthreads, Sure
  <2> QED BY <1>2, <1>3, <2>1, <2>2 DEF Reported, R, StdIOExits
<1>4. CASE f \in {"fdopen", "fopen", "fwrite"}
  <2>1. Successes(f) = {R(1, "none", FALSE)}
    BY <1>4 DEF Successes, Pointers, DNS, Pthreads, Sure
  <2>2. Failures(f) = {R(0, "other", FALSE)}
    BY <1>4 DEF Failures, Pointers, DNS, Pthreads, Sure
  <2> QED BY <1>2, <1>4, <2>1, <2>2 DEF Reported, R, StdIOExits
<1>5. CASE f \in {"fgets", "fread"}
  <2>1. Successes(f) = {R(1, "none", FALSE), R(0, "none", FALSE)}
    BY <1>5 DEF Successes, Pointers, DNS, Pthreads, Sure
  <2>2. Failures(f) = {R(0, "other", TRUE)}
    BY <1>5 DEF Failures, Pointers, DNS, Pthreads, Sure
  <2> QED BY <1>2, <1>5, <2>1, <2>2 DEF Reported, R, StdIOExits
<1>6. CASE f \in {"fputs"}
  <2>1. Successes(f) = {R(0, "none", FALSE), R(1, "none", FALSE)}
    BY <1>6 DEF Successes, Pointers, DNS, Pthreads, Sure
  <2>2. Failures(f) = {R(-1, "other", FALSE)}
    BY <1>6 DEF Failures, Pointers, DNS, Pthreads, Sure
  <2> QED BY <1>2, <1>6, <2>1, <2>2 DEF Reported, R, StdIOExits
<1> QED BY <1>3, <1>4, <1>5, <1>6 DEF StdIO

LEMMA SocketsReport ==
    ASSUME NEW f \in Sockets
    PROVE  /\ \A r \in Successes(f) : Reported(f, r, FALSE)
           /\ \A r \in Failures(f) : Reported(f, r, TRUE)
<1>1. f \notin Process /\ f \notin Signals /\ f \notin UnixIO /\ f \notin Directories /\ f \notin Memory /\ f \notin StdIO /\ f \notin Addresses /\ f \notin DNS /\ f \notin Pthreads /\ f \notin Semaphores
  BY DEF Process, Signals, UnixIO, Directories, Memory, StdIO, Addresses, DNS, Pthreads, Semaphores, Sockets
<1>2. \A r : Exits(f, r) <=> SocketExits(r)
  BY <1>1, Zenon DEF Exits
<1>3. CASE f \in {"socket", "setsockopt", "bind", "listen", "accept", "connect"}
  <2>1. Successes(f) = {R(0, "none", FALSE), R(1, "none", FALSE)}
    BY <1>3 DEF Successes, Pointers, DNS, Pthreads, Sure
  <2>2. Failures(f) = {R(-1, "other", FALSE)}
    BY <1>3 DEF Failures, Pointers, DNS, Pthreads, Sure
  <2> QED BY <1>2, <1>3, <2>1, <2>2 DEF Reported, R, SocketExits
<1> QED BY <1>3 DEF Sockets

LEMMA AddressesReport ==
    ASSUME NEW f \in Addresses
    PROVE  /\ \A r \in Successes(f) : Reported(f, r, FALSE)
           /\ \A r \in Failures(f) : Reported(f, r, TRUE)
<1>1. f \notin Process /\ f \notin Signals /\ f \notin UnixIO /\ f \notin Directories /\ f \notin Memory /\ f \notin StdIO /\ f \notin Sockets /\ f \notin DNS /\ f \notin Pthreads /\ f \notin Semaphores
  BY DEF Process, Signals, UnixIO, Directories, Memory, StdIO, Sockets, DNS, Pthreads, Semaphores, Addresses
<1>2. \A r : Exits(f, r) <=> AddressExits(f, r)
  BY <1>1, Zenon DEF Exits
<1>3. CASE f \in {"getaddrinfo", "getnameinfo"}
  <2>1. Successes(f) = {R(0, "none", FALSE)}
    BY <1>3 DEF Successes, Pointers, DNS, Pthreads, Sure
  <2>2. Failures(f) = {R(-2, "none", FALSE)}
    BY <1>3 DEF Failures, Pointers, DNS, Pthreads, Sure
  <2> QED BY <1>2, <1>3, <2>1, <2>2 DEF Reported, R, AddressExits
<1>4. CASE f \in {"freeaddrinfo"}
  <2>1. Successes(f) = {R(0, "none", FALSE), R(1, "none", FALSE)}
    BY <1>4 DEF Successes, Pointers, DNS, Pthreads, Sure
  <2>2. Failures(f) = {}
    BY <1>4 DEF Failures, Pointers, DNS, Pthreads, Sure
  <2> QED BY <1>2, <1>4, <2>1, <2>2 DEF Reported, R, AddressExits
<1>5. CASE f \in {"inet_ntop"}
  <2>1. Successes(f) = {R(1, "none", FALSE)}
    BY <1>5 DEF Successes, Pointers, DNS, Pthreads, Sure
  <2>2. Failures(f) = {R(0, "other", FALSE)}
    BY <1>5 DEF Failures, Pointers, DNS, Pthreads, Sure
  <2> QED BY <1>2, <1>5, <2>1, <2>2 DEF Reported, R, AddressExits
<1>6. CASE f \in {"inet_pton"}
  <2>1. Successes(f) = {R(1, "none", FALSE)}
    BY <1>6 DEF Successes, Pointers, DNS, Pthreads, Sure
  <2>2. Failures(f) = {R(0, "none", FALSE), R(-1, "other", FALSE)}
    BY <1>6 DEF Failures, Pointers, DNS, Pthreads, Sure
  <2> QED BY <1>2, <1>6, <2>1, <2>2 DEF Reported, R, AddressExits
<1> QED BY <1>3, <1>4, <1>5, <1>6 DEF Addresses

LEMMA DNSReport ==
    ASSUME NEW f \in DNS
    PROVE  /\ \A r \in Successes(f) : Reported(f, r, FALSE)
           /\ \A r \in Failures(f) : Reported(f, r, TRUE)
<1>1. f \notin Process /\ f \notin Signals /\ f \notin UnixIO /\ f \notin Directories /\ f \notin Memory /\ f \notin StdIO /\ f \notin Sockets /\ f \notin Addresses /\ f \notin Pthreads /\ f \notin Semaphores
  BY DEF Process, Signals, UnixIO, Directories, Memory, StdIO, Sockets, Addresses, Pthreads, Semaphores, DNS
<1>2. \A r : Exits(f, r) <=> DNSExits(r)
  BY <1>1, Zenon DEF Exits
<1>3. CASE f \in {"gethostbyname", "gethostbyaddr"}
  <2>1. Successes(f) = {R(1, "none", FALSE)}
    BY <1>3 DEF Successes, Pointers, DNS, Pthreads, Sure
  <2>2. Failures(f) = {R(0, "other", FALSE)}
    BY <1>3 DEF Failures, Pointers, DNS, Pthreads, Sure
  <2> QED BY <1>2, <1>3, <2>1, <2>2 DEF Reported, R, DNSExits
<1> QED BY <1>3 DEF DNS

LEMMA PthreadsReport ==
    ASSUME NEW f \in Pthreads
    PROVE  /\ \A r \in Successes(f) : Reported(f, r, FALSE)
           /\ \A r \in Failures(f) : Reported(f, r, TRUE)
<1>1. f \notin Process /\ f \notin Signals /\ f \notin UnixIO /\ f \notin Directories /\ f \notin Memory /\ f \notin StdIO /\ f \notin Sockets /\ f \notin Addresses /\ f \notin DNS /\ f \notin Semaphores
  BY DEF Process, Signals, UnixIO, Directories, Memory, StdIO, Sockets, Addresses, DNS, Semaphores, Pthreads
<1>2. \A r : Exits(f, r) <=> ThreadExits(f, r)
  BY <1>1, Zenon DEF Exits
<1>3. CASE f \in {"pthread_create", "pthread_cancel", "pthread_join", "pthread_detach"}
  <2>1. Successes(f) = {R(0, "none", FALSE)}
    BY <1>3 DEF Successes, Pointers, DNS, Pthreads, Sure
  <2>2. Failures(f) = {R(11, "none", FALSE)}
    BY <1>3 DEF Failures, Pointers, DNS, Pthreads, Sure
  <2> QED BY <1>2, <1>3, <2>1, <2>2 DEF Reported, R, ThreadExits, PthreadFailed
<1>4. CASE f \in {"pthread_exit", "pthread_self", "pthread_once"}
  <2>1. Successes(f) = {R(0, "none", FALSE), R(1, "none", FALSE)}
    BY <1>4 DEF Successes, Pointers, DNS, Pthreads, Sure
  <2>2. Failures(f) = {}
    BY <1>4 DEF Failures, Pointers, DNS, Pthreads, Sure
  <2> QED BY <1>2, <1>4, <2>1, <2>2 DEF Reported, R, ThreadExits, PthreadFailed
<1> QED BY <1>3, <1>4 DEF Pthreads

LEMMA SemaphoresReport ==
    ASSUME NEW f \in Semaphores
    PROVE  /\ \A r \in Successes(f) : Reported(f, r, FALSE)
           /\ \A r \in Failures(f) : Reported(f, r, TRUE)
<1>1. f \notin Process /\ f \notin Signals /\ f \notin UnixIO /\ f \notin Directories /\ f \notin Memory /\ f \notin StdIO /\ f \notin Sockets /\ f \notin Addresses /\ f \notin DNS /\ f \notin Pthreads
  BY DEF Process, Signals, UnixIO, Directories, Memory, StdIO, Sockets, Addresses, DNS, Pthreads, Semaphores
<1>2. \A r : Exits(f, r) <=> SemaphoreExits(r)
  BY <1>1, Zenon DEF Exits
<1>3. CASE f \in {"sem_init", "sem_wait", "sem_post"}
  <2>1. Successes(f) = {R(0, "none", FALSE), R(1, "none", FALSE)}
    BY <1>3 DEF Successes, Pointers, DNS, Pthreads, Sure
  <2>2. Failures(f) = {R(-1, "other", FALSE)}
    BY <1>3 DEF Failures, Pointers, DNS, Pthreads, Sure
  <2> QED BY <1>2, <1>3, <2>1, <2>2 DEF Reported, R, SemaphoreExits
<1> QED BY <1>3 DEF Semaphores

LEMMA WrapperReports ==
    ASSUME NEW f \in Wrapped
    PROVE  /\ \A r \in Successes(f) : Reported(f, r, FALSE)
           /\ \A r \in Failures(f) : Reported(f, r, TRUE)
BY ProcessReport, SignalsReport, UnixIOReport, DirectoriesReport, MemoryReport, StdIOReport, SocketsReport,
   AddressesReport, DNSReport, PthreadsReport, SemaphoresReport DEF Wrapped

\* A signal ends no wrapped call but select.
LEMMA OnlySelectInterrupted ==
    ASSUME CsappIInv, Interrupt
    PROVE  doing = "select" /\ Exits(doing, R(-1, "EINTR", FALSE))
<1>1. doing = "select"
  BY DEF CsappIInv, Interrupt, Slow, Restarted
<1>2. Exits("select", R(-1, "EINTR", FALSE))
  <2>1. "select" \in UnixIO
    BY DEF UnixIO
  <2>2. UnixIOExits(R(-1, "EINTR", FALSE))
    BY DEF UnixIOExits, R
  <2> QED BY <2>1, <2>2, Zenon DEF Exits
<1> QED BY <1>1, <1>2

LEMMA NamesApart ==
    /\ "idle" \notin Wrapped \cup Openers /\ "sio_putl" \notin Wrapped \cup Openers
    /\ \A f \in Openers : f \notin Wrapped
BY DEF Openers, Wrapped, Process, Signals, UnixIO, Directories, Memory, StdIO, Sockets, Addresses, DNS, Pthreads,
   Semaphores

LEMMA CsappStarts == CsappInit => CsappIInv
BY NamesApart DEF CsappInit, CsappIInv, WrappersReport, OpensOne

LEMMA WrappedCallKeeps ==
    ASSUME CsappIInv, Returns \/ Interrupt
    PROVE  CsappIInv'
<1>1. PICK r, bad : /\ Leaves(r, bad) /\ bad \in BOOLEAN /\ Reported(doing, r, bad) /\ doing \in Wrapped
  <2>1. CASE Returns
    BY <2>1, WrapperReports DEF Returns
  <2>2. CASE Interrupt
    <3>1. doing = "select" /\ Exits(doing, R(-1, "EINTR", FALSE)) /\ doing \in Wrapped
      BY <2>2, OnlySelectInterrupted DEF Wrapped, UnixIO
    <3> QED BY <2>2, <3>1 DEF Interrupt, Reported, R
  <2> QED BY <2>1, <2>2
<1>2. /\ doing' = "idle" /\ done' = doing /\ result' = r /\ failed' = bad /\ ended' = Exits(doing, r)
      /\ UNCHANGED <<flags, left, tried, fds, list>>
  BY <1>1 DEF Leaves, openVars
<1>3. done' \in Wrapped /\ done' \notin Openers
  BY <1>1, <1>2, NamesApart
<1>4. WrappersReport'
  BY <1>1, <1>2 DEF WrappersReport, Reported
<1>5. OpensOne'
  BY <1>3 DEF OpensOne
<1>6. list' => tried'
  BY <1>1, <1>2, NamesApart DEF CsappIInv
<1> QED BY <1>2, <1>4, <1>5, <1>6 DEF CsappIInv

LEMMA QuietKeeps ==
    ASSUME CsappIInv, Signal \/ sio_putl \/ CloseOpened \/ UNCHANGED csappVars
    PROVE  CsappIInv'
<1>1. CASE Signal
  BY <1>1 DEF CsappIInv, Signal, Idle, callVars, openVars, WrappersReport, OpensOne
<1>2. CASE sio_putl
  <2>1. done' = "sio_putl" /\ UNCHANGED <<doing, flags, ended, list, tried>>
    BY <1>2 DEF sio_putl, openVars
  <2>2. WrappersReport' /\ OpensOne'
    BY <2>1, NamesApart DEF WrappersReport, OpensOne
  <2> QED BY <2>1, <2>2 DEF CsappIInv
<1>3. CASE CloseOpened
  BY <1>3 DEF CsappIInv, CloseOpened, Idle, callVars, WrappersReport, OpensOne
<1>4. CASE UNCHANGED csappVars
  BY <1>4 DEF CsappIInv, csappVars, callVars, openVars, WrappersReport, OpensOne
<1> QED BY <1>1, <1>2, <1>3, <1>4

LEMMA EnterKeeps ==
    ASSUME CsappIInv, NEW f \in Wrapped, Enter(f)
    PROVE  CsappIInv'
<1>1. /\ doing = "idle" /\ ~ended /\ doing' = f
      /\ UNCHANGED <<done, result, failed, flags, ended, left, tried, fds, list>>
  BY DEF Enter, Idle, callVars, openVars
<1>2. doing' # "idle"
  BY <1>1, NamesApart
<1>3. WrappersReport' /\ OpensOne'
  BY <1>1, <1>2 DEF CsappIInv, WrappersReport, OpensOne
<1>4. list' => tried'
  BY <1>1, NamesApart DEF CsappIInv
<1> QED BY <1>1, <1>3, <1>4 DEF CsappIInv

LEMMA LookUpKeeps ==
    ASSUME CsappIInv, NEW f \in Openers, LookUp(f)
    PROVE  CsappIInv'
<1>1. CASE doing' = f /\ list' = TRUE /\ UNCHANGED <<done, result, failed, ended>>
  <2>1. doing' # "idle" /\ ~ended' /\ flags' = flags
    BY <1>1, NamesApart DEF LookUp, Idle
  <2>2. WrappersReport' /\ OpensOne'
    BY <1>1, <2>1 DEF CsappIInv, WrappersReport, OpensOne
  <2> QED BY <1>1, <2>1, <2>2 DEF CsappIInv
<1>2. CASE /\ doing' = "idle" /\ done' = f /\ result' = R(-2, "other", FALSE) /\ failed' = TRUE /\ ended' = TRUE
           /\ UNCHANGED <<list, left, tried>>
  <2>1. ~list' /\ flags' = flags
    BY <1>2 DEF LookUp
  <2>2. WrappersReport' /\ OpensOne'
    BY <1>2, <2>1, NamesApart DEF WrappersReport, OpensOne, R
  <2> QED BY <1>2, <2>1, <2>2 DEF CsappIInv
<1> QED BY <1>1, <1>2 DEF LookUp, callVars

LEMMA TryKeeps ==
    ASSUME CsappIInv, Try
    PROVE  CsappIInv'
<1>1. doing \in Openers /\ flags' = flags /\ doing # "idle" /\ ~ended
  BY NamesApart DEF Try, CsappIInv
<1>2. CASE UNCHANGED <<tried, doing, callVars, ended, list>>
  BY <1>1, <1>2 DEF CsappIInv, callVars, WrappersReport, OpensOne
<1>3. CASE tried' = TRUE /\ OpenEnds(-1) /\ fds' = 1 /\ UNCHANGED <<left, list>>
  <2>1. WrappersReport' /\ OpensOne'
    BY <1>1, <1>3, NamesApart DEF OpenEnds, WrappersReport, OpensOne, R
  <2> QED BY <1>1, <1>3, <2>1 DEF CsappIInv, OpenEnds
<1> QED BY <1>2, <1>3 DEF Try

LEMMA OpenedKeeps ==
    ASSUME CsappIInv, Opened
    PROVE  CsappIInv'
<1>1. doing \in Openers /\ flags' = flags /\ list' = FALSE
  BY DEF Opened
<1>2. CASE OpenEnds(3)
  <2>1. doing' = "idle" /\ done' = doing /\ result'.rc = 3 /\ ~ended'
    <3>1. ended' = (3 < 0) /\ ~(3 < 0) /\ doing' = "idle" /\ done' = doing /\ result' = R(3, "other", FALSE)
      BY <1>2 DEF OpenEnds
    <3> QED BY <3>1 DEF R
  <2>2. WrappersReport' /\ OpensOne'
    BY <1>1, <2>1, NamesApart DEF WrappersReport, OpensOne
  <2> QED BY <1>1, <2>1, <2>2 DEF CsappIInv
<1>3. CASE OpenEnds(-1) /\ fds' = 0
  <2>1. WrappersReport' /\ OpensOne'
    BY <1>1, <1>3, NamesApart DEF OpenEnds, WrappersReport, OpensOne, R
  <2> QED BY <1>1, <1>3, <2>1 DEF CsappIInv, OpenEnds
<1> QED BY <1>2, <1>3 DEF Opened

\* No wrapper hides a failure or invents one, and the functions that open a
\* socket keep at most the one they return.
THEOREM WrappersKeepTheirWord == CsappInit /\ [][CsappNext]_csappVars => []CsappKeepsItsWord
<1>1. CsappIInv /\ [CsappNext]_csappVars => CsappIInv'
  BY WrappedCallKeeps, QuietKeeps, EnterKeeps, LookUpKeeps, TryKeeps, OpenedKeeps DEF CsappNext
<1>2. CsappIInv => CsappKeepsItsWord
  BY DEF CsappIInv, CsappKeepsItsWord
<1> QED BY <1>1, <1>2, CsappStarts, PTL
=============================================================================
