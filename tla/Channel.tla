------------------------------ MODULE Channel ------------------------------
(***************************************************************************)
(* What the proxy's connection queue promises: a first-in first-out        *)
(* channel of at most Cap connections, each handed to one receiver.        *)
(***************************************************************************)
EXTENDS Sequences, Naturals

CONSTANTS Items, NoItem, Receivers, Cap

VARIABLES
    queue,  \* what was sent and not received
    held    \* the item each receiver has, NoItem before it has one

Init == queue = <<>> /\ held = [r \in Receivers |-> NoItem]

Send(x) ==
    /\ Len(queue) < Cap
    /\ queue' = Append(queue, x)
    /\ UNCHANGED held

Receive(r) ==
    /\ queue # <<>>
    /\ held[r] = NoItem
    /\ held' = [held EXCEPT ![r] = Head(queue)]
    /\ queue' = Tail(queue)

\* The receiver is done with its item.
Release(r) ==
    /\ held[r] # NoItem
    /\ held' = [held EXCEPT ![r] = NoItem]
    /\ UNCHANGED queue

Next ==
    \/ \E x \in Items : Send(x)
    \/ \E r \in Receivers : Receive(r) \/ Release(r)

Spec == Init /\ [][Next]_<<queue, held>>
=============================================================================
