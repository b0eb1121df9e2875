--------------------------- MODULE RedemptionQueue ---------------------------
(***************************************************************************)
(* What the vault's asynchronous redemption promises, without strategies,  *)
(* prices, counters or escrow accounts.                                    *)
(*                                                                         *)
(* A share is either free in the hands of a user or waits in exactly one   *)
(* queued request.  A request is settled once: its shares are spent by a   *)
(* claim, and leave the supply, or go back, all of them, to the owner that *)
(* queued them.                                                            *)
(***************************************************************************)
EXTENDS Integers

CONSTANTS Users

VARIABLES
    free,     \* user |-> shares the user can dispose of
    issued,   \* shares in existence
    queue,    \* id of a waiting request |-> [owner, shares]
    next      \* the id of the next request

queueSpecVars == <<free, issued, queue, next>>

Init ==
    /\ free = [u \in Users |-> 0]
    /\ issued = 0
    /\ queue = [id \in {} |-> 0]
    /\ next = 0

Waiting == DOMAIN queue

\* Free shares are issued, spent, or given away, to another user or to the
\* vault's own address, out of everyone's reach.  Waiting shares stay put.
Issue(u) ==
    /\ issued' \in Nat
    /\ free' = [free EXCEPT ![u] = @ + issued' - issued]
    /\ issued <= issued'
    /\ UNCHANGED <<queue, next>>

Spend(u, n) ==
    /\ free' = [free EXCEPT ![u] = @ - n]
    /\ issued' = issued - n
    /\ UNCHANGED <<queue, next>>

Give(u, v, n) ==
    /\ free' = [free EXCEPT ![u] = @ - n, ![v] = @ + n]
    /\ UNCHANGED <<issued, queue, next>>

Lose(u, n) ==
    /\ free' = [free EXCEPT ![u] = @ - n]
    /\ UNCHANGED <<issued, queue, next>>

Enqueue(u, n) ==
    /\ next \notin Waiting
    /\ free' = [free EXCEPT ![u] = @ - n]
    /\ queue' = [id \in Waiting \union {next} |->
                    IF id = next THEN [owner |-> u, shares |-> n] ELSE queue[id]]
    /\ next' = next + 1
    /\ UNCHANGED issued

Leave(id) ==
    /\ queue' = [x \in Waiting \ {id} |-> queue[x]]
    /\ UNCHANGED next

Claim(id) ==
    /\ Leave(id)
    /\ issued' = issued - queue[id].shares
    /\ UNCHANGED free

Cancel(id) ==
    /\ Leave(id)
    /\ free' = [free EXCEPT ![queue[id].owner] = @ + queue[id].shares]
    /\ UNCHANGED issued

Next ==
    \/ \E u \in Users :
          \/ Issue(u)
          \/ \E n \in 1 .. free[u] :
                \/ Spend(u, n)
                \/ \E v \in Users \ {u} : Give(u, v, n)
                \/ Lose(u, n)
                \/ Enqueue(u, n)
    \/ \E id \in Waiting : Claim(id) \/ Cancel(id)

Spec == Init /\ [][Next]_queueSpecVars
=============================================================================
