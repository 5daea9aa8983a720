----------------------------- MODULE KVChannel -----------------------------
(***************************************************************************)
(* What the transport promises its two clients, without threads, credits,   *)
(* acknowledgements or streams: one FIFO channel per wire key.  A payload   *)
(* is delivered at most once and in the order it was submitted among those  *)
(* of its key.  It may instead be replaced by a failure mark, or be lost    *)
(* without one (an error the listener only logs); a crash of the consumer   *)
(* loses its inbox and a prefix of what is outstanding.                     *)
(***************************************************************************)
EXTENDS Integers, Sequences

CONSTANTS Payload, Rid, RidOf, Failed

VARIABLES
    fresh,   \* payloads not submitted yet
    queue,   \* queue[r]: submitted under r and not resolved, oldest first
    inbox    \* inbox[r]: what the consumer can take, oldest first

chanVars == <<fresh, queue, inbox>>

Without(s, i) == SubSeq(s, 1, i - 1) \o SubSeq(s, i + 1, Len(s))
Suffixes(s) == {SubSeq(s, i, Len(s)) : i \in 1..(Len(s) + 1)}

ChanInit ==
    /\ fresh = Payload
    /\ queue = [r \in Rid |-> <<>>]
    /\ inbox = [r \in Rid |-> <<>>]

Submit(p) ==
    /\ p \in fresh
    /\ fresh' = fresh \ {p}
    /\ queue' = [queue EXCEPT ![RidOf[p]] = Append(@, p)]
    /\ UNCHANGED inbox

Deliver(r) ==
    /\ queue[r] # <<>>
    /\ inbox' = [inbox EXCEPT ![r] = Append(@, Head(queue[r]))]
    /\ queue' = [queue EXCEPT ![r] = Tail(@)]
    /\ UNCHANGED fresh

Refuse(r, i) ==
    /\ inbox' = [inbox EXCEPT ![r] = Append(@, Failed)]
    /\ queue' = [queue EXCEPT ![r] = Without(@, i)]
    /\ UNCHANGED fresh

Lose(r, i) ==
    /\ queue' = [queue EXCEPT ![r] = Without(@, i)]
    /\ UNCHANGED <<fresh, inbox>>

Take ==
    /\ inbox' = [r \in Rid |-> <<>>]
    /\ UNCHANGED <<fresh, queue>>

Crash ==
    /\ inbox' = [r \in Rid |-> <<>>]
    /\ queue' \in {q \in [Rid -> UNION {Suffixes(queue[r]) : r \in Rid}] :
                     \A r \in Rid : q[r] \in Suffixes(queue[r])}
    /\ UNCHANGED fresh

ChanNext ==
    \/ \E p \in Payload : Submit(p)
    \/ \E r \in Rid : Deliver(r)
    \/ \E r \in Rid : \E i \in DOMAIN queue[r] : Refuse(r, i) \/ Lose(r, i)
    \/ Take
    \/ Crash

ChanSpec == ChanInit /\ [][ChanNext]_chanVars
=============================================================================
