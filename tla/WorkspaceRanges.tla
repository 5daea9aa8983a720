-------------------------- MODULE WorkspaceRanges --------------------------
(***************************************************************************)
(* What the workspace allocator of a codec stream promises, without the     *)
(* list it keeps: a pool of Pool bytes is split into free and lent ranges   *)
(* <<offset, length>>; a request is cut from the front of a free range and  *)
(* a returned range is joined with its free neighbours.                     *)
(***************************************************************************)
EXTENDS Integers

CONSTANTS Pool,     \* bytes of the pool
          Request   \* the sizes that may be asked for
PoolOk == Pool \in Nat \ {0} /\ Request \subseteq Nat \ {0}

VARIABLES free, live
rangeVars == <<free, live>>

End(r) == r[1] + r[2]

RangesInit == free = {<<0, Pool>>} /\ live = {}

Rest(r, n) == IF r[2] > n THEN {<<r[1] + n, r[2] - n>>} ELSE {}

Lend(n, r) ==
    /\ r \in free /\ r[2] >= n
    /\ free' = (free \ {r}) \cup Rest(r, n)
    /\ live' = live \cup {<<r[1], n>>}

Before(a) == {r \in free : End(r) = a[1]}
After(a) == {r \in free : r[1] = End(a)}

\* A range with its free neighbours: from the start of the one before it, if
\* there is one, to the end of the one after it.
Joined(a) ==
    LET first == IF Before(a) = {} THEN a ELSE CHOOSE r \in Before(a) : TRUE
        last == IF After(a) = {} THEN a ELSE CHOOSE r \in After(a) : TRUE
    IN  <<first[1], End(last) - first[1]>>

Return(a) ==
    /\ a \in live
    /\ live' = live \ {a}
    /\ free' = (free \ (Before(a) \cup After(a))) \cup {Joined(a)}

RangesNext == \/ \E n \in Request, r \in free : Lend(n, r)
              \/ \E a \in live : Return(a)

RangesSpec == RangesInit /\ [][RangesNext]_rangeVars

-----------------------------------------------------------------------------
\* Every byte of the pool is in exactly one range, free or lent.
Partition ==
    /\ free \cap live = {}
    /\ \A x \in 0 .. (Pool - 1) : \E r \in free \cup live : r[1] <= x /\ x < End(r)
    /\ \A r, q \in free \cup live : r # q => End(r) <= q[1] \/ End(q) <= r[1]

\* Free neighbours have been joined, so the pool is one free range again when
\* everything has been returned.
Coalesced ==
    /\ \A r, q \in free : End(r) # q[1]
    /\ live = {} => free = {<<0, Pool>>}
=============================================================================
