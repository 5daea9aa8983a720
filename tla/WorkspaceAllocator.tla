------------------------- MODULE WorkspaceAllocator -------------------------
(***************************************************************************)
(* The memory nvCOMP asks for while a codec runs: FixedWorkspaceAllocator   *)
(* of compression/memory.py, and the registry of kvserve_v1 that gives each *)
(* codec stream its own pool behind nvCOMP's one process-wide hook.         *)
(*                                                                          *)
(* A runtime owns streams and registers their pools together.  A codec call *)
(* of a stream first finds its allocator and then asks it; what it was lent *)
(* goes back to that allocator in any order, after the runtime's shutdown   *)
(* too.                                                                     *)
(***************************************************************************)
EXTENDS Integers, Sequences, SequencesExt, FiniteSets

CONSTANTS Runtime, Stream, Owner,   \* Owner: Stream -> Runtime
          Unit,                     \* ALIGNMENT
          PoolBytes, RequestSizes
ASSUME AllocatorAssumption ==
    /\ Owner \in [Stream -> Runtime]
    /\ Unit \in Nat \ {0} /\ PoolBytes \in [Stream -> Nat \ {0}]
    /\ \A s \in Stream : PoolBytes[s] % Unit = 0
    /\ RequestSizes \subseteq Nat \ {0}

VARIABLES
    free,      \* _free of each stream's pool: a list of <<offset, length>>
    live,      \* ranges lent from each pool
    asking,    \* the allocator a codec call of the stream has found
    registry,  \* streams in _workspace_allocators
    hook,      \* nvCOMP's device allocator is _allocate_workspace
    outside    \* streams that hold memory from outside their pool
allocVars == <<free, live, asking, registry, hook, outside>>

AlignedSize(n) == ((n + Unit - 1) \div Unit) * Unit

AllocatorInit ==
    /\ free = [s \in Stream |-> <<<<0, PoolBytes[s]>>>>]
    /\ live = [s \in Stream |-> {}]
    /\ asking = [s \in Stream |-> "none"]
    /\ registry = {} /\ hook = FALSE /\ outside = {}

-----------------------------------------------------------------------------
\* FixedWorkspaceAllocator

Candidates(f, size) == {i \in DOMAIN f : f[i][2] >= size}

\* min(candidates): the shortest range that fits, the first of equals.
BestFit(f, size) ==
    CHOOSE i \in Candidates(f, size) :
        \A j \in Candidates(f, size) : f[i][2] < f[j][2] \/ (f[i][2] = f[j][2] /\ i <= j)

Cut(f, size) ==
    LET i == BestFit(f, size)
    IN  RemoveAt(f, i) \o (IF f[i][2] > size THEN <<<<f[i][1] + size, f[i][2] - size>>>> ELSE <<>>)

\* One range of release's pass over the sorted list.  Mutation: only the range
\* that comes back is compared with its neighbour, and taken without its length.
MergeMutant(merged, r) ==
    IF merged # <<>> /\ Last(merged)[1] + Last(merged)[2] = r[1]
    THEN Front(merged) \o <<<<Last(merged)[1], Last(merged)[2]>>>>
    ELSE Append(merged, r)

Merge(merged, r) ==
    IF merged # <<>> /\ Last(merged)[1] + Last(merged)[2] = r[1]
    THEN Front(merged) \o <<<<Last(merged)[1], Last(merged)[2] + r[2]>>>>
    ELSE Append(merged, r)

\* The list after a range has come back: appended, sorted, neighbours merged.
Returned(f, r) == FoldLeft(Merge, <<>>, SortSeq(Append(f, r), LAMBDA a, b : a[1] < b[1]))

-----------------------------------------------------------------------------
\* The registry

\* A stream of the runtime that has an allocator already is an error.
Register(r) ==
    /\ {s \in Stream : Owner[s] = r} \cap registry = {}
    /\ registry' = registry \cup {s \in Stream : Owner[s] = r}
    /\ hook' = TRUE
    /\ UNCHANGED <<free, live, asking, outside>>

Unregister(r) ==
    /\ {s \in Stream : Owner[s] = r} \subseteq registry
    /\ registry' = {s \in registry : Owner[s] # r}
    /\ hook' = (hook /\ registry' # {})
    /\ UNCHANGED <<free, live, asking, outside>>

\* _allocate_workspace looks the stream up under the lock.  Without the hook
\* nvCOMP uses its own allocator.
Find(s) ==
    /\ asking[s] = "none"
    /\ asking' = [asking EXCEPT ![s] = IF hook /\ s \in registry THEN "pool" ELSE "external"]
    /\ UNCHANGED <<free, live, registry, hook, outside>>

\* The allocator is called after the lock has been released.
Allocate(s, n) ==
    /\ asking[s] = "pool"
    /\ Candidates(free[s], AlignedSize(n)) # {}
    /\ LET i == BestFit(free[s], AlignedSize(n))
       IN  live' = [live EXCEPT ![s] = @ \cup {<<free[s][i][1], AlignedSize(n)>>}]
    /\ free' = [free EXCEPT ![s] = Cut(@, AlignedSize(n))]
    /\ asking' = [asking EXCEPT ![s] = "none"]
    /\ UNCHANGED <<registry, hook, outside>>

\* min() of no candidates raises out of the callback and the codec call fails.
AllocateRaises(s, n) ==
    /\ asking[s] = "pool"
    /\ Candidates(free[s], AlignedSize(n)) = {}
    /\ asking' = [asking EXCEPT ![s] = "none"]
    /\ UNCHANGED <<free, live, registry, hook, outside>>

\* _ExternalAllocation, or nvCOMP's own
AllocateExternal(s) ==
    /\ asking[s] = "external"
    /\ outside' = outside \cup {s}
    /\ asking' = [asking EXCEPT ![s] = "none"]
    /\ UNCHANGED <<free, live, registry, hook>>

\* _PoolAllocation.__del__
Release(s, r) ==
    /\ r \in live[s]
    /\ live' = [live EXCEPT ![s] = @ \ {r}]
    /\ free' = [free EXCEPT ![s] = Returned(@, r)]
    /\ UNCHANGED <<asking, registry, hook, outside>>

ReleaseExternal(s) ==
    /\ s \in outside
    /\ outside' = outside \ {s}
    /\ UNCHANGED <<free, live, asking, registry, hook>>

CodecCall(s) ==
    \/ Find(s)
    \/ \E n \in RequestSizes : Allocate(s, n) \/ AllocateRaises(s, n)
    \/ AllocateExternal(s)
    \/ \E r \in live[s] : Release(s, r)
    \/ ReleaseExternal(s)

AllocatorNext ==
    \/ \E s \in Stream : CodecCall(s)
    \/ \E r \in Runtime : Register(r) \/ Unregister(r)

AllocatorSpec == AllocatorInit /\ [][AllocatorNext]_allocVars

-----------------------------------------------------------------------------
Ranges(s) == INSTANCE WorkspaceRanges
    WITH Pool <- PoolBytes[s], Request <- {AlignedSize(n) : n \in RequestSizes},
         free <- ToSet(free[s]), live <- live[s]

ImplementsRanges ==
    /\ \A s \in Stream : Ranges(s)!RangesInit
    /\ [][\A s \in Stream : [Ranges(s)!RangesNext]_(Ranges(s)!rangeVars)]_allocVars

PooledWhileRegistered ==
    [][\A s \in Stream : s \in registry => asking'[s] # "external" \/ asking[s] = "external"]_allocVars

\* Best fit over the list, the remainder at its end and the sort and merge of a
\* release (compression/memory.py:369-397) are the abstract cutting and joining
\* of ranges, for every stream and whatever the others do; and while a runtime
\* has its streams registered its codecs take memory from their own pool:
\* another runtime that shuts down does not take the hook away.
WorkspaceServed == ImplementsRanges /\ PooledWhileRegistered
=============================================================================
