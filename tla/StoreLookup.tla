---------------------------- MODULE StoreLookup ----------------------------
(***************************************************************************)
(* The prefix lookup of the Mooncake store connector and the load plan that *)
(* is made from it: store/coordinator.py, lookup and _tail_key_boundaries   *)
(* of store/worker.py, the key enumeration of its receiving thread and the  *)
(* token database of store/data.py.                                         *)
(*                                                                          *)
(* A request is a chain of block hashes, one per HashBlock tokens; the hash *)
(* of a prefix is named by its length in tokens (its boundary).  A key is a *)
(* boundary in a group; the namespaces of the ranks are in StoreLayout.     *)
(*                                                                          *)
(* A configuration c has groups (a sequence of specs [kind, bs, win, eagle] *)
(* with kind "full", "swa" or "mamba"), hb (hash_block_size), lcm (the      *)
(* scheduler's block size) and useEagle (a drafter reads ahead).            *)
(***************************************************************************)
EXTENDS Integers, Sequences, FiniteSets, FiniteSetsExt, SequencesExt

Cdiv(a, b) == (a + b - 1) \div b
AlignDown(n, a) == (n \div a) * a

Spec(c, g) == c.groups[g]
Bs(c, g) == Spec(c, g).bs
Group(c) == DOMAIN c.groups

\* partial_hash_hits_enabled, without context parallelism
PartialHashHits(c) == \E g \in Group(c) : Spec(c, g).kind = "mamba" /\ Bs(c, g) > c.hb

Alignment(c) == IF PartialHashHits(c) THEN c.hb ELSE c.lcm

AlignLookupLength(c, n) == AlignDown(n, Alignment(c))

\* _verify_and_split_kv_cache_groups: groups with one spec are looked up
\* together, full attention first, and one eagle group marks its whole set; when
\* there is a drafter and no eagle group, every set is marked.
SameSpec(c, g, h) ==
    /\ Spec(c, g).kind = Spec(c, h).kind
    /\ Bs(c, g) = Bs(c, h) /\ Spec(c, g).win = Spec(c, h).win

Merged(c, g) == {h \in Group(c) : SameSpec(c, g, h)}

Eagle(c, ids) ==
    \/ \E h \in ids : Spec(c, h).eagle
    \/ c.useEagle /\ \A h \in Group(c) : ~ Spec(c, h).eagle

SpecGroup(c, g) ==
    [kind |-> Spec(c, g).kind, bs |-> Bs(c, g), win |-> Spec(c, g).win,
     ids |-> Merged(c, g), eagle |-> Eagle(c, Merged(c, g))]

AttentionGroups(c) ==
    SetToSortSeq({SpecGroup(c, g) : g \in Group(c)}, LAMBDA x, y :
        IF (x.kind = "full") = (y.kind = "full") THEN Min(x.ids) < Min(y.ids)
        ELSE x.kind = "full")

-----------------------------------------------------------------------------
\* The engine's per-spec finders (single_type_kv_cache_manager), as the
\* coordinator uses them: whether the groups of sg can reuse len tokens.  has
\* is the set of <<group, boundary>> that exist.

Has(has, ids, b) == \A g \in ids : <<g, b>> \in has

\* Chunks a group populates for a prefix of len tokens, counted from 0.
Populated(sg, len) ==
    LET last == Cdiv(len, sg.bs) - 1
    IN  IF sg.kind = "full" THEN 0 .. last
        ELSE IF sg.kind = "mamba" THEN {last} \cap Nat
        ELSE {k \in 0 .. last : (k + 1) * sg.bs > len - (sg.win - 1)}

\* A partial last chunk is covered by a key of a longer prefix in that chunk.
ChunkPresent(c, sg, has, k, len) ==
    IF (k + 1) * sg.bs <= len
    THEN Has(has, sg.ids, (k + 1) * sg.bs)
    ELSE IF sg.kind = "mamba" THEN Has(has, sg.ids, len)
    ELSE \E b \in len .. ((k + 1) * sg.bs) : b % c.hb = 0 /\ Has(has, sg.ids, b)

Reusable(c, sg, has, len) == \A k \in Populated(sg, len) : ChunkPresent(c, sg, has, k, len)

Lengths(c, max) == {n \in 0 .. max : n % Alignment(c) = 0}

\* With drop the finder wants the next block beside what it returns.
DropUnit(c, sg) == IF PartialHashHits(c) /\ sg.bs > c.hb THEN c.hb ELSE sg.bs

LongestHit(c, sg, has, max, drop) ==
    LET next == DropUnit(c, sg)
    IN  IF drop /\ sg.kind # "mamba"
        THEN Max({0} \cup {n \in Lengths(c, max - next) :
                     \A m \in {n, n + next} : Reusable(c, sg, has, m)})
        ELSE Max({n \in Lengths(c, max) : Reusable(c, sg, has, n)})

-----------------------------------------------------------------------------
\* _find_hit_blocks

\* One group of a pass.  sgs: the spec groups; st: the pass's curr_hit_length,
\* what each spec group found (-1 before it has looked) and eagle_verified.
Drops(sg, applyEagle, st, i) == applyEagle /\ sg.eagle /\ i \notin st.verified

ProbeBound(c, sg, max, st, drop) ==
    IF drop /\ sg.kind # "mamba" THEN Min({st.curr + DropUnit(c, sg), max}) ELSE st.curr

Found(st, i, drop, hit) ==
    [curr |-> hit,
     found |-> [st.found EXCEPT ![i] = hit],
     verified |-> IF drop THEN st.verified \cup {i}
                  ELSE IF hit < st.curr THEN {} ELSE st.verified]

Probe(c, sgs, has, max, applyEagle, st, i) ==
    LET sg == sgs[i]
        drop == Drops(sg, applyEagle, st, i)
    IN  IF sg.kind = "full" /\ st.found[i] # -1
        THEN [st EXCEPT !.curr = Min({@, st.found[i]})]
        ELSE Found(st, i, drop, LongestHit(c, sg, has, ProbeBound(c, sg, max, st, drop), drop))

Pass(c, sgs, has, max, applyEagle, st) ==
    FoldLeft(LAMBDA s, i : Probe(c, sgs, has, max, applyEagle, s, i), st, [i \in DOMAIN sgs |-> i])

SimpleHybrid(sgs) == Len(sgs) = 2 /\ sgs[1].kind = "full"

\* Mutation: one pass is enough for any set of groups.
ConvergedMutant(sgs, before, after) == TRUE

Converged(sgs, before, after) == after >= before \/ SimpleHybrid(sgs)

\* The passes end when one of them does not shorten the hit.
Passed(sgs, st, after) ==
    IF st.done THEN st
    ELSE [pass |-> after, done |-> Converged(sgs, st.pass.curr, after.curr)]

IteratePasses(c, sgs, has, max, applyEagle) ==
    LET start == [curr |-> max, found |-> [i \in DOMAIN sgs |-> -1], verified |-> {}]
    IN  FoldLeft(LAMBDA st, i : Passed(sgs, st, Pass(c, sgs, has, max, applyEagle, st.pass)),
                 [pass |-> start, done |-> FALSE], [i \in 1 .. (max + 2) |-> i]).pass.curr

FindHitIn(c, sgs, has, max, applyEagle) ==
    IF Len(sgs) = 1 THEN LongestHit(c, sgs[1], has, max, applyEagle /\ sgs[1].eagle)
    ELSE IteratePasses(c, sgs, has, max, applyEagle)

FindHit(c, has, max, applyEagle) == FindHitIn(c, AttentionGroups(c), has, max, applyEagle)

-----------------------------------------------------------------------------
\* lookup

\* The boundaries of group g that are looked up (fine grained: every hash;
\* otherwise the chunks from which an aligned prefix can be reached).
Candidates(c, g, tokenLen, nHashes) ==
    IF PartialHashHits(c)
    THEN {b \in 1 .. Min({nHashes * c.hb, tokenLen}) : b % c.hb = 0}
    ELSE {b \in 1 .. tokenLen :
             /\ b % Bs(c, g) = 0
             /\ \E n \in Lengths(c, tokenLen) :
                   (b \div Bs(c, g)) - 1 \in Populated(SpecGroup(c, g), n)
                   \/ (SpecGroup(c, g).eagle /\ n < b /\ b <= n + Bs(c, g))}

\* _tail_key_boundaries: the first boundary at or behind the hit that group g
\* has in the hit's chunk; 0 stands for the assertion that one exists.
TailKeyBoundary(c, g, hit, exists, nHashes) ==
    LET chunkEnd == Min({Cdiv(hit, Bs(c, g)) * Bs(c, g), nHashes * c.hb})
        later == {b \in hit .. chunkEnd : b % c.hb = 0 /\ <<g, b>> \in exists}
    IN  IF <<g, hit>> \in exists THEN hit
        ELSE IF PartialHashHits(c) /\ later # {} THEN Min(later) ELSE 0

NoHit == [hit |-> 0, tails |-> <<>>]

\* A hit that covers the whole request is looked for again below its end, so
\* that the last token is computed.
UsableLength(c, numTokens, hit) ==
    IF hit >= numTokens THEN AlignLookupLength(c, numTokens - 1) ELSE hit

UsableHit(c, exists, numTokens, first) ==
    LET usable == UsableLength(c, numTokens, first)
    IN  IF usable = first \/ usable = 0 THEN usable ELSE FindHit(c, exists, usable, TRUE)

Result(c, exists, nHashes, hit) ==
    IF hit = 0 THEN NoHit
    ELSE [hit |-> hit,
          tails |-> [g \in Group(c) |-> TailKeyBoundary(c, g, hit, exists, nHashes)]]

LookupIn(c, exists, numTokens, nHashes) ==
    Result(c, exists, nHashes,
           UsableHit(c, exists, numTokens,
                     FindHit(c, exists, AlignLookupLength(c, numTokens), TRUE)))

Lookup(c, has, numTokens, nHashes) ==
    LET tokenLen == AlignLookupLength(c, numTokens)
    IN  IF nHashes = 0 \/ tokenLen <= 0 THEN NoHit
        ELSE LookupIn(c, {gb \in has : gb[2] \in Candidates(c, gb[1], tokenLen, nHashes)},
                      numTokens, nHashes)

-----------------------------------------------------------------------------
\* The receiving thread: the chunks of a load and the keys they are read from

\* process_tokens: the chunks of group g from maskNum on that rank putRank of
\* putStep handles, as <<start, end>>.
ProcessTokens(c, g, tokenLen, maskNum, putStep, putRank) ==
    {<<k * Bs(c, g), Min({(k + 1) * Bs(c, g), tokenLen})>> :
        k \in {j \in Cdiv(maskNum, Bs(c, g)) .. (Cdiv(tokenLen, Bs(c, g)) - 1) :
                  j % putStep = putRank}}

\* load_mask: every spec applies its own mask to a pool that has everything,
\* and does not drop an eagle block a second time.
LoadMask(c, g, tokenLen) ==
    LET all == {<<h, b>> : h \in Group(c), b \in 0 .. (tokenLen + Bs(c, g))}
    IN  Populated(SpecGroup(c, g), FindHit(c, all, tokenLen, FALSE))

LoadBoundary(g, end, tokenLen, tails) == IF end = tokenLen THEN tails[g] ELSE end

\* What _handle_request reads: a set of <<group, chunk, boundary>>.
LoadPlan(c, result, cachedTokens) ==
    LET maskNum == AlignDown(cachedTokens, c.lcm)
    IN  UNION {{<<g, se[1] \div Bs(c, g), LoadBoundary(g, se[2], result.hit, result.tails)>> :
                   se \in {x \in ProcessTokens(c, g, result.hit, maskNum, 1, 0) :
                              x[1] \div Bs(c, g) \in LoadMask(c, g, result.hit)}} :
               g \in Group(c)}

-----------------------------------------------------------------------------
\* What lookup promises, without the loop: the longest prefix that every group
\* can reuse and that leaves a token to compute.
ReferenceHit(c, has, numTokens) ==
    Max({n \in Lengths(c, numTokens - 1) :
            \A g \in Group(c) : Reusable(c, SpecGroup(c, g), has, n)})
=============================================================================
