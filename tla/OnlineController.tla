-------------------------- MODULE OnlineController --------------------------
(***************************************************************************)
(* kvserve_v1/compression/controller, the controller mode of the adapter    *)
(* and the connector's use of it: which compression profile a request gets, *)
(* and what the observed latencies teach.  A run of the controller is a     *)
(* sequence of events, each applied to the state                            *)
(*   bandit    key -> [n, delta]     (BanditStateManager.state)             *)
(*   contexts  request -> [at, ctx]  (the adapter's _last_contexts)         *)
(*   clock, and the four counters of the controller.                        *)
(* An event is a save of a request or the passing of time.  The connector   *)
(* decides, sends and feeds the latency back in one go; nothing is fed back *)
(* when the decision is not to compress or the compression gives nothing,   *)
(* and the context of that decision stays behind.                           *)
(*                                                                          *)
(* Latencies and residuals are integers in units of 1 / Grain ms, alpha is  *)
(* one half, and the volume is a multiple of every speed and bandwidth, so  *)
(* that all quotients are exact.  A bandwidth interval [lo, hi] of x = 1/B  *)
(* is given by the bandwidths at its ends: lo < B <= hi.                    *)
(***************************************************************************)
EXTENDS Integers, Sequences, SequencesExt, FiniteSets

CONSTANTS
    Grain,    \* a power of two, at least 2 ^ (number of observations)
    Ttl       \* _CONTEXT_TTL_S

NoProfile == "none"

-----------------------------------------------------------------------------
\* Profile library: lib is [buckets, profiles], profiles by id

Abs(x) == IF x < 0 THEN - x ELSE x
Least(a, b) == IF a < b THEN a ELSE b
FirstIn(s, P(_)) == s[CHOOSE i \in DOMAIN s : P(s[i]) /\ \A j \in 1 .. (i - 1) : ~ P(s[j])]

Distance(b, acc) == Least(Abs(b.acc[1] - acc), Abs(b.acc[2] - acc))
FindBucket(lib, acc) ==
    LET holds(b) == b.acc[1] <= acc /\ acc < b.acc[2]
        closest(b) == \A i \in DOMAIN lib.buckets : Distance(b, acc) <= Distance(lib.buckets[i], acc)
    IN  IF \E i \in DOMAIN lib.buckets : holds(lib.buckets[i]) THEN FirstIn(lib.buckets, holds)
        ELSE FirstIn(lib.buckets, closest)

FindInterval(bucket, B) ==
    LET holds(v) == v.lo < B /\ B <= v.hi
    IN  IF \E i \in DOMAIN bucket.intervals : holds(bucket.intervals[i])
        THEN FirstIn(bucket.intervals, holds) ELSE Last(bucket.intervals)

\* Ids the library does not know are left out.
GetCandidateProfiles(lib, interval) ==
    SelectSeq(interval.candidates, LAMBDA p : p \in DOMAIN lib.profiles)

-----------------------------------------------------------------------------
\* Analytical model, of a profile [cr, S]

PredictLatency(p, V, B, model) == (model + V \div p.S + (V * p.cr) \div B) * Grain
CheckBenefit(p, B) == B * p.cr < (p.cr - 1) * p.S

-----------------------------------------------------------------------------
\* Bandit state

GetStats(bandit, key) == IF key \in DOMAIN bandit THEN bandit[key] ELSE [n |-> 0, delta |-> 0]

BanditUpdate(bandit, key, observed) ==
    LET old == GetStats(bandit, key)
    IN  [k \in DOMAIN bandit \cup {key} |->
            IF k = key THEN [n |-> old.n + 1, delta |-> (old.delta + observed) \div 2] ELSE bandit[k]]

-----------------------------------------------------------------------------
\* select_profile.  pick = 0 exploits; pick > 0 explores that prediction.

Eff(lib, svc, bandit, key, p) ==
    PredictLatency(lib.profiles[p], svc.V, svc.B, svc.model) + GetStats(bandit, Append(key, p)).delta
Best(allowed, eff) ==
    allowed[CHOOSE i \in DOMAIN allowed : \A j \in DOMAIN allowed :
               IF j < i THEN eff[i] < eff[j] ELSE eff[i] <= eff[j]]

\* key is the arm without its profile.
Decision(lib, svc, bandit, pick, key, allowed) ==
    LET chosen == IF pick = 0
                  THEN Best(allowed, [i \in DOMAIN allowed |-> Eff(lib, svc, bandit, key, allowed[i])])
                  ELSE allowed[((pick - 1) % Len(allowed)) + 1]
    IN  IF allowed = <<>> THEN [profile |-> NoProfile]
        ELSE [profile |-> chosen, key |-> Append(key, chosen),
              hat |-> PredictLatency(lib.profiles[chosen], svc.V, svc.B, svc.model)]

SelectIn(lib, svc, bandit, pick, bucket, interval) ==
    LET key == <<bucket.id, interval.id>>
    IN  Decision(lib, svc, bandit, pick, key,
                 SelectSeq(GetCandidateProfiles(lib, interval),
                           LAMBDA p : /\ CheckBenefit(lib.profiles[p], svc.B)
                                      /\ Eff(lib, svc, bandit, key, p) <= svc.slo * Grain))

SelectProfile(lib, svc, bandit, pick) ==
    LET bucket == FindBucket(lib, svc.acc)
    IN  SelectIn(lib, svc, bandit, pick, bucket, FindInterval(bucket, svc.B))

Initial == [bandit |-> <<>>, contexts |-> <<>>, clock |-> 0,
            total |-> 0, none |-> 0, explore |-> 0, exploit |-> 0]

\* _evict_stale_contexts.
Stale(st, r) == st.contexts[r].at < st.clock - Ttl
EvictStaleContexts(st) ==
    [st EXCEPT !.contexts = [r \in {q \in DOMAIN @ : ~ Stale(st, q)} |-> @[r]]]

\* _compress_controller up to the choice of the manager
Counted(st, ctx, pick) ==
    IF ctx.profile = NoProfile THEN [st EXCEPT !.total = @ + 1, !.none = @ + 1]
    ELSE IF pick = 0 THEN [st EXCEPT !.total = @ + 1, !.exploit = @ + 1]
    ELSE [st EXCEPT !.total = @ + 1, !.explore = @ + 1]
\* Mutation: a decision keeps the context its request already has.
RememberedMutant(st, r, ctx) ==
    IF r \in DOMAIN st.contexts THEN st
    ELSE [st EXCEPT !.contexts = [q \in DOMAIN @ \cup {r} |->
                                     IF q = r THEN [at |-> st.clock, ctx |-> ctx] ELSE @[q]]]
Remembered(st, r, ctx) ==
    [st EXCEPT !.contexts = [q \in DOMAIN @ \cup {r} |->
                                IF q = r THEN [at |-> st.clock, ctx |-> ctx] ELSE @[q]]]
Chosen(st, r, pick, ctx) == EvictStaleContexts(Remembered(Counted(st, ctx, pick), r, ctx))
CompressController(lib, svc, st, r, pick) ==
    Chosen(st, r, pick, SelectProfile(lib, svc, st.bandit, pick))

\* update_controller.
Without(contexts, r) == [q \in DOMAIN contexts \ {r} |-> contexts[q]]
UpdateController(st, r, observed) ==
    IF r \notin DOMAIN st.contexts THEN st
    ELSE LET ctx == st.contexts[r].ctx
         IN  [st EXCEPT !.contexts = Without(@, r),
                        !.bandit = IF ctx.profile = NoProfile THEN @
                                   ELSE BanditUpdate(@, ctx.key, observed * Grain - ctx.hat)]

\* A save of the connector: ev.seen is the latency it observes, or Nothing when
\* the manager gives no payload and the blocks go out raw.
Nothing == -1
Save(lib, svc, st, ev) ==
    LET chosen == CompressController(lib, svc, st, ev.r, ev.pick)
    IN  IF ev.seen = Nothing \/ chosen.contexts[ev.r].ctx.profile = NoProfile THEN chosen
        ELSE UpdateController(chosen, ev.r, ev.seen)

Apply(lib, svc, st, ev) ==
    IF ev.op = "save" THEN Save(lib, svc, st, ev) ELSE [st EXCEPT !.clock = @ + ev.n]

\* The states of the controller along a sequence of events.
Trace(lib, svc, events) ==
    FoldLeft(LAMBDA sts, ev : Append(sts, Apply(lib, svc, Last(sts), ev)), <<Initial>>, events)

-----------------------------------------------------------------------------
\* What a sequence of events should have taught, from the events alone.

ClockAt(events, i) ==
    FoldLeft(LAMBDA n, ev : IF ev.op = "tick" THEN n + ev.n ELSE n, 0, SubSeq(events, 1, i))

\* The decision of event i, if it is a save.
DecisionAt(lib, svc, events, sts, i) ==
    IF events[i].op = "save" THEN SelectProfile(lib, svc, sts[i].bandit, events[i].pick)
    ELSE [profile |-> NoProfile]
Observed(lib, svc, events, sts, i) ==
    /\ DecisionAt(lib, svc, events, sts, i).profile # NoProfile
    /\ events[i].seen # Nothing

\* The keys that were chosen by observed decisions, and their residuals.
Lessons(lib, svc, events, sts) ==
    LET ctx(i) == DecisionAt(lib, svc, events, sts, i)
        taught == SelectSeq([i \in DOMAIN events |-> i],
                            LAMBDA i : Observed(lib, svc, events, sts, i))
    IN  [k \in DOMAIN taught |-> [key |-> ctx(taught[k]).key,
                                  residual |-> events[taught[k]].seen * Grain - ctx(taught[k]).hat]]

\* The requests whose latest save was not observed, and no save came when that
\* one was older than the limit.
Pending(lib, svc, events, sts) ==
    {events[i].r : i \in {j \in DOMAIN events :
        /\ events[j].op = "save" /\ ~ Observed(lib, svc, events, sts, j)
        /\ \A k \in (j + 1) .. Len(events) : events[k].op = "save" =>
              events[k].r # events[j].r /\ ClockAt(events, k) - ClockAt(events, j) <= Ttl}}

\* The weighted average with alpha one half: the latest counts half, the one
\* before a quarter, and so on.
Average(rs) ==
    FoldLeft(+, 0, [i \in DOMAIN rs |-> rs[i] \div 2 ^ (Len(rs) - i + 1)])

\* Every observed latency is charged once, to the profile its own save chose,
\* whatever earlier saves of the request left behind; the residual of a profile is
\* the weighted average of its own observations; every decision is counted once;
\* the contexts that stay are those of unobserved saves, and they do not pile up:
\* one that is older than the limit goes with the next save.
Learned(st, ls) ==
    /\ DOMAIN st.bandit = {ls[k].key : k \in DOMAIN ls}
    /\ \A key \in DOMAIN st.bandit : \A own \in {SelectSeq(ls, LAMBDA e : e.key = key)} :
          /\ st.bandit[key].n = Len(own)
          /\ st.bandit[key].delta = Average([k \in DOMAIN own |-> own[k].residual])
    /\ st.total = st.none + st.explore + st.exploit
ControllerLearns(lib, svc, events) ==
    \A sts \in {Trace(lib, svc, events)} :
        /\ Learned(Last(sts), Lessons(lib, svc, events, sts))
        /\ DOMAIN Last(sts).contexts = Pending(lib, svc, events, sts)
        /\ Last(sts).total = Len(SelectSeq(events, LAMBDA ev : ev.op = "save"))
=============================================================================
