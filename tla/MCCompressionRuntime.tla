------------------------ MODULE MCCompressionRuntime -----------------------
(***************************************************************************)
(* The configurations under which both forks of the compression runtime    *)
(* are exercised: pipelines with and without each stage, head and layer    *)
(* splits, the three axes, one and two cache groups, physical blocks       *)
(* smaller than logical ones, and the two backends on either side.         *)
(***************************************************************************)
EXTENDS CompressionRuntime

MCSign(l, h, d) == IF (l + h * d + d) % 2 = 0 THEN 1 ELSE -1

\* Two layers of two heads; the scores make one of them change its head order.
Both(v) == [kv \in KVPart |-> v]
Specs(size, block) ==
    <<[index |-> 1, heads |-> 2, size |-> Both(size), block |-> block],
      [index |-> 0, heads |-> 2, size |-> Both(size), block |-> block]>>
Base == [fork |-> "mooncake", rawAggregate |-> FALSE, stages |-> {},
         pipeline |-> <<"transformer", "quantizer", "codec">>, split |-> "head",
         axis |-> [kv \in KVPart |-> IF kv = 0 THEN "channel" ELSE "token"],
         levels |-> Both([low |-> 3, high |-> 15]),
         slots |-> 2, chunk |-> 2, specs |-> Specs(2, 2), scores |-> << <<4, 1>>, <<2, 3>> >>, ratio |-> 50,
         tpRank |-> 0, tpSize |-> 1, layers |-> 2, groups |-> [l \in 0 .. 1 |-> 0], bpl |-> 1, hnd |-> FALSE,
         pids |-> [g \in 0 .. 0 |-> <<2, 0, 3>>], dids |-> [g \in 0 .. 0 |-> <<1, 3, 0>>],
         tokens |-> 5, blocks |-> 4, sides |-> <<"py", "py">>]

\* Logical blocks of two physical ones, heads before tokens.
Hnd == [Base EXCEPT !.hnd = TRUE, !.bpl = 2, !.specs = Specs(2, 4), !.tokens = 11, !.chunk = 3,
                    !.pipeline = <<"transformer", "quantizer">>]
TwoGroups == [Base EXCEPT !.groups = [l \in 0 .. 1 |-> l], !.pipeline = <<"quantizer">>,
                          !.pids = [g \in 0 .. 1 |-> IF g = 0 THEN <<2, 0>> ELSE <<1, 3>>],
                          !.dids = [g \in 0 .. 1 |-> IF g = 0 THEN <<1, 3>> ELSE <<0, 2>>]]

V1Of(r) == [r EXCEPT !.fork = "v1", !.hnd = TRUE]
MooncakeConfigs ==
    {Base, TwoGroups, Hnd,
     [Base EXCEPT !.sides = <<"cpp", "py">>],
     [Base EXCEPT !.sides = <<"py", "cpp">>, !.pipeline = <<"transformer">>],
     [Hnd EXCEPT !.sides = <<"cpp", "cpp">>],
     [Hnd EXCEPT !.sides = <<"py", "cpp">>, !.tokens = 9],
     [Hnd EXCEPT !.specs = Specs(4, 2), !.bpl = 1, !.tokens = 6, !.split = "layer"],
     [Base EXCEPT !.rawAggregate = TRUE],
     [TwoGroups EXCEPT !.rawAggregate = TRUE, !.hnd = TRUE],
     [Base EXCEPT !.axis = Both("tensor"), !.ratio = 75, !.pipeline = <<"quantizer">>],
     [Base EXCEPT !.pipeline = <<"codec">>, !.tokens = 1, !.pids = [g \in 0 .. 0 |-> <<2>>],
                  !.dids = [g \in 0 .. 0 |-> <<3>>]],
     [Base EXCEPT !.pipeline = <<"codec">>, !.sides = <<"cpp", "py">>],
     [Base EXCEPT !.tpRank = 1, !.tpSize = 2, !.scores = << <<4, 1, 6, 2>>, <<2, 3, 3, 5>> >>,
                  !.pids = [g \in 0 .. 0 |-> <<2, 0>>], !.dids = [g \in 0 .. 0 |-> <<1, 3>>]]}

MCConfigs ==
    MooncakeConfigs \cup {V1Of(r) : r \in MooncakeConfigs} \cup
    {[V1Of(Base) EXCEPT !.specs = Specs(4, 2), !.sides = <<"cpp", "py">>, !.tokens = 4,
                        !.pids = [g \in 0 .. 0 |-> <<2, 0>>], !.dids = [g \in 0 .. 0 |-> <<1, 3>>]],
     [V1Of(Base) EXCEPT !.specs = Specs(8, 1), !.sides = <<"py", "cpp">>, !.tokens = 2, !.chunk = 1,
                        !.pids = [g \in 0 .. 0 |-> <<2, 0>>], !.dids = [g \in 0 .. 0 |-> <<1, 3>>]]}
=============================================================================
