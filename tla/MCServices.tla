----------------------------- MODULE MCServices -----------------------------
(* Services on a small instance: two joins, a command and an automatic     *)
(* update, two downloads of one model, one preview with two closes.        *)
EXTENDS Services, TLC

MCSiblings ==
    {[base |-> "q4", shard |-> 1, kind |-> "gguf"], [base |-> "q4", shard |-> 2, kind |-> "gguf"],
     [base |-> "q8", shard |-> 1, kind |-> "gguf"], [base |-> "q4", shard |-> 3, kind |-> "projector"]}

\* The second shard grows with the second revision, or is listed without a size in one
\* of the two.
MCListings ==
    {sizes \in [Revisions -> [Shards -> ShardSizes]] :
        \E first, second \in ShardSizes :
            /\ <<first, second>> \in {<<1, 2>>, <<1, 0>>, <<0, 1>>}
            /\ sizes = [r \in Revisions |-> [s \in Shards |-> IF s = 1 THEN 1 ELSE IF r = 1 THEN first ELSE second]]}

\* Nothing tells the starts of a server apart, nor its closes.
MCSymmetry == Permutations(PvStarts) \cup Permutations(PvClosers)
=============================================================================
