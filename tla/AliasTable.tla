----------------------------- MODULE AliasTable -----------------------------
(***************************************************************************)
(* Weighted distributions (crates/obfs4/src/common/probdist.rs): Vose's    *)
(* alias tables.  The weights are natural numbers, so that scaled[i],      *)
(* which the code divides by the sum, is kept multiplied by it: the code's *)
(* 1.0 is Unit here and every comparison is exact.                         *)
(***************************************************************************)
EXTENDS Integers, SequencesExt

Total(weights) == FoldLeft(LAMBDA a, b : a + b, 0, weights)

(* gen_values: how many of the values 0..(max - min) are kept, at most     *)
(* limit of them.                                                          *)
ValueCounts(min, max, limit) ==
    LET n == max - min
    IN  1..(IF n < 1 THEN 1 ELSE IF n > limit THEN limit ELSE n)

Fits(scaled, unit, i) == scaled[i] < unit

(* Mutant: what a small entry leaves over is not taken from the large one. *)
PairKeepsDonor(t, unit) ==
    LET l == Head(t.small) g == Head(t.large)
    IN  [t EXCEPT !.prob[l] = t.scaled[l], !.alias[l] = g,
                  !.small = Tail(@), !.large = Append(Tail(@), g)]

(* One turn of the loop of gen_tables: l is topped up from g.              *)
Pair(t, unit) ==
    LET l == Head(t.small) g == Head(t.large)
        left == [t.scaled EXCEPT ![g] = @ + t.scaled[l] - unit]
    IN  [scaled |-> left,
         prob |-> [t.prob EXCEPT ![l] = t.scaled[l]],
         alias |-> [t.alias EXCEPT ![l] = g],
         small |-> Tail(t.small) \o (IF Fits(left, unit, g) THEN <<g>> ELSE <<>>),
         large |-> Tail(t.large) \o (IF Fits(left, unit, g) THEN <<>> ELSE <<g>>)]

(* InnerWeightedDist::gen_tables; what is left in either queue is certain. *)
GenTables(weights) ==
    LET n == Len(weights)
        unit == Total(weights)
        scaled == [i \in 1..n |-> weights[i] * n]
        ids == [i \in 1..n |-> i]
        turn[k \in 0..n] ==
            IF k = 0 THEN [scaled |-> scaled,
                           prob |-> [i \in 1..n |-> 0], alias |-> [i \in 1..n |-> 1],
                           small |-> SelectSeq(ids, LAMBDA i : Fits(scaled, unit, i)),
                           large |-> SelectSeq(ids, LAMBDA i : ~Fits(scaled, unit, i))]
            ELSE LET t == turn[k - 1]
                 IN  IF t.small = <<>> \/ t.large = <<>> THEN t ELSE Pair(t, unit)
        end == turn[n]
        sure == Range(end.small) \union Range(end.large)
    IN  [prob |-> [i \in 1..n |-> IF i \in sure THEN unit ELSE end.prob[i]],
         alias |-> end.alias]

(* WeightedDist::sample, over all rolls of the die and all coins: how      *)
(* often entry i comes up, in n * Total(weights) equally likely draws.     *)
Drawn(weights, i) ==
    LET t == GenTables(weights)
        unit == Total(weights)
        from == [j \in DOMAIN weights |->
                    (IF j = i THEN t.prob[j] ELSE 0)
                    + (IF t.alias[j] = i THEN unit - t.prob[j] ELSE 0)]
    IN  Total(from)
=============================================================================
