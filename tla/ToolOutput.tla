----------------------------- MODULE ToolOutput -----------------------------
(***************************************************************************)
(* What is made of the output of powstream, packet by packet, and of the   *)
(* histogram of their delays (powstream_utils.py, latency_utils.py).       *)
(* A packet is [seq, delay, lost, ttl, error]: error is what the clock     *)
(* errors of both ends add up to, None if they have none, and Garbled if   *)
(* one is not a number.  Delays are counted in thirds of a bucket, so that *)
(* none is halfway between two.                                            *)
(***************************************************************************)
EXTENDS Integers, SequencesExt

CONSTANTS None, Garbled

\* The elements at some of the positions, in their order.
Chosen(seq, positions) ==
    LET chosen[n \in 0 .. Len(seq)] ==
            IF n = 0 THEN <<>>
            ELSE IF n \in positions THEN Append(chosen[n - 1], seq[n]) ELSE chosen[n - 1]
    IN  chosen[Len(seq)]

\* Numbers in their order.
Ascending(S) ==
    [n \in 1 .. Cardinality(S) |-> CHOOSE x \in S : Cardinality({y \in S : y <= x}) = n]

\* How many of the values are equal to each, and how many there are of a histogram.
Counts(values) ==
    [v \in ToSet(values) |-> Cardinality({i \in DOMAIN values : values[i] = v})]
Counted(histogram) == Cardinality(UNION {{v} \X (1 .. histogram[v]) : v \in DOMAIN histogram})

----------------------------------------------------------------------------
(* parse_raw_owamp_output.                                                 *)

\* Where the numbers of the packets seen are looked up; none is ever put there.
packets_seen == {}

IsDuplicate(p) == p.seq \in packets_seen

Received(packets) ==
    Chosen(packets, {i \in DOMAIN packets : ~IsDuplicate(packets[i]) /\ ~packets[i].lost})

\* To the nearest bucket.
Bucket(delay) == (delay + 1) \div 3

\* Mutant: what is over is cut off.
BucketBelow(delay) == delay \div 3

Delays(packets) == LET here == Received(packets) IN [i \in DOMAIN here |-> here[i].delay]
Buckets(delays) == [i \in DOMAIN delays |-> Bucket(delays[i])]

\* If the raw packets are asked for, the errors of all are read, or else of those
\* received; one that is no number raises.  Packets are out of order by the one
\* received before.
Parsed(packets, raw) ==
    LET here == Received(packets)
        duplicated == Cardinality({i \in DOMAIN packets : IsDuplicate(packets[i])})
        errors == {p.error : p \in ToSet(here)} \ {None}
    IN  IF \E p \in ToSet(IF raw THEN packets ELSE here) : p.error = Garbled
        THEN [raises |-> TRUE]
        ELSE [raises |-> FALSE,
              sent |-> Len(packets) - duplicated, received |-> Len(here),
              duplicated |-> duplicated,
              reordered |-> Cardinality({i \in 2 .. Len(here) : here[i].seq < here[i - 1].seq}),
              lost |-> Len(packets) - duplicated - Len(here),
              latency |-> Counts(Buckets(Delays(packets))),
              ttl |-> Counts([i \in DOMAIN here |-> here[i].ttl]),
              max_error |-> IF errors = {} THEN None ELSE Max(errors)]

----------------------------------------------------------------------------
(* Histogram.get_stats.  Quantiles are a hundred times what the code gives. *)

\* Percentile: where its value is in a sample, as a hundred times n.
Place(p, size) == p * (size + 1)
K(p, size) == Place(p, size) \div 100

\* Mutant: the next bucket is not waited for.
FindAtOnce(p, size, value, count, x) == 100 * x

\* findvalue: the value, or None if the next bucket is needed, with which the one
\* that was kept is interpolated.
findvalue(p, size, value, count, x) ==
    IF value # None THEN 100 * value + (Place(p, size) % 100) * (x - value)
    ELSE IF \/ K(p, size) = 0
            \/ count >= size /\ K(p, size) >= size
            \/ Place(p, size) < 100 * count
    THEN 100 * x
    ELSE None

quantiles == <<25, 50, 75, 95>>

\* One look at bucket x for the next of the quantiles; one that is not found keeps
\* the rest from being looked for.
Look(st, size, x) ==
    LET p == quantiles[Len(st.stats) + 1]
        found == findvalue(p, size, st.value, st.count, x)
    IN  IF st.stop \/ Len(st.stats) = Len(quantiles) THEN st
        ELSE IF st.count < K(p, size) THEN [st EXCEPT !.stop = TRUE]
        ELSE IF found = None THEN [st EXCEPT !.stop = TRUE, !.value = x]
        ELSE [st EXCEPT !.value = None, !.stats = Append(@, found)]

\* At bucket x of so many there may be all four.
AtBucket(st, size, many, x) ==
    LET Next(s) == Look(s, size, x)
    IN  Next(Next(Next(Next([st EXCEPT !.count = @ + many, !.stop = FALSE]))))

\* The statistics of the quantiles, in their order, bucket by bucket.
Quantiles(hist) ==
    LET buckets == Ascending(DOMAIN hist)
        after[n \in 0 .. Len(buckets)] ==
            IF n = 0 THEN [count |-> 0, value |-> None, stop |-> FALSE, stats |-> <<>>]
            ELSE AtBucket(after[n - 1], Counted(hist), hist[buckets[n]], buckets[n])
    IN  after[Len(buckets)].stats

get_stats(hist) ==
    IF DOMAIN hist = {} THEN <<>>
    ELSE [mode |-> {x \in DOMAIN hist : \A y \in DOMAIN hist : hist[y] <= hist[x]},
          minimum |-> Min(DOMAIN hist), maximum |-> Max(DOMAIN hist),
          quantiles |-> Quantiles(hist)]

----------------------------------------------------------------------------

IsPackets(packets) ==
    packets \in Seq(ToSet(packets)) /\ \A p \in ToSet(packets) : p.delay \in Int

\* The kth of some values by their size.
Ranked(values, k) ==
    CHOOSE x \in ToSet(values) :
        /\ Cardinality({i \in DOMAIN values : values[i] < x}) < k
        /\ k <= Cardinality({i \in DOMAIN values : values[i] <= x})

\* NIST's definition (latency_utils.py 30-31), over the sample itself.
NIST(p, sample) ==
    LET size == Len(sample)
        k == K(p, size)
    IN  IF k = 0 THEN 100 * Ranked(sample, 1)
        ELSE IF k >= size THEN 100 * Ranked(sample, size)
        ELSE 100 * Ranked(sample, k)
                + (Place(p, size) % 100) * (Ranked(sample, k + 1) - Ranked(sample, k))

\* Every line is counted once, as a duplicate, as lost or as received, and each packet
\* received in either histogram; and although no delay is kept but to its bucket, no
\* quantile is farther than half a bucket from that of the delays themselves.  A packet
\* that comes twice counts twice, and never as a duplicate, although packets-duplicated is
\* "the number of duplicate packets seen" (the latency test's validate.py 229): what has
\* been seen is looked up but never noted (powstream_utils.py 171, 207).
PacketsAgree(packets, raw) ==
    LET parsed == Parsed(packets, raw)
        stats == get_stats(parsed.latency).quantiles
        Off(q) == 3 * stats[q] - NIST(quantiles[q], Delays(packets))
    IN  ~parsed.raises =>
        /\ parsed.duplicated + parsed.lost + parsed.received = Len(packets)
        /\ Counted(parsed.latency) = parsed.received
        /\ Counted(parsed.ttl) = parsed.received
        /\ parsed.received # 0 => \A q \in DOMAIN quantiles : Off(q) \in -100 .. 100

=============================================================================
