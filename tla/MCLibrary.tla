----------------------------- MODULE MCLibrary -----------------------------
(* Small instances of the library's parts for TLC, and the inputs of what has *)
(* no steps.                                                                  *)
EXTENDS Library, SequencesExt, TLC

MCRight == [c \in Candidate |-> ToString(c)]

Test(type, parallel, udp, paris) ==
    [type |-> type, parallel |-> parallel, udp |-> udp, paris |-> paris]
Ok == "succeeded" :> TRUE
Optional(field, values) == {<<>>} \cup {field :> v : v \in values}

----------------------------------------------------------------------------
(* What the Esmond archiver is given.                                       *)

PolicyNames == {"prefer-mapped", "mapped-and-raw", "mapped-only", "raw-only"}
Segment(n, w) == [attempts |-> n, wait |-> w]

\* Results of no account, to be archived by processes that need not agree.
MCArchived ==
    {[test |-> x[1], result |-> x[2], retry |-> <<Segment(1, 2)>>, attempts |-> n,
      policy |-> p] :
        x \in {<<Test("disk-to-disk", 1, FALSE, FALSE), Ok @@ "throughput" :> 7>>,
               <<Test("dns", 1, FALSE, FALSE), "succeeded" :> FALSE>>,
               <<Test("latency", 1, FALSE, FALSE), <<>> >>},
        n \in {0, 1}, p \in [Archiver -> PolicyNames]}

LatencyCases ==
    {<<Test(type, 1, FALSE, FALSE), Ok @@ h @@ s @@ l>> :
        type \in {"latency", "latencybg"}, h \in Optional("histogram-latency", {Empty, 1}),
        s \in Optional("packets-sent", {0, 2}), l \in Optional("packets-lost", {None, 0, 1})}

\* In microseconds; the first two are one in the histogram.
Trip == {"rtt" :> 12, "rtt" :> 13 @@ "ttl" :> 0, "ttl" :> 9, "rtt" :> 26 @@ "ttl" :> 9}
RTTCases ==
    {<<Test("rtt", 1, FALSE, FALSE),
       Ok @@ "sent" :> Len(t) @@ "lost" :> 0 @@ "reorders" :> 0 @@ "roundtrips" :> t>> :
        t \in SeqOf(Trip, 2)}

Hop == {<<>>, "mtu" :> 9, "mtu" :> 5, "error" :> "e" @@ "mtu" :> None}
TraceCases ==
    {<<Test("trace", 1, FALSE, paris), Ok @@ "paths" :> paths>> :
        paris \in BOOLEAN, paths \in SeqOf(SeqOf(Hop, 2), 2)}

Part(i, n) ==
    "start" :> n @@ "end" :> n + 1 @@ "stream-id" :> i @@ "throughput-bits" :> n
        @@ "retransmits" :> i @@ "rtt" :> 1 @@ "tcp-window-size" :> 9
Interval ==
    {[summary |-> Empty, streams |-> <<>>],
     [summary |-> Part(0, 1), streams |-> <<Part(6, 1), Part(5, 1)>>],
     [summary |-> "start" :> None, streams |-> <<Part(5, 2), Part(6, 2)>>]}
Sums ==
    {<<>>, "throughput-bits" :> 1 @@ "retransmits" :> 0 @@ "rtt" :> 1 @@ "sent" :> 0
               @@ "lost" :> 0 @@ "tcp-window-size" :> 9,
     "throughput-bits" :> None @@ "sent" :> 2 @@ "lost" :> 1}
ThroughputCases ==
    {<<Test("throughput", parallel, udp, FALSE),
       Ok @@ "summary" :> sum @@ "streams" :> streams @@ "intervals" :> ivs>> :
        parallel \in {1, 2}, udp \in BOOLEAN, sum \in Sums,
        streams \in {<<>>, <<Part(6, 0), Part(5, 0)>>}, ivs \in SeqOf(Interval, 2)}

Policies == SeqOf({Segment(n, w) : n \in {1, 2}, w \in {5, 6}}, 2)

MCRecorded ==
    LET Given(x, retry, n) ==
            [test |-> x[1], result |-> x[2], retry |-> retry, attempts |-> n,
             policy |-> [a \in Archiver |-> "prefer-mapped"]]
    IN  {Given(x, <<>>, 0) : x \in LatencyCases \cup RTTCases \cup TraceCases
                                       \cup ThroughputCases}
        \cup {Given(<<Test("latency", 1, FALSE, FALSE), <<>> >>, r, n) :
                r \in Policies, n \in 0 .. 5}

----------------------------------------------------------------------------
(* The output of powstream.                                                 *)

Packet(n, delay, no, ttl, error) ==
    [seq |-> n, delay |-> delay, lost |-> no, ttl |-> ttl, error |-> error]

\* Up to three packets in any order, some of them again, and up to six of two delays.
Packets ==
    SeqOf({Packet(n, n, FALSE, 1, None) : n \in {0, 1, 5}}
          \cup {Packet(1, 0, TRUE, 1, None), Packet(2, -4, FALSE, 2, 3), Packet(2, 4, FALSE, 1, Garbled)}, 3)
    \cup {[i \in 1 .. n |-> Packet(i, f[i], FALSE, i % 2, i)] : n \in 4 .. 6, f \in [1 .. 6 -> {2, 9}]}

PacketCases == [of : {"packets"}, packets : Packets, raw : BOOLEAN]

----------------------------------------------------------------------------
(* Limits on parameters.                                                    *)

Host == {[v \in {4, 6} |-> IF v = 4 THEN a ELSE b] : a \in {None, "a", "b"}, b \in {None, "c", "d"}}
Block == [cidr : {{"a", "c"}, {"a", "b"}}, invert : BOOLEAN]

EndpointCases ==
    [of : {"endpoints"}, limit : UNION {[fields -> Block] : fields \in
        {{"source"}, {"dest"}, {"endpoint"}, {"source", "dest"}}},
     source : Host \cup {None}, dest : Host, version : {4, 6, None}]

ValueCases ==
    [of : {"value"}, limit : [of : {<<1, 3>>, <<2, 2>>, <<3, 1>>}, invert : BOOLEAN],
     value : 0 .. 4, upper : 0 .. 4]

----------------------------------------------------------------------------
(* Scripts of limit files, of up to three statements.                       *)

Says(does, with) == [does |-> does, with |-> with]
ScriptCases ==
    [of : {"script"}, task : {[type |-> "rtt", spec |-> "s"]},
     script : SeqOf({Says("import", None), Says("def", None), Says("change", None),
                     Says("change", "why"), Says("set", 3), Says("adjust", 2), Says("adjust", -1),
                     Says("type", "dns"), Says("spec", "t"), Says("del", None),
                     Says("reject", None), Says("empty", None)}, 3)]

\* What two servers answer.
ReplyCases == [of : {"replies"}, replies : [{"h1", "h2"} -> Http!Replies]]

MCAsked ==
    PacketCases \cup EndpointCases \cup ValueCases \cup ScriptCases \cup ReplyCases
=============================================================================
