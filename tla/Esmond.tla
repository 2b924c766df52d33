------------------------------- MODULE Esmond -------------------------------
(***************************************************************************)
(* The Esmond archiver: what it makes of a result (esmond_util.py) and how *)
(* it stores it (archive of esmond/archive).                               *)
(*                                                                         *)
(* The metadata of a task declares the event types of its test; the points *)
(* of data of each run are put under it.  Several processes archive the    *)
(* results of a task; each asks a cache that they share for the key of the *)
(* metadata, makes the metadata if there is none, and puts the data under  *)
(* the key.  The server may forget metadata, requests and answers may      *)
(* fail, the cache may drop an entry or never take it.                     *)
(*                                                                         *)
(* The server gives the same key to the same metadata; of what they hold,  *)
(* only the event types differ between the archivings of a task, so a key  *)
(* is the set of types it was made with.                                   *)
(*                                                                         *)
(* A test is a record [type, parallel, udp, paris].  A result is a         *)
(* function from the fields it has to their values, as are its parts;      *)
(* None is JSON's null, and Empty what is empty.                           *)
(***************************************************************************)
EXTENDS Integers, SequencesExt

CONSTANTS
    None, Empty,
    Archiver        \* the processes; each archives one result after another

\* A function of one point, and one function on top of another.
Only(x, value) == [y \in {x} |-> value]
f ++ g == [x \in DOMAIN f \cup DOMAIN g |-> IF x \in DOMAIN f THEN f[x] ELSE g[x]]

Mapped == {"latency", "latencybg", "throughput", "disk-to-disk", "trace", "rtt"}

----------------------------------------------------------------------------
(* get_event_types of each kind of record.                                 *)

LatencyTypes == {"failures", "packet-count-sent", "histogram-owdelay", "histogram-ttl",
                 "packet-duplicates", "packet-loss-rate", "packet-count-lost",
                 "packet-reorders", "time-error-estimates"}

RTTTypes == {"failures", "packet-count-sent", "histogram-rtt", "histogram-ttl-reverse",
             "packet-duplicates-bidir", "packet-loss-rate-bidir",
             "packet-count-lost-bidir", "packet-reorders-bidir"}

TraceTypes(test) == {"failures", "packet-trace", "path-mtu"}
    \cup (IF test.paris THEN {"packet-trace-multi"} ELSE {})

\* Mutant: what only parallel streams have is left out.
ThroughputTypesOfOne(test) ==
    {"failures", "throughput", "throughput-subintervals", "packet-retransmits",
     "packet-retransmits-subintervals", "packet-loss-rate", "packet-count-lost",
     "packet-count-sent"}

ThroughputTypes(test) ==
    LET If(cond, types) == IF cond THEN types ELSE {}
        many == test.parallel > 1
    IN  UNION {{"failures", "throughput", "throughput-subintervals"},
               If(many, {"streams-throughput", "streams-throughput-subintervals"}),
               If(test.udp, {"packet-loss-rate", "packet-count-lost", "packet-count-sent"}),
               If(~test.udp, {"packet-retransmits", "packet-retransmits-subintervals"}),
               If(~test.udp /\ many, {"streams-packet-retransmits",
                                      "streams-packet-retransmits-subintervals"})}

TypesOf(class, test) ==
    CASE class \in {"latency", "latencybg"} -> LatencyTypes
      [] class = "rtt" -> RTTTypes
      [] class = "trace" -> TraceTypes(test)
      [] class = "throughput" -> ThroughputTypes(test)
      [] class = "disk-to-disk" -> {"failures", "throughput"}
      [] class = "raw" -> {"pscheduler-raw"}

----------------------------------------------------------------------------
(* The points of data: a function from their event types to their values.  *)

Has(obj, field) == field \in DOMAIN obj /\ obj[field] # None
If(cond, points) == IF cond THEN points ELSE <<>>

\* Field by field, but for empty histograms, which Esmond does not take.
AddMapped(map, result) ==
    LET taken == {f \in DOMAIN map \cap DOMAIN result : result[f] # Empty}
    IN  [t \in {map[f] : f \in taken} |-> result[CHOOSE f \in taken : map[f] = t]]

add_data_if_exists(type, obj, field) == If(Has(obj, field), Only(type, obj[field]))

\* Not without both numbers, and not if nothing was sent.
add_data_rate(type, obj, num, den) ==
    If(Has(obj, num) /\ Has(obj, den) /\ obj[den] # 0, Only(type, <<obj[num], obj[den]>>))

----------------------------------------------------------------------------
(* add_additional_data of each kind of record.                             *)

LatencyMap ==
    Only("histogram-latency", "histogram-owdelay") ++ Only("histogram-ttl", "histogram-ttl")
    ++ Only("packets-sent", "packet-count-sent") ++ Only("packets-lost", "packet-count-lost")
    ++ Only("packets-reordered", "packet-reorders")
    ++ Only("packets-duplicated", "packet-duplicates")
    ++ Only("max-clock-error", "time-error-estimates")

LatencyData(result) ==
    AddMapped(LatencyMap, result)
        ++ add_data_rate("packet-loss-rate", result, "packets-lost", "packets-sent")

\* The field of each record of a sequence, rounded to a unit; None if it has none.
Column(seq, field, unit) ==
    [i \in DOMAIN seq |->
        IF Has(seq[i], field) THEN (seq[i][field] + unit \div 2) \div unit ELSE None]

\* How many of the values are equal to each, but for those left out.
Histogram(values, out) ==
    [v \in ToSet(values) \ out |-> Cardinality({i \in DOMAIN values : values[i] = v})]

RTTMap ==
    Only("sent", "packet-count-sent") ++ Only("lost", "packet-count-lost-bidir")
    ++ Only("duplicates", "packet-duplicates-bidir") ++ Only("reorders", "packet-reorders-bidir")

Roundtrips(result) == IF "roundtrips" \in DOMAIN result THEN result["roundtrips"] ELSE <<>>

\* Times are in microseconds and counted by the hundredth of a millisecond; a TTL of
\* zero is taken for none.
RTTData(result) ==
    LET trips == Roundtrips(result)
        Counted(type, histogram) == If(DOMAIN histogram # {}, Only(type, histogram))
    IN  AddMapped(RTTMap, result)
        ++ Counted("histogram-rtt", Histogram(Column(trips, "rtt", 10), {None}))
        ++ Counted("histogram-ttl-reverse", Histogram(Column(trips, "ttl", 1), {None, 0}))
        ++ add_data_rate("packet-loss-rate-bidir", result, "lost", "sent")

\* The hops of all paths that have an MTU.
Marked(paths) ==
    UNION {{<<p, h>> : h \in {i \in DOMAIN paths[p] : Has(paths[p][i], "mtu")}} : p \in DOMAIN paths}
Mtus(paths) == {paths[x[1]][x[2]]["mtu"] : x \in Marked(paths)}

\* Each hop has its own MTU or the last one that was seen, on an earlier path if
\* need be.
FormattedMtu(paths, p, h) ==
    LET seen == {x \in Marked(paths) : x[1] < p \/ (x[1] = p /\ x[2] <= h)}
        path == Max({x[1] : x \in seen})
        hop == Max({x[2] : x \in {y \in seen : y[1] = path}})
    IN  IF seen = {} THEN None ELSE paths[path][hop]["mtu"]

FormattedPath(paths, p) == [h \in DOMAIN paths[p] |->
    [ttl |-> h, mtu |-> FormattedMtu(paths, p, h),
     success |-> IF Has(paths[p][h], "error") THEN 0 ELSE 1]]

\* packet-trace is the first path that has a hop.
TraceData(test, result) ==
    LET paths == result["paths"]
        all == [p \in DOMAIN paths |-> FormattedPath(paths, p)]
        walked == {p \in DOMAIN paths : paths[p] # <<>>}
    IN  If(walked # {}, Only("packet-trace", all[Min(walked)]))
        ++ If(Marked(paths) # {}, Only("path-mtu", Min(Mtus(paths))))
        ++ If(test.paris /\ all # <<>>, Only("packet-trace-multi", all))

Timed(part) == Has(part, "start") /\ Has(part, "end")

\* The summaries of the intervals, and their streams, which are only looked at if the
\* test asked for several; an interval whose summary has no times is skipped with its
\* streams, one without a summary has only streams.
WholeParts(intervals) ==
    {part \in {i.summary : i \in ToSet(intervals)} : part # Empty /\ Timed(part)}

StreamParts(test, intervals) ==
    LET kept == {i \in ToSet(intervals) : i.summary = Empty \/ Timed(i.summary)}
        parts == UNION {ToSet(i.streams) : i \in kept}
    IN  {part \in parts : test.parallel > 1 /\ Timed(part) /\ Has(part, "stream-id")}

\* A series of one field, of the parts that have it; of streams there is one for each
\* number, be it empty.  (Its value is here what it is of.)
Series(type, field, parts) ==
    LET those == {part \in parts : Has(part, field)}
    IN  If(those # {}, Only(type, those))

StreamSeries(type, field, parts) ==
    If(parts # {}, Only(type, {part \in parts : Has(part, field)}))

IntervalData(test, intervals) ==
    LET whole == WholeParts(intervals)
        streams == StreamParts(test, intervals)
    IN  Series("throughput-subintervals", "throughput-bits", whole)
        ++ StreamSeries("streams-throughput-subintervals", "throughput-bits", streams)
        ++ If(~test.udp,
              Series("packet-retransmits-subintervals", "retransmits", whole)
              ++ Series("packet-rtt-subintervals", "rtt", whole)
              ++ Series("tcp-windowsize-subintervals", "tcp-window-size", whole)
              ++ StreamSeries("streams-packet-retransmits-subintervals", "retransmits", streams)
              ++ StreamSeries("streams-packet-rtt-subintervals", "rtt", streams)
              ++ StreamSeries("streams-tcp-windowsize-subintervals", "tcp-window-size", streams))

SummaryData(test, sum) ==
    add_data_if_exists("throughput", sum, "throughput-bits") ++
    IF test.udp
    THEN add_data_if_exists("packet-count-sent", sum, "sent")
         ++ add_data_if_exists("packet-count-lost", sum, "lost")
         ++ add_data_rate("packet-loss-rate", sum, "lost", "sent")
    ELSE add_data_if_exists("packet-retransmits", sum, "retransmits")
         ++ add_data_if_exists("packet-rtt", sum, "rtt")
         ++ add_data_if_exists("tcp-windowsize", sum, "tcp-window-size")

\* What is zero is left out, but of the throughput.
StreamData(test, streams) ==
    LET parts == ToSet(streams)
        Of(type, field) ==
            Series(type, field, {part \in parts : Has(part, field) => part[field] # 0})
    IN  If(test.parallel > 1 /\ parts # {},
           Only("streams-throughput", parts)
           ++ If(~test.udp, Of("streams-packet-retransmits", "retransmits")
                            ++ Of("streams-packet-rtt", "rtt")
                            ++ Of("streams-tcp-windowsize", "tcp-window-size")))

ThroughputData(test, result) ==
    LET Part(field) == IF Has(result, field) THEN result[field] ELSE <<>>
    IN  SummaryData(test, Part("summary")) ++ StreamData(test, Part("streams"))
        ++ IntervalData(test, Part("intervals"))

----------------------------------------------------------------------------
(* EsmondBaseRecord.__init__, and enable_data_raw if raw is asked for.     *)

AdditionalData(class, test, result) ==
    CASE class \in {"latency", "latencybg"} -> LatencyData(result)
      [] class = "rtt" -> RTTData(result)
      [] class = "trace" -> TraceData(test, result)
      [] class = "throughput" -> ThroughputData(test, result)
      [] class = "disk-to-disk" -> add_data_if_exists("throughput", result, "throughput")
      [] class = "raw" -> Only("pscheduler-raw", result)

Succeeded(result) == Has(result, "succeeded") /\ result["succeeded"]

Declared(class, test, raw) ==
    TypesOf(class, test) \cup {"pscheduler-run-href"}
        \cup (IF raw THEN {"pscheduler-raw"} ELSE {})

Data(class, test, result, raw) ==
    (IF Succeeded(result) THEN AdditionalData(class, test, result) ELSE Only("failures", None))
        ++ Only("pscheduler-run-href", None)
        ++ If(raw, Only("pscheduler-raw", result))

----------------------------------------------------------------------------
(* How often an archiver tries, and how long it waits.  A policy is a      *)
(* sequence of segments [attempts, wait]; the library reads it one way     *)
(* (retry.py), this archiver another (esmond_util.py).                     *)

\* The attempts of the first segments, up to each.
Attempts(policy) ==
    LET sum[n \in 0 .. Len(policy)] == IF n = 0 THEN 0 ELSE sum[n - 1] + policy[n].attempts
    IN  sum

\* RetryPolicy.retry: the attempts are counted down.
retry(policy, attempts) ==
    LET past == {n \in DOMAIN policy : attempts - Attempts(policy)[n] < 0}
    IN  IF past = {} THEN None ELSE policy[Min(past)].wait

\* _handle_storage_error: those of the policy are counted up.
handle_storage_error(policy, attempts) ==
    LET over == {n \in DOMAIN policy : Attempts(policy)[n] > attempts}
    IN  [succeeded |-> FALSE, retry |-> IF over = {} THEN None ELSE policy[Min(over)].wait]

\* What a policy says (retry.py 13-16): the waits between the tries, one by one.
Waits(policy) ==
    LET waits[n \in 0 .. Len(policy)] ==
            IF n = 0 THEN <<>>
            ELSE waits[n - 1] \o [i \in 1 .. policy[n].attempts |-> policy[n].wait]
    IN  waits[Len(policy)]

WaitAfter(policy, attempts) ==
    IF attempts < Len(Waits(policy)) THEN Waits(policy)[attempts + 1] ELSE None

----------------------------------------------------------------------------

VARIABLES
    given,          \* the task's test, result and retry policy, and each one's policy
    mcache,         \* the metadata key in the cache, or None
    declared,       \* the keys the server knows
    stored,         \* what it took last: pairs of the key and an event type
    archiver,       \* what each process is at
    answer,         \* what each has answered last
    forgot          \* whether the server has forgotten a key while any was at work

evars == <<given, mcache, declared, stored, archiver, answer, forgot>>

Idle == [at |-> "idle", key |-> None]

\* The kind of record, and whether the raw result is added to it.
Class(policy, test) ==
    IF policy = "raw-only" THEN "raw"
    ELSE IF test.type \in Mapped THEN test.type
    ELSE IF policy = "mapped-only" THEN "none" ELSE "raw"

WithRaw(policy, test) ==
    Class(policy, test) # "raw"
        /\ (policy = "mapped-and-raw" \/ test.type = "disk-to-disk")

ClassOf(a) == Class(given.policy[a], given.test)
TypesDeclared(a) == Declared(ClassOf(a), given.test, WithRaw(given.policy[a], given.test))
DataOf(a) == Data(ClassOf(a), given.test, given.result, WithRaw(given.policy[a], given.test))

EsmondInit ==
    /\ mcache = None /\ declared = {} /\ stored = {}
    /\ archiver = [a \in Archiver |-> Idle]
    /\ answer = [a \in Archiver |-> None]
    /\ forgot = FALSE

Goto(a, at, key) == archiver' = [archiver EXCEPT ![a] = [at |-> at, key |-> key]]
Return(a, ans) == Goto(a, "idle", None) /\ answer' = [answer EXCEPT ![a] = ans]
Done == [succeeded |-> TRUE, retry |-> None]
Failure == handle_storage_error(given.retry, given.attempts)
Refusal == [succeeded |-> FALSE, retry |-> None]

\* A type of test that is not to be stored raw is refused.
Lookup(a) ==
    /\ archiver[a] = Idle
    /\ IF ClassOf(a) = "none" THEN Return(a, Refusal) /\ UNCHANGED forgot
       ELSE /\ Goto(a, IF mcache = None THEN "post" ELSE "put", mcache)
            /\ forgot' = (forgot /\ \E b \in Archiver : archiver[b] # Idle)
            /\ answer' = [answer EXCEPT ![a] = None]
    /\ UNCHANGED <<given, mcache, declared, stored>>

\* It may fail after the server has made the metadata, or before.
create_metadata(a) ==
    /\ archiver[a].at = "post"
    /\ \/ /\ declared' = declared \cup {TypesDeclared(a)}
          /\ Goto(a, "set", TypesDeclared(a)) /\ UNCHANGED answer
       \/ /\ declared' \in {declared, declared \cup {TypesDeclared(a)}}
          /\ Return(a, Failure)
    /\ UNCHANGED <<given, mcache, stored, forgot>>

SetCache(a) ==
    /\ archiver[a].at = "set"
    /\ mcache' \in {mcache, archiver[a].key}
    /\ Goto(a, "put", archiver[a].key)
    /\ UNCHANGED <<given, declared, stored, answer, forgot>>

\* Mutant: an error returns before the key is dropped.
CreateDataOrReturn(a) ==
    /\ archiver[a].at = "put"
    /\ \/ /\ archiver[a].key \in declared
          /\ stored' = {archiver[a].key} \X DOMAIN DataOf(a)
          /\ Return(a, Done)
       \/ /\ Return(a, Failure)
          /\ UNCHANGED stored
    /\ UNCHANGED <<given, mcache, declared, forgot>>

\* Data that is already there (409) is as good as taken.
create_data(a) ==
    /\ archiver[a].at = "put"
    /\ \/ /\ archiver[a].key \in declared
          /\ stored' = {archiver[a].key} \X DOMAIN DataOf(a)
          /\ Return(a, Done)
       \/ /\ Goto(a, "drop", archiver[a].key)
          /\ UNCHANGED <<stored, answer>>
    /\ UNCHANGED <<given, mcache, declared, forgot>>

\* What handle_storage_error says is not returned.
DropKey(a) ==
    /\ archiver[a].at = "drop"
    /\ mcache' = None
    /\ Return(a, Done)
    /\ UNCHANGED <<given, declared, stored, forgot>>

Expire ==
    /\ mcache # None /\ mcache' = None
    /\ UNCHANGED <<given, declared, stored, archiver, answer, forgot>>

\* Outside the code: the archive is cleaned or set up anew.
Forget ==
    /\ declared # {} /\ declared' = {} /\ forgot' = TRUE
    /\ UNCHANGED <<given, mcache, stored, archiver, answer>>

archive(a) ==
    Lookup(a) \/ create_metadata(a) \/ SetCache(a) \/ create_data(a) \/ DropKey(a)

EsmondNext == Expire \/ Forget \/ \E a \in Archiver : archive(a)

----------------------------------------------------------------------------

\* Put although they were not declared: the round-trip times and window sizes of TCP,
\* and the failure of a test that is stored raw.
Undeclared(a) ==
    IF ClassOf(a) = "raw" THEN {"failures"}
    ELSE IF ClassOf(a) = "throughput" /\ ~given.test.udp
    THEN {"packet-rtt", "packet-rtt-subintervals", "streams-packet-rtt",
          "streams-packet-rtt-subintervals", "tcp-windowsize", "tcp-windowsize-subintervals",
          "streams-tcp-windowsize", "streams-tcp-windowsize-subintervals"}
    ELSE {}

\* But for those, what a process puts under a key was declared with it: under the key
\* it makes itself, and under the one it finds if all that archive for the task, which
\* share it, have the same policy.
TypesFit ==
    \A a \in Archiver :
        /\ ClassOf(a) # "none" => DOMAIN DataOf(a) \subseteq TypesDeclared(a) \cup Undeclared(a)
        /\ (\A b, c \in Archiver : given.policy[b] = given.policy[c]) =>
             \A x \in stored : x[2] \in x[1] \cup Undeclared(a)

\* What may be given: the library's lists are lists, of numbers of attempts, of round
\* trips with their times, or of hops with their MTUs.
IsList(seq) == seq \in Seq(ToSet(seq))

IsResult(test, result) ==
    /\ IsList(Roundtrips(result))
    /\ \A trip \in ToSet(Roundtrips(result)) : Has(trip, "rtt") => trip["rtt"] \in Nat
    /\ test.type = "trace" /\ Succeeded(result) =>
          /\ IsList(result["paths"])
          /\ \A path \in ToSet(result["paths"]) : IsList(path) /\ \A hop \in ToSet(path) :
                Has(hop, "mtu") => hop["mtu"] \in Nat

IsGiven(g) ==
    /\ IsResult(g.test, g.result)
    /\ IsList(g.retry) /\ \A n \in DOMAIN g.retry : g.retry[n].attempts \in Nat
    /\ g.attempts \in Nat

\* How many values a histogram counts.
Counted(histogram) == Cardinality(UNION {{v} \X (1 .. histogram[v]) : v \in DOMAIN histogram})

\* A histogram counts each of the round trips that came back, however their times are
\* rounded, and the MTU of a path is the least of the hops', those that took over the
\* MTU of an earlier hop included.
ValuesFit(data) ==
    /\ "histogram-rtt" \in DOMAIN data =>
          LET trips == Roundtrips(given.result) IN
          Counted(data["histogram-rtt"])
              = Cardinality({i \in DOMAIN trips : Has(trips[i], "rtt")})
    /\ "packet-trace" \in DOMAIN data =>
          \A h \in DOMAIN data["packet-trace"] :
              LET mtu == data["packet-trace"][h].mtu IN
              mtu # None => "path-mtu" \in DOMAIN data /\ data["path-mtu"] <= mtu

\* A failure that is told of is to be tried again after the waits the policy lists, one by one, as
\* the library reads it and as this archiver does (retry.py 13-16).
AnswersFit ==
    LET wait == WaitAfter(given.retry, given.attempts)
    IN  /\ retry(given.retry, given.attempts) = wait
        /\ \A a \in Archiver :
             answer[a] # None /\ ~answer[a].succeeded /\ ClassOf(a) # "none"
                 => answer[a].retry = wait

\* What is archived of a result has its types declared, but for those the code never
\* declares; counts and minima are of all there is; and a failure is answered with the
\* wait of its policy (esmond_util.py 177-193, 285-434).  It says nothing of a PUT that
\* fails, which is answered as a success: what handle_storage_error returns is dropped
\* (archive 289-291), so that succeeded is not "whether or not the attempt ... succeeded"
\* (developers-guide.tex 1109-1110).
DataFits ==
    /\ TypesFit
    /\ \A a \in Archiver : ClassOf(a) # "none" => ValuesFit(DataOf(a))
    /\ AnswersFit

\* A key that the server does not know is dropped by the first that uses it:
\* once all that were at work are done, it is not in the cache, unless the server
\* has forgotten it since they began (archive 285-289).
StaleKeyDropped ==
    (\A a \in Archiver : archiver[a] = Idle) /\ ~forgot => mcache \in declared \cup {None}

=============================================================================
