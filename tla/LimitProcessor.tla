--------------------------- MODULE LimitProcessor ---------------------------
(***************************************************************************)
(* What a limit configuration makes of a proposal: who asks, what classes  *)
(* that puts them in, what the rewriter makes of the task, which           *)
(* applications of limits it passes and what priority it gets              *)
(* (limitprocessor/limitprocessor.py and the sets beside it), with all     *)
(* kinds of identifiers and limits (limitprocessor/identifier/ and         *)
(* limitprocessor/limit/).  Addresses, networks (sets of addresses),       *)
(* strings and specifications of tests are members of small sets; times    *)
(* are numbers, of which Field gives what a calendar shows: hour, minute,  *)
(* and so on, with their ranges.                                           *)
(***************************************************************************)
EXTENDS Integers, Sequences, FiniteSets, SequencesExt, TLC

CONSTANTS
    Unit,           \* the fields a run-schedule limit may look at
    Field,          \* unit -> time -> what the calendar shows
    WrapTo,         \* unit -> the least it shows
    WrapAfter,      \* unit -> the most it shows
    NoLimit,        \* no limit to hand on to the run
    NoTimes,        \* of a task that is not a run yet
    NoClassifier,   \* of an application that always applies
    None,           \* no rewriter, no prioritizer, no task, no priority; no processor
    Inert           \* the processor there is without a file, which limits nothing

ASSUME KindsAssumption ==
    \A u \in Unit : WrapTo[u] \in Nat /\ WrapAfter[u] \in Nat /\ WrapTo[u] < WrapAfter[u]

Overlap(a, b) == a \cap b # {}

----------------------------------------------------------------------------
(* Matchers.  A pattern is the set of the strings it matches.              *)

StringMatches(matcher, string) == (string \in matcher.match) # matcher.invert

----------------------------------------------------------------------------
(* Identifiers.  hints is a function whose domain are the hints given.     *)

IdentifierAlways(data, hints) == TRUE

IdentifierHint(data, hints) ==
    data.hint \in DOMAIN hints /\ StringMatches(data.match, hints[data.hint])

Requested(cidrs, hints) ==
    /\ "requester" \in DOMAIN hints
    /\ \E cidr \in cidrs : Overlap(cidr, {hints["requester"]})

IdentifierIPCIDRList(data, hints) == Requested(data.cidrs, hints)

\* The interfaces are those there were when the file was loaded.
IdentifierLocalIF(data, hints) == Requested({{i.addr} : i \in data.interfaces}, hints)

\* A netmask is a sequence of hexadecimal digits, an address a number of as many.
\* The bits that are set must be the first ones.
DigitBits == (0 :> 0) @@ (8 :> 1) @@ (12 :> 2) @@ (14 :> 3) @@ (15 :> 4)
IsNetmask(mask) ==
    /\ ToSet(mask) \subseteq DOMAIN DigitBits
    /\ \A n \in DOMAIN mask : mask[n] # 15 => \A m \in n + 1 .. Len(mask) : mask[m] = 0
ipv6_netmask_size(mask) == FoldSeq(LAMBDA d, bits : DigitBits[d] + bits, 0, mask)

\* The addresses that agree with one in the bits of the mask.
Network(addr, mask) ==
    LET size == 2 ^ (4 * Len(mask) - ipv6_netmask_size(mask))
        first == (addr \div size) * size
    IN  first .. first + size - 1

IdentifierLocalSubnet(data, hints) ==
    Requested({Network(i.addr, i.mask) : i \in data.interfaces}, hints)

\* The name an address resolves to must resolve back to it, and match with or
\* without its trailing dot.
IdentifierIPReverseDNS(data, hints) ==
    /\ "requester" \in DOMAIN hints
    /\ LET ip == hints["requester"] IN
       /\ ip \in DOMAIN data.reverse
       /\ data.reverse[ip] \in DOMAIN data.forward
       /\ ip \in data.forward[data.reverse[ip]]
       /\ StringMatches(data.match, data.reverse[ip])

\* What the list of bogons answers: "listed", "not listed" or nothing.
IdentifierIPCymruBogon(data, hints) ==
    /\ "requester" \in DOMAIN hints
    /\ LET ip == hints["requester"] IN
       CASE data.answer[ip] = "listed" -> ~\E cidr \in data.exclude : Overlap(cidr, {ip})
         [] data.answer[ip] = "not listed" -> FALSE
         [] data.answer[ip] = "none" -> data.fail_result

\* Anything but a Boolean identifies nobody, an error neither.
IdentifierJQ(data, hints) ==
    /\ "requester" \in DOMAIN hints
    /\ data.script[hints["requester"]] = "true"

identify(id, hints) ==
    CASE id.type = "always" -> IdentifierAlways(id, hints)
      [] id.type = "hint" -> IdentifierHint(id, hints)
      [] id.type = "ip-cidr-list" -> IdentifierIPCIDRList(id, hints)
      [] id.type = "localif" -> IdentifierLocalIF(id, hints)
      [] id.type = "local-subnet" -> IdentifierLocalSubnet(id, hints)
      [] id.type = "ip-reverse-dns" -> IdentifierIPReverseDNS(id, hints)
      [] id.type = "ip-cymru-bogon" -> IdentifierIPCymruBogon(id, hints)
      [] id.type = "jq" -> IdentifierJQ(id, hints)

----------------------------------------------------------------------------
(* Limits.  What one evaluates to: whether it passed, whether there are    *)
(* reasons, whether it threw something instead, and what it hands on.      *)

Pass == [passed |-> TRUE, reasons |-> FALSE, raised |-> FALSE, limit |-> NoLimit]
Fail == [Pass EXCEPT !.passed = FALSE, !.reasons = TRUE]
Raise == [Fail EXCEPT !.raised = TRUE]
Verdict(passed) == IF passed THEN Pass ELSE Fail

LimitPassFail(data, task) == Verdict(data.pass)

LimitTestType(data, task) == Verdict(task.type \in data.types)

\* data.limit: the specifications the test's own limit lets pass; the plug-in
\* that is asked fails for those in data.breaks.
LimitTest(data, task) ==
    IF task.type # data.test THEN Fail
    ELSE IF task.spec \in data.breaks THEN Raise
    ELSE [Verdict(task.spec \in data.limit) EXCEPT !.limit = data.limit]

\* What scripts and servers may tell tasks apart by: the test, and the times of a
\* run, which a task does not have before there is one.
Shown(task) ==
    <<task.type, IF "run_schedule" \in DOMAIN task THEN task.run_schedule ELSE NoTimes>>

\* A script may give a Boolean, or a string that says why not; it may look for
\* times, and fail when there are none.
LimitJQ(data, task) == Verdict(data.script[Shown(task)] = "true")

\* What a server answers, or what went wrong before it was asked.  A refusal
\* without a message comes without a reason.
LimitURLFetch(data, task) ==
    LET reply == data.replies[Shown(task)]
        failed == [Fail EXCEPT !.passed = data.fail_result]
    IN  CASE reply = "transform failed" -> failed
          [] reply # "transform failed" /\ data.success_only ->
                 IF reply \in {"approved", "refused", "unexplained", "no object", "no JSON"} THEN Pass
                 ELSE IF reply = "not found" THEN Fail ELSE failed
          [] OTHER ->
                 CASE reply = "approved" -> Pass
                   [] reply = "refused" -> Fail
                   [] reply = "unexplained" -> [Fail EXCEPT !.reasons = FALSE]
                   [] reply = "no object" -> Fail
                   [] OTHER -> failed

\* Whether the time of a run lies in that of the limit, or touches it.
LimitRunDateRange(data, task) ==
    LET start == task.run_schedule.start
        end == task.run_schedule.end
        subset == start >= data.start /\ end < data.end
    IN  Verdict(IF data.overlap
                THEN \/ start <= data.start /\ data.start < end
                     \/ start <= data.end /\ data.end < end
                     \/ subset
                ELSE subset)

\* The numbers from start to end.  When they wrap, those up to wrap_to are in,
\* and not those from there to end.
wrappable_range(start, end, wrap_after, wrap_to) ==
    IF end >= start THEN start .. end ELSE start .. wrap_after \cup 0 .. wrap_to

wrappable_range_overlaps(start, end, test, wrap_after, wrap_to, overlap) ==
    LET ranges == wrappable_range(start, end, wrap_after, wrap_to) IN
    IF overlap THEN Overlap(test, ranges) ELSE ranges \subseteq test

\* What a limit gives for a field is a set of ranges, of which a number is one.
\* The bounds must be such as the field may show, a weekday also 0; the form of a
\* range of weeks is nowhere defined, so that nothing given for it is valid.
runschedule_data_is_valid(data) ==
    \A u \in DOMAIN data.matches : \A r \in data.matches[u] :
        /\ u # "week"
        /\ {r.lower, r.upper} \subseteq
              (IF u = "weekday" THEN 0 ELSE WrapTo[u]) .. WrapAfter[u]

Flattened(ranges) == UNION {r.lower .. r.upper : r \in ranges}

\* Every field the limit names must match; data.matches is a function whose
\* domain are these fields.
LimitRunSchedule(data, task) ==
    Verdict(\A u \in DOMAIN data.matches :
                wrappable_range_overlaps(Field[u][task.run_schedule.start],
                                         Field[u][task.run_schedule.end],
                                         Flattened(data.matches[u]), WrapAfter[u], WrapTo[u], data.overlap))

checks_schedule(limit) == limit.type \in {"run-daterange", "run-schedule"}

evaluate(limit, task) ==
    CASE limit.type = "jq" -> LimitJQ(limit, task)
      [] limit.type = "pass-fail" -> LimitPassFail(limit, task)
      [] limit.type = "run-daterange" -> LimitRunDateRange(limit, task)
      [] limit.type = "run-schedule" -> LimitRunSchedule(limit, task)
      [] limit.type = "test" -> LimitTest(limit, task)
      [] limit.type = "test-type" -> LimitTestType(limit, task)
      [] limit.type = "url-fetch" -> LimitURLFetch(limit, task)

----------------------------------------------------------------------------
(* Who asks.                                                               *)

\* How many of a number must be met.
HowMany == {"none", "one", "any", "all"}

require_tests(require, met, total) ==
    CASE require = "none" -> met = 0
      [] require = "one" -> met = 1
      [] require = "any" -> met > 0
      [] require = "all" -> met = total

\* An identifier that is inverted identifies nobody.
identities(config, hints) ==
    {name \in DOMAIN config.identifiers :
        LET id == config.identifiers[name] IN identify(id, hints) /\ ~id.invert}

classifications(config, identified) ==
    {name \in DOMAIN config.classifiers :
        LET c == config.classifiers[name] IN
        require_tests(c.require, Cardinality(c.identifiers \cap identified),
                      Cardinality(c.identifiers))}

----------------------------------------------------------------------------
(* Loading.                                                                *)

\* What is named must have been defined, before where it is cloned, and once.
Valid(file) ==
    /\ \A c \in DOMAIN file.classifiers :
          file.classifiers[c].identifiers \subseteq DOMAIN file.identifiers
    /\ \A i, j \in DOMAIN file.limits : i # j => file.limits[i].name # file.limits[j].name
    /\ \A i \in DOMAIN file.limits :
          LET l == file.limits[i] IN
          /\ l.clone # None => \E j \in 1 .. i - 1 : file.limits[j].name = l.clone
          /\ l.clone = None /\ l.data.type = "run-daterange" => l.data.end >= l.data.start
          /\ l.clone = None /\ l.data.type = "run-schedule" => runschedule_data_is_valid(l.data)
    /\ \A n \in DOMAIN file.identifiers :
          LET id == file.identifiers[n] IN
          id.type = "local-subnet" => \A i \in id.interfaces : IsNetmask(i.mask)
    /\ \A app \in ToSet(file.applications) :
          /\ app.classifier \in DOMAIN file.classifiers \cup {NoClassifier}
          /\ \A group \in ToSet(app.apply) : \A l \in ToSet(group.limits) :
                \E i \in DOMAIN file.limits : file.limits[i].name = l

\* What one says, and of the rest what the other does.
Over(one, other) ==
    [f \in DOMAIN one \cup DOMAIN other |-> IF f \in DOMAIN one THEN one[f] ELSE other[f]]

\* A limit that is a clone takes what it does not say itself from the other, but
\* for whether it is inverted, which it is not even if it says so.
Limits(fodder) ==
    LET limit[i \in DOMAIN fodder] ==
            LET l == fodder[i] IN
            IF l.clone = None THEN [data |-> l.data, invert |-> l.invert]
            ELSE LET source == limit[CHOOSE j \in 1 .. i - 1 : fodder[j].name = l.clone]
                 IN  [data |-> Over(l.data, source.data), invert |-> FALSE]
        at(name) == CHOOSE i \in DOMAIN fodder : fodder[i].name = name
    IN  [name \in {fodder[i].name : i \in DOMAIN fodder} |-> limit[at(name)]]

\* The processor made of a limit file, None if the file cannot be used.
Load(file) == IF Valid(file) THEN [file EXCEPT !.limits = Limits(@)] ELSE None

----------------------------------------------------------------------------
(* Applications.                                                           *)

\* What an inverted limit that threw nothing says is turned around.
Turned(limit, evaluated) ==
    IF evaluated.raised \/ ~limit.invert THEN evaluated
    ELSE [evaluated EXCEPT !.passed = ~@, !.reasons = @ \/ evaluated.passed]

\* Mutant: what is not checked now fails.
LimitSetCheckStrict(config, task, name, check_schedule) ==
    LET limit == config.limits[name] IN
    IF ~check_schedule /\ checks_schedule(limit.data) THEN Fail
    ELSE Turned(limit, evaluate(limit.data, task))

\* A limit that looks at times passes, inverted or not, when there are none.
LimitSetCheck(config, task, name, check_schedule) ==
    LET limit == config.limits[name] IN
    IF ~check_schedule /\ checks_schedule(limit.data) THEN Pass
    ELSE Turned(limit, evaluate(limit.data, task))

\* A group is checked limit by limit, and so many must pass.  Something thrown
\* by one, or a failure that has no reasons to print, throws all of it.  What
\* the limits that passed hand on is kept.
GroupVerdict(group, results) ==
    [raised |-> \E r \in ToSet(results) : r.raised \/ ~(r.passed \/ r.reasons),
     passed |-> require_tests(group.require,
                              Cardinality({i \in DOMAIN results : results[i].passed}),
                              Len(results)),
     limits |-> LET kept == SelectSeq(results, LAMBDA r : r.passed /\ r.limit # NoLimit)
                IN  [i \in DOMAIN kept |-> kept[i].limit]]

check_group(config, task, group, check_schedule) ==
    GroupVerdict(group, [i \in DOMAIN group.limits |->
        LimitSetCheck(config, task, group.limits[i], check_schedule)])

\* Groups are checked in turn until one fails.
ApplicationVerdict(app, groups) ==
    LET failed == {g \in DOMAIN groups : ~groups[g].passed}
        last == IF failed = {} THEN Len(groups) ELSE Min(failed)
    IN  [raised |-> \E g \in 1 .. last : groups[g].raised,
         passed |-> (failed = {}) # app.invert,
         stop |-> app.stop_on_failure,
         limits |-> FlattenSeq([g \in DOMAIN groups |->
                        IF g < last \/ failed = {} THEN groups[g].limits ELSE <<>>])]

check_application(config, task, app, check_schedule) ==
    ApplicationVerdict(app, [g \in DOMAIN app.apply |->
        check_group(config, task, app.apply[g], check_schedule)])

\* The places of the applications that there are for somebody of these classes.
Applying(config, classes) ==
    {a \in DOMAIN config.applications :
        config.applications[a].classifier \in classes \cup {NoClassifier}}

ResultsOf(config, task, applying, check_schedule) ==
    [a \in applying |-> check_application(config, task, config.applications[a], check_schedule)]

\* Where the loop over them ends early: at one that throws, or that fails and is to
\* stop it.
Ends(results) ==
    {a \in DOMAIN results : results[a].raised \/ (~results[a].passed /\ results[a].stop)}

\* They are checked in turn up to the first that ends the loop.  One that passes does
\* not; of those that pass at least one is needed, and what they hand on is kept, by
\* their places.
SetVerdict(results) ==
    LET ends == Ends(results)
        passing == {a \in DOMAIN results : results[a].passed}
    IN  IF ends # {} THEN [raised |-> results[Min(ends)].raised, passed |-> FALSE, limits |-> <<>>]
        ELSE [raised |-> FALSE, passed |-> passing # {},
              limits |-> [a \in passing |-> results[a].limits]]

ApplicationSetCheck(config, task, classes, check_schedule) ==
    SetVerdict(ResultsOf(config, task, Applying(config, classes), check_schedule))

----------------------------------------------------------------------------
(* Processing.                                                             *)

Outcome(outcome, limits, task, priority) ==
    [outcome |-> outcome, limits |-> limits, task |-> task, priority |-> priority]
Refused == Outcome("refused", <<>>, None, None)
Raised == Outcome("raised", <<>>, None, None)

\* What the applications are shown when a rewriter has made the second of the
\* first: proposal still holds the first.
Judged(original, rewritten) == original

\* The classes decide what the rewriter and the prioritizer do, either of which
\* may throw (None) and thereby refuses the proposal.  A task that was
\* rewritten is returned whether the rewriter says it changed it or not.
Answer(check, task, priority) ==
    IF check.raised THEN Raised
    ELSE IF ~check.passed THEN Outcome("refused", <<>>, task, 0)
    ELSE IF priority = None THEN Refused
    ELSE Outcome("passed", IF <<>> \in ToSet(check.limits) THEN <<>> ELSE check.limits,
                 task, priority)

process(config, task, hints, rewrite, prioritize) ==
    IF config = Inert THEN Outcome("passed", <<>>, None, None)
    ELSE LET identified == identities(config, hints)
             classes == classifications(config, identified)
             rewriting == rewrite /\ config.rewriter # None
             new_spec == IF rewriting THEN config.rewriter[task.spec] ELSE task.spec
             rewritten == [task EXCEPT !.spec = new_spec]
         IN  IF identified = {} \/ classes = {} \/ new_spec = None THEN Refused
             ELSE Answer(ApplicationSetCheck(config, Judged(task, rewritten), classes,
                                             "run_schedule" \in DOMAIN task),
                         IF rewriting THEN rewritten ELSE None,
                         IF prioritize /\ config.prioritizer # None
                         THEN config.prioritizer[classes] ELSE 0)

=============================================================================
