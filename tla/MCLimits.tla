------------------------------ MODULE MCLimits ------------------------------
(***************************************************************************)
(* Values of the constants of the limits for TLC.  Addresses are 1 to 3;   *)
(* the calendar has days of three hours and years of three days; a file    *)
(* has one of each kind of limit in turn, a second limit, and a clone.     *)
(***************************************************************************)
EXTENDS LimitFile

CONSTANTS here, there, dotless

MCUnit == {"hour", "day"}
MCField == [hour |-> [t \in 0 .. 8 |-> t % 3], day |-> [t \in 0 .. 8 |-> 1 + t \div 3]]
MCWrapTo == [hour |-> 0, day |-> 1]
MCWrapAfter == [hour |-> 2, day |-> 3]

MCHints == {[requester |-> 1], [requester |-> 2, server |-> here]}
MCTasks == [type : {"rtt"}, spec : {"small", "big"}] \cup [type : {"trace"}, spec : {"odd"}]
MCSpans == {[start |-> 0, end |-> 1], [start |-> 2, end |-> 3], [start |-> 3, end |-> 5]}

id == [type |-> "always", invert |-> FALSE]
MCIdentifiers ==
    [all |-> id,
     nobody |-> [id EXCEPT !.invert = TRUE],
     asked |-> [type |-> "hint", invert |-> FALSE, hint |-> "server",
                match |-> [match |-> {here}, invert |-> FALSE]],
     near |-> [type |-> "local-subnet", invert |-> FALSE, interfaces |-> {[addr |-> 3, mask |-> <<14>>]}],
     own |-> [type |-> "localif", invert |-> FALSE, interfaces |-> {[addr |-> 1]}],
     known |-> [type |-> "ip-reverse-dns", invert |-> FALSE,
                reverse |-> 1 :> here @@ 2 :> there, forward |-> here :> {1, 2} @@ there :> {3},
                match |-> [match |-> {dotless}, invert |-> TRUE]],
     bogus |-> [type |-> "ip-cymru-bogon", invert |-> FALSE, answer |-> <<"listed", "none", "not listed">>,
                exclude |-> {{1}}, fail_result |-> TRUE],
     script |-> [type |-> "jq", invert |-> FALSE, script |-> <<"true", "error">>]]

MCClassifiers ==
    [friends |-> [identifiers |-> {"own", "known", "script"}, require |-> "all"],
     others |-> [identifiers |-> {"asked", "near", "bogus", "nobody"}, require |-> "any"],
     strangers |-> [identifiers |-> {"own", "known"}, require |-> "none"]]

Numbers(a, b) == [lower |-> a, upper |-> b]

Asked == {"rtt", "trace"} \X (MCSpans \cup {NoTimes})

Kinds ==
    {[type |-> "pass-fail", pass |-> p] : p \in BOOLEAN}
    \cup {[type |-> "test-type", types |-> {"rtt"}],
          [type |-> "test", test |-> "rtt", limit |-> {"small"}, breaks |-> {}],
          [type |-> "test", test |-> "rtt", limit |-> {"small"}, breaks |-> {"big"}],
          [type |-> "jq", script |-> [q \in Asked |-> IF q[1] = "rtt" THEN "true" ELSE "reason"]],
          [type |-> "jq", script |-> [q \in Asked |-> IF q[2] = NoTimes THEN "error" ELSE "true"]]}
    \cup {[type |-> "url-fetch", replies |-> [q \in Asked |-> IF q[1] = "rtt" THEN r ELSE "approved"],
           success_only |-> s, fail_result |-> f] :
              r \in {"refused", "unexplained", "no answer"},
              s \in BOOLEAN, f \in {TRUE}}
    \cup {[type |-> "run-daterange", start |-> 2, end |-> 4, overlap |-> o] : o \in BOOLEAN}
    \cup {[type |-> "run-schedule", matches |-> m, overlap |-> o] :
              m \in {[hour |-> {Numbers(0, 1)}], [hour |-> {Numbers(2, 2)}, day |-> {Numbers(1, 1), Numbers(2, 2)}],
                    [hour |-> {Numbers(0, 3)}]}, o \in BOOLEAN}

Second ==
    {[type |-> "test", test |-> "rtt", limit |-> {"big", "small"}, breaks |-> {}],
     [type |-> "run-schedule", matches |-> [hour |-> {Numbers(0, 1)}], overlap |-> TRUE]}

MCLimits ==
    {<<[name |-> "l1", clone |-> None, data |-> k, invert |-> i],
       [name |-> "l2", clone |-> None, data |-> l, invert |-> FALSE],
       [name |-> "l3", clone |-> "l2", data |-> [overlap |-> FALSE], invert |-> i]>> :
        k \in Kinds, l \in Second, i \in BOOLEAN}

App(c, groups, stop, invert) ==
    [classifier |-> c, apply |-> groups, stop_on_failure |-> stop, invert |-> invert]
Group(require, limits) == [require |-> require, limits |-> limits]

MCApplications ==
    {<<App("friends", <<Group("any", <<"l1", "l2">>)>>, FALSE, FALSE),
       App(NoClassifier, <<Group("all", <<"l3">>), Group("any", <<"l1">>)>>, s, i)>> : s, i \in BOOLEAN}
    \cup {<<App("others", <<Group(r, <<"l1", "l2">>)>>, TRUE, FALSE),
            App("strangers", <<Group("all", <<"l2">>)>>, FALSE, FALSE)>> : r \in {"none", "one", "all"}}
    \cup {<<App("strangers", <<Group("all", <<"l4">>)>>, FALSE, FALSE)>>}

Extra ==
    {[rewriter |-> None, prioritizer |-> [c \in SUBSET DOMAIN MCClassifiers |-> IF "others" \in c THEN None ELSE 5]],
     [rewriter |-> [small |-> "big", big |-> "small", odd |-> None], prioritizer |-> None]}

MCFiles ==
    {[identifiers |-> MCIdentifiers, classifiers |-> MCClassifiers, limits |-> l,
      applications |-> a, rewriter |-> e.rewriter, prioritizer |-> e.prioritizer] :
        l \in MCLimits, a \in MCApplications, e \in Extra}

\* The file in use changes between one that can be loaded and one that cannot;
\* its URL serves a list.
MCFileOf == [strict |-> CHOOSE f \in MCFiles : Valid(f), broken |-> CHOOSE f \in MCFiles : ~Valid(f)]
MCServed == {{1, 2}}
=============================================================================
