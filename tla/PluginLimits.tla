----------------------------- MODULE PluginLimits -----------------------------
(***************************************************************************)
(* The limits on test parameters, as the test plug-ins check them with the *)
(* library's help (limits.py).  A limit is a function from the fields it   *)
(* limits to what it says of each, a specification one from the fields it  *)
(* has to their values.  A host is a function from the IP versions to the  *)
(* address it resolves to, or None.                                        *)
(***************************************************************************)
EXTENDS Integers, SequencesExt

CONSTANT None

Verdict(passes) == IF passes THEN "passes" ELSE "fails"

----------------------------------------------------------------------------
(* Addresses.  A limit on them is [cidr, invert], cidr the addresses in it. *)

\* IPCIDRMatcher.contains.
Allows(limit, ip) == (ip \in limit.cidr) # limit.invert

\* A name that does not resolve raises: the message for it names an argument that
\* is not there.
check_ip_limit(limit, host, ip, versions) ==
    LET ips == IF ip # None THEN {ip} ELSE {host[v] : v \in versions} \ {None}
    IN  IF host = None THEN "passes"
        ELSE IF ips = {} THEN "raises"
        ELSE Verdict(\A i \in ips : Allows(limit, i))

Both(src, dest, v) == src[v] # None /\ dest[v] # None

\* Mutant: what the specification says of the version is not looked at.
NormalizeAnyVersion(src, dest, version) ==
    IF Both(src, dest, 6) THEN 6 ELSE IF Both(src, dest, 4) THEN 4 ELSE None

\* ip_normalize_version: the version both are to have, of those they have.
ip_normalize_version(src, dest, version) ==
    IF version # None THEN IF Both(src, dest, version) THEN version ELSE None
    ELSE IF Both(src, dest, 6) THEN 6
    ELSE IF Both(src, dest, 4) THEN 4 ELSE None

\* All of the limits' verdicts; the first to raise ends it.
All(verdicts) ==
    IF "raises" \in verdicts THEN "raises" ELSE Verdict("fails" \notin verdicts)

\* With a source, both ends have addresses of one version; without one, the
\* destination is tried in all versions.  An endpoint limit asks for either end.
check_endpoint_limits(limit, source, dest, version) ==
    LET common == IF source = None THEN None ELSE ip_normalize_version(source, dest, version)
        Address(host) == IF common = None THEN None ELSE host[common]
        versions == IF source # None THEN {common}
                    ELSE IF version # None THEN {version} ELSE {4, 6}
        Check(field, host) == check_ip_limit(limit[field], host, Address(host), versions)
        OfSource == IF source = None THEN "fails" ELSE Check("source", source)
        OfEither == IF source # None /\ Check("endpoint", source) = "passes" THEN "passes"
                    ELSE Check("endpoint", dest)
    IN  IF DOMAIN limit = {} THEN "passes"
        ELSE IF source # None /\ common = None THEN "fails"
        ELSE All({CASE field = "source" -> OfSource
                    [] field = "dest" -> Check("dest", dest)
                    [] field = "endpoint" -> OfEither : field \in DOMAIN limit})

----------------------------------------------------------------------------
(* Other values.  A limit is [of, invert], of what is allowed; on a string  *)
(* it is [match], which is.                                                 *)

\* NumericRange, DurationRange: bounds included.
InRange(of, x) == of[1] <= x /\ x <= of[2]

\* EnumMatcher: every element of a list, or the one there is.
InEnum(of, values) == ToSet(values) \subseteq of

check_numeric_limit(limit, x) == Verdict(InRange(limit.of, x) # limit.invert)

check_duration_limit(limit, x) == Verdict(InRange(limit.of, x) # limit.invert)

\* Either bound by itself, so that a range around an inverted one passes.
check_numeric_range_limit(limit, range) ==
    Verdict(\A n \in {1, 2} : InRange(limit.of, range[n]) # limit.invert)

check_numeric_list_limit(limit, x) == Verdict((x \in limit.of) # limit.invert)

check_boolean_limit(limit, b) == Verdict(b = limit.of)

\* Inverted, a list passes as soon as one element is not in the enumeration.
check_enum_limit(limit, values) == Verdict(InEnum(limit.of, values) # limit.invert)

\* StringMatcher.matches.
Matches(match, x) == (x \in match.of) # match.invert

\* The limit itself is not inverted (jsonval.py 1196-1205); if it were it would fail
\* always.
check_string_limit(limit, x) ==
    LET contains == Matches(limit.match, x)
        invert == "invert" \in DOMAIN limit /\ limit["invert"]
    IN  Verdict(contains /\ ~(invert /\ contains))

\* What a field does not have, or no limit names, is not limited; but a Boolean
\* that is not there is false.
check(kind, limit, spec, field) ==
    IF field \notin DOMAIN limit THEN "passes"
    ELSE IF field \notin DOMAIN spec
    THEN IF kind = "boolean" THEN check_boolean_limit(limit[field], FALSE) ELSE "passes"
    ELSE CASE kind = "numeric" -> check_numeric_limit(limit[field], spec[field])
           [] kind = "duration" -> check_duration_limit(limit[field], spec[field])
           [] kind = "range" -> check_numeric_range_limit(limit[field], spec[field])
           [] kind = "list" -> check_numeric_list_limit(limit[field], spec[field])
           [] kind = "boolean" -> check_boolean_limit(limit[field], spec[field])
           [] kind = "enum" -> check_enum_limit(limit[field], spec[field])
           [] kind = "string" -> check_string_limit(limit[field], spec[field])

----------------------------------------------------------------------------

\* What the ends of a test may be: hosts with an address of a version or none of it.
IsHost(host) == host # None /\ host = [v \in {4, 6} |-> host[v]]
AreEnds(limit, source, dest, version) ==
    /\ IsHost(dest) /\ (source = None \/ IsHost(source)) /\ version \in {4, 6, None}
    /\ DOMAIN limit \subseteq {"source", "dest", "endpoint"}

\* The pairs of addresses a test may use: of one version, which the specification
\* may name; the version that is preferred if it names a source.
Pairs(source, dest, version) ==
    LET named == IF version = None THEN {4, 6} ELSE {version}
        usable == {v \in named : dest[v] # None /\ (source # None => source[v] # None)}
        used == IF source # None /\ usable # {} THEN {Max(usable)} ELSE usable
    IN  {<<IF source = None THEN None ELSE source[v], dest[v]>> : v \in used}

\* A test passes the limits on its ends if, and only if, they hold of whatever
\* addresses it may use, and it names a source if that is limited.
EndpointsHold(limit, source, dest, version) ==
    LET Of(field, ip) == ip # None /\ Allows(limit[field], ip)
    IN  /\ Pairs(source, dest, version) # {}
        /\ \A p \in Pairs(source, dest, version) :
             /\ "source" \in DOMAIN limit => Of("source", p[1])
             /\ "dest" \in DOMAIN limit => Of("dest", p[2])
             /\ "endpoint" \in DOMAIN limit => Of("endpoint", p[1]) \/ Of("endpoint", p[2])

EndpointsAgree(limit, source, dest, version) ==
    DOMAIN limit = {} \/
    (check_endpoint_limits(limit, source, dest, version) = "passes") =
        EndpointsHold(limit, source, dest, version)

\* The same limit as a set of values, and what is said of one value however a test
\* states it: by itself, as a range of one, as an enumeration of one, as a string.
Listed(limit) == [of |-> limit.of[1] .. limit.of[2], invert |-> limit.invert]

Verdicts(limit, x) ==
    {check("numeric", [f |-> limit], [f |-> x], "f"),
     check("duration", [f |-> limit], [f |-> x], "f"),
     check("range", [f |-> limit], [f |-> <<x, x>>], "f"),
     check("list", [f |-> Listed(limit)], [f |-> x], "f"),
     check("enum", [f |-> Listed(limit)], [f |-> <<x>>], "f"),
     check("string", [f |-> [match |-> Listed(limit)]], [f |-> x], "f")}

\* They agree; a range passes if the limit holds of all that is in it, or if it goes
\* around what an inverted limit excludes; and a limit does not bind where there is
\* none, nor a field that is left out.
ValuesAgree(limit, x, y) ==
    /\ \E verdict \in {"passes", "fails"} : Verdicts(limit, x) = {verdict}
    /\ x <= y =>
         LET passes == check("range", [f |-> limit], [f |-> <<x, y>>], "f") = "passes"
             around == limit.invert /\ x < limit.of[1] /\ limit.of[2] < y
         IN  passes <=> around \/ \A v \in x .. y : InRange(limit.of, v) # limit.invert
    /\ \A kind \in {"numeric", "range", "list", "enum", "string", "boolean"} :
         /\ check(kind, <<>>, [f |-> x], "f") = "passes"
         /\ kind # "boolean" => check(kind, [f |-> Listed(limit)], <<>>, "f") = "passes"

=============================================================================
