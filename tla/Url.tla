-------------------------------- MODULE Url --------------------------------
(***************************************************************************)
(* Requests to HTTP servers (psurl.py), and pinging pScheduler with them   *)
(* (api.py).  The threads of a process POST and PUT at once; a caller      *)
(* that brings no headers gets the function's default, which is one        *)
(* dictionary per function for the life of the process, and is written     *)
(* before it is read.                                                      *)
(***************************************************************************)
EXTENDS Integers

CONSTANTS
    None,
    Sender,         \* the threads
    Status          \* the statuses that servers answer; 0 if it is not HTTP

Forms == {"object", "text"}
Bodies == {"string", "json", "junk", "bytes"}   \* a JSON string, other JSON, text, no text
Replies == {None} \cup [status : Status, body : Bodies]     \* None: an error of PycURL's

VARIABLES
    gave,           \* sender -> the Content-Type in the headers it brings, None if there is none
    shared,         \* op -> the default headers
    own,            \* sender -> the headers it brings itself
    sending         \* sender -> the request whose headers are made, not yet read

uvars == <<gave, shared, own, sending>>

Op == {"post", "put"}
Token(s) == [h \in {"Authorization"} |-> s]

Typed(content_type, headers) ==
    [h \in DOMAIN headers \cup {"Content-Type"} |->
        IF h = "Content-Type" THEN content_type ELSE headers[h]]

UrlInit ==
    /\ gave \in [Sender -> {None, "given"}]
    /\ shared = [op \in Op |-> <<>>]
    /\ own = [s \in Sender |-> IF gave[s] = None THEN Token(s) ELSE Typed(gave[s], Token(s))]
    /\ sending = [s \in Sender |-> None]

----------------------------------------------------------------------------
(* What comes of a request.                                                 *)

Raised == [raised |-> TRUE]
Heard(status, body) == [status |-> status, body |-> body]

\* PycURLRunner.__call__: what is no text is not caught.
PycURLRunner(reply, json, throw) ==
    LET status == IF reply = None THEN 400 ELSE IF reply.status = 0 THEN 200 ELSE reply.status
        body == IF reply = None THEN "junk" ELSE reply.body
    IN  IF \/ body = "bytes"
           \/ status \notin 200 .. 299 /\ throw
           \/ status \in 200 .. 299 /\ json /\ body \notin {"string", "json"}
        THEN Raised
        ELSE Heard(status, body)

\* It goes through the list whatever the answers are.
url_delete_list(replies) ==
    IF \E i \in DOMAIN replies : PycURLRunner(replies[i], FALSE, FALSE) = Raised THEN Raised
    ELSE [i \in DOMAIN replies |-> PycURLRunner(replies[i], FALSE, FALSE)]

\* A server is up if it answers with a JSON string.
api_ping(reply) ==
    LET heard == PycURLRunner(reply, FALSE, FALSE)
    IN  IF heard = Raised THEN Raised
        ELSE [up |-> heard.status = 200 /\ heard.body = "string"]

\* One that raises raises all.
api_ping_list(replies) ==
    IF \E host \in DOMAIN replies : api_ping(replies[host]) = Raised THEN Raised
    ELSE [host \in DOMAIN replies |-> api_ping(replies[host]).up]

api_ping_all_up(replies) ==
    LET states == api_ping_list(replies) IN
    IF states = Raised THEN Raised ELSE [up |-> \A host \in DOMAIN states : states[host]]

\* Any answer will do here.
api_has_pscheduler(resolved, reply) ==
    IF ~resolved THEN [up |-> FALSE]
    ELSE LET heard == PycURLRunner(reply, FALSE, FALSE)
         IN  IF heard = Raised THEN Raised ELSE [up |-> heard.status = 200]

----------------------------------------------------------------------------
(* POST and PUT.                                                           *)

TypeOf(f) == IF f = "object" THEN "application/json" ELSE "text/plain"

\* Mutant: a type that the headers have is left alone.
ContentTypeUnlessGiven(content_type, headers, f) ==
    IF content_type = None /\ "Content-Type" \notin DOMAIN headers THEN TypeOf(f) ELSE content_type

\* content_type is what a caller gives as an argument: none does.
content_type_data(content_type, headers, f) ==
    IF content_type = None \/ "Content-Type" \notin DOMAIN headers THEN TypeOf(f) ELSE content_type

Headers(s, op, brings) == IF brings THEN own[s] ELSE shared[op]
Shares(s, op) == IF sending[s] = None THEN FALSE ELSE sending[s].op = op /\ ~sending[s].brings

\* The type goes into the headers, in the place of any that is there.  The forms
\* of a request are its own and those of all that have shared its headers since.
Prepare(s, op, brings, f) ==
    /\ sending[s] = None
    /\ LET typed == Typed(content_type_data(None, Headers(s, op, brings), f),
                           Headers(s, op, brings))
       IN  IF brings THEN own' = [own EXCEPT ![s] = typed] /\ UNCHANGED shared
           ELSE shared' = [shared EXCEPT ![op] = typed] /\ UNCHANGED own
    /\ sending' = [t \in Sender |->
          IF t = s THEN [op |-> op, brings |-> brings, forms |-> {f}]
          ELSE IF ~brings /\ Shares(t, op)
          THEN [sending[t] EXCEPT !.forms = @ \cup {f}] ELSE sending[t]]
    /\ UNCHANGED gave

\* The headers go into the request as they are by then.
Perform(s) ==
    /\ sending[s] # None
    /\ sending' = [sending EXCEPT ![s] = None]
    /\ UNCHANGED <<gave, shared, own>>

UrlNext == \E s \in Sender :
    \/ \E op \in Op, brings \in BOOLEAN, f \in Forms : Prepare(s, op, brings, f)
    \/ Perform(s)

UrlSpec == UrlInit /\ [][UrlNext]_uvars

----------------------------------------------------------------------------

\* The headers of data of form f.
Said(f, headers) == Typed(TypeOf(f), headers)

\* Whenever it goes out, and however requests overlap, a request has its own token or
\* none, and the type of its own data; or the type its caller gave; or the type of other
\* data that was given to the same function meanwhile, by a caller that relies on the
\* default headers as well (psurl.py 116-165).  A type that is given for data that has
\* one of its own is replaced by it, although http/archive 41-42 says that one that is
\* "provided explicitly" is "obeyed".
RequestsSound ==
    \A s \in Sender : sending[s] # None =>
        LET q == sending[s]
            headers == Headers(s, q.op, q.brings)
            token == IF q.brings THEN Token(s) ELSE <<>>
        IN  \/ \E f \in q.forms : headers = Said(f, token)
            \/ q.brings /\ gave[s] # None /\ headers = Typed(gave[s], token)

\* What some hosts answer, none of them by the name of what stands for raising.
AreReplies(replies) ==
    "raised" \notin DOMAIN replies /\ \A host \in DOMAIN replies : replies[host] \in Replies

\* A request that is not to raise does not, but for an answer that is no text or that is
\* not the JSON it should be, and neither does a list of them; servers that ping as up
\* answered, each of them, and have pScheduler for all that can be told (psurl.py 62-91,
\* api.py 150-261).
AnswersSound(replies) ==
    /\ \A host \in DOMAIN replies, json, throw \in BOOLEAN :
          PycURLRunner(replies[host], json, throw) = Raised =>
              throw \/ (replies[host] # None /\ replies[host].body \in {"junk", "bytes"})
    /\ url_delete_list(replies) # Raised <=>
          \A host \in DOMAIN replies : replies[host] = None \/ replies[host].body # "bytes"
    /\ LET all == api_ping_all_up(replies) IN
          (IF all = Raised THEN FALSE ELSE all.up) =>
              \A host \in DOMAIN replies :
                 /\ replies[host] # None /\ replies[host].body = "string"
                 /\ api_has_pscheduler(TRUE, replies[host]).up

=============================================================================
