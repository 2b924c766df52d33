------------------------------- MODULE Resolve -------------------------------
(***************************************************************************)
(* dns_bulk_resolve of psdns.py: a pool of threads takes the candidates    *)
(* in turn.  For each, a thread of its own asks the system, which may take *)
(* any time; what it puts in the queue that was made for it is taken, or   *)
(* not waited for any longer.                                              *)
(***************************************************************************)
EXTENDS Integers, FiniteSets

CONSTANTS
    Candidate, Right,   \* the names to resolve, and what each resolves to
    Threads, None

VARIABLES
    todo,               \* the candidates no thread has taken
    taken,              \* those that one has, and waits for
    asking,             \* those whose own thread has not come back, or never will
    queue,              \* what is in each one's queue, a set of at most one
    result              \* what has been found for the candidates that are done

qvars == <<todo, taken, asking, queue, result>>

ResolveInit ==
    /\ todo \in SUBSET Candidate
    /\ taken = {} /\ asking = {} /\ result = <<>>
    /\ queue = [c \in Candidate |-> {}]

PoolSize == IF Cardinality(Candidate) < Threads THEN Cardinality(Candidate) ELSE Threads

\* __forwarder__, __reverser__.
Take(c) ==
    /\ c \in todo /\ Cardinality(taken) < PoolSize
    /\ todo' = todo \ {c} /\ taken' = taken \cup {c} /\ asking' = asking \cup {c}
    /\ UNCHANGED <<queue, result>>

\* The system's answer or that there is none; it may also throw, or stay away.
proc(c) ==
    /\ c \in asking /\ asking' = asking \ {c}
    /\ queue' \in {queue, [queue EXCEPT ![c] = {Right[c]}], [queue EXCEPT ![c] = {None}]}
    /\ UNCHANGED <<todo, taken, result>>

Found(c, what) ==
    [d \in DOMAIN result \cup {c} |-> IF d = c THEN what ELSE result[d]]

\* Mutant: one queue for all.
GetAny(c) ==
    /\ c \in taken /\ taken' = taken \ {c}
    /\ \E d \in Candidate : \E a \in queue[d] :
         /\ result' = Found(c, a)
         /\ queue' = [queue EXCEPT ![d] = {}]
    /\ UNCHANGED <<todo, asking>>

Get(c) ==
    /\ c \in taken /\ taken' = taken \ {c}
    /\ \E a \in queue[c] : result' = Found(c, a)
    /\ UNCHANGED <<todo, asking, queue>>

\* The thread that asks is left to itself.
GetTimesOut(c) ==
    /\ c \in taken /\ taken' = taken \ {c}
    /\ queue[c] = {}
    /\ result' = Found(c, None)
    /\ UNCHANGED <<todo, asking, queue>>

Resolving(c) == Take(c) \/ Get(c) \/ GetTimesOut(c)
ResolveNext == \E c \in Candidate : Resolving(c) \/ proc(c)

----------------------------------------------------------------------------

\* Each candidate gets an answer, and it is its own or none, late as others' may
\* come; although nothing says that the system's resolver answers.
BulkAnswers ==
    \A c \in Candidate :
        c \in todo ~> c \in DOMAIN result /\ result[c] \in {Right[c], None}

=============================================================================
