----------------------------- MODULE Archiving -----------------------------
(***************************************************************************)
(* The table archiving of one node and the archiver daemon that works it   *)
(* off: a main loop that queries what is due and starts one thread per     *)
(* row, and the dictionary workers the threads take themselves off         *)
(* (archiving.sql, archiver.raw).  As in TaskPost, times in a row are      *)
(* distances from now: wait is next_attempt - now, left ttl_expires - now, *)
(* -1 once that has passed.                                                *)
(***************************************************************************)
EXTENDS Integers, FiniteSets, Sequences, SequencesExt

CONSTANTS
    Archiving,      \* one for each archiver of a run's result
    OfRun,          \* archiving -> its run
    Runs,           \* archiving -> "all", "succeeded" or "failed"
    TTL,            \* archiving -> its time to live, or Forever
    Script,         \* archiving -> what its transform may give: "json", "null", "error"
    Retries,        \* archiving -> delays its archiver asks for, one per retry
    Tries,          \* retries of a StreamingJSONProgram
    MaxDelay,       \* the longest of them
    max_parallel,
    Thread,         \* slots for threads, more than max_parallel
    MaxFaults,      \* exceptions, lost statements and crashes
    Forever

ASSUME ArchivingAssumption ==
    /\ IsFiniteSet(Archiving) /\ IsFiniteSet(Thread)
    /\ \A a \in Archiving : /\ Retries[a] \in Seq(0 .. MaxDelay)
                            /\ TTL[a] \in Nat \cup {Forever}
    /\ MaxDelay \in Nat /\ Tries \in Nat \ {0}
    /\ max_parallel \in Nat \ {0} /\ Cardinality(Thread) > max_parallel
    /\ MaxFaults \in Nat
    /\ Forever \notin Int

VARIABLES
    row,        \* archiving -> its row
    workers,    \* the keys of the dictionary
    thread,     \* thread -> what it is doing
    main,       \* the main loop
    late,       \* the answer waiting in a process that is one answer behind
    sent,       \* archiving -> times its archiver stored it (for the properties)
    strayed,    \* whether an archiver ever printed a stray line (for the properties)
    faults

pipes == <<late, strayed>>
avars == <<row, workers, thread, main, pipes, sent, faults>>

Row == [state : {"none", "open", "done", "gone"}, archived : BOOLEAN,
        attempts : Nat, wait : -1 .. MaxDelay, left : Int \cup {Forever}]

NoRow == [state |-> "none", archived |-> FALSE, attempts |-> 0, wait |-> -1, left |-> Forever]
NoThread == [step |-> "none"]
NoAnswer == [answer |-> "none", delay |-> 0]
Looking == [step |-> "query", todo |-> <<>>]

Running == {w \in Thread : thread[w].step # "none"}

Init ==
    /\ row = [a \in Archiving |-> NoRow]
    /\ workers = {}
    /\ thread = [w \in Thread |-> NoThread]
    /\ main = Looking
    /\ late = NoAnswer
    /\ sent = [a \in Archiving |-> 0]
    /\ strayed = FALSE
    /\ faults = 0

Fault == faults < MaxFaults /\ faults' = faults + 1

----------------------------------------------------------------------------
(* The table.                                                              *)

Wants(a, success) ==
    \/ Runs[a] = "all"
    \/ Runs[a] = IF success THEN "succeeded" ELSE "failed"

\* The run has got its merged result.  next_attempt is -infinity by default.
archiving_run_after(r) ==
    /\ \A a \in Archiving : OfRun[a] = r => row[a].state = "none"
    /\ \E success \in BOOLEAN :
          row' = [a \in Archiving |->
                    IF OfRun[a] # r THEN row[a]
                    ELSE IF Wants(a, success)
                    THEN [NoRow EXCEPT !.state = "open", !.left = TTL[a]]
                    ELSE [NoRow EXCEPT !.state = "gone"]]
    /\ UNCHANGED <<workers, thread, main, pipes, sent, faults>>

Past(x) == x # Forever /\ x < 0

\* Mutant: only what has not been attempted yet.
EligibleOnce(a, exclusions) ==
    row[a].state = "open" /\ row[a].attempts = 0 /\ a \notin exclusions

Eligible(a, exclusions) ==
    /\ row[a].state = "open"
    /\ row[a].wait < 0
    /\ ~Past(row[a].left)
    /\ a \notin exclusions

\* The first rows by number of attempts; any order among those of equal number
\* (it is that of next_attempt, long past for all of them).
archiving_next(max_return, exclusions) ==
    LET due == {a \in Archiving : Eligible(a, exclusions)}
        n == IF Cardinality(due) < max_return THEN Cardinality(due) ELSE max_return
    IN  {s \in [1 .. n -> due] :
            /\ IsInjective(s)
            /\ \A i, j \in 1 .. n : i < j => row[s[i]].attempts <= row[s[j]].attempts
            /\ \A a \in due \ ToSet(s), i \in 1 .. n : row[s[i]].attempts <= row[a].attempts}

\* completed: next_attempt is NULL, and ttl_expires of no more consequence.
Completed(r) == [r EXCEPT !.state = "done", !.wait = -1, !.left = Forever]

archiving_maint_minute ==
    /\ \E a \in Archiving : row[a].state = "open" /\ Past(row[a].left)
    /\ row' = [a \in Archiving |->
                 IF row[a].state = "open" /\ Past(row[a].left)
                 THEN Completed(row[a]) ELSE row[a]]
    /\ UNCHANGED <<workers, thread, main, pipes, sent, faults>>

\* A purge of old runs takes their archivings with them, settled or not.
Cascade(r) ==
    /\ \E a \in Archiving : OfRun[a] = r /\ row[a].state \in {"open", "done"}
    /\ row' = [a \in Archiving |->
                 IF OfRun[a] = r /\ row[a].state # "none"
                 THEN [NoRow EXCEPT !.state = "gone"] ELSE row[a]]
    /\ UNCHANGED <<workers, thread, main, pipes, sent, faults>>

Later(x) == IF x = Forever \/ x < 0 THEN x ELSE x - 1

Tick ==
    /\ row' = [a \in Archiving |->
                 [row[a] EXCEPT !.wait = Later(@), !.left = Later(@)]]
    /\ row' # row
    /\ UNCHANGED <<workers, thread, main, pipes, sent, faults>>

----------------------------------------------------------------------------
(* The main loop.                                                          *)

\* Having waited or not, look for work.  A query that returns nothing changes
\* nothing: the loop waits for the next one.
Query ==
    /\ main.step = "query"
    /\ Cardinality(workers) < max_parallel
    /\ \E s \in archiving_next(max_parallel - Cardinality(workers), workers) :
          /\ s # <<>>
          /\ main' = [step |-> "start",
                      todo |-> [i \in DOMAIN s |-> [a |-> s[i], attempts |-> row[s[i]].attempts]]]
    /\ UNCHANGED <<row, workers, thread, pipes, sent, faults>>

NextRow ==
    IF Len(main.todo) = 1 THEN Looking ELSE [step |-> "start", todo |-> Tail(main.todo)]

\* The row at hand: too many workers, a worker already, or a new thread, which
\* runs before the loop has entered it in workers.
Start ==
    /\ main.step = "start"
    /\ IF Cardinality(workers) >= max_parallel THEN main' = Looking /\ UNCHANGED thread
       ELSE IF Head(main.todo).a \in workers THEN main' = NextRow /\ UNCHANGED thread
       ELSE /\ main' = [main EXCEPT !.step = "register"]
            /\ LET w == CHOOSE w \in Thread \ Running : TRUE
                   r == Head(main.todo)
               IN  thread' = [thread EXCEPT ![w] =
                      [step |-> "work", said |-> NoAnswer, tries |-> Tries,
                       a |-> r.a, attempts |-> r.attempts]]
    /\ UNCHANGED <<row, workers, pipes, sent, faults>>

Register ==
    /\ main.step = "register"
    /\ workers' = workers \cup {Head(main.todo).a}
    /\ main' = NextRow
    /\ UNCHANGED <<row, thread, pipes, sent, faults>>

\* Mutant: the loop is restarted with a dictionary of its own.
CrashOfLoop ==
    /\ Running # {}
    /\ Fault
    /\ workers' = {}
    /\ main' = Looking
    /\ UNCHANGED <<row, thread, pipes, sent>>

\* The daemon dies and is started again.
Crash ==
    /\ Running # {}
    /\ Fault
    /\ workers' = {}
    /\ thread' = [w \in Thread |-> NoThread]
    /\ main' = Looking
    /\ late' = NoAnswer
    /\ UNCHANGED <<row, strayed, sent>>

----------------------------------------------------------------------------
(* A thread.                                                               *)

Failure == [answer |-> "failed", delay |-> 0]
Success == [answer |-> "succeeded", delay |-> 0]

Answer(w, said) == thread' = [thread EXCEPT ![w].step = "update", ![w].said = said]
EndWork(w) == thread' = [thread EXCEPT ![w].step = "end"]

\* A transform that fails is a failure for good, one that gives null means
\* there is nothing to send.
Transform(w) ==
    /\ thread[w].step = "work" /\ thread[w].tries = Tries
    /\ \/ "null" \in Script[thread[w].a] /\ Answer(w, Success)
       \/ "error" \in Script[thread[w].a] /\ Answer(w, Failure)
    /\ UNCHANGED <<row, workers, main, pipes, sent, faults>>

Sends(w) == thread[w].step = "work" /\ "json" \in Script[thread[w].a]
Stored(w, n) == sent' = [sent EXCEPT ![thread[w].a] = @ + n]

\* What the archiver makes of it: it stores the result, or it asks for another
\* attempt as long as its retry policy has one for this number of attempts.
Handled(w, said) ==
    LET delays == Retries[thread[w].a]
        n == thread[w].attempts + 1
    IN  \/ said = Success /\ Stored(w, 1)
        \/ /\ said = IF n <= Len(delays) THEN [answer |-> "retry", delay |-> delays[n]] ELSE Failure
           /\ Stored(w, 0)

Said == [answer : {"succeeded", "retry", "failed"}, delay : 0 .. MaxDelay]

Send(w) ==
    /\ Sends(w)
    /\ \E said \in Said : Handled(w, said) /\ Answer(w, said)
    /\ UNCHANGED <<row, workers, main, pipes, faults>>

\* The archiver prints a stray line first.  The next line is all that is read: it is
\* no record, which ends the work, or is taken for an answer that says nothing of
\* success.  The answer stays behind.  One process at a time is behind.
SendStray(w) ==
    /\ Sends(w) /\ late = NoAnswer
    /\ Fault
    /\ \E said \in Said : Handled(w, said) /\ late' = said
    /\ EndWork(w) \/ Answer(w, Failure)
    /\ strayed' = TRUE
    /\ UNCHANGED <<row, workers, main>>

\* A process that is behind gives the answer to the request before, to whichever
\* archiving that was, and keeps this one's.
SendBehind(w) ==
    /\ Sends(w) /\ late # NoAnswer
    /\ \E said \in Said : Handled(w, said) /\ late' = said
    /\ Answer(w, late)
    /\ UNCHANGED <<row, workers, main, strayed, faults>>

\* The archiver dies or falls silent, before or after it stored the result, and is
\* started anew for another try; after the last it is a failure nobody asks to repeat.
SendLost(w) ==
    /\ Sends(w)
    /\ Fault
    /\ IF thread[w].tries > 1 THEN thread' = [thread EXCEPT ![w].tries = @ - 1]
                              ELSE Answer(w, Failure)
    /\ \E n \in 0 .. 1 : Stored(w, n)
    /\ late' \in {late, NoAnswer}
    /\ UNCHANGED <<row, workers, main, strayed>>

\* The pool drops the process that is behind (skim, drain).
Dropped ==
    /\ late # NoAnswer
    /\ late' = NoAnswer
    /\ UNCHANGED <<row, workers, thread, main, strayed, sent, faults>>

\* Any other exception, or the loss of the statement that records the attempt,
\* ends the work with the row as it was.
Exception(w) ==
    /\ thread[w].step \in {"work", "update"}
    /\ Fault
    /\ EndWork(w)
    /\ UNCHANGED <<row, workers, main, pipes, sent>>

\* Mutant: archived is set, completed is not.
RecordedHalf(r, w) ==
    LET t == thread[w] IN
    CASE t.said.answer = "succeeded" -> [r EXCEPT !.archived = TRUE, !.attempts = @ + 1]
      [] t.said.answer = "failed" -> [Completed(r) EXCEPT !.attempts = @ + 1]
      [] t.said.answer = "retry" -> [r EXCEPT !.attempts = @ + 1, !.wait = t.said.delay]

\* What the UPDATE for the answer makes of row r, which may have been completed
\* at the end of its time to live in the meantime.
Recorded(r, w) ==
    LET t == thread[w] IN
    CASE t.said.answer = "succeeded" -> [Completed(r) EXCEPT !.archived = TRUE, !.attempts = @ + 1]
      [] t.said.answer = "failed" -> [Completed(r) EXCEPT !.attempts = @ + 1]
      [] t.said.answer = "retry" -> [r EXCEPT !.attempts = @ + 1, !.wait = t.said.delay]

Update(w) ==
    LET a == thread[w].a IN
    /\ thread[w].step = "update"
    /\ row' = IF row[a].state = "gone" THEN row ELSE [row EXCEPT ![a] = Recorded(@, w)]
    /\ EndWork(w)
    /\ UNCHANGED <<workers, main, pipes, sent, faults>>

\* del workers[self.id]; the KeyError of one that is not there ends the thread
\* as well.
End(w) ==
    /\ thread[w].step = "end"
    /\ workers' = workers \ {thread[w].a}
    /\ thread' = [thread EXCEPT ![w] = NoThread]
    /\ UNCHANGED <<row, main, pipes, sent, faults>>

Work(w) == Transform(w) \/ Send(w) \/ SendBehind(w) \/ Update(w) \/ End(w)

Next ==
    \/ \E a \in Archiving : archiving_run_after(OfRun[a]) \/ Cascade(OfRun[a])
    \/ archiving_maint_minute \/ Tick
    \/ Query \/ Start \/ Register \/ Crash
    \/ \E w \in Thread : Work(w) \/ SendStray(w) \/ SendLost(w) \/ Exception(w)
    \/ Dropped

Spec == Init /\ [][Next]_avars

----------------------------------------------------------------------------
(* What the archiver must get right.                                      *)

\* The variables have their types.
TypeOK ==
    /\ row \in [Archiving -> Row]
    /\ workers \subseteq Archiving
    /\ DOMAIN thread = Thread
    /\ \A w \in Running :
          /\ thread[w].step \in {"work", "update", "end"}
          /\ thread[w].a \in Archiving
          /\ thread[w].said \in Said \cup {NoAnswer}
          /\ thread[w].tries \in 1 .. Tries
          /\ thread[w].attempts \in Nat
    /\ main.step \in {"query", "start", "register"}
    /\ main.step # "query" => main.todo # <<>>
    /\ late \in Said \cup {NoAnswer} /\ strayed \in BOOLEAN
    /\ sent \in [Archiving -> Nat]
    /\ faults \in 0 .. MaxFaults

\* No archiving is worked on by two threads at once, and no more than
\* max_parallel of them run (the dictionary workers, archiver.raw 900-938, and
\* threads that take themselves off it before the loop has put them on).
OneWorkerEach ==
    /\ \A v, w \in Running : v # w => thread[v].a # thread[w].a
    /\ Cardinality(Running) <= max_parallel

\* A result is stored by its archiver once, and once more at most for each try it was
\* lost in, exception, lost statement or crash; and a row that says it is archived has
\* been stored, or its transform said not to (archiver.raw 700-840).  An archiver that
\* ever printed a stray line may answer one request with what it said of another.
StoredOnce ==
    ~strayed => \A a \in Archiving :
        /\ sent[a] <= 1 + faults
        /\ row[a].archived => sent[a] > 0 \/ "null" \in Script[a]

\* An entry of workers that no thread will take off: its thread ended before
\* the loop had put it there.
Orphaned ==
    {a \in workers : \A w \in Running : thread[w].a # a}

\* Fairness: the loop and the threads run on and archivers are timed out, the
\* ticker does its maintenance and time passes.
ArchivingSpec ==
    /\ Spec
    /\ WF_avars(Query) /\ WF_avars(Start) /\ WF_avars(Register)
    /\ \A w \in Thread : WF_avars(Work(w))
    /\ WF_avars(archiving_maint_minute) /\ WF_avars(Tick)

\* Every archiving comes to an end: it is stored, given up or forgotten with
\* its run, unless an orphaned entry keeps it or its slot for good
\* (archiver.raw 567 and 938).
EverySettles ==
    \A a \in Archiving :
        row[a].state = "open" ~> row[a].state \in {"done", "gone"} \/ Orphaned # {}

=============================================================================
