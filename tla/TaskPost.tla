------------------------------ MODULE TaskPost ------------------------------
(***************************************************************************)
(* A task on all of its participants: how the lead's API posts it, how it  *)
(* is disabled everywhere, and what the tables forget (tasks.py, task.sql, *)
(* http_queue.sql).  The first participant leads.  Requests are steps, so  *)
(* anything may come between two of them.                                  *)
(***************************************************************************)
EXTENDS Integers, FiniteSets, FiniteSetsExt, Sequences, SequencesExt

CONSTANTS
    Task, Node, Tool,
    Party,          \* task -> sequence of its participants, the lead first
    Repeating,      \* tasks that repeat with no end in sight
    Dated,          \* tasks with a time to start at or to end by, in which case the
                    \*   time they were added at says nothing of how old they are
    Dates,          \* how long ago these times may be to begin with, or are to come
    Wanted,         \* task -> sequence of tools it asks for, or NotGiven
    Offers,         \* node -> set of answers of its /tools
    Strict,         \* nodes whose limits, tools or triggers may refuse a task, or
                    \*   a change to the row of one they have
    KeepTasks,      \* keep_runs_tasks
    TryInterval,    \* try_interval, five minutes by default
    TryFor,         \* try_for: keep_runs_tasks when the insert says nothing
    MaxFaults,      \* requests, answers, statements and processes that are lost
    NotGiven, NoTool

ASSUME TaskAssumption ==
    /\ \A t \in Task : /\ Party[t] \in Seq(Node)
                       /\ Len(Party[t]) > 0
                       /\ IsInjective(Party[t])
    /\ Repeating \subseteq Task
    /\ Dated \subseteq Task \ Repeating
    /\ Dates \subseteq Int
    /\ KeepTasks \in Nat
    /\ MaxFaults \in Nat

ASSUME QueueAssumption ==
    /\ TryInterval \in Nat \ {0}
    /\ TryFor \in Nat

VARIABLES
    row,       \* node -> task -> "none", "off" (not enabled) or "on"
    age,       \* node -> task -> time since COALESCE(until, start, added), up to Old:
               \*   below 0 when that is to come; never looked at for Repeating tasks
    queue,     \* node -> http_queue
    client,    \* task -> the request that posts it
    expired,   \* <<task, node>> whose DELETE expired (kept for the properties)
    faults

tvars == <<row, age, queue, client, expired, faults>>

Lead(t) == Party[t][1]
Others(t) == {Party[t][i] : i \in 2 .. Len(Party[t])}
Old == KeepTasks + 1

Least(a, b) == IF a < b THEN a ELSE b

\* What a row that is added or removed leaves of its age a.
Anew(t, a) == IF t \in Dated THEN a ELSE 0

Steps == {"new", "ask", "insert", "post", "fetch", "enable", "done",
          "rejected", "failed", "dead"}
Client == [step : Steps, i : Nat, lists : Seq(Seq(Tool)), tool : Tool \cup {NoTool}]

At(step) == [step |-> step, i |-> 1, lists |-> <<>>, tool |-> NoTool]

Init ==
    /\ row = [n \in Node |-> [t \in Task |-> "none"]]
    /\ \E since \in [Dated -> Dates] :
          age = [n \in Node |-> [t \in Task |-> IF t \in Dated THEN Least(since[t], Old) ELSE 0]]
    /\ queue = [n \in Node |-> {}]
    /\ client = [t \in Task |-> At("new")]
    /\ expired = {}
    /\ faults = 0

Fault == faults < MaxFaults /\ faults' = faults + 1

----------------------------------------------------------------------------
(* The table http_queue of a node: requests that are repeated until they   *)
(* are answered well or have expired (http_queue.sql).  Every time kept in *)
(* a row is kept here as the distance from now, so the clock needs no      *)
(* bound: wait is next_attempt - now (-1 when that has passed), left is    *)
(* expires - now (-1 likewise).                                            *)

\* A row for the DELETE of a task on a node, as it is inserted.
NewEntry(t, n) ==
    [task |-> t, to |-> n, wait |-> 0, left |-> TryFor, fresh |-> TRUE]

Entry ==
    [task : Task, to : Node, wait : -1 .. TryInterval, left : -1 .. TryFor,
     fresh : BOOLEAN]

\* Mutant: only new rows are tried.
DueOnce(e) == e.fresh

\* next_attempt < now() OR attempts = 0
Due(e) == e.wait < 0 \/ e.fresh

\* now() + try_interval > expires
Expires(e) == TryInterval > e.left

\* The UPDATE that sets up the next attempt.
Again(e) == [e EXCEPT !.wait = TryInterval, !.fresh = FALSE]

\* What http_queue_process_all leaves of queue q when of the rows that were due
\* those in good were answered with a status below 400.
Processed(q, good) ==
    {e \in q : ~Due(e)}
        \cup {Again(e) : e \in {d \in q : Due(d) /\ d \notin good /\ ~Expires(d)}}

\* Time passes.
Later(x) == IF x < 0 THEN x ELSE x - 1
Older(q) == {[e EXCEPT !.wait = Later(@), !.left = Later(@)] : e \in q}

----------------------------------------------------------------------------
(* Which tool: lists[p][i] is the i-th tool participant p offers.          *)

Places(lists, tool) ==
    {pi \in UNION {{p} \X DOMAIN lists[p] : p \in DOMAIN lists} :
        lists[pi[1]][pi[2]] = tool}

Score(lists, tool) == MapThenSumSet(LAMBDA pi : pi[2] - 1, Places(lists, tool))

Common(lists) ==
    {tool \in Tool : Cardinality(Places(lists, tool)) = Len(lists)}

\* Whether a sequence has a before b; sorted() leaves tools of equal score in
\* the order in which they were met, which is that of the first list.
Before(s, a, b) == \E i, j \in DOMAIN s : i < j /\ s[i] = a /\ s[j] = b

Preferred(lists, a, b) ==
    \/ Score(lists, a) < Score(lists, b)
    \/ Score(lists, a) = Score(lists, b) /\ Before(lists[1], a, b)

pick_tool(lists, pick_from) ==
    LET common == Common(lists)
        usable == IF pick_from = NotGiven THEN common
                  ELSE common \cap ToSet(pick_from)
    IN  IF usable = {} THEN NoTool
        ELSE CHOOSE a \in usable : \A b \in usable \ {a} :
                 IF pick_from = NotGiven THEN Preferred(lists, a, b)
                 ELSE Before(pick_from, a, b)

----------------------------------------------------------------------------
(* Posting.                                                                *)

Goto(t, step) == client' = [client EXCEPT ![t].step = step]
End(t, step) == client' = [client EXCEPT ![t] = At(step)]   \* nothing is remembered

\* POST /tasks: the package is valid and the limits of the lead let it pass.
Submit(t) ==
    /\ client[t].step = "new"
    /\ Goto(t, "ask")
    /\ UNCHANGED <<row, age, queue, expired, faults>>

\* Ping a participant and get its tools.
AskTools(t) ==
    /\ client[t].step = "ask"
    /\ LET n == Party[t][client[t].i] IN
       \/ /\ \E list \in Offers[n] :
                client' = [client EXCEPT
                    ![t].lists = Append(@, list),
                    ![t].i = IF @ = Len(Party[t]) THEN 2 ELSE @ + 1,
                    ![t].step = IF client[t].i = Len(Party[t]) THEN "insert" ELSE "ask"]
          /\ UNCHANGED faults
       \/ Fault /\ End(t, "rejected")
    /\ UNCHANGED <<row, age, queue, expired>>

\* Mutant: the row is made enabled on the lead, too.
InsertEnabled(t) ==
    /\ client[t].step = "insert"
    /\ LET tool == pick_tool(client[t].lists, Wanted[t]) IN
          /\ tool # NoTool
          /\ client' = [client EXCEPT ![t].tool = tool,
                ![t].step = IF Len(Party[t]) = 1 THEN "enable" ELSE "post"]
          /\ row' = [row EXCEPT ![Lead(t)][t] = "on"]
          /\ age' = [age EXCEPT ![Lead(t)][t] = Anew(t, @)]
    /\ UNCHANGED <<queue, expired, faults>>

\* api_task_post on the lead, not enabled; the row's trigger may refuse it.
Insert(t) ==
    /\ client[t].step = "insert"
    /\ LET tool == pick_tool(client[t].lists, Wanted[t]) IN
       \/ /\ tool # NoTool
          /\ client' = [client EXCEPT ![t].tool = tool,
                ![t].step = IF Len(Party[t]) = 1 THEN "enable" ELSE "post"]
          /\ row' = [row EXCEPT ![Lead(t)][t] = "off"]
          /\ age' = [age EXCEPT ![Lead(t)][t] = Anew(t, @)]
       \/ /\ tool = NoTool \/ Lead(t) \in Strict
          /\ End(t, "rejected")
          /\ UNCHANGED <<row, age>>
    /\ UNCHANGED <<queue, expired, faults>>

\* api_task_disable: what it does to a node's row and queue.  It leaves a row that
\* is off alone; otherwise its UPDATE runs the row's trigger, which may raise, the
\* tool being gone, and then nothing has been done.
Disabled(r) == IF r = "on" THEN "off" ELSE r
\* Mutant: only the first of the other participants is told.
ToldFirst(n, t) == IF row[n][t] = "on" /\ n = Lead(t) THEN {NewEntry(t, Party[t][2])} ELSE {}

Told(n, t) == IF row[n][t] = "on" /\ n = Lead(t)
              THEN {NewEntry(t, p) : p \in Others(t)} ELSE {}

Disable(n, t) ==
    /\ row' = [row EXCEPT ![n][t] = Disabled(@)]
    /\ queue' = [queue EXCEPT ![n] = @ \cup Told(n, t)]
    /\ UNCHANGED age

\* A TaskPostingException: the lead disables the task and reports the error.
GiveUp(t) == Disable(Lead(t), t) /\ End(t, "failed")

\* POST /tasks/uuid on participant n: refused if its limits say so or if it has
\* the task; enabled at once.
Accept(n, t) ==
    /\ row[n][t] = "none"
    /\ row' = [row EXCEPT ![n][t] = "on"]
    /\ age' = [age EXCEPT ![n][t] = Anew(t, @)]

PostTo(t) ==
    /\ client[t].step = "post"
    /\ LET n == Party[t][client[t].i] IN
       \/ Accept(n, t) /\ Goto(t, "fetch") /\ UNCHANGED <<queue, faults>>
       \/ (row[n][t] # "none" \/ n \in Strict) /\ GiveUp(t) /\ UNCHANGED faults
       \/ Fault /\ GiveUp(t)                                  \* request lost
    /\ UNCHANGED expired

\* The participant took the task, its answer never came.
PostAnswerLost(t) ==
    /\ client[t].step = "post"
    /\ LET n == Party[t][client[t].i] IN
          /\ row[n][t] = "none"
          /\ row' = [row EXCEPT ![n][t] = "on", ![Lead(t)][t] = Disabled(@)]
          /\ age' = [age EXCEPT ![n][t] = Anew(t, @)]
    /\ queue' = [queue EXCEPT ![Lead(t)] = @ \cup Told(Lead(t), t)]
    /\ Fault
    /\ End(t, "failed")
    /\ UNCHANGED expired

\* Get the details of the participant's copy, for the limits it passed.
Fetch(t) ==
    /\ client[t].step = "fetch"
    /\ LET i == client[t].i IN
       \/ /\ row[Party[t][i]][t] # "none"
          /\ client' = [client EXCEPT ![t].i = i + 1,
                ![t].step = IF i = Len(Party[t]) THEN "enable" ELSE "post"]
          /\ UNCHANGED <<row, age, queue, faults>>
       \/ row[Party[t][i]][t] = "none" /\ GiveUp(t) /\ UNCHANGED faults
       \/ Fault /\ GiveUp(t)
    /\ UNCHANGED expired

\* UPDATE of limits_passed and api_task_enable, which raises if the task is gone;
\* the row's trigger may raise in either.
Enable(t) ==
    /\ client[t].step = "enable"
    /\ \/ /\ row[Lead(t)][t] # "none"
          /\ row' = [row EXCEPT ![Lead(t)][t] = "on"]
          /\ End(t, "done")
          /\ UNCHANGED faults
       \/ /\ row[Lead(t)][t] = "none" \/ Lead(t) \in Strict
          /\ End(t, "failed")
          /\ UNCHANGED <<row, faults>>
       \/ /\ Fault
          /\ End(t, "failed")
          /\ UNCHANGED row
    /\ UNCHANGED <<age, queue, expired>>

\* The process that serves the request dies.
Die(t) ==
    /\ client[t].step \in {"ask", "insert", "post", "fetch", "enable"}
    /\ Fault
    /\ End(t, "dead")
    /\ UNCHANGED <<row, age, queue, expired>>

Post(t) == \/ Submit(t) \/ AskTools(t) \/ Insert(t) \/ PostTo(t)
           \/ PostAnswerLost(t) \/ Fetch(t) \/ Enable(t)

----------------------------------------------------------------------------
(* Afterwards.                                                             *)

\* DELETE /tasks/uuid by a user, on any node that has the task.
Delete(t, n) ==
    /\ row[n][t] # "none"
    /\ Disable(n, t)
    /\ UNCHANGED <<client, expired, faults>>

\* The lead's scheduler asks for times and is told by a participant that it has
\* no such task: it deletes the task on the lead.
Cancel(t) ==
    /\ row[Lead(t)][t] = "on"
    /\ \E n \in Others(t) : row[n][t] = "none"
    /\ Disable(Lead(t), t)
    /\ UNCHANGED <<client, expired, faults>>

\* http_queue_process_all: all rows that are due, in one transaction.  A node
\* without the task answers 404, one whose trigger raises 500.  Of the requests
\* that fail, some took effect.
Reached(n, S) ==
    [m \in Node |-> [t \in Task |->
        IF \E e \in S : e.task = t /\ e.to = m THEN Disabled(row[m][t]) ELSE row[m][t]]]

ProcessQueue(n) ==
    LET due == {e \in queue[n] : Due(e)}
        mayRaise == {e \in due : e.to \in Strict /\ row[e.to][e.task] = "on"}
    IN  /\ due # {}
        /\ \E raised \in SUBSET mayRaise :
              LET good == {e \in due \ raised : row[e.to][e.task] # "none"}
                  lost(S) == {<<e.task, e.to>> : e \in {d \in due \ S : Expires(d)}}
              IN  \/ /\ row' = Reached(n, good)
                     /\ queue' = [queue EXCEPT ![n] = Processed(@, good)]
                     /\ expired' = expired \cup lost(good)
                     /\ UNCHANGED faults
                  \/ \E e \in good, hit \in SUBSET good :      \* one request fails
                        /\ Fault
                        /\ good \ {e} \subseteq hit
                        /\ row' = Reached(n, hit)
                        /\ queue' = [queue EXCEPT ![n] = Processed(@, good \ {e})]
                        /\ expired' = expired \cup lost(good \ {e})
                  \/ \E hit \in SUBSET good :                   \* all is rolled back
                        /\ Fault
                        /\ row' = Reached(n, hit)
                        /\ UNCHANGED <<queue, expired>>
        /\ UNCHANGED <<age, client>>

\* task_purge: COALESCE(until, start, added) < now - keep_runs_tasks.  Which tasks
\* still have runs is left open.  A start that is given as an interval counts from
\* the row's last UPDATE, which is later than any time here, and is left out.
Purgeable(n) == {t \in Task \ Repeating : row[n][t] # "none" /\ age[n][t] > KeepTasks}

Purge(n) ==
    /\ \E gone \in SUBSET Purgeable(n) :
          /\ gone # {}
          /\ row' = [row EXCEPT ![n] = [t \in Task |-> IF t \in gone THEN "none" ELSE @[t]]]
          /\ age' = [age EXCEPT ![n] = [t \in Task |-> IF t \in gone THEN Anew(t, @[t]) ELSE @[t]]]
    /\ UNCHANGED <<queue, client, expired, faults>>

Tick ==
    /\ age' = [n \in Node |-> [t \in Task |->
                  IF (row[n][t] = "none" /\ t \notin Dated) \/ t \in Repeating \/ age[n][t] = Old
                  THEN age[n][t] ELSE age[n][t] + 1]]
    /\ queue' = [n \in Node |-> Older(queue[n])]
    /\ UNCHANGED <<row, client, expired, faults>>

Next ==
    \/ \E t \in Task : Post(t) \/ Die(t) \/ Cancel(t)
    \/ \E t \in Task, n \in Node : Delete(t, n)
    \/ \E n \in Node : ProcessQueue(n) \/ Purge(n)
    \/ Tick

Spec == Init /\ [][Next]_tvars

----------------------------------------------------------------------------
(* What posting and disabling a task promise its participants.             *)

\* Types of the tables and of the requests in progress (task.sql, http_queue.sql).
TypeOK ==
    /\ row \in [Node -> [Task -> {"none", "off", "on"}]]
    /\ age \in [Node -> [Task -> {a \in Int : a <= Old}]]
    /\ queue \in [Node -> SUBSET Entry]
    /\ client \in [Task -> Client]
    /\ expired \subseteq Task \X Node
    /\ faults \in 0 .. MaxFaults

\* A lead enables a task, so that runs are scheduled for it, only when every other
\* participant has it - or may have forgotten it since, because the time its purge
\* goes by, that of its until, its start or else its insertion on the lead, is longer
\* ago than tasks are kept (tasks.py:464, task.sql:823).
EnabledOnlyWhenHeld ==
    [][\A t \in Task :
          (row[Lead(t)][t] # "on" /\ row'[Lead(t)][t] = "on")
          => \A n \in Others(t) :
                \/ row[n][t] # "none"
                \/ t \notin Repeating /\ age[Lead(t)][t] > KeepTasks]_tvars

\* Every copy of a task that is enabled on a participant is accounted for: the lead
\* has it enabled or is posting it, a DELETE is queued for it or has expired, its
\* posting failed, or the lead has forgotten a one-shot task that every node forgets
\* by itself (task.sql:940, http_queue.sql:128).
Posting(t) == client[t].step \in {"post", "fetch", "enable"}
PostingFailed(t) == client[t].step \in {"failed", "dead"}
Pending(t, n) == \E e \in queue[Lead(t)] : e.task = t /\ e.to = n

AccountedFor ==
    \A t \in Task : \A n \in Others(t) : row[n][t] = "on" =>
        \/ row[Lead(t)][t] = "on" \/ Posting(t) \/ PostingFailed(t)
        \/ Pending(t, n) \/ <<t, n>> \in expired
        \/ t \notin Repeating /\ row[Lead(t)][t] = "none"

\* A task that was disabled on its lead after it had been enabled is disabled on
\* each participant in the end, unless its DELETE expired (task.sql:935).
DisabledOnLead(t) == client[t].step = "done" /\ row[Lead(t)][t] = "off"

DisabledEverywhere ==
    \A t \in Task : DisabledOnLead(t) ~>
        \A n \in Others(t) : row[n][t] # "on" \/ <<t, n>> \in expired

\* The ticker's queue thread comes round every 15 seconds; the clock goes on.
TaskSpec == Spec /\ WF_tvars(Tick) /\ \A n \in Node : WF_tvars(ProcessQueue(n))

=============================================================================
