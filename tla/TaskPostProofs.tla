-------------------------- MODULE TaskPostProofs --------------------------
(***************************************************************************)
(* A lead enables a task only when its participants have it, and no copy   *)
(* of a task is left enabled that nothing accounts for, for any tasks,     *)
(* participants and faults.                                                *)
(***************************************************************************)
EXTENDS TaskPost, SequenceTheorems, TLAPS

----------------------------------------------------------------------------
(* Types.                                                                  *)

IsClient(c) ==
    c \in [step : Steps, i : Nat, lists : {c.lists}, tool : {c.tool}]

\* What is used of an entry of a queue: it is a record, for another participant.
IsEntry(e) ==
    /\ e.task \in Task /\ e.to \in Others(e.task)
    /\ e \in [task : {e.task}, to : {e.to}, wait : {e.wait}, left : {e.left}, fresh : {e.fresh}]

Cells == {"none", "off", "on"}

Ages == {a \in Int : a <= Old}

\* A task with a date is as old on all nodes.
Dating(ages) ==
    \A t \in Task : IF t \in Dated THEN \A m, n \in Node : ages[m][t] = ages[n][t]
                     ELSE \A n \in Node : 0 <= ages[n][t]

Tables ==
    /\ row \in [Node -> [Task -> Cells]]
    /\ age \in [Node -> [Task -> Ages]]
    /\ Dating(age)

Queued == /\ queue = [n \in Node |-> queue[n]]
          /\ \A n \in Node : \A e \in queue[n] : IsEntry(e)

Clients == /\ client = [t \in Task |-> client[t]]
           /\ \A t \in Task : IsClient(client[t])

Types == Tables /\ Queued /\ Clients

LEMMA Parties ==
    ASSUME NEW t \in Task
    PROVE  /\ Len(Party[t]) \in Nat \ {0} /\ Lead(t) \in Node
           /\ Len(Party[t]) # 1 => 2 \in 2 .. Len(Party[t])
           /\ \A j \in 1 .. Len(Party[t]) : Party[t][j] \in Node
           /\ \A j \in 2 .. Len(Party[t]) : Party[t][j] \in Others(t)
           /\ \A n \in Others(t) : /\ n \in Node /\ n # Lead(t)
                                   /\ \E j \in 2 .. Len(Party[t]) : n = Party[t][j]
<1>1. Party[t] \in Seq(Node) /\ Len(Party[t]) > 0 /\ IsInjective(Party[t])
  BY TaskAssumption
<1>2. Len(Party[t]) \in Nat \ {0} /\ DOMAIN Party[t] = 1 .. Len(Party[t])
  BY <1>1, LenProperties
<1>3. \A j \in 1 .. Len(Party[t]) : Party[t][j] \in Node
  BY <1>1, <1>2, ElementOfSeq
<1>4. \A j \in 2 .. Len(Party[t]) : Party[t][j] # Party[t][1]
  BY <1>1, <1>2 DEF IsInjective
<1>5. Len(Party[t]) # 1 => 2 \in 2 .. Len(Party[t])
  <2>1. \A k \in Nat \ {0} : k # 1 => 2 \in 2 .. k
    OBVIOUS
  <2> QED
    BY <1>2, <2>1
<1>6. Lead(t) \in Node
  BY <1>2, <1>3 DEF Lead
<1>7. \A n \in Others(t) : /\ n \in Node /\ n # Lead(t)
                           /\ \E j \in 2 .. Len(Party[t]) : n = Party[t][j]
  BY <1>2, <1>3, <1>4 DEF Lead, Others
<1> QED
  BY <1>2, <1>3, <1>5, <1>6, <1>7 DEF Others

\* One task's client has moved to a step.
Moved(t, s) ==
    /\ client' = [u \in Task |-> client'[u]]
    /\ \A u \in Task : IsClient(client'[u])
    /\ \A u \in Task \ {t} : client'[u] = client[u]
    /\ client'[t].step = s

LEMMA Replaced ==
    ASSUME Clients, NEW t \in Task, NEW new, IsClient(new), client' = [client EXCEPT ![t] = new]
    PROVE  Moved(t, new.step) /\ client'[t] = new
  BY DEF Clients, Moved

LEMMA Went ==
    ASSUME Clients, NEW t \in Task, NEW s \in Steps, Goto(t, s)
    PROVE  Moved(t, s) /\ client'[t].i = client[t].i
<1> DEFINE new == [client[t] EXCEPT !.step = s]
<1>1. client' = [client EXCEPT ![t] = new]
  BY DEF Goto, Clients
<1>2. IsClient(new) /\ new.step = s /\ new.i = client[t].i
  BY DEF Clients, IsClient
<1> HIDE DEF new
<1> QED
  BY <1>1, <1>2, Replaced

LEMMA Ended ==
    ASSUME Clients, NEW t \in Task, NEW s \in Steps, End(t, s)
    PROVE  Moved(t, s)
<1>1. IsClient(At(s)) /\ At(s).step = s
  BY DEF IsClient, At
<1> QED
  BY <1>1, Replaced DEF End

LEMMA AskedTools ==
    ASSUME Clients, NEW t \in Task, client[t].step = "ask", AskTools(t)
    PROVE  \/ Moved(t, "rejected")
           \/ /\ client[t].i = Len(Party[t]) /\ Moved(t, "insert") /\ client'[t].i = 2
           \/ /\ client[t].i # Len(Party[t]) /\ Moved(t, "ask")
              /\ client'[t].i = client[t].i + 1
<1> DEFINE c == client[t]
           last == c.i = Len(Party[t])
<1>1. CASE End(t, "rejected")
  BY <1>1, Ended DEF Steps
<1>2. ASSUME NEW list, client' = [client EXCEPT
                    ![t].lists = Append(@, list),
                    ![t].i = IF @ = Len(Party[t]) THEN 2 ELSE @ + 1,
                    ![t].step = IF client[t].i = Len(Party[t]) THEN "insert" ELSE "ask"]
      PROVE \/ last /\ Moved(t, "insert") /\ client'[t].i = 2
            \/ ~last /\ Moved(t, "ask") /\ client'[t].i = c.i + 1
  <2>1. PICK i2 \in Nat, s2 \in {"insert", "ask"}, l2 \in {Append(c.lists, list)} :
            /\ i2 = IF last THEN 2 ELSE c.i + 1
            /\ s2 = IF last THEN "insert" ELSE "ask"
    <3>1. c.i \in Nat
      BY DEF Clients, IsClient
    <3>2. (IF last THEN 2 ELSE c.i + 1) \in Nat
      BY <3>1
    <3>3. (IF last THEN "insert" ELSE "ask") \in {"insert", "ask"}
      OBVIOUS
    <3> HIDE DEF last, c
    <3> QED
      BY <3>2, <3>3, Zenon
  <2> DEFINE new == [c EXCEPT !.lists = l2, !.i = i2, !.step = s2]
  <2>2. new \in [step : Steps, i : Nat, lists : {l2}, tool : {c.tool}]
    BY DEF Clients, IsClient, Steps
  <2>3. new.step = s2 /\ new.i = i2
    BY DEF Clients, IsClient
  <2>4. client' = [client EXCEPT ![t] = new]
    BY <1>2, <2>1 DEF Clients
  <2>5. Moved(t, s2) /\ client'[t].i = i2
    <3> HIDE DEF new
    <3>1. IsClient(new)
      BY <2>2 DEF IsClient
    <3> QED
      BY <2>3, <2>4, <3>1, Replaced
  <2> QED
    BY <2>1, <2>5
<1> QED
  BY <1>1, <1>2 DEF AskTools

Aged(e) == [e EXCEPT !.wait = Later(@), !.left = Later(@)]

LEMMA Queues ==
    /\ \A t \in Task, n \in Node : \A e \in Told(n, t) : IsEntry(e)
    /\ \A e : IsEntry(e) =>
          /\ IsEntry(Again(e)) /\ Again(e).task = e.task /\ Again(e).to = e.to
          /\ IsEntry(Aged(e)) /\ Aged(e).task = e.task /\ Aged(e).to = e.to
<1>1. ASSUME NEW t \in Task, NEW n \in Node, NEW e \in Told(n, t) PROVE IsEntry(e)
  <2>1. PICK p \in Others(t) : e = NewEntry(t, p)
    BY DEF Told
  <2> QED
    BY <2>1 DEF NewEntry, IsEntry
<1>2. ASSUME NEW e, IsEntry(e)
      PROVE  IsEntry(Again(e)) /\ Again(e).task = e.task /\ Again(e).to = e.to
  BY <1>2 DEF IsEntry, Again
<1>3. ASSUME NEW e, IsEntry(e)
      PROVE  IsEntry(Aged(e)) /\ Aged(e).task = e.task /\ Aged(e).to = e.to
  BY <1>3 DEF IsEntry, Aged
<1> QED
  BY <1>1, <1>2, <1>3

\* One cell of a table has been set.
LEMMA CellSet ==
    ASSUME NEW S, NEW f \in [Node -> [Task -> S]], NEW n \in Node, NEW t \in Task, NEW v \in S,
           NEW g, g = [f EXCEPT ![n][t] = v]
    PROVE  /\ g \in [Node -> [Task -> S]]
           /\ g[n][t] = v
           /\ \A m \in Node, u \in Task : m # n \/ u # t => g[m][u] = f[m][u]
  OBVIOUS

----------------------------------------------------------------------------
(* What is known of a task while it is posted.                             *)

\* Nobody has the task before it is inserted on its lead.
NobodyYet(t) ==
    client[t].step \in {"new", "ask", "insert", "rejected"}
        => \A n \in Node : row[n][t] = "none"

\* The participant the request is at.
Index(t) ==
    /\ client[t].step = "new" => client[t].i = 1
    /\ client[t].step = "ask" => client[t].i \in 1 .. Len(Party[t])
    /\ client[t].step = "insert" => client[t].i = 2
    /\ client[t].step \in {"post", "fetch"} => client[t].i \in 2 .. Len(Party[t])

\* A participant's copy is no older than the lead's.
Younger(t) ==
    \A n \in Others(t) :
        row[n][t] # "none" /\ row[Lead(t)][t] # "none" => age[n][t] <= age[Lead(t)][t]

\* The participants that have been passed have the task, unless the lead's own
\* copy is old enough for theirs to have been purged.
MayBeGone(t) == t \notin Repeating /\ age[Lead(t)][t] > KeepTasks
Passed(t, j) == client[t].step = "enable" \/ j < client[t].i

PassedHave(t) ==
    client[t].step \in {"post", "fetch", "enable"} /\ row[Lead(t)][t] # "none"
        => \A j \in 2 .. Len(Party[t]) :
              Passed(t, j) => row[Party[t][j]][t] # "none" \/ MayBeGone(t)

Core(t) == NobodyYet(t) /\ Index(t) /\ Younger(t) /\ PassedHave(t)

PostInv == Types /\ \A t \in Task : Core(t)

\* Which nodes have the task, and since when, is as before.
RowsKept(t) ==
    \A n \in Node : (row'[n][t] = "none" <=> row[n][t] = "none") /\ age'[n][t] = age[n][t]

LEMMA Kept ==
    ASSUME NEW t \in Task, Core(t), RowsKept(t), client'[t] = client[t]
    PROVE  Core(t)'
<1> USE Parties
<1> QED
  BY DEF Core, NobodyYet, Index, Younger, PassedHave, Passed, MayBeGone, RowsKept

\* A request that ends or has been refused leaves nothing to show of its task.
LEMMA Over ==
    ASSUME NEW t \in Task, Core(t), RowsKept(t), NEW s \in {"done", "failed", "dead"},
           client'[t].step = s
    PROVE  Core(t)'
<1> USE Parties
<1> QED
  BY DEF Core, NobodyYet, Index, Younger, PassedHave, RowsKept

\* Only task t moves, and of the rows nobody's changes.
LEMMA TablesSame ==
    ASSUME UNCHANGED <<row, age>>
    PROVE  (Tables => Tables') /\ \A u \in Task : RowsKept(u)
  BY DEF Tables, RowsKept

LEMMA QueueSame ==
    ASSUME Queued, UNCHANGED queue
    PROVE  Queued'
  BY DEF Queued, IsEntry

LEMMA ClientsSame ==
    ASSUME Clients, UNCHANGED client
    PROVE  Clients'
  BY DEF Clients, IsClient

LEMMA MovedTypes ==
    ASSUME NEW t \in Task, NEW s, Moved(t, s)
    PROVE  Clients' /\ client'[t].step = s /\ \A u \in Task \ {t} : client'[u] = client[u]
  BY DEF Moved, Clients, IsClient

\* A cell of row, and none or the same cell of age, is set.
RowSet(n, t, v) ==
    /\ row' \in [Node -> [Task -> Cells]]
    /\ row'[n][t] = v
    /\ \A m \in Node, u \in Task : m # n \/ u # t => row'[m][u] = row[m][u]

LEMMA Telling ==
    ASSUME Queued, NEW n \in Node, NEW t \in Task,
           queue' = [queue EXCEPT ![n] = @ \cup Told(n, t)]
    PROVE  Queued'
  BY Queues DEF Queued, IsEntry

LEMMA Disabling ==
    ASSUME Tables, Queued, NEW n \in Node, NEW t \in Task, Disable(n, t)
    PROVE  /\ Tables' /\ Queued' /\ \A u \in Task : RowsKept(u)
           /\ RowSet(n, t, Disabled(row[n][t]))
           /\ \A m \in Node, u \in Task : row'[m][u] = "on" => row[m][u] = "on"
<1>1. RowSet(n, t, Disabled(row[n][t]))
  <2>1. Disabled(row[n][t]) \in Cells /\ row' = [row EXCEPT ![n][t] = Disabled(row[n][t])]
    BY DEF Tables, Disable, Disabled, Cells
  <2> HIDE DEF Disabled
  <2> QED
    BY <2>1, CellSet DEF RowSet, Tables
<1>2. Tables' /\ \A u \in Task : RowsKept(u)
  BY <1>1 DEF RowSet, Tables, RowsKept, Disable, Disabled
<1>3. \A m \in Node, u \in Task : row'[m][u] = "on" => row[m][u] = "on"
  BY <1>1 DEF RowSet, Disabled
<1>4. Queued'
  BY Telling DEF Disable
<1> QED
  BY <1>1, <1>2, <1>3, <1>4

LEMMA OneTask ==
    ASSUME PostInv, NEW t \in Task, Core(t)', Tables', Queued', NEW s, Moved(t, s),
           \A u \in Task \ {t} : RowsKept(u)
    PROVE  PostInv'
<1>1. ASSUME NEW u \in Task PROVE Core(u)'
  <2>1. CASE u = t
    BY <2>1
  <2>2. CASE u # t
    BY <2>2, Kept, MovedTypes DEF PostInv
  <2> QED
    BY <2>1, <2>2
<1> QED
  BY <1>1, MovedTypes DEF PostInv, Types

\* A request that only moves on.
LEMMA Moving ==
    ASSUME PostInv, NEW t \in Task, UNCHANGED <<row, age, queue>>, NEW s, Moved(t, s), Core(t)'
    PROVE  PostInv'
  BY OneTask, TablesSame, QueueSame DEF PostInv, Types

LEMMA Finishing ==
    ASSUME PostInv, NEW t \in Task, NEW s \in {"done", "failed", "dead"}, End(t, s),
           Tables', Queued', \A u \in Task : RowsKept(u)
    PROVE  PostInv'
<1>1. Moved(t, s)
  BY Ended DEF Steps, PostInv, Types
<1>2. Core(t)'
  BY <1>1, Over, MovedTypes DEF PostInv
<1> QED
  BY <1>1, <1>2, OneTask

LEMMA GivingUp ==
    ASSUME PostInv, NEW t \in Task, GiveUp(t)
    PROVE  PostInv'
  BY Disabling, Finishing, Parties DEF GiveUp, PostInv, Types

LEMMA SubmitKeeps == ASSUME PostInv, NEW t \in Task, Submit(t) PROVE PostInv'
<1>1. Moved(t, "ask") /\ client'[t].i = client[t].i
  BY Went DEF Submit, Steps, PostInv, Types
<1>2. Core(t)'
  <2>1. client'[t].step = "ask" /\ client'[t].i = 1 /\ client[t].step = "new"
    BY <1>1, MovedTypes DEF Submit, PostInv, Core, Index
  <2>2. RowsKept(t) /\ 1 \in 1 .. Len(Party[t])
    BY TablesSame, Parties DEF Submit
  <2> QED
    BY <2>1, <2>2, Parties
       DEF PostInv, Core, NobodyYet, Index, Younger, PassedHave, RowsKept
<1> QED
  BY <1>1, <1>2, Moving DEF Submit

LEMMA AskToolsKeeps == ASSUME PostInv, NEW t \in Task, AskTools(t) PROVE PostInv'
<1>1. /\ client[t].step = "ask" /\ UNCHANGED <<row, age, queue>>
      /\ Core(t) /\ RowsKept(t) /\ client[t].i \in 1 .. Len(Party[t])
  BY TablesSame DEF AskTools, PostInv, Core, Index
<1> USE DEF Core, NobodyYet, Index, Younger, PassedHave, RowsKept
<1>2. CASE Moved(t, "rejected")
  <2>1. Core(t)'
    BY <1>1, <1>2, MovedTypes, Parties
  <2> QED
    BY <1>1, <1>2, <2>1, Moving
<1>3. CASE Moved(t, "insert") /\ client'[t].i = 2
  <2>1. Core(t)'
    BY <1>1, <1>3, MovedTypes, Parties
  <2> QED
    BY <1>1, <1>3, <2>1, Moving
<1>4. CASE /\ client[t].i # Len(Party[t]) /\ Moved(t, "ask")
           /\ client'[t].i = client[t].i + 1
  <2>1. client'[t].i \in 1 .. Len(Party[t])
    BY <1>1, <1>4, Parties
  <2>2. Core(t)'
    BY <1>1, <1>4, <2>1, MovedTypes, Parties
  <2> QED
    BY <1>1, <1>4, <2>2, Moving
<1> QED
  BY <1>1, <1>2, <1>3, <1>4, AskedTools DEF PostInv, Types

\* A row of task t is added to or removed from node n.
LEMMA Redated ==
    ASSUME Tables, NEW n \in Node, NEW t \in Task, age' = [age EXCEPT ![n][t] = Anew(t, @)]
    PROVE  /\ age' \in [Node -> [Task -> Ages]] /\ Dating(age')
           /\ age'[n][t] = Anew(t, age[n][t])
           /\ \A m \in Node, u \in Task : m # n \/ u # t => age'[m][u] = age[m][u]
<1>1. Old \in Nat
  BY TaskAssumption DEF Old
<1>2. age[n][t] \in Ages /\ Anew(t, age[n][t]) \in Ages
  BY <1>1 DEF Tables, Anew, Ages
<1>3. /\ age' \in [Node -> [Task -> Ages]]
      /\ age'[n][t] = Anew(t, age[n][t])
      /\ \A m \in Node, u \in Task : m # n \/ u # t => age'[m][u] = age[m][u]
  BY <1>2, CellSet DEF Tables
<1>4. Dating(age')
  BY <1>3 DEF Tables, Dating, Anew
<1> QED
  BY <1>3, <1>4

LEMMA InsertKeeps == ASSUME PostInv, NEW t \in Task, Insert(t) PROVE PostInv'
<1>1. client[t].step = "insert" /\ client[t].i = 2 /\ Core(t) /\ Lead(t) \in Node
  BY Parties DEF Insert, PostInv, Core, Index
<1>2. CASE End(t, "rejected") /\ UNCHANGED <<row, age>>
  <2>1. Moved(t, "rejected") /\ RowsKept(t) /\ UNCHANGED <<row, age, queue>>
    BY <1>2, Ended, TablesSame DEF Steps, PostInv, Types, Insert
  <2>2. Core(t)'
    BY <1>1, <2>1, MovedTypes, Parties
       DEF Core, NobodyYet, Index, Younger, PassedHave, RowsKept
  <2> QED
    BY <2>1, <2>2, Moving
<1>3. ASSUME NEW tool, NEW next \in {"enable", "post"},
             next = IF Len(Party[t]) = 1 THEN "enable" ELSE "post",
             client' = [client EXCEPT ![t].tool = tool, ![t].step = next],
             row' = [row EXCEPT ![Lead(t)][t] = "off"], age' = [age EXCEPT ![Lead(t)][t] = Anew(t, @)]
      PROVE  PostInv'
  <2> DEFINE new == [client[t] EXCEPT !.tool = tool, !.step = next]
  <2>1. new \in [step : Steps, i : Nat, lists : {client[t].lists}, tool : {tool}]
    BY DEF PostInv, Types, Clients, IsClient, Steps
  <2>2. new.step = next /\ new.i = 2 /\ new.lists = client[t].lists /\ new.tool = tool
    BY <1>1 DEF PostInv, Types, Clients, IsClient
  <2>3. client' = [client EXCEPT ![t] = new]
    BY <1>3 DEF PostInv, Types, Clients
  <2>4. Moved(t, next) /\ client'[t].i = 2
    <3> HIDE DEF new
    <3>1. IsClient(new)
      BY <2>1, <2>2 DEF IsClient
    <3> QED
      BY <2>2, <2>3, <3>1, Replaced DEF PostInv, Types
  <2>5. RowSet(Lead(t), t, "off")
    BY <1>1, <1>3, CellSet DEF RowSet, PostInv, Types, Tables, Cells
  <2>7. /\ age' \in [Node -> [Task -> Ages]] /\ Dating(age')
        /\ \A m \in Node, u \in Task : m # Lead(t) \/ u # t => age'[m][u] = age[m][u]
    <3>1. Tables
      BY DEF PostInv, Types
    <3> QED
      BY <1>1, <1>3, <3>1, Redated
  <2>8. \A u \in Task \ {t} : RowsKept(u)
    BY <2>5, <2>7 DEF RowSet, RowsKept
  <2>9. Core(t)'
    <3>1. \A n \in Others(t) : row'[n][t] = "none"
      BY <1>1, <2>5, Parties DEF RowSet, Core, NobodyYet
    <3>2. \A j \in 2 .. Len(Party[t]) : ~(next = "enable" \/ j < 2) /\ Len(Party[t]) # 1
      BY <1>3, Parties
    <3>3. next = "post" => 2 \in 2 .. Len(Party[t])
      BY <1>3, Parties
    <3>4. client'[t].step = next
      BY <2>4, MovedTypes
    <3> QED
      BY <2>4, <3>1, <3>2, <3>3, <3>4
         DEF Core, NobodyYet, Index, Younger, PassedHave, Passed
  <2> QED
    BY <2>4, <2>5, <2>7, <2>8, <2>9, OneTask, QueueSame
       DEF Insert, Tables, RowSet, PostInv, Types
<1>4. (IF Len(Party[t]) = 1 THEN "enable" ELSE "post") \in {"enable", "post"}
  OBVIOUS
<1> QED
  BY <1>2, <1>3, <1>4 DEF Insert

\* Participant p has taken the task, and the lead may have disabled its own copy.
TakenBy(p, t) ==
    /\ age' = [age EXCEPT ![p][t] = Anew(t, @)]
    /\ \/ row' = [row EXCEPT ![p][t] = "on"]
       \/ row' = [row EXCEPT ![p][t] = "on", ![Lead(t)][t] = Disabled(@)]

OthersKeep(p, t) ==
    \A m \in Node, u \in Task : m # p \/ u # t =>
        (row'[m][u] = "none" <=> row[m][u] = "none") /\ age'[m][u] = age[m][u]

LEMMA Taken ==
    ASSUME Tables, NEW t \in Task, NEW p \in Others(t), TakenBy(p, t), Younger(t)
    PROVE  /\ Tables' /\ \A u \in Task \ {t} : RowsKept(u)
           /\ row'[p][t] = "on" /\ OthersKeep(p, t)
           /\ Younger(t)'
<1>1. p \in Node /\ Lead(t) \in Node /\ p # Lead(t)
  BY Parties
<1>2. /\ age' \in [Node -> [Task -> Ages]] /\ Dating(age')
      /\ age'[p][t] = Anew(t, age[p][t])
      /\ \A m \in Node, u \in Task : m # p \/ u # t => age'[m][u] = age[m][u]
  BY <1>1, Redated DEF TakenBy
<1>3. /\ row' \in [Node -> [Task -> Cells]] /\ row'[p][t] = "on"
      /\ \A m \in Node, u \in Task :
            m # p \/ u # t => (row'[m][u] = "none" <=> row[m][u] = "none")
  <2>1. CASE row' = [row EXCEPT ![p][t] = "on"]
    BY <1>1, <2>1, CellSet DEF Tables, Cells
  <2>2. CASE row' = [row EXCEPT ![p][t] = "on", ![Lead(t)][t] = Disabled(@)]
    <3>1. PICK v \in Cells : /\ v = Disabled(row[Lead(t)][t])
                             /\ v = "none" <=> row[Lead(t)][t] = "none"
      BY <1>1 DEF Disabled, Cells, Tables
    <3>2. row' = [row EXCEPT ![p][t] = "on", ![Lead(t)][t] = v]
      BY <1>1, <2>2, <3>1 DEF Tables
    <3> QED
      BY <1>1, <3>1, <3>2 DEF Tables, Cells
  <2> QED
    BY <2>1, <2>2 DEF TakenBy
<1>4. OthersKeep(p, t)
  BY <1>2, <1>3 DEF OthersKeep
<1>5. Younger(t)'
  <2>1. age'[p][t] <= age'[Lead(t)][t]
    <3>1. CASE t \in Dated
      BY <1>1, <1>2, <3>1 DEF Dating, Ages
    <3>2. CASE t \notin Dated
      BY <1>1, <1>2, <3>2 DEF Dating, Anew
    <3> QED
      BY <3>1, <3>2
  <2>2. \A n \in Others(t) \ {p} :
            age'[n][t] = age[n][t] /\ (row'[n][t] = "none" <=> row[n][t] = "none")
    BY <1>2, <1>3, Parties
  <2>3. age'[Lead(t)][t] = age[Lead(t)][t] /\ (row'[Lead(t)][t] = "none" <=> row[Lead(t)][t] = "none")
    BY <1>1, <1>2, <1>3
  <2> QED
    BY <2>1, <2>2, <2>3 DEF Younger
<1> QED
  BY <1>1, <1>2, <1>3, <1>4, <1>5 DEF Tables, RowsKept

LEMMA PostToKeeps == ASSUME PostInv, NEW t \in Task, PostTo(t) PROVE PostInv'
<1> DEFINE p == Party[t][client[t].i]
<1>1. CASE Accept(p, t) /\ Goto(t, "fetch") /\ UNCHANGED queue
  <2>1. Moved(t, "fetch") /\ client'[t].i = client[t].i /\ client'[t].step = "fetch"
    BY <1>1, Went, MovedTypes DEF Steps, PostInv, Types
  <2>2. /\ client[t].step = "post" /\ Core(t) /\ TakenBy(p, t) /\ p \in Others(t)
        /\ client[t].i \in 2 .. Len(Party[t])
    BY <1>1, Parties DEF PostTo, Accept, TakenBy, PostInv, Core, Index
  <2>3. /\ Tables' /\ (\A u \in Task \ {t} : RowsKept(u)) /\ Younger(t)'
        /\ row'[p][t] = "on" /\ OthersKeep(p, t)
    BY <2>2, Taken DEF PostInv, Types, Core
  <2>4. PassedHave(t)'
    <3>1. /\ row'[Lead(t)][t] = "none" <=> row[Lead(t)][t] = "none"
          /\ age'[Lead(t)][t] = age[Lead(t)][t]
      BY <2>2, <2>3, Parties DEF OthersKeep
    <3>2. \A j \in 2 .. Len(Party[t]) :
             row[Party[t][j]][t] # "none" => row'[Party[t][j]][t] # "none"
      BY <2>3, Parties DEF OthersKeep
    <3>3. \A j : Passed(t, j)' => Passed(t, j)
      BY <2>1, <2>2 DEF Passed
    <3> QED
      BY <2>2, <3>1, <3>2, <3>3 DEF Core, PassedHave, MayBeGone
  <2>5. Core(t)'
    BY <2>1, <2>2, <2>3, <2>4 DEF Core, NobodyYet, Index
  <2> QED
    BY <1>1, <2>1, <2>3, <2>5, OneTask, QueueSame DEF PostInv, Types
<1> QED
  BY <1>1, GivingUp DEF PostTo

LEMMA PostAnswerLostKeeps == ASSUME PostInv, NEW t \in Task, PostAnswerLost(t) PROVE PostInv'
<1> DEFINE p == Party[t][client[t].i]
<1>1. Moved(t, "failed") /\ client'[t].step = "failed"
  BY Ended, MovedTypes DEF PostAnswerLost, Steps, PostInv, Types
<1>2. Core(t) /\ TakenBy(p, t) /\ p \in Others(t)
  BY Parties DEF PostAnswerLost, TakenBy, PostInv, Core, Index
<1>3. Tables' /\ (\A u \in Task \ {t} : RowsKept(u)) /\ Younger(t)'
  BY <1>2, Taken DEF PostInv, Types, Core
<1>4. Core(t)'
  BY <1>1, <1>3 DEF Core, NobodyYet, Index, PassedHave
<1>5. Queued'
  BY Telling, Parties DEF PostAnswerLost, PostInv, Types
<1> QED
  BY <1>1, <1>3, <1>4, <1>5, OneTask

LEMMA FetchKeeps == ASSUME PostInv, NEW t \in Task, Fetch(t) PROVE PostInv'
<1> DEFINE i == client[t].i
<1>1. Core(t) /\ client[t].step = "fetch" /\ i \in 2 .. Len(Party[t])
  BY DEF Fetch, PostInv, Core, Index
<1>2. ASSUME NEW next \in {"enable", "post"}, NEW k \in Nat, k = i + 1,
             next = IF i = Len(Party[t]) THEN "enable" ELSE "post",
             client' = [client EXCEPT ![t].i = k, ![t].step = next],
             row[Party[t][i]][t] # "none", UNCHANGED <<row, age, queue>>
      PROVE  PostInv'
  <2> DEFINE new == [client[t] EXCEPT !.i = k, !.step = next]
  <2>1. IsClient(new) /\ new.step = next /\ new.i = k
    BY DEF PostInv, Types, Clients, IsClient, Steps
  <2>2. client' = [client EXCEPT ![t] = new]
    BY <1>2 DEF PostInv, Types, Clients
  <2>3. Moved(t, next) /\ client'[t].i = k /\ client'[t].step = next
    <3> HIDE DEF new
    <3> QED
      BY <2>1, <2>2, Replaced, MovedTypes DEF PostInv, Types
  <2>4. /\ next = "post" => k \in 2 .. Len(Party[t])
        /\ \A j \in 2 .. Len(Party[t]) : (next = "enable" \/ j < k) => (j < i \/ j = i)
    BY <1>1, <1>2, Parties
  <2>5. PassedHave(t)'
    BY <1>1, <1>2, <2>3, <2>4 DEF Core, PassedHave, Passed, MayBeGone
  <2>6. Core(t)'
    BY <1>1, <1>2, <2>3, <2>4, <2>5 DEF Core, NobodyYet, Index, Younger
  <2> QED
    BY <1>2, <2>3, <2>6, Moving
<1>3. /\ (IF i = Len(Party[t]) THEN "enable" ELSE "post") \in {"enable", "post"}
      /\ i + 1 \in Nat
  BY <1>1
<1> QED
  BY <1>2, <1>3, GivingUp DEF Fetch

LEMMA EnableKeeps == ASSUME PostInv, NEW t \in Task, Enable(t) PROVE PostInv'
<1>1. Tables' /\ \A u \in Task : RowsKept(u)
  <2>1. CASE row[Lead(t)][t] # "none" /\ row' = [row EXCEPT ![Lead(t)][t] = "on"]
    BY <2>1, Parties, CellSet DEF Enable, PostInv, Types, Tables, Cells, RowsKept
  <2>2. CASE UNCHANGED row
    BY <2>2, TablesSame DEF Enable, PostInv, Types
  <2> QED
    BY <2>1, <2>2 DEF Enable
<1>2. Queued' /\ (End(t, "done") \/ End(t, "failed"))
  BY QueueSame DEF Enable, PostInv, Types
<1> QED
  BY <1>1, <1>2, Finishing

LEMMA DieKeeps == ASSUME PostInv, NEW t \in Task, Die(t) PROVE PostInv'
  BY TablesSame, QueueSame, Finishing DEF Die, PostInv, Types

LEMMA SomeoneElse ==
    ASSUME PostInv, Tables', Queued', UNCHANGED client, \A u \in Task : RowsKept(u)
    PROVE  PostInv'
  BY Kept, ClientsSame DEF PostInv, Types

LEMMA DisableKeeps ==
    ASSUME PostInv, NEW t \in Task, NEW n \in Node, Disable(n, t), UNCHANGED client
    PROVE  PostInv'
  BY Disabling, SomeoneElse DEF PostInv, Types

\* The queue's run only disables copies.
LEMMA Reaching ==
    ASSUME Tables, NEW n \in Node, NEW S, row' = Reached(n, S), UNCHANGED age
    PROVE  /\ Tables' /\ \A u \in Task : RowsKept(u)
           /\ \A m \in Node, u \in Task : row'[m][u] = "on" => row[m][u] = "on"
           /\ \A m \in Node, u \in Task :
                 (\E e \in S : e.task = u /\ e.to = m) => row'[m][u] # "on"
<1>1. \A m \in Node, u \in Task :
         row'[m][u] = IF \E e \in S : e.task = u /\ e.to = m THEN Disabled(row[m][u])
                      ELSE row[m][u]
  BY DEF Reached
<1>2. \A r \in Cells : /\ Disabled(r) \in Cells /\ Disabled(r) # "on"
                       /\ Disabled(r) = "none" <=> r = "none"
  BY DEF Disabled, Cells
<1>3. row' \in [Node -> [Task -> Cells]]
  BY <1>2 DEF Reached, Tables
<1>4. \A m \in Node, u \in Task : row'[m][u] = "on" => row[m][u] = "on"
  BY <1>1, <1>2 DEF Tables
<1>5. \A m \in Node, u \in Task : row'[m][u] = "none" <=> row[m][u] = "none"
  BY <1>1, <1>2 DEF Tables
<1>6. ASSUME NEW m \in Node, NEW u \in Task, \E e \in S : e.task = u /\ e.to = m
      PROVE  row'[m][u] # "on"
  <2>1. row'[m][u] = Disabled(row[m][u]) /\ row[m][u] \in Cells
    BY <1>1, <1>6 DEF Tables
  <2> QED
    BY <1>2, <2>1
<1>7. Tables'
  BY <1>3 DEF Tables
<1>8. \A u \in Task : RowsKept(u)
  BY <1>5 DEF RowsKept
<1> QED
  BY <1>4, <1>6, <1>7, <1>8

\* What is left in a queue by a run that has got answers for the rows in good.
LEMMA Leaving ==
    ASSUME Queued, NEW n \in Node, NEW good,
           queue' = [queue EXCEPT ![n] = Processed(@, good)]
    PROVE  /\ Queued'
           /\ \A m \in Node \ {n} : queue'[m] = queue[m]
           /\ \A e \in queue[n] : \/ Due(e) /\ (e \in good \/ Expires(e))
                                  \/ \E d \in queue'[n] : d.task = e.task /\ d.to = e.to
<1>1. queue'[n] = Processed(queue[n], good) /\ \A m \in Node \ {n} : queue'[m] = queue[m]
  BY DEF Queued
<1>2. queue' = [m \in Node |-> queue'[m]]
  BY DEF Queued
<1>3. \A e \in queue[n] : /\ IsEntry(e) /\ IsEntry(Again(e))
                          /\ Again(e).task = e.task /\ Again(e).to = e.to
  BY Queues DEF Queued, Again
<1> HIDE DEF IsEntry, Again, Due, Expires
<1>4. \A e \in queue'[n] : IsEntry(e)
  BY <1>1, <1>3 DEF Processed
<1>5. Queued'
  BY <1>1, <1>2, <1>4 DEF Queued, IsEntry
<1>6. \A e \in queue[n] : \/ Due(e) /\ (e \in good \/ Expires(e))
                          \/ \E d \in queue'[n] : d.task = e.task /\ d.to = e.to
  BY <1>1, <1>3 DEF Processed
<1> QED
  BY <1>1, <1>5, <1>6

LEMMA ProcessQueueKeeps == ASSUME PostInv, NEW n \in Node, ProcessQueue(n) PROVE PostInv'
<1>1. PICK S : row' = Reached(n, S)
  BY DEF ProcessQueue
<1>2. Queued'
  BY Leaving, QueueSame DEF ProcessQueue, PostInv, Types
<1> QED
  BY <1>1, <1>2, Reaching, SomeoneElse DEF ProcessQueue, PostInv, Types

LEMMA Purging ==
    ASSUME PostInv, NEW n \in Node, NEW gone \in SUBSET Purgeable(n),
           row' = [row EXCEPT ![n] = [t \in Task |-> IF t \in gone THEN "none" ELSE @[t]]],
           age' = [age EXCEPT ![n] = [t \in Task |-> IF t \in gone THEN Anew(t, @[t]) ELSE @[t]]],
           UNCHANGED <<queue, client>>
    PROVE  PostInv'
<1>1. Tables'
  <2> USE DEF PostInv, Types, Tables
  <2>1. \A m \in Node, u \in Task : age[m][u] \in Ages /\ Anew(u, age[m][u]) \in Ages
    BY TaskAssumption DEF Old, Ages, Anew
  <2>2. row' \in [Node -> [Task -> Cells]] /\ age' \in [Node -> [Task -> Ages]]
    BY <2>1 DEF Cells
  <2>3. \A m \in Node, u \in Task :
           age'[m][u] = IF m = n /\ u \in gone THEN Anew(u, age[m][u]) ELSE age[m][u]
    OBVIOUS
  <2>4. Dating(age')
    BY <2>3 DEF Dating, Anew
  <2> QED
    BY <2>2, <2>4
<1>2. \A m \in Node, u \in Task :
         /\ row'[m][u] = IF m = n /\ u \in gone THEN "none" ELSE row[m][u]
         /\ age'[m][u] = IF m = n /\ u \in gone THEN Anew(u, age[m][u]) ELSE age[m][u]
  BY DEF PostInv, Types, Tables
<1>3. \A u \in gone : u \notin Repeating /\ age[n][u] > KeepTasks
  BY DEF Purgeable
<1>4. ASSUME NEW u \in Task PROVE Core(u)'
  <2>1. Core(u) /\ client'[u] = client[u] /\ Lead(u) \in Node
    BY Parties DEF PostInv
  <2>2. NobodyYet(u)' /\ Index(u)'
    BY <1>2, <2>1 DEF Core, NobodyYet, Index
  <2>3. Younger(u)'
    BY <1>2, <2>1, Parties DEF Core, Younger
  <2>4. PassedHave(u)'
    <3> SUFFICES ASSUME client[u].step \in {"post", "fetch", "enable"}, row'[Lead(u)][u] # "none",
                        NEW j \in 2 .. Len(Party[u]), Passed(u, j),
                        row'[Party[u][j]][u] = "none"
                 PROVE  MayBeGone(u)'
      BY <2>1 DEF PassedHave, Passed
    <3>1. Party[u][j] \in Others(u) /\ Party[u][j] \in Node
      BY Parties
    <3>2. row[Lead(u)][u] # "none" /\ age'[Lead(u)][u] = age[Lead(u)][u]
      BY <1>2, <2>1
    <3>3. CASE row[Party[u][j]][u] = "none"
      BY <2>1, <3>2, <3>3 DEF Core, PassedHave, MayBeGone
    <3>4. CASE row[Party[u][j]][u] # "none"
      <4>1. Party[u][j] = n /\ u \in gone
        BY <1>2, <3>1, <3>4
      <4>2. age[n][u] <= age[Lead(u)][u]
        BY <2>1, <3>1, <3>2, <3>4, <4>1 DEF Core, Younger
      <4>3. age[n][u] \in Int /\ age[Lead(u)][u] \in Int /\ KeepTasks \in Int
        BY <2>1, TaskAssumption DEF PostInv, Types, Tables, Ages
      <4> QED
        BY <1>3, <3>2, <4>1, <4>2, <4>3 DEF MayBeGone
    <3> QED
      BY <3>3, <3>4
  <2> QED
    BY <2>2, <2>3, <2>4 DEF Core
<1> QED
  BY <1>1, <1>4, QueueSame, ClientsSame DEF PostInv, Types

LEMMA PurgeKeeps == ASSUME PostInv, NEW n \in Node, Purge(n) PROVE PostInv'
  BY Purging DEF Purge

LEMMA TickKeeps == ASSUME PostInv, Tick PROVE PostInv'
<1>1. \A m \in Node, u \in Task :
         age'[m][u] = IF \/ row[m][u] = "none" /\ u \notin Dated
                         \/ u \in Repeating \/ age[m][u] = Old
                      THEN age[m][u] ELSE age[m][u] + 1
  BY DEF Tick
<1>2. \A x \in Ages : x # Old => x + 1 \in Ages
  BY TaskAssumption DEF Old, Ages
<1>3. Tables'
  <2>1. row' \in [Node -> [Task -> Cells]] /\ age' \in [Node -> [Task -> Ages]]
    BY <1>2 DEF Tick, PostInv, Types, Tables
  <2>2. Dating(age')
    <3>1. Dating(age) /\ \A m \in Node, u \in Task : age[m][u] \in Int
      BY DEF PostInv, Types, Tables, Ages
    <3>2. ASSUME NEW u \in Dated PROVE \A m, n \in Node : age'[m][u] = age'[n][u]
      BY <1>1, <3>1, <3>2, TaskAssumption DEF Dating
    <3>3. ASSUME NEW u \in Task \ Dated PROVE \A n \in Node : 0 <= age'[n][u]
      BY <1>1, <3>1, <3>3 DEF Dating
    <3> QED
      BY <3>2, <3>3 DEF Dating
  <2> QED
    BY <2>1, <2>2 DEF Tables
<1>4. Queued'
  <2>1. \A n \in Node : queue'[n] = {Aged(e) : e \in queue[n]}
    BY DEF Tick, Older, Aged
  <2>2. queue' = [n \in Node |-> queue'[n]]
    BY DEF Tick
  <2>3. \A n \in Node : \A e \in queue'[n] : IsEntry(e)
    BY <2>1, Queues DEF PostInv, Types, Queued
  <2> QED
    BY <2>2, <2>3 DEF Queued, IsEntry
<1>5. ASSUME NEW u \in Task PROVE Core(u)'
  <2>1. Core(u) /\ Lead(u) \in Node /\ UNCHANGED <<row, client>>
    BY Parties DEF PostInv, Tick
  <2>2. NobodyYet(u)' /\ Index(u)'
    BY <2>1 DEF Core, NobodyYet, Index
  <2>3. \A m \in Node : age[m][u] \in Int /\ age[m][u] <= Old
    BY DEF PostInv, Types, Tables, Ages
  <2>4. Younger(u)'
    <3> SUFFICES ASSUME NEW n \in Others(u), row[n][u] # "none", row[Lead(u)][u] # "none"
                 PROVE  age'[n][u] <= age'[Lead(u)][u]
      BY <2>1 DEF Younger
    <3>1. n \in Node /\ age[n][u] <= age[Lead(u)][u]
      BY <2>1, Parties DEF Core, Younger
    <3>2. Old \in Nat
      BY TaskAssumption DEF Old
    <3>3. CASE u \in Dated
      BY <1>3, <3>1, <3>3, <2>1, <2>3, <1>1 DEF Tables, Dating
    <3>4. CASE u \notin Dated
      BY <1>1, <2>1, <2>3, <3>1, <3>2, <3>4
    <3> QED
      BY <3>3, <3>4
  <2>5. MayBeGone(u) => MayBeGone(u)'
    <3>1. age[Lead(u)][u] <= age'[Lead(u)][u]
      BY <1>1, <2>1, <2>3
    <3>2. age'[Lead(u)][u] \in Int /\ age[Lead(u)][u] \in Int /\ KeepTasks \in Int
      BY <1>3, <2>1, <2>3, TaskAssumption DEF Tables, Ages
    <3> QED
      BY <3>1, <3>2 DEF MayBeGone
  <2>6. PassedHave(u)'
    BY <2>1, <2>5 DEF Core, PassedHave, Passed
  <2> QED
    BY <2>2, <2>4, <2>6 DEF Core
<1> QED
  BY <1>3, <1>4, <1>5, ClientsSame DEF PostInv, Types, Tick

LEMMA PostInvInit == Init => PostInv
<1> SUFFICES ASSUME Init PROVE PostInv
  OBVIOUS
<1>1. Tables /\ Queued
  <2>1. PICK since \in [Dated -> Dates] :
           age = [n \in Node |-> [t \in Task |-> IF t \in Dated THEN Least(since[t], Old) ELSE 0]]
    BY DEF Init
  <2>2. Old \in Nat /\ Dated \subseteq Task /\ \A t \in Dated : since[t] \in Int
    <3>1. KeepTasks \in Nat /\ Dated \subseteq Task /\ Dates \subseteq Int
      BY TaskAssumption
    <3>2. Old \in Nat
      BY <3>1 DEF Old
    <3>3. \A t \in Dated : since[t] \in Dates
      OBVIOUS
    <3> QED
      BY <3>1, <3>2, <3>3
  <2>3. \A t \in Dated : Least(since[t], Old) \in Ages
    BY <2>2 DEF Least, Ages
  <2>4. 0 \in Ages
    BY <2>2 DEF Ages
  <2>5. age \in [Node -> [Task -> Ages]]
    BY <2>1, <2>3, <2>4
  <2>6. \A n \in Node, t \in Task : age[n][t] = IF t \in Dated THEN Least(since[t], Old) ELSE 0
    BY <2>1
  <2>7. Dating(age)
    BY <2>6 DEF Dating
  <2>8. row \in [Node -> [Task -> Cells]] /\ Queued
    BY DEF Init, Queued, Cells
  <2> QED
    BY <2>5, <2>7, <2>8 DEF Tables
<1>2. Clients
  BY DEF Init, Clients, IsClient, At, Steps
<1>3. ASSUME NEW t \in Task PROVE Core(t)
  <2>1. client[t].step = "new" /\ client[t].i = 1 /\ \A n \in Node : row[n][t] = "none"
    BY DEF Init, At
  <2> QED
    BY <2>1, Parties DEF Core, NobodyYet, Index, Younger, PassedHave
<1> QED
  BY <1>1, <1>2, <1>3 DEF PostInv, Types

LEMMA PostInvNext == PostInv /\ [Next]_tvars => PostInv'
<1> SUFFICES ASSUME PostInv, [Next]_tvars PROVE PostInv'
  OBVIOUS
<1>1. ASSUME NEW t \in Task, Post(t) PROVE PostInv'
  BY <1>1, SubmitKeeps, AskToolsKeeps, InsertKeeps, PostToKeeps, PostAnswerLostKeeps,
     FetchKeeps, EnableKeeps DEF Post
<1>2. ASSUME NEW t \in Task, Die(t) PROVE PostInv'
  BY <1>2, DieKeeps
<1>3. ASSUME NEW t \in Task, Cancel(t) PROVE PostInv'
  BY <1>3, DisableKeeps, Parties DEF Cancel
<1>4. ASSUME NEW t \in Task, NEW n \in Node, Delete(t, n) PROVE PostInv'
  BY <1>4, DisableKeeps DEF Delete
<1>5. ASSUME NEW n \in Node, ProcessQueue(n) \/ Purge(n) PROVE PostInv'
  BY <1>5, ProcessQueueKeeps, PurgeKeeps
<1>6. CASE UNCHANGED tvars
  BY <1>6, TablesSame, QueueSame, SomeoneElse DEF tvars, PostInv, Types
<1> QED
  BY <1>1, <1>2, <1>3, <1>4, <1>5, <1>6, TickKeeps DEF Next

\* A lead enables a task only when every other participant has it, or the time that
\* the purge goes by, until, start or that of its insertion on the lead, is longer
\* ago than tasks are kept, so that it may have been purged (tasks.py:464, task.sql:823).
THEOREM EnablingIsSafe == Spec => EnabledOnlyWhenHeld
<1>1. ASSUME PostInv, [Next]_tvars, NEW t \in Task,
             row[Lead(t)][t] # "on", row'[Lead(t)][t] = "on", NEW n \in Others(t)
      PROVE  row[n][t] # "none" \/ MayBeGone(t)
  <2> USE <1>1
  <2>1. Lead(t) \in Node /\ n \in Node /\ Tables /\ Core(t)
    BY Parties DEF PostInv, Types
  <2>2. ASSUME NEW u \in Task, Post(u) PROVE u = t /\ Enable(t)
    <3> USE <2>2
    <3>1. CASE Submit(u) \/ AskTools(u) \/ Fetch(u)
      <4>1. \A m \in Node, v \in Task : row'[m][v] = "on" => row[m][v] = "on"
        BY <3>1, Disabling, Parties DEF Submit, AskTools, Fetch, GiveUp, PostInv, Types
      <4> QED
        BY <2>1, <4>1
    <3>2. CASE Insert(u)
      <4>1. UNCHANGED row \/ row' = [row EXCEPT ![Lead(u)][u] = "off"]
        BY <3>2 DEF Insert
      <4>2. CASE row' = [row EXCEPT ![Lead(u)][u] = "off"]
        <5>1. RowSet(Lead(u), u, "off")
          BY <2>1, <4>2, Parties, CellSet DEF Tables, Cells, RowSet
        <5> QED
          BY <2>1, <5>1 DEF RowSet
      <4> QED
        BY <4>1, <4>2
    <3>3. CASE PostTo(u) \/ PostAnswerLost(u)
      <4> DEFINE p == Party[u][client[u].i]
      <4>1. p \in Others(u) /\ p \in Node /\ p # Lead(u) /\ Lead(u) \in Node
        BY <3>3, Parties DEF PostTo, PostAnswerLost, PostInv, Core, Index
      <4>2. CASE GiveUp(u)
        BY <2>1, <4>2, Disabling, Parties DEF GiveUp, PostInv, Types
      <4>3. CASE row' = [row EXCEPT ![p][u] = "on"]
        BY <2>1, <4>1, <4>3, CellSet DEF Tables, Cells
      <4>4. CASE row' = [row EXCEPT ![p][u] = "on", ![Lead(u)][u] = Disabled(@)]
        BY <2>1, <4>1, <4>4 DEF Tables, Disabled
      <4> QED
        BY <3>3, <4>2, <4>3, <4>4 DEF PostTo, PostAnswerLost, Accept
    <3>4. CASE Enable(u)
      <4>1. UNCHANGED row \/ row' = [row EXCEPT ![Lead(u)][u] = "on"]
        BY <3>4 DEF Enable
      <4>2. CASE row' = [row EXCEPT ![Lead(u)][u] = "on"]
        <5>1. RowSet(Lead(u), u, "on")
          BY <2>1, <4>2, Parties, CellSet DEF Tables, Cells, RowSet
        <5>2. u = t
          BY <2>1, <5>1 DEF RowSet
        <5> QED
          BY <3>4, <5>2
      <4> QED
        BY <4>1, <4>2
    <3> QED
      BY <3>1, <3>2, <3>3, <3>4 DEF Post
  <2>3. CASE Enable(t)
    <3>1. client[t].step = "enable" /\ row[Lead(t)][t] # "none"
      BY <2>1, <2>3 DEF Enable
    <3>2. PICK j \in 2 .. Len(Party[t]) : n = Party[t][j]
      BY Parties
    <3> QED
      BY <2>1, <3>1, <3>2 DEF Core, PassedHave, Passed
  <2>4. ASSUME NEW u \in Task, NEW m \in Node, Disable(m, u) PROVE FALSE
    BY <2>1, <2>4, Disabling DEF PostInv, Types
  <2>5. ASSUME NEW m \in Node, ProcessQueue(m) PROVE FALSE
    BY <2>1, <2>5, Reaching DEF ProcessQueue
  <2>6. ASSUME NEW m \in Node, Purge(m) PROVE FALSE
    BY <2>1, <2>6 DEF Purge, Tables
  <2>7. CASE UNCHANGED row
    BY <2>7
  <2> QED
    BY <2>2, <2>3, <2>4, <2>5, <2>6, <2>7, Parties DEF Next, Die, Cancel, Delete, Tick, tvars
<1>2. PostInv /\ [Next]_tvars =>
        [\A t \in Task :
          (row[Lead(t)][t] # "on" /\ row'[Lead(t)][t] = "on")
          => \A n \in Others(t) :
                \/ row[n][t] # "none"
                \/ t \notin Repeating /\ age[Lead(t)][t] > KeepTasks]_tvars
  BY <1>1 DEF MayBeGone
<1> QED
  BY <1>2, PostInvInit, PostInvNext, PTL DEF Spec, EnabledOnlyWhenHeld

----------------------------------------------------------------------------
(* Enabled copies are accounted for.                                       *)

Excused(t, n) ==
    \/ row[Lead(t)][t] = "on" \/ Posting(t) \/ PostingFailed(t)
    \/ Pending(t, n) \/ <<t, n>> \in expired
    \/ t \notin Repeating /\ row[Lead(t)][t] = "none"

Accounted(t) == \A n \in Others(t) : row[n][t] = "on" => Excused(t, n)

\* Nothing of a task has changed but that copies were disabled with cause.
LEMMA StaysAccounted ==
    ASSUME NEW t \in Task, Accounted(t), client'[t] = client[t],
           row'[Lead(t)][t] = row[Lead(t)][t],
           \A n \in Others(t) : row'[n][t] = "on" => row[n][t] = "on",
           \A n \in Others(t) :
               Pending(t, n) => Pending(t, n)' \/ row'[n][t] # "on" \/ <<t, n>> \in expired',
           expired \subseteq expired'
    PROVE  Accounted(t)'
  BY DEF Accounted, Excused, Posting, PostingFailed

QueuesGrow == \A m \in Node : queue[m] \subseteq queue'[m]

\* Only task t is touched.
Only(t) ==
    /\ \A u \in Task \ {t} : client'[u] = client[u]
    /\ \A m \in Node, u \in Task \ {t} : row'[m][u] = row[m][u]
    /\ QueuesGrow /\ UNCHANGED expired

LEMMA OthersAccounted ==
    ASSUME \A u \in Task : Accounted(u), NEW t \in Task, Only(t), Accounted(t)'
    PROVE  \A u \in Task : Accounted(u)'
<1>1. ASSUME NEW u \in Task, u # t PROVE Accounted(u)'
  <2>1. Lead(u) \in Node /\ \A n \in Others(u) : n \in Node
    BY Parties
  <2>2. \A n \in Others(u) : Pending(u, n) => Pending(u, n)'
    BY <2>1 DEF Only, QueuesGrow, Pending
  <2>3. client'[u] = client[u] /\ expired \subseteq expired'
        /\ \A m \in Node : row'[m][u] = row[m][u]
    BY <1>1 DEF Only
  <2> QED
    BY <2>1, <2>2, <2>3, StaysAccounted
<1> QED
  BY <1>1

LEMMA DisableGrows ==
    ASSUME Queued, NEW n \in Node, NEW t \in Task,
           queue' = [queue EXCEPT ![n] = @ \cup Told(n, t)]
    PROVE  QueuesGrow /\ Told(n, t) \subseteq queue'[n]
  BY DEF Queued, QueuesGrow

LEMMA PostMoves ==
    ASSUME PostInv, NEW t \in Task, Post(t) \/ Die(t)
    PROVE  /\ \A u \in Task \ {t} : client'[u] = client[u]
           /\ client'[t].step \in Steps \ {"new", "done"} \/ row'[Lead(t)][t] = "on"
<1> USE DEF PostInv, Types
<1>1. ASSUME NEW s \in Steps \ {"new", "done"}, Moved(t, s)
      PROVE  /\ \A u \in Task \ {t} : client'[u] = client[u]
             /\ client'[t].step \in Steps \ {"new", "done"}
  BY <1>1, MovedTypes
<1>2. ASSUME NEW s \in {"rejected", "failed", "dead"}, End(t, s)
      PROVE  Moved(t, s) /\ s \in Steps \ {"new", "done"}
  BY <1>2, Ended DEF Steps
<1>3. CASE Submit(t)
  BY <1>1, <1>3, Went DEF Submit, Steps
<1>4. CASE AskTools(t)
  BY <1>1, <1>4, AskedTools DEF AskTools, Steps
<1>5. CASE Insert(t)
  <2>1. ASSUME NEW tool, NEW next \in {"enable", "post"},
               client' = [client EXCEPT ![t].tool = tool, ![t].step = next]
        PROVE  client'[t].step = next /\ \A u \in Task \ {t} : client'[u] = client[u]
    BY <2>1 DEF Clients, IsClient
  <2>2. (IF Len(Party[t]) = 1 THEN "enable" ELSE "post") \in {"enable", "post"}
    OBVIOUS
  <2> QED
    BY <1>1, <1>2, <1>5, <2>1, <2>2 DEF Insert, Steps
<1>6. CASE PostTo(t) \/ PostAnswerLost(t)
  BY <1>1, <1>2, <1>6, Went DEF PostTo, PostAnswerLost, GiveUp, Steps
<1>7. CASE Fetch(t)
  <2>1. ASSUME NEW k, NEW next \in {"enable", "post"},
               client' = [client EXCEPT ![t].i = k, ![t].step = next]
        PROVE  client'[t].step = next /\ \A u \in Task \ {t} : client'[u] = client[u]
    BY <2>1 DEF Clients, IsClient
  <2>2. (IF client[t].i = Len(Party[t]) THEN "enable" ELSE "post") \in {"enable", "post"}
    OBVIOUS
  <2> QED
    BY <1>1, <1>2, <1>7, <2>1, <2>2 DEF Fetch, GiveUp, Steps
<1>8. CASE Enable(t)
  <2>1. CASE End(t, "done") /\ row' = [row EXCEPT ![Lead(t)][t] = "on"]
    <3>1. row'[Lead(t)][t] = "on"
      BY <2>1, Parties DEF Tables
    <3>2. Moved(t, "done")
      BY <2>1, Ended DEF Steps
    <3> QED
      BY <3>1, <3>2, MovedTypes
  <2> QED
    BY <1>1, <1>2, <1>8, <2>1 DEF Enable
<1>9. CASE Die(t)
  BY <1>1, <1>2, <1>9 DEF Die
<1> QED
  BY <1>3, <1>4, <1>5, <1>6, <1>7, <1>8, <1>9 DEF Post

LEMMA PostTouches ==
    ASSUME PostInv, NEW t \in Task, Post(t) \/ Die(t)
    PROVE  Only(t)
<1> USE DEF PostInv, Types
<1>1. Lead(t) \in Node /\ Tables
  BY Parties
<1>2. UNCHANGED expired
  BY DEF Post, Submit, AskTools, Insert, PostTo, PostAnswerLost, Fetch, Enable, Die
<1>3. CASE UNCHANGED queue
  <2>1. QueuesGrow
    BY <1>3 DEF QueuesGrow
  <2>2. ASSUME NEW n \in Node, NEW r \in Cells, row' = [row EXCEPT ![n][t] = r]
        PROVE  \A m \in Node, u \in Task \ {t} : row'[m][u] = row[m][u]
    BY <1>1, <2>2, CellSet DEF Tables
  <2>3. client[t].step = "post" => Party[t][client[t].i] \in Node
    BY Parties DEF Core, Index
  <2>4. \/ UNCHANGED row \/ Disable(Lead(t), t)
        \/ \E n \in Node, r \in Cells : row' = [row EXCEPT ![n][t] = r]
        \/ PostAnswerLost(t)
    BY <1>1, <2>3 DEF Post, Submit, AskTools, Insert, PostTo, Accept, Fetch, Enable, Die, GiveUp, Cells
  <2>5. CASE Disable(Lead(t), t)
    BY <1>1, <2>1, <2>5, <1>2, PostMoves, Disabling DEF RowSet, Only
  <2>6. CASE ~PostAnswerLost(t) /\ ~Disable(Lead(t), t)
    BY <1>2, <2>1, <2>2, <2>4, <2>6, PostMoves DEF Only
  <2>7. CASE PostAnswerLost(t)
    <3>1. /\ TakenBy(Party[t][client[t].i], t)
          /\ Party[t][client[t].i] \in Node
      BY <2>3, <2>7 DEF PostAnswerLost, TakenBy
    <3>2. \A m \in Node, u \in Task \ {t} : row'[m][u] = row[m][u]
      BY <1>1, <2>7, <3>1 DEF PostAnswerLost, Tables
    <3> QED
      BY <1>2, <2>1, <3>2, PostMoves DEF Only
  <2> QED
    BY <2>5, <2>6, <2>7
<1>4. CASE Disable(Lead(t), t)
  <2>1. QueuesGrow
    BY <1>1, <1>4, DisableGrows DEF Disable
  <2> QED
    BY <1>1, <1>2, <1>4, <2>1, PostMoves, Disabling DEF RowSet, Only
<1>5. CASE PostAnswerLost(t)
  <2>1. QueuesGrow
    BY <1>1, <1>5, DisableGrows DEF PostAnswerLost
  <2>2. Party[t][client[t].i] \in Node
    BY <1>5, Parties DEF PostAnswerLost, Core, Index
  <2>3. \A m \in Node, u \in Task \ {t} : row'[m][u] = row[m][u]
    BY <1>1, <1>5, <2>2 DEF PostAnswerLost, Tables
  <2> QED
    BY <1>2, <2>1, <2>3, PostMoves DEF Only
<1> QED
  BY <1>3, <1>4, <1>5 DEF Post, Submit, AskTools, Insert, PostTo, Fetch, Enable, Die, GiveUp

LEMMA PostAccounted ==
    ASSUME PostInv, PostInv', \A u \in Task : Accounted(u), NEW t \in Task, Post(t) \/ Die(t)
    PROVE  \A u \in Task : Accounted(u)'
<1>1. CASE row'[Lead(t)][t] = "on" \/ Posting(t)' \/ PostingFailed(t)'
  BY <1>1, OthersAccounted, PostTouches DEF Accounted, Excused
<1>2. CASE client'[t].step \in {"ask", "insert", "rejected"}
  <2>1. \A n \in Others(t) : row'[n][t] = "none"
    BY <1>2, Parties DEF PostInv, Core, NobodyYet
  <2>2. Accounted(t)'
    BY <2>1 DEF Accounted
  <2> QED
    BY <2>2, OthersAccounted, PostTouches
<1> QED
  BY <1>1, <1>2, PostMoves DEF Steps, Posting, PostingFailed

\* A DELETE or a cancellation, on any node.
LEMMA DisableAccounted ==
    ASSUME PostInv, \A u \in Task : Accounted(u), NEW t \in Task, NEW n \in Node,
           Disable(n, t), UNCHANGED <<client, expired>>
    PROVE  \A u \in Task : Accounted(u)'
<1>1. RowSet(n, t, Disabled(row[n][t])) /\ \A m \in Node : row'[m][t] = "on" => row[m][t] = "on"
  BY Disabling DEF PostInv, Types
<1>2. QueuesGrow /\ Told(n, t) \subseteq queue'[n]
  BY DisableGrows DEF PostInv, Types, Disable
<1>3. Only(t)
  BY <1>1, <1>2 DEF RowSet, Only
<1>4. CASE n = Lead(t) /\ row[n][t] = "on"
  <2>1. \A p \in Others(t) : Pending(t, p)'
    <3> TAKE p \in Others(t)
    <3>1. NewEntry(t, p) \in queue'[Lead(t)]
      BY <1>2, <1>4 DEF Told
    <3>2. NewEntry(t, p).task = t /\ NewEntry(t, p).to = p
      BY DEF NewEntry
    <3> QED
      BY <3>1, <3>2 DEF Pending
  <2>2. Accounted(t)'
    BY <2>1 DEF Accounted, Excused
  <2> QED
    BY <1>3, <2>2, OthersAccounted
<1>5. CASE ~(n = Lead(t) /\ row[n][t] = "on")
  <2>1. row'[Lead(t)][t] = row[Lead(t)][t]
    BY <1>1, <1>5, Parties DEF RowSet, Disabled
  <2>2. \A p \in Others(t) : Pending(t, p) => Pending(t, p)'
    BY <1>2, Parties DEF QueuesGrow, Pending
  <2>3. Accounted(t)'
    BY <1>1, <2>1, <2>2, Parties, StaysAccounted
  <2> QED
    BY <1>3, <2>3, OthersAccounted
<1> QED
  BY <1>4, <1>5

\* A run of the queue: hit are the requests that took effect, good those known to.
LEMMA RunAccounted ==
    ASSUME PostInv, \A u \in Task : Accounted(u), NEW n \in Node, UNCHANGED client,
           NEW hit \in SUBSET queue[n], row' = Reached(n, hit), UNCHANGED age,
           \A m \in Node \ {n} : queue'[m] = queue[m],
           expired \subseteq expired',
           \A e \in queue[n] : \/ e \in hit \/ <<e.task, e.to>> \in expired'
                               \/ \E d \in queue'[n] : d.task = e.task /\ d.to = e.to
    PROVE  \A u \in Task : Accounted(u)'
<1>1. TAKE u \in Task
<1>2. /\ \A m \in Node : row'[m][u] = "on" => row[m][u] = "on"
      /\ \A m \in Node : (\E e \in hit : e.task = u /\ e.to = m) => row'[m][u] # "on"
  BY Reaching DEF PostInv, Types
<1>3. row'[Lead(u)][u] = row[Lead(u)][u]
  <2>1. ~\E e \in hit : e.task = u /\ e.to = Lead(u)
    BY Parties DEF PostInv, Types, Queued, IsEntry
  <2> QED
    BY <2>1, Parties DEF Reached
<1>4. \A p \in Others(u) :
        Pending(u, p) => Pending(u, p)' \/ row'[p][u] # "on" \/ <<u, p>> \in expired'
  <2> SUFFICES ASSUME NEW p \in Others(u), NEW e \in queue[Lead(u)], e.task = u, e.to = p
               PROVE  Pending(u, p)' \/ row'[p][u] # "on" \/ <<u, p>> \in expired'
    BY DEF Pending
  <2>1. CASE n = Lead(u)
    BY <1>2, <2>1, Parties DEF Pending
  <2>2. CASE n # Lead(u)
    BY <2>2, Parties DEF Pending
  <2> QED
    BY <2>1, <2>2
<1> QED
  BY <1>2, <1>3, <1>4, Parties, StaysAccounted

LEMMA ProcessQueueAccounted ==
    ASSUME PostInv, \A u \in Task : Accounted(u), NEW n \in Node, ProcessQueue(n)
    PROVE  \A u \in Task : Accounted(u)'
<1> DEFINE due == {e \in queue[n] : Due(e)}
           lost(S) == {<<e.task, e.to>> : e \in {d \in due \ S : Expires(d)}}
<1>1. UNCHANGED <<age, client>>
  BY DEF ProcessQueue
\* Rows answered well took effect, the others stay or are lost.
<1>2. ASSUME NEW hit \in SUBSET due, NEW S \in SUBSET hit, row' = Reached(n, hit),
             queue' = [queue EXCEPT ![n] = Processed(@, S)], expired' = expired \cup lost(S)
      PROVE  \A u \in Task : Accounted(u)'
  <2>1. /\ \A m \in Node \ {n} : queue'[m] = queue[m]
        /\ \A e \in queue[n] : \/ Due(e) /\ (e \in S \/ Expires(e))
                               \/ \E d \in queue'[n] : d.task = e.task /\ d.to = e.to
    BY <1>2, Leaving DEF PostInv, Types
  <2>2. \A e \in queue[n] : \/ e \in hit \/ <<e.task, e.to>> \in expired'
                            \/ \E d \in queue'[n] : d.task = e.task /\ d.to = e.to
    BY <1>2, <2>1
  <2> HIDE DEF due, lost
  <2>3. hit \in SUBSET queue[n] /\ expired \subseteq expired'
    BY <1>2 DEF due
  <2> QED
    BY <1>1, <1>2, <2>1, <2>2, <2>3, RunAccounted
\* Nothing is recorded of what was asked.
<1>3. ASSUME NEW hit \in SUBSET due, row' = Reached(n, hit), UNCHANGED <<queue, expired>>
      PROVE  \A u \in Task : Accounted(u)'
  <2>1. hit \in SUBSET queue[n]
    BY <1>3
  <2>2. \A m \in Node \ {n} : queue'[m] = queue[m]
    BY <1>3
  <2>3. \A e \in queue[n] : \E d \in queue'[n] : d.task = e.task /\ d.to = e.to
    BY <1>3
  <2> HIDE DEF due, lost
  <2> QED
    BY <1>1, <1>3, <2>1, <2>2, <2>3, RunAccounted
<1>4. \/ \E S \in SUBSET due : /\ row' = Reached(n, S)
                               /\ queue' = [queue EXCEPT ![n] = Processed(@, S)]
                               /\ expired' = expired \cup lost(S)
      \/ \E hit \in SUBSET due : \E S \in SUBSET hit :
            /\ row' = Reached(n, hit)
            /\ queue' = [queue EXCEPT ![n] = Processed(@, S)]
            /\ expired' = expired \cup lost(S)
      \/ \E hit \in SUBSET due : row' = Reached(n, hit) /\ UNCHANGED <<queue, expired>>
  <2>1. PICK raised : LET good == {e \in due \ raised : row[e.to][e.task] # "none"} IN
          \/ /\ row' = Reached(n, good)
             /\ queue' = [queue EXCEPT ![n] = Processed(@, good)]
             /\ expired' = expired \cup lost(good)
          \/ \E e \in good, hit \in SUBSET good :
                /\ good \ {e} \subseteq hit
                /\ row' = Reached(n, hit)
                /\ queue' = [queue EXCEPT ![n] = Processed(@, good \ {e})]
                /\ expired' = expired \cup lost(good \ {e})
          \/ \E hit \in SUBSET good : row' = Reached(n, hit) /\ UNCHANGED <<queue, expired>>
    BY Zenon DEF ProcessQueue
  <2> DEFINE good == {e \in due \ raised : row[e.to][e.task] # "none"}
  <2>2. good \in SUBSET due
    OBVIOUS
  <2> HIDE DEF due, good, lost
  <2>3. CASE /\ row' = Reached(n, good)
             /\ queue' = [queue EXCEPT ![n] = Processed(@, good)]
             /\ expired' = expired \cup lost(good)
    BY <2>2, <2>3
  <2>4. ASSUME NEW e \in good, NEW hit \in SUBSET good, good \ {e} \subseteq hit,
               row' = Reached(n, hit),
               queue' = [queue EXCEPT ![n] = Processed(@, good \ {e})],
               expired' = expired \cup lost(good \ {e})
        PROVE  \E h \in SUBSET due : \E S \in SUBSET h :
                  /\ row' = Reached(n, h)
                  /\ queue' = [queue EXCEPT ![n] = Processed(@, S)]
                  /\ expired' = expired \cup lost(S)
    <3>1. hit \in SUBSET due /\ good \ {e} \in SUBSET hit
      BY <2>2, <2>4
    <3> QED
      BY <2>4, <3>1
  <2>5. ASSUME NEW hit \in SUBSET good, row' = Reached(n, hit), UNCHANGED <<queue, expired>>
        PROVE  \E h \in SUBSET due : row' = Reached(n, h) /\ UNCHANGED <<queue, expired>>
    BY <2>2, <2>5
  <2> QED
    BY <2>1, <2>3, <2>4, <2>5 DEF good
<1> HIDE DEF due, lost
<1>5. ASSUME NEW S \in SUBSET due, row' = Reached(n, S),
             queue' = [queue EXCEPT ![n] = Processed(@, S)], expired' = expired \cup lost(S)
      PROVE  \A u \in Task : Accounted(u)'
  <2>1. S \in SUBSET S
    OBVIOUS
  <2> QED
    BY <1>2, <1>5, <2>1
<1> QED
  BY <1>2, <1>3, <1>4, <1>5

LEMMA PurgeAccounted ==
    ASSUME PostInv, \A u \in Task : Accounted(u), NEW n \in Node, Purge(n)
    PROVE  \A u \in Task : Accounted(u)'
<1>1. TAKE u \in Task
<1>2. PICK gone \in SUBSET Purgeable(n) :
         row' = [row EXCEPT ![n] = [t \in Task |-> IF t \in gone THEN "none" ELSE @[t]]]
  BY DEF Purge
<1>3. \A m \in Node : row'[m][u] = IF m = n /\ u \in gone THEN "none" ELSE row[m][u]
  BY <1>2 DEF PostInv, Types, Tables
<1>4. UNCHANGED <<queue, client, expired>> /\ Lead(u) \in Node
  BY Parties DEF Purge
<1>5. CASE n = Lead(u) /\ u \in gone
  <2>1. row'[Lead(u)][u] = "none" /\ u \notin Repeating
    BY <1>3, <1>4, <1>5 DEF Purgeable
  <2> QED
    BY <2>1 DEF Accounted, Excused
<1>6. CASE ~(n = Lead(u) /\ u \in gone)
  <2>1. row'[Lead(u)][u] = row[Lead(u)][u]
    BY <1>3, <1>4, <1>6
  <2>2. \A p \in Others(u) : row'[p][u] = "on" => row[p][u] = "on"
    BY <1>3, Parties
  <2>3. \A p \in Others(u) : Pending(u, p) => Pending(u, p)'
    BY <1>4 DEF Pending
  <2> QED
    BY <1>4, <2>1, <2>2, <2>3, StaysAccounted
<1> QED
  BY <1>5, <1>6

LEMMA TickAccounted ==
    ASSUME PostInv, \A u \in Task : Accounted(u), Tick
    PROVE  \A u \in Task : Accounted(u)'
<1>1. TAKE u \in Task
<1>2. UNCHANGED <<row, client, expired>> /\ Lead(u) \in Node
  BY Parties DEF Tick
<1>3. queue'[Lead(u)] = {Aged(e) : e \in queue[Lead(u)]}
  BY <1>2 DEF Tick, Older, Aged
<1>4. \A e \in queue[Lead(u)] : Aged(e).task = e.task /\ Aged(e).to = e.to
  BY <1>2, Queues DEF PostInv, Types, Queued
<1> HIDE DEF Aged
<1>5. \A p \in Others(u) : Pending(u, p) => Pending(u, p)'
  BY <1>2, <1>3, <1>4 DEF Pending
<1> QED
  BY <1>2, <1>5, StaysAccounted

LEMMA AccountedNext ==
    PostInv /\ PostInv' /\ (\A u \in Task : Accounted(u)) /\ [Next]_tvars
        => \A u \in Task : Accounted(u)'
<1> SUFFICES ASSUME PostInv, PostInv', \A u \in Task : Accounted(u), [Next]_tvars
             PROVE  \A u \in Task : Accounted(u)'
  OBVIOUS
<1>1. ASSUME NEW t \in Task, Post(t) \/ Die(t) PROVE \A u \in Task : Accounted(u)'
  BY <1>1, PostAccounted
<1>2. ASSUME NEW t \in Task, Cancel(t) PROVE \A u \in Task : Accounted(u)'
  BY <1>2, DisableAccounted, Parties DEF Cancel
<1>3. ASSUME NEW t \in Task, NEW n \in Node, Delete(t, n) PROVE \A u \in Task : Accounted(u)'
  BY <1>3, DisableAccounted DEF Delete
<1>4. ASSUME NEW n \in Node, ProcessQueue(n) \/ Purge(n) PROVE \A u \in Task : Accounted(u)'
  BY <1>4, ProcessQueueAccounted, PurgeAccounted
<1>5. CASE UNCHANGED tvars
  BY <1>5 DEF tvars, Accounted, Excused, Posting, PostingFailed, Pending
<1> QED
  BY <1>1, <1>2, <1>3, <1>4, <1>5, TickAccounted DEF Next

\* Every copy of a task that is enabled on a participant is accounted for, whatever
\* requests, answers, statements and processes are lost (task.sql:940).
THEOREM NothingForgotten == Spec => []AccountedFor
<1>1. Init => \A t \in Task : Accounted(t)
  <2> SUFFICES ASSUME Init, NEW t \in Task, NEW n \in Others(t) PROVE row[n][t] # "on"
    BY DEF Accounted
  <2> QED
    BY Parties DEF Init
<1>2. (\A t \in Task : Accounted(t)) => AccountedFor
  BY DEF Accounted, Excused, AccountedFor
<1>3. PostInv /\ PostInv' /\ (\A t \in Task : Accounted(t)) /\ [Next]_tvars
        => (\A t \in Task : Accounted(t))'
  BY AccountedNext
<1> QED
  BY <1>1, <1>2, <1>3, PostInvInit, PostInvNext, PTL DEF Spec

=============================================================================
