-------------------------- MODULE ArchivingProofs --------------------------
(***************************************************************************)
(* No archiving has two threads, and no result is stored twice without a   *)
(* fault, for any number of archivings and threads.  The pool its threads  *)
(* share: what is idle, in use and counted fits together, and every thread *)
(* is answered with the answer to its own request, for any number of       *)
(* threads, processes, drains, skims and mishaps.                          *)
(***************************************************************************)
EXTENDS Archiving, ArchiverPool, FiniteSetTheorems, SequenceTheorems, TLAPS

----------------------------------------------------------------------------
(* Types.                                                                  *)

Todo == [a : Archiving, attempts : Nat]
Worker == [step : {"work", "update", "end"}, a : Archiving, attempts : Nat,
           said : Said \cup {NoAnswer}, tries : 1 .. Tries]

WorkerOK(t) == t.step = "update" => t.said \in Said

ThreadTypes ==
    /\ thread \in [Thread -> Worker \cup {NoThread}]
    /\ \A w \in Running : WorkerOK(thread[w])

MainTypes ==
    /\ main \in [step : {"query", "start", "register"}, todo : Seq(Todo)]
    /\ main.step # "query" => main.todo # <<>>

Types ==
    /\ row \in [Archiving -> Row]
    /\ workers \subseteq Archiving
    /\ ThreadTypes /\ MainTypes
    /\ late \in Said \cup {NoAnswer} /\ strayed \in BOOLEAN
    /\ late # NoAnswer => strayed
    /\ sent \in [Archiving -> Nat]
    /\ faults \in Nat

LEMMA Runners ==
    ASSUME ThreadTypes
    PROVE  /\ Running \subseteq Thread
           /\ \A w \in Running : thread[w] \in Worker
           /\ \A w \in Thread \ Running : thread[w] = NoThread
  BY DEF ThreadTypes, Running, Worker, NoThread

LEMMA ThreadStep ==
    ASSUME ThreadTypes, NEW w \in Thread, NEW new \in Worker, WorkerOK(new),
           thread' = [thread EXCEPT ![w] = new]
    PROVE  /\ ThreadTypes'
           /\ Running' = Running \cup {w}
           /\ thread'[w] = new /\ \A v \in Thread \ {w} : thread'[v] = thread[v]
<1>1. /\ thread' \in [Thread -> Worker \cup {NoThread}]
      /\ thread'[w] = new /\ \A v \in Thread \ {w} : thread'[v] = thread[v]
  BY DEF ThreadTypes
<1>2. Running' = Running \cup {w}
  BY <1>1 DEF Running, Worker
<1> QED
  BY <1>1, <1>2, Runners DEF ThreadTypes

LEMMA ThreadEnd ==
    ASSUME ThreadTypes, NEW w \in Thread, thread' = [thread EXCEPT ![w] = NoThread]
    PROVE  /\ ThreadTypes'
           /\ Running' = Running \ {w}
           /\ \A v \in Thread \ {w} : thread'[v] = thread[v]
<1>1. /\ thread' \in [Thread -> Worker \cup {NoThread}]
      /\ thread'[w] = NoThread /\ \A v \in Thread \ {w} : thread'[v] = thread[v]
  BY DEF ThreadTypes
<1>2. Running' = Running \ {w}
  BY <1>1 DEF Running, NoThread
<1> QED
  BY <1>1, <1>2, Runners DEF ThreadTypes

LEMMA ThreadSame ==
    ASSUME UNCHANGED thread PROVE Running' = Running /\ (ThreadTypes => ThreadTypes')
  BY DEF Running, ThreadTypes

\* What an answer and the end of the work make of a thread.
LEMMA Answered ==
    ASSUME ThreadTypes, NEW w \in Running, NEW said \in Said, Answer(w, said)
    PROVE  /\ ThreadTypes' /\ Running' = Running
           /\ thread'[w].step = "update" /\ thread'[w].said = said
           /\ thread'[w].a = thread[w].a
           /\ \A v \in Thread \ {w} : thread'[v] = thread[v]
<1> DEFINE new == [thread[w] EXCEPT !.step = "update", !.said = said]
<1>1. w \in Thread /\ thread[w] \in Worker
  BY Runners
<1>2. /\ new \in Worker /\ thread' = [thread EXCEPT ![w] = new]
      /\ new.step = "update" /\ new.said = said /\ new.a = thread[w].a
  BY <1>1 DEF Answer, Worker, ThreadTypes
<1>3. WorkerOK(new)
  BY <1>2 DEF WorkerOK
<1>4. /\ ThreadTypes' /\ Running' = Running \cup {w} /\ thread'[w] = new
      /\ \A v \in Thread \ {w} : thread'[v] = thread[v]
  <2> HIDE DEF new
  <2> QED
    BY <1>1, <1>2, <1>3, ThreadStep
<1> QED
  BY <1>2, <1>4

LEMMA TriedAgain ==
    ASSUME ThreadTypes, NEW w \in Running, thread[w].tries > 1, thread[w].step = "work",
           thread' = [thread EXCEPT ![w].tries = @ - 1]
    PROVE  /\ ThreadTypes' /\ Running' = Running
           /\ thread'[w].step = "work" /\ thread'[w].a = thread[w].a
           /\ \A v \in Thread \ {w} : thread'[v] = thread[v]
<1> DEFINE new == [thread[w] EXCEPT !.tries = @ - 1]
<1>1. w \in Thread /\ thread[w] \in Worker
  BY Runners
<1>2. thread[w].tries - 1 \in 1 .. Tries
  BY <1>1, ArchivingAssumption DEF Worker
<1>3. /\ new \in Worker /\ thread' = [thread EXCEPT ![w] = new]
      /\ new.step = "work" /\ new.a = thread[w].a /\ WorkerOK(new)
  BY <1>1, <1>2 DEF Worker, ThreadTypes, WorkerOK
<1>4. /\ ThreadTypes' /\ Running' = Running \cup {w} /\ thread'[w] = new
      /\ \A v \in Thread \ {w} : thread'[v] = thread[v]
  <2> HIDE DEF new
  <2> QED
    BY <1>1, <1>3, ThreadStep
<1> QED
  BY <1>3, <1>4

\* What may be said to a thread.
LEMMA SaidTypes ==
    /\ Success \in Said /\ Failure \in Said /\ NoAnswer \notin Said
    /\ \A said \in Said : said.delay \in -1 .. MaxDelay /\
                          said.answer \in {"succeeded", "retry", "failed"}
  BY ArchivingAssumption DEF Said, Success, Failure, NoAnswer

\* What an archiver's handling of a request changes.
LEMMA Handling ==
    ASSUME Types, NEW w \in Running, NEW said \in Said, Handled(w, said)
    PROVE  /\ thread[w].a \in Archiving /\ sent[thread[w].a] \in Nat
           /\ sent' \in [Archiving -> Nat]
           /\ \A b \in Archiving \ {thread[w].a} : sent'[b] = sent[b]
           /\ sent'[thread[w].a] =
                 IF said.answer = "succeeded" THEN sent[thread[w].a] + 1 ELSE sent[thread[w].a]
<1>1. thread[w].a \in Archiving
  BY Runners DEF Types, Worker
<1>2. \/ said.answer = "succeeded" /\ Stored(w, 1)
      \/ said.answer # "succeeded" /\ Stored(w, 0)
  BY DEF Handled, Success, Failure
<1> QED
  BY <1>1, <1>2 DEF Stored, Types

LEMMA WorkEnded ==
    ASSUME ThreadTypes, NEW w \in Running, EndWork(w)
    PROVE  /\ ThreadTypes' /\ Running' = Running
           /\ thread'[w].step = "end" /\ thread'[w].a = thread[w].a
           /\ \A v \in Thread \ {w} : thread'[v] = thread[v]
<1> DEFINE new == [thread[w] EXCEPT !.step = "end"]
<1>1. w \in Thread /\ thread[w] \in Worker
  BY Runners
<1>2. /\ new \in Worker /\ thread' = [thread EXCEPT ![w] = new]
      /\ new.step = "end" /\ new.a = thread[w].a
  BY <1>1 DEF EndWork, Worker, ThreadTypes
<1>3. WorkerOK(new)
  BY <1>2 DEF WorkerOK
<1>4. /\ ThreadTypes' /\ Running' = Running \cup {w} /\ thread'[w] = new
      /\ \A v \in Thread \ {w} : thread'[v] = thread[v]
  <2> HIDE DEF new
  <2> QED
    BY <1>1, <1>2, <1>3, ThreadStep
<1> QED
  BY <1>2, <1>4

\* What the main loop goes on with.
LEMMA Going ==
    ASSUME MainTypes, main.step # "query"
    PROVE  /\ Head(main.todo) \in Todo /\ main.todo[1] = Head(main.todo)
           /\ \/ NextRow = Looking
              \/ NextRow = [step |-> "start", todo |-> Tail(main.todo)]
           /\ main' = NextRow => MainTypes'
           /\ main' = Looking => MainTypes'
           /\ main' = [main EXCEPT !.step = "register"] => MainTypes'
<1>1. main.todo \in Seq(Todo) /\ main.todo # <<>> /\ Len(main.todo) \in Nat \ {0}
  BY EmptySeq DEF MainTypes
<1>2. /\ Head(main.todo) \in Todo /\ Tail(main.todo) \in Seq(Todo)
      /\ Len(Tail(main.todo)) = Len(main.todo) - 1 /\ main.todo[1] = Head(main.todo)
  BY <1>1, HeadTailProperties
<1>3. Len(main.todo) # 1 => Tail(main.todo) # <<>>
  <2>1. Tail(main.todo) = <<>> => Len(Tail(main.todo)) = 0
    BY EmptySeq
  <2> QED
    BY <1>1, <1>2, <2>1
<1>4. main' = Looking => MainTypes'
  BY EmptySeq DEF Looking, MainTypes
<1>5. main' = [main EXCEPT !.step = "register"] => MainTypes'
  BY <1>1 DEF MainTypes
<1>6. main' = NextRow => MainTypes'
  BY <1>2, <1>3, <1>4 DEF NextRow, MainTypes
<1> QED
  BY <1>1, <1>2, <1>4, <1>5, <1>6 DEF NextRow

LEMMA MainSame == UNCHANGED main /\ MainTypes => MainTypes'
  BY DEF MainTypes

LEMMA RowTypes ==
    /\ NoRow \in Row
    /\ \A r \in Row : Completed(r) \in Row
    /\ \A a \in Archiving : [NoRow EXCEPT !.state = "open", !.left = TTL[a]] \in Row
    /\ [NoRow EXCEPT !.state = "gone"] \in Row
    /\ \A r \in Row : [r EXCEPT !.wait = Later(@), !.left = Later(@)] \in Row
<1>1. NoRow \in Row
  BY ArchivingAssumption DEF NoRow, Row
<1>2. ASSUME NEW r \in Row PROVE Completed(r) \in Row
  <2>1. -1 \in -1 .. MaxDelay
    BY ArchivingAssumption
  <2> QED
    BY <2>1 DEF Row, Completed
<1>3. ASSUME NEW a \in Archiving PROVE [NoRow EXCEPT !.state = "open", !.left = TTL[a]] \in Row
  <2>1. TTL[a] \in Int \cup {Forever}
    BY ArchivingAssumption
  <2> QED
    BY <1>1, <2>1 DEF Row
<1>4. [NoRow EXCEPT !.state = "gone"] \in Row
  BY <1>1 DEF Row
<1>5. ASSUME NEW r \in Row PROVE [r EXCEPT !.wait = Later(@), !.left = Later(@)] \in Row
  <2>1. r.wait \in -1 .. MaxDelay /\ r.left \in Int \cup {Forever}
    BY DEF Row
  <2>2. Later(r.wait) \in -1 .. MaxDelay /\ Later(r.left) \in Int \cup {Forever}
    BY <2>1, ArchivingAssumption DEF Later
  <2> QED
    BY <2>2 DEF Row
<1> QED
  BY <1>1, <1>2, <1>3, <1>4, <1>5

LEMMA TypesInit == Init => Types
<1> SUFFICES ASSUME Init PROVE Types
  OBVIOUS
<1>1. MainTypes
  BY EmptySeq DEF Init, Looking, MainTypes
<1>2. ThreadTypes
  BY DEF Init, ThreadTypes, Running, NoThread
<1> QED
  BY <1>1, <1>2, RowTypes DEF Init, Types

\* What a query may return.
LEMMA Queried ==
    ASSUME Types, NEW S \in SUBSET Archiving, NEW n \in Nat, NEW s \in archiving_next(n, S)
    PROVE  /\ s \in Seq(Archiving)
           /\ \A i \in DOMAIN s : row[s[i]].state = "open" /\ s[i] \notin S
           /\ \A i, j \in DOMAIN s : i # j => s[i] # s[j]
<1> DEFINE due == {a \in Archiving : Eligible(a, S)}
           m == IF Cardinality(due) < n THEN Cardinality(due) ELSE n
<1>1. IsFiniteSet(due) /\ m \in Nat
  <2>1. IsFiniteSet(due)
    BY FS_Subset, ArchivingAssumption
  <2> QED
    BY <2>1, FS_CardinalityType
<1>2. s \in [1 .. m -> due] /\ IsInjective(s)
  BY DEF archiving_next
<1>3. s \in Seq(due) /\ DOMAIN s = 1 .. m /\ \A i \in 1 .. m : s[i] \in due
  <2> HIDE DEF m, due
  <2> QED
    BY <1>1, <1>2
<1>4. s \in Seq(Archiving)
  BY <1>3
<1>5. \A i \in DOMAIN s : row[s[i]].state = "open" /\ s[i] \notin S
  BY <1>3 DEF Eligible
<1> QED
  BY <1>2, <1>4, <1>5 DEF IsInjective

LEMMA Room ==
    ASSUME workers \subseteq Archiving
    PROVE  /\ IsFiniteSet(workers) /\ Cardinality(workers) \in Nat
           /\ Cardinality(workers) < max_parallel => max_parallel - Cardinality(workers) \in Nat
<1>1. IsFiniteSet(workers)
  BY FS_Subset, ArchivingAssumption
<1>2. Cardinality(workers) \in Nat
  BY <1>1, FS_CardinalityType
<1> QED
  BY <1>1, <1>2, ArchivingAssumption

\* The record of an attempt.
LEMMA RecordedTypes ==
    ASSUME NEW w \in Running, thread[w] \in Worker, WorkerOK(thread[w]),
           thread[w].step = "update", NEW r \in Row
    PROVE  Recorded(r, w) \in Row
<1> DEFINE t == thread[w]
<1>1. Completed(r) \in Row
  BY RowTypes
<1>2. CASE t.said.answer = "succeeded"
  <2>1. PICK n \in Nat : n = Completed(r).attempts + 1
    BY <1>1 DEF Row
  <2>2. Recorded(r, w) = [Completed(r) EXCEPT !.archived = TRUE, !.attempts = n]
    BY <1>2, <2>1 DEF Recorded
  <2> QED
    BY <1>1, <2>2 DEF Row
<1>3. CASE t.said.answer = "failed"
  <2>1. Recorded(r, w) = [Completed(r) EXCEPT !.attempts = @ + 1]
    BY <1>3 DEF Recorded
  <2> QED
    BY <1>1, <2>1 DEF Row
<1>4. CASE t.said.answer = "retry"
  <2>3. t.said.delay \in -1 .. MaxDelay
    BY SaidTypes DEF WorkerOK
  <2>4. PICK n \in Nat, x \in -1 .. MaxDelay : n = r.attempts + 1 /\ x = t.said.delay
    BY <2>3 DEF Row
  <2>5. Recorded(r, w) = [r EXCEPT !.attempts = n, !.wait = x]
    BY <1>4, <2>4 DEF Recorded
  <2> QED
    BY <2>5 DEF Row
<1> QED
  BY <1>2, <1>3, <1>4, SaidTypes DEF WorkerOK

LEMMA TypesNext == Types /\ [Next]_avars => Types'
<1> SUFFICES ASSUME Types, [Next]_avars PROVE Types'
  OBVIOUS
<1>1. ASSUME NEW r, archiving_run_after(r) PROVE Types'
  <2>1. row' \in [Archiving -> Row]
    BY <1>1, RowTypes DEF archiving_run_after, Types, pipes
  <2> QED
    BY <1>1, <2>1, ThreadSame, MainSame DEF archiving_run_after, Types, pipes
<1>2. ASSUME NEW r, Cascade(r) PROVE Types'
  <2>1. row' \in [Archiving -> Row]
    BY <1>2, RowTypes DEF Cascade, Types, pipes
  <2> QED
    BY <1>2, <2>1, ThreadSame, MainSame DEF Cascade, Types, pipes
<1>3. ASSUME archiving_maint_minute PROVE Types'
  <2>1. row' \in [Archiving -> Row]
    BY <1>3, RowTypes DEF archiving_maint_minute, Types, pipes
  <2> QED
    BY <1>3, <2>1, ThreadSame, MainSame DEF archiving_maint_minute, Types, pipes
<1>4. ASSUME Tick PROVE Types'
  <2>1. row' \in [Archiving -> Row]
    BY <1>4, RowTypes DEF Tick, Types, pipes
  <2> QED
    BY <1>4, <2>1, ThreadSame, MainSame DEF Tick, Types, pipes
<1>5. ASSUME Query PROVE Types'
  <2>1. PICK s \in archiving_next(max_parallel - Cardinality(workers), workers) :
          /\ s # <<>>
          /\ main' = [step |-> "start",
                todo |-> [i \in DOMAIN s |-> [a |-> s[i], attempts |-> row[s[i]].attempts]]]
    BY <1>5 DEF Query
  <2>2. s \in Seq(Archiving)
    BY <1>5, <2>1, Room, Queried DEF Types, Query
  <2> DEFINE rows == [i \in DOMAIN s |-> [a |-> s[i], attempts |-> row[s[i]].attempts]]
  <2>3. \A i \in DOMAIN s : [a |-> s[i], attempts |-> row[s[i]].attempts] \in Todo
    BY <2>2 DEF Types, Row, Todo
  <2>4. rows \in Seq(Todo) /\ rows # <<>>
    BY <2>1, <2>2, <2>3
  <2>5. MainTypes'
    BY <2>1, <2>4 DEF MainTypes
  <2> QED
    BY <1>5, <2>5, ThreadSame DEF Query, Types, pipes
<1>6. ASSUME Start PROVE Types'
  <2>1. MainTypes'
    BY <1>6, Going DEF Start, Types, pipes
  <2>2. ASSUME NEW w, NEW r, r = Head(main.todo), w \in Thread \/ w \notin Thread,
               thread' = [thread EXCEPT ![w] =
                  [step |-> "work", said |-> NoAnswer, tries |-> Tries,
                   a |-> r.a, attempts |-> r.attempts]]
        PROVE  ThreadTypes'
    <3> DEFINE new == [step |-> "work", said |-> NoAnswer, tries |-> Tries,
                   a |-> r.a, attempts |-> r.attempts]
    <3>1. new \in Worker /\ WorkerOK(new)
      <4>1. r.a \in Archiving /\ r.attempts \in Nat
        BY <1>6, <2>2, Going DEF Start, Types, Todo
      <4>2. Tries \in 1 .. Tries
        BY ArchivingAssumption
      <4> QED
        BY <4>1, <4>2 DEF Worker, WorkerOK
    <3>2. CASE w \in Thread
      BY <2>2, <3>1, <3>2, ThreadStep DEF Types
    <3>3. CASE w \notin Thread
      BY <2>2, <3>3, ThreadSame DEF Types, ThreadTypes
    <3> QED
      BY <3>2, <3>3
  <2> QED
    BY <1>6, <2>1, <2>2, ThreadSame DEF Start, Types, pipes
<1>7. ASSUME Register PROVE Types'
  BY <1>7, Going, ThreadSame DEF Register, Types, Todo, pipes
<1>8. ASSUME Crash PROVE Types'
  <2>1. MainTypes'
    BY <1>8, EmptySeq DEF Crash, Looking, MainTypes
  <2> QED
    BY <1>8, <2>1 DEF Crash, Types, ThreadTypes, Running, NoThread, Fault
<1>9. ASSUME NEW w \in Thread, Transform(w) PROVE Types'
  <2>1. w \in Running /\ (Answer(w, Success) \/ Answer(w, Failure))
    BY <1>9 DEF Transform, Running
  <2>2. ThreadTypes'
    BY <2>1, Answered, SaidTypes DEF Types
  <2> QED
    BY <1>9, <2>2, MainSame DEF Transform, Types, pipes
<1>10. ASSUME NEW w \in Thread, Sends(w), UNCHANGED <<row, workers, main>>,
             NEW said \in Said, Handled(w, said),
             EndWork(w) \/ \E x \in Said : Answer(w, x),
             late' \in Said \cup {NoAnswer}, strayed' \in BOOLEAN,
             late' # NoAnswer => strayed', faults' \in Nat
       PROVE  Types'
  <2>1. w \in Running
    BY <1>10 DEF Sends, Running
  <2>2. ThreadTypes'
    BY <1>10, <2>1, Answered, WorkEnded DEF Types
  <2>3. sent' \in [Archiving -> Nat]
    BY <1>10, <2>1, Handling
  <2> QED
    BY <1>10, <2>2, <2>3, MainSame DEF Types
<1>15. ASSUME NEW w \in Thread, Send(w) PROVE Types'
  BY <1>10, <1>15 DEF Send, pipes, Types
<1>16. ASSUME NEW w \in Thread, SendStray(w) PROVE Types'
  BY <1>10, <1>16, SaidTypes DEF SendStray, Fault, Types
<1>17. ASSUME NEW w \in Thread, SendBehind(w) PROVE Types'
  BY <1>10, <1>17 DEF SendBehind, Types
<1>18. ASSUME NEW w \in Thread, SendLost(w) PROVE Types'
  <2>1. w \in Running /\ thread[w].step = "work" /\ thread[w].a \in Archiving
    BY <1>18, Runners DEF SendLost, Sends, Running, Worker, Types
  <2>2. sent' \in [Archiving -> Nat]
    BY <1>18, <2>1 DEF SendLost, Stored, Types
  <2>3. ThreadTypes'
    BY <1>18, <2>1, Answered, TriedAgain, SaidTypes DEF SendLost, Types
  <2> QED
    BY <1>18, <2>2, <2>3, MainSame DEF SendLost, Fault, Types
<1>19. ASSUME Dropped PROVE Types'
  BY <1>19, ThreadSame, MainSame DEF Dropped, Types
<1>11. ASSUME NEW w \in Thread, Exception(w) PROVE Types'
  <2>1. w \in Running
    BY <1>11 DEF Exception, Running
  <2> QED
    BY <1>11, <2>1, WorkEnded, MainSame DEF Exception, Types, Fault, pipes
<1>12. ASSUME NEW w \in Thread, Update(w) PROVE Types'
  <2>1. w \in Running /\ thread[w] \in Worker
    BY <1>12, Runners DEF Update, Running, Types
  <2>2. row' \in [Archiving -> Row]
    BY <1>12, <2>1, RecordedTypes DEF Update, Types, ThreadTypes, Worker
  <2> QED
    BY <1>12, <2>1, <2>2, WorkEnded, MainSame DEF Update, Types, pipes
<1>13. ASSUME NEW w \in Thread, End(w) PROVE Types'
  BY <1>13, ThreadEnd, MainSame DEF End, Types, pipes
<1>14. ASSUME UNCHANGED avars PROVE Types'
  BY <1>14, ThreadSame, MainSame DEF avars, pipes, Types
<1> QED
  BY <1>1, <1>2, <1>3, <1>4, <1>5, <1>6, <1>7, <1>8, <1>9, <1>11, <1>12, <1>13, <1>14, <1>15,
     <1>16, <1>17, <1>18, <1>19
  DEF Next, Work

----------------------------------------------------------------------------
(* One worker each.                                                        *)

Pending == IF main.step = "register" THEN {Head(main.todo).a} ELSE {}
Taken == workers \cup Pending
Waits(i) == i \in DOMAIN main.todo /\ (main.step = "start" \/ i # 1)

\* Every thread's archiving is taken, by an entry in workers or by the loop that is
\* about to make one, and no row that waits to be started is.
Working ==
    /\ Cardinality(Taken) <= max_parallel
    /\ \A v, w \in Running : v # w => thread[v].a # thread[w].a
    /\ \A w \in Running : thread[w].a \in Taken
    /\ \A i \in Nat : Waits(i) => main.todo[i].a \notin Taken
    /\ \A i, j \in DOMAIN main.todo : i # j => main.todo[i].a # main.todo[j].a

LEMMA FewRunning ==
    ASSUME Types, Working
    PROVE  /\ Taken \subseteq Archiving /\ IsFiniteSet(Taken) /\ Cardinality(Taken) \in Nat
           /\ IsFiniteSet(Running) /\ Cardinality(Running) \in Nat
           /\ Cardinality(Running) <= Cardinality(Taken)
           /\ OneWorkerEach
<1>1. Taken \subseteq Archiving /\ IsFiniteSet(Taken) /\ Cardinality(Taken) \in Nat
  <2>1. Taken \subseteq Archiving
    BY Going DEF Taken, Pending, Types, Todo
  <2> QED
    BY <2>1, FS_Subset, FS_CardinalityType, ArchivingAssumption
<1>2. IsFiniteSet(Running) /\ Cardinality(Running) \in Nat
  BY Runners, FS_Subset, FS_CardinalityType, ArchivingAssumption DEF Types
<1>3. ASSUME Cardinality(Taken) < Cardinality(Running) PROVE FALSE
  <2> DEFINE f == [w \in Running |-> thread[w].a]
  <2>1. f \in [Running -> Taken]
    BY DEF Working
  <2>2. \E v, w \in Running : v # w /\ f[v] = f[w]
    <3> HIDE DEF f
    <3> QED
      BY <1>1, <1>2, <1>3, <2>1, FS_PigeonHole
  <2> QED
    BY <2>2 DEF Working
<1>4. Cardinality(Running) <= Cardinality(Taken)
  BY <1>1, <1>2, <1>3
<1> QED
  BY <1>1, <1>2, <1>4, ArchivingAssumption DEF Working, OneWorkerEach

\* There is a slot when the loop starts a thread.
LEMMA FreeSlot ==
    ASSUME Types, Working, main.step = "start", Cardinality(workers) < max_parallel
    PROVE  (CHOOSE w \in Thread \ Running : TRUE) \in Thread \ Running
<1>1. Cardinality(Running) < Cardinality(Thread)
  <2>1. Taken = workers
    BY DEF Taken, Pending
  <2>2. IsFiniteSet(Thread) /\ Cardinality(Thread) \in Nat
    BY FS_CardinalityType, ArchivingAssumption
  <2> QED
    BY <2>1, <2>2, FewRunning, ArchivingAssumption
<1>2. Running # Thread /\ Running \subseteq Thread
  BY <1>1, Runners, FewRunning, FS_CardinalityType, ArchivingAssumption DEF Types
<1> QED
  BY <1>2

\* The steps of the table, and those of a thread up to its end, leave who works on
\* what as it is.
Kept ==
    /\ UNCHANGED <<workers, main, Running>>
    /\ \A w \in Running : thread'[w].a = thread[w].a

LEMMA KeptSteps ==
    ASSUME Types, [Next]_avars
    PROVE  Kept \/ Query \/ Start \/ Register \/ Crash \/ \E w \in Thread : End(w)
<1>1. ASSUME UNCHANGED <<workers, thread, main>> PROVE Kept
  BY <1>1 DEF Kept, Running
<1>2. ASSUME NEW w \in Thread,
             Transform(w) \/ Send(w) \/ SendStray(w) \/ SendBehind(w) \/ SendLost(w)
      PROVE  Kept
  <2>1. w \in Running /\ UNCHANGED <<workers, main>>
    BY <1>2 DEF Transform, Send, SendStray, SendBehind, SendLost, Sends, Running
  <2>2. \/ EndWork(w) \/ \E said \in Said : Answer(w, said)
        \/ thread[w].step = "work" /\ thread[w].tries > 1 /\ thread' = [thread EXCEPT ![w].tries = @ - 1]
    BY <1>2, SaidTypes DEF Transform, Send, SendStray, SendBehind, SendLost, Sends, Types
  <2>3. /\ Running' = Running /\ thread'[w].a = thread[w].a
        /\ \A v \in Thread \ {w} : thread'[v] = thread[v]
    BY <2>1, <2>2, Answered, WorkEnded, TriedAgain DEF Types
  <2> QED
    BY <2>1, <2>3, Runners DEF Kept, Types
<1>3. ASSUME NEW w \in Thread, Exception(w) \/ Update(w) PROVE Kept
  <2>1. w \in Running
    BY <1>3 DEF Exception, Update, Running
  <2>2. /\ Running' = Running /\ thread'[w].a = thread[w].a
        /\ \A v \in Thread \ {w} : thread'[v] = thread[v]
    BY <1>3, <2>1, WorkEnded DEF Exception, Update, Types
  <2> QED
    BY <1>3, <2>2, Runners DEF Kept, Exception, Update, Types
<1> QED
  BY <1>1, <1>2, <1>3 DEF Next, Work, avars, archiving_run_after, Cascade,
     archiving_maint_minute, Tick, Dropped

LEMMA WorkingInit == Init => Working
<1> SUFFICES ASSUME Init PROVE Working
  OBVIOUS
<1>1. Taken = {} /\ Running = {} /\ main.todo = <<>>
  BY DEF Init, Taken, Pending, Running, Looking, NoThread
<1> QED
  BY <1>1, FS_EmptySet, ArchivingAssumption DEF Working, Waits

LEMMA OnwardRows ==
    ASSUME MainTypes, main.step # "query", main' = NextRow
    PROVE  /\ main'.step # "register"
           /\ \A i \in DOMAIN main'.todo : /\ i \in Nat /\ i + 1 \in DOMAIN main.todo /\ i + 1 # 1
                                           /\ main'.todo[i] = main.todo[i + 1]
<1>1. main.todo \in Seq(Todo) /\ main.todo # <<>> /\ Len(main.todo) \in Nat \ {0}
  BY EmptySeq DEF MainTypes
<1>2. CASE NextRow = Looking
  BY <1>2 DEF Looking
<1>3. CASE NextRow = [step |-> "start", todo |-> Tail(main.todo)]
  <2>1. /\ Len(Tail(main.todo)) = Len(main.todo) - 1
        /\ \A i \in 1 .. Len(Tail(main.todo)) : Tail(main.todo)[i] = main.todo[i + 1]
        /\ DOMAIN Tail(main.todo) = 1 .. Len(main.todo) - 1
        /\ DOMAIN main.todo = 1 .. Len(main.todo)
    BY <1>1, HeadTailProperties, LenProperties
  <2> QED
    BY <1>1, <1>3, <2>1
<1> QED
  BY <1>2, <1>3, Going

\* The loop has started a thread for its first row.
StartedBy(w) ==
    /\ 1 \in DOMAIN main.todo /\ main.todo[1].a \in Archiving \ workers
    /\ main'.step = "register" /\ main'.todo = main.todo
    /\ Running' = Running \cup {w}
    /\ thread'[w].step = "work" /\ thread'[w].a = main.todo[1].a
    /\ \A v \in Running : thread'[v] = thread[v] /\ v # w

LEMMA Started ==
    ASSUME Types, Working, Start,
           ~(Cardinality(workers) >= max_parallel), Head(main.todo).a \notin workers
    PROVE  \E w \in Thread \ Running : StartedBy(w)
<1> DEFINE w == CHOOSE w \in Thread \ Running : TRUE
           r == Head(main.todo)
           new == [step |-> "work", said |-> NoAnswer, tries |-> Tries,
                   a |-> r.a, attempts |-> r.attempts]
<1>1. /\ Cardinality(workers) < max_parallel
      /\ main' = [main EXCEPT !.step = "register"] /\ thread' = [thread EXCEPT ![w] = new]
  BY Room, ArchivingAssumption DEF Start, Types, pipes
<1>2. w \in Thread \ Running
  BY <1>1, FreeSlot DEF Start
<1>3. /\ r \in Todo /\ r = main.todo[1] /\ 1 \in DOMAIN main.todo
      /\ main'.step = "register" /\ main'.todo = main.todo
  BY <1>1, Going, EmptySeq DEF Start, Types, MainTypes
<1>4. new \in Worker /\ WorkerOK(new) /\ new.a = r.a /\ new.step = "work"
  <2>1. r.a \in Archiving /\ r.attempts \in Nat
    BY <1>3 DEF Todo
  <2>2. Tries \in 1 .. Tries
    BY ArchivingAssumption
  <2> QED
    BY <2>1, <2>2 DEF Worker, WorkerOK
<1>5. /\ Running' = Running \cup {w} /\ thread'[w] = new
      /\ \A v \in Running : thread'[v] = thread[v] /\ v # w
  <2> HIDE DEF new, w
  <2> QED
    BY <1>1, <1>2, <1>4, ThreadStep, Runners DEF Types
<1>6. StartedBy(w)
  <2> HIDE DEF new, w
  <2> QED
    BY <1>3, <1>4, <1>5 DEF StartedBy, Todo
<1> HIDE DEF w
<1> QED
  BY <1>2, <1>6

LEMMA WorkingNext == Types /\ Working /\ [Next]_avars => Working'
<1> SUFFICES ASSUME Types, Working, [Next]_avars PROVE Working'
  OBVIOUS
<1>1. CASE Kept
  <2>1. Taken' = Taken /\ main' = main
    BY <1>1 DEF Kept, Taken, Pending
  <2> QED
    BY <1>1, <2>1 DEF Working, Kept, Waits
<1>2. CASE Query
  <2>1. PICK s \in archiving_next(max_parallel - Cardinality(workers), workers) :
          main' = [step |-> "start",
                todo |-> [i \in DOMAIN s |-> [a |-> s[i], attempts |-> row[s[i]].attempts]]]
    BY <1>2 DEF Query
  <2>2. /\ s \in Seq(Archiving)
        /\ \A i \in DOMAIN s : s[i] \notin workers
        /\ \A i, j \in DOMAIN s : i # j => s[i] # s[j]
    BY <1>2, <2>1, Room, Queried DEF Types, Query
  <2>3. DOMAIN main'.todo = DOMAIN s /\ \A i \in DOMAIN s : main'.todo[i].a = s[i]
    BY <2>1
  <2>4. Taken = workers /\ Taken' = workers
    BY <1>2, <2>1 DEF Query, Taken, Pending
  <2>5. UNCHANGED <<thread, Running>>
    BY <1>2 DEF Query, Running
  <2> QED
    BY <2>2, <2>3, <2>4, <2>5 DEF Working, Waits
<1>3. CASE Start
  <2>1. Taken = workers /\ UNCHANGED workers
    BY <1>3 DEF Start, Taken, Pending
  <2>2. CASE UNCHANGED thread /\ main' = Looking
    <3>1. Taken' = Taken /\ main'.todo = <<>> /\ UNCHANGED Running
      BY <2>1, <2>2 DEF Taken, Pending, Looking, Running
    <3> QED
      BY <2>2, <3>1 DEF Working, Waits
  <2>3. CASE UNCHANGED thread /\ main' = NextRow
    <3>1. Taken' = workers
      BY <1>3, <2>1, <2>3, OnwardRows DEF Start, Taken, Pending, Types
    <3>2. \A i \in DOMAIN main'.todo : Waits(i + 1) /\ main'.todo[i] = main.todo[i + 1]
      BY <1>3, <2>3, OnwardRows DEF Start, Waits, Types
    <3> QED
      BY <1>3, <2>1, <2>3, <3>1, <3>2, OnwardRows DEF Start, Types, Working, Waits, Running
  <2>4. CASE ~(Cardinality(workers) >= max_parallel) /\ Head(main.todo).a \notin workers
    <3>1. PICK w \in Thread \ Running : StartedBy(w)
      BY <1>3, <2>4, Started
    <3>2. Taken' = workers \cup {main.todo[1].a}
      BY <1>3, <2>1, <3>1, Going DEF Start, StartedBy, Taken, Pending, Types
    <3>3. Cardinality(Taken') <= max_parallel
      <4>1. /\ IsFiniteSet(workers) /\ Cardinality(workers) \in Nat
            /\ Cardinality(workers \cup {main.todo[1].a}) = Cardinality(workers) + 1
        BY <3>1, Room, FS_AddElement DEF Types, StartedBy
      <4> QED
        BY <2>4, <3>2, <4>1, ArchivingAssumption
    <3>4. \A i \in Nat : Waits(i)' => main'.todo[i].a \notin Taken'
      BY <1>3, <2>1, <3>1, <3>2 DEF Start, Waits, Working, StartedBy
    <3> QED
      BY <2>1, <3>1, <3>2, <3>3, <3>4 DEF Working, StartedBy
  <2> QED
    BY <1>3, <2>2, <2>3, <2>4 DEF Start
<1>4. CASE Register
  <2>1. Taken' = Taken
    BY <1>4, OnwardRows DEF Register, Taken, Pending, Types
  <2>2. \A i \in DOMAIN main'.todo : Waits(i + 1) /\ main'.todo[i] = main.todo[i + 1]
    BY <1>4, OnwardRows DEF Register, Waits, Types
  <2> QED
    BY <1>4, <2>1, <2>2, OnwardRows DEF Register, Types, Working, Waits, Running
<1>5. CASE Crash
  <2>1. Taken' = {} /\ Running' = {} /\ main'.todo = <<>>
    BY <1>5 DEF Crash, Taken, Pending, Running, Looking, NoThread
  <2> QED
    BY <2>1, FS_EmptySet, ArchivingAssumption DEF Working, Waits
<1>6. ASSUME NEW w \in Thread, End(w) PROVE Working'
  <2>1. /\ Running' = Running \ {w} /\ w \in Running /\ main' = main
        /\ \A v \in Running' : v # w /\ thread'[v] = thread[v]
    BY <1>6, ThreadEnd, Runners DEF End, Running, Types
  <2>2. Taken' = (workers \ {thread[w].a}) \cup Pending
    BY <1>6 DEF End, Taken, Pending
  <2>3. Taken' \subseteq Taken
    BY <2>2 DEF Taken
  <2>4. Cardinality(Taken') <= max_parallel
    <3>1. IsFiniteSet(Taken') /\ Cardinality(Taken') <= Cardinality(Taken)
      BY <2>3, FewRunning, FS_Subset
    <3>2. Cardinality(Taken') \in Nat
      BY <3>1, FS_CardinalityType
    <3> QED
      BY <3>1, <3>2, FewRunning, ArchivingAssumption DEF Working
  <2>5. \A v \in Running' : thread'[v].a \in Taken'
    BY <2>1, <2>2 DEF Working, Taken
  <2> QED
    BY <2>1, <2>3, <2>4, <2>5 DEF Working, Waits
<1> QED
  BY <1>1, <1>2, <1>3, <1>4, <1>5, <1>6, KeptSteps

\* Although a thread may take itself off workers before the loop has put it there, and
\* whatever fails or crashes, no archiving is ever in the hands of two threads, and
\* there are no more threads than allowed (archiver.raw 900-938).
THEOREM OneWorker == Spec => []OneWorkerEach
<1>1. Init => Types /\ Working
  BY TypesInit, WorkingInit
<1>2. Types /\ Working /\ [Next]_avars => (Types /\ Working)'
  BY TypesNext, WorkingNext
<1>3. Types /\ Working => OneWorkerEach
  BY FewRunning
<1> QED
  BY <1>1, <1>2, <1>3, PTL DEF Spec

----------------------------------------------------------------------------
(* Stored once.                                                            *)

\* What a thread may have stored beyond the number of faults.
Slack(w) ==
    LET t == thread[w] IN
    IF \/ t.step = "update" /\ t.said.answer = "succeeded"
       \/ t.step = "end" /\ row[t.a].state # "open"
    THEN 1 ELSE 0

\* As long as no archiver printed a stray line:
\* what is waiting to be sent, or may be sent again, has not been stored more often
\* than something has failed.
Sending ==
    /\ \A a \in Archiving :
          /\ sent[a] <= faults + 1
          /\ row[a].state = "none" => sent[a] = 0
          /\ row[a].state = "open" /\ (\A w \in Running : thread[w].a # a) => sent[a] <= faults
          /\ row[a].archived => sent[a] > 0 \/ "null" \in Script[a]
    /\ \A i \in Nat : Waits(i) => /\ row[main.todo[i].a].state # "none"
                                  /\ sent[main.todo[i].a] <= faults
    /\ \A w \in Running :
          /\ row[thread[w].a].state # "none"
          /\ sent[thread[w].a] <= faults + Slack(w)
          /\ thread[w].step = "update" /\ thread[w].said.answer = "succeeded"
                => sent[thread[w].a] > 0 \/ "null" \in Script[thread[w].a]

LEMMA TodoRows ==
    ASSUME MainTypes
    PROVE  \A i \in DOMAIN main.todo : i \in Nat /\ main.todo[i] \in Todo
  BY LenProperties, ElementOfSeq DEF MainTypes

LEMMA SendingInit == Init => Sending
<1> SUFFICES ASSUME Init PROVE Sending
  OBVIOUS
<1>1. Running = {} /\ main.todo = <<>>
  BY DEF Init, Running, Looking, NoThread
<1> QED
  BY <1>1 DEF Init, Sending, Waits, NoRow

\* The steps of the table open what was not there, and open nothing again.
LEMMA TableSteps ==
    ASSUME Types, NEW r,
           \/ archiving_run_after(r) \/ Cascade(r) \/ archiving_maint_minute \/ Tick
    PROVE  /\ UNCHANGED <<workers, thread, main, pipes, sent, faults>>
           /\ \A a \in Archiving :
                 /\ row'[a].state = "none" => row[a].state = "none"
                 /\ row'[a].state = "open" => row[a].state \in {"none", "open"}
                 /\ row'[a].archived => row[a].archived
<1> USE DEF Types, Row, NoRow
<1>1. CASE archiving_run_after(r)
  <2>1. PICK success \in BOOLEAN :
           row' = [a \in Archiving |->
                     IF OfRun[a] # r THEN row[a]
                     ELSE IF Wants(a, success)
                     THEN [NoRow EXCEPT !.state = "open", !.left = TTL[a]]
                     ELSE [NoRow EXCEPT !.state = "gone"]]
    BY <1>1 DEF archiving_run_after
  <2>2. ASSUME NEW a \in Archiving, OfRun[a] = r
        PROVE  row[a].state = "none" /\ row'[a].state # "none" /\ ~row'[a].archived
    BY <1>1, <2>1, <2>2 DEF archiving_run_after
  <2>3. ASSUME NEW a \in Archiving, OfRun[a] # r PROVE row'[a] = row[a]
    BY <2>1, <2>3
  <2> QED
    BY <1>1, <2>2, <2>3 DEF archiving_run_after
<1>2. CASE Cascade(r)
  BY <1>2 DEF Cascade
<1>3. CASE archiving_maint_minute
  BY <1>3 DEF archiving_maint_minute, Completed
<1>4. CASE Tick
  BY <1>4 DEF Tick
<1> QED
  BY <1>1, <1>2, <1>3, <1>4

\* A step of one thread before its end: it may have sent once more, or something has
\* failed, and its own row is no more open, or open as before.
LEMMA SendingByThread ==
    ASSUME Types, Working, Sending, NEW w \in Running,
           UNCHANGED <<workers, main, Running>>,
           thread'[w].a = thread[w].a, \A v \in Thread \ {w} : thread'[v] = thread[v],
           faults' \in Nat, faults' >= faults,
           \A a \in Archiving \ {thread[w].a} : UNCHANGED <<row[a], sent[a]>>,
           row'[thread[w].a].state # "none",
           sent'[thread[w].a] \in Nat, sent'[thread[w].a] <= faults' + Slack(w)',
           row'[thread[w].a].archived =>
                sent'[thread[w].a] > 0 \/ "null" \in Script[thread[w].a],
           thread'[w].step = "update" /\ thread'[w].said.answer = "succeeded"
                => sent'[thread[w].a] > 0 \/ "null" \in Script[thread[w].a]
    PROVE  Sending'
<1> DEFINE a == thread[w].a
<1>1. a \in Archiving /\ Running \subseteq Thread
  BY Runners DEF Types, Worker
<1>2. Slack(w)' \in {0, 1}
  BY DEF Slack
<1>3. \A b \in Archiving : sent[b] \in Nat
  BY DEF Types
<1>4. faults \in Nat
  BY DEF Types
<1>5. ASSUME NEW b \in Archiving
      PROVE  /\ sent'[b] <= faults' + 1
             /\ row'[b].state = "none" => sent'[b] = 0
             /\ row'[b].state = "open" /\ (\A v \in Running' : thread'[v].a # b)
                   => sent'[b] <= faults'
             /\ row'[b].archived => sent'[b] > 0 \/ "null" \in Script[b]
  <2>1. CASE b = a
    BY <1>1, <1>2, <1>4, <2>1
  <2>2. CASE b # a
    <3>1. (\A v \in Running' : thread'[v].a # b) => \A v \in Running : thread[v].a # b
      BY <1>1, <2>2
    <3> QED
      BY <1>3, <1>4, <2>2, <3>1 DEF Sending
  <2> QED
    BY <2>1, <2>2
<1>6. ASSUME NEW i \in Nat, Waits(i)'
      PROVE  row'[main'.todo[i].a].state # "none" /\ sent'[main'.todo[i].a] <= faults'
  <2>1. Waits(i) /\ main' = main
    BY <1>6 DEF Waits
  <2>2. main.todo[i].a \in Archiving
    BY <2>1, TodoRows DEF Waits, Types, Todo
  <2>3. main.todo[i].a # a
    BY <2>1 DEF Working
  <2> QED
    BY <1>3, <1>4, <2>1, <2>2, <2>3 DEF Sending
<1>7. ASSUME NEW v \in Running'
      PROVE  /\ row'[thread'[v].a].state # "none"
             /\ sent'[thread'[v].a] <= faults' + Slack(v)'
             /\ thread'[v].step = "update" /\ thread'[v].said.answer = "succeeded"
                   => sent'[thread'[v].a] > 0 \/ "null" \in Script[thread'[v].a]
  <2>1. CASE v = w
    BY <2>1
  <2>2. CASE v # w
    <3>1. /\ v \in Running /\ thread'[v] = thread[v]
          /\ thread[v].a # a /\ thread[v].a \in Archiving
      BY <1>1, <2>2, Runners DEF Working, Types, Worker
    <3>2. Slack(v)' = Slack(v) /\ Slack(v) \in {0, 1}
      BY <3>1 DEF Slack
    <3> QED
      BY <1>3, <1>4, <3>1, <3>2 DEF Sending
  <2> QED
    BY <2>1, <2>2
<1> QED
  BY <1>5, <1>6, <1>7 DEF Sending

LEMMA SendingNext ==
    ASSUME Types, Working, Sending, [Next]_avars, ~strayed'
    PROVE  Sending'
<1>1. ASSUME NEW r,
             \/ archiving_run_after(r) \/ Cascade(r) \/ archiving_maint_minute \/ Tick
      PROVE  Sending'
  <2>1. /\ UNCHANGED <<workers, thread, main, sent, faults, Running>>
        /\ \A a \in Archiving :
              /\ row'[a].state = "none" => row[a].state = "none"
              /\ row'[a].state = "open" => row[a].state \in {"none", "open"}
              /\ row'[a].archived => row[a].archived
    BY <1>1, TableSteps DEF Running
  <2>2. \A i \in Nat : Waits(i)' => Waits(i) /\ main.todo[i].a \in Archiving
    BY <2>1, TodoRows DEF Waits, Types, Todo
  <2>3. \A w \in Running : thread[w].a \in Archiving
    BY Runners DEF Types, Worker
  <2>4. \A w \in Running : Slack(w)' >= Slack(w) /\ Slack(w) \in {0, 1} /\ Slack(w)' \in {0, 1}
    BY <2>1, <2>3 DEF Slack, Sending
  <2>5. faults \in Nat /\ \A a \in Archiving : sent[a] \in Nat
    BY DEF Types
  <2> QED
    BY <2>1, <2>2, <2>3, <2>4, <2>5 DEF Sending
<1>2. CASE Query
  <2>1. PICK s \in archiving_next(max_parallel - Cardinality(workers), workers) :
          main' = [step |-> "start",
                todo |-> [i \in DOMAIN s |-> [a |-> s[i], attempts |-> row[s[i]].attempts]]]
    BY <1>2 DEF Query
  <2>2. /\ s \in Seq(Archiving)
        /\ \A i \in DOMAIN s : s[i] \notin workers /\ row[s[i]].state = "open"
    <3>1. workers \in SUBSET Archiving
      BY DEF Types
    <3> DEFINE n == max_parallel - Cardinality(workers)
    <3>2. n \in Nat /\ s \in archiving_next(n, workers)
      BY <1>2, <2>1, <3>1, Room DEF Query
    <3> HIDE DEF n
    <3>3. /\ s \in Seq(Archiving)
          /\ \A i \in DOMAIN s : row[s[i]].state = "open" /\ s[i] \notin workers
      <4>1. \A t \in archiving_next(n, workers) :
               /\ t \in Seq(Archiving)
               /\ \A i \in DOMAIN t : row[t[i]].state = "open" /\ t[i] \notin workers
        BY <3>1, <3>2, Queried
      <4> QED
        BY <3>2, <4>1
    <3> QED
      BY <3>3
  <2>3. DOMAIN main'.todo = DOMAIN s /\ \A i \in DOMAIN s : main'.todo[i].a = s[i]
    BY <2>1
  <2>4. Taken = workers /\ UNCHANGED <<thread, Running, row, sent, faults>>
    BY <1>2 DEF Query, Taken, Pending, Running
  <2>5. ASSUME NEW i \in Nat, Waits(i)'
        PROVE  row[main'.todo[i].a].state # "none" /\ sent[main'.todo[i].a] <= faults
    <3>1. i \in DOMAIN s /\ s[i] \in Archiving /\ \A w \in Running : thread[w].a # s[i]
      BY <2>2, <2>3, <2>4, <2>5 DEF Waits, Working
    <3> QED
      BY <2>2, <2>3, <3>1 DEF Sending
  <2> QED
    BY <2>4, <2>5 DEF Sending, Slack
<1>3. ASSUME UNCHANGED <<row, sent, faults, thread>>, \A i \in DOMAIN main'.todo :
                /\ i \in Nat /\ Waits(i + 1) /\ main'.todo[i] = main.todo[i + 1]
      PROVE  Sending'
  <2>1. UNCHANGED Running /\ \A w \in Running : Slack(w)' = Slack(w)
    BY <1>3 DEF Running, Slack
  <2>2. \A i \in Nat : Waits(i)' => i \in DOMAIN main'.todo /\ i + 1 \in Nat
    BY DEF Waits
  <2> QED
    BY <1>3, <2>1, <2>2 DEF Sending
<1>4. CASE Start
  <2>1. CASE main' = Looking /\ UNCHANGED thread
    BY <1>3, <1>4, <2>1 DEF Start, Looking
  <2>2. CASE main' = NextRow /\ UNCHANGED thread
    BY <1>3, <1>4, <2>2, OnwardRows DEF Start, Waits, Types
  <2>3. CASE ~(Cardinality(workers) >= max_parallel) /\ Head(main.todo).a \notin workers
    <3>1. PICK w \in Thread \ Running : StartedBy(w)
      BY <1>4, <2>3, Started
    <3>2. Waits(1) /\ \A i \in Nat : Waits(i)' => Waits(i)
      BY <1>4, <3>1 DEF Start, StartedBy, Waits
    <3>3. \A v \in Running : Slack(v)' = Slack(v)
      BY <1>4, <3>1 DEF Start, StartedBy, Slack
    <3>4. Slack(w)' = 0
      BY <3>1 DEF StartedBy, Slack
    <3>5. faults \in Nat
      BY DEF Types
    <3> QED
      BY <1>4, <3>1, <3>2, <3>3, <3>4, <3>5 DEF Start, StartedBy, Sending
  <2> QED
    BY <1>4, <2>1, <2>2, <2>3 DEF Start
<1>11. CASE Register
  BY <1>3, <1>11, OnwardRows DEF Register, Waits, Types
<1>5. CASE Crash
  <2>1. Running' = {} /\ main'.todo = <<>> /\ faults' = faults + 1 /\ UNCHANGED <<row, sent>>
    BY <1>5 DEF Crash, Running, Looking, NoThread, Fault
  <2>2. faults \in Nat /\ \A a \in Archiving : sent[a] \in Nat
    BY DEF Types
  <2> QED
    BY <2>1, <2>2 DEF Sending, Waits
<1>6. ASSUME NEW w \in Thread, Transform(w) \/ Send(w) \/ SendLost(w) PROVE Sending'
  <2>1. w \in Running /\ thread[w] \in Worker /\ thread[w].step = "work"
    BY <1>6, Runners DEF Transform, Send, SendLost, Sends, Running, Types
  <2> DEFINE a == thread[w].a
  <2>2. a \in Archiving /\ faults \in Nat /\ sent \in [Archiving -> Nat] /\ sent[a] \in Nat
    BY <2>1 DEF Worker, Types
  <2>3. /\ UNCHANGED <<workers, main, row>> /\ faults' \in Nat /\ faults' >= faults
        /\ sent' \in [Archiving -> Nat] /\ sent'[a] >= sent[a]
        /\ \A b \in Archiving \ {a} : sent'[b] = sent[b]
    <3>1. CASE Transform(w)
      BY <2>2, <3>1 DEF Transform
    <3>2. CASE Send(w)
      BY <2>1, <2>2, <3>2, Handling DEF Send
    <3>3. CASE SendLost(w)
      BY <2>2, <3>3 DEF SendLost, Stored, Fault
    <3> QED
      BY <1>6, <3>1, <3>2, <3>3
  <2> DEFINE Ends == \E said \in Said :
                /\ Answer(w, said)
                /\ said.answer = "succeeded" => sent'[a] > 0 \/ "null" \in Script[a]
                /\ sent'[a] <= sent[a] + (IF said.answer = "succeeded" THEN 1 ELSE faults' - faults)
             Again == /\ thread[w].tries > 1 /\ thread' = [thread EXCEPT ![w].tries = @ - 1]
                      /\ sent'[a] <= sent[a] + (faults' - faults)
  <2>4. Ends \/ Again
    <3>1. CASE Transform(w)
      <4>1. /\ UNCHANGED <<sent, faults>>
            /\ \/ "null" \in Script[a] /\ Answer(w, Success)
               \/ Answer(w, Failure)
        BY <3>1 DEF Transform
      <4>2. Failure.answer # "succeeded"
        BY DEF Failure
      <4> QED
        BY <2>2, <4>1, <4>2, SaidTypes
    <3>2. CASE Send(w)
      <4>1. PICK said \in Said : Handled(w, said) /\ Answer(w, said) /\ UNCHANGED faults
        BY <3>2 DEF Send
      <4>2. sent'[a] = IF said.answer = "succeeded" THEN sent[a] + 1 ELSE sent[a]
        BY <2>1, <4>1, Handling
      <4>3. said.answer = "succeeded" => sent'[a] > 0
        BY <2>2, <4>2
      <4>4. sent'[a] <= sent[a] + (IF said.answer = "succeeded" THEN 1 ELSE faults' - faults)
        BY <2>2, <4>1, <4>2
      <4> QED
        BY <4>1, <4>3, <4>4
    <3>3. CASE SendLost(w)
      <4>1. faults' = faults + 1 /\ sent'[a] <= sent[a] + 1 /\ faults' - faults = 1
        BY <2>2, <3>3 DEF SendLost, Stored, Fault
      <4>2. Failure.answer # "succeeded"
        BY DEF Failure
      <4>3. \/ Answer(w, Failure)
            \/ thread[w].tries > 1 /\ thread' = [thread EXCEPT ![w].tries = @ - 1]
        BY <3>3 DEF SendLost
      <4> QED
        BY <4>1, <4>2, <4>3, SaidTypes
    <3> QED
      BY <1>6, <3>1, <3>2, <3>3
  <2>5. sent[a] <= faults
    BY <2>1, <2>2 DEF Sending, Slack
  <2>6. row[a].state # "none" /\ (row[a].archived => sent[a] > 0 \/ "null" \in Script[a])
    BY <2>1, <2>2 DEF Sending
  <2>7. CASE Again
    <3>1. /\ Running' = Running /\ thread'[w].step = "work"
          /\ thread'[w].a = a /\ \A v \in Thread \ {w} : thread'[v] = thread[v]
      BY <2>1, <2>7, TriedAgain DEF Types
    <3>2. Slack(w)' = 0
      BY <3>1 DEF Slack
    <3>3. sent'[a] <= faults' + Slack(w)' /\ sent'[a] \in Nat
      BY <2>2, <2>3, <2>5, <2>7, <3>2
    <3> QED
      BY <2>1, <2>2, <2>3, <2>6, <3>1, <3>3, SendingByThread
  <2>8. ASSUME NEW said \in Said, Answer(w, said),
               said.answer = "succeeded" => sent'[a] > 0 \/ "null" \in Script[a],
               sent'[a] <= sent[a] + (IF said.answer = "succeeded" THEN 1 ELSE faults' - faults)
        PROVE  Sending'
    <3>1. /\ Running' = Running /\ thread'[w].step = "update" /\ thread'[w].said = said
          /\ thread'[w].a = a /\ \A v \in Thread \ {w} : thread'[v] = thread[v]
      BY <2>1, <2>8, Answered DEF Types
    <3>2. Slack(w)' = IF said.answer = "succeeded" THEN 1 ELSE 0
      BY <3>1 DEF Slack
    <3>3. sent'[a] <= faults' + Slack(w)' /\ sent'[a] \in Nat
      BY <2>2, <2>3, <2>5, <2>8, <3>2
    <3> QED
      BY <2>1, <2>2, <2>3, <2>6, <2>8, <3>1, <3>3, SendingByThread
  <2>9. CASE Ends
    <3> HIDE DEF a
    <3> QED
      BY <2>8, <2>9
  <2> HIDE DEF Ends, Again
  <2> QED
    BY <2>4, <2>7, <2>9
<1>12. ASSUME NEW w \in Thread, SendStray(w) \/ SendBehind(w) PROVE FALSE
  BY <1>12 DEF SendStray, SendBehind, Types
<1>13. CASE Dropped
  BY <1>13 DEF Dropped, Sending, Waits, Running, Slack
<1>7. ASSUME NEW w \in Thread, Exception(w) PROVE Sending'
  <2>1. w \in Running /\ thread[w] \in Worker
    BY <1>7, Runners DEF Exception, Running, Types
  <2> DEFINE a == thread[w].a
  <2>2. a \in Archiving /\ faults \in Nat /\ sent[a] \in Nat
    BY <2>1 DEF Worker, Types
  <2>3. /\ Running' = Running /\ thread'[w].step = "end"
        /\ thread'[w].a = a /\ \A v \in Thread \ {w} : thread'[v] = thread[v]
    BY <1>7, <2>1, WorkEnded DEF Types, Exception
  <2>4. UNCHANGED <<workers, main, row, sent>> /\ faults' = faults + 1
    BY <1>7 DEF Exception, Fault
  <2>5. sent[a] <= faults + 1 /\ Slack(w)' \in {0, 1}
    BY <2>2 DEF Sending, Slack
  <2>6. row[a].state # "none" /\ (row[a].archived => sent[a] > 0 \/ "null" \in Script[a])
    BY <2>1, <2>2 DEF Sending
  <2> QED
    BY <2>1, <2>2, <2>3, <2>4, <2>5, <2>6, SendingByThread
<1>8. ASSUME NEW w \in Thread, Update(w) PROVE Sending'
  <2>1. w \in Running /\ thread[w] \in Worker /\ thread[w].step = "update"
    BY <1>8, Runners DEF Update, Running, Types
  <2> DEFINE a == thread[w].a
  <2>2. a \in Archiving /\ faults \in Nat /\ sent[a] \in Nat /\ row[a] \in Row
    BY <2>1 DEF Worker, Types
  <2>3. /\ Running' = Running /\ thread'[w].step = "end"
        /\ thread'[w].a = a /\ \A v \in Thread \ {w} : thread'[v] = thread[v]
    BY <1>8, <2>1, WorkEnded DEF Types, Update
  <2>4. UNCHANGED <<workers, main, sent, faults>> /\ \A b \in Archiving \ {a} : row'[b] = row[b]
    BY <1>8, <2>2 DEF Update, Types, pipes
  <2>5. row[a].state # "none" /\ (row[a].archived => sent[a] > 0 \/ "null" \in Script[a])
    BY <2>1, <2>2 DEF Sending
  <2>6. thread[w].said.answer \in {"succeeded", "failed", "retry"}
    BY <2>1, SaidTypes DEF Types, ThreadTypes, WorkerOK
  <2>7. /\ row'[a].state # "none"
        /\ thread[w].said.answer = "succeeded" => row'[a].state # "open"
        /\ row'[a].archived => row[a].archived \/ thread[w].said.answer = "succeeded"
    <3>1. CASE row[a].state = "gone"
      BY <1>8, <2>2, <3>1 DEF Update
    <3>2. CASE row[a].state # "gone"
      <4>1. row'[a] = Recorded(row[a], w)
        BY <1>8, <2>2, <3>2 DEF Update, Types, pipes
      <4>2. /\ Completed(row[a]) \in Row /\ Completed(row[a]).state = "done"
            /\ Completed(row[a]).archived = row[a].archived
        BY <2>2, RowTypes DEF Completed, Row
      <4>3. CASE thread[w].said.answer = "succeeded"
        BY <4>1, <4>2, <4>3 DEF Recorded, Row
      <4>4. CASE thread[w].said.answer = "failed"
        BY <4>1, <4>2, <4>4 DEF Recorded, Row
      <4>5. CASE thread[w].said.answer = "retry"
        BY <2>2, <2>5, <4>1, <4>5 DEF Recorded, Row
      <4> QED
        BY <2>6, <4>3, <4>4, <4>5
    <3> QED
      BY <3>1, <3>2
  <2>8. sent[a] <= faults + Slack(w)'
    <3>1. sent[a] <= faults + (IF thread[w].said.answer = "succeeded" THEN 1 ELSE 0)
      BY <2>1 DEF Sending, Slack
    <3>2. Slack(w)' = IF row'[a].state # "open" THEN 1 ELSE 0
      BY <2>3 DEF Slack
    <3> QED
      BY <2>2, <2>7, <3>1, <3>2
  <2>9. row'[a].archived => sent[a] > 0 \/ "null" \in Script[a]
    BY <2>1, <2>5, <2>7 DEF Sending
  <2> QED
    BY <2>1, <2>2, <2>3, <2>4, <2>7, <2>8, <2>9, SendingByThread
<1>9. ASSUME NEW w \in Thread, End(w) PROVE Sending'
  <2>1. w \in Running /\ thread[w] \in Worker /\ thread[w].step = "end"
    BY <1>9, Runners DEF End, Running, Types
  <2>2. /\ Running' = Running \ {w} /\ UNCHANGED <<main, row, sent, faults>>
        /\ \A v \in Running' : thread'[v] = thread[v] /\ v \in Running
    BY <1>9, ThreadEnd, Runners DEF End, Types, pipes
  <2>3. \A v \in Running' : Slack(v)' = Slack(v)
    BY <2>2 DEF Slack
  <2>4. faults \in Nat
    BY DEF Types
  <2>5. ASSUME NEW a \in Archiving, row[a].state = "open",
               \A v \in Running' : thread'[v].a # a
        PROVE  sent[a] <= faults
    <3>1. CASE thread[w].a = a
      BY <2>1, <2>4, <2>5, <3>1 DEF Sending, Slack
    <3>2. CASE thread[w].a # a
      BY <2>2, <2>5, <3>2 DEF Sending
    <3> QED
      BY <3>1, <3>2
  <2> QED
    BY <2>2, <2>3, <2>5 DEF Sending, Waits
<1>10. CASE UNCHANGED avars
  BY <1>10 DEF avars, Sending, Waits, Running, Slack
<1> QED
  BY <1>1, <1>2, <1>3, <1>4, <1>5, <1>6, <1>7, <1>8, <1>9, <1>10, <1>11, <1>12, <1>13
  DEF Next, Work

\* Whatever fails, a result is stored at most once more than something has failed, each
\* try of an archiver that dies or falls silent included, and is marked as archived only
\* if it was stored or its transform left nothing to send, as long as no archiver prints a
\* stray line (archiver.raw 700-840, program.py 573-587).
THEOREM StoredOnceEach == Spec => []StoredOnce
<1> DEFINE Inv == Types /\ Working /\ (~strayed => Sending)
<1>1. Init => Inv
  BY TypesInit, WorkingInit, SendingInit
<1>2. Inv /\ [Next]_avars => Inv'
  <2> SUFFICES ASSUME Inv, [Next]_avars PROVE Inv'
    OBVIOUS
  <2>1. strayed => strayed'
    BY DEF Next, Work, avars, pipes, archiving_run_after, Cascade, archiving_maint_minute, Tick,
           Query, Start, Register, Crash, Transform, Send, SendStray, SendBehind, SendLost,
           Dropped, Exception, Update, End
  <2>2. Types' /\ Working'
    BY TypesNext, WorkingNext
  <2>3. ~strayed' => Sending'
    BY <2>1, SendingNext
  <2> QED
    BY <2>2, <2>3
<1>3. Inv => StoredOnce
  BY DEF Types, Sending, StoredOnce
<1> QED
  BY <1>1, <1>2, <1>3, PTL DEF Spec

----------------------------------------------------------------------------
(* The pool: the invariant.                                                *)

\* A thread has a process just as long as it asks or returns, and knows the reset
\* cycle in which the process was started; it asks only while it has tries left.
HandsOK(c) ==
    /\ IF caller[c].step \in {"ask", "return"}
       THEN /\ caller[c].process \in Process
            /\ born[caller[c].process] = caller[c].cycle
       ELSE caller[c].process = NoProcess
    /\ caller[c].step \in {"want", "ask"} => caller[c].tries > 0

\* What is in use runs, and is neither idle nor another thread's.
InUse ==
    \A c \in Caller : caller[c].process # NoProcess =>
        /\ caller[c].process \in live \ Range(pool)
        /\ \A d \in Caller : caller[d].process = caller[c].process => c = d

\* What runs is idle or in use.
NoneLost == live \subseteq Range(pool) \cup Held

PoolInv ==
    /\ PoolTypeOK
    /\ \A c \in Caller : HandsOK(c)
    /\ IsInjective(pool) /\ Range(pool) \subseteq live
    /\ InUse /\ NoneLost
    /\ IsFiniteSet(live) /\ SizeIsLive
    /\ PoolIsFresh

----------------------------------------------------------------------------
(* Sequences without repetition.                                           *)

\* What is cut off and what is left when the first m elements are kept.
Gone(s, m) == {s[i] : i \in m + 1 .. Len(s)}

LEMMA Cut ==
    ASSUME NEW S, NEW s \in Seq(S), IsInjective(s), NEW m \in 0 .. Len(s)
    PROVE  /\ SubSeq(s, 1, m) \in Seq(S) /\ Len(SubSeq(s, 1, m)) = m
           /\ IsInjective(SubSeq(s, 1, m))
           /\ \A i \in 1 .. m : SubSeq(s, 1, m)[i] = s[i]
           /\ Gone(s, m) \subseteq Range(s)
           /\ Range(SubSeq(s, 1, m)) = Range(s) \ Gone(s, m)
           /\ IsFiniteSet(Gone(s, m)) /\ Cardinality(Gone(s, m)) = Len(s) - m
  <1> DEFINE kept == SubSeq(s, 1, m)
             rest == m + 1 .. Len(s)
             gone == {s[i] : i \in rest}
             f == [i \in rest |-> s[i]]
  <1>1. /\ Len(s) \in Nat /\ DOMAIN s = 1 .. Len(s)
        /\ \A i \in 1 .. Len(s) : s[i] \in S
    BY LenProperties, ElementOfSeq
  <1>2. /\ kept \in Seq(S) /\ Len(kept) = m
        /\ \A i \in 1 .. m : kept[i] = s[i]
    BY <1>1, SubSeqProperties, SMTT(30)
  <1>3. DOMAIN kept = 1 .. m
    BY <1>2, LenProperties
  <1>4. IsInjective(kept)
    BY <1>1, <1>2, <1>3 DEF IsInjective
  <1>5. gone \subseteq Range(s)
    BY <1>1 DEF Range
  <1>6. Range(kept) = Range(s) \ gone
    <2>1. ASSUME NEW x \in Range(kept) PROVE x \in Range(s) \ gone
      BY <2>1, <1>1, <1>2, <1>3 DEF Range, IsInjective
    <2>2. ASSUME NEW x \in Range(s), x \notin gone PROVE x \in Range(kept)
      <3>1. PICK i \in 1 .. Len(s) : x = s[i]
        BY <1>1 DEF Range
      <3>2. i \in 1 .. m
        BY <3>1, <2>2, <1>1
      <3>3. QED
        BY <3>1, <3>2, <1>2, <1>3 DEF Range
    <2>3. QED
      BY <2>1, <2>2
  <1>7. f \in Bijection(rest, gone)
    BY <1>1 DEF Bijection, Injection, Surjection, IsInjective
  <1>8. IsFiniteSet(rest) /\ Cardinality(rest) = Len(s) - m
    <2>1. m + 1 \in Int /\ Len(s) \in Int
      BY <1>1
    <2>2. /\ IsFiniteSet(m + 1 .. Len(s))
          /\ Cardinality(m + 1 .. Len(s)) = IF m + 1 > Len(s) THEN 0 ELSE Len(s) - (m + 1) + 1
      BY <2>1, FS_Interval, Zenon
    <2>3. QED
      BY <2>2, <1>1
  <1>9. IsFiniteSet(gone) /\ Cardinality(gone) = Len(s) - m
    BY <1>7, <1>8, FS_Bijection DEF ExistsBijection
  <1>10. QED
    BY <1>2, <1>4, <1>5, <1>6, <1>9 DEF Gone

\* One that gets a new element at its end.
LEMMA Appended ==
    ASSUME NEW S, NEW s \in Seq(S), IsInjective(s), NEW x \in S, x \notin Range(s)
    PROVE  /\ Append(s, x) \in Seq(S)
           /\ IsInjective(Append(s, x))
           /\ Range(Append(s, x)) = Range(s) \cup {x}
  <1> DEFINE t == Append(s, x)
  <1>1. /\ Len(s) \in Nat /\ DOMAIN s = 1 .. Len(s)
        /\ t \in Seq(S) /\ DOMAIN t = 1 .. Len(s) + 1
        /\ \A i \in 1 .. Len(s) : t[i] = s[i]
        /\ t[Len(s) + 1] = x
    BY LenProperties, AppendProperties
  <1>2. IsInjective(t)
    BY <1>1 DEF IsInjective, Range
  <1>3. Range(t) = Range(s) \cup {x}
    BY <1>1 DEF Range
  <1>4. QED
    BY <1>1, <1>2, <1>3

----------------------------------------------------------------------------
(* What a thread does with the pool.                                       *)

\* The records of threads, and what the assumption says.
Callers == [step : {"want", "ask", "return", "done"}, process : Process \cup {NoProcess},
            cycle : 0 .. MaxDrains, tries : 0 .. retries,
            result : Caller \cup {Stray, Nothing}]

\* However many processes there are, one more can be started while there is room.
LEMMA Fresh ==
    ASSUME PoolInv, size < max_size
    PROVE  (CHOOSE p \in Process : p \notin live) \in Process \ live
  <1>1. live \in SUBSET Process /\ IsFiniteSet(live) /\ Cardinality(live) < max_size
    BY DEF PoolInv, PoolTypeOK, SizeIsLive
  <1>2. live # Process
    BY <1>1, PoolAssumption, FS_CardinalityType DEF PoolAssumption
  <1>3. QED
    BY <1>1, <1>2

\* A process that is in no thread's hands passes into those of one.
LEMMA Handed ==
    ASSUME PoolInv, NEW c \in Caller, caller[c].step = "want", NEW p \in Process,
           Hold(c, p), born'[p] = reset_cycle,
           \A d \in Caller : caller[d].process # p,
           \A q \in Process \ {p} : born'[q] = born[q],
           p \in live', p \notin Range(pool'),
           live' = live \cup {p}, Range(pool') = Range(pool) \ {p}
    PROVE  /\ caller' \in [Caller -> Callers]
           /\ \A d \in Caller : HandsOK(d)'
           /\ InUse' /\ NoneLost'
  <1>1. caller' \in [Caller -> Callers]
    BY DEF PoolInv, PoolTypeOK, Callers, Hold
  <1>2. /\ caller'[c].process = p /\ caller'[c].step = "ask" /\ caller'[c].cycle = reset_cycle
        /\ caller'[c].tries = caller[c].tries
        /\ \A d \in Caller \ {c} : caller'[d] = caller[d]
        /\ p # NoProcess
    BY PoolAssumption DEF PoolInv, PoolTypeOK, Hold, PoolAssumption
  <1>3. ASSUME NEW d \in Caller PROVE HandsOK(d)'
    BY <1>2 DEF PoolInv, HandsOK
  <1>4. InUse'
    BY <1>2 DEF PoolInv, InUse
  <1>5. NoneLost'
    <2>1. caller[c].process = NoProcess
      BY DEF PoolInv, HandsOK
    <2>2. Held \cup {p} \subseteq Held'
      BY <1>2, <2>1 DEF Held
    <2>3. QED
      BY <2>2 DEF PoolInv, NoneLost
  <1>6. QED
    BY <1>1, <1>3, <1>4, <1>5

LEMMA TakeKeeps ==
    ASSUME PoolInv, NEW c \in Caller, Take(c)
    PROVE  PoolInv'
  <1> DEFINE n == Len(pool)
             p == pool[n]
  <1>1. /\ pool \in Seq(Process) /\ n \in Nat \ {0} /\ DOMAIN pool = 1 .. n
        /\ p \in Process /\ p \in Range(pool)
    BY EmptySeq, LenProperties, ElementOfSeq DEF PoolInv, PoolTypeOK, Take, Range
  <1>2. pool' = SubSeq(pool, 1, n - 1) /\ n - 1 \in 0 .. n
    BY <1>1 DEF Take, Front
  <1>3. Gone(pool, n - 1) = {p}
    BY <1>1 DEF Gone
  <1>4. /\ pool' \in Seq(Process) /\ Len(pool') = n - 1 /\ IsInjective(pool')
        /\ \A i \in 1 .. n - 1 : pool'[i] = pool[i]
        /\ Range(pool') = Range(pool) \ {p}
    <2>1. IsInjective(pool)
      BY DEF PoolInv
    <2> HIDE DEF p
    <2>2. QED
      BY <1>1, <1>2, <1>3, <2>1, Cut
  <1>5. DOMAIN pool' = 1 .. n - 1
    BY <1>4, LenProperties
  <1>6. /\ \A d \in Caller : caller[d].process # p
        /\ born' = born /\ born[p] = reset_cycle
        /\ live' = live /\ p \in live
    BY <1>1, PoolAssumption DEF PoolInv, InUse, PoolIsFresh, Take, programs, PoolAssumption
  <1>7. /\ caller' \in [Caller -> Callers]
        /\ \A d \in Caller : HandsOK(d)'
        /\ InUse' /\ NoneLost'
    BY <1>1, <1>4, <1>6, Handed DEF Take
  <1>8. max_utilization' \in Nat
    BY <1>4 DEF PoolInv, PoolTypeOK, Take, Greater
  <1>9. PoolTypeOK'
    BY <1>4, <1>7, <1>8 DEF PoolInv, PoolTypeOK, Take, Callers, programs
  <1>10. PoolIsFresh'
    BY <1>1, <1>4, <1>5 DEF PoolInv, PoolIsFresh, Take, programs
  <1>11. SizeIsLive' /\ IsFiniteSet(live') /\ Range(pool') \subseteq live'
    BY <1>4 DEF PoolInv, SizeIsLive, Take
  <1>12. QED
    BY <1>4, <1>7, <1>9, <1>10, <1>11 DEF PoolInv

LEMMA CreateKeeps ==
    ASSUME PoolInv, NEW c \in Caller, Create(c)
    PROVE  PoolInv'
  <1> DEFINE p == CHOOSE p \in Process : p \notin live
  <1>1. p \in Process \ live
    BY Fresh DEF Create
  <1> HIDE DEF p
  <1>2. /\ Hold(c, p) /\ pool = <<>> /\ pool' = pool
        /\ live' = live \cup {p}
        /\ born' = [born EXCEPT ![p] = reset_cycle]
        /\ unread' = [unread EXCEPT ![p] = <<>>]
        /\ size' = size + 1 /\ size < max_size
        /\ max_utilization' = Greater(max_utilization, size')
        /\ UNCHANGED <<reset_cycle, skim_count, mishaps, babbled>>
    BY DEF Create, p
  <1>3. Range(pool) = {} /\ DOMAIN pool = {}
    BY <1>2, EmptySeq, LenProperties DEF Range
  <1>4. /\ \A d \in Caller : caller[d].process # p
        /\ born'[p] = reset_cycle
        /\ \A q \in Process \ {p} : born'[q] = born[q]
    BY <1>1, <1>2, PoolAssumption DEF PoolInv, InUse, PoolTypeOK, PoolAssumption
  <1>5. /\ caller' \in [Caller -> Callers]
        /\ \A d \in Caller : HandsOK(d)'
        /\ InUse' /\ NoneLost'
    BY <1>1, <1>2, <1>3, <1>4, Handed DEF Create
  <1>6. SizeIsLive' /\ IsFiniteSet(live')
    BY <1>1, <1>2, FS_AddElement, PoolAssumption DEF PoolInv, SizeIsLive, PoolTypeOK, PoolAssumption
  <1>7. max_utilization' \in Nat /\ size' \in Nat
    BY <1>2 DEF PoolInv, PoolTypeOK, Greater
  <1>8. PoolTypeOK'
    BY <1>1, <1>2, <1>5, <1>7, EmptySeq DEF PoolInv, PoolTypeOK, Callers
  <1>9. PoolIsFresh' /\ IsInjective(pool') /\ Range(pool') \subseteq live'
    BY <1>2, <1>3 DEF PoolInv, PoolIsFresh, IsInjective
  <1>10. QED
    BY <1>5, <1>6, <1>8, <1>9 DEF PoolInv

LEMMA CreateFailsKeeps ==
    ASSUME PoolInv, NEW c \in Caller, CreateFails(c)
    PROVE  PoolInv'
  <1>1. /\ caller[c].step = "want" /\ Finish(c) /\ Mishap
        /\ UNCHANGED <<pool, counters, live, born, unread, babbled>>
    BY DEF CreateFails
  <1>2. /\ caller'[c].process = NoProcess /\ caller'[c].step = "done"
        /\ \A d \in Caller \ {c} : caller'[d] = caller[d]
        /\ caller' \in [Caller -> Callers]
    BY <1>1, ZenonT(40) DEF PoolInv, PoolTypeOK, Callers, Finish
  <1>3. caller[c].process = NoProcess /\ \A d \in Caller : caller'[d].process = caller[d].process
    BY <1>1, <1>2 DEF PoolInv, HandsOK
  <1>4. \A d \in Caller : HandsOK(d)'
    BY <1>1, <1>2 DEF PoolInv, HandsOK
  <1>5. Held' = Held
    BY <1>3 DEF Held
  <1>6. mishaps' \in 0 .. MaxMishaps
    BY <1>1, PoolAssumption DEF Mishap, PoolInv, PoolTypeOK, PoolAssumption
  <1>7. PoolTypeOK'
    BY <1>1, <1>2, <1>6 DEF PoolInv, PoolTypeOK, Callers, counters
  <1>8. InUse' /\ NoneLost' /\ SizeIsLive' /\ PoolIsFresh'
    BY <1>1, <1>3, <1>5 DEF PoolInv, InUse, NoneLost, SizeIsLive, PoolIsFresh, counters
  <1>9. QED
    BY <1>1, <1>4, <1>7, <1>8 DEF PoolInv

LEMMA PutBackKeeps ==
    ASSUME PoolInv, NEW c \in Caller, PutBack(c)
    PROVE  PoolInv'
  <1> DEFINE p == caller[c].process
             same == caller[c].cycle = reset_cycle
  <1>1. /\ caller[c].step = "return" /\ Finish(c)
        /\ UNCHANGED <<reset_cycle, max_utilization, born, programs>>
    BY DEF PutBack
  <1>2. /\ p \in Process /\ p # NoProcess /\ born[p] = caller[c].cycle
        /\ p \in live /\ p \notin Range(pool)
    BY <1>1, PoolAssumption DEF PoolInv, HandsOK, InUse, PoolAssumption
  <1>3. /\ caller'[c].process = NoProcess /\ caller'[c].step = "done"
        /\ \A d \in Caller \ {c} : caller'[d] = caller[d]
        /\ caller' \in [Caller -> Callers]
    BY <1>1, ZenonT(40) DEF PoolInv, PoolTypeOK, Callers, Finish
  <1>4. \A d \in Caller : HandsOK(d)'
    BY <1>1, <1>3 DEF PoolInv, HandsOK
  <1>5. Held' = Held \ {p}
    <2>1. \A d \in Caller \ {c} : caller[d].process # p
      BY <1>2 DEF PoolInv, InUse
    <2>2. QED
      BY <1>3, <2>1 DEF Held
  <1>6. CASE same /\ skim_count = 0 /\ size <= max_size
    <2>1. pool' = Append(pool, p) /\ UNCHANGED <<size, skim_count, live>>
      BY <1>6 DEF PutBack
    <2>2. /\ pool' \in Seq(Process) /\ IsInjective(pool')
          /\ Range(pool') = Range(pool) \cup {p}
      BY <1>2, <2>1, Appended DEF PoolInv, PoolTypeOK
    <2>3. InUse'
      BY <1>2, <1>3, <2>1, <2>2 DEF PoolInv, InUse
    <2>4. NoneLost' /\ Range(pool') \subseteq live'
      BY <1>2, <1>5, <2>1, <2>2 DEF PoolInv, NoneLost
    <2>5. PoolIsFresh'
      <3>1. pool \in Seq(Process) /\ Len(pool) \in Nat /\ DOMAIN pool = 1 .. Len(pool)
        BY LenProperties DEF PoolInv, PoolTypeOK
      <3>2. /\ DOMAIN pool' = 1 .. Len(pool) + 1
            /\ \A i \in 1 .. Len(pool) : pool'[i] = pool[i]
            /\ pool'[Len(pool) + 1] = p
        BY <1>2, <2>1, <3>1, AppendProperties, LenProperties
      <3>3. QED
        BY <1>1, <1>2, <1>6, <3>1, <3>2 DEF PoolInv, PoolIsFresh
    <2>6. PoolTypeOK'
      BY <1>1, <1>3, <2>1, <2>2 DEF PoolInv, PoolTypeOK, Callers, programs
    <2>7. SizeIsLive' /\ IsFiniteSet(live')
      BY <2>1 DEF PoolInv, SizeIsLive
    <2>8. QED
      BY <1>4, <2>2, <2>3, <2>4, <2>5, <2>6, <2>7 DEF PoolInv
  <1>7. CASE ~(same /\ skim_count = 0 /\ size <= max_size)
    <2>1. /\ live' = live \ {p} /\ size' = size - 1 /\ pool' = pool
          /\ skim_count' = IF same /\ skim_count > 0 THEN skim_count - 1 ELSE skim_count
      BY <1>7 DEF PutBack
    <2>2. SizeIsLive' /\ IsFiniteSet(live') /\ size' \in Nat
      <3>1. IsFiniteSet(live) /\ size = Cardinality(live) /\ size <= max_size
        BY DEF PoolInv, SizeIsLive
      <3>2. IsFiniteSet(live') /\ Cardinality(live') = size - 1
        BY <1>2, <2>1, <3>1, FS_RemoveElement
      <3>3. size' \in Nat
        BY <2>1, <3>2, FS_CardinalityType
      <3>4. QED
        BY <2>1, <3>1, <3>2, <3>3, PoolAssumption DEF SizeIsLive, PoolAssumption, PoolInv, PoolTypeOK
    <2>3. InUse'
      BY <1>3, <2>1 DEF PoolInv, InUse
    <2>4. NoneLost' /\ Range(pool') \subseteq live'
      BY <1>2, <1>5, <2>1 DEF PoolInv, NoneLost
    <2>5. skim_count' \in Nat
      BY <2>1 DEF PoolInv, PoolTypeOK
    <2>6. PoolTypeOK'
      BY <1>1, <1>3, <2>1, <2>2, <2>5 DEF PoolInv, PoolTypeOK, Callers, programs
    <2>7. PoolIsFresh' /\ IsInjective(pool')
      BY <1>1, <2>1 DEF PoolInv, PoolIsFresh
    <2>8. QED
      BY <1>4, <2>2, <2>3, <2>4, <2>6, <2>7 DEF PoolInv
  <1>8. QED
    BY <1>6, <1>7

----------------------------------------------------------------------------
(* Draining and skimming.                                                  *)

\* The end of the pool is stopped.
LEMMA Stopped ==
    ASSUME PoolInv, NEW m \in 0 .. Len(pool),
           pool' = SubSeq(pool, 1, m), live' = live \ Gone(pool, m),
           size' = size - (Len(pool) - m), caller' = caller, born' = born,
           m > 0 => reset_cycle' = reset_cycle
    PROVE  /\ pool' \in Seq(Process) /\ live' \subseteq Process /\ size' \in Nat
           /\ \A c \in Caller : HandsOK(c)'
           /\ IsInjective(pool') /\ Range(pool') \subseteq live'
           /\ InUse' /\ NoneLost' /\ IsFiniteSet(live') /\ SizeIsLive' /\ PoolIsFresh'
  <1>1. pool \in Seq(Process) /\ IsInjective(pool) /\ Len(pool) \in Nat
    BY LenProperties DEF PoolInv, PoolTypeOK
  <1>2. /\ pool' \in Seq(Process) /\ Len(pool') = m /\ IsInjective(pool')
        /\ \A i \in 1 .. m : pool'[i] = pool[i]
        /\ Gone(pool, m) \subseteq Range(pool)
        /\ Range(pool') = Range(pool) \ Gone(pool, m)
        /\ IsFiniteSet(Gone(pool, m)) /\ Cardinality(Gone(pool, m)) = Len(pool) - m
    BY <1>1, Cut
  <1>3. /\ Range(pool) \subseteq live /\ IsFiniteSet(live)
        /\ size = Cardinality(live) /\ size <= max_size /\ size \in Nat
    BY DEF PoolInv, SizeIsLive, PoolTypeOK
  <1>4. /\ IsFiniteSet(live') /\ Cardinality(live') = size - (Len(pool) - m)
    <2>1. live \cap Gone(pool, m) = Gone(pool, m)
      BY <1>2, <1>3
    <2>2. /\ IsFiniteSet(live \ Gone(pool, m))
          /\ Cardinality(live \ Gone(pool, m)) = Cardinality(live) - Cardinality(live \cap Gone(pool, m))
      BY <1>3, FS_Difference, Zenon
    <2>3. QED
      BY <1>2, <1>3, <2>1, <2>2
  <1>5. SizeIsLive' /\ size' \in Nat
    <2>1. size' = Cardinality(live') /\ size' \in Nat
      BY <1>4, FS_CardinalityType
    <2>2. QED
      BY <1>1, <1>3, <2>1, PoolAssumption DEF SizeIsLive, PoolAssumption
  <1>6. InUse' /\ NoneLost' /\ Range(pool') \subseteq live'
    BY <1>2, <1>3 DEF PoolInv, InUse, NoneLost, Held
  <1>7. PoolIsFresh'
    <2>1. DOMAIN pool' = 1 .. m /\ DOMAIN pool = 1 .. Len(pool)
      BY <1>1, <1>2, LenProperties
    <2>2. QED
      BY <1>1, <1>2, <2>1 DEF PoolInv, PoolIsFresh
  <1>8. \A c \in Caller : HandsOK(c)'
    BY DEF PoolInv, HandsOK
  <1>9. live' \subseteq Process
    BY DEF PoolInv, PoolTypeOK
  <1>10. QED
    BY <1>2, <1>4, <1>5, <1>6, <1>7, <1>8, <1>9

LEMMA drainKeeps ==
    ASSUME PoolInv, drain
    PROVE  PoolInv'
  <1>1. pool \in Seq(Process) /\ Len(pool) \in Nat /\ DOMAIN pool = 1 .. Len(pool)
    BY LenProperties DEF PoolInv, PoolTypeOK
  <1>2. Gone(pool, 0) = Range(pool)
    BY <1>1 DEF Gone, Range
  <1>3. SubSeq(pool, 1, 0) = <<>>
    BY SubSeqEmpty
  <1>4. /\ pool' = SubSeq(pool, 1, 0) /\ live' = live \ Gone(pool, 0)
        /\ size' = size - (Len(pool) - 0) /\ caller' = caller /\ born' = born
        /\ 0 \in 0 .. Len(pool) /\ (0 > 0 => reset_cycle' = reset_cycle)
    BY <1>1, <1>2, <1>3 DEF drain
  <1>5. /\ pool' \in Seq(Process) /\ live' \subseteq Process /\ size' \in Nat
        /\ \A c \in Caller : HandsOK(c)'
        /\ IsInjective(pool') /\ Range(pool') \subseteq live'
        /\ InUse' /\ NoneLost' /\ IsFiniteSet(live') /\ SizeIsLive' /\ PoolIsFresh'
    BY <1>4, Stopped
  <1>6. PoolTypeOK'
    BY <1>5, PoolAssumption DEF PoolInv, PoolTypeOK, drain, programs, PoolAssumption
  <1>7. QED
    BY <1>5, <1>6 DEF PoolInv

LEMMA skimKeeps ==
    ASSUME PoolInv, skim
    PROVE  PoolInv'
  <1> DEFINE to_remove == size - max_utilization
             n == IF to_remove > 0 /\ Len(pool) >= to_remove THEN to_remove ELSE 0
             m == Len(pool) - n
  <1>1. pool \in Seq(Process) /\ Len(pool) \in Nat
    BY LenProperties DEF PoolInv, PoolTypeOK
  <1>2. n \in 0 .. Len(pool) /\ m \in 0 .. Len(pool) /\ Len(pool) - m = n
    BY <1>1 DEF PoolInv, PoolTypeOK
  <1>3. /\ pool' = SubSeq(pool, 1, m) /\ live' = live \ Gone(pool, m)
        /\ size' = size - n /\ max_utilization' = 0
        /\ skim_count' = IF n > 0 THEN 0 ELSE skim_count
        /\ UNCHANGED <<reset_cycle, caller, born, programs>>
    BY DEF skim, Gone
  <1>4. size' = size - (Len(pool) - m)
    BY <1>2, <1>3
  <1> HIDE DEF n, m
  <1>5. /\ pool' \in Seq(Process) /\ live' \subseteq Process /\ size' \in Nat
        /\ \A c \in Caller : HandsOK(c)'
        /\ IsInjective(pool') /\ Range(pool') \subseteq live'
        /\ InUse' /\ NoneLost' /\ IsFiniteSet(live') /\ SizeIsLive' /\ PoolIsFresh'
    BY <1>2, <1>3, <1>4, Stopped
  <1>6. PoolTypeOK'
    BY <1>3, <1>5 DEF PoolInv, PoolTypeOK, programs
  <1>7. QED
    BY <1>5, <1>6 DEF PoolInv

----------------------------------------------------------------------------
(* What a thread does with its process.                                    *)

\* A thread that asks stays the only one with its process.
LEMMA Asked ==
    ASSUME PoolInv, NEW c \in Caller, caller[c].step = "ask",
           caller' \in [Caller -> Callers],
           \A d \in Caller \ {c} : caller'[d] = caller[d],
           caller'[c].process = caller[c].process, caller'[c].cycle = caller[c].cycle,
           caller'[c].step \in {"ask", "return"},
           caller'[c].step = "ask" => caller'[c].tries > 0,
           unread' \in [Process -> Seq(Caller \cup {Stray})],
           mishaps' \in 0 .. MaxMishaps, babbled' \in BOOLEAN,
           UNCHANGED <<pool, counters, live, born>>
    PROVE  PoolInv'
  <1>1. \A d \in Caller : caller'[d].process = caller[d].process
    OBVIOUS
  <1>2. \A d \in Caller : HandsOK(d)'
    BY DEF PoolInv, HandsOK
  <1>3. InUse'
    BY <1>1 DEF PoolInv, InUse
  <1>4. NoneLost'
    BY <1>1 DEF PoolInv, NoneLost, Held
  <1>5. PoolTypeOK'
    BY DEF PoolInv, PoolTypeOK, Callers, counters
  <1>6. SizeIsLive' /\ PoolIsFresh'
    BY DEF PoolInv, SizeIsLive, PoolIsFresh, counters
  <1>7. QED
    BY <1>2, <1>3, <1>4, <1>5, <1>6 DEF PoolInv

LEMMA AskKeeps ==
    ASSUME PoolInv, NEW c \in Caller, RoundTrip(c) \/ RoundTripStray(c) \/ Fail(c)
    PROVE  PoolInv'
  <1> DEFINE p == caller[c].process
             Line == Caller \cup {Stray}
  <1>1. /\ caller[c].step = "ask" /\ p \in Process /\ caller[c].tries > 0
        /\ unread[p] \in Seq(Line)
        /\ caller \in [Caller -> Callers]
        /\ caller[c].tries \in 0 .. retries
    BY DEF PoolInv, PoolTypeOK, HandsOK, Callers, RoundTrip, RoundTripStray, Fail
  <1>2. ASSUME NEW lines \in Seq(Line), lines # <<>>, Read(c, lines),
               mishaps' \in 0 .. MaxMishaps, babbled' \in BOOLEAN
        PROVE  PoolInv'
    <2>1. Head(lines) \in Line /\ Tail(lines) \in Seq(Line)
      BY <1>2, HeadTailProperties
    <2>2. unread' \in [Process -> Seq(Line)]
      BY <1>1, <1>2, <2>1 DEF Read, PoolInv, PoolTypeOK
    <2>3. /\ caller' \in [Caller -> Callers]
          /\ \A d \in Caller \ {c} : caller'[d] = caller[d]
          /\ caller'[c].process = p /\ caller'[c].cycle = caller[c].cycle
          /\ caller'[c].step = "return"
      BY <1>1, <1>2, <2>1, ZenonT(40) DEF Read, Callers
    <2>4. QED
      BY <1>1, <1>2, <2>2, <2>3, Asked DEF Read
  <1>3. Mishap \/ mishaps' = mishaps => mishaps' \in 0 .. MaxMishaps
    BY PoolAssumption DEF Mishap, PoolInv, PoolTypeOK, PoolAssumption
  <1>4. CASE RoundTrip(c)
    <2>1. Append(unread[p], c) \in Seq(Line) /\ Append(unread[p], c) # <<>>
      <3>1. c \in Line
        OBVIOUS
      <3> HIDE DEF Line, p
      <3>2. QED
        BY <1>1, <3>1, AppendProperties
    <2>2. QED
      BY <1>2, <1>3, <1>4, <2>1 DEF RoundTrip, PoolInv, PoolTypeOK
  <1>5. CASE RoundTripStray(c)
    <2>1. /\ <<Stray, c>> \in Seq(Line) /\ Len(<<Stray, c>>) = 2
      OBVIOUS
    <2>2. /\ unread[p] \o <<Stray, c>> \in Seq(Line)
          /\ Len(unread[p] \o <<Stray, c>>) = Len(unread[p]) + 2
      BY <1>1, <2>1, ConcatProperties
    <2>3. unread[p] \o <<Stray, c>> # <<>>
      BY <1>1, <2>2, LenProperties, EmptySeq
    <2>4. QED
      BY <1>2, <1>3, <1>5, <2>2, <2>3 DEF RoundTripStray
  <1>6. CASE Fail(c)
    <2>1. unread' \in [Process -> Seq(Line)]
      BY <1>1, <1>6, EmptySeq DEF Fail, PoolInv, PoolTypeOK
    <2>2. /\ caller' \in [Caller -> Callers]
          /\ \A d \in Caller \ {c} : caller'[d] = caller[d]
          /\ caller'[c].process = p /\ caller'[c].cycle = caller[c].cycle
          /\ caller'[c].step \in {"ask", "return"}
          /\ caller'[c].step = "ask" => caller'[c].tries > 0
      <3>1. caller' = [caller EXCEPT ![c] = [caller[c] EXCEPT
                !.tries = caller[c].tries - 1,
                !.step = IF caller[c].tries = 1 THEN "return" ELSE "ask"]]
        BY <1>1, <1>6 DEF Fail, Callers
      <3>2. /\ caller[c].tries - 1 \in 0 .. retries
            /\ caller[c].tries # 1 => caller[c].tries - 1 > 0
        BY <1>1, PoolAssumption DEF PoolAssumption
      <3>3. QED
        BY <1>1, <3>1, <3>2, ZenonT(40) DEF Callers
    <2>3. QED
      BY <1>1, <1>3, <1>6, <2>1, <2>2, Asked DEF Fail, PoolInv, PoolTypeOK
  <1>7. QED
    BY <1>4, <1>5, <1>6

----------------------------------------------------------------------------
(* The theorems.                                                           *)

LEMMA PoolInitially == PoolInit => PoolInv
  <1> SUFFICES ASSUME PoolInit PROVE PoolInv
    OBVIOUS
  <1>1. /\ pool = <<>> /\ pool \in Seq(Process) /\ DOMAIN pool = {}
        /\ \A S : <<>> \in Seq(S)
    BY EmptySeq, LenProperties DEF PoolInit
  <1>2. PoolTypeOK
    <2>1. caller \in [Caller -> Callers]
      BY PoolAssumption DEF PoolInit, Callers, PoolAssumption
    <2>2. /\ born \in [Process -> 0 .. MaxDrains] /\ mishaps \in 0 .. MaxMishaps
          /\ reset_cycle \in 0 .. MaxDrains
      BY PoolAssumption DEF PoolInit, PoolAssumption
    <2>3. unread \in [Process -> Seq(Caller \cup {Stray})]
      BY <1>1 DEF PoolInit
    <2>4. QED
      BY <1>1, <2>1, <2>2, <2>3 DEF PoolInit, PoolTypeOK, Callers
  <1>3. \A c \in Caller : HandsOK(c) /\ caller[c].process = NoProcess
    BY PoolAssumption DEF PoolInit, HandsOK, PoolAssumption
  <1>4. /\ Range(pool) = {} /\ IsInjective(pool) /\ PoolIsFresh /\ InUse /\ NoneLost
    BY <1>1, <1>3 DEF Range, IsInjective, PoolIsFresh, InUse, NoneLost, PoolInit
  <1>5. IsFiniteSet(live) /\ SizeIsLive
    BY FS_EmptySet, PoolAssumption DEF PoolInit, SizeIsLive, PoolAssumption
  <1>6. QED
    BY <1>2, <1>3, <1>4, <1>5 DEF PoolInv

LEMMA PoolStep == PoolInv /\ [PoolNext]_pvars => PoolInv'
  <1> SUFFICES ASSUME PoolInv, [PoolNext]_pvars PROVE PoolInv'
    OBVIOUS
  <1>1. CASE \E c \in Caller : Use(c) \/ CreateFails(c) \/ RoundTripStray(c) \/ Fail(c)
    BY <1>1, TakeKeeps, CreateKeeps, CreateFailsKeeps, PutBackKeeps, AskKeeps DEF Use
  <1>2. CASE drain \/ skim
    BY <1>2, drainKeeps, skimKeeps
  <1>3. CASE UNCHANGED pvars
    BY <1>3 DEF pvars, PoolInv, PoolTypeOK, HandsOK, InUse, NoneLost, Held, SizeIsLive, PoolIsFresh
  <1>4. QED
    BY <1>1, <1>2, <1>3 DEF PoolNext

LEMMA PoolInvariant == PoolSpec => []PoolInv
  <1>1. QED
    BY PoolInitially, PoolStep, PTL DEF PoolSpec

\* Every variable has its type (archiver.raw 270-470).
THEOREM PoolTypeCorrect == PoolSpec => []PoolTypeOK
  <1>1. PoolInv => PoolTypeOK
    BY DEF PoolInv
  <1>2. QED
    BY <1>1, PoolInvariant, PTL

\* No process is in two places or lost, size is the number of processes that run and at
\* most max_size, and none from before a drain is idle (archiver.raw 340-460).
THEOREM PoolFits == PoolSpec => []PoolSound
  <1>1. PoolInv => PoolSound
    <2> SUFFICES ASSUME PoolInv PROVE PoolSound
      OBVIOUS
    <2>1. Held \subseteq live /\ Range(pool) \cap Held = {}
      BY DEF PoolInv, InUse, Held
    <2>2. live = Range(pool) \cup Held
      BY <2>1 DEF PoolInv, NoneLost
    <2>3. \A c, d \in Caller : c # d /\ caller[c].process = caller[d].process
                                    => caller[c].process = NoProcess
      BY DEF PoolInv, InUse
    <2>4. QED
      BY <2>1, <2>2, <2>3 DEF PoolInv, PoolSound, Owned
  <1>2. QED
    BY <1>1, PoolInvariant, PTL

\* As long as no program prints a stray line, nothing is unread while no request is
\* being made, and so every answer is the answer to what was asked.
NothingUnread ==
    ~babbled => /\ \A p \in Process : unread[p] = <<>>
                /\ \A c \in Caller : caller[c].result \in {c, Nothing}

\* A thread is answered with the answer to its own request, however often programs die
\* and whoever had the process before (psjson.py 205-225, program.py 520-560).
THEOREM AnswersOwn == PoolSpec => []OwnAnswer
  <1>1. PoolInit => NothingUnread
    BY DEF PoolInit, NothingUnread
  <1>2. PoolInv /\ NothingUnread /\ [PoolNext]_pvars => NothingUnread'
    <2> SUFFICES ASSUME PoolInv, NothingUnread, [PoolNext]_pvars, ~babbled'
                 PROVE  /\ \A p \in Process : unread'[p] = <<>>
                        /\ \A c \in Caller : caller'[c].result \in {c, Nothing}
      BY DEF NothingUnread
    <2> USE DEF NothingUnread
    <2>1. /\ caller \in [Caller -> Callers]
          /\ unread \in [Process -> Seq(Caller \cup {Stray})]
      BY DEF PoolInv, PoolTypeOK, Callers
    <2>2. CASE \E c \in Caller : Take(c) \/ Create(c) \/ CreateFails(c) \/ PutBack(c)
      <3>1. PICK c \in Caller : Take(c) \/ Create(c) \/ CreateFails(c) \/ PutBack(c)
        BY <2>2
      <3>2. /\ babbled' = babbled /\ \A d \in Caller : caller'[d].result = caller[d].result
            /\ \A p \in Process : unread'[p] \in {unread[p], <<>>}
        <4>1. CASE Take(c) \/ CreateFails(c) \/ PutBack(c)
          <5>1. /\ UNCHANGED programs \/ UNCHANGED <<unread, babbled>>
                /\ Finish(c) \/ \E p : Hold(c, p)
            BY <4>1 DEF Take, CreateFails, PutBack
          <5>2. unread' = unread /\ babbled' = babbled
            BY <5>1 DEF programs
          <5>3. ASSUME Finish(c), NEW d \in Caller PROVE caller'[d].result = caller[d].result
            BY <2>1, <5>3 DEF Finish, Callers
          <5>4. ASSUME NEW p, Hold(c, p), NEW d \in Caller
                PROVE  caller'[d].result = caller[d].result
            BY <2>1, <5>4 DEF Hold, Callers
          <5>5. QED
            BY <5>1, <5>2, <5>3, <5>4
        <4>2. CASE Create(c)
          <5>1. PICK p : /\ Hold(c, p) /\ unread' = [unread EXCEPT ![p] = <<>>]
                         /\ babbled' = babbled
            BY <4>2 DEF Create
          <5>2. QED
            BY <2>1, <5>1 DEF Hold, Callers
        <4>3. QED
          BY <3>1, <4>1, <4>2
      <3>3. QED
        BY <3>2
    <2>3. CASE \E c \in Caller : RoundTrip(c)
      <3>1. PICK c \in Caller : RoundTrip(c)
        BY <2>3
      <3>2. caller[c].process \in Process /\ babbled' = babbled
        BY <3>1 DEF PoolInv, HandsOK, RoundTrip
      <3>3. unread[caller[c].process] = <<>>
        BY <3>2
      <3>4. Head(Append(<<>>, c)) = c /\ Tail(Append(<<>>, c)) = <<>>
        BY EmptySeq, HeadTailAppend
      <3>5. /\ unread' = [unread EXCEPT ![caller[c].process] = <<>>]
            /\ caller' = [caller EXCEPT ![c].step = "return", ![c].result = c]
        BY <3>1, <3>3, <3>4 DEF RoundTrip, Read
      <3>6. QED
        BY <2>1, <3>2, <3>5 DEF Callers
    <2>4. CASE \E c \in Caller : RoundTripStray(c)
      BY <2>4 DEF RoundTripStray
    <2>5. CASE \E c \in Caller : Fail(c)
      <3>1. PICK c \in Caller : Fail(c)
        BY <2>5
      <3>2. /\ babbled' = babbled /\ \A d \in Caller : caller'[d].result = caller[d].result
            /\ \A p \in Process : unread'[p] \in {unread[p], <<>>}
        BY <2>1, <3>1 DEF Fail, Callers
      <3>3. QED
        BY <3>2
    <2>6. CASE drain \/ skim \/ UNCHANGED pvars
      BY <2>6 DEF drain, skim, pvars, programs
    <2>7. QED
      BY <2>2, <2>3, <2>4, <2>5, <2>6 DEF PoolNext, Use
  <1>3. NothingUnread => OwnAnswer
    BY DEF NothingUnread, OwnAnswer
  <1>4. QED
    BY <1>1, <1>2, <1>3, PoolInvariant, PTL DEF PoolSpec

=============================================================================
