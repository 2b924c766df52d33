------------------------------ MODULE LimitFile ------------------------------
(***************************************************************************)
(* A process of the API server with the threads that answer its requests:  *)
(* each looks whether the limit file has changed (limitproc.py), loads it, *)
(* and evaluates an identifier that is a list of networks fetched from a   *)
(* URL, and fetched again when it has become old                           *)
(* (limitprocessor/identifier/ipcidrlisturl.py).  The module's variables   *)
(* are shared without a lock, so each assignment that another thread can   *)
(* tell is a step of its own.                                              *)
(***************************************************************************)
EXTENDS LimitProcessor

CONSTANTS
    Thread,
    Content,        \* names of what may be in the file
    FileOf,         \* and the limit file each of them is
    Served,         \* the lists the URL may serve: sets of addresses
    Interval,       \* update_interval
    MaxChanges,     \* bound on the changes of the file
    MaxOutages,     \* bound on the changes of what the URL serves
    Update,         \* how long a list that was fetched is good for
    Retry,          \* how long after a failure the fetch is tried again
    FailState,      \* what an empty list says of everybody
    Down,           \* what is fetched when it is not a list
    Files, Tasks, Hints,    \* the limit files and requests that properties speak of
    Spans           \* the [start, end] of a run

ASSUME FileAssumption ==
    /\ DOMAIN FileOf = Content /\ Interval \in Nat \ {0}
    /\ MaxChanges \in Nat /\ MaxOutages \in Nat
    /\ IsFiniteSet(Thread) /\ \A s \in Served : IsFiniteSet(s)
    /\ None \notin Nat /\ Inert \notin Nat      \* the numbers of objects
    /\ Update \in Nat \ {0} /\ Retry \in Nat \ {0} /\ FailState \in BOOLEAN

----------------------------------------------------------------------------
(* The list.  Networks are sets of addresses, and due is the time until    *)
(* the next fetch may be tried.  The operators are what one critical       *)
(* section, or one assignment without a lock, does to the list.            *)

List == [cidrs |-> {}, length |-> 0, updating |-> FALSE, due |-> 0]

\* The answer of the URL to the fetch made when the list is constructed.
Fetched(list, text) ==
    IF text = Down THEN [list EXCEPT !.due = Retry]
    ELSE [list EXCEPT !.cidrs = text, !.length = Cardinality(text), !.due = Update]

\* Mutant: an update that is already underway is not looked for.
MayPopulateTwice(list) == list.due = 0

\* __populate_cidrs__: it is time, and nobody else is at it.
MayPopulate(list) == ~list.updating /\ list.due = 0

\* A fetch or a transform that failed: the list stays, and is tried again.
Failed(list) == [list EXCEPT !.due = Retry]

\* The list has been parsed; cidrs, then length and the time are assigned, and
\* evaluate may look in between, as it takes no lock.
Swapped(list, text) == [list EXCEPT !.cidrs = text]
Counted(list) == [list EXCEPT !.length = Cardinality(list.cidrs), !.due = Update]

Older(list) == [list EXCEPT !.due = IF @ = 0 THEN 0 ELSE @ - 1]

----------------------------------------------------------------------------
(* The process.                                                            *)

\* The contents that cannot be loaded.
Broken == {c \in Content : Load(FileOf[c]) = None}

VARIABLES
    disk,           \* the file: whether it is there, its content and mtime
    url,            \* what the URL answers
    changes, outages,
    processor,      \* Inert, None or the number of an object
    objects,        \* the processors that something refers to: content and list
    file_exists, modified,
    age,            \* the time since last_check, at most Interval
    thread,
    overlapped,     \* whether two threads were ever loading at once
    restored        \* whether a file was ever put there that is not newer

settings == <<processor, objects, file_exists, modified, age, overlapped>>
world == <<disk, url, changes, outages, restored>>
fvars == <<settings, world, thread>>

\* A thread between requests; mtime and object are its local variables.
Resting == [at |-> "idle", mtime |-> 0, object |-> None, text |-> Down]
Object == 1 .. Cardinality(Thread) + 1

Init ==
    /\ disk \in [here : BOOLEAN, content : Content, mtime : {1}]
    /\ disk.here \/ disk.content \notin Broken      \* of no matter
    /\ url \in Served \cup {Down}
    /\ changes = 0 /\ outages = 0
    /\ processor = Inert /\ objects = <<>>
    /\ file_exists = FALSE /\ modified = 0
    /\ age = Interval
    /\ thread = [t \in Thread |-> Resting]
    /\ overlapped = FALSE /\ restored = FALSE

Loading == {"exists", "stat", "load", "first", "assign", "note"}

----------------------------------------------------------------------------
(* What happens around the process.                                        *)

Later == changes + 2

Write(content) ==
    /\ changes < MaxChanges
    /\ disk' = [here |-> TRUE, content |-> content, mtime |-> Later]
    /\ changes' = changes + 1
    /\ UNCHANGED <<url, outages, restored, settings, thread>>

RemoveFile ==
    /\ changes < MaxChanges /\ disk.here
    /\ disk' = [disk EXCEPT !.here = FALSE]
    /\ changes' = changes + 1
    /\ UNCHANGED <<url, outages, restored, settings, thread>>

\* The file that was removed is moved back, as old as it was.
RestoreFile ==
    /\ changes < MaxChanges /\ ~disk.here
    /\ disk' = [disk EXCEPT !.here = TRUE]
    /\ changes' = changes + 1 /\ restored' = TRUE
    /\ UNCHANGED <<url, outages, settings, thread>>

Serve(text) ==
    /\ outages < MaxOutages /\ text # url
    /\ url' = text
    /\ outages' = outages + 1
    /\ UNCHANGED <<disk, changes, restored, settings, thread>>

Tick ==
    /\ age' = IF age < Interval THEN age + 1 ELSE age
    /\ objects' = [o \in DOMAIN objects |-> [objects[o] EXCEPT !.list = Older(@)]]
    /\ <<age, objects>>' # <<age, objects>>
    /\ UNCHANGED <<world, processor, file_exists, modified, thread, overlapped>>

----------------------------------------------------------------------------
(* Loading the file: __limitproc_update.                                   *)

\* The objects that are still referred to.
Live(p, th, objs) == Restrict(objs, DOMAIN objs \cap ({p} \cup {th[t].object : t \in Thread}))

To(t, at) == thread' = [thread EXCEPT ![t].at = at]
Rest(t) == thread' = [thread EXCEPT ![t] = Resting]

\* A thread that finds the last check long enough ago is on its way to another, as may
\* be others until it has noted the time.
Check(t) ==
    /\ thread[t].at = "idle"
    /\ To(t, IF age < Interval THEN "judge" ELSE "due")
    /\ UNCHANGED <<world, settings>>

Begin(t) ==
    /\ thread[t].at = "due"
    /\ To(t, "exists")
    /\ age' = 0
    /\ overlapped' = (overlapped \/ \E u \in Thread : thread[u].at \in Loading)
    /\ UNCHANGED <<world, processor, objects, file_exists, modified>>

\* A file that has gone means a processor that limits nothing.  modified stays
\* what it was.
Exists(t) ==
    /\ thread[t].at = "exists"
    /\ IF disk.here THEN To(t, "stat") /\ UNCHANGED <<processor, objects, file_exists>>
       ELSE /\ To(t, "judge")
            /\ processor' = IF file_exists THEN Inert ELSE processor
            /\ objects' = Live(processor', thread, objects)
            /\ file_exists' = FALSE
    /\ UNCHANGED <<world, modified, age, overlapped>>

\* A file that goes in between makes getmtime throw and fails the request.
Stat(t) ==
    /\ thread[t].at = "stat"
    /\ IF ~disk.here THEN Rest(t)
       ELSE thread' = [thread EXCEPT ![t].mtime = disk.mtime,
                           ![t].at = IF processor # None /\ disk.mtime <= modified THEN "judge" ELSE "load"]
    /\ UNCHANGED <<world, settings>>

\* Mutant: the time is taken after the file was read.
ReadThenStat(t) ==
    /\ thread[t].at = "load"
    /\ IF ~disk.here \/ disk.content \in Broken
       THEN To(t, "assign") /\ UNCHANGED objects
       ELSE LET o == CHOOSE o \in Object : o \notin DOMAIN objects
            IN  /\ thread' = [thread EXCEPT ![t].at = "first", ![t].object = o, ![t].mtime = Later]
                /\ objects' = [i \in DOMAIN objects \cup {o} |->
                                  IF i = o THEN [content |-> disk.content, list |-> List, known |-> FALSE]
                                  ELSE objects[i]]
    /\ UNCHANGED <<world, processor, file_exists, modified, age, overlapped>>

\* The file is read; when it cannot be used, there is no processor.
Read(t) ==
    /\ thread[t].at = "load"
    /\ IF ~disk.here \/ disk.content \in Broken
       THEN To(t, "assign") /\ UNCHANGED objects
       ELSE LET o == CHOOSE o \in Object : o \notin DOMAIN objects
            IN  /\ thread' = [thread EXCEPT ![t].at = "first", ![t].object = o]
                /\ objects' = [i \in DOMAIN objects \cup {o} |->
                                  IF i = o THEN [content |-> disk.content, list |-> List, known |-> FALSE]
                                  ELSE objects[i]]
    /\ UNCHANGED <<world, processor, file_exists, modified, age, overlapped>>

\* Its identifier is constructed, which fetches the list.  known is whether that
\* ever succeeded.
First(t) ==
    /\ thread[t].at = "first"
    /\ To(t, "assign")
    /\ objects' = [objects EXCEPT ![thread[t].object].list = Fetched(@, url),
                                  ![thread[t].object].known = url # Down]
    /\ UNCHANGED <<world, processor, file_exists, modified, age, overlapped>>

Assign(t) ==
    /\ thread[t].at = "assign"
    /\ processor' = thread[t].object
    /\ thread' = [thread EXCEPT ![t].at = "note", ![t].object = None]
    /\ objects' = Live(processor', thread', objects)
    /\ UNCHANGED <<world, file_exists, modified, age, overlapped>>

Note(t) ==
    /\ thread[t].at = "note"
    /\ To(t, "judge")
    /\ file_exists' = TRUE /\ modified' = thread[t].mtime
    /\ age' = 0
    /\ UNCHANGED <<world, processor, objects, overlapped>>

----------------------------------------------------------------------------
(* Evaluating the identifier: __populate_cidrs__ and evaluate.             *)

Judge(t) ==
    /\ thread[t].at = "judge"
    /\ IF processor \in {Inert, None} THEN Rest(t)
       ELSE thread' = [thread EXCEPT ![t] = [Resting EXCEPT !.at = "populate", !.object = processor]]
    /\ UNCHANGED <<world, settings>>

ListOf(t) == objects[thread[t].object].list

Change(t, list) ==
    /\ objects' = [objects EXCEPT ![thread[t].object].list = list]
    /\ UNCHANGED <<world, processor, file_exists, modified, age, overlapped>>

Populate(t) ==
    /\ thread[t].at = "populate"
    /\ IF MayPopulate(ListOf(t))
       THEN To(t, "fetch") /\ Change(t, [ListOf(t) EXCEPT !.updating = TRUE])
       ELSE To(t, "length") /\ UNCHANGED <<world, settings>>

Fetch(t) ==
    /\ thread[t].at = "fetch"
    /\ IF url = Down THEN To(t, "updated") /\ Change(t, Failed(ListOf(t)))
       ELSE /\ thread' = [thread EXCEPT ![t].at = "swap", ![t].text = url]
            /\ UNCHANGED <<world, settings>>

Swap(t) ==
    /\ thread[t].at = "swap"
    /\ To(t, "count")
    /\ Change(t, Swapped(ListOf(t), thread[t].text))

Count(t) ==
    /\ thread[t].at = "count"
    /\ thread' = [thread EXCEPT ![t].at = "updated", ![t].text = Down]
    /\ objects' = [objects EXCEPT ![thread[t].object].list = Counted(@),
                                  ![thread[t].object].known = TRUE]
    /\ UNCHANGED <<world, processor, file_exists, modified, age, overlapped>>

Updated(t) ==
    /\ thread[t].at = "updated"
    /\ To(t, "length")
    /\ Change(t, [ListOf(t) EXCEPT !.updating = FALSE])

\* An empty list gives the fail-state.
Length(t) ==
    /\ thread[t].at = "length"
    /\ IF ListOf(t).length = 0
       THEN /\ Rest(t)
            /\ objects' = Live(processor, thread', objects)
       ELSE To(t, "search") /\ UNCHANGED objects
    /\ UNCHANGED <<world, processor, file_exists, modified, age, overlapped>>

\* The answer is whether the address is in the list.
Search(t) ==
    /\ thread[t].at = "search"
    /\ Rest(t)
    /\ objects' = Live(processor, thread', objects)
    /\ UNCHANGED <<world, processor, file_exists, modified, age, overlapped>>

----------------------------------------------------------------------------

Request(t) ==
    \/ Check(t) \/ Begin(t) \/ Exists(t) \/ Stat(t) \/ Read(t) \/ First(t) \/ Assign(t) \/ Note(t)
    \/ Judge(t) \/ Populate(t) \/ Fetch(t) \/ Swap(t) \/ Count(t) \/ Updated(t)
    \/ Length(t) \/ Search(t)

Next ==
    \/ \E t \in Thread : Request(t)
    \/ \E c \in Content : Write(c)
    \/ RemoveFile \/ RestoreFile
    \/ \E text \in Served \cup {Down} : Serve(text)
    \/ Tick

Spec == Init /\ [][Next]_fvars

----------------------------------------------------------------------------
(* What must hold while the file and the list it names change.             *)

\* A list is updated by one thread at a time, however many find that it is old
\* (ipcidrlisturl.py 61-64, "It is assumed that the caller will have protected
\* against calling two of these at once").
OneUpdateEach ==
    \A t, u \in Thread :
        /\ t # u /\ thread[t].object = thread[u].object
        /\ {thread[t].at, thread[u].at} \subseteq {"fetch", "swap", "count", "updated"}
        => FALSE

\* Once a list was fetched, an address that is in everything the URL ever serves
\* is identified for good, by threads that look while the list is swapped, and
\* however often it cannot be fetched again (ipcidrlisturl.py 68-117).  It is
\* said of one processor: a limit file that is loaded again starts over.
KnownIsIdentified ==
    \A t \in Thread, a \in {b \in UNION Served : \A s \in Served : b \in s} :
        thread[t].object # None /\ objects[thread[t].object].known =>
            /\ thread[t].at = "length" => ListOf(t).length # 0
            /\ thread[t].at = "search" => a \in ListOf(t).cidrs

\* The list is one that threads may look at while another of them updates it.
ListSound == OneUpdateEach /\ KnownIsIdentified

Current ==
    IF ~disk.here THEN processor = Inert
    ELSE IF disk.content \in Broken THEN processor = None
    ELSE processor \in Object /\ objects[processor].content = disk.content

\* Requests keep coming, threads run and time passes.
LimitFileSpec == Spec /\ WF_fvars(Tick) /\ \A t \in Thread : WF_fvars(Request(t))

\* Whatever happens to the file while it is read, the process ends up with the
\* processor the file stands for (limitproc.py 33-92).  Two things are beyond
\* it: a file that is put back as old as it was, as modified survives the
\* removal; and two threads that load at once, as processor and modified are
\* then assigned in any order.
EndsUpCurrent == <>[](Current \/ overlapped \/ restored)

----------------------------------------------------------------------------
(* What the limits must get right whatever the file and the request are.   *)

\* What the JSON schemas let through: limits of a known kind, which a clone need not
\* say again, and a task without times until it gets those of a run.
LimitTypes ==
    {"jq", "pass-fail", "run-daterange", "run-schedule", "test", "test-type", "url-fetch"}

IsList(s) == Len(s) \in Nat /\ DOMAIN s = 1 .. Len(s)

LimitOK(l) ==
    /\ l.invert \in BOOLEAN
    /\ l.clone = None => "type" \in DOMAIN l.data
    /\ "type" \in DOMAIN l.data => l.data.type \in LimitTypes

ApplicationOK(app) ==
    /\ app.invert \in BOOLEAN /\ app.stop_on_failure \in BOOLEAN
    /\ IsList(app.apply) /\ \A g \in DOMAIN app.apply : IsList(app.apply[g].limits)

\* A processor is not what stands for there being none, or none that limits.
ASSUME PropertiesAssumption ==
    /\ \A t \in Tasks : {"type", "spec"} \subseteq DOMAIN t /\ "run_schedule" \notin DOMAIN t
    /\ \A file \in Files :
          /\ {"identifiers", "classifiers", "limits", "applications", "rewriter", "prioritizer"}
                \subseteq DOMAIN file
          /\ IsList(file.limits) /\ \A i \in DOMAIN file.limits : LimitOK(file.limits[i])
          /\ IsList(file.applications)
          /\ \A a \in DOMAIN file.applications : ApplicationOK(file.applications[a])
          /\ Valid(file) => Load(file) \notin {None, Inert}

\* A request is judged without times, as when the task is posted, and with the
\* times of a run.  A file that cannot be loaded refuses both.
Requests == [task : Tasks, hints : Hints, span : Spans]

At(t, s) == Over([run_schedule |-> s], t)

Posted(config, r) ==
    IF config = None THEN Refused ELSE process(config, r.task, r.hints, TRUE, FALSE)
Run(config, r) ==
    IF config = None THEN Refused ELSE process(config, At(r.task, r.span), r.hints, FALSE, TRUE)

\* Scripts and servers are as their classes say, none of which checks the schedule
\* (jq.py 46-47, urlfetch.py 108-109): they judge a run as they judge its task.
Timeless(data) ==
    data.type \in {"jq", "url-fetch"} =>
        \A t \in Tasks, s \in Spans : evaluate(data, At(t, s)) = evaluate(data, t)

TimelessScripts(file) ==
    LET limits == Load(file).limits IN \A name \in DOMAIN limits : Timeless(limits[name].data)

\* Where limits look at times nothing is turned around: a group that has one needs any
\* or all of its limits, and its application is not inverted.
LooksAtTimes(file, group) ==
    \E name \in ToSet(group.limits) : checks_schedule(Load(file).limits[name].data)

Straight(file) ==
    \A app \in ToSet(file.applications) : \A group \in ToSet(app.apply) :
        LooksAtTimes(file, group) => group.require \in {"any", "all"} /\ ~app.invert

\* Under a limit file that passes it, a task that could be run at some time can be posted.
PostableIfRunnable(file) ==
    LET config == Load(file) IN
    \A r \in Requests :
        Run(config, r).outcome = "passed" => Posted(config, r).outcome # "refused"

\* What may be in the file whatever the threads do with it.
AllStraightPostable ==
    \A file \in Files :
        Valid(file) /\ file.rewriter = None /\ TimelessScripts(file) /\ Straight(file)
            => PostableIfRunnable(file)

\* Limits that look at times do not stand in the way of a task that has none yet,
\* whether they are inverted or not; other limits, groups and applications may turn
\* around whatever they like (limitset.py 161-164).  Two things are beyond it, and it
\* does not hold of them: scripts that look at times although they may not, and limits
\* on times in groups or applications that turn them around (Straight): although the
\* comments have such limits "disregarded" (limitset.py 136, applicationset.py 188),
\* they pass, and refuse what may not pass.
VerdictsSound == processor \in Object => AllStraightPostable

=============================================================================
