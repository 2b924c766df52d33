--------------------------- MODULE LimitFileProofs ---------------------------
(***************************************************************************)
(* The limit file under requests: the list that identifies is updated by   *)
(* one thread at a time, and what was once fetched stays known, for any    *)
(* number of threads, any contents of the file and anything the URL may    *)
(* serve; and what a processor answers to a task without times does not    *)
(* stand in the way of one that could be run.                              *)
(***************************************************************************)
EXTENDS LimitFile, FiniteSetTheorems, WellFoundedInduction, TLAPS

----------------------------------------------------------------------------
(* The invariant.                                                          *)

Updating == {"fetch", "swap", "count", "updated"}
NoObject == {"idle", "due", "exists", "stat", "load", "note", "judge"}
Places == NoObject \cup Updating \cup {"first", "assign", "populate", "length", "search"}

Lists == [cidrs : Served \cup {{}}, length : Nat, updating : BOOLEAN, due : Nat]
Objects == [content : Content, list : Lists, known : BOOLEAN]
Threads == [at : Places, mtime : Nat, object : Object \cup {None}, text : Served \cup {Down}]

FileTypes ==
    /\ disk \in [here : BOOLEAN, content : Content, mtime : Nat]
    /\ url \in Served \cup {Down}
    /\ changes \in Nat /\ outages \in Nat
    /\ processor \in Object \cup {Inert, None}
    /\ objects = [o \in DOMAIN objects |-> objects[o]] /\ DOMAIN objects \subseteq Object
    /\ \A o \in DOMAIN objects : objects[o] \in Objects
    /\ file_exists \in BOOLEAN /\ modified \in Nat /\ age \in Nat
    /\ thread \in [Thread -> Threads]

\* There are the objects that are referred to.
Referred ==
    /\ processor \in DOMAIN objects \cup {Inert, None}
    /\ DOMAIN objects \subseteq {processor} \cup {thread[t].object : t \in Thread}

\* What was fetched once is one of the lists that are served, or two of them while it
\* is swapped.
ObjectOK(o) ==
    objects[o].known =>
        /\ objects[o].list.cidrs \in Served
        /\ \E s \in Served : objects[o].list.length = Cardinality(s)

\* Where a thread is says what it has; the object of one that is loading is its own.
ThreadOK(t) ==
    /\ thread[t].at \in NoObject => thread[t].object = None
    /\ thread[t].at \notin NoObject /\ thread[t].at # "assign" =>
           thread[t].object \in DOMAIN objects
    /\ thread[t].at = "assign" => thread[t].object \in DOMAIN objects \cup {None}
    /\ thread[t].at \in {"first", "assign"} /\ thread[t].object # None =>
           /\ processor # thread[t].object
           /\ \A u \in Thread \ {t} : thread[u].object # thread[t].object
    /\ thread[t].at \in Updating => ListOf(t).updating
    /\ thread[t].at = "swap" => thread[t].text \in Served
    /\ thread[t].at = "count" => ListOf(t).cidrs \in Served

FileInv ==
    /\ FileTypes /\ Referred
    /\ \A o \in DOMAIN objects : ObjectOK(o)
    /\ \A t \in Thread : ThreadOK(t)
    /\ OneUpdateEach

----------------------------------------------------------------------------
(* Numbers of objects.                                                     *)

LEMMA Constants ==
    /\ IsFiniteSet(Thread) /\ Cardinality(Thread) \in Nat
    /\ \A s \in Served : IsFiniteSet(s) /\ Cardinality(s) \in Nat
    /\ Object \subseteq Nat /\ None \notin Object /\ Inert \notin Object
    /\ Interval \in Nat /\ Update \in Nat /\ Retry \in Nat
  <1>1. /\ IsFiniteSet(Thread) /\ \A s \in Served : IsFiniteSet(s)
        /\ Interval \in Nat /\ Update \in Nat /\ Retry \in Nat
        /\ None \notin Nat /\ Inert \notin Nat
    BY FileAssumption DEF FileAssumption
  <1>2. Cardinality(Thread) \in Nat /\ \A s \in Served : Cardinality(s) \in Nat
    BY <1>1, FS_CardinalityType
  <1>3. Object \subseteq Nat
    BY <1>2 DEF Object
  <1>4. QED
    BY <1>1, <1>2, <1>3

\* While a thread has no object, there is a number for a new one.
LEMMA FreshObject ==
    ASSUME FileInv, NEW t \in Thread, thread[t].object = None
    PROVE  \E o \in Object : o \notin DOMAIN objects
  <1> DEFINE Others == Thread \ {t}
             Held == {thread[u].object : u \in Others}
             f == [u \in Others |-> thread[u].object]
  <1>1. IsFiniteSet(Others) /\ Cardinality(Others) = Cardinality(Thread) - 1
    BY Constants, FS_RemoveElement
  <1>2. f \in Surjection(Others, Held)
    BY DEF Surjection
  <1>3. IsFiniteSet(Held) /\ Cardinality(Held) <= Cardinality(Others)
    BY <1>1, <1>2, FS_Surjection
  <1>4. /\ IsFiniteSet(Held \cup {processor}) /\ Cardinality(Held) \in Nat
        /\ Cardinality(Held \cup {processor}) \in Nat
        /\ Cardinality(Held \cup {processor}) <= Cardinality(Held) + 1
    <2> HIDE DEF Held
    <2>1. Cardinality(Held) \in Nat
      BY <1>3, FS_CardinalityType
    <2>2. /\ IsFiniteSet(Held \cup {processor})
          /\ Cardinality(Held \cup {processor}) =
                 IF processor \in Held THEN Cardinality(Held) ELSE Cardinality(Held) + 1
      BY <1>3, FS_AddElement
    <2>3. QED
      BY <2>1, <2>2
  <1>5. IsFiniteSet(Object) /\ Cardinality(Object) = Cardinality(Thread) + 1
    <2>1. Cardinality(Thread) + 1 \in Int /\ 1 \in Int /\ ~(1 > Cardinality(Thread) + 1)
      BY Constants
    <2>2. QED
      BY <2>1, FS_Interval DEF Object
  <1>6. ~(Object \subseteq Held \cup {processor})
    <2>1. SUFFICES ASSUME Object \in SUBSET (Held \cup {processor}) PROVE FALSE
      OBVIOUS
    <2>2. Cardinality(Object) <= Cardinality(Held \cup {processor})
      BY <1>4, <2>1, FS_Subset
    <2>3. QED
      BY <1>1, <1>3, <1>4, <1>5, <2>2, Constants
  <1>7. DOMAIN objects \subseteq Held \cup {processor} \cup {None}
    BY DEF FileInv, Referred
  <1>8. QED
    BY <1>6, <1>7, Constants

----------------------------------------------------------------------------
(* Steps of a thread.                                                      *)

\* What a thread does to its own fields.
LEMMA Fields ==
    ASSUME FileInv, NEW t \in Thread
    PROVE  /\ thread[t] \in Threads /\ Resting \in Threads
           /\ \A at \in Places : [thread[t] EXCEPT !.at = at] \in Threads
           /\ \A at \in Places, o \in Object \cup {None} :
                 [thread[t] EXCEPT !.at = at, !.object = o] \in Threads
           /\ \A at \in Places, m \in Nat :
                 [thread[t] EXCEPT !.mtime = m, !.at = at] \in Threads
           /\ \A at \in Places, x \in Served \cup {Down} :
                 [thread[t] EXCEPT !.at = at, !.text = x] \in Threads
           /\ \A at \in Places, o \in Object \cup {None} :
                 [Resting EXCEPT !.at = at, !.object = o] \in Threads
           /\ \A p \in {"idle", "exists", "stat", "load", "first", "assign", "note", "judge", "due",
                        "populate", "fetch", "swap", "count", "updated", "length", "search"} :
                 p \in Places
  <1>1. thread[t] \in Threads
    BY DEF FileInv, FileTypes
  <1>2. \A p \in {"idle", "exists", "stat", "load", "first", "assign", "note", "judge", "due",
                 "populate", "fetch", "swap", "count", "updated", "length", "search"} :
           p \in Places
    BY DEF Places, NoObject, Updating
  <1>3. Resting \in Threads
    BY <1>2 DEF Resting, Threads
  <1>4. ASSUME NEW th \in Threads, NEW at \in Places
        PROVE  /\ [th EXCEPT !.at = at] \in Threads
               /\ \A o \in Object \cup {None} : [th EXCEPT !.at = at, !.object = o] \in Threads
               /\ \A m \in Nat : [th EXCEPT !.mtime = m, !.at = at] \in Threads
               /\ \A x \in Served \cup {Down} : [th EXCEPT !.at = at, !.text = x] \in Threads
    BY DEF Threads
  <1>5. QED
    BY <1>1, <1>2, <1>3, <1>4

\* A step of one thread that keeps its object; it changes that object only when no other
\* thread is updating it.
LEMMA Moved ==
    ASSUME FileInv, NEW t \in Thread, NEW th \in Threads,
           thread' = [thread EXCEPT ![t] = th], th.object = thread[t].object,
           UNCHANGED <<processor, world>>,
           objects' = [o \in DOMAIN objects |-> objects'[o]],
           \A o \in DOMAIN objects :
               /\ o # thread[t].object => objects'[o] = objects[o]
               /\ objects'[o] \in Objects /\ ObjectOK(o)',
           objects' = objects \/ \A u \in Thread \ {t} :
               thread[u].at \in Updating => thread[u].object # thread[t].object,
           th.at \in Updating => thread[t].at \in Updating \/ \A u \in Thread \ {t} :
               thread[u].at \in Updating => thread[u].object # thread[t].object,
           th.at \in {"first", "assign"} /\ th.object # None => thread[t].at = "first",
           ThreadOK(t)', file_exists' \in BOOLEAN, modified' \in Nat, age' \in Nat
    PROVE  FileInv'
  <1>1. /\ thread \in [Thread -> Threads] /\ thread'[t] = th
        /\ \A u \in Thread \ {t} : thread'[u] = thread[u]
        /\ \A u \in Thread : thread'[u].object = thread[u].object
        /\ DOMAIN objects' = DOMAIN objects
    BY DEF FileInv, FileTypes
  <1>2. FileTypes'
    BY <1>1 DEF FileInv, FileTypes, world
  <1>3. Referred'
    BY <1>1 DEF FileInv, Referred
  <1>4. ASSUME NEW u \in Thread \ {t} PROVE ThreadOK(u)'
    <2>1. thread[u].at \in Updating => ListOf(u)' = ListOf(u)
      <3>1. SUFFICES ASSUME thread[u].at \in Updating
                     PROVE  objects'[thread[u].object] = objects[thread[u].object]
        BY <1>1 DEF ListOf
      <3>2. thread[u].object \in DOMAIN objects
        BY <3>1 DEF FileInv, ThreadOK, NoObject, Updating
      <3>3. QED
        BY <3>1, <3>2
    <2>2. QED
      BY <1>1, <2>1 DEF FileInv, ThreadOK, Updating
  <1>5. OneUpdateEach'
    <2>1. \A u \in Thread \ {t} : thread[u].at \in Updating /\ th.at \in Updating =>
              thread[u].object # thread[t].object
      BY DEF FileInv, OneUpdateEach, Updating
    <2>2. QED
      BY <1>1, <2>1 DEF FileInv, OneUpdateEach, Updating
  <1>6. QED
    BY <1>1, <1>2, <1>3, <1>4, <1>5 DEF FileInv

\* The same, of a step that leaves the objects alone.
LEMMA Stepped ==
    ASSUME FileInv, NEW t \in Thread, NEW th \in Threads,
           thread' = [thread EXCEPT ![t] = th], th.object = thread[t].object,
           UNCHANGED <<processor, objects, world>>,
           \/ th.at \in NoObject /\ th.object = None
           \/ thread[t].at = "load" /\ th.at = "assign" /\ th.object = None
           \/ thread[t].at \in {"populate", "length"} /\ th.at \in {"length", "search"}
           \/ thread[t].at = "fetch" /\ th.at = "swap" /\ th.text \in Served,
           file_exists' \in BOOLEAN, modified' \in Nat, age' \in Nat
    PROVE  FileInv'
  <1>1. /\ thread \in [Thread -> Threads] /\ thread'[t] = th
        /\ objects = [o \in DOMAIN objects |-> objects[o]]
    BY DEF FileInv, FileTypes
  <1>2. ListOf(t)' = ListOf(t)
    BY <1>1 DEF ListOf
  <1>3. ThreadOK(t)'
    BY <1>1, <1>2 DEF FileInv, ThreadOK, NoObject, Updating
  <1>4. \A o \in DOMAIN objects : objects'[o] \in Objects /\ ObjectOK(o)'
    BY DEF FileInv, FileTypes, ObjectOK
  <1>5. th.at \in Updating => thread[t].at \in Updating
    BY DEF Updating, NoObject
  <1>6. th.at \in {"first", "assign"} => th.object = None
    BY DEF NoObject
  <1>7. QED
    BY <1>1, <1>3, <1>4, <1>5, <1>6, Moved

\* What a thread that loads, or is done, refers to no longer goes if nothing else does.
LEMMA Dropped ==
    ASSUME FileInv, NEW t \in Thread, NEW th \in Threads,
           thread' = [thread EXCEPT ![t] = th], th.object = None, th.at \in NoObject,
           UNCHANGED world, objects' = Live(processor', thread', objects),
           \/ processor' = processor \/ processor' = Inert
           \/ thread[t].at = "assign" /\ processor' = thread[t].object,
           file_exists' \in BOOLEAN, modified' \in Nat, age' \in Nat
    PROVE  FileInv'
  <1> DEFINE Kept == {processor'} \cup {thread'[u].object : u \in Thread}
  <1>1. /\ thread \in [Thread -> Threads] /\ thread'[t] = th
        /\ \A u \in Thread \ {t} : thread'[u] = thread[u]
        /\ thread' \in [Thread -> Threads]
    BY DEF FileInv, FileTypes
  <1>2. /\ objects' = [o \in DOMAIN objects \cap Kept |-> objects[o]]
        /\ DOMAIN objects' = DOMAIN objects \cap Kept
        /\ \A o \in DOMAIN objects' : objects'[o] = objects[o]
    BY DEF Live, Restrict
  <1>3. processor' \in DOMAIN objects \cup {Inert, None}
    BY DEF FileInv, Referred, ThreadOK
  <1>4. Referred'
    BY <1>2, <1>3 DEF Referred
  <1>5. FileTypes'
    <2>1. DOMAIN objects \subseteq Object
      BY DEF FileInv, FileTypes
    <2>2. processor' \in Object \cup {Inert, None}
      BY <1>3, <2>1
    <2>3. /\ objects' = [o \in DOMAIN objects' |-> objects'[o]]
          /\ DOMAIN objects' \subseteq Object
          /\ \A o \in DOMAIN objects' : objects'[o] \in Objects
      BY <1>2, <2>1 DEF FileInv, FileTypes
    <2>4. QED
      BY <1>1, <2>2, <2>3 DEF FileInv, FileTypes, world
  <1>6. ASSUME NEW o \in DOMAIN objects' PROVE ObjectOK(o)'
    BY <1>2 DEF FileInv, ObjectOK
  <1>7. ASSUME NEW u \in Thread PROVE ThreadOK(u)'
    <2>1. CASE u = t
      BY <1>1, <2>1 DEF ThreadOK, NoObject, Updating
    <2>2. CASE u # t
      <3>1. thread'[u] = thread[u]
        BY <1>1, <2>2
      <3>2. thread[u].object \in DOMAIN objects => thread[u].object \in DOMAIN objects'
        BY <1>2, <3>1
      <3>3. thread[u].at \in Updating => thread[u].object \in DOMAIN objects
        BY DEF FileInv, ThreadOK, NoObject, Updating
      <3>4. thread[u].at \in Updating => ListOf(u)' = ListOf(u)
        BY <1>2, <3>1, <3>2, <3>3 DEF ListOf
      <3>5. thread[u].at \in {"first", "assign"} /\ thread[u].object # None =>
               /\ processor' # thread[u].object
               /\ \A v \in Thread \ {u} : thread'[v].object # thread[u].object
        <4>1. SUFFICES ASSUME thread[u].at \in {"first", "assign"}, thread[u].object # None
                       PROVE  /\ processor' # thread[u].object
                              /\ \A v \in Thread \ {u} : thread'[v].object # thread[u].object
          OBVIOUS
        <4>2. /\ processor # thread[u].object /\ thread[u].object # Inert
              /\ \A v \in Thread \ {u} : thread[v].object # thread[u].object
          BY <1>1, <4>1, Constants DEF FileInv, ThreadOK, Threads
        <4>3. QED
          BY <1>1, <2>2, <4>1, <4>2
      <3>6. QED
        BY <3>1, <3>2, <3>4, <3>5 DEF FileInv, ThreadOK, Updating
    <2>3. QED
      BY <2>1, <2>2
  <1>8. OneUpdateEach'
    BY <1>1 DEF FileInv, OneUpdateEach, NoObject
  <1>9. QED
    BY <1>4, <1>5, <1>6, <1>7, <1>8 DEF FileInv

\* A file that is not there, or no longer, a file that is not newer, and requests that
\* are refused or need no list.
LEMMA StepsAside ==
    ASSUME FileInv, NEW t \in Thread,
           Check(t) \/ Begin(t) \/ Exists(t) \/ Stat(t) \/ Note(t) \/ Assign(t) \/ Search(t) \/ Length(t)
    PROVE  FileInv'
  <1>1. /\ thread \in [Thread -> Threads] /\ thread[t] \in Threads
        /\ file_exists \in BOOLEAN /\ modified \in Nat /\ age \in Nat /\ disk.mtime \in Nat
        /\ processor \in Object \cup {Inert, None}
    BY DEF FileInv, FileTypes
  <1>2. thread[t].at \in NoObject => thread[t].object = None
    BY DEF FileInv, ThreadOK
  <1>p. {"judge", "due", "exists", "stat", "load", "search"} \subseteq Places
    BY DEF Places, NoObject
  <1>3. ASSUME NEW at \in Places, To(t, at), UNCHANGED <<processor, objects, world>>,
               \/ thread[t].at \in NoObject /\ at \in NoObject
               \/ thread[t].at = "length" /\ at = "search",
               file_exists' \in BOOLEAN, modified' \in Nat, age' \in Nat
        PROVE  FileInv'
    <2> DEFINE th == [thread[t] EXCEPT !.at = at]
    <2>1. th \in Threads /\ thread' = [thread EXCEPT ![t] = th]
      BY <1>1, <1>3, Fields DEF To
    <2>2. th.object = thread[t].object /\ th.at = at
      BY <1>1 DEF Threads
    <2> HIDE DEF th
    <2>3. QED
      BY <1>2, <1>3, <2>1, <2>2, Stepped
  <1>4. Resting \in Threads /\ Resting.at \in NoObject /\ Resting.object = None
    BY Fields DEF Resting, NoObject
  <1>5. CASE Check(t)
    <2>1. PICK at \in {"judge", "due"} : To(t, at)
      BY <1>5 DEF Check
    <2>2. /\ UNCHANGED <<processor, objects, world, file_exists, modified, age>>
          /\ thread[t].at = "idle"
      BY <1>5 DEF Check, settings
    <2>3. at \in Places /\ at \in NoObject /\ thread[t].at \in NoObject
      BY <1>p, <2>2 DEF NoObject
    <2>4. QED
      BY <1>1, <1>3, <2>1, <2>2, <2>3
  <1>b. CASE Begin(t)
    <2>1. /\ To(t, "exists") /\ thread[t].at = "due" /\ age' = 0
          /\ UNCHANGED <<processor, objects, world, file_exists, modified>>
      BY <1>b DEF Begin
    <2>2. {"exists", "due"} \subseteq NoObject
      BY DEF NoObject
    <2>3. QED
      BY <1>1, <1>3, <1>p, <2>1, <2>2
  <1>6. CASE Exists(t)
    <2>1. CASE disk.here
      <3>1. /\ To(t, "stat") /\ thread[t].at = "exists"
            /\ UNCHANGED <<processor, objects, world, file_exists, modified, age>>
        BY <1>6, <2>1 DEF Exists
      <3>2. {"stat", "exists"} \subseteq NoObject
        BY DEF NoObject
      <3>3. QED
        BY <1>1, <1>3, <1>p, <3>1, <3>2
    <2>2. CASE ~disk.here
      <3> DEFINE th == [thread[t] EXCEPT !.at = "judge"]
      <3>1. /\ To(t, "judge") /\ processor' \in {Inert, processor} /\ thread[t].at = "exists"
            /\ objects' = Live(processor', thread, objects) /\ file_exists' = FALSE
            /\ UNCHANGED <<world, modified, age>>
        BY <1>6, <2>2 DEF Exists
      <3>2. th \in Threads /\ thread' = [thread EXCEPT ![t] = th]
        BY <1>1, <3>1, Fields DEF To
      <3>3. th.object = thread[t].object /\ th.at = "judge" /\ th.object = None
        BY <1>1, <1>2, <3>1 DEF Threads, NoObject
      <3>4. objects' = Live(processor', thread', objects)
        <4> HIDE DEF th
        <4>1. \A u \in Thread : thread'[u].object = thread[u].object
          BY <1>1, <3>2, <3>3
        <4>2. QED
          BY <3>1, <4>1 DEF Live
      <3> HIDE DEF th
      <3>5. QED
        BY <1>1, <3>1, <3>2, <3>3, <3>4, Dropped DEF NoObject
    <2>3. QED
      BY <2>1, <2>2
  <1>7. CASE Stat(t)
    <2>1. /\ thread[t].at = "stat" /\ thread[t].object = None
          /\ UNCHANGED <<world, processor, objects, file_exists, modified, age>>
      BY <1>2, <1>7 DEF Stat, settings, NoObject
    <2>2. CASE ~disk.here
      BY <1>1, <1>4, <1>7, <2>1, <2>2, Stepped DEF Stat, Rest
    <2>3. CASE disk.here
      <3>1. PICK at \in {"judge", "load"} :
                thread' = [thread EXCEPT ![t] = [thread[t] EXCEPT !.mtime = disk.mtime, !.at = at]]
        BY <1>1, <1>7, <2>3 DEF Stat
      <3> DEFINE th == [thread[t] EXCEPT !.mtime = disk.mtime, !.at = at]
      <3>2. th \in Threads /\ th.object = thread[t].object /\ th.at = at
        BY <1>1, <1>p DEF Threads
      <3> HIDE DEF th
      <3>3. QED
        BY <1>1, <2>1, <3>1, <3>2, Stepped DEF NoObject, th
    <2>4. QED
      BY <2>2, <2>3
  <1>8. CASE Note(t)
    <2>1. /\ To(t, "judge") /\ thread[t].at = "note" /\ file_exists' = TRUE
          /\ modified' = thread[t].mtime /\ age' = 0 /\ UNCHANGED <<processor, objects, world>>
      BY <1>8 DEF Note
    <2>2. modified' \in Nat
      BY <1>1, <2>1 DEF Threads
    <2>3. {"judge", "note"} \subseteq NoObject
      BY DEF NoObject
    <2>4. QED
      BY <1>3, <1>p, <2>1, <2>2, <2>3
  <1>9. CASE Assign(t)
    <2> DEFINE th == [thread[t] EXCEPT !.at = "note", !.object = None]
    <2>1. /\ thread[t].at = "assign" /\ processor' = thread[t].object
          /\ thread' = [thread EXCEPT ![t] = th]
          /\ objects' = Live(processor', thread', objects)
          /\ UNCHANGED <<world, file_exists, modified, age>>
      BY <1>1, <1>9 DEF Assign
    <2>2. th \in Threads /\ th.object = None /\ th.at = "note"
      BY <1>1, Fields DEF Threads
    <2> HIDE DEF th
    <2>3. QED
      BY <1>1, <2>1, <2>2, Dropped DEF NoObject
  <1>10. CASE Search(t)
    BY <1>1, <1>4, <1>10, Dropped DEF Search, Rest
  <1>11. CASE Length(t)
    <2>1. CASE ListOf(t).length = 0
      BY <1>1, <1>4, <1>11, <2>1, Dropped DEF Length, Rest
    <2>2. CASE ListOf(t).length # 0
      BY <1>1, <1>3, <1>p, <1>11, <2>2 DEF Length
    <2>3. QED
      BY <2>1, <2>2
  <1>12. QED
    BY <1>5, <1>b, <1>6, <1>7, <1>8, <1>9, <1>10, <1>11

\* An object that is not the processor is another thread's than one that has none.
LEMMA HeldElsewhere ==
    ASSUME FileInv, NEW t \in Thread, thread[t].object = None,
           NEW i \in DOMAIN objects, i # processor
    PROVE  \E u \in Thread \ {t} : thread[u].object = i
  <1>1. i # None
    BY Constants DEF FileInv, FileTypes
  <1>2. PICK u \in Thread : thread[u].object = i
    BY DEF FileInv, Referred
  <1>3. QED
    BY <1>1, <1>2

\* A file is read: its object is new.
LEMMA Reads ==
    ASSUME FileInv, NEW t \in Thread, Read(t)
    PROVE  FileInv'
  <1>1. /\ thread \in [Thread -> Threads] /\ thread[t] \in Threads
        /\ thread[t].at = "load" /\ thread[t].object = None
        /\ file_exists \in BOOLEAN /\ modified \in Nat /\ age \in Nat
        /\ UNCHANGED <<world, processor, file_exists, modified, age>>
        /\ {"assign", "first"} \subseteq Places
    BY DEF FileInv, FileTypes, ThreadOK, NoObject, Read, Places
  <1>2. CASE To(t, "assign") /\ UNCHANGED objects
    <2> DEFINE th == [thread[t] EXCEPT !.at = "assign"]
    <2>1. /\ th \in Threads /\ thread' = [thread EXCEPT ![t] = th]
          /\ th.object = None /\ th.at = "assign"
      BY <1>1, <1>2 DEF Threads, To
    <2> HIDE DEF th
    <2>2. QED
      BY <1>1, <1>2, <2>1, Stepped
  <1>3. CASE ~(~disk.here \/ disk.content \in Broken)
    <2> DEFINE o == CHOOSE i \in Object : i \notin DOMAIN objects
               th == [thread[t] EXCEPT !.at = "first", !.object = o]
               new == [content |-> disk.content, list |-> List, known |-> FALSE]
    <2>1. o \in Object /\ o \notin DOMAIN objects
      BY <1>1, FreshObject
    <2>2. /\ thread' = [thread EXCEPT ![t] = th]
          /\ objects' = [i \in DOMAIN objects \cup {o} |-> IF i = o THEN new ELSE objects[i]]
      BY <1>1, <1>3 DEF Read
    <2>3. new \in Objects /\ ~new.known
      BY DEF FileInv, FileTypes, Objects, Lists, List
    <2> HIDE DEF o, new
    <2>4. th \in Threads /\ th.at = "first" /\ th.object = o
      BY <1>1, <2>1 DEF Threads
    <2> HIDE DEF th
    <2>5. /\ thread'[t] = th /\ \A u \in Thread \ {t} : thread'[u] = thread[u]
          /\ thread' \in [Thread -> Threads]
          /\ DOMAIN objects' = DOMAIN objects \cup {o} /\ objects'[o] = new
          /\ \A i \in DOMAIN objects : objects'[i] = objects[i]
      BY <1>1, <2>1, <2>2, <2>4
    <2>6. FileTypes'
      <3>1. /\ objects' = [i \in DOMAIN objects' |-> objects'[i]]
            /\ DOMAIN objects' \subseteq Object
            /\ \A i \in DOMAIN objects' : objects'[i] \in Objects
        BY <2>1, <2>2, <2>3, <2>5 DEF FileInv, FileTypes
      <3>2. QED
        BY <1>1, <2>5, <3>1 DEF FileInv, FileTypes, world
    <2>7. Referred'
      <3>1. ASSUME NEW i \in DOMAIN objects, i # processor
            PROVE  \E u \in Thread : thread'[u].object = i
        BY <1>1, <2>5, <3>1, HeldElsewhere
      <3>2. thread'[t].object = o
        BY <2>4, <2>5
      <3>3. QED
        BY <1>1, <2>5, <3>1, <3>2 DEF FileInv, Referred
    <2>8. ASSUME NEW i \in DOMAIN objects' PROVE ObjectOK(i)'
      BY <2>3, <2>5 DEF FileInv, ObjectOK
    <2>9. \A u \in Thread : thread[u].object # o
      <3>1. \A u \in Thread : thread[u].object \in DOMAIN objects \cup {None}
        BY DEF FileInv, ThreadOK, NoObject
      <3>2. QED
        BY <2>1, <3>1, Constants
    <2>10. ThreadOK(t)'
      <3>1. processor # o
        BY <2>1, Constants DEF FileInv, Referred
      <3>2. QED
        BY <1>1, <2>4, <2>5, <2>9, <3>1 DEF ThreadOK, NoObject, Updating
    <2>11. ASSUME NEW u \in Thread \ {t} PROVE ThreadOK(u)'
      <3>1. thread[u].at \in Updating => ListOf(u)' = ListOf(u)
        BY <2>5 DEF FileInv, ThreadOK, NoObject, Updating, ListOf
      <3>2. QED
        BY <1>1, <2>4, <2>5, <2>9, <3>1 DEF FileInv, ThreadOK, Updating
    <2>12. OneUpdateEach'
      BY <2>4, <2>5 DEF FileInv, OneUpdateEach
    <2>13. QED
      BY <2>6, <2>7, <2>8, <2>10, <2>11, <2>12 DEF FileInv
  <1>4. QED
    BY <1>2, <1>3 DEF Read

\* A request looks at the processor there is now.
LEMMA Judges ==
    ASSUME FileInv, NEW t \in Thread, Judge(t)
    PROVE  FileInv'
  <1>1. /\ thread \in [Thread -> Threads] /\ thread[t] \in Threads
        /\ thread[t].at = "judge" /\ thread[t].object = None
        /\ file_exists \in BOOLEAN /\ modified \in Nat /\ age \in Nat
        /\ UNCHANGED <<world, processor, objects, file_exists, modified, age>>
        /\ Resting \in Threads /\ Resting.at \in NoObject /\ Resting.object = None
    BY Fields DEF FileInv, FileTypes, ThreadOK, NoObject, Judge, settings, Resting
  <1>2. CASE processor \in {Inert, None}
    BY <1>1, <1>2, Stepped DEF Judge, Rest
  <1>3. CASE processor \notin {Inert, None}
    <2> DEFINE th == [Resting EXCEPT !.at = "populate", !.object = processor]
    <2>1. thread' = [thread EXCEPT ![t] = th] /\ processor \in DOMAIN objects
      BY <1>1, <1>3 DEF Judge, FileInv, Referred
    <2>2. th \in Threads /\ th.at = "populate" /\ th.object = processor
      <3>1. processor \in Object /\ "populate" \in Places
        BY <2>1 DEF FileInv, FileTypes, Places
      <3>2. QED
        BY <1>1, <3>1 DEF Threads
    <2> HIDE DEF th
    <2>3. /\ thread'[t] = th /\ \A u \in Thread \ {t} : thread'[u] = thread[u]
          /\ thread' \in [Thread -> Threads]
      BY <1>1, <2>1, <2>2
    <2>4. FileTypes'
      BY <1>1, <2>3 DEF FileInv, FileTypes, world
    <2>5. Referred'
      <3>1. ASSUME NEW i \in DOMAIN objects, i # processor
            PROVE  \E u \in Thread : thread'[u].object = i
        BY <1>1, <2>3, <3>1, HeldElsewhere
      <3>2. QED
        BY <1>1, <3>1 DEF FileInv, Referred
    <2>6. ASSUME NEW i \in DOMAIN objects' PROVE ObjectOK(i)'
      BY <1>1, <2>6 DEF FileInv, ObjectOK
    <2>7. ASSUME NEW u \in Thread PROVE ThreadOK(u)'
      <3>1. CASE u = t
        BY <1>1, <2>1, <2>2, <2>3, <3>1 DEF ThreadOK, NoObject, Updating
      <3>2. CASE u # t
        <4>1. ListOf(u)' = ListOf(u)
          BY <1>1, <2>3, <3>2 DEF ListOf
        <4>2. QED
          BY <1>1, <2>2, <2>3, <3>2, <4>1 DEF FileInv, ThreadOK, Updating
      <3>3. QED
        BY <3>1, <3>2
    <2>8. OneUpdateEach'
      BY <2>2, <2>3 DEF FileInv, OneUpdateEach
    <2>9. QED
      BY <2>4, <2>5, <2>6, <2>7, <2>8 DEF FileInv
  <1>4. QED
    BY <1>2, <1>3

----------------------------------------------------------------------------
(* Steps that change a list.                                               *)

\* A step of a thread that changes its object to one that keeps what was fetched.
LEMMA Changed ==
    ASSUME FileInv, NEW t \in Thread, NEW th \in Threads, NEW new \in Objects,
           thread[t].object \in DOMAIN objects,
           thread' = [thread EXCEPT ![t] = th], th.object = thread[t].object,
           objects' = [objects EXCEPT ![thread[t].object] = new],
           UNCHANGED <<processor, world, file_exists, modified, age>>,
           \A u \in Thread \ {t} :
               thread[u].at \in Updating => thread[u].object # thread[t].object,
           th.at \in Updating \cup {"length", "assign"},
           th.at = "assign" => thread[t].at = "first",
           th.at \in Updating => new.list.updating,
           th.at = "swap" => th.text \in Served,
           th.at = "count" => new.list.cidrs \in Served,
           new.known => new.list.cidrs \in Served
                        /\ \E s \in Served : new.list.length = Cardinality(s)
    PROVE  FileInv'
  <1>1. /\ thread \in [Thread -> Threads] /\ thread'[t] = th
        /\ file_exists' \in BOOLEAN /\ modified' \in Nat /\ age' \in Nat
        /\ objects = [o \in DOMAIN objects |-> objects[o]]
        /\ \A o \in DOMAIN objects : objects[o] \in Objects
    BY DEF FileInv, FileTypes
  <1>2. /\ DOMAIN objects' = DOMAIN objects /\ objects'[thread[t].object] = new
        /\ objects' = [o \in DOMAIN objects |-> objects'[o]]
        /\ \A o \in DOMAIN objects : o # thread[t].object => objects'[o] = objects[o]
    BY <1>1
  <1>3. \A o \in DOMAIN objects : objects'[o] \in Objects
    BY <1>1, <1>2
  <1>4. ASSUME NEW o \in DOMAIN objects PROVE ObjectOK(o)'
    <2>1. CASE o = thread[t].object
      BY <1>2, <2>1 DEF ObjectOK
    <2>2. CASE o # thread[t].object
      BY <1>2, <2>2 DEF FileInv, ObjectOK
    <2>3. QED
      BY <2>1, <2>2
  <1>5. ThreadOK(t)'
    <2>1. th.object \in DOMAIN objects' /\ ListOf(t)' = new.list
      BY <1>1, <1>2 DEF ListOf
    <2>2. th.at \notin NoObject
      BY DEF NoObject, Updating
    <2>3. th.at = "assign" =>
             /\ processor # th.object /\ \A u \in Thread \ {t} : thread'[u].object # th.object
      BY <1>1, Constants DEF FileInv, FileTypes, ThreadOK
    <2>4. QED
      BY <1>1, <2>1, <2>2, <2>3 DEF ThreadOK, Updating
  <1>6. th.at \in {"first", "assign"} => thread[t].at = "first"
    BY DEF Updating
  <1>7. QED
    BY <1>1, <1>2, <1>3, <1>4, <1>5, <1>6, Moved

LEMMA Updates ==
    ASSUME FileInv, NEW t \in Thread,
           First(t) \/ Populate(t) \/ Fetch(t) \/ Swap(t) \/ Count(t) \/ Updated(t)
    PROVE  FileInv'
  <1> DEFINE o == thread[t].object
  <1>1. /\ thread \in [Thread -> Threads] /\ thread[t] \in Threads
        /\ url \in Served \cup {Down} /\ UNCHANGED <<processor, world, file_exists, modified, age>>
        /\ file_exists \in BOOLEAN /\ modified \in Nat /\ age \in Nat
    BY DEF FileInv, FileTypes, First, Populate, Fetch, Swap, Count, Updated, Change, settings
  <1>2. /\ o \in DOMAIN objects /\ objects[o] \in Objects /\ objects[o].list \in Lists
        /\ objects = [i \in DOMAIN objects |-> objects[i]] /\ ListOf(t) = objects[o].list
    <2>1. thread[t].at \in Updating \cup {"first", "populate"}
      BY DEF First, Populate, Fetch, Swap, Count, Updated, Updating
    <2>2. o \in DOMAIN objects
      BY <2>1 DEF FileInv, ThreadOK, NoObject, Updating
    <2>3. QED
      BY <2>2 DEF FileInv, FileTypes, Objects, ListOf
  <1>3. {"assign", "fetch", "length", "swap", "count", "updated"} \subseteq Places
    BY DEF Places, Updating
  <1>4. \A list \in Lists, b \in BOOLEAN :
           /\ [objects[o] EXCEPT !.list = list, !.known = b] \in Objects
           /\ [objects[o] EXCEPT !.list = list] \in Objects
    BY <1>2 DEF Objects
  <1>5. \A at \in Places :
           /\ [thread[t] EXCEPT !.at = at] \in Threads
           /\ [thread[t] EXCEPT !.at = at].at = at
           /\ [thread[t] EXCEPT !.at = at].object = o
    BY <1>1 DEF Threads
  <1>6. ObjectOK(o) /\ (thread[t].at \in Updating => ListOf(t).updating)
        /\ (thread[t].at = "swap" => thread[t].text \in Served)
        /\ (thread[t].at = "count" => ListOf(t).cidrs \in Served)
    BY <1>2 DEF FileInv, ThreadOK
  <1>7. thread[t].at \in Updating => \A u \in Thread \ {t} :
            thread[u].at \in Updating => thread[u].object # o
    BY DEF FileInv, OneUpdateEach, Updating
  \* A step that changes the list, and whether it is known.
  <1>8. ASSUME NEW at \in {"fetch", "count", "updated", "length"}, To(t, at),
               NEW list \in Lists,
               objects' = [objects EXCEPT ![o] = [objects[o] EXCEPT !.list = list]],
               \A u \in Thread \ {t} : thread[u].at \in Updating => thread[u].object # o,
               at \in Updating => list.updating,
               at = "count" => list.cidrs \in Served,
               list.cidrs \in Served \cup {ListOf(t).cidrs}, list.length = ListOf(t).length
        PROVE  FileInv'
    <2> DEFINE th == [thread[t] EXCEPT !.at = at]
               new == [objects[o] EXCEPT !.list = list]
    <2>1. th \in Threads /\ th.at = at /\ th.object = o /\ thread' = [thread EXCEPT ![t] = th]
      BY <1>1, <1>3, <1>5, <1>8 DEF To
    <2>2. new \in Objects /\ new.list = list /\ new.known = objects[o].known
      BY <1>2, <1>4 DEF Objects
    <2>3. new.known => new.list.cidrs \in Served
                       /\ \E s \in Served : new.list.length = Cardinality(s)
      BY <1>2, <1>6, <1>8, <2>2 DEF ObjectOK
    <2>4. objects' = [objects EXCEPT ![o] = new]
      BY <1>8
    <2> HIDE DEF th, new
    <2>5. /\ th.at \in Updating \cup {"length", "assign"} /\ th.at # "swap" /\ th.at # "assign"
          /\ th.at \in Updating => new.list.updating
          /\ th.at = "count" => new.list.cidrs \in Served
      BY <1>8, <2>1, <2>2 DEF Updating
    <2>6. \A u \in Thread \ {t} : thread[u].at \in Updating => thread[u].object # o
      BY <1>8
    <2>7. QED
      BY <1>1, <1>2, <2>1, <2>2, <2>3, <2>4, <2>5, <2>6, Changed
  <1>9. CASE First(t)
    <2> DEFINE th == [thread[t] EXCEPT !.at = "assign"]
               new == [objects[o] EXCEPT !.list = Fetched(objects[o].list, url), !.known = url # Down]
    <2>1. thread[t].at = "first" /\ thread' = [thread EXCEPT ![t] = th]
          /\ objects' = [objects EXCEPT ![o] = new]
      BY <1>1, <1>2, <1>9 DEF First, To
    <2>2. th \in Threads /\ th.at = "assign" /\ th.object = o
      BY <1>3, <1>5
    <2>3. Fetched(objects[o].list, url) \in Lists
      BY <1>1, <1>2, Constants DEF Fetched, Lists
    <2>4. url # Down =>
             /\ Fetched(objects[o].list, url).cidrs = url /\ url \in Served
             /\ Fetched(objects[o].list, url).length = Cardinality(url)
      BY <1>1, <1>2 DEF Fetched, Lists
    <2>5. new \in Objects /\ new.known = (url # Down)
          /\ new.list = Fetched(objects[o].list, url)
      BY <1>2, <1>4, <2>3 DEF Objects
    <2>6. \A u \in Thread \ {t} : thread[u].object # o
      <3>1. o # None
        BY <1>2, Constants DEF FileInv, FileTypes
      <3>2. QED
        BY <2>1, <3>1 DEF FileInv, ThreadOK
    <2> HIDE DEF th, new
    <2>7. /\ th.at \in Updating \cup {"length", "assign"} /\ th.at # "swap"
          /\ th.at \notin Updating /\ th.at # "count"
      BY <2>2 DEF Updating
    <2>8. new.known => new.list.cidrs \in Served
                       /\ \E s \in Served : new.list.length = Cardinality(s)
      BY <2>4, <2>5
    <2>9. QED
      BY <1>1, <1>2, <2>1, <2>2, <2>5, <2>6, <2>7, <2>8, Changed
  <1>10. CASE Populate(t)
    <2>1. CASE MayPopulate(ListOf(t))
      <3> DEFINE list == [ListOf(t) EXCEPT !.updating = TRUE]
      <3>1. /\ To(t, "fetch") /\ thread[t].at = "populate"
            /\ objects' = [objects EXCEPT ![o] = [objects[o] EXCEPT !.list = list]]
        BY <1>2, <1>10, <2>1 DEF Populate, Change
      <3>2. /\ list \in Lists /\ list.updating /\ list.cidrs = ListOf(t).cidrs
            /\ list.length = ListOf(t).length
        BY <1>2 DEF Lists
      <3>3. \A u \in Thread \ {t} : thread[u].at \in Updating => thread[u].object # o
        BY <2>1 DEF FileInv, ThreadOK, MayPopulate, ListOf
      <3> HIDE DEF list
      <3>4. QED
        BY <1>8, <3>1, <3>2, <3>3
    <2>2. CASE ~MayPopulate(ListOf(t))
      BY <1>1, <1>3, <1>5, <1>10, <2>2, Stepped DEF Populate, To, settings
    <2>3. QED
      BY <2>1, <2>2
  <1>11. CASE Fetch(t)
    <2>1. CASE url = Down
      <3>1. /\ To(t, "updated") /\ thread[t].at \in Updating
            /\ objects' = [objects EXCEPT ![o] = [objects[o] EXCEPT !.list = Failed(ListOf(t))]]
        BY <1>2, <1>11, <2>1 DEF Fetch, Change, Updating
      <3>2. /\ Failed(ListOf(t)) \in Lists /\ Failed(ListOf(t)).updating = ListOf(t).updating
            /\ Failed(ListOf(t)).cidrs = ListOf(t).cidrs
            /\ Failed(ListOf(t)).length = ListOf(t).length
        BY <1>2, Constants DEF Failed, Lists
      <3>3. QED
        BY <1>6, <1>7, <1>8, <3>1, <3>2
    <2>2. CASE url # Down
      <3> DEFINE th == [thread[t] EXCEPT !.at = "swap", !.text = url]
      <3>1. /\ thread[t].at = "fetch" /\ thread' = [thread EXCEPT ![t] = th]
            /\ UNCHANGED <<objects, processor, world, file_exists, modified, age>>
        BY <1>1, <1>11, <2>2 DEF Fetch, settings
      <3>2. th \in Threads /\ th.at = "swap" /\ th.text \in Served /\ th.object = o
        BY <1>1, <1>3, <2>2 DEF Threads
      <3> HIDE DEF th
      <3>3. QED
        BY <1>1, <3>1, <3>2, Stepped
    <2>3. QED
      BY <2>1, <2>2
  <1>12. CASE Swap(t)
    <2> DEFINE list == Swapped(ListOf(t), thread[t].text)
    <2>1. /\ To(t, "count") /\ thread[t].at = "swap" /\ thread[t].at \in Updating
          /\ objects' = [objects EXCEPT ![o] = [objects[o] EXCEPT !.list = list]]
      BY <1>2, <1>12 DEF Swap, Change, Updating
    <2>2. /\ list \in Lists /\ list.updating = ListOf(t).updating
          /\ list.cidrs \in Served /\ list.length = ListOf(t).length
      BY <1>2, <1>6, <2>1 DEF Swapped, Lists
    <2> HIDE DEF list
    <2>3. QED
      BY <1>6, <1>7, <1>8, <2>1, <2>2
  <1>13. CASE Count(t)
    <2> DEFINE th == [thread[t] EXCEPT !.at = "updated", !.text = Down]
               list == Counted(ListOf(t))
               new == [objects[o] EXCEPT !.list = list, !.known = TRUE]
    <2>1. /\ thread[t].at = "count" /\ thread' = [thread EXCEPT ![t] = th]
          /\ objects' = [objects EXCEPT ![o] = new]
      BY <1>1, <1>2, <1>13 DEF Count
    <2>2. th \in Threads /\ th.at = "updated" /\ th.object = o
      BY <1>1, <1>3 DEF Threads
    <2>3. ListOf(t).cidrs \in Served /\ ListOf(t).updating
      BY <1>6, <2>1 DEF Updating
    <2>4. /\ list \in Lists /\ list.updating /\ list.cidrs \in Served
          /\ list.length = Cardinality(list.cidrs)
      BY <1>2, <2>3, Constants DEF Counted, Lists
    <2>5. new \in Objects /\ new.list = list
      BY <1>2, <1>4, <2>4 DEF Objects
    <2> HIDE DEF th, list, new
    <2>6. QED
      BY <1>1, <1>2, <1>7, <2>1, <2>2, <2>4, <2>5, Changed DEF Updating
  <1>14. CASE Updated(t)
    <2> DEFINE list == [ListOf(t) EXCEPT !.updating = FALSE]
    <2>1. /\ To(t, "length") /\ thread[t].at \in Updating
          /\ objects' = [objects EXCEPT ![o] = [objects[o] EXCEPT !.list = list]]
      BY <1>2, <1>14 DEF Updated, Change, Updating
    <2>2. list \in Lists /\ list.cidrs = ListOf(t).cidrs /\ list.length = ListOf(t).length
      BY <1>2 DEF Lists
    <2> HIDE DEF list
    <2>3. QED
      BY <1>7, <1>8, <2>1, <2>2 DEF Updating
  <1>15. QED
    BY <1>9, <1>10, <1>11, <1>12, <1>13, <1>14

----------------------------------------------------------------------------
(* Around the process, and time.                                           *)

LEMMA Around ==
    ASSUME FileInv,
           \/ \E c \in Content : Write(c)
           \/ RemoveFile \/ RestoreFile
           \/ \E text \in Served \cup {Down} : Serve(text)
    PROVE  FileInv'
  <1>1. UNCHANGED <<processor, objects, file_exists, modified, age, thread>>
    BY DEF Write, RemoveFile, RestoreFile, Serve, settings
  <1>2. /\ disk' \in [here : BOOLEAN, content : Content, mtime : Nat]
        /\ url' \in Served \cup {Down} /\ changes' \in Nat /\ outages' \in Nat
    <2>0. /\ disk \in [here : BOOLEAN, content : Content, mtime : Nat]
          /\ url \in Served \cup {Down} /\ changes \in Nat /\ outages \in Nat
      BY DEF FileInv, FileTypes
    <2>1. ASSUME NEW c \in Content, Write(c)
          PROVE  /\ disk' \in [here : BOOLEAN, content : Content, mtime : Nat]
                 /\ url' = url /\ changes' = changes + 1 /\ outages' = outages
      BY <2>0, <2>1 DEF Write, Later
    <2>2. ASSUME RemoveFile \/ RestoreFile
          PROVE  /\ disk' \in [here : BOOLEAN, content : Content, mtime : Nat]
                 /\ url' = url /\ changes' = changes + 1 /\ outages' = outages
      BY <2>0, <2>2 DEF RemoveFile, RestoreFile
    <2>3. ASSUME NEW text \in Served \cup {Down}, Serve(text)
          PROVE  disk' = disk /\ url' = text /\ changes' = changes /\ outages' = outages + 1
      BY <2>3 DEF Serve
    <2>4. QED
      BY <2>0, <2>1, <2>2, <2>3
  <1>3. FileTypes' /\ Referred' /\ OneUpdateEach'
    BY <1>1, <1>2 DEF FileInv, FileTypes, Referred, OneUpdateEach
  <1>4. ASSUME NEW o \in DOMAIN objects' PROVE ObjectOK(o)'
    BY <1>1 DEF FileInv, ObjectOK
  <1>5. ASSUME NEW t \in Thread PROVE ThreadOK(t)'
    BY <1>1 DEF FileInv, ThreadOK, ListOf
  <1>6. QED
    BY <1>3, <1>4, <1>5 DEF FileInv

LEMMA TickKeeps ==
    ASSUME FileInv, Tick
    PROVE  FileInv'
  <1>1. /\ UNCHANGED <<disk, url, changes, outages, processor, file_exists, modified, thread>>
        /\ objects' = [o \in DOMAIN objects |-> [objects[o] EXCEPT !.list = Older(objects[o].list)]]
        /\ age' \in Nat
    BY Constants DEF Tick, world, FileInv, FileTypes
  <1>2. ASSUME NEW o \in DOMAIN objects
        PROVE  /\ objects'[o] \in Objects /\ objects'[o].known = objects[o].known
               /\ objects'[o].list.cidrs = objects[o].list.cidrs
               /\ objects'[o].list.length = objects[o].list.length
               /\ objects'[o].list.updating = objects[o].list.updating
    <2>1. objects[o] \in Objects /\ objects[o].list \in Lists
      BY DEF FileInv, FileTypes, Objects
    <2> DEFINE older == Older(objects[o].list)
    <2>2. /\ older \in Lists /\ older.cidrs = objects[o].list.cidrs
          /\ older.length = objects[o].list.length /\ older.updating = objects[o].list.updating
      BY <2>1 DEF Older, Lists
    <2> HIDE DEF older
    <2>3. objects'[o] = [objects[o] EXCEPT !.list = older]
      BY <1>1 DEF older
    <2>4. QED
      BY <2>1, <2>2, <2>3 DEF Objects
  <1>3. DOMAIN objects' = DOMAIN objects /\ objects' = [o \in DOMAIN objects' |-> objects'[o]]
    BY <1>1
  <1>4. FileTypes' /\ Referred' /\ OneUpdateEach'
    <2>1. FileTypes'
      BY <1>1, <1>2, <1>3 DEF FileInv, FileTypes
    <2>2. Referred' /\ OneUpdateEach'
      BY <1>1, <1>3 DEF FileInv, Referred, OneUpdateEach
    <2>3. QED
      BY <2>1, <2>2
  <1>5. ASSUME NEW o \in DOMAIN objects' PROVE ObjectOK(o)'
    BY <1>2, <1>3 DEF FileInv, ObjectOK
  <1>6. ASSUME NEW t \in Thread PROVE ThreadOK(t)'
    <2>1. thread[t].object \in DOMAIN objects =>
             ListOf(t)'.updating = ListOf(t).updating /\ ListOf(t)'.cidrs = ListOf(t).cidrs
      BY <1>1, <1>2 DEF ListOf
    <2>2. thread[t].at \in Updating => thread[t].object \in DOMAIN objects
      BY DEF FileInv, ThreadOK, NoObject, Updating
    <2>3. QED
      BY <1>1, <1>3, <2>1, <2>2 DEF FileInv, ThreadOK, Updating
  <1>7. QED
    BY <1>4, <1>5, <1>6 DEF FileInv

----------------------------------------------------------------------------
(* The theorem.                                                            *)

LEMMA FileInit ==
    ASSUME Init
    PROVE  FileInv
  <1>1. /\ thread = [t \in Thread |-> Resting] /\ Resting \in Threads
        /\ Resting.at = "idle" /\ Resting.object = None
        /\ objects = <<>> /\ DOMAIN objects = {} /\ processor = Inert
    BY DEF Init, Resting, Threads, Places, NoObject
  <1>2. FileTypes
    <2>1. disk \in [here : BOOLEAN, content : Content, mtime : Nat]
      BY DEF Init
    <2>2. thread \in [Thread -> Threads] /\ objects = [o \in DOMAIN objects |-> objects[o]]
      BY <1>1
    <2>3. QED
      BY <1>1, <2>1, <2>2, Constants DEF Init, FileTypes
  <1>3. Referred /\ OneUpdateEach
    BY <1>1 DEF Referred, OneUpdateEach
  <1>4. ASSUME NEW t \in Thread PROVE ThreadOK(t)
    BY <1>1 DEF ThreadOK, NoObject, Updating
  <1>5. QED
    BY <1>1, <1>2, <1>3, <1>4 DEF FileInv

LEMMA FileStep ==
    ASSUME FileInv, [Next]_fvars
    PROVE  FileInv'
  <1>1. CASE \E t \in Thread : Request(t)
    BY <1>1, StepsAside, Reads, Judges, Updates DEF Request
  <1>2. CASE Tick
    BY <1>2, TickKeeps
  <1>3. CASE UNCHANGED fvars
    <2>1. FileTypes' /\ Referred' /\ OneUpdateEach'
      BY <1>3 DEF FileInv, FileTypes, Referred, OneUpdateEach, fvars, settings, world
    <2>2. ASSUME NEW o \in DOMAIN objects' PROVE ObjectOK(o)'
      BY <1>3 DEF FileInv, ObjectOK, fvars, settings
    <2>3. ASSUME NEW t \in Thread PROVE ThreadOK(t)'
      BY <1>3 DEF FileInv, ThreadOK, ListOf, fvars, settings
    <2>4. QED
      BY <2>1, <2>2, <2>3 DEF FileInv
  <1>4. QED
    BY <1>1, <1>2, <1>3, Around DEF Next

\* However many threads answer requests while the file and what the URL serves change, a
\* list is updated by one of them at a time; and once it was fetched, who is in all that
\* is ever served is identified, by threads that look while it is swapped
\* (ipcidrlisturl.py, __populate_cidrs__ and evaluate; limitproc.py).
THEOREM ListsServe == Spec => []ListSound
  <1>1. Init => FileInv
    BY FileInit
  <1>2. FileInv /\ [Next]_fvars => FileInv'
    BY FileStep
  <1>3. FileInv => ListSound
    <2> SUFFICES ASSUME FileInv, NEW t \in Thread,
                        NEW a \in {b \in UNION Served : \A s \in Served : b \in s},
                        thread[t].object # None, objects[thread[t].object].known
                 PROVE  /\ thread[t].at = "length" => ListOf(t).length # 0
                        /\ thread[t].at = "search" => a \in ListOf(t).cidrs
      BY DEF ListSound, KnownIsIdentified, FileInv
    <2>1. SUFFICES ASSUME thread[t].at \in {"length", "search"}
                   PROVE  ListOf(t).length # 0 /\ a \in ListOf(t).cidrs
      OBVIOUS
    <2>2. thread[t].object \in DOMAIN objects
      BY <2>1 DEF FileInv, ThreadOK, NoObject
    <2>3. /\ ListOf(t).cidrs \in Served
          /\ \E s \in Served : ListOf(t).length = Cardinality(s)
      BY <2>2 DEF FileInv, ObjectOK, ListOf
    <2>4. \A s \in Served : Cardinality(s) # 0
      BY Constants, FS_EmptySet
    <2>5. QED
      BY <2>3, <2>4
  <1>4. QED
    BY <1>1, <1>2, <1>3, PTL DEF Spec

----------------------------------------------------------------------------
(* What a processor says of a request.                                     *)

\* Of numbers of which there is one there is a least.
LEMMA Least ==
    ASSUME NEW T, T \subseteq Nat, T # {}
    PROVE  \E n \in T : \A m \in T : n <= m
  <1>1. IsWellFoundedOn(OpToRel(<, Nat), Nat)
    BY NatLessThanWellFounded
  <1>2. PICK n \in T : \A m \in T : ~(<<m, n>> \in OpToRel(<, Nat))
    BY <1>1, WFMin
  <1>3. \A m \in T : ~(m < n)
    BY <1>2 DEF OpToRel
  <1>4. QED
    BY <1>3

\* A limit is itself or, if it is a clone, what it makes of the one at an earlier place.
Place(fodder, i) == CHOOSE j \in 1 .. i - 1 : fodder[j].name = fodder[i].clone

MadeOf(fodder, limit, i) ==
    IF fodder[i].clone = None THEN [data |-> fodder[i].data, invert |-> fodder[i].invert]
    ELSE [data |-> Over(fodder[i].data, limit[Place(fodder, i)].data), invert |-> FALSE]

Clones(fodder) ==
    \A i \in DOMAIN fodder :
        fodder[i].clone # None => \E j \in 1 .. i - 1 : fodder[j].name = fodder[i].clone

Made(fodder, limit, n) == limit = [i \in 1 .. n |-> MadeOf(fodder, limit, i)]

\* What is made of the limits up to a place can be made of one more.
LEMMA MadeStep ==
    ASSUME NEW fodder, IsList(fodder), Clones(fodder), NEW n \in 1 .. Len(fodder),
           NEW before, Made(fodder, before, n - 1)
    PROVE  \E limit : Made(fodder, limit, n)
  <1> DEFINE limit == [i \in 1 .. n |-> MadeOf(fodder, before, i)]
  <1>1. n \in Nat \ {0} /\ n \in DOMAIN fodder /\ 1 .. n \subseteq DOMAIN fodder
    BY DEF IsList
  <1>2. \A i \in 1 .. n - 1 : limit[i] = before[i]
    BY <1>1 DEF Made
  <1>3. ASSUME NEW i \in 1 .. n PROVE MadeOf(fodder, before, i) = MadeOf(fodder, limit, i)
    <2> HIDE DEF limit
    <2>1. CASE fodder[i].clone = None
      BY <2>1 DEF MadeOf
    <2>2. CASE fodder[i].clone # None
      <3>1. Place(fodder, i) \in 1 .. i - 1
        BY <1>1, <2>2 DEF Clones, Place
      <3>2. Place(fodder, i) \in 1 .. n - 1
        BY <1>1, <3>1
      <3>3. QED
        BY <1>2, <2>2, <3>2 DEF MadeOf
    <2>3. QED
      BY <2>1, <2>2
  <1>4. limit = [i \in 1 .. n |-> MadeOf(fodder, limit, i)]
    BY <1>3
  <1>5. QED
    BY <1>4 DEF Made

\* There is a function that is defined by recursion on the place.
LEMMA MadeExists ==
    ASSUME NEW fodder, IsList(fodder), Clones(fodder)
    PROVE  \E limit : Made(fodder, limit, Len(fodder))
  <1> DEFINE Bad == {n \in 0 .. Len(fodder) : ~\E limit : Made(fodder, limit, n)}
  <1>1. Len(fodder) \in Nat /\ DOMAIN fodder = 1 .. Len(fodder)
    BY DEF IsList
  <1>2. SUFFICES ASSUME Bad # {} PROVE FALSE
    BY <1>1
  <1>3. Bad \subseteq Nat
    OBVIOUS
  <1>4. PICK n \in Bad : \A m \in Bad : n <= m
    <2> HIDE DEF Bad
    <2>1. QED
      BY <1>2, <1>3, Least
  <1>5. n # 0
    <2>1. Made(fodder, <<>>, 0)
      BY DEF Made
    <2>2. QED
      BY <2>1
  <1>6. n \in 1 .. Len(fodder) /\ n - 1 \in 0 .. Len(fodder) /\ n - 1 \notin Bad
    BY <1>1, <1>4, <1>5
  <1>7. PICK before : Made(fodder, before, n - 1)
    BY <1>6
  <1>8. \E limit : Made(fodder, limit, n)
    BY <1>6, <1>7, MadeStep
  <1>9. QED
    BY <1>8

\* What a limit is made of says of which kind it is.
LEMMA MadeTypes ==
    ASSUME NEW fodder, IsList(fodder), Clones(fodder),
           \A i \in DOMAIN fodder : LimitOK(fodder[i]),
           NEW limit, Made(fodder, limit, Len(fodder))
    PROVE  \A i \in DOMAIN fodder :
               "type" \in DOMAIN limit[i].data /\ limit[i].data.type \in LimitTypes
  <1> DEFINE Good(i) == "type" \in DOMAIN limit[i].data /\ limit[i].data.type \in LimitTypes
             Bad == {i \in DOMAIN fodder : ~Good(i)}
  <1>1. Len(fodder) \in Nat /\ DOMAIN fodder = 1 .. Len(fodder)
    BY DEF IsList
  <1>2. SUFFICES ASSUME Bad # {} PROVE FALSE
    OBVIOUS
  <1>3. Bad \subseteq Nat
    BY <1>1
  <1>4. PICK i \in Bad : \A m \in Bad : i <= m
    <2> HIDE DEF Bad
    <2>1. QED
      BY <1>2, <1>3, Least
  <1>5. limit[i] = MadeOf(fodder, limit, i) /\ LimitOK(fodder[i])
    BY <1>1 DEF Made
  <1>6. CASE fodder[i].clone = None
    BY <1>5, <1>6 DEF MadeOf, LimitOK
  <1>7. CASE fodder[i].clone # None
    <2> DEFINE j == Place(fodder, i)
    <2>1. j \in 1 .. i - 1
      BY <1>7 DEF Clones, Place
    <2>2. Good(j)
      BY <1>1, <1>4, <2>1
    <2>3. limit[i].data = Over(fodder[i].data, limit[j].data)
      BY <1>5, <1>7 DEF MadeOf
    <2> HIDE DEF j
    <2>4. Good(i)
      BY <1>5, <2>2, <2>3 DEF Over, LimitOK
    <2>5. QED
      BY <2>4
  <1>8. QED
    BY <1>6, <1>7

\* The limits of a file that can be used are of known kinds.
LEMMA LimitsMade ==
    ASSUME NEW fodder, IsList(fodder), Clones(fodder),
           \A i \in DOMAIN fodder : LimitOK(fodder[i]), NEW k \in DOMAIN fodder
    PROVE  LET l == Limits(fodder)[fodder[k].name] IN
           /\ fodder[k].name \in DOMAIN Limits(fodder)
           /\ l.data.type \in LimitTypes
  <1> DEFINE limit == CHOOSE limit : limit = [i \in DOMAIN fodder |-> MadeOf(fodder, limit, i)]
             at(name) == CHOOSE i \in DOMAIN fodder : fodder[i].name = name
             l == Limits(fodder)[fodder[k].name]
  <1>1. Limits(fodder) = [name \in {fodder[i].name : i \in DOMAIN fodder} |-> limit[at(name)]]
    BY Zenon DEF Limits, MadeOf, Place
  <1>2. \E f : f = [i \in DOMAIN fodder |-> MadeOf(fodder, f, i)]
    BY MadeExists DEF Made, IsList
  <1>3. limit = [i \in DOMAIN fodder |-> MadeOf(fodder, limit, i)]
    BY <1>2
  <1> HIDE DEF limit
  <1>4. at(fodder[k].name) \in DOMAIN fodder
    OBVIOUS
  <1>5. l = limit[at(fodder[k].name)]
    BY <1>1
  <1>6. Made(fodder, limit, Len(fodder))
    BY <1>3 DEF Made, IsList
  <1>7. \A i \in DOMAIN fodder : limit[i].data.type \in LimitTypes
    BY <1>6, MadeTypes
  <1>8. fodder[k].name \in DOMAIN Limits(fodder)
    BY <1>1
  <1> HIDE DEF at
  <1>9. QED
    BY <1>4, <1>5, <1>7, <1>8

----------------------------------------------------------------------------
(* Posting and running.                                                    *)

\* What a processor is made of.
LEMMA Loaded ==
    ASSUME NEW file \in Files
    PROVE  /\ ~Valid(file) => Load(file) = None
           /\ Valid(file) =>
                 /\ Load(file).limits = Limits(file.limits)
                 /\ Load(file).applications = file.applications
                 /\ Load(file).rewriter = file.rewriter
                 /\ Load(file) # None /\ Load(file) # Inert
  <1>1. /\ {"limits", "applications", "rewriter"} \subseteq DOMAIN file
        /\ Valid(file) => Load(file) \notin {None, Inert}
    BY PropertiesAssumption DEF PropertiesAssumption
  <1>2. QED
    BY <1>1 DEF Load

\* The limits that are applied are among those of the file.
LEMMA LoadedLimits ==
    ASSUME NEW file \in Files, Valid(file), NEW app \in ToSet(file.applications),
           NEW group \in ToSet(app.apply), NEW name \in ToSet(group.limits)
    PROVE  /\ name \in DOMAIN Load(file).limits
           /\ Load(file).limits[name].data.type \in LimitTypes
  <1>1. PICK k \in DOMAIN file.limits : file.limits[k].name = name
    BY DEF Valid
  <1>2. /\ IsList(file.limits) /\ Clones(file.limits)
        /\ \A i \in DOMAIN file.limits : LimitOK(file.limits[i])
    BY PropertiesAssumption DEF PropertiesAssumption, Valid, Clones
  <1>3. QED
    BY <1>1, <1>2, LimitsMade, Loaded

\* A limit that does not look at times says the same of a task with times.
LEMMA TimelessSame ==
    ASSUME NEW t \in Tasks, NEW s \in Spans, NEW data, data.type \in LimitTypes,
           ~checks_schedule(data), Timeless(data)
    PROVE  evaluate(data, At(t, s)) = evaluate(data, t)
  <1> DEFINE u == At(t, s)
  <1>1. u.type = t.type /\ u.spec = t.spec
    BY PropertiesAssumption DEF PropertiesAssumption, At, Over
  <1> HIDE DEF u
  <1>2. data.type \in {"jq", "pass-fail", "test", "test-type", "url-fetch"}
    BY DEF checks_schedule, LimitTypes
  <1>3. CASE data.type \in {"jq", "url-fetch"}
    BY <1>3 DEF Timeless
  <1>4. CASE data.type \in {"pass-fail", "test", "test-type"}
    <2>1. LimitPassFail(data, u) = LimitPassFail(data, t)
      BY DEF LimitPassFail
    <2>2. LimitTest(data, u) = LimitTest(data, t)
      BY <1>1 DEF LimitTest
    <2>3. LimitTestType(data, u) = LimitTestType(data, t)
      BY <1>1 DEF LimitTestType
    <2>4. evaluate(data, u) = evaluate(data, t)
      BY <1>4, <2>1, <2>2, <2>3, Zenon DEF evaluate
    <2>5. QED
      BY <2>4 DEF u
  <1>5. QED
    BY <1>2, <1>3, <1>4

\* A limit in use that does not look at times checks the same.
LEMMA LimitSame ==
    ASSUME NEW file \in Files, Valid(file), TimelessScripts(file),
           NEW app \in ToSet(file.applications),
           NEW group \in ToSet(app.apply), NEW name \in ToSet(group.limits),
           NEW t \in Tasks, NEW s \in Spans,
           ~checks_schedule(Load(file).limits[name].data)
    PROVE  LimitSetCheck(Load(file), t, name, FALSE) =
               LimitSetCheck(Load(file), At(t, s), name, TRUE)
  <1> DEFINE limit == Load(file).limits[name]
  <1>1. limit.data.type \in LimitTypes /\ Timeless(limit.data)
    BY LoadedLimits DEF TimelessScripts
  <1>2. evaluate(limit.data, At(t, s)) = evaluate(limit.data, t)
    BY <1>1, TimelessSame
  <1>3. QED
    BY <1>2 DEF LimitSetCheck

\* What passed with times passes without.
LEMMA LimitPasses ==
    ASSUME NEW file \in Files, Valid(file), TimelessScripts(file),
           NEW app \in ToSet(file.applications),
           NEW group \in ToSet(app.apply), NEW name \in ToSet(group.limits),
           NEW t \in Tasks, NEW s \in Spans,
           LimitSetCheck(Load(file), At(t, s), name, TRUE).passed
    PROVE  LimitSetCheck(Load(file), t, name, FALSE).passed
  <1>1. CASE checks_schedule(Load(file).limits[name].data)
    BY <1>1 DEF LimitSetCheck, Pass
  <1>2. CASE ~checks_schedule(Load(file).limits[name].data)
    BY <1>2, LimitSame
  <1>3. QED
    BY <1>1, <1>2

\* Fewer that pass of as many are no more that are met.
LEMMA MoreMet ==
    ASSUME NEW require \in {"any", "all"}, NEW n \in Nat,
           NEW few \in SUBSET (1 .. n), NEW many \in SUBSET (1 .. n), few \subseteq many,
           require_tests(require, Cardinality(few), n)
    PROVE  require_tests(require, Cardinality(many), n)
  <1>1. IsFiniteSet(1 .. n) /\ Cardinality(1 .. n) = n
    BY FS_Interval
  <1>2. /\ IsFiniteSet(many) /\ Cardinality(many) <= n /\ Cardinality(many) \in Nat
    BY <1>1, FS_Subset, FS_CardinalityType
  <1>3. Cardinality(few) <= Cardinality(many) /\ Cardinality(few) \in Nat
    BY <1>2, FS_Subset, FS_CardinalityType
  <1>4. CASE require = "any"
    <2>1. Cardinality(few) > 0
      BY <1>4, Zenon DEF require_tests
    <2>2. Cardinality(many) > 0
      BY <1>2, <1>3, <2>1
    <2>3. QED
      BY <1>4, <2>2, Zenon DEF require_tests
  <1>5. CASE require = "all"
    <2>1. Cardinality(few) = n
      BY <1>5, Zenon DEF require_tests
    <2>2. Cardinality(many) = n
      BY <1>2, <1>3, <2>1
    <2>3. QED
      BY <1>5, <2>2, Zenon DEF require_tests
  <1>6. QED
    BY <1>4, <1>5

\* A group without limits that look at times is checked the same.
LEMMA GroupSame ==
    ASSUME NEW file \in Files, Valid(file), TimelessScripts(file),
           NEW app \in ToSet(file.applications),
           NEW group \in ToSet(app.apply), NEW t \in Tasks, NEW s \in Spans,
           ~LooksAtTimes(file, group)
    PROVE  check_group(Load(file), t, group, FALSE) = check_group(Load(file), At(t, s), group, TRUE)
  <1>1. ASSUME NEW i \in DOMAIN group.limits
        PROVE  LimitSetCheck(Load(file), t, group.limits[i], FALSE) =
                   LimitSetCheck(Load(file), At(t, s), group.limits[i], TRUE)
    <2>1. group.limits[i] \in ToSet(group.limits)
      BY DEF ToSet
    <2>2. ~checks_schedule(Load(file).limits[group.limits[i]].data)
      BY <2>1 DEF LooksAtTimes
    <2>3. QED
      BY <2>1, <2>2, LimitSame
  <1>2. [i \in DOMAIN group.limits |-> LimitSetCheck(Load(file), t, group.limits[i], FALSE)] =
            [i \in DOMAIN group.limits |-> LimitSetCheck(Load(file), At(t, s), group.limits[i], TRUE)]
    BY <1>1
  <1>3. QED
    BY <1>2, Zenon DEF check_group

\* One that has such limits requires any or all of them, and passes if it passed.
LEMMA GroupPasses ==
    ASSUME NEW file \in Files, Valid(file), TimelessScripts(file), Straight(file),
           NEW app \in ToSet(file.applications),
           IsList(app.apply), NEW group \in ToSet(app.apply), IsList(group.limits),
           NEW t \in Tasks, NEW s \in Spans,
           check_group(Load(file), At(t, s), group, TRUE).passed
    PROVE  check_group(Load(file), t, group, FALSE).passed
  <1>0. SUFFICES ASSUME LooksAtTimes(file, group)
                 PROVE  check_group(Load(file), t, group, FALSE).passed
    BY GroupSame
  <1> DEFINE n == Len(group.limits)
             Before == [i \in DOMAIN group.limits |->
                           LimitSetCheck(Load(file), At(t, s), group.limits[i], TRUE)]
             After == [i \in DOMAIN group.limits |->
                           LimitSetCheck(Load(file), t, group.limits[i], FALSE)]
             few == {i \in DOMAIN Before : Before[i].passed}
             many == {i \in DOMAIN After : After[i].passed}
  <1>1. n \in Nat /\ DOMAIN group.limits = 1 .. n
    BY DEF IsList
  <1>2. ASSUME NEW results
        PROVE  GroupVerdict(group, results).passed =
                   require_tests(group.require,
                                 Cardinality({i \in DOMAIN results : results[i].passed}),
                                 Len(results))
    BY DEF GroupVerdict
  <1>3. Len(Before) = n /\ Len(After) = n
    BY <1>1
  <1>4. few \subseteq many
    <2>1. ASSUME NEW i \in DOMAIN group.limits, Before[i].passed PROVE After[i].passed
      <3>1. group.limits[i] \in ToSet(group.limits)
        BY DEF ToSet
      <3>2. QED
        BY <2>1, <3>1, LimitPasses
    <2>2. QED
      BY <2>1
  <1>5. few \in SUBSET (1 .. n) /\ many \in SUBSET (1 .. n)
    BY <1>1
  <1>6. group.require \in {"any", "all"}
    BY <1>0 DEF Straight
  <1>7. require_tests(group.require, Cardinality(few), n)
    <2>1. check_group(Load(file), At(t, s), group, TRUE) = GroupVerdict(group, Before)
      BY DEF check_group
    <2> HIDE DEF Before
    <2>2. QED
      BY <1>2, <1>3, <2>1
  <1>8. require_tests(group.require, Cardinality(many), n)
    <2> HIDE DEF few, many, n
    <2>1. QED
      BY <1>1, <1>4, <1>5, <1>6, <1>7, MoreMet
  <1>9. QED
    <2>1. check_group(Load(file), t, group, FALSE) = GroupVerdict(group, After)
      BY DEF check_group
    <2> HIDE DEF After
    <2>2. QED
      BY <1>2, <1>3, <1>8, <2>1

\* The same of an application; one that is inverted has no limits that look at times.
LEMMA ApplicationPasses ==
    ASSUME NEW file \in Files, Valid(file), TimelessScripts(file), Straight(file),
           NEW app \in ToSet(file.applications),
           ApplicationOK(app), NEW t \in Tasks, NEW s \in Spans,
           check_application(Load(file), At(t, s), app, TRUE).passed
    PROVE  check_application(Load(file), t, app, FALSE).passed
  <1> DEFINE Before == [g \in DOMAIN app.apply |->
                           check_group(Load(file), At(t, s), app.apply[g], TRUE)]
             After == [g \in DOMAIN app.apply |->
                           check_group(Load(file), t, app.apply[g], FALSE)]
  <1>0. CASE app.invert
    <2>1. ASSUME NEW g \in DOMAIN app.apply PROVE After[g] = Before[g]
      <3>1. app.apply[g] \in ToSet(app.apply)
        BY DEF ToSet
      <3>2. ~LooksAtTimes(file, app.apply[g])
        BY <1>0, <3>1 DEF Straight
      <3>3. QED
        BY <3>1, <3>2, GroupSame
    <2>2. After = Before
      BY <2>1
    <2>3. QED
      BY <2>2, Zenon DEF check_application
  <1>1. SUFFICES ASSUME app.invert = FALSE
                 PROVE  check_application(Load(file), t, app, FALSE).passed
    BY <1>0 DEF ApplicationOK
  <1>2. ASSUME NEW groups
        PROVE  ApplicationVerdict(app, groups).passed <=>
                   {g \in DOMAIN groups : ~groups[g].passed} = {}
    BY <1>1 DEF ApplicationVerdict
  <1>3. ASSUME NEW g \in DOMAIN app.apply, Before[g].passed PROVE After[g].passed
    <2>1. app.apply[g] \in ToSet(app.apply) /\ IsList(app.apply) /\ IsList(app.apply[g].limits)
      BY DEF ToSet, ApplicationOK
    <2>2. QED
      BY <1>3, <2>1, GroupPasses
  <1>4. ApplicationVerdict(app, Before).passed
    BY DEF check_application
  <1>5. {g \in DOMAIN Before : ~Before[g].passed} = {}
    <2> HIDE DEF Before
    <2>1. QED
      BY <1>2, <1>4
  <1>6. {g \in DOMAIN After : ~After[g].passed} = {}
    BY <1>3, <1>5
  <1>7. ApplicationVerdict(app, After).passed
    <2> HIDE DEF After
    <2>1. QED
      BY <1>2, <1>6
  <1>8. QED
    BY <1>7 DEF check_application

\* A set passes if nothing ends the loop and something passes; when something does that
\* is not a failure, it is thrown.
LEMMA Verdicts ==
    ASSUME NEW results
    PROVE  /\ SetVerdict(results).passed =>
                 Ends(results) = {} /\ \E a \in DOMAIN results : results[a].passed
           /\ Ends(results) = {} /\ (\E a \in DOMAIN results : results[a].passed) =>
                 SetVerdict(results).passed
           /\ DOMAIN results \subseteq Nat /\ Ends(results) # {}
                 /\ (\A a \in Ends(results) : results[a].raised) => SetVerdict(results).raised
  <1>1. CASE Ends(results) = {}
    BY <1>1 DEF SetVerdict
  <1>2. CASE Ends(results) # {}
    <2>1. ~SetVerdict(results).passed
      BY <1>2 DEF SetVerdict
    <2>2. SetVerdict(results).raised = results[Min(Ends(results))].raised
      BY <1>2 DEF SetVerdict
    <2>3. DOMAIN results \subseteq Nat => Min(Ends(results)) \in Ends(results)
      <3>1. Ends(results) \subseteq DOMAIN results
        BY DEF Ends
      <3>2. DOMAIN results \subseteq Nat =>
                \E n \in Ends(results) : \A m \in Ends(results) : n <= m
        BY <1>2, <3>1, Least
      <3>3. QED
        BY <3>2 DEF Min
    <2>4. QED
      BY <1>2, <2>1, <2>2, <2>3
  <1>3. QED
    BY <1>1, <1>2

\* The same of all the applications that there are for somebody.
LEMMA SetPasses ==
    ASSUME NEW file \in Files, Valid(file), TimelessScripts(file), Straight(file), NEW classes,
           NEW t \in Tasks, NEW s \in Spans,
           ApplicationSetCheck(Load(file), At(t, s), classes, TRUE).passed
    PROVE  LET check == ApplicationSetCheck(Load(file), t, classes, FALSE) IN
           check.passed \/ check.raised
  <1> DEFINE applying == Applying(Load(file), classes)
             Before == ResultsOf(Load(file), At(t, s), applying, TRUE)
             After == ResultsOf(Load(file), t, applying, FALSE)
  <1>1. Load(file).applications = file.applications
    BY Loaded
  <1>2. applying \subseteq DOMAIN file.applications
    BY <1>1 DEF Applying
  <1> HIDE DEF applying
  <1>3. /\ DOMAIN Before = applying /\ DOMAIN After = applying
        /\ \A a \in applying :
              /\ Before[a] = check_application(Load(file), At(t, s), file.applications[a], TRUE)
              /\ After[a] = check_application(Load(file), t, file.applications[a], FALSE)
    BY <1>1 DEF ResultsOf
  <1>4. ASSUME NEW a \in applying
        PROVE  (Before[a].passed => After[a].passed) /\ After[a].stop = Before[a].stop
    <2>1. file.applications[a] \in ToSet(file.applications) /\ ApplicationOK(file.applications[a])
      BY <1>2, PropertiesAssumption DEF PropertiesAssumption, ToSet
    <2> HIDE DEF Before, After
    <2>2. Before[a].passed => After[a].passed
      BY <1>3, <2>1, ApplicationPasses
    <2>3. check_application(Load(file), At(t, s), file.applications[a], TRUE).stop =
              file.applications[a].stop_on_failure
      BY DEF check_application, ApplicationVerdict
    <2>4. check_application(Load(file), t, file.applications[a], FALSE).stop =
              file.applications[a].stop_on_failure
      BY DEF check_application, ApplicationVerdict
    <2>5. QED
      BY <1>3, <2>2, <2>3, <2>4
  <1>5. SetVerdict(Before).passed
    BY DEF ApplicationSetCheck, applying
  <1> HIDE DEF Before, After
  <1>6. Ends(Before) = {} /\ \E a \in applying : Before[a].passed
    BY <1>3, <1>5, Verdicts
  <1>7. \A a \in Ends(After) : After[a].raised
    BY <1>3, <1>4, <1>6 DEF Ends
  <1>8. \E a \in DOMAIN After : After[a].passed
    BY <1>3, <1>4, <1>6
  <1>9. DOMAIN After \subseteq Nat
    BY <1>2, <1>3, PropertiesAssumption DEF PropertiesAssumption, IsList
  <1>10. SetVerdict(After).passed \/ SetVerdict(After).raised
    BY <1>7, <1>8, <1>9, Verdicts
  <1>11. QED
    BY <1>10 DEF ApplicationSetCheck, applying, After

\* What a processor answers a request.
LEMMA Answers ==
    ASSUME NEW check, NEW task, NEW priority
    PROVE  /\ Answer(check, task, priority).outcome = "passed" =>
                 ~check.raised /\ check.passed /\ priority # None
           /\ (check.passed \/ check.raised) /\ priority # None =>
                 Answer(check, task, priority).outcome # "refused"
           /\ ~check.raised => Answer(check, task, priority).outcome =
                  IF check.passed /\ priority # None THEN "passed" ELSE "refused"
           /\ check.raised => Answer(check, task, priority).outcome = "raised"
  <1>1. CASE check.raised
    BY <1>1 DEF Answer, Raised, Outcome
  <1>2. CASE ~check.raised /\ ~check.passed
    BY <1>2 DEF Answer, Outcome
  <1>3. CASE ~check.raised /\ check.passed /\ priority = None
    BY <1>3 DEF Answer, Refused, Outcome
  <1>4. CASE ~check.raised /\ check.passed /\ priority # None
    <2>1. Answer(check, task, priority).outcome = "passed"
      BY <1>4 DEF Answer, Outcome
    <2>2. QED
      BY <1>4, <2>1
  <1>5. QED
    BY <1>1, <1>2, <1>3, <1>4

\* Whether somebody is known to a processor, as what, and what priority that gives.
Classes(config, r) == classifications(config, identities(config, r.hints))
Known(config, r) == identities(config, r.hints) # {} /\ Classes(config, r) # {}
Priority(config, r) ==
    IF config.prioritizer # None THEN config.prioritizer[Classes(config, r)] ELSE 0

\* What is answered to a run.
LEMMA Runs ==
    ASSUME NEW config, config # Inert, config # None, NEW r \in Requests
    PROVE  Run(config, r).outcome =
               IF Known(config, r) /\ r.task.spec # None
               THEN Answer(ApplicationSetCheck(config, At(r.task, r.span), Classes(config, r), TRUE),
                           None, Priority(config, r)).outcome
               ELSE "refused"
  <1> DEFINE u == At(r.task, r.span)
  <1>1. u.spec = r.task.spec /\ "run_schedule" \in DOMAIN u
    BY PropertiesAssumption DEF PropertiesAssumption, At, Over, Requests
  <1> HIDE DEF u
  <1>2. Run(config, r) = process(config, u, r.hints, FALSE, TRUE)
    BY DEF Run, u
  <1>3. process(config, u, r.hints, FALSE, TRUE) =
            IF Known(config, r) /\ u.spec # None
            THEN Answer(ApplicationSetCheck(config, u, Classes(config, r), TRUE),
                        None, Priority(config, r))
            ELSE Refused
    BY <1>1 DEF process, Known, Classes, Priority, Judged
  <1>4. CASE Known(config, r) /\ u.spec # None
    BY <1>1, <1>2, <1>3, <1>4 DEF u
  <1>5. CASE ~(Known(config, r) /\ u.spec # None)
    <2>1. Run(config, r) = Refused
      BY <1>2, <1>3, <1>5
    <2>2. Refused.outcome = "refused"
      BY DEF Refused, Outcome
    <2>3. QED
      BY <1>1, <1>5, <2>1, <2>2 DEF u
  <1>6. QED
    BY <1>4, <1>5

\* What is answered to a task, by a processor that does not rewrite.
LEMMA Posts ==
    ASSUME NEW config, config # Inert, config # None, config.rewriter = None, NEW r \in Requests,
           Known(config, r), r.task.spec # None
    PROVE  Posted(config, r).outcome =
               Answer(ApplicationSetCheck(config, r.task, Classes(config, r), FALSE),
                      None, 0).outcome
  <1>1. ("run_schedule" \in DOMAIN r.task) = FALSE
    BY PropertiesAssumption DEF PropertiesAssumption, Requests
  <1>2. Posted(config, r) = process(config, r.task, r.hints, TRUE, FALSE)
    BY DEF Posted
  <1>3. process(config, r.task, r.hints, TRUE, FALSE) =
            Answer(ApplicationSetCheck(config, r.task, Classes(config, r),
                                       "run_schedule" \in DOMAIN r.task), None, 0)
    BY DEF process, Known, Classes, Judged
  <1>4. QED
    BY <1>1, <1>2, <1>3

\* What can be run can be posted.
LEMMA Agreeing == AllStraightPostable
  <1>1. SUFFICES ASSUME NEW file \in Files, Valid(file), file.rewriter = None,
                        TimelessScripts(file), Straight(file), NEW r \in Requests, Run(Load(file), r).outcome = "passed"
                 PROVE  Posted(Load(file), r).outcome # "refused"
    BY DEF AllStraightPostable, PostableIfRunnable
  <1> DEFINE config == Load(file)
             before == ApplicationSetCheck(config, At(r.task, r.span), Classes(config, r), TRUE)
             after == ApplicationSetCheck(config, r.task, Classes(config, r), FALSE)
  <1>3. config # None /\ config # Inert /\ config.rewriter = None
    BY <1>1, Loaded
  <1>4. r.task \in Tasks /\ r.span \in Spans
    BY DEF Requests
  <1>5. Known(config, r) /\ r.task.spec # None
    BY <1>1, <1>3, Runs
  <1>6. Answer(before, None, Priority(config, r)).outcome = "passed"
    BY <1>1, <1>3, <1>5, Runs
  <1>7. before.passed
    <2> HIDE DEF before
    <2>1. QED
      BY <1>6, Answers
  <1>8. after.passed \/ after.raised
    BY <1>1, <1>4, <1>7, SetPasses
  <1>9. Posted(config, r).outcome = Answer(after, None, 0).outcome
    BY <1>3, <1>5, Posts
  <1>10. 0 # None
    BY FileAssumption DEF FileAssumption
  <1>11. QED
    <2> HIDE DEF after
    <2>1. QED
      BY <1>8, <1>9, <1>10, Answers

\* Whatever limits a file has and however they are inverted, combined and cloned, a run of
\* a task that passes it is of a task that can be posted, as soon as there is a processor;
\* scripts have to be blind to times, and limits on times must not be turned around by
\* what combines them (limitset.py 147-164, applicationset.py 188-242).
THEOREM VerdictsAreSound == Spec => []VerdictsSound
  <1>1. VerdictsSound
    BY Agreeing DEF VerdictsSound
  <1>2. QED
    BY <1>1, PTL

=============================================================================
