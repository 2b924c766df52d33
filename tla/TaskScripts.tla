----------------------------- MODULE TaskScripts -----------------------------
(***************************************************************************)
(* The scripts of a limit file that rewrite tasks and set their priority   *)
(* (rewriter.py, prioritizer.py, jqfilter.py).  A script is a sequence of  *)
(* statements [does, with]; its filter puts the functions it may call in   *)
(* front of it and hands it the task with a private part, a function from  *)
(* the fields it has.  A task is [type, spec].                             *)
(***************************************************************************)
EXTENDS Integers, Sequences

CONSTANT None

\* The imports of a script, and what is left of it without them.
Parts(script) ==
    LET parts[n \in 0 .. Len(script)] ==
            IF n = 0 THEN [imports |-> <<>>, others |-> <<>>]
            ELSE IF script[n].does = "import"
            THEN [parts[n - 1] EXCEPT !.imports = Append(@, script[n])]
            ELSE [parts[n - 1] EXCEPT !.others = Append(@, script[n])]
    IN  parts[Len(script)]

\* _groom: imports come first.
groom(script) == Parts(script).imports \o Parts(script).others

\* The functions that a script may call.
Functions == <<[does |-> "def", with |-> None]>>

\* What the filter is compiled from; jq takes imports before anything else only.
Filter(script) == groom(Functions \o script)
Compiles(filter) ==
    \A m, n \in DOMAIN filter : filter[n].does = "import" /\ m < n => filter[m].does = "import"

----------------------------------------------------------------------------
(* Statements, one after the other.  Assigning to what is not there makes  *)
(* it; a number or a list is added to nothing.                             *)

Having(field, private, otherwise) == IF field \in DOMAIN private THEN private[field] ELSE otherwise

With(private, field, value) ==
    [f \in DOMAIN private \cup {field} |-> IF f = field THEN value ELSE private[f]]

Noted(private, message) ==
    With(private, "diags", Append(Having("diags", private, <<>>), message))

change(item, s) ==
    LET changed == With(item.private, "changed", TRUE)
    IN  [item EXCEPT !.private = IF s.with = None THEN changed ELSE Noted(changed, s.with)]

set(item, s) == [item EXCEPT !.private = Noted(With(@, "priority", s.with), s)]

adjust(item, s) ==
    [item EXCEPT !.private = Noted(With(@, "priority", Having("priority", @, 0) + s.with), s)]

Statement(item, s) ==
    CASE s.does = "change" -> change(item, s)
      [] s.does = "set" -> set(item, s)
      [] s.does = "adjust" -> adjust(item, s)
      [] s.does = "type" -> [item EXCEPT !.task.type = s.with]
      [] s.does = "spec" -> [item EXCEPT !.task.spec = s.with]
      [] s.does = "del" -> [item EXCEPT !.private = <<>>]
      [] s.does \in {"import", "def"} -> item

\* What the statements of a filter make of an item.
Made(filter, item) ==
    LET made[n \in 0 .. Len(filter)] ==
            IF n = 0 THEN item ELSE Statement(made[n - 1], filter[n])
    IN  made[Len(filter)]

Raised == [raised |-> TRUE]

\* JQFilter's call, of which the first result is taken: "reject" throws, and "empty"
\* leaves no result.
First(script, task, private) ==
    IF \E n \in DOMAIN script : script[n].does \in {"reject", "empty"} THEN Raised
    ELSE Made(Filter(script), [task |-> task, private |-> private])

\* The test must be of the type it was of, and have a specification.
Rewriter(script, task) ==
    LET made == First(script, task, [changed |-> FALSE, diags |-> <<>>])
    IN  IF made = Raised THEN Raised
        ELSE IF made.task.type # task.type \/ made.task.spec = None THEN Raised
        ELSE IF {"changed", "diags"} \subseteq DOMAIN made.private
        THEN [changed |-> made.private["changed"], task |-> made.task,
              diags |-> made.private["diags"]]
        ELSE Raised

\* Of the task, only the private part is looked at.
Prioritizer(script, task) ==
    LET made == First(script, task, [priority |-> 0, diags |-> <<>>])
    IN  IF made = Raised THEN Raised
        ELSE IF {"priority", "diags"} \subseteq DOMAIN made.private
        THEN [priority |-> made.private["priority"], diags |-> made.private["diags"]]
        ELSE Raised

----------------------------------------------------------------------------

\* What a script may say: the statements there are, and numbers for the priority.
Kinds == {"import", "def", "change", "set", "adjust", "type", "spec", "del"}
IsScript(script) ==
    /\ script \in Seq({script[n] : n \in DOMAIN script})
    /\ \A n \in DOMAIN script :
          /\ script[n].does \in Kinds \cup {"reject", "empty"}
          /\ script[n].does \in {"set", "adjust"} => script[n].with \in Int

\* What a statement did is not undone by those after it.
Lasts(script, n, undo) == \A m \in n + 1 .. Len(script) : script[m].does \notin undo

Sum(s) ==
    LET sum[n \in 0 .. Len(s)] == IF n = 0 THEN 0 ELSE sum[n - 1] + s[n] IN sum[Len(s)]

\* Wherever a script has its imports, its filter compiles.  The rewriter never lets the
\* type of a test change, and says that a task was changed if the script has said so
\* and not thrown it away; the priority is the last that was set, and what it was
\* adjusted by since (rewriter.py 74-113, prioritizer.py 91-119, jqfilter.py 55-65).
ScriptsSound(script, task) ==
    LET rewritten == Rewriter(script, task)
        priority == Prioritizer(script, task)
    IN  /\ Compiles(Filter(script))
        /\ rewritten # Raised =>
              /\ rewritten.task.type = task.type
              /\ rewritten.changed <=>
                    \E n \in DOMAIN script :
                        script[n].does = "change" /\ Lasts(script, n, {"del"})
        /\ priority # Raised =>
              priority.priority = Sum([n \in DOMAIN script |->
                  IF script[n].does \in {"set", "adjust"} /\ Lasts(script, n, {"set", "del"})
                  THEN script[n].with ELSE 0])

=============================================================================
