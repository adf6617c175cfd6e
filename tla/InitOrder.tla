----------------------------- MODULE InitOrder ------------------------------
(***************************************************************************)
(* SingletonInitHelper of Library/Singleton.h: the functions registered by *)
(* GAMNET_BIND_INIT_HANDLER are called by Init in the order of their       *)
(* names, and call each other with GAMNET_CALL_INIT_HANDLER.               *)
(*                                                                         *)
(* A function is what it calls, in order, and whether it throws afterwards *)
(* the first time; a name of Unknown was never registered.                 *)
(***************************************************************************)
EXTENDS Naturals, Sequences, SequencesExt

CONSTANTS
    Names,          \* the names registered, numbers in the order of the map
    Unknown,        \* a name nobody registered
    MaxCalls,       \* bounds of the model: calls made by one function, and
    MaxInits        \* calls of Init

VARIABLES
    calls,          \* what each registered function calls, in order
    throws,         \* the functions that throw
    setInitCompleted,
    itr,            \* the next name of the loop of Init, 0 outside Init
    stack,          \* the functions entered and not left, innermost last:
                    \* each with what it still has to call
    returned,       \* the functions that returned, in order
    inits, broken   \* calls of Init; whether one of them was left by throw

initVars == <<calls, throws, setInitCompleted, itr, stack, returned, inits, broken>>

SeqUpTo(S, n) == UNION {[1 .. k -> S] : k \in 0 .. n}

Init ==
    /\ calls \in [Names -> SeqUpTo(Names \union {Unknown}, MaxCalls)]
    /\ throws \in {{}} \union {{name} : name \in Names}
    /\ setInitCompleted = {}
    /\ itr = 0
    /\ stack = <<>>
    /\ returned = <<>>
    /\ inits = 0
    /\ broken = FALSE

fnVars == <<calls, throws>>

(* Init, from the first name on. *)
Start ==
    /\ itr = 0
    /\ inits < MaxInits
    /\ inits' = inits + 1
    /\ itr' = 1
    /\ UNCHANGED <<fnVars, setInitCompleted, stack, returned, broken>>

\* The exception leaves every function, and Init.
Throw == /\ stack' = <<>>
         /\ itr' = 0
         /\ broken' = TRUE
         /\ UNCHANGED <<fnVars, inits, returned>>

\* A mutant: a function that another one needs is marked and left for later.
CallLater(name, below) ==
    /\ setInitCompleted' = setInitCompleted \union {name}
    /\ stack' = IF name \in setInitCompleted \/ below # <<>>
                THEN below ELSE <<[name |-> name, rest |-> calls[name]]>>

(* CallInitFunc of a registered name: the set is tested and marked before  *)
(* the function runs.                                                      *)
CallInitFunc(name, below) ==
    /\ setInitCompleted' = setInitCompleted \union {name}
    /\ stack' = IF name \in setInitCompleted
                THEN below
                ELSE Append(below, [name |-> name, rest |-> calls[name]])

(* The loop of Init calls the function of each name. *)
Loop ==
    /\ itr # 0
    /\ stack = <<>>
    /\ IF itr \in Names
       THEN CallInitFunc(itr, <<>>) /\ itr' = itr + 1
       ELSE itr' = 0 /\ UNCHANGED <<setInitCompleted, stack>>
    /\ UNCHANGED <<fnVars, returned, inits, broken>>

Top == Last(stack)

(* A function calls the next one; an unknown name throws through them all. *)
Call ==
    /\ stack # <<>>
    /\ Top.rest # <<>>
    /\ LET name == Head(Top.rest)
           below == [stack EXCEPT ![Len(stack)].rest = Tail(@)]
       IN  IF name = Unknown
           THEN Throw /\ UNCHANGED setInitCompleted
           ELSE /\ CallInitFunc(name, below)
            /\ UNCHANGED <<fnVars, itr, returned, inits, broken>>

(* A function has called what it calls: it throws or returns. *)
Return ==
    /\ stack # <<>>
    /\ Top.rest = <<>>
    /\ IF Top.name \in throws
       THEN Throw /\ UNCHANGED setInitCompleted
       ELSE /\ returned' = Append(returned, Top.name)
            /\ stack' = Front(stack)
            /\ UNCHANGED <<fnVars, setInitCompleted, itr, inits, broken>>

Next == Start \/ Loop \/ Call \/ Return

Spec == Init /\ [][Next]_initVars

-----------------------------------------------------------------------------

Entered == {stack[i].name : i \in DOMAIN stack}

\* No function is entered twice, neither by two callers nor while it runs.
CalledOnce ==
    /\ \A i, j \in DOMAIN stack : stack[i].name = stack[j].name => i = j
    /\ \A i, j \in DOMAIN returned : returned[i] = returned[j] => i = j
    /\ \A i \in DOMAIN returned : returned[i] \notin Entered

\* The functions that lie on a circle of calls: c reaches itself.
RECURSIVE Reach(_, _)
Reach(S, n) ==
    IF n = 0 THEN S
    ELSE Reach(S \union UNION {{calls[c][i] : i \in DOMAIN calls[c]}
                               : c \in S \intersect Names}, n - 1)

Circular(name) ==
    \E i \in DOMAIN calls[name] : name \in Reach({calls[name][i]}, 3)

\* A function that returned found everything it calls set up, as long as no
\* exception has left an earlier Init and it does not call itself through
\* others.  (Throw is the exception: the names are marked all the same, and
\* a second Init passes over the functions that failed.)
DependenciesFirst ==
    ~broken =>
        \A i \in DOMAIN returned :
            ~Circular(returned[i]) =>
                \A k \in DOMAIN calls[returned[i]] :
                    \E j \in 1 .. i - 1 : returned[j] = calls[returned[i]][k]

\* When Init has returned, every registered function has.
AllInitialised ==
    itr = 0 /\ inits > 0 /\ ~broken => Names = {returned[i] : i \in DOMAIN returned}
=============================================================================
