---------------------------- MODULE LinkManager ----------------------------
(***************************************************************************)
(* The listener of Network/LinkManager.cpp: the chain of Accept and        *)
(* Callback_Accept that takes a link from _link_pool for the next client,  *)
(* _is_acceptable, which says whether the chain is alive, OnClose, which   *)
(* starts it again, and the keep-alive timer.                              *)
(*                                                                         *)
(* Every link has a strand, and the strands run on different threads: a    *)
(* step here is what a handler does between two uses of what the threads   *)
(* share: _is_acceptable, _lock, _links and the pool.  What happens inside *)
(* one link is the subject of Link; here a link is its place in the pool   *)
(* and the part of Callback_Accept or OnError its strand is executing.     *)
(***************************************************************************)
EXTENDS Naturals, FiniteSets

CONSTANTS
    Links,     \* the objects _link_pool creates: Capacity() of them
    KeepAlive, \* Listen was given a keep-alive time (the Tcp listener's is)
    Outbound   \* links are also taken from the pool to connect (the Router's)

ASSUME LinkManagerAssumption ==
    /\ Links # {} /\ IsFiniteSet(Links)
    /\ KeepAlive \in BOOLEAN /\ Outbound \in BOOLEAN
    /\ Links \cap {"free", "timer", "none"} = {}

VARIABLES
    link,          \* where each link is in its life
    task,          \* what the strand of each link is to do next
    queued,        \* an OnError of the keep-alive timer waits for the strand
    links,         \* LinkManager::_links
    is_acceptable, \* LinkManager::_is_acceptable
    lock,          \* who owns LinkManager::_lock: a link's strand or the timer
    sweep,         \* links the keep-alive timer has still to look at
    inline         \* the link whose OnError the keep-alive timer is executing

vars == <<link, task, queued, links, is_acceptable, lock, sweep, inline>>

\* "accept" and "full" are Accept, before and after Create returned NULL;
\* "check", "recheck" and "remove" are OnError: the two tests of
\* _is_acceptable in OnClose and AttachManager(NULL).
Tasks == {"none", "accept", "full", "check", "recheck", "remove"}

\* Types, and who may own _lock between two steps: a handler that called Accept
\* from OnClose, or the timer.
TypeOK ==
    /\ link \in [Links -> {"pooled", "accepting", "attached", "closing", "closed"}]
    /\ task \in [Links -> Tasks]
    /\ queued \in [Links -> BOOLEAN]
    /\ links \subseteq Links
    /\ is_acceptable \in BOOLEAN
    /\ lock \in Links \cup {"free", "timer"}
    /\ sweep \subseteq Links
    /\ inline \in Links \cup {"none"}
    /\ lock \in Links => task[lock] \in {"accept", "full"}
    /\ inline # "none" => lock = "timer" /\ task[inline] # "none"

\* LinkManager::Listen has called Accept.
Init ==
    /\ \E l \in Links :
          link = [k \in Links |-> IF k = l THEN "accepting" ELSE "pooled"]
    /\ task = [l \in Links |-> "none"]
    /\ queued = [l \in Links |-> FALSE]
    /\ links = {}
    /\ is_acceptable = TRUE
    /\ lock = "free"
    /\ sweep = {}
    /\ inline = "none"

\* Pool::Create finds an object, and Pool::Available.
Pooled == {l \in Links : link[l] = "pooled"}
Available == Cardinality(Pooled)

\* OnError runs in the link's own strand, or inline in the timer's thread,
\* which owns _lock already; _lock is recursive.
Owner(l) == IF inline = l THEN "timer" ELSE l
MayLock(l) == lock \in {"free", Owner(l)}
Unlocked(l) == IF lock = l THEN "free" ELSE lock

\* What follows Accept: OnClose returns to OnError, Callback_Accept ends.
AfterAccept(l) == IF link[l] = "closing" THEN "remove" ELSE "none"

-----------------------------------------------------------------------------
\* Callback_Accept up to its call of Accept.  AttachManager adds the link to
\* _links; the link is closed when the accept failed, a socket call threw or
\* the session pool is empty.
Callback_Accept(l) ==
    /\ link[l] = "accepting"
    /\ task' = [task EXCEPT ![l] = "accept"]
    /\ \/ /\ lock = "free"
          /\ link' = [link EXCEPT ![l] = "attached"]
          /\ links' = links \cup {l}
       \/ /\ link' = [link EXCEPT ![l] = "closed"]
          /\ UNCHANGED links
    /\ UNCHANGED <<queued, is_acceptable, lock, sweep, inline>>

\* Accept: Create, then async_accept.
Accept(l) ==
    /\ task[l] = "accept"
    /\ \/ \E next \in Pooled :
             /\ link' = [link EXCEPT ![next] = "accepting"]
             /\ task' = [task EXCEPT ![l] = AfterAccept(l)]
             /\ lock' = Unlocked(l)
       \/ /\ Pooled = {}
          /\ task' = [task EXCEPT ![l] = "full"]
          /\ UNCHANGED <<link, lock>>
    /\ UNCHANGED <<queued, links, is_acceptable, sweep, inline>>

\* Accept after Create returned NULL: "can not create any more link".
AcceptFull(l) ==
    /\ task[l] = "full"
    /\ MayLock(l)
    /\ is_acceptable' = FALSE
    /\ task' = [task EXCEPT ![l] = AfterAccept(l)]
    /\ lock' = Unlocked(l)
    /\ UNCHANGED <<link, queued, links, sweep, inline>>

-----------------------------------------------------------------------------
\* Link::OnError of an attached link: OnClose reads _is_acceptable unlocked.
OnError(l) ==
    /\ link[l] = "attached"
    /\ task[l] = "none"
    /\ link' = [link EXCEPT ![l] = "closing"]
    /\ task' = [task EXCEPT ![l] = "check"]

\* The peer leaves, a read or write fails, or a handler closes the link.
Close(l) ==
    /\ OnError(l)
    /\ UNCHANGED <<queued, links, is_acceptable, lock, sweep, inline>>

OnCloseCheck(l) ==
    /\ task[l] = "check"
    /\ task' = [task EXCEPT ![l] = IF is_acceptable THEN "remove" ELSE "recheck"]
    /\ UNCHANGED <<link, queued, links, is_acceptable, lock, sweep, inline>>

\* Mutants: the second test of _is_acceptable is dropped; Available() has to
\* be more than one.
OnCloseTrusts(l) ==
    /\ task[l] = "recheck"
    /\ MayLock(l)
    /\ \/ /\ Available = 0
          /\ task' = [task EXCEPT ![l] = "remove"]
          /\ UNCHANGED <<is_acceptable, lock>>
       \/ /\ Available > 0
          /\ is_acceptable' = TRUE
          /\ task' = [task EXCEPT ![l] = "accept"]
          /\ lock' = Owner(l)
    /\ UNCHANGED <<link, queued, links, sweep, inline>>

OnCloseSpares(l) ==
    /\ task[l] = "recheck"
    /\ MayLock(l)
    /\ \/ /\ is_acceptable \/ Available <= 1
          /\ task' = [task EXCEPT ![l] = "remove"]
          /\ UNCHANGED <<is_acceptable, lock>>
       \/ /\ ~is_acceptable /\ Available > 1
          /\ is_acceptable' = TRUE
          /\ task' = [task EXCEPT ![l] = "accept"]
          /\ lock' = Owner(l)
    /\ UNCHANGED <<link, queued, links, sweep, inline>>

\* OnClose with _lock.  The link itself is not available: the handler that
\* called OnError holds it.
OnCloseRecheck(l) ==
    /\ task[l] = "recheck"
    /\ MayLock(l)
    /\ \/ /\ is_acceptable \/ Available = 0
          /\ task' = [task EXCEPT ![l] = "remove"]
          /\ UNCHANGED <<is_acceptable, lock>>
       \/ /\ ~is_acceptable /\ Available > 0
          /\ is_acceptable' = TRUE
          /\ task' = [task EXCEPT ![l] = "accept"]
          /\ lock' = Owner(l)
    /\ UNCHANGED <<link, queued, links, sweep, inline>>

\* AttachManager(NULL) removes the link from _links; the socket is closed.
Remove(l) ==
    /\ task[l] = "remove"
    /\ MayLock(l)
    /\ links' = links \ {l}
    /\ link' = [link EXCEPT ![l] = "closed"]
    /\ task' = [task EXCEPT ![l] = "none"]
    /\ inline' = IF inline = l THEN "none" ELSE inline
    /\ UNCHANGED <<queued, is_acceptable, lock, sweep>>

\* A mutant: the keep-alive timer binds a plain pointer to OnError.
ReleaseEarly(l) ==
    /\ link[l] = "closed"
    /\ task[l] = "none"
    /\ l \notin links
    /\ link' = [link EXCEPT ![l] = "pooled"]
    /\ UNCHANGED <<task, queued, links, is_acceptable, lock, sweep, inline>>

\* The last handler with a shared_ptr to the link ends: Pool::Restitute.
Release(l) ==
    /\ link[l] = "closed"
    /\ task[l] = "none"
    /\ l \notin links
    /\ ~queued[l]
    /\ link' = [link EXCEPT ![l] = "pooled"]
    /\ UNCHANGED <<task, queued, links, is_acceptable, lock, sweep, inline>>

-----------------------------------------------------------------------------
\* The keep-alive timer of Listen, which owns _lock during a pass.
SweepBegins ==
    /\ KeepAlive
    /\ lock = "free"
    /\ lock' = "timer"
    /\ sweep' = links
    /\ UNCHANGED <<link, task, queued, links, is_acceptable, inline>>

\* A mutant: OnError is called only when the strand is idle.
SweepSkipsBusy(l) ==
    /\ lock = "timer" /\ inline = "none"
    /\ l \in sweep
    /\ sweep' = sweep \ {l}
    /\ \/ UNCHANGED <<links, link, task, queued, inline>>
       \/ /\ links' = links \ {l}
          /\ \/ /\ ~queued[l]
                /\ OnError(l)
                /\ inline' = l
                /\ UNCHANGED queued
             \/ UNCHANGED <<link, task, queued, inline>>
    /\ UNCHANGED <<is_acceptable, lock>>

\* An idle link is erased from _links and its OnError dispatched: executed at
\* once when the strand is idle, queued when it is not (also when it handles
\* a message, which is not modelled here).
SweepVisits(l) ==
    /\ lock = "timer" /\ inline = "none"
    /\ l \in sweep
    /\ sweep' = sweep \ {l}
    /\ \/ UNCHANGED <<links, link, task, queued, inline>>
       \/ /\ links' = links \ {l}
          /\ \/ /\ ~queued[l]
                /\ OnError(l)
                /\ inline' = l
                /\ UNCHANGED queued
             \/ /\ queued' = [queued EXCEPT ![l] = TRUE]
                /\ UNCHANGED <<link, task, inline>>
    /\ UNCHANGED <<is_acceptable, lock>>

SweepEnds ==
    /\ lock = "timer" /\ inline = "none"
    /\ sweep = {}
    /\ lock' = "free"
    /\ UNCHANGED <<link, task, queued, links, is_acceptable, sweep, inline>>

\* The queued OnError gets its turn; it returns when the socket is closed.
RunQueued(l) ==
    /\ queued[l]
    /\ task[l] = "none"
    /\ queued' = [queued EXCEPT ![l] = FALSE]
    /\ \/ OnError(l)
       \/ /\ link[l] # "attached"
          /\ UNCHANGED <<link, task>>
    /\ UNCHANGED <<links, is_acceptable, lock, sweep, inline>>

\* Router::LinkManager::Connect takes a link from the same pool.
Connect(l) ==
    /\ Outbound
    /\ l \in Pooled
    /\ lock = "free"
    /\ link' = [link EXCEPT ![l] = "attached"]
    /\ links' = links \cup {l}
    /\ UNCHANGED <<task, queued, is_acceptable, lock, sweep, inline>>

-----------------------------------------------------------------------------
\* What the threads of the process owe, once a handler has begun.
Handler(l) ==
    \/ Accept(l) \/ AcceptFull(l)
    \/ OnCloseCheck(l) \/ OnCloseRecheck(l) \/ Remove(l)
    \/ Release(l) \/ RunQueued(l)

Next ==
    \/ \E l \in Links : Callback_Accept(l) \/ Close(l) \/ Connect(l)
    \/ \E l \in Links : Handler(l)
    \/ SweepBegins \/ SweepEnds
    \/ \E l \in Links : SweepVisits(l)

Spec == Init /\ [][Next]_vars

\* A handler waits for _lock at most while the timer, which runs every five
\* seconds, makes one pass: it gets the lock between two passes.
FairSpec ==
    /\ Spec
    /\ \A l \in Links : SF_vars(Handler(l)) /\ WF_vars(SweepVisits(l))
    /\ WF_vars(SweepEnds)

-----------------------------------------------------------------------------
\* Properties.

\* The links whose accept is pending and the handlers inside Accept.
Chain == {l \in Links : link[l] = "accepting" \/ task[l] \in {"accept", "full"}}

\* At most one async_accept is outstanding, however many links close at the
\* same moment, and _is_acceptable is FALSE exactly when there is none.
OneAcceptChain == Cardinality(Chain) = IF is_acceptable THEN 1 ELSE 0

\* A keep-alive timeout never reaches the next connection of a pooled link.
TimeoutOfThisConnection ==
    \A l \in Links : queued[l] => link[l] \in {"attached", "closing", "closed"}

\* A connection is in _links until somebody is closing it: no client is hidden
\* from the keep-alive timer; and nothing in _links is pooled.
EveryConnectionListed ==
    \A l \in Links :
        /\ link[l] = "attached" => l \in links \/ queued[l]
        /\ l \in links => link[l] \in {"attached", "closing"}

\* A listener that is full accepts again when a client leaves while an earlier
\* one's link is back in the pool, unless an outbound connection takes it.
AcceptsAgain ==
    (~is_acceptable /\ Available > 0 /\ \E l \in Links : task[l] = "check")
        ~> (is_acceptable \/ Available = 0)

\* An idle link found by the keep-alive timer is closed and back in the pool.
IdleIsClosed ==
    \A l \in Links : (link[l] = "attached" /\ l \notin links) ~> link[l] = "pooled"

\* A server without any client is listening.
EmptyServerAccepts == Pooled = Links => is_acceptable
=============================================================================
