------------------------- MODULE LinkManagerProofs -------------------------
(***************************************************************************)
(* Proofs about LinkManager: for any number of links, closing in any order *)
(* on any threads, there is one chain of accepts when _is_acceptable says  *)
(* so, and none otherwise; and the keep-alive timer finds every connection *)
(* in _links and closes no later one.                                      *)
(***************************************************************************)
EXTENDS LinkManager, FiniteSetTheorems, TLAPS

Places == {"pooled", "accepting", "attached", "closing", "closed"}

\* The types the argument needs.
Types ==
    /\ link \in [Links -> Places]
    /\ task \in [Links -> Tasks]
    /\ is_acceptable \in BOOLEAN

\* A link that waits for a client or in the pool executes nothing, and OnError
\* closes the link it runs in.
TaskFitsLink ==
    \A l \in Links :
        /\ link[l] \in {"pooled", "accepting"} => task[l] = "none"
        /\ task[l] \in {"check", "recheck", "remove"} => link[l] = "closing"

ChainFitsFlag ==
    \/ is_acceptable /\ \E c \in Links : Chain = {c}
    \/ ~is_acceptable /\ Chain = {}

IInv == Types /\ TaskFitsLink /\ ChainFitsFlag

-----------------------------------------------------------------------------
LEMMA InitStep ==
    ASSUME Init
    PROVE  IInv
<1>1. PICK c \in Links :
         link = [k \in Links |-> IF k = c THEN "accepting" ELSE "pooled"]
  BY DEF Init
<1>2. task = [l \in Links |-> "none"] /\ is_acceptable = TRUE
  BY DEF Init
<1>3. Types
  BY <1>1, <1>2 DEF Types, Places, Tasks
<1>4. TaskFitsLink
  BY <1>2 DEF TaskFitsLink
<1>5. Chain = {c}
  BY <1>1, <1>2 DEF Chain
<1>6. QED
  BY <1>2, <1>3, <1>4, <1>5 DEF IInv, ChainFitsFlag

\* A link in the chain is its only member while the flag is set.
LEMMA OnlyMember ==
    ASSUME IInv, NEW l \in Links, l \in Chain
    PROVE  is_acceptable /\ Chain = {l}
BY DEF IInv, ChainFitsFlag

\* The steps inside the chain.
LEMMA CallbackStep ==
    ASSUME IInv, NEW l \in Links, Callback_Accept(l)
    PROVE  IInv'
<1>1. PICK place \in {"attached", "closed"} : link' = [link EXCEPT ![l] = place]
  BY DEF Callback_Accept
<1>2. /\ link[l] = "accepting"
      /\ task' = [task EXCEPT ![l] = "accept"]
      /\ is_acceptable' = is_acceptable
  BY DEF Callback_Accept
<1>3. Types'
  BY <1>1, <1>2 DEF IInv, Types, Places, Tasks
<1>4. TaskFitsLink'
  BY <1>1, <1>2 DEF IInv, Types, TaskFitsLink
<1>5. Chain' = Chain
  BY <1>1, <1>2 DEF Chain, IInv, Types
<1>6. QED
  BY <1>2, <1>3, <1>4, <1>5 DEF IInv, ChainFitsFlag

LEMMA AcceptStep ==
    ASSUME IInv, NEW l \in Links, Accept(l)
    PROVE  IInv'
<1>1. /\ task[l] = "accept" /\ l \in Chain
      /\ link[l] \notin {"pooled", "accepting"}
      /\ is_acceptable' = is_acceptable
  BY DEF Accept, Chain, IInv, TaskFitsLink
<1>2. is_acceptable /\ Chain = {l}
  BY <1>1, OnlyMember
<1>3. CASE Pooled = {} /\ task' = [task EXCEPT ![l] = "full"] /\ link' = link
  <2>1. Types' /\ TaskFitsLink'
    BY <1>1, <1>3 DEF IInv, Types, TaskFitsLink, Tasks
  <2>2. Chain' = Chain
    BY <1>1, <1>3 DEF Chain, IInv, Types
  <2>3. QED
    BY <1>1, <2>1, <2>2 DEF IInv, ChainFitsFlag
<1>4. ASSUME NEW next \in Pooled,
             link' = [link EXCEPT ![next] = "accepting"],
             task' = [task EXCEPT ![l] = AfterAccept(l)]
      PROVE  IInv'
  <2>1. next \in Links /\ next # l /\ task[next] = "none"
    BY <1>1 DEF Pooled, IInv, TaskFitsLink
  <2>2. AfterAccept(l) \in {"none", "remove"} /\ (AfterAccept(l) = "remove" => link[l] = "closing")
    BY DEF AfterAccept
  <2>3. Types'
    <3>1. /\ link \in [Links -> Places] /\ task \in [Links -> Tasks]
          /\ is_acceptable \in BOOLEAN
      BY DEF IInv, Types
    <3>2. AfterAccept(l) \in Tasks /\ "accepting" \in Places
      BY <2>2 DEF Tasks, Places
    <3>3. QED
      BY <1>1, <1>4, <2>1, <3>1, <3>2 DEF Types
  <2>4. TaskFitsLink'
    BY <1>1, <1>4, <2>1, <2>2 DEF IInv, Types, TaskFitsLink
  <2>5. Chain' = {next}
    <3>1. /\ DOMAIN link = Links /\ DOMAIN task = Links
      BY DEF IInv, Types
    <3>2. next \in Chain'
      BY <1>4, <2>1, <3>1 DEF Chain
    <3>3. ASSUME NEW k \in Links, k # next, k \in Chain'
          PROVE  FALSE
      <4>1. link'[k] = link[k]
        BY <1>4, <3>1, <3>3
      <4>2. CASE k = l
        <5>1. task'[k] = AfterAccept(l)
          BY <1>4, <3>1, <4>2
        <5>2. QED
          BY <1>1, <2>2, <3>3, <4>1, <4>2, <5>1 DEF Chain
      <4>3. CASE k # l
        <5>1. task'[k] = task[k]
          BY <1>4, <3>1, <4>3
        <5>2. k \in Chain
          BY <3>3, <4>1, <5>1 DEF Chain
        <5>3. QED
          BY <1>2, <4>3, <5>2
      <4>4. QED
        BY <4>2, <4>3
    <3>4. QED
      BY <2>1, <3>2, <3>3 DEF Chain
  <2>6. QED
    BY <1>1, <1>2, <2>1, <2>3, <2>4, <2>5 DEF IInv, ChainFitsFlag
<1>5. QED
  BY <1>3, <1>4 DEF Accept

LEMMA AcceptFullStep ==
    ASSUME IInv, NEW l \in Links, AcceptFull(l)
    PROVE  IInv'
<1>1. /\ task[l] = "full" /\ l \in Chain
      /\ link[l] \notin {"pooled", "accepting"}
      /\ task' = [task EXCEPT ![l] = AfterAccept(l)]
      /\ link' = link /\ is_acceptable' = FALSE
  BY DEF AcceptFull, Chain, IInv, TaskFitsLink
<1>2. Chain = {l}
  BY <1>1, OnlyMember
<1>3. AfterAccept(l) \in {"none", "remove"} /\ (AfterAccept(l) = "remove" => link[l] = "closing")
  BY DEF AfterAccept
<1>4. Types' /\ TaskFitsLink'
  BY <1>1, <1>3 DEF IInv, Types, TaskFitsLink, Tasks
<1>5. Chain' = {}
  BY <1>1, <1>2, <1>3 DEF Chain, IInv, Types
<1>6. QED
  BY <1>1, <1>4, <1>5 DEF IInv, ChainFitsFlag

\* OnClose starts the chain again: the second test of _is_acceptable finds that
\* there is none.
LEMMA RecheckStep ==
    ASSUME IInv, NEW l \in Links, OnCloseRecheck(l)
    PROVE  IInv'
<1>1. task[l] = "recheck" /\ link' = link /\ link[l] = "closing" /\ l \notin Chain
  BY DEF OnCloseRecheck, Chain, IInv, TaskFitsLink
<1>2. CASE task' = [task EXCEPT ![l] = "remove"] /\ is_acceptable' = is_acceptable
  <2>1. Types' /\ TaskFitsLink'
    BY <1>1, <1>2 DEF IInv, Types, TaskFitsLink, Tasks
  <2>2. Chain' = Chain
    BY <1>1, <1>2 DEF Chain, IInv, Types
  <2>3. QED
    BY <1>2, <2>1, <2>2 DEF IInv, ChainFitsFlag
<1>3. CASE /\ ~is_acceptable
           /\ task' = [task EXCEPT ![l] = "accept"] /\ is_acceptable' = TRUE
  <2>1. Types' /\ TaskFitsLink'
    BY <1>1, <1>3 DEF IInv, Types, TaskFitsLink, Tasks
  <2>2. Chain = {}
    BY <1>3 DEF IInv, ChainFitsFlag
  <2>3. Chain' = {l}
    BY <1>1, <1>3, <2>2 DEF Chain, IInv, Types
  <2>4. QED
    BY <1>3, <2>1, <2>3 DEF IInv, ChainFitsFlag
<1>4. QED
  BY <1>2, <1>3 DEF OnCloseRecheck

\* The steps of links outside the chain: they stay outside.
LEMMA OutsideChain ==
    ASSUME IInv, NEW l \in Links, NEW place \in Places, NEW t \in Tasks,
           l \notin Chain, is_acceptable' = is_acceptable,
           link' = [link EXCEPT ![l] = place], task' = [task EXCEPT ![l] = t],
           place # "accepting", t \notin {"accept", "full"},
           place = "pooled" => t = "none",
           t \in {"check", "recheck", "remove"} => place = "closing"
    PROVE  IInv'
<1>1. Types' /\ TaskFitsLink'
  BY DEF IInv, Types, TaskFitsLink
<1>2. Chain' = Chain
  BY DEF Chain, IInv, Types
<1>3. QED
  BY <1>1, <1>2 DEF IInv, ChainFitsFlag

LEMMA OnErrorStep ==
    ASSUME IInv, NEW l \in Links, OnError(l), is_acceptable' = is_acceptable
    PROVE  IInv'
<1>1. l \notin Chain
  BY DEF OnError, Chain
<1>2. "closing" \in Places /\ "check" \in Tasks
  BY DEF Places, Tasks
<1>3. QED
  BY <1>1, <1>2, OutsideChain DEF OnError

LEMMA OtherHandlers ==
    ASSUME IInv, NEW l \in Links,
           OnCloseCheck(l) \/ Remove(l) \/ Release(l) \/ Connect(l)
    PROVE  IInv'
<1>1. link = [link EXCEPT ![l] = link[l]] /\ task = [task EXCEPT ![l] = task[l]]
      /\ link[l] \in Places /\ task[l] \in Tasks
  BY DEF IInv, Types
<1>2. CASE OnCloseCheck(l)
  <2>1. PICK t \in {"remove", "recheck"} : task' = [task EXCEPT ![l] = t]
    BY <1>2 DEF OnCloseCheck
  <2>2. link[l] = "closing" /\ l \notin Chain /\ link' = link /\ is_acceptable' = is_acceptable
    BY <1>2 DEF OnCloseCheck, Chain, IInv, TaskFitsLink
  <2>3. t \in Tasks /\ link' = [link EXCEPT ![l] = link[l]]
    BY <1>1, <2>2 DEF Tasks
  <2>4. QED
    BY <1>1, <2>1, <2>2, <2>3, OutsideChain
<1>3. CASE Remove(l)
  <2>1. l \notin Chain /\ "closed" \in Places /\ "none" \in Tasks
    BY <1>3 DEF Remove, Chain, IInv, TaskFitsLink, Places, Tasks
  <2>2. QED
    BY <1>3, <2>1, OutsideChain DEF Remove
<1>4. CASE Release(l)
  <2>1. /\ l \notin Chain /\ "pooled" \in Places /\ "none" \in Tasks
        /\ task' = [task EXCEPT ![l] = "none"]
    BY <1>1, <1>4 DEF Release, Chain, Places, Tasks
  <2>2. QED
    BY <1>4, <2>1, OutsideChain DEF Release
<1>5. CASE Connect(l)
  <2>1. /\ l \notin Chain /\ "attached" \in Places /\ "none" \in Tasks
        /\ task' = [task EXCEPT ![l] = "none"]
    BY <1>1, <1>5 DEF Connect, Pooled, Chain, Places, Tasks, IInv, TaskFitsLink
  <2>2. QED
    BY <1>5, <2>1, OutsideChain DEF Connect
<1>6. QED
  BY <1>2, <1>3, <1>4, <1>5

\* Steps that change neither a link nor the flag.
LEMMA Unconcerned ==
    ASSUME IInv, UNCHANGED <<link, task, is_acceptable>>
    PROVE  IInv'
BY DEF IInv, Types, TaskFitsLink, ChainFitsFlag, Chain

LEMMA TimerStep ==
    ASSUME IInv, NEW l \in Links, SweepVisits(l) \/ RunQueued(l)
    PROVE  IInv'
<1>1. is_acceptable' = is_acceptable
      /\ (OnError(l) \/ UNCHANGED <<link, task>>)
  BY DEF SweepVisits, RunQueued
<1>2. QED
  BY <1>1, OnErrorStep, Unconcerned

LEMMA NextStep ==
    ASSUME IInv, [Next]_vars
    PROVE  IInv'
<1>1. CASE \E l \in Links : Callback_Accept(l) \/ Close(l) \/ Connect(l)
  BY <1>1, CallbackStep, OnErrorStep, OtherHandlers DEF Close
<1>2. CASE \E l \in Links : Handler(l)
  BY <1>2, AcceptStep, AcceptFullStep, RecheckStep, OtherHandlers, TimerStep
     DEF Handler
<1>3. CASE SweepBegins \/ SweepEnds
  BY <1>3, Unconcerned DEF SweepBegins, SweepEnds
<1>4. CASE \E l \in Links : SweepVisits(l)
  BY <1>4, TimerStep
<1>5. CASE UNCHANGED vars
  BY <1>5, Unconcerned DEF vars
<1>6. QED
  BY <1>1, <1>2, <1>3, <1>4, <1>5 DEF Next

\* However OnClose, Callback_Accept and the keep-alive timer interleave, the
\* listener has one async_accept outstanding, or is about to start or to give
\* up that one, exactly while _is_acceptable is TRUE.
THEOREM SingleAcceptChain == Spec => []OneAcceptChain
<1>1. Init => IInv
  BY InitStep
<1>2. IInv /\ [Next]_vars => IInv'
  BY NextStep
<1>3. IInv => OneAcceptChain
  <2>1. \A c : Cardinality({c}) = 1
    BY FS_Singleton
  <2>2. Cardinality({}) = 0
    BY FS_EmptySet
  <2>3. QED
    BY <2>1, <2>2 DEF IInv, ChainFitsFlag, OneAcceptChain
<1>4. QED
  BY <1>1, <1>2, <1>3, PTL DEF Spec
-----------------------------------------------------------------------------
(* _links and the keep-alive timer. *)

\* What the timer has still to look at is in _links, since it owns _lock, and
\* the OnError it executes is of a link it has taken out.
Sweeping ==
    /\ sweep \subseteq links /\ inline \notin sweep
    /\ lock # "timer" => sweep = {}
    /\ inline # "none" => link[inline] = "closing"

LInv == TypeOK /\ TaskFitsLink /\ Sweeping /\ TimeoutOfThisConnection /\ EveryConnectionListed

LEMMA CallbackLists == ASSUME LInv, NEW l \in Links, Callback_Accept(l) PROVE LInv'
<1>1. TypeOK'
  BY LinkManagerAssumption DEF LInv, TypeOK, TaskFitsLink, Sweeping, Tasks, LinkManagerAssumption, Callback_Accept
<1>2. TaskFitsLink' /\ Sweeping'
  BY LinkManagerAssumption DEF LInv, TypeOK, TaskFitsLink, Sweeping, EveryConnectionListed, Tasks, LinkManagerAssumption, Callback_Accept
<1>3. TimeoutOfThisConnection' /\ EveryConnectionListed'
  BY DEF LInv, TypeOK, TaskFitsLink, Sweeping, TimeoutOfThisConnection, EveryConnectionListed, Tasks, Callback_Accept
<1>4. QED
  BY <1>1, <1>2, <1>3 DEF LInv

LEMMA AcceptsLists == ASSUME LInv, NEW l \in Links, Accept(l) PROVE LInv'
<1>1. TypeOK'
  BY LinkManagerAssumption DEF LInv, TypeOK, TaskFitsLink, Sweeping, Tasks, LinkManagerAssumption, Accept, Pooled, AfterAccept, Unlocked
<1>2. TaskFitsLink' /\ Sweeping'
  BY LinkManagerAssumption DEF LInv, TypeOK, TaskFitsLink, Sweeping, EveryConnectionListed, Tasks, LinkManagerAssumption, Accept, Pooled, AfterAccept, Unlocked
<1>3. TimeoutOfThisConnection' /\ EveryConnectionListed'
  BY DEF LInv, TypeOK, TaskFitsLink, Sweeping, TimeoutOfThisConnection, EveryConnectionListed, Tasks, Accept, Pooled, AfterAccept, Unlocked
<1>4. QED
  BY <1>1, <1>2, <1>3 DEF LInv

LEMMA FullLists == ASSUME LInv, NEW l \in Links, AcceptFull(l) PROVE LInv'
<1>1. TypeOK'
  BY LinkManagerAssumption DEF LInv, TypeOK, TaskFitsLink, Sweeping, Tasks, LinkManagerAssumption, AcceptFull, AfterAccept, Unlocked, MayLock, Owner
<1>2. TaskFitsLink' /\ Sweeping'
  BY LinkManagerAssumption DEF LInv, TypeOK, TaskFitsLink, Sweeping, EveryConnectionListed, Tasks, LinkManagerAssumption, AcceptFull, AfterAccept, Unlocked, MayLock, Owner
<1>3. TimeoutOfThisConnection' /\ EveryConnectionListed'
  BY DEF LInv, TypeOK, TaskFitsLink, Sweeping, TimeoutOfThisConnection, EveryConnectionListed, Tasks, AcceptFull, AfterAccept, Unlocked, MayLock, Owner
<1>4. QED
  BY <1>1, <1>2, <1>3 DEF LInv

LEMMA CheckLists == ASSUME LInv, NEW l \in Links, OnCloseCheck(l) PROVE LInv'
<1>1. TypeOK'
  BY LinkManagerAssumption DEF LInv, TypeOK, TaskFitsLink, Sweeping, Tasks, LinkManagerAssumption, OnCloseCheck
<1>2. TaskFitsLink' /\ Sweeping'
  BY LinkManagerAssumption DEF LInv, TypeOK, TaskFitsLink, Sweeping, EveryConnectionListed, Tasks, LinkManagerAssumption, OnCloseCheck
<1>3. TimeoutOfThisConnection' /\ EveryConnectionListed'
  BY DEF LInv, TypeOK, TaskFitsLink, Sweeping, TimeoutOfThisConnection, EveryConnectionListed, Tasks, OnCloseCheck
<1>4. QED
  BY <1>1, <1>2, <1>3 DEF LInv

LEMMA RecheckLists == ASSUME LInv, NEW l \in Links, OnCloseRecheck(l) PROVE LInv'
<1>1. TypeOK'
  BY LinkManagerAssumption DEF LInv, TypeOK, TaskFitsLink, Sweeping, Tasks, LinkManagerAssumption, OnCloseRecheck, MayLock, Owner
<1>2. TaskFitsLink' /\ Sweeping'
  BY LinkManagerAssumption DEF LInv, TypeOK, TaskFitsLink, Sweeping, EveryConnectionListed, Tasks, LinkManagerAssumption, OnCloseRecheck, MayLock, Owner
<1>3. TimeoutOfThisConnection' /\ EveryConnectionListed'
  BY DEF LInv, TypeOK, TaskFitsLink, Sweeping, TimeoutOfThisConnection, EveryConnectionListed, Tasks, OnCloseRecheck, MayLock, Owner
<1>4. QED
  BY <1>1, <1>2, <1>3 DEF LInv

LEMMA RemoveLists == ASSUME LInv, NEW l \in Links, Remove(l) PROVE LInv'
<1>1. TypeOK'
  BY LinkManagerAssumption DEF LInv, TypeOK, TaskFitsLink, Sweeping, Tasks, LinkManagerAssumption, Remove, MayLock, Owner
<1>2. TaskFitsLink' /\ Sweeping'
  BY LinkManagerAssumption DEF LInv, TypeOK, TaskFitsLink, Sweeping, EveryConnectionListed, Tasks, LinkManagerAssumption, Remove, MayLock, Owner
<1>3. TimeoutOfThisConnection' /\ EveryConnectionListed'
  BY DEF LInv, TypeOK, TaskFitsLink, Sweeping, TimeoutOfThisConnection, EveryConnectionListed, Tasks, Remove, MayLock, Owner
<1>4. QED
  BY <1>1, <1>2, <1>3 DEF LInv

LEMMA ReleaseLists == ASSUME LInv, NEW l \in Links, Release(l) PROVE LInv'
<1>1. TypeOK'
  BY LinkManagerAssumption DEF LInv, TypeOK, TaskFitsLink, Sweeping, Tasks, LinkManagerAssumption, Release
<1>2. TaskFitsLink' /\ Sweeping'
  BY LinkManagerAssumption DEF LInv, TypeOK, TaskFitsLink, Sweeping, EveryConnectionListed, Tasks, LinkManagerAssumption, Release
<1>3. TimeoutOfThisConnection' /\ EveryConnectionListed'
  BY DEF LInv, TypeOK, TaskFitsLink, Sweeping, TimeoutOfThisConnection, EveryConnectionListed, Tasks, Release
<1>4. QED
  BY <1>1, <1>2, <1>3 DEF LInv

LEMMA VisitLists == ASSUME LInv, NEW l \in Links, SweepVisits(l) PROVE LInv'
<1>1. TypeOK'
  BY LinkManagerAssumption DEF LInv, TypeOK, TaskFitsLink, Sweeping, Tasks, LinkManagerAssumption, SweepVisits, OnError
<1>2. TaskFitsLink' /\ Sweeping'
  BY LinkManagerAssumption DEF LInv, TypeOK, TaskFitsLink, Sweeping, EveryConnectionListed, Tasks, LinkManagerAssumption, SweepVisits, OnError
<1>3. TimeoutOfThisConnection' /\ EveryConnectionListed'
  BY DEF LInv, TypeOK, TaskFitsLink, Sweeping, TimeoutOfThisConnection, EveryConnectionListed, Tasks, SweepVisits, OnError
<1>4. QED
  BY <1>1, <1>2, <1>3 DEF LInv

LEMMA QueuedLists == ASSUME LInv, NEW l \in Links, RunQueued(l) PROVE LInv'
<1>1. TypeOK'
  BY LinkManagerAssumption DEF LInv, TypeOK, TaskFitsLink, Sweeping, Tasks, LinkManagerAssumption, RunQueued, OnError
<1>2. TaskFitsLink' /\ Sweeping'
  BY LinkManagerAssumption DEF LInv, TypeOK, TaskFitsLink, Sweeping, EveryConnectionListed, Tasks, LinkManagerAssumption, RunQueued, OnError
<1>3. TimeoutOfThisConnection' /\ EveryConnectionListed'
  BY DEF LInv, TypeOK, TaskFitsLink, Sweeping, TimeoutOfThisConnection, EveryConnectionListed, Tasks, RunQueued, OnError
<1>4. QED
  BY <1>1, <1>2, <1>3 DEF LInv

LEMMA ConnectLists == ASSUME LInv, NEW l \in Links, Connect(l) PROVE LInv'
<1>1. TypeOK'
  BY LinkManagerAssumption DEF LInv, TypeOK, TaskFitsLink, Sweeping, Tasks, LinkManagerAssumption, Connect, Pooled
<1>2. TaskFitsLink' /\ Sweeping'
  BY LinkManagerAssumption DEF LInv, TypeOK, TaskFitsLink, Sweeping, EveryConnectionListed, Tasks, LinkManagerAssumption, Connect, Pooled
<1>3. TimeoutOfThisConnection' /\ EveryConnectionListed'
  BY DEF LInv, TypeOK, TaskFitsLink, Sweeping, TimeoutOfThisConnection, EveryConnectionListed, Tasks, Connect, Pooled
<1>4. QED
  BY <1>1, <1>2, <1>3 DEF LInv

LEMMA CloseLists == ASSUME LInv, NEW l \in Links, Close(l) PROVE LInv'
<1>1. TypeOK'
  BY LinkManagerAssumption DEF LInv, TypeOK, TaskFitsLink, Sweeping, Tasks, LinkManagerAssumption, Close, OnError
<1>2. TaskFitsLink' /\ Sweeping'
  BY LinkManagerAssumption DEF LInv, TypeOK, TaskFitsLink, Sweeping, EveryConnectionListed, Tasks, LinkManagerAssumption, Close, OnError
<1>3. TimeoutOfThisConnection' /\ EveryConnectionListed'
  BY DEF LInv, TypeOK, TaskFitsLink, Sweeping, TimeoutOfThisConnection, EveryConnectionListed, Tasks, Close, OnError
<1>4. QED
  BY <1>1, <1>2, <1>3 DEF LInv

LEMMA InitLists == Init => LInv
<1> SUFFICES ASSUME Init PROVE LInv
  OBVIOUS
<1>1. TypeOK
  BY LinkManagerAssumption DEF Init, TypeOK, Tasks, LinkManagerAssumption
<1>2. TaskFitsLink /\ Sweeping
  BY LinkManagerAssumption DEF Init, TaskFitsLink, Sweeping, LinkManagerAssumption
<1>3. TimeoutOfThisConnection /\ EveryConnectionListed
  BY DEF Init, TimeoutOfThisConnection, EveryConnectionListed
<1>4. QED
  BY <1>1, <1>2, <1>3 DEF LInv

\* A pass of the timer begins with all of _links and ends with nothing left.
LEMMA PassLists == ASSUME LInv, SweepBegins \/ SweepEnds PROVE LInv'
<1>1. TypeOK'
  BY LinkManagerAssumption DEF LInv, TypeOK, SweepBegins, SweepEnds, LinkManagerAssumption
<1>2. TaskFitsLink' /\ Sweeping'
  BY LinkManagerAssumption DEF LInv, TypeOK, TaskFitsLink, Sweeping, SweepBegins, SweepEnds, LinkManagerAssumption
<1>3. TimeoutOfThisConnection' /\ EveryConnectionListed'
  BY DEF LInv, TimeoutOfThisConnection, EveryConnectionListed, SweepBegins, SweepEnds
<1>4. QED
  BY <1>1, <1>2, <1>3 DEF LInv

LEMMA NextLists == LInv /\ [Next]_vars => LInv'
<1> SUFFICES ASSUME LInv, [Next]_vars PROVE LInv'
  OBVIOUS
<1>1. CASE \E l \in Links : Callback_Accept(l) \/ Close(l) \/ Connect(l)
  BY <1>1, CallbackLists, CloseLists, ConnectLists
<1>2. CASE \E l \in Links : Handler(l)
  BY <1>2, AcceptsLists, FullLists, CheckLists, RecheckLists, RemoveLists, ReleaseLists, QueuedLists
     DEF Handler
<1>3. CASE SweepBegins \/ SweepEnds
  BY <1>3, PassLists
<1>4. CASE \E l \in Links : SweepVisits(l)
  BY <1>4, VisitLists
<1>5. CASE UNCHANGED vars
  BY <1>5 DEF vars, LInv, TypeOK, TaskFitsLink, Sweeping, TimeoutOfThisConnection, EveryConnectionListed
<1>6. QED
  BY <1>1, <1>2, <1>3, <1>4, <1>5 DEF Next

LEMMA AlwaysLists == Spec => []LInv
<1>1. QED
  BY InitLists, NextLists, PTL DEF Spec

\* LinkManager.cpp:33: an OnError that the keep-alive timer has queued in a
\* busy strand runs before the link is used for another connection.
THEOREM TimeoutIsOfThisConnection == Spec => []TimeoutOfThisConnection
<1>1. LInv => TimeoutOfThisConnection
  BY DEF LInv
<1>2. QED
  BY AlwaysLists, <1>1, PTL

\* LinkManager.cpp:32: a connection that the timer has taken out of _links has
\* its OnError queued or begun: none is hidden from the timer for ever.
THEOREM ConnectionsAreListed == Spec => []EveryConnectionListed
<1>1. LInv => EveryConnectionListed
  BY DEF LInv
<1>2. QED
  BY AlwaysLists, <1>1, PTL

\* LinkManager.cpp:101: the types, and who owns _lock between two steps: a
\* strand inside Accept that OnClose has called, or the timer.
THEOREM LockHasItsOwner == Spec => []TypeOK
<1>1. LInv => TypeOK
  BY DEF LInv
<1>2. QED
  BY AlwaysLists, <1>1, PTL
=============================================================================
