------------------------------- MODULE MCLink -------------------------------
(***************************************************************************)
(* Links for model checking.  Link, as the configuration sets it, is a     *)
(* link of Tcp::LinkManager; RouterLink is one of Router::LinkManager,     *)
(* with connect timeouts and every rare failure.  A behaviour is of one of *)
(* the two, which "of" says from the start.                                *)
(***************************************************************************)
EXTENDS Link

RouterLink == INSTANCE Link WITH
    Manager <- "Router", TimeoutSet <- BOOLEAN,
    Failures <- {"endpoint", "session pool", "resolve", "callback"}

VARIABLE of

BothInit == Init /\ of \in {"Tcp", "Router"}
BothNext ==
    /\ \/ of = "Tcp" /\ Next
       \/ of = "Router" /\ RouterLink!Next
    /\ UNCHANGED of
BothSpec ==
    /\ BothInit /\ [][BothNext]_<<vars, of>>
    /\ WF_<<vars, of>>(of = "Tcp" /\ RunStrand /\ UNCHANGED of)
    /\ WF_<<vars, of>>(of = "Tcp" /\ Aborts /\ UNCHANGED of)
    /\ WF_<<vars, of>>(of = "Tcp" /\ TimerExpires /\ UNCHANGED of)

-----------------------------------------------------------------------------
\* Link.cpp:84: an accepted link gives each session that was attached to it
\* exactly one OnClose, whoever reports an error first, unless a Reconnect_Req
\* took the session off the link or put another in its place.
AcceptedIsClosedOnce == of = "Tcp" => SessionClosedOnce

\* Link.cpp:84, LinkManager.cpp:126: whoever closes an accepted link takes it
\* out of LinkManager::_links.  (A Connect that throws leaves a router's link
\* there for ever.)
AcceptedIsListedOpen == of = "Tcp" => RegisteredIsOpen

\* Link.cpp:84: an accepted link that is closed goes back to the pool: no
\* handler, container or session keeps the last shared_ptr.  (The timeout of a
\* Connect keeps its own link.)
AcceptedIsReleased == of = "Tcp" => ClosedIsReleased
=============================================================================
