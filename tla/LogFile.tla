------------------------------- MODULE LogFile ------------------------------
(***************************************************************************)
(* src/Gamnet/Log: a Logger, its File and the threads that write to it.    *)
(*                                                                         *)
(* A time is a number of seconds; PerDay of them make a day.  A file is    *)
(* named by its day and, once a file was too long, by its second too.  A   *)
(* line is the time printed in front of it, and sizes are counted in       *)
(* lines.  There is one level; stderr and syslog are left out.  What       *)
(* ReadXml reads of that level is the "file" attribute of its elements.    *)
(***************************************************************************)
EXTENDS Integers, Sequences, FiniteSets

CONSTANTS
    Threads,
    PerDay,
    filesize_,      \* the size above which File::open takes another file
    Configurations, \* what ReadXml reads: "yes", "no" or "missing" attributes
    MaxTime, MaxWrites      \* bounds of the model

VARIABLES
    now,            \* the clock
    slash,          \* whether the path given to Init ends in "/"
    init,           \* Logger::Init: "no", "begun", "done", "failed"
    Property_,      \* whether the level goes to the file
    xml,            \* elements that ReadXml has not come to
    when,           \* the time each thread has taken for its line, 0 for none
    today_, filename_, ofstream_,   \* File: the day, name, and file open
    files,          \* the lines of every file there is
    writes, refused,\* lines the threads passed to Write; those that threw
    dropped         \* history: lines whose level was off under the mutex

logVars == <<now, slash, init, Property_, xml, when, today_, filename_, ofstream_,
             files, writes, refused, dropped>>

fileVars == <<today_, filename_, ofstream_, files>>

Day(t) == (t - 1) \div PerDay

Names == [day : 0 .. Day(MaxTime), second : 0 .. MaxTime]

NoFile == [day |-> 0, second |-> MaxTime + 1]

Init ==
    /\ now = 1
    /\ slash \in BOOLEAN
    /\ init = "no"
    /\ Property_ = FALSE
    /\ xml \in Configurations
    /\ when = [t \in Threads |-> 0]
    /\ today_ = -1
    /\ filename_ = NoFile
    /\ ofstream_ = NoFile
    /\ files = <<>>
    /\ writes = 0
    /\ refused = 0
    /\ dropped = 0

-----------------------------------------------------------------------------
(***************************************************************************)
(* Logger.                                                                 *)
(***************************************************************************)

(* Init sets the levels first ... *)
InitLevels ==
    /\ init \in {"no", "failed"}
    /\ init' = "begun"
    /\ Property_' = TRUE
    /\ UNCHANGED <<slash, now, xml, when, fileVars, writes, refused, dropped>>

(* ... then the path, and creates the directory, which may throw.  The     *)
(* last character of "dir/" becomes a NUL.                                 *)
InitDirectory ==
    /\ init = "begun"
    /\ init' \in {"done", "failed"}
    /\ UNCHANGED <<slash, now, Property_, xml, when, fileVars, writes, refused, dropped>>

(* SetLevelProperty. *)
SetLevelProperty ==
    /\ init = "done"
    /\ Property_' \in BOOLEAN
    /\ UNCHANGED <<slash, now, init, xml, when, fileVars, writes, refused, dropped>>

(* ReadXml, after Init: each element of the level sets it, the last one     *)
(* prevails, and one without the attribute throws.  There is no element    *)
(* for warnings.                                                           *)
ReadXml ==
    /\ init = "done"
    /\ xml # <<>>
    /\ IF Head(xml) = "missing"
       THEN xml' = <<>> /\ UNCHANGED Property_
       ELSE xml' = Tail(xml) /\ Property_' = (Head(xml) = "yes")
    /\ UNCHANGED <<slash, now, init, when, fileVars, writes, refused, dropped>>

(* Write returns at once for a level that is off, throws before the end of *)
(* Init, and takes the time of the line before it waits for the mutex.     *)
Write(t) ==
    /\ when[t] = 0
    /\ writes < MaxWrites
    /\ Property_
    /\ writes' = writes + 1
    /\ IF init = "done"
       THEN when' = [when EXCEPT ![t] = now] /\ UNCHANGED refused
       ELSE refused' = refused + 1 /\ UNCHANGED when
    /\ UNCHANGED <<slash, now, init, Property_, xml, fileVars, dropped>>

-----------------------------------------------------------------------------
(***************************************************************************)
(* File.                                                                   *)
(***************************************************************************)

\* filename_.c_str() ends at the NUL of "dir/": it names the directory, which
\* cannot be opened for writing and whose size is an error, taken as the
\* largest integer.
Opens == ~slash

Created(name) ==
    IF Opens /\ name \notin DOMAIN files
    THEN [n \in DOMAIN files \union {name} |->
              IF n = name THEN <<>> ELSE files[n]]
    ELSE files

TooLong(name) ==
    IF Opens
    THEN name \in DOMAIN files /\ Len(files[name]) > filesize_
    ELSE TRUE

\* A mutant: the file is changed for the length only.
OpenSameDay(t) ==
    IF today_ < 0 THEN [day |-> Day(t), second |-> 0]
    ELSE IF TooLong(filename_) THEN [day |-> Day(t), second |-> t]
    ELSE filename_

(* open(now): the file of another day is left for the one of this day, and *)
(* a file that is too long for one with the second in its name.            *)
Open(t) ==
    LET daily == IF today_ # Day(t)
                 THEN [day |-> Day(t), second |-> 0] ELSE filename_
    IN  IF TooLong(daily) THEN [day |-> Day(t), second |-> t] ELSE daily

(* The rest of Write, under the mutex, tests the level again: the line goes *)
(* to the file of File, or nowhere when the level was turned off meanwhile. *)
Line(t) ==
    /\ when[t] # 0
    /\ \/ /\ Property_
          /\ LET name == Open(when[t])
                 made == Created(name)
             IN  /\ filename_' = name
                 /\ today_' = Day(when[t])
                 /\ ofstream_' = IF Opens THEN name ELSE NoFile
                 /\ files' = IF Opens
                             THEN [made EXCEPT ![name] = Append(@, when[t])]
                             ELSE made
          /\ UNCHANGED dropped
       \/ /\ ~Property_
          /\ dropped' = dropped + 1
          /\ UNCHANGED fileVars
    /\ when' = [when EXCEPT ![t] = 0]
    /\ UNCHANGED <<slash, now, init, Property_, xml, writes, refused>>

Tick ==
    /\ now < MaxTime
    /\ now' = now + 1
    /\ UNCHANGED <<slash, init, Property_, xml, when, fileVars, writes, refused, dropped>>

Next ==
    \/ InitLevels \/ InitDirectory \/ SetLevelProperty \/ ReadXml
    \/ \E t \in Threads : Write(t) \/ Line(t)
    \/ Tick

Spec == Init /\ [][Next]_logVars

-----------------------------------------------------------------------------

\* Every line is in a file of its own day, also the line of a thread that
\* took the time before midnight and the mutex after another thread had
\* opened the file of the new day.
FileOfItsDay ==
    \A n \in DOMAIN files : \A i \in DOMAIN files[n] : Day(files[n][i]) = n.day

\* A file grows beyond its limit by one line, and by more of them only within
\* the second that is in its name, which a second file of the same second
\* would share.
Bounded ==
    \A n \in DOMAIN files : \A i \in DOMAIN files[n] :
        i > filesize_ + 1 => files[n][i] = n.second

\* A line that Write took is in exactly one file, once its thread is through,
\* unless its level was turned off before the thread had the mutex.
\* (Not so when the path given to Init ends in "/": every line is lost then.)
Lines == UNION {{<<n, i>> : i \in DOMAIN files[n]} : n \in DOMAIN files}
Pending == {t \in Threads : when[t] # 0}
NothingLost ==
    ~slash => writes = refused + dropped + Cardinality(Lines) + Cardinality(Pending)
=============================================================================
