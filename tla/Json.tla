-------------------------------- MODULE Json --------------------------------
(***************************************************************************)
(* Library/Json: StyledWriter, with which Tcp::Session::Send and the       *)
(* handler of a connect write their answers, Reader, which reads the       *)
(* requests and, in the test client, those answers, and FastWriter.        *)
(*                                                                         *)
(* A text is a sequence of symbols: a punctuation mark, a newline, a blank *)
(* ("_"), a letter of a string or of a comment, the whole of a number or   *)
(* of null, true and false (a member of Literals), the marks "//", "/*"    *)
(* and "*/", and "0", the zero byte.  Indentation is left out, the blank   *)
(* that stands for it in the tests of the writer is not.                   *)
(*                                                                         *)
(* A value has a kind, its symbols (a string or a literal), its elements   *)
(* (an array or an object, whose names are in order), and its comments: a  *)
(* sequence of symbols for each placement, <<>> for none.                  *)
(***************************************************************************)
EXTENDS Naturals, Sequences, SequencesExt

CONSTANTS
    Values, Tails,  \* the values written; what follows the text in a buffer
    Literals,       \* numbers, null, true, false
    rightMargin_    \* the width from which an array is written in lines

VARIABLES value, text, tail, root,
    compact     \* whether FastWriter wrote the text

jsonVars == <<value, text, tail, root, compact>>

IsFilled(v) == v.elems # <<>>

HasComment(v) == v.before # <<>> \/ v.same # <<>> \/ v.after # <<>>

-----------------------------------------------------------------------------
(***************************************************************************)
(* Strings.                                                                *)
(***************************************************************************)

Escapes == [c \in {"q", "b", "n", "ctl", "0"} |->
    CASE c = "q"   -> <<"b", "q">>      \* the quote, and the backslash
      [] c = "b"   -> <<"b", "b">>
      [] c = "n"   -> <<"b", "letter n">>
      [] c = "ctl" -> <<"b", "u", "0001">>
      [] c = "0"   -> <<"b", "u", "0000">>]

(* valueToQuotedStringN and, for the names of members, valueToQuotedString.*)
Quoted(string) ==
    <<"q">>
    \o FlattenSeq([i \in DOMAIN string |->
           IF string[i] \in DOMAIN Escapes THEN Escapes[string[i]]
                                           ELSE <<string[i]>>])
    \o <<"q">>

(* decodeString, from the symbol after the quote to the quote.             *)
Decoded(symbols) ==
    LET Step[i \in 0 .. Len(symbols)] ==
            IF i = 0 THEN [out |-> <<>>, esc |-> FALSE]
            ELSE LET s == Step[i - 1]
                     c == symbols[i]
                 IN  IF ~s.esc
                     THEN IF c = "b" THEN [s EXCEPT !.esc = TRUE]
                                     ELSE [s EXCEPT !.out = Append(@, c)]
                     ELSE CASE c = "letter n" -> [out |-> Append(s.out, "n"), esc |-> FALSE]
                            [] c = "u"        -> s
                            [] c = "0001"     -> [out |-> Append(s.out, "ctl"), esc |-> FALSE]
                            [] c = "0000"     -> [out |-> Append(s.out, "0"), esc |-> FALSE]
                            [] OTHER          -> [out |-> Append(s.out, c), esc |-> FALSE]
    IN  Step[Len(symbols)].out

-----------------------------------------------------------------------------
(***************************************************************************)
(* StyledWriter.                                                           *)
(***************************************************************************)

(* writeIndent: a new line, unless the last one is empty or ends in what   *)
(* is taken for indentation.                                               *)
Indent(doc) ==
    IF doc = <<>> \/ Last(doc) \in {"_", "\n"} THEN doc ELSE Append(doc, "\n")

CommentBefore(doc, v) ==
    IF v.before = <<>> THEN doc
    ELSE Append(Indent(Append(doc, "\n")) \o v.before, "\n")

CommentAfter(doc, v) ==
    LET same == IF v.same = <<>> THEN doc ELSE Append(doc, "_") \o v.same
    IN  IF v.after = <<>> THEN same
        ELSE Append(Append(same, "\n") \o v.after, "\n")

\* What is written for a value that takes no line of its own.
Inline(v) ==
    CASE v.kind = "array"  -> <<"[", "]">>
      [] v.kind = "object" -> <<"{", "}">>
      [] v.kind = "string" -> Quoted(v.of)
      [] v.kind = "literal" -> v.of

(* isMultineArray. *)
IsMultiline(v) ==
    \/ Len(v.elems) * 3 >= rightMargin_
    \/ \E i \in DOMAIN v.elems : IsFilled(v.elems[i]) \/ HasComment(v.elems[i])
    \/ 2 + 2 * Len(v.elems) + Len(FlattenSeq([i \in DOMAIN v.elems |-> Inline(v.elems[i])]))
           >= rightMargin_

RECURSIVE WriteValue(_, _), WriteItem(_, _, _)

(* One element or member: its comments are around it, those behind it      *)
(* after the comma.                                                        *)
WriteItem(doc, v, i) ==
    LET child == v.elems[i]
        name == IF v.kind = "object" THEN Quoted(v.names[i]) \o <<"_", ":", "_">>
                                     ELSE <<>>
        item == WriteValue(Indent(CommentBefore(doc, child)) \o name, child)
        out == CommentAfter(item \o (IF i < Len(v.elems) THEN <<",">> ELSE <<>>), child)
    IN  IF i < Len(v.elems) THEN WriteItem(out, v, i + 1) ELSE out

(* writeValue and writeArrayValue. *)
WriteValue(doc, v) ==
    IF ~IsFilled(v) THEN doc \o Inline(v)
    ELSE IF v.kind = "object"
    THEN Append(Indent(WriteItem(Append(Indent(doc), "{"), v, 1)), "}")
    ELSE IF IsMultiline(v)
    THEN Append(Indent(WriteItem(Append(Indent(doc), "["), v, 1)), "]")
    ELSE doc \o <<"[", "_">>
             \o FlattenSeq([i \in DOMAIN v.elems |->
                    (IF i > 1 THEN <<",", "_">> ELSE <<>>) \o Inline(v.elems[i])])
             \o <<"_", "]">>

Written(v) ==
    Append(CommentAfter(WriteValue(CommentBefore(<<>>, v), v), v), "\n")

-----------------------------------------------------------------------------
(***************************************************************************)
(* FastWriter: one line without comments.                                  *)
(***************************************************************************)

RECURSIVE Fast(_)
Fast(v) ==
    LET item(i) ==
            (IF i > 1 THEN <<",">> ELSE <<>>)
            \o (IF v.kind = "object" THEN Append(Quoted(v.names[i]), ":") ELSE <<>>)
            \o Fast(v.elems[i])
        items == FlattenSeq([i \in DOMAIN v.elems |-> item(i)])
    IN  CASE v.kind = "array"  -> <<"[">> \o items \o <<"]">>
          [] v.kind = "object" -> <<"{">> \o items \o <<"}">>
          [] OTHER -> Inline(v)

FastWritten(v) == Append(Fast(v), "\n")

-----------------------------------------------------------------------------
(***************************************************************************)
(* Reader.  Its state: the text, the place, the comments that wait for the *)
(* next value, the end and the path of the last value, and what was read:  *)
(* a node for each path, a comment for each path and placement.            *)
(***************************************************************************)

\* The index n in a path, or the length n of an array.
Index(n) == [i \in 1 .. n |-> "#"]

Put(f, key, x) == [k \in DOMAIN f \union {key} |-> IF k = key THEN x ELSE f[k]]

Stripped(comment) ==        \* Value::setComment
    IF comment # <<>> /\ Last(comment) = "\n" THEN Front(comment) ELSE comment

Note(st, path, placement, comment) ==
    [st EXCEPT !.notes = Put(@, <<path, placement>>, Stripped(comment))]

Char(st, i) == IF i \in DOMAIN st.doc THEN st.doc[i] ELSE "0"

\* The first place from i on where one of the symbols is, or the end.
Find(st, i, symbols) ==
    CHOOSE j \in i .. Len(st.doc) + 1 :
        /\ j \in DOMAIN st.doc => st.doc[j] \in symbols
        /\ \A k \in i .. j - 1 : st.doc[k] \notin symbols

RECURSIVE SkipSpaces(_, _), StringEnd(_, _)
SkipSpaces(st, i) ==
    IF Char(st, i) \in {"_", "\n"} THEN SkipSpaces(st, i + 1) ELSE i

StringEnd(st, i) ==
    IF i > Len(st.doc) \/ st.doc[i] = "q" THEN i
    ELSE StringEnd(st, i + (IF st.doc[i] = "b" THEN 2 ELSE 1))

HasNewline(st, i, j) == \E k \in i .. j - 1 : Char(st, k) = "\n"

\* A mutant: a comment belongs to the value before it whatever is between.
AddCommentToLast(st, i, j) ==
    LET comment == SubSeq(st.doc, i, j - 1)
    IN  IF st.lastEnd > 0
        THEN Note(st, st.last, "same", comment)
        ELSE [st EXCEPT !.pending = @ \o comment]

(* readComment, of the comment from i to before j: it belongs to the last  *)
(* value if it begins, and in the case of a C comment ends, on its line.   *)
AddComment(st, i, j) ==
    LET comment == SubSeq(st.doc, i, j - 1)
    IN  IF /\ st.lastEnd > 0
           /\ ~HasNewline(st, st.lastEnd, i)
           /\ st.doc[i] = "/*" => ~HasNewline(st, i, j)
        THEN Note(st, st.last, "same", comment)
        ELSE [st EXCEPT !.pending = @ \o comment]

\* A comment that is not closed is an error.
CommentEnd(st, i) ==
    Find(st, i, IF st.doc[i] = "/*" THEN {"*/"} ELSE {"\n"}) + 1

RECURSIVE NextToken(_)

(* readToken, passing over comments: the state behind the token, with the  *)
(* token and where it starts.                                              *)
NextToken(st) ==
    LET i == SkipSpaces(st, st.cur)
        c == Char(st, i)
    IN  CASE c \in {"//", "/*"} ->
                 LET j == CommentEnd(st, i)
                 IN  IF c = "/*" /\ j > Len(st.doc) + 1
                     THEN [st EXCEPT !.token = "error"]
                     ELSE NextToken([AddComment(st, i, j) EXCEPT !.cur = j])
          [] c = "q" ->
                 LET j == StringEnd(st, i + 1)
                 IN  [st EXCEPT !.cur = j + 1, !.start = i,
                                !.token = IF j <= Len(st.doc) THEN "string" ELSE "error"]
          [] c \in Literals -> [st EXCEPT !.cur = i + 1, !.start = i, !.token = "literal"]
          [] c \in {"{", "}", "[", "]", ",", ":", "0"} ->
                 [st EXCEPT !.cur = i + 1, !.start = i, !.token = c]
          [] OTHER -> [st EXCEPT !.cur = i + 1, !.start = i, !.token = "error"]

StringAt(st) == Decoded(SubSeq(st.doc, st.start + 1, st.cur - 2))

Failed(st) == [st EXCEPT !.ok = FALSE]

RECURSIVE ReadToken(_, _), ReadObject(_, _, _), ReadArray(_, _, _),
          MoreMembers(_, _, _), MoreItems(_, _, _)

Stored(st, path, kind, x) == [st EXCEPT !.tree = Put(@, path, <<kind, x>>)]

\* readValue: the comments collected so far go before the value.
TakeComments(st, path) ==
    IF st.pending = <<>> THEN st
    ELSE [Note(st, path, "before", st.pending) EXCEPT !.pending = <<>>]

ReadToken(st, path) ==
    CASE st.token = "{" -> ReadObject(st, path, <<>>)
      [] st.token = "[" -> ReadArray(st, path, 0)
      [] st.token = "string" -> Stored(st, path, "string", StringAt(st))
      [] st.token = "literal" -> Stored(st, path, "literal", <<st.doc[st.start]>>)
      [] OTHER -> Failed(st)

ValueEnds(st, path) ==
    IF st.ok THEN [st EXCEPT !.lastEnd = st.cur, !.last = path] ELSE st

ReadValue(st, path) ==
    ValueEnds(ReadToken(TakeComments(NextToken(st), path), path), path)

\* readObject: names is what it has read.  A "}" behind a comma is not an
\* end, and no comment may stand before the colon.
MoreMembers(comma, path, names) ==
    CASE ~comma.ok -> comma
      [] comma.token = "," -> ReadObject(comma, path, names)
      [] comma.token = "}" -> Stored(comma, path, "object", names)
      [] OTHER -> Failed(comma)

BehindValue(st) == IF st.ok THEN NextToken(st) ELSE st

ReadMember(name, i, path, names) ==
    LET key == StringAt(name)
    IN  CASE name.token = "}" /\ names = <<>> -> Stored(name, path, "object", <<>>)
          [] name.token # "string" \/ Char(name, i) # ":" -> Failed(name)
          [] OTHER ->
               MoreMembers(
                   BehindValue(ReadValue([name EXCEPT !.cur = i + 1], Append(path, key))),
                   path, IF key \in ToSet(names) THEN names ELSE Append(names, key))

ReadNamed(name, path, names) == ReadMember(name, SkipSpaces(name, name.cur), path, names)
ReadObject(st, path, names) == ReadNamed(NextToken(st), path, names)

\* readArray: only blanks may stand between the brackets of an empty one.
MoreItems(comma, path, n) ==
    CASE ~comma.ok -> comma
      [] comma.token = "," -> ReadArray(comma, path, n)
      [] comma.token = "]" -> Stored(comma, path, "array", Index(n))
      [] OTHER -> Failed(comma)

ReadArray(st, path, n) ==
    LET i == SkipSpaces(st, st.cur)
    IN  IF n = 0 /\ Char(st, i) = "]"
        THEN Stored([st EXCEPT !.cur = i + 1], path, "array", Index(0))
        ELSE MoreItems(BehindValue(ReadValue(st, Append(path, Index(n)))), path, n + 1)

\* parse: comments behind the root are its own, the rest of the text is not
\* looked at.
RootComments(end, ok) ==
    IF ~ok \/ end.pending = <<>> THEN end ELSE Note(end, <<>>, "after", end.pending)

RootRead(st) == RootComments(NextToken(st), st.ok)

Parsed(doc) ==
    LET none == [k \in {} |-> <<>>]
    IN  RootRead(ReadValue([doc |-> doc, cur |-> 1, start |-> 1, token |-> "",
                            pending |-> <<>>, lastEnd |-> 0, last |-> <<>>,
                            tree |-> none, notes |-> none, ok |-> TRUE], <<>>))

-----------------------------------------------------------------------------
(***************************************************************************)
(* What a reader of the text should find, and the state machine.           *)
(***************************************************************************)

RECURSIVE Paths(_, _), At(_, _)
Paths(v, path) ==
    {path} \union
        (IF ~IsFilled(v) THEN {}
         ELSE UNION {Paths(v.elems[i],
                           Append(path, IF v.kind = "object" THEN v.names[i]
                                                             ELSE Index(i - 1)))
                     : i \in DOMAIN v.elems})

At(v, path) ==
    IF path = <<>> THEN v
    ELSE LET i == CHOOSE i \in DOMAIN v.elems :
                      Head(path) = (IF v.kind = "object" THEN v.names[i]
                                                         ELSE Index(i - 1))
         IN  At(v.elems[i], Tail(path))

Tree(v) ==
    [p \in Paths(v, <<>>) |->
        LET w == At(v, p)
        IN  CASE w.kind = "array" -> <<"array", Index(Len(w.elems))>>
              [] w.kind = "object" -> <<"object", w.names>>
              [] w.kind = "string" -> <<"string", w.of>>
              [] OTHER -> <<"literal", w.of>>]

Comment(v, placement) ==
    CASE placement = "before" -> v.before
      [] placement = "same"   -> v.same
      [] placement = "after"  -> v.after

Notes(v) ==
    LET all == {<<p, placement>> : p \in Paths(v, <<>>),
                                   placement \in {"before", "same", "after"}}
    IN  [k \in {k \in all : Comment(At(v, k[1]), k[2]) # <<>>} |->
            Comment(At(v, k[1]), k[2])]

Init ==
    value \in Values /\ text = <<>> /\ tail = <<>> /\ root = <<>> /\ compact = FALSE

Write ==
    /\ text = <<>>
    /\ compact' \in BOOLEAN
    /\ text' = IF compact' THEN FastWritten(value) ELSE Written(value)
    /\ tail' \in Tails
    /\ UNCHANGED <<value, root>>

(* The packet carries the zero byte behind the text, and the test client   *)
(* reads as many bytes behind it as a header has.                          *)
Read ==
    /\ text # <<>>
    /\ root = <<>>
    /\ root' = <<Parsed(text \o <<"0">> \o tail)>>
    /\ UNCHANGED <<value, text, tail, compact>>

Next == Write \/ Read

Spec == Init /\ [][Next]_jsonVars

-----------------------------------------------------------------------------

\* What was written is read: the same tree with the same strings, and what
\* StyledWriter wrote with every comment at the value that had it, whatever
\* bytes follow the text.
ReadAsWritten ==
    root # <<>> =>
        /\ root[1].ok
        /\ root[1].tree = Tree(value)
        /\ root[1].notes = IF compact THEN [k \in {} |-> <<>>] ELSE Notes(value)
=============================================================================
