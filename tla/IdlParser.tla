------------------------------ MODULE IdlParser ------------------------------
(***************************************************************************)
(* The front end of idlc: Compiler::Compile runs the lexer of lexer.l and  *)
(* the grammar of parser.y over an .idl file, then hands the statements to *)
(* one of the generators, which writes them to the output file.            *)
(*                                                                         *)
(* The input is a sequence of lexemes; blanks are left out, and so is the  *)
(* text of a literal block, which is copied to the output.  A statement is *)
(* a tuple of its kind and its parts.                                      *)
(***************************************************************************)
EXTENDS Integers, Sequences, FiniteSets, SequencesExt

CONSTANTS Files,        \* .idl files, as sequences of lexemes
          Comments,     \* comments that somebody inserts into them
          VarNames, Numbers

VARIABLES
  file,         \* the lexemes that are left
  mode,         \* the start condition of the lexer
  tokens,       \* what the lexer returned
  option,       \* -l
  outcome,      \* "running", "error" (exit(1)), "complete"
  output,       \* the output file: whether this run opened it, and its statements
  original      \* the file before the comment came into it
vars == <<file, mode, tokens, option, outcome, output, original>>

LanguageNames == {".cpp", ".py", ".java", ".cs"}
PrimitiveNames == {"boolean", "byte", "ubyte", "int16", "int32", "int64", "uint16", "uint32",
                   "uint64", "double", "float", "string"}
Words == {"message", "struct", "enum", "typedef", "map", "array", "list",
          "{", "}", "(", ")", "<", ">", ":", ";", ",", "="}
           \union PrimitiveNames \union LanguageNames \union VarNames \union Numbers

-----------------------------------------------------------------------------
(* yylex: one lexeme.  In INITIAL a line comment takes the rest of its      *)
(* line, and what no rule matches is echoed and dropped.                    *)
Lex ==
  /\ outcome = "running" /\ file # <<>>
  /\ LET x == Head(file)
         eol == {i \in DOMAIN file : file[i] = "newline"}
         line == IF eol = {} THEN Len(file) ELSE Min(eol) - 1 IN
     /\ file' = IF mode = "INITIAL" /\ x = "//" THEN SubSeq(file, line + 1, Len(file)) ELSE Tail(file)
     /\ mode' = CASE mode = "INITIAL" /\ x = "/*" -> "STATE_COMMENT"
                  [] mode = "INITIAL" /\ x = "%%" -> "STATE_LITERAL"
                  [] mode = "STATE_COMMENT" /\ x = "*/" -> "INITIAL"
                  [] mode = "STATE_LITERAL" /\ x = "%%" -> "INITIAL"
                  [] OTHER -> mode
     /\ tokens' = CASE mode = "STATE_COMMENT" /\ x = "*/" -> Append(tokens, "COMMENT")
                    [] mode = "INITIAL" /\ x = "//" -> Append(tokens, "COMMENT")
                    [] mode = "STATE_LITERAL" /\ x = "%%" -> Append(tokens, "LITERAL")
                    [] mode = "INITIAL" /\ x \in Words -> Append(tokens, x)
                    [] OTHER -> tokens
  /\ UNCHANGED <<option, outcome, output, original>>

-----------------------------------------------------------------------------
(* The grammar: each rule takes its tokens from the head of ts.             *)
Parsed(v, rest) == [ok |-> TRUE, v |-> v, rest |-> rest]
SyntaxError == [ok |-> FALSE, v |-> <<>>, rest |-> <<>>]
From(ts, n) == SubSeq(ts, n, Len(ts))
(* ts begins with one token of each of the sets. *)
Begins(ts, sets) == Len(ts) >= Len(sets) /\ \A i \in DOMAIN sets : ts[i] \in sets[i]

RECURSIVE var_type(_), container(_, _), many(_, _), more(_, _)

(* kind <a, b> with its key a, and kind <a> or array <a, n>. *)
map_of(a, b) ==
  IF b.ok /\ Begins(b.rest, <<{">"}>>) THEN Parsed(<<"map", a.v, b.v>>, Tail(b.rest)) ELSE SyntaxError
container(kind, a) ==
  CASE ~a.ok -> SyntaxError
    [] kind # "map" /\ Begins(a.rest, <<{">"}>>) -> Parsed(<<kind, a.v>>, Tail(a.rest))
    [] kind = "array" /\ Begins(a.rest, <<{","}, Numbers, {">"}>>) ->
         Parsed(<<"static_array", a.v, a.rest[2]>>, From(a.rest, 4))
    [] kind = "map" /\ Begins(a.rest, <<{","}>>) -> map_of(a, var_type(From(a.rest, 2)))
    [] OTHER -> SyntaxError

var_type(ts) ==
  CASE Begins(ts, <<PrimitiveNames \union VarNames>>) -> Parsed(Head(ts), Tail(ts))
    [] Begins(ts, <<{"array", "list", "map"}, {"<"}>>) -> container(Head(ts), var_type(From(ts, 3)))
    [] OTHER -> SyntaxError

var_name(t) ==
  IF t.ok /\ Begins(t.rest, <<VarNames, {";"}>>) THEN Parsed(<<t.v, t.rest[1]>>, From(t.rest, 3))
  ELSE SyntaxError
var_decl(ts) ==
  IF Begins(ts, <<{"COMMENT"}>>) THEN Parsed(<<"comment">>, Tail(ts)) ELSE var_name(var_type(ts))

enum_decl(ts) ==
  LET numbered == Begins(ts, <<VarNames, {"="}, Numbers>>)
      n == IF numbered THEN 4 ELSE 2
      comma == Begins(From(ts, n), <<{","}>>) IN
  CASE Begins(ts, <<{"COMMENT"}>>) -> Parsed(<<"comment">>, Tail(ts))
    [] Begins(ts, <<VarNames>>) -> Parsed(IF numbered THEN <<ts[1], ts[3]>> ELSE <<ts[1]>>,
                                          From(ts, IF comma THEN n + 1 ELSE n))
    [] OTHER -> SyntaxError

(* var_decl_list or enum_decl_list, possibly none, up to "}" and ";". *)
joined(h, r) == IF r.ok THEN Parsed(<<h.v>> \o r.v, r.rest) ELSE SyntaxError
more(rule, h) == IF h.ok THEN joined(h, many(rule, h.rest)) ELSE SyntaxError
many(rule, ts) ==
  IF Begins(ts, <<{"}"}, {";"}>>) THEN Parsed(<<>>, From(ts, 3))
  ELSE more(rule, IF rule = "var_decl" THEN var_decl(ts) ELSE enum_decl(ts))

(* A header of n tokens, whose parts are v, and the body after it. *)
closed(v, r) == IF r.ok THEN Parsed(Append(v, r.v), r.rest) ELSE SyntaxError
body(v, rule, ts, n) == closed(v, many(rule, From(ts, n + 1)))

message(ts) ==
  LET N == VarNames IN
  CASE Begins(ts, <<{"message"}, N, {":"}, Numbers, {"{"}>>) ->
         body(<<"message", ts[2], "", ts[4]>>, "var_decl", ts, 5)
    [] Begins(ts, <<{"message"}, N, {"("}, N, {")"}, {":"}, Numbers, {"{"}>>) ->
         body(<<"message", ts[2], ts[4], ts[7]>>, "var_decl", ts, 8)
    [] OTHER -> SyntaxError

(* A struct is a message with the number -1. *)
struct(ts) ==
  LET N == VarNames IN
  CASE Begins(ts, <<{"struct"}, N, {"{"}>>) -> body(<<"message", ts[2], "", "-1">>, "var_decl", ts, 3)
    [] Begins(ts, <<{"struct"}, N, {"("}, N, {")"}, {"{"}>>) ->
         body(<<"message", ts[2], ts[4], "-1">>, "var_decl", ts, 6)
    [] OTHER -> SyntaxError

enum(ts) ==
  IF Begins(ts, <<{"enum"}, VarNames, {"{"}>>) THEN body(<<"enum", ts[2]>>, "enum_decl", ts, 3)
  ELSE SyntaxError

typedef_of(d) == IF d.ok THEN Parsed(<<"typedef", d.v>>, d.rest) ELSE SyntaxError
typedef(ts) == typedef_of(var_decl(Tail(ts)))

literal(ts) ==
  IF Begins(ts, <<LanguageNames, {"LITERAL"}>>) THEN Parsed(<<"literal", ts[1]>>, From(ts, 3))
  ELSE SyntaxError

stmt(ts) ==
  CASE Begins(ts, <<{"message"}>>) -> message(ts)
    [] Begins(ts, <<{"struct"}>>) -> struct(ts)
    [] Begins(ts, <<{"enum"}>>) -> enum(ts)
    [] Begins(ts, <<{"typedef"}>>) -> typedef(ts)
    [] Begins(ts, <<LanguageNames>>) -> literal(ts)
    [] Begins(ts, <<{"COMMENT"}>>) -> Parsed(<<"comment">>, Tail(ts))
    [] OTHER -> SyntaxError

RECURSIVE stmt_list(_)
stmts_after(h) ==
  CASE ~h.ok -> SyntaxError
    [] h.ok /\ h.rest = <<>> -> Parsed(<<h.v>>, <<>>)
    [] OTHER -> joined(h, stmt_list(h.rest))
stmt_list(ts) == IF ts = <<>> THEN SyntaxError ELSE stmts_after(stmt(ts))

(* MakeParseTree reads the file to its end. *)
MakeParseTree == stmt_list(tokens)

-----------------------------------------------------------------------------
\* A mutant: the output file is opened before the tree is made.
CompileOpensFirst ==
  /\ outcome = "running" /\ file = <<>>
  /\ LET tree == MakeParseTree IN
     /\ outcome' = IF tree.ok THEN "complete" ELSE "error"
     /\ output' = [opened |-> TRUE, stmts |-> <<>>]
  /\ UNCHANGED <<file, mode, tokens, option, original>>

(* Parser::Parse: what each generator writes of the statements, in order.   *)
(* Comments are tokens of type NULL; they and the literals of the other     *)
(* languages write nothing.  C# writes its aliases before everything else.  *)
WithoutComments(s) ==
  IF s[1] \in {"message", "enum"}
  THEN [s EXCEPT ![Len(s)] = SelectSeq(s[Len(s)], LAMBDA m : m # <<"comment">>)] ELSE s
Extension(l) == CASE l = "cpp" -> ".cpp" [] l = "py" -> ".py" [] l = "cs" -> ".cs"
Written(l, s) ==
  CASE s[1] = "comment" -> FALSE
    [] s[1] = "literal" -> s[2] = Extension(l)
    [] OTHER -> TRUE
AliasesFirst(w) == SelectSeq(w, LAMBDA s : s[1] = "typedef") \o SelectSeq(w, LAMBDA s : s[1] # "typedef")
Parse(stmts, l) ==
  LET w == SelectSeq(stmts, LAMBDA s : Written(l, s))
      order == IF l = "cs" THEN AliasesFirst(w) ELSE w
  IN [i \in DOMAIN order |-> WithoutComments(order[i])]

(* MakeParseTree, then the output file is opened and written. *)
Compile ==
  /\ outcome = "running" /\ file = <<>>
  /\ LET tree == MakeParseTree IN
     /\ outcome' = IF tree.ok THEN "complete" ELSE "error"
     /\ output' = IF tree.ok THEN [opened |-> TRUE, stmts |-> Parse(tree.v, option)] ELSE output
  /\ UNCHANGED <<file, mode, tokens, option, original>>

(* A file with one of the comments inserted before its i-th lexeme, or none. *)
Init ==
  /\ option \in {"cpp", "cs", "py"}
  /\ original \in Files
  /\ \E c \in Comments \union {<<>>} : \E i \in 0..Len(original) :
       file = SubSeq(original, 1, i) \o c \o From(original, i + 1)
  /\ mode = "INITIAL" /\ tokens = <<>> /\ outcome = "running"
  /\ output = [opened |-> FALSE, stmts |-> <<>>]

Next == Lex \/ Compile
Spec == Init /\ [][Next]_vars

-----------------------------------------------------------------------------
(* The tokens of the original file: a literal block is the only one that    *)
(* is not a single lexeme.                                                  *)
RECURSIVE Plainly(_)
Plainly(ls) ==
  IF ls = <<>> THEN <<>>
  ELSE IF Head(ls) # "%%" THEN <<Head(ls)>> \o Plainly(Tail(ls))
  ELSE LET close == Min({i \in 2..Len(ls) : ls[i] = "%%"})
       IN <<"LITERAL">> \o Plainly(From(ls, close + 1))

HasLiteral == \E i \in DOMAIN original : original[i] = "%%"

(* A comment in the .idl never changes what is generated, whatever it holds: *)
(* the compiler either stops at it with an error, and leaves the output of   *)
(* an earlier run alone, or writes what it writes without the comment.       *)
(* (Inside a literal block there are no comments.)                           *)
CommentsChangeNothing ==
  /\ outcome = "error" => ~output.opened
  /\ outcome = "complete" /\ ~HasLiteral =>
       output.stmts = Parse(stmt_list(Plainly(original)).v, option)

(* The compiler stops only at a comment that stands inside a statement or a  *)
(* member: between two of them, a comment of any content is accepted.        *)
CommentsWhereExpected ==
  outcome = "error" /\ ~HasLiteral =>
    \E i \in 2..Len(tokens) : tokens[i] = "COMMENT" /\ tokens[i-1] \notin {";", "{", "COMMENT"}
=============================================================================
