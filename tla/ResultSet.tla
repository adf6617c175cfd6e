----------------------------- MODULE ResultSet -----------------------------
(***************************************************************************)
(* MySQL::ResultSet: the rows of one query, stored in the client, and the  *)
(* iterators over them.  The cursor that says which row is fetched next    *)
(* belongs to the stored result, so all iterators and operator[] share it. *)
(***************************************************************************)
EXTENDS Integers, Sequences, SequencesExt

CONSTANTS Results,     \* what queries return: "empty" (no result), "changed" (of an UPDATE), or rows
          Columns,     \* the names in mapColumnName_, in the order of the query
          Unknown,     \* a name that is not among them
          Null,        \* the value of a column that is NULL
          Iterators,
          Bits,        \* widths of the integer types, for 16, 32 and 64
          MaxMoves     \* bound: moves of the cursor

VARIABLES
    result,      \* a member of Results: impl_, and its res_ if it has rows
    cursor,      \* the row that mysql_fetch_row returns next
    itr,         \* each iterator: whether it has an impl_, and its row_: a number, 0 for NULL, or Garbage
    got,         \* the last thing that was read
    seen,        \* history: the rows an iterator was on since begin() or operator[]
    disturbed,   \* history: how others have moved the cursor since: "not", "on" or "away"
    moves
resultVars == <<result, cursor, itr, got, seen, disturbed, moves>>

HasRows == result.kind = "rows"
GetRowCount == IF HasRows THEN Len(result.rows) ELSE 0

(* mysql_fetch_row at c: the row, or NULL behind the last one. *)
Fetch(c) == IF c <= Len(result.rows) THEN c ELSE 0
Next_(c) == IF c <= Len(result.rows) THEN c + 1 ELSE c

Garbage == -1      \* row_ before anybody has given it a value

Nothing == [outcome |-> "nothing"]
End == [impl |-> FALSE, row |-> 0]

ResultInit ==
  /\ result \in Results
  /\ cursor = 1
  /\ itr = [i \in Iterators |-> End]
  /\ got = Nothing
  /\ seen = [i \in Iterators |-> <<>>]
  /\ disturbed = [i \in Iterators |-> "not"]
  /\ moves = 0

(* i is on row now, the first of its rows if fresh; "how" the cursor moved    *)
(* is what the other iterators find.                                        *)
Moved(i, row, fresh, how) ==
  /\ itr' = [itr EXCEPT ![i] = [impl |-> TRUE, row |-> row]]
  /\ LET before == IF fresh THEN <<>> ELSE seen[i] IN
     seen' = [seen EXCEPT ![i] = IF row = 0 THEN before ELSE Append(before, row)]
  /\ disturbed' = [j \in Iterators |->
       IF j = i THEN IF fresh THEN "not" ELSE disturbed[i]
       ELSE IF disturbed[j] = "away" THEN "away" ELSE how]
  /\ moves' = moves + 1

Crash == got' = [outcome |-> "crash"] /\ UNCHANGED <<cursor, itr, seen, disturbed, moves>>
Throw == got' = [outcome |-> "exception"] /\ UNCHANGED <<cursor, itr, seen, disturbed, moves>>

(* itr = result.begin(): a row whose first column is NULL looks like the end, *)
(* the result of an UPDATE has no res_ to seek in, and without an impl_ the *)
(* constructor leaves row_ as it is.                                        *)
Begin(i) ==
  IF result.kind = "empty"
  THEN /\ itr' = [itr EXCEPT ![i] = [impl |-> FALSE, row |-> Garbage]]
       /\ got' = Nothing /\ UNCHANGED <<cursor, seen, disturbed, moves>>
  ELSE IF ~HasRows THEN Crash
  ELSE LET row == IF Fetch(1) = 1 /\ result.rows[1][Head(Columns)] = Null THEN 0 ELSE Fetch(1) IN
       cursor' = Next_(1) /\ got' = Nothing /\ Moved(i, row, TRUE, "away")

(* itr = result.end(). *)
SetToEnd(i) ==
  /\ itr' = [itr EXCEPT ![i] = End]
  /\ seen' = [seen EXCEPT ![i] = <<>>]
  /\ got' = Nothing
  /\ UNCHANGED <<cursor, disturbed, moves>>

(* itr++ *)
Increment(i) ==
  IF itr[i].impl
  THEN cursor' = Next_(cursor) /\ got' = Nothing /\ Moved(i, Fetch(cursor), FALSE, "on")
  ELSE itr' = [itr EXCEPT ![i].row = 0] /\ got' = Nothing /\ UNCHANGED <<cursor, seen, disturbed, moves>>

(* i == j: the same row_, of one stored result.                             *)
Compare(i, j) ==
  /\ \E equal \in BOOLEAN :
       /\ Garbage \notin {itr[i].row, itr[j].row} => equal = (itr[i].row = itr[j].row)
       /\ got' = [outcome |-> "compared", equal |-> equal]
  /\ UNCHANGED <<cursor, itr, seen, disturbed, moves>>

(* GetAffectedRow and GetRowCount have an answer without an impl_.           *)
GetLastInsertID ==
  IF result.kind = "empty" THEN Crash
  ELSE got' = Nothing /\ UNCHANGED <<cursor, itr, seen, disturbed, moves>>

(* itr = result[index], from 0. *)
At(i, index) ==
  IF index >= GetRowCount THEN Throw
  ELSE cursor' = Next_(index + 1) /\ got' = Nothing /\ Moved(i, index + 1, TRUE, "away")

-----------------------------------------------------------------------------
(* boost::lexical_cast of the text of an integer to an integer type: a       *)
(* negative number becomes unsigned as by a conversion of the type.         *)
lexical_cast(type, v) ==
  LET top == 2 ^ (IF type.signed THEN type.bits - 1 ELSE type.bits) IN
  IF v >= (IF type.signed THEN -top ELSE 1 - top) /\ v < top
  THEN [outcome |-> "value", value |-> IF v < 0 /\ ~type.signed THEN v + top ELSE v]
  ELSE [outcome |-> "exception"]

String == [bits |-> 0, signed |-> FALSE]
IntegerTypes == [bits : Bits, signed : BOOLEAN]
Bool == [bits |-> 1, signed |-> FALSE]     \* of "0" and "1" only

(* The conversion that Variant makes when it is used is the same. *)
Convert(type, v) ==
  IF type = String THEN [outcome |-> "value", value |-> v]
  ELSE IF type = Bool /\ v < 0 THEN [outcome |-> "exception"]
  ELSE lexical_cast(type, v)

(* itr->getString(column) and what is made of it.  The iterator that end()   *)
(* returns has no impl_; a NULL column is a char pointer that is NULL.      *)
GetAs(i, column, type) ==
  /\ IF ~itr[i].impl THEN Crash
     ELSE IF column = Unknown \/ itr[i].row = 0 THEN Throw
     ELSE LET v == result.rows[itr[i].row][column] IN
       /\ IF v = Null THEN \E o \in {"crash", "exception"} : got' = [outcome |-> o]
          ELSE got' = Convert(type, v) @@ [by |-> i, column |-> column, type |-> type]
       /\ UNCHANGED <<cursor, itr, seen, disturbed, moves>>

ResultNext ==
  /\ got.outcome # "crash"
  /\ UNCHANGED result
  /\ \/ GetLastInsertID
     \/ \E i \in Iterators :
       \/ /\ moves < MaxMoves
          /\ Begin(i) \/ Increment(i) \/ \E index \in 0..GetRowCount : At(i, index)
       \/ SetToEnd(i)
       \/ \E j \in Iterators \ {i} : Compare(i, j)
       \/ \E column \in Range(Columns) \union {Unknown}, type \in IntegerTypes \union {String, Bool} :
            GetAs(i, column, type)

ResultSpec == ResultInit /\ [][ResultNext]_resultVars

-----------------------------------------------------------------------------
(* The rows of an iterator follow one another without a gap as long as       *)
(* nobody else moves the cursor, and in their order, with gaps, as long as  *)
(* nobody else seeks.                                                       *)
RowsInOrder ==
  \A i \in Iterators :
    /\ disturbed[i] = "not" => \A n \in 2..Len(seen[i]) : seen[i][n] = seen[i][n - 1] + 1
    /\ disturbed[i] # "away" => \A n \in 2..Len(seen[i]) : seen[i][n] > seen[i][n - 1]

(* An undisturbed loop that ends has seen the last row; it misses all of     *)
(* them only if the first column of the first one is NULL.                  *)
EndsBehindLast ==
  \A i \in Iterators :
    HasRows /\ disturbed[i] = "not" /\ itr[i] = [impl |-> TRUE, row |-> 0] /\ result.rows # <<>> =>
      IF seen[i] = <<>> THEN result.rows[1][Head(Columns)] = Null
      ELSE Last(seen[i]) = Len(result.rows)

(* What is read is the column of the row the iterator came to last; a        *)
(* number comes out as another one only if it is negative and read as an    *)
(* unsigned type.                                                           *)
ReadsItsRow ==
  got.outcome = "value" =>
    LET v == result.rows[Last(seen[got.by])][got.column] IN
    got.value = v \/ (v < 0 /\ ~got.type.signed /\ got.value = v + 2 ^ got.type.bits)
=============================================================================
