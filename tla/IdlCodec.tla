------------------------------ MODULE IdlCodec ------------------------------
(***************************************************************************)
(* The code that idlc generates to put a message on the wire and to take   *)
(* it off: Store, Load and Size of generate_rule_cpp.cpp and               *)
(* generate_rule_csharp.cpp, Store and Load of generate_rule_python.cpp.   *)
(* A peer written in one language stores a message, a peer written in      *)
(* another, whose .idl may be older or newer by one member, loads it.      *)
(*                                                                         *)
(* A type is the token the parser builds (token.h), a value what the       *)
(* generated member holds: a number, a sequence of bytes for a string, a   *)
(* sequence for a list or an array, a function for a map, the position of  *)
(* its enumerator for an enum, a sequence of the members (the inherited    *)
(* ones first) for a message.  Numbers are non-negative and below 2^31.    *)
(***************************************************************************)
EXTENDS IdlMessages, FiniteSets, SequencesExt

CONSTANTS Messages,     \* for each message, its type as each language's program has it
          Null          \* a C# string that was never assigned

(* CompileEnum: C++ and C# are left to count from the number before, the    *)
(* Python generator counts itself.                                          *)
CppEnum(ns) ==
  LET f[i \in DOMAIN ns] == IF ns[i] # NoNumber THEN ns[i] ELSE IF i = 1 THEN 0 ELSE f[i-1] + 1 IN f
CsEnum(ns) ==
  LET f[i \in DOMAIN ns] == IF ns[i] # NoNumber THEN ns[i] ELSE IF i = 1 THEN 0 ELSE f[i-1] + 1 IN f
PyEnum(ns) ==
  LET nMaxNumber[i \in 0..Len(ns)] ==
        IF i = 0 THEN -1 ELSE IF ns[i] # NoNumber THEN ns[i] ELSE nMaxNumber[i-1] + 1
  IN [i \in DOMAIN ns |-> nMaxNumber[i]]
(* The enumerator of a number, 0 if the reader has none. *)
Enumerator(f, n) == IF \E i \in DOMAIN f : f[i] = n THEN CHOOSE i \in DOMAIN f : f[i] = n ELSE 0

(* CompileMessage handles the inherited members before its own. *)
Fields(t) == t.parent \o t.members

(* The member types of each language, as bytes on the wire. *)
CppWidth == [boolean |-> 1, byte |-> 1, ubyte |-> 1, int16 |-> 2, int32 |-> 4, int64 |-> 8,
             uint16 |-> 2, uint32 |-> 4, uint64 |-> 8, double |-> 8, float |-> 4]
\* A mutant: a boolean as Marshal.SizeOf has it.
CsWidthMarshalled == [boolean |-> 4, byte |-> 1, ubyte |-> 1, int16 |-> 2, int32 |-> 4, int64 |-> 8,
                      uint16 |-> 2, uint32 |-> 4, uint64 |-> 8, double |-> 8, float |-> 4]
CsWidth  == [boolean |-> 1, byte |-> 1, ubyte |-> 1, int16 |-> 2, int32 |-> 4, int64 |-> 8,
             uint16 |-> 2, uint32 |-> 4, uint64 |-> 8, double |-> 8, float |-> 4]
PyWidth  == [boolean |-> 1, byte |-> 1, ubyte |-> 1, int16 |-> 2, int32 |-> 4, int64 |-> 8,
             uint16 |-> 2, uint32 |-> 4, uint64 |-> 8, double |-> 8, float |-> 4]
Prefix == 4             \* sizeof(int32_t), sizeof(int), format 'i'

(* A number in w bytes, the least significant first, and back. *)
Bytes(w, n)  == [i \in 1..w |-> IF i > 4 THEN 0 ELSE (n \div 256^(i-1)) % 256]
Number(w, b) == b[1] + (IF w > 1 THEN 256 * b[2] ELSE 0) + (IF w > 2 THEN 65536 * b[3] ELSE 0)
                  + (IF w > 3 THEN 16777216 * b[4] ELSE 0)
Drop(b, n)   == SubSeq(b, n + 1, Len(b))
Copies(t, n) == [i \in 1..n |-> t]
Pairs(k, e, n) == [i \in 1..(2 * n) |-> IF i % 2 = 1 THEN k ELSE e]
Keys(v)      == SetToSeq(DOMAIN v)          \* the container's own order

-----------------------------------------------------------------------------
(* GenerateVariableStore: what the generated Store appends to the buffer.  *)
RECURSIVE CppStore(_, _), CsStore(_, _), PyStore(_, _)

CppStore(t, v) ==
  CASE t.kind = "primitive" -> Bytes(CppWidth[t.name], v)
    [] t.kind = "enum"      -> Bytes(4, CppEnum(t.numbers)[v])
    [] t.kind = "string"    -> Bytes(Prefix, Len(v)) \o v
    [] t.kind \in {"list", "array"} ->
         Bytes(Prefix, Len(v)) \o FlattenSeq([i \in DOMAIN v |-> CppStore(t.elmt, v[i])])
    [] t.kind = "map" ->
         Bytes(Prefix, Len(Keys(v)))
           \o FlattenSeq([i \in DOMAIN Keys(v) |->
                            CppStore(t.key, Keys(v)[i]) \o CppStore(t.elmt, v[Keys(v)[i]])])
    [] t.kind = "static_array" -> FlattenSeq([i \in 1..t.count |-> CppStore(t.elmt, v[i])])
    [] t.kind = "typedef"   -> CppStore(t.of, v)
    [] t.kind = "message"   -> FlattenSeq([i \in DOMAIN v |-> CppStore(Fields(t)[i], v[i])])

CsStore(t, v) ==
  CASE t.kind = "primitive" -> Bytes(CsWidth[t.name], v)
    [] t.kind = "enum"      -> Bytes(4, CsEnum(t.numbers)[v])
    [] t.kind = "string"    -> IF v = Null THEN Bytes(Prefix, 0) ELSE Bytes(Prefix, Len(v)) \o v
    [] t.kind \in {"list", "array"} ->
         Bytes(Prefix, Len(v)) \o FlattenSeq([i \in DOMAIN v |-> CsStore(t.elmt, v[i])])
    [] t.kind = "map" ->
         Bytes(Prefix, Len(Keys(v)))
           \o FlattenSeq([i \in DOMAIN Keys(v) |->
                            CsStore(t.key, Keys(v)[i]) \o CsStore(t.elmt, v[Keys(v)[i]])])
    [] t.kind = "static_array" -> FlattenSeq([i \in 1..t.count |-> CsStore(t.elmt, v[i])])
    [] t.kind = "typedef"   -> CsStore(t.of, v)
    [] t.kind = "message"   -> FlattenSeq([i \in DOMAIN v |-> CsStore(Fields(t)[i], v[i])])

PyStore(t, v) ==
  CASE t.kind = "primitive" -> Bytes(PyWidth[t.name], v)
    [] t.kind = "enum"      -> Bytes(PyWidth["int32"], PyEnum(t.numbers)[v])
    [] t.kind = "string"    -> Bytes(PyWidth["int32"], Len(v)) \o v
    [] t.kind \in {"list", "array"} ->
         Bytes(PyWidth["int32"], Len(v)) \o FlattenSeq([i \in DOMAIN v |-> PyStore(t.elmt, v[i])])
    [] t.kind = "map" ->
         Bytes(PyWidth["int32"], Len(Keys(v)))
           \o FlattenSeq([i \in DOMAIN Keys(v) |->
                            PyStore(t.key, Keys(v)[i]) \o PyStore(t.elmt, v[Keys(v)[i]])])
    [] t.kind = "static_array" -> FlattenSeq([i \in 1..t.count |-> PyStore(t.elmt, v[i])])
    [] t.kind = "typedef"   -> PyStore(t.of, v)
    [] t.kind = "message"   -> FlattenSeq([i \in DOMAIN v |-> PyStore(Fields(t)[i], v[i])])

(* The Python generator writes "self." before the elements of a static      *)
(* array: the statement raises unless the array is a member of a message.   *)
RECURSIVE PyStores(_, _)
PyStores(t, member) ==
  CASE t.kind = "static_array"      -> member /\ PyStores(t.elmt, TRUE)
    [] t.kind \in {"list", "array"} -> PyStores(t.elmt, FALSE)
    [] t.kind = "map"               -> PyStores(t.key, FALSE) /\ PyStores(t.elmt, FALSE)
    [] t.kind = "typedef"           -> PyStores(t.of, FALSE)
    [] t.kind = "message"           -> \A i \in DOMAIN Fields(t) : PyStores(Fields(t)[i], TRUE)
    [] OTHER                        -> TRUE

-----------------------------------------------------------------------------
(* GenerateVariableSize: the Size that the sender puts in its packet header. *)
RECURSIVE CppSize(_, _), CsSize(_, _)
Total(s) == FoldSeq(LAMBDA x, y : x + y, 0, s)

CppSize(t, v) ==
  CASE t.kind = "primitive" -> CppWidth[t.name]
    [] t.kind = "enum"      -> 4
    [] t.kind = "string"    -> Prefix + Len(v)
    [] t.kind \in {"list", "array"} -> Prefix + Total([i \in DOMAIN v |-> CppSize(t.elmt, v[i])])
    [] t.kind = "map" ->
         Prefix + Total([i \in DOMAIN Keys(v) |->
                           CppSize(t.key, Keys(v)[i]) + CppSize(t.elmt, v[Keys(v)[i]])])
    [] t.kind = "static_array" ->
         IF t.elmt.kind = "primitive" THEN CppWidth[t.elmt.name] * t.count
         ELSE Total([i \in 1..t.count |-> CppSize(t.elmt, v[i])])
    [] t.kind = "typedef"   -> CppSize(t.of, v)
    [] t.kind = "message"   -> Total([i \in DOMAIN v |-> CppSize(Fields(t)[i], v[i])])

CsSize(t, v) ==
  CASE t.kind = "primitive" -> CsWidth[t.name]
    [] t.kind = "enum"      -> 4
    [] t.kind = "string"    -> Prefix + (IF v = Null THEN 0 ELSE Len(v))
    [] t.kind \in {"list", "array"} -> Prefix + Total([i \in DOMAIN v |-> CsSize(t.elmt, v[i])])
    [] t.kind = "map" ->
         Prefix + Total([i \in DOMAIN Keys(v) |->
                           CsSize(t.key, Keys(v)[i]) + CsSize(t.elmt, v[Keys(v)[i]])])
    [] t.kind = "static_array" ->
         IF t.elmt.kind = "primitive" THEN CsWidth[t.elmt.name] * t.count
         ELSE Total([i \in 1..t.count |-> CsSize(t.elmt, v[i])])
    [] t.kind = "typedef"   -> CsSize(t.of, v)
    [] t.kind = "message"   -> Total([i \in DOMAIN v |-> CsSize(Fields(t)[i], v[i])])

-----------------------------------------------------------------------------
(* GenerateVariableLoad: a load takes the value from the head of the        *)
(* buffer, or returns false (raises, in Python).                            *)
Loaded(v, rest) == [ok |-> TRUE, v |-> v, rest |-> rest]
Refused == [ok |-> FALSE, v |-> <<>>, rest |-> <<>>]

(* The memory behind a buffer, which a static array of numbers reads when   *)
(* the buffer is shorter: the size wraps and the later tests all pass.      *)
Beyond == [i \in 1..64 |-> 0]

(* std::map::insert keeps the first element of a key, m[key] = elmt of the  *)
(* other two the last; kv is key, element, key, element ...                 *)
KeysOf(kv) == {kv[i] : i \in {j \in DOMAIN kv : j % 2 = 1}}
FirstWins(kv) == [k \in KeysOf(kv) |-> kv[1 + Min({i \in DOMAIN kv : i % 2 = 1 /\ kv[i] = k})]]
LastWins(kv)  == [k \in KeysOf(kv) |-> kv[1 + Max({i \in DOMAIN kv : i % 2 = 1 /\ kv[i] = k})]]

RECURSIVE CppLoad(_, _), CsLoad(_, _), PyLoad(_, _, _), LoadAll(_, _, _)

CppLoad(t, b) ==
  LET n == Number(Prefix, b) IN
  CASE t.kind = "primitive" ->
         IF CppWidth[t.name] > Len(b) THEN Refused
         ELSE Loaded(Number(CppWidth[t.name], b), Drop(b, CppWidth[t.name]))
    [] t.kind = "enum" -> IF 4 > Len(b) THEN Refused
                           ELSE Loaded(Enumerator(CppEnum(t.numbers), n), Drop(b, 4))
    [] t.kind = "string" ->
         IF Prefix > Len(b) \/ Len(b) - Prefix < n THEN Refused
         ELSE Loaded(SubSeq(b, Prefix + 1, Prefix + n), Drop(b, Prefix + n))
    [] t.kind \in {"list", "array"} ->
         IF Prefix > Len(b) THEN Refused ELSE LoadAll("cpp", Copies(t.elmt, n), Drop(b, Prefix))
    [] t.kind = "map" ->
         IF Prefix > Len(b) THEN Refused
         ELSE LET r == LoadAll("cpp", Pairs(t.key, t.elmt, n), Drop(b, Prefix))
              IN IF r.ok THEN Loaded(FirstWins(r.v), r.rest) ELSE Refused
    [] t.kind = "static_array" ->
         IF t.elmt.kind = "primitive" /\ CppWidth[t.elmt.name] * t.count > Len(b)
         THEN LoadAll("cpp", Copies(t.elmt, t.count), b \o Beyond)
         ELSE LoadAll("cpp", Copies(t.elmt, t.count), b)
    [] t.kind = "typedef" -> CppLoad(t.of, b)
    [] t.kind = "message" -> LoadAll("cpp", Fields(t), b)

CsLoad(t, b) ==
  LET n == Number(Prefix, b) IN
  CASE t.kind = "primitive" ->
         IF CsWidth[t.name] > Len(b) THEN Refused
         ELSE Loaded(Number(CsWidth[t.name], b), Drop(b, CsWidth[t.name]))
    [] t.kind = "enum" -> IF 4 > Len(b) THEN Refused
                           ELSE Loaded(Enumerator(CsEnum(t.numbers), n), Drop(b, 4))
    [] t.kind = "string" ->
         IF Prefix > Len(b) \/ n > Len(b) - Prefix THEN Refused
         ELSE Loaded(SubSeq(b, Prefix + 1, Prefix + n), Drop(b, Prefix + n))
    [] t.kind \in {"list", "array"} ->
         IF Prefix > Len(b) THEN Refused ELSE LoadAll("cs", Copies(t.elmt, n), Drop(b, Prefix))
    [] t.kind = "map" ->
         IF Prefix > Len(b) THEN Refused
         ELSE LET r == LoadAll("cs", Pairs(t.key, t.elmt, n), Drop(b, Prefix))
              IN IF r.ok THEN Loaded(LastWins(r.v), r.rest) ELSE Refused
    [] t.kind = "static_array" -> LoadAll("cs", Copies(t.elmt, t.count), b)
    [] t.kind = "typedef" -> CsLoad(t.of, b)
    [] t.kind = "message" -> LoadAll("cs", Fields(t), b)

(* A slice of a short buffer is short: only the unpack of a number raises.   *)
(* m[k] = v of a map that is not a member assigns to a name that was never   *)
(* bound, which raises too, even for the empty map when it is returned.      *)
PyLoad(t, b, member) ==
  LET n == Number(PyWidth["int32"], b) IN
  CASE t.kind = "primitive" ->
         IF PyWidth[t.name] > Len(b) THEN Refused
         ELSE Loaded(Number(PyWidth[t.name], b), Drop(b, PyWidth[t.name]))
    [] t.kind = "enum" -> IF Prefix > Len(b) THEN Refused
                           ELSE Loaded(Enumerator(PyEnum(t.numbers), n), Drop(b, 4))
    [] t.kind = "string" ->
         IF Prefix > Len(b) THEN Refused
         ELSE LET end == Min({Prefix + n, Len(b)})
              IN Loaded(SubSeq(b, Prefix + 1, end), Drop(b, end))
    [] t.kind \in {"list", "array"} ->
         IF Prefix > Len(b) THEN Refused ELSE LoadAll("py", Copies(t.elmt, n), Drop(b, Prefix))
    [] t.kind = "map" ->
         IF ~member \/ Prefix > Len(b) THEN Refused
         ELSE LET r == LoadAll("py", Pairs(t.key, t.elmt, n), Drop(b, Prefix))
              IN IF r.ok THEN Loaded(LastWins(r.v), r.rest) ELSE Refused
    [] t.kind = "static_array" -> LoadAll("py", Copies(t.elmt, t.count), b)
    [] t.kind = "typedef" -> PyLoad(t.of, b, FALSE)
    [] t.kind = "message" -> LoadAll("py members", Fields(t), b)

(* The loads of the types ts, one after the other, up to the first failure. *)
LoadAll(lang, ts, b) ==
  IF ts = <<>> THEN Loaded(<<>>, b)
  ELSE LET h == CASE lang = "cpp" -> CppLoad(Head(ts), b)
                  [] lang = "cs"  -> CsLoad(Head(ts), b)
                  [] OTHER        -> PyLoad(Head(ts), b, lang = "py members")
           r == LoadAll(lang, Tail(ts), h.rest)
       IN IF h.ok /\ r.ok THEN Loaded(<<h.v>> \o r.v, r.rest) ELSE Refused

-----------------------------------------------------------------------------
(* One message from a writer to a reader.  The .idl of each may be the      *)
(* older one, which lacks the last member.                                  *)
VARIABLES
  phase,        \* "new", "stored", "raised" (Store raised), "loaded"
  writer, reader,       \* the languages
  wold, rold,           \* whether the .idl of each is the older one
  wtype, rtype,         \* the message as each of them knows it
  value,        \* the writer's object
  wire, size,   \* the bytes, and Size() of the object
  got           \* what Load made of them
vars == <<phase, writer, reader, wold, rold, wtype, rtype, value, wire, size, got>>

Older(t) == IF Len(t.members) > 1 THEN Message(t.parent, Front(t.members)) ELSE t
Version(t, old) == IF old THEN Older(t) ELSE t

RECURSIVE Values(_), Products(_)
Products(sets) ==
  IF sets = <<>> THEN {<<>>}
  ELSE {<<x>> \o y : x \in Head(sets), y \in Products(Tail(sets))}
(* A few values of each type, the boundaries of a byte among them. *)
Values(t) ==
  CASE t.kind = "primitive" -> IF CppWidth[t.name] = 1 THEN {0, 255} ELSE {0, 258}
    [] t.kind = "enum"      -> DOMAIN t.numbers
    [] t.kind = "string"    -> {<<>>, <<7, 0>>}
    [] t.kind \in {"list", "array"} ->
         {<<>>} \union {<<x>> : x \in Values(t.elmt)} \union {<<x, x>> : x \in Values(t.elmt)}
    [] t.kind = "map"       -> UNION {[ks -> Values(t.elmt)] : ks \in SUBSET Values(t.key)}
    [] t.kind = "static_array" -> [1..t.count -> Values(t.elmt)]
    [] t.kind = "typedef"   -> Values(t.of)
    [] t.kind = "message"   -> Products([i \in DOMAIN Fields(t) |-> Values(Fields(t)[i])])

(* A member of type string of a C# object may be null. *)
Nulled(t, v) == [i \in DOMAIN v |-> IF Fields(t)[i].kind = "string" /\ v[i] = <<>> THEN Null ELSE v[i]]

Init ==
  /\ phase = "new" /\ wire = <<>> /\ size = 0 /\ got = Refused
  /\ wold \in BOOLEAN /\ rold \in BOOLEAN
  /\ \E m \in Messages : \E w, r \in DOMAIN m :
       /\ writer = w /\ wtype = Version(m[w], wold)
       /\ reader = r /\ rtype = Version(m[r], rold)
  /\ \E v \in Values(wtype) : value \in {v} \union (IF writer = "cs" THEN {Nulled(wtype, v)} ELSE {})

Store ==
  /\ phase = "new"
  /\ IF writer = "py" /\ ~PyStores(wtype, TRUE)
     THEN phase' = "raised" /\ UNCHANGED <<wire, size>>
     ELSE /\ phase' = "stored"
          /\ wire' = CASE writer = "cpp" -> CppStore(wtype, value)
                       [] writer = "cs"  -> CsStore(wtype, value)
                       [] writer = "py"  -> PyStore(wtype, value)
          /\ size' = CASE writer = "cpp" -> CppSize(wtype, value)
                       [] writer = "cs"  -> CsSize(wtype, value)
                       [] writer = "py"  -> Len(wire')     \* len(data)
  /\ UNCHANGED <<writer, reader, wold, rold, wtype, rtype, value, got>>

Load ==
  /\ phase = "stored"
  /\ phase' = "loaded"
  /\ got' = CASE reader = "cpp" -> CppLoad(rtype, wire)
              [] reader = "cs"  -> CsLoad(rtype, wire)
              [] reader = "py"  -> PyLoad(rtype, wire, FALSE)
  /\ UNCHANGED <<writer, reader, wold, rold, wtype, rtype, value, wire, size>>

Next == Store \/ Load
Spec == Init /\ [][Next]_vars

-----------------------------------------------------------------------------
Plain(v) == [i \in DOMAIN v |-> IF v[i] = Null THEN <<>> ELSE v[i]]

(* The generated Python cannot load a map that is not itself a member. *)
RECURSIVE InnerMap(_, _)
InnerMap(t, member) ==
  CASE t.kind = "map" -> ~member \/ InnerMap(t.key, FALSE) \/ InnerMap(t.elmt, FALSE)
    [] t.kind \in {"list", "array", "static_array"} -> InnerMap(t.elmt, FALSE)
    [] t.kind = "typedef" -> InnerMap(t.of, FALSE)
    [] t.kind = "message" -> \E i \in DOMAIN Fields(t) : InnerMap(Fields(t)[i], TRUE)
    [] OTHER -> FALSE

(* A message that one generated program stores is what another one loads,   *)
(* and nothing is left of it, whichever the two languages are; only the     *)
(* Python of a map inside another type always fails.                        *)
RoundTrip ==
  phase = "loaded" /\ wold = rold =>
    got = IF reader = "py" /\ InnerMap(rtype, FALSE) THEN Refused ELSE Loaded(Plain(value), <<>>)

(* Size(), which Packet::Write puts in the header before it stores, is the  *)
(* number of bytes that Store appends.                                      *)
SizeOfStored == phase \in {"stored", "loaded"} => size = Len(wire)

(* A reader whose .idl is one member newer refuses the message, so that the *)
(* handler answers with a format error instead of working on a member that  *)
(* was never sent; a reader one member older reads all it knows.  A C++     *)
(* reader cannot tell that a static array of numbers is missing.            *)
VersionsMeet ==
  phase = "loaded" /\ ~(reader = "py" /\ InnerMap(rtype, FALSE)) =>
    /\ Len(wtype.members) < Len(rtype.members)
         /\ ~(reader = "cpp" /\ Last(rtype.members).kind = "static_array") => ~got.ok
    /\ Len(wtype.members) > Len(rtype.members) => got.ok /\ got.v = Front(Plain(value))
=============================================================================
