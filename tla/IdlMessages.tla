----------------------------- MODULE IdlMessages -----------------------------
(***************************************************************************)
(* The types of idlc, as the tokens its parser builds, and the messages of *)
(* the example server and of the routers, as the generated files that are  *)
(* kept beside the .idl have them: data.h and message.h compiled into the  *)
(* server, data.cs and message.cs copied into the Unity client, MsgRouter.h*)
(* at both ends of a router link.                                          *)
(***************************************************************************)
EXTENDS Integers, Sequences

Primitive(n)   == [kind |-> "primitive", name |-> n]
String         == [kind |-> "string"]
ListOf(e)      == [kind |-> "list", elmt |-> e]
ArrayOf(e)     == [kind |-> "array", elmt |-> e]
StaticOf(e, n) == [kind |-> "static_array", elmt |-> e, count |-> n]
MapOf(k, e)    == [kind |-> "map", key |-> k, elmt |-> e]
EnumOf(ns)     == [kind |-> "enum", numbers |-> ns]   \* NoNumber: no "= number" was written
Typedef(t)     == [kind |-> "typedef", of |-> t]
Message(p, ms) == [kind |-> "message", parent |-> p, members |-> ms]

NoNumber == -1

-----------------------------------------------------------------------------

CppErrorCode == EnumOf(<<0, 1000, 1001, 2000, 2001, 3000, 4000, 4001, 5000>>)
CppItemType  == EnumOf(<<NoNumber, NoNumber, NoNumber, NoNumber>>)
CppItemData  == Message(<<>>, <<String, CppItemType, Primitive("uint32")>>)
CppUserData  == Message(<<>>, <<String, Primitive("uint32"), ListOf(CppItemData)>>)
CppLogin_Req == Message(<<>>, <<String>>)
CppLogin_Ans == Message(<<>>, <<CppErrorCode, CppUserData>>)
CppKickout_Ntf    == Message(<<>>, <<CppErrorCode>>)
CppHeartBeat_Ntf  == Message(<<>>, <<Primitive("uint32")>>)
CppHeartBeat_Ans  == Message(<<>>, <<Primitive("uint32")>>)

CsErrorCode  == EnumOf(<<0, 1000, 1001, 2000, 2001, 3000, 4000, 4001, 5000>>)
CsItemType   == EnumOf(<<NoNumber, NoNumber, NoNumber, NoNumber>>)
CsItemData   == Message(<<>>, <<String, CsItemType, Primitive("uint32")>>)
CsUserData   == Message(<<>>, <<String, Primitive("uint32"), ListOf(CsItemData)>>)
CsLogin_Req  == Message(<<>>, <<String>>)
CsLogin_Ans  == Message(<<>>, <<CsErrorCode, CsUserData>>)
CsKickout_Ntf     == Message(<<>>, <<CsErrorCode>>)
CsHeartBeat_Ntf   == Message(<<>>, <<Primitive("uint32")>>)
CsHeartBeat_Ans   == Message(<<>>, <<Primitive("uint32")>>)

ROUTER_CAST_TYPE == EnumOf(<<NoNumber, NoNumber, NoNumber, NoNumber>>)
Address == Message(<<>>, <<String, ROUTER_CAST_TYPE, Primitive("uint32"), Primitive("uint64")>>)
MsgRouter_SetAddress_Req == Message(<<>>, <<Address>>)
MsgRouter_SetAddress_Ans == Message(<<>>, <<Primitive("int32"), Address>>)
MsgRouter_SetAddress_Ntf == Message(<<>>, <<>>)
MsgRouter_SendMsg_Ntf    == Message(<<>>, <<Primitive("uint32"), String>>)
MsgRouter_HeartBeat_Ntf  == Message(<<>>, <<>>)

(* Which type each of the two ends of a connection has for a message. *)
Between(cpp, cs) == [l \in {"cpp", "cs"} |-> IF l = "cpp" THEN cpp ELSE cs]
Routers(t) == [l \in {"cpp"} |-> t]
ExampleMessages ==
  { Between(CppLogin_Req, CsLogin_Req), Between(CppLogin_Ans, CsLogin_Ans),
    Between(CppKickout_Ntf, CsKickout_Ntf), Between(CppHeartBeat_Ntf, CsHeartBeat_Ntf),
    Between(CppHeartBeat_Ans, CsHeartBeat_Ans) }
RouterMessages ==
  { Routers(MsgRouter_SetAddress_Req), Routers(MsgRouter_SetAddress_Ans),
    Routers(MsgRouter_SetAddress_Ntf), Routers(MsgRouter_SendMsg_Ntf),
    Routers(MsgRouter_HeartBeat_Ntf) }

(* The types that idlc/example.idl declares, in messages of few members. *)
Everywhere(t) == [l \in {"cpp", "cs", "py"} |-> t]
Small == Message(<<>>, <<Primitive("byte"), String>>)
Test2 == EnumOf(<<100, NoNumber, 268435455>>)
IdlExample ==
  { Message(<<>>, <<String, Test2, Primitive("int64"), Primitive("boolean")>>),
    Message(<<>>, <<Primitive("uint16"), MapOf(Primitive("int32"), String)>>),
    Message(<<Small>>, <<ListOf(Test2), ArrayOf(String)>>),
    Message(<<>>, <<String, ListOf(Small)>>),
    Message(<<>>, <<Primitive("ubyte"), StaticOf(Primitive("int16"), 2)>>),
    Message(<<>>, <<StaticOf(Small, 2), Primitive("float")>>),
    Message(<<>>, <<Typedef(ArrayOf(Typedef(ArrayOf(Primitive("int16"))))), Primitive("double")>>),
    Message(<<>>, <<Primitive("byte"), Typedef(MapOf(String, Typedef(MapOf(Primitive("int32"), String))))>>) }
AllMessages == {Everywhere(t) : t \in IdlExample} \union ExampleMessages \union RouterMessages
=============================================================================
