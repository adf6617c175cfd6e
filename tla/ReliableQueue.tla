---------------------------- MODULE ReliableQueue ----------------------------
(***************************************************************************)
(* What a client of a Tcp session is promised for the messages it sends    *)
(* as reliable: the server handles each once and in order, whatever        *)
(* happens to the connections.                                             *)
(***************************************************************************)
EXTENDS Naturals, Sequences

CONSTANT Messages \* what identifies a message: its msg_seq

VARIABLES
    sent,   \* reliable messages in the order of the SendMsg calls
    handled \* those the session's handlers have seen, in order

Init == sent = <<>> /\ handled = <<>>

Send == /\ \E m \in Messages : sent' = Append(sent, m)
        /\ UNCHANGED handled

Handle == /\ Len(handled) < Len(sent)
          /\ handled' = Append(handled, sent[Len(handled) + 1])
          /\ UNCHANGED sent

Spec == Init /\ [][Send \/ Handle]_<<sent, handled>>
=============================================================================
