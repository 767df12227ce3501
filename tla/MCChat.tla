------------------------------- MODULE MCChat -------------------------------
(***************************************************************************)
(* A small instance of module Chat for TLC: three chats of one session, of *)
(* which one names a ticket and proposes a write and one only names a      *)
(* ticket, two of them in flight at the same time.                         *)
(***************************************************************************)
EXTENDS Chat

CONSTANTS a, b, c

MCChats == {a, b, c}
MCMentioning == {a, b}
MCWriting == {a}
MCKeys == {"memory", "summary"}
MCModes == {"go", "langgraph"}
=============================================================================
