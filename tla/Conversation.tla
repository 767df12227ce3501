---------------------------- MODULE Conversation ----------------------------
(***************************************************************************)
(* What a chat service promises about a conversation, whatever the runtime *)
(* behind it: a message that was recorded stays recorded, it is answered   *)
(* once at most and never before it was asked, and what is proposed on its *)
(* behalf is proposed once and while it is still open.  A turn may also    *)
(* appear at once, question, proposal and answer together.                 *)
(***************************************************************************)

CONSTANT Chats   \* the requests of a conversation

VARIABLES
    asked,     \* chats whose message is recorded
    answered,  \* chats whose answer is recorded
    proposed   \* chats on whose behalf a proposal is recorded

conversation == <<asked, answered, proposed>>

Empty ==
    /\ asked = {}
    /\ answered = {}
    /\ proposed = {}

Question(c) ==
    /\ c \notin asked
    /\ asked' = asked \cup {c}
    /\ UNCHANGED <<answered, proposed>>

Proposal(c) ==
    /\ c \in asked \ answered
    /\ c \notin proposed
    /\ proposed' = proposed \cup {c}
    /\ UNCHANGED <<asked, answered>>

Reply(c) ==
    /\ c \in asked \ answered
    /\ answered' = answered \cup {c}
    /\ UNCHANGED <<asked, proposed>>

WholeTurn(c) ==
    /\ c \notin asked
    /\ asked' = asked \cup {c}
    /\ answered' = answered \cup {c}
    /\ proposed' \in {proposed, proposed \cup {c}}

Step == \E c \in Chats : Question(c) \/ Proposal(c) \/ Reply(c) \/ WholeTurn(c)

Spec == Empty /\ [][Step]_conversation

=============================================================================
