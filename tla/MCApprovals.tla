---------------------------- MODULE MCApprovals ----------------------------
(***************************************************************************)
(* Small instances of module Approvals for TLC.                            *)
(***************************************************************************)
EXTENDS Approvals, TLC

CONSTANTS assign, reassign, escalate, comment, bogus, invalid, ticket, approver, ops

\* Five proposals about one ticket that VerifyProposal accepts, one of which (bogus)
\* names an assignee that does not exist, and one (invalid) that it refuses.
MCVerified == Proposals \ {invalid}
MCExecutable == Proposals \ {bogus}
MCActionType == [p \in Proposals |->
    CASE p = escalate -> "escalate_ticket"
      [] p = comment -> "add_ticket_comment"
      [] OTHER -> "assign_ticket"]
MCTarget == [p \in Proposals |-> ticket]

Symmetry == Permutations(Workers) \cup Permutations(Ids) \cup Permutations(Traces)
=============================================================================
