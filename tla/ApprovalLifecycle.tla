------------------------- MODULE ApprovalLifecycle -------------------------
(***************************************************************************)
(* What the approval service promises its clients, with every request      *)
(* atomic: a proposal is recorded once per idempotency key, and a pending  *)
(* proposal is either executed, together with its one business effect, or  *)
(* rejected without one.  No request, transaction, version or lock appears *)
(* here; module Approvals shows how the code keeps the promise.            *)
(***************************************************************************)
EXTENDS Naturals

CONSTANTS
    Ids,        \* primary keys of the table approvals
    Proposals,  \* what can be proposed: session, user, action, payload, reason
    Traces,     \* trace ids of the requests
    None        \* the null value

VARIABLES
    status,     \* status[i]: "absent" or the status of approval i
    key,        \* key[i]: the idempotency key approval i was recorded under
    done        \* done[i]: business effects carried out for approval i

avars == <<status, key, done>>

BaseKey(p) == [base |-> p, retry |-> None]
RetryKeys(p) == {[base |-> p, retry |-> t] : t \in Traces}

Taken(k) == \E i \in Ids : status[i] # "absent" /\ key[i] = k

\* A proposal may be recorded again, under a key of its own, only once the
\* approval holding its base key has been rejected.
Refused(p) == \E i \in Ids : status[i] = "rejected" /\ key[i] = BaseKey(p)

AInit ==
    /\ status = [i \in Ids |-> "absent"]
    /\ key = [i \in Ids |-> None]
    /\ done = [i \in Ids |-> 0]

Propose(i) ==
    /\ status[i] = "absent"
    /\ \E p \in Proposals :
        \E k \in {BaseKey(p)} \cup RetryKeys(p) :
            /\ ~ Taken(k)
            /\ k \in RetryKeys(p) => Refused(p)
            /\ key' = [key EXCEPT ![i] = k]
    /\ status' = [status EXCEPT ![i] = "pending"]
    /\ UNCHANGED done

Execute(i) ==
    /\ status[i] = "pending"
    /\ status' = [status EXCEPT ![i] = "executed"]
    /\ done' = [done EXCEPT ![i] = @ + 1]
    /\ UNCHANGED key

Reject(i) ==
    /\ status[i] = "pending"
    /\ status' = [status EXCEPT ![i] = "rejected"]
    /\ UNCHANGED <<key, done>>

ANext == \E i \in Ids : Propose(i) \/ Execute(i) \/ Reject(i)

ASpec == AInit /\ [][ANext]_avars
=============================================================================
