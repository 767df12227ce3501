----------------------------- MODULE Approvals -----------------------------
(***************************************************************************)
(* The approval service of the Go backend: proposals are recorded, then    *)
(* approved (and executed) or rejected, by concurrent HTTP requests that   *)
(* each run in one database transaction (http.go withTx).                  *)
(*                                                                         *)
(* A request is a worker that steps through its handler one SQL statement  *)
(* at a time.  Its reads see the snapshot of its transaction, its writes   *)
(* stay in its working copy until Commit, a row it has written is locked   *)
(* until its transaction ends, and an UPDATE or a UNIQUE constraint is     *)
(* evaluated on the committed rows.  The database is external: MySQL under *)
(* REPEATABLE READ (docker-compose.yml) and SQLite in WAL mode (db.go)     *)
(* differ only in operator MayWrite.                                       *)
(***************************************************************************)
EXTENDS Naturals, FiniteSets

CONSTANTS
    Engine,        \* "mysql" or "sqlite"
    Workers,       \* requests in flight at the same time
    Ids,           \* primary keys of the table approvals
    Proposals,     \* session, user, action, target, payload and reason of a proposal
    Verified,      \* the proposals VerifyProposal accepts
    Executable,    \* the proposals whose assignee, if any, exists
    ActionType,    \* ActionType[p]: the action a proposal asks for
    Target,        \* Target[p]: the ticket it is about
    Tickets,
    Traces,        \* trace ids of the requests
    Users,
    Approvers,     \* the users whose role is in approverRoles
    MaxClock,      \* bound: the clock is followed for this many seconds
    MaxRequests,   \* bound: requests issued in one behaviour
    None           \* the null value

ActionTypes == {"assign_ticket", "escalate_ticket", "add_ticket_comment"}

ASSUME ConstantsAssumption ==
    /\ Engine \in {"mysql", "sqlite"}
    /\ Verified \subseteq Proposals
    /\ Executable \subseteq Proposals
    /\ ActionType \in [Proposals -> ActionTypes]
    /\ Target \in [Proposals -> Tickets]
    /\ Approvers \subseteq Users
    /\ MaxClock \in Nat
    /\ MaxRequests \in Nat
    /\ None \notin Ids \cup Traces \cup Users

VARIABLES
    approvals,  \* the committed rows of the table approvals
    effects,    \* effects[i]: committed business writes and ticket_actions of approval i
    tickets,    \* tickets[t][c]: the approval that last wrote column c of ticket t
    audit,      \* committed audit_logs, as <<event, approval>> pairs
    clock,      \* the wall clock, in seconds
    issued,     \* requests issued so far
    pc,         \* pc[w]: the statement worker w is about to execute
    req,        \* req[w]: its request
    snap,       \* snap[w]: the snapshot its transaction reads
    work,       \* work[w]: the Approval it holds in memory and its uncommitted writes
    told,       \* history: the 200 answers written so far, as <<approval, status>> pairs
    lost        \* history: those of them whose Commit then failed

db == <<approvals, effects, tickets, audit>>
history == <<told, lost>>
vars == <<approvals, effects, tickets, audit, clock, issued,
          pc, req, snap, work, told, lost>>
-----------------------------------------------------------------------------
(* Rows, requests and working copies.                                      *)

Statuses == {"pending", "approved", "rejected", "executed", "execution_failed"}

\* Mutation: a pending approval does not answer a repeated proposal.
ActiveOrCompletedNoPending == {"approved", "executed"}

\* The map activeOrCompletedApprovalStatuses.
ActiveOrCompleted == {"pending", "approved", "executed"}

\* Mutation: a rejected approval can still be approved.
TransitionsReopened ==
    {<<"pending", "approved">>, <<"pending", "rejected">>, <<"rejected", "approved">>,
     <<"approved", "executed">>, <<"approved", "execution_failed">>}

\* The map approvalAllowedTransitions.
AllowedTransitions ==
    {<<"pending", "approved">>, <<"pending", "rejected">>,
     <<"approved", "executed">>, <<"approved", "execution_failed">>}

\* An idempotency key is a hash of the proposal, and of the trace for a retry.
Keys == [base : Proposals, retry : Traces \cup {None}]
BaseKey(p) == [base |-> p, retry |-> None]
RetryKey(p, t) == [base |-> p, retry |-> t]

Row == [no : Nat, key : Keys \cup {None}, status : Statuses \cup {"absent"},
        version : Nat, by : Users \cup {None}]
NoRow == [no |-> 0, key |-> None, status |-> "absent", version |-> 0, by |-> None]

\* An approval number names the second in which it was generated.
NewRow(k, no) == [no |-> no, key |-> k, status |-> "pending", version |-> 1, by |-> None]

Requests ==
    [kind : {"create"}, prop : Proposals, trace : Traces]
        \cup [kind : {"approve", "reject"}, no : 1 .. MaxClock, user : Users]

\* The column of the ticket an action overwrites; a comment is a row of its own.
Columns == {"assignee", "priority"}
Column(p) == IF ActionType[p] = "assign_ticket" THEN "assignee" ELSE "priority"
Overwrites(p) == ActionType[p] # "add_ticket_comment"

Events == {"proposal_created", "approval_approved", "approval_rejected",
           "write_executed", "write_execution_failed"}

Work == [id : Ids \cup {None}, row : Row, dirty : BOOLEAN, wrote : BOOLEAN,
         recorded : BOOLEAN, old : Ids \cup {None}, events : SUBSET Events]

\* Mutation: the id column is not scanned.
LoadedWithoutId(i, r) == [id |-> None, row |-> r, dirty |-> FALSE, wrote |-> FALSE,
                          recorded |-> FALSE, old |-> None, events |-> {}]

\* A row read or built in memory, and nothing written yet.
Loaded(i, r) == [id |-> i, row |-> r, dirty |-> FALSE, wrote |-> FALSE,
                 recorded |-> FALSE, old |-> None, events |-> {}]
NoWork == Loaded(None, NoRow)

Effect == [writes : Nat, actions : Nat, old : Ids \cup {None}]
NoEffect == [writes |-> 0, actions |-> 0, old |-> None]

Snapshot == [approvals : [Ids -> Row], tickets : [Tickets -> [Columns -> Ids \cup {None}]]]

Present(rows) == {i \in Ids : rows[i].status # "absent"}
WithKey(rows, k) == {i \in Present(rows) : rows[i].key = k}
WithNo(rows, no) == {i \in Present(rows) : rows[i].no = no}

\* The last committed state, as the first statement of a transaction finds it.
Committed == [approvals |-> approvals, tickets |-> tickets]
-----------------------------------------------------------------------------
(* The database: locks, constraints and what a statement may do.           *)

Others(w) == Workers \ {w}

\* Another transaction has written approval i and not ended yet.
RowLocked(w, i) == \E v \in Others(w) : work[v].dirty /\ work[v].id = i

ProposalOf(w) == work[w].row.key.base

TicketLocked(w) ==
    \E v \in Others(w) :
        /\ work[v].wrote
        /\ Overwrites(ProposalOf(v))
        /\ Target[ProposalOf(v)] = Target[ProposalOf(w)]

\* A SQLite transaction may write only while it is the single writer and nothing
\* was committed since it took its snapshot.
MayWrite(w) ==
    Engine = "sqlite" =>
        /\ \A v \in Others(w) : ~ work[v].dirty
        /\ snap[w] = Committed

BusySnapshot(w) == Engine = "sqlite" /\ snap[w] # Committed

\* UNIQUE (approval_no) and UNIQUE (idempotency_key).
Clash(r1, r2) == r1.no = r2.no \/ r1.key = r2.key
\* Mutation: the idempotency key has no UNIQUE index.
DuplicateNumber(w) == \E i \in Present(approvals) : approvals[i].no = work[w].row.no
Duplicate(w) == \E i \in Present(approvals) : Clash(approvals[i], work[w].row)
PendingDuplicate(w) ==
    \E v \in Others(w) :
        /\ work[v].dirty
        /\ approvals[work[v].id].status = "absent"
        /\ Clash(work[v].row, work[w].row)

\* Mutation: the UPDATE does not ask for the version.
UpdateUnversioned(w) == TRUE

\* WHERE id = ? AND version = ?, on the committed row.
UpdateMatches(w) == approvals[work[w].id].version = work[w].row.version

\* UpdateWithVersion increments the version, in the row and in memory.
Saved(r) == [r EXCEPT !.version = @ + 1]

\* LogEvent errors are ignored: the event is recorded or it is not.
Logged(event) == {{}, {event}}

Goto(w, l) == pc' = [pc EXCEPT ![w] = l]
Hold(w, x) == work' = [work EXCEPT ![w] = x]
Fail(w) == Goto(w, "rollback") /\ UNCHANGED work
-----------------------------------------------------------------------------
(* Any request: the transaction begins with the read of the user.          *)

Unchanged == UNCHANGED <<db, clock, issued, req, snap, history>>

Tick ==
    /\ clock < MaxClock
    /\ clock' = clock + 1
    /\ UNCHANGED <<db, issued, pc, req, snap, work, history>>

Start(w) ==
    /\ pc[w] = "idle"
    /\ issued < MaxRequests
    /\ issued' = issued + 1
    /\ \E r \in Requests :
        /\ r.kind # "create" => r.no <= clock
        /\ req' = [req EXCEPT ![w] = r]
    /\ snap' = [snap EXCEPT ![w] = Committed]
    /\ Goto(w, "started")
    /\ UNCHANGED <<db, clock, work, history>>
-----------------------------------------------------------------------------
(* CreateProposal.                                                         *)

Creating(w) == pc[w] = "started" /\ req[w].kind = "create"

\* The approvals recorded under the base key of the proposal.
Existing(w) == WithKey(snap[w].approvals, BaseKey(req[w].prop))
Reusable(w) == {i \in Existing(w) : snap[w].approvals[i].status \in ActiveOrCompleted}

\* VerifyProposal fails.
RefuseProposal(w) ==
    /\ Creating(w)
    /\ req[w].prop \notin Verified
    /\ Fail(w)
    /\ Unchanged

\* The existing approval is answered; event proposal_reused is not followed.
ReuseProposal(w) ==
    /\ Creating(w)
    /\ req[w].prop \in Verified
    /\ \E i \in Reusable(w) :
        Hold(w, Loaded(i, snap[w].approvals[i]))
    /\ Goto(w, "reply")
    /\ Unchanged

\* No approval, or none but a rejected one: a new row, under a retry key then.
PrepareProposal(w) ==
    /\ Creating(w)
    /\ req[w].prop \in Verified
    /\ Reusable(w) = {}
    /\ LET k == IF Existing(w) = {} THEN BaseKey(req[w].prop)
                ELSE RetryKey(req[w].prop, req[w].trace)
       IN  Hold(w, Loaded(None, NewRow(k, clock)))
    /\ Goto(w, "insert")
    /\ Unchanged

InsertRow(w) ==
    /\ pc[w] = "insert"
    /\ MayWrite(w)
    /\ ~ PendingDuplicate(w)
    /\ ~ Duplicate(w)
    /\ \E i \in Ids \ Present(approvals) :
        \E logged \in Logged("proposal_created") :
            /\ ~ RowLocked(w, i)
            /\ Hold(w, [work[w] EXCEPT !.id = i, !.dirty = TRUE, !.events = logged])
    /\ Goto(w, "reply")
    /\ Unchanged

\* After a failed INSERT the key is looked up again, in the snapshot the transaction
\* already has, and what is found is answered.
LookUpAgain(w) ==
    LET found == WithKey(snap[w].approvals, work[w].row.key)
    IN  \/ found = {} /\ Fail(w)
        \/ /\ \E i \in found : Hold(w, Loaded(i, snap[w].approvals[i]))
           /\ Goto(w, "reply")

InsertDuplicate(w) ==
    /\ pc[w] = "insert"
    /\ MayWrite(w)
    /\ ~ PendingDuplicate(w)
    /\ Duplicate(w)
    /\ LookUpAgain(w)
    /\ Unchanged
-----------------------------------------------------------------------------
(* Approve and Reject: from the snapshot to the first UPDATE.              *)

Deciding(w) == pc[w] = "started" /\ req[w].kind \in {"approve", "reject"}
NextStatus(w) == IF req[w].kind = "approve" THEN "approved" ELSE "rejected"
Named(w) == WithNo(snap[w].approvals, req[w].no)
MayDecide(w) == req[w].user \in Approvers

\* The status in which a repeated request is answered as the first one was.
Settled(w) == IF req[w].kind = "approve" THEN "executed" ELSE "rejected"

\* No permission, no such approval, or one that another decision has closed.
RefuseDecision(w) ==
    /\ Deciding(w)
    /\ MayDecide(w) =>
        \A i \in Named(w) :
            LET s == snap[w].approvals[i].status
            IN  s # Settled(w) /\ <<s, NextStatus(w)>> \notin AllowedTransitions
    /\ Fail(w)
    /\ Unchanged

RepeatDecision(w) ==
    /\ Deciding(w)
    /\ MayDecide(w)
    /\ \E i \in Named(w) :
        /\ snap[w].approvals[i].status = Settled(w)
        /\ Hold(w, Loaded(i, snap[w].approvals[i]))
    /\ Goto(w, "reply")
    /\ Unchanged

\* Mutation: the ticket is written before the approval is marked.
DecideWritesFirst(w) ==
    /\ Deciding(w)
    /\ MayDecide(w)
    /\ \E i \in Named(w) :
        LET r == snap[w].approvals[i]
        IN  /\ <<r.status, NextStatus(w)>> \in AllowedTransitions
            /\ Hold(w, [Loaded(i, [r EXCEPT !.status = NextStatus(w), !.by = req[w].user])
                            EXCEPT !.wrote = TRUE])
    /\ Goto(w, "mark")
    /\ Unchanged

\* The transition is made on the row in memory, which keeps the version it has read.
Decide(w) ==
    /\ Deciding(w)
    /\ MayDecide(w)
    /\ \E i \in Named(w) :
        LET r == snap[w].approvals[i]
        IN  /\ <<r.status, NextStatus(w)>> \in AllowedTransitions
            /\ Hold(w, Loaded(i, [r EXCEPT !.status = NextStatus(w), !.by = req[w].user]))
    /\ Goto(w, "mark")
    /\ Unchanged

\* UpdateWithVersion finds the version it expects.
Mark(w) ==
    /\ pc[w] = "mark"
    /\ MayWrite(w)
    /\ ~ RowLocked(w, work[w].id)
    /\ UpdateMatches(w)
    /\ \E logged \in Logged(IF req[w].kind = "approve" THEN "approval_approved"
                            ELSE "approval_rejected") :
        Hold(w, [work[w] EXCEPT !.dirty = TRUE, !.events = logged, !.row = Saved(@)])
    /\ Goto(w, IF req[w].kind = "approve" THEN "execute" ELSE "reply")
    /\ Unchanged

\* Mutation: the number of rows affected is not looked at.
MarkConflictIgnored(w) ==
    /\ pc[w] = "mark"
    /\ MayWrite(w)
    /\ ~ RowLocked(w, work[w].id)
    /\ ~ UpdateMatches(w)
    /\ Goto(w, "reply")
    /\ Unchanged
    /\ UNCHANGED work

\* UpdateWithVersion changes no row.
MarkConflict(w) ==
    /\ pc[w] = "mark"
    /\ MayWrite(w)
    /\ ~ RowLocked(w, work[w].id)
    /\ ~ UpdateMatches(w)
    /\ Fail(w)
    /\ Unchanged
-----------------------------------------------------------------------------
(* executeApprovedAction and the rest of Approve.                          *)

\* GetByDisplayName finds no such assignee.
ExecuteInvalid(w) ==
    /\ pc[w] = "execute"
    /\ ProposalOf(w) \notin Executable
    /\ Goto(w, "failed")
    /\ Unchanged
    /\ UNCHANGED work

\* Mutation: the old value is read back after the UPDATE.
ExecuteWriteThenRead(w) ==
    /\ pc[w] = "execute"
    /\ ProposalOf(w) \in Executable
    /\ Overwrites(ProposalOf(w)) => ~ TicketLocked(w)
    /\ Hold(w, [work[w] EXCEPT !.wrote = TRUE, !.old = work[w].id])
    /\ Goto(w, "record")
    /\ Unchanged

\* The ticket is read in the snapshot, then overwritten (or a comment added).
ExecuteWrite(w) ==
    /\ pc[w] = "execute"
    /\ ProposalOf(w) \in Executable
    /\ Overwrites(ProposalOf(w)) => ~ TicketLocked(w)
    /\ LET p == ProposalOf(w)
           old == IF Overwrites(p) THEN snap[w].tickets[Target[p]][Column(p)] ELSE None
       IN  Hold(w, [work[w] EXCEPT !.wrote = TRUE, !.old = old])
    /\ Goto(w, "record")
    /\ Unchanged

\* INSERT INTO ticket_actions, under UNIQUE (approval_id).
RecordAction(w) ==
    /\ pc[w] = "record"
    /\ LET unique == effects[work[w].id].actions = 0
       IN  /\ Hold(w, [work[w] EXCEPT !.recorded = unique])
           /\ Goto(w, IF unique THEN "finish" ELSE "failed")
    /\ Unchanged

\* Its own row is locked, so the second UPDATE always matches.
Close(w, s, event, l) ==
    /\ <<work[w].row.status, s>> \in AllowedTransitions
    /\ \E logged \in Logged(event) :
        Hold(w, [work[w] EXCEPT !.row = Saved([@ EXCEPT !.status = s]),
                                !.events = @ \cup logged])
    /\ Goto(w, l)
    /\ Unchanged

Finish(w) == pc[w] = "finish" /\ Close(w, "executed", "write_executed", "reply")

\* Mutation: the failed execution is answered, and so committed.
FinishFailedAnswered(w) ==
    pc[w] = "failed" /\ Close(w, "execution_failed", "write_execution_failed", "reply")

\* The failure is written to the row, and then returned as the error of the handler.
FinishFailed(w) ==
    pc[w] = "failed" /\ Close(w, "execution_failed", "write_execution_failed", "rollback")
-----------------------------------------------------------------------------
(* withTx: the answer is written first, then the transaction is committed. *)

Answer(w) == <<work[w].id, work[w].row.status>>

Reply(w) ==
    /\ pc[w] = "reply"
    /\ told' = told \cup {Answer(w)}
    /\ Goto(w, "commit")
    /\ UNCHANGED <<db, clock, issued, req, snap, work, lost>>

\* The transaction is over: nothing is locked and nothing is remembered.
Release(w) ==
    /\ Goto(w, "idle")
    /\ req' = [req EXCEPT ![w] = None]
    /\ snap' = [snap EXCEPT ![w] = None]
    /\ Hold(w, NoWork)
    /\ UNCHANGED <<clock, issued, told>>

One(b) == IF b THEN 1 ELSE 0

\* The uncommitted writes of w become the committed state.
Publish(w) ==
    LET i == work[w].id
        p == ProposalOf(w)
    IN  /\ approvals' = [approvals EXCEPT ![i] = work[w].row]
        /\ effects' = [effects EXCEPT ![i] =
               [writes |-> @.writes + One(work[w].wrote),
                actions |-> @.actions + One(work[w].recorded),
                old |-> IF work[w].recorded THEN work[w].old ELSE @.old]]
        /\ tickets' = IF work[w].wrote /\ Overwrites(p)
                      THEN [tickets EXCEPT ![Target[p]][Column(p)] = i]
                      ELSE tickets
        /\ audit' = audit \cup {<<e, i>> : e \in work[w].events}

Commit(w) ==
    /\ pc[w] = "commit"
    /\ IF work[w].dirty THEN Publish(w) ELSE UNCHANGED db
    /\ Release(w)
    /\ UNCHANGED lost

\* COMMIT fails, or the server dies before it: the answer is already written.
CommitFails(w) ==
    /\ pc[w] = "commit"
    /\ lost' = IF work[w].dirty THEN lost \cup {Answer(w)} ELSE lost
    /\ Release(w)
    /\ UNCHANGED db

\* Mutation: audit events are written outside the transaction.
RollbackKeepsAudit(w) ==
    /\ pc[w] = "rollback"
    /\ audit' = audit \cup {<<e, work[w].id>> : e \in work[w].events}
    /\ Release(w)
    /\ UNCHANGED <<approvals, effects, tickets, lost>>

\* Mutation: the transaction is not rolled back, its locks stay.
RollbackForgotten(w) ==
    /\ pc[w] = "rollback"
    /\ Goto(w, "idle")
    /\ req' = [req EXCEPT ![w] = None]
    /\ UNCHANGED <<db, clock, issued, snap, work, history>>

\* The deferred tx.Rollback.
Rollback(w) ==
    /\ pc[w] = "rollback"
    /\ Release(w)
    /\ UNCHANGED <<db, lost>>

\* SQLITE_BUSY: the snapshot is too old to write on.
AbortBusy(w) ==
    /\ BusySnapshot(w)
    /\ \/ pc[w] = "insert" /\ LookUpAgain(w)
       \/ pc[w] = "mark" /\ Fail(w)
    /\ Unchanged

\* A read or an UPDATE fails, the client is gone and its context cancelled, or the
\* server dies.
Abort(w) ==
    /\ pc[w] \notin {"idle", "commit", "rollback"}
    /\ Fail(w)
    /\ Unchanged

\* The INSERT of an approval fails for a reason of its own.
InsertErrs(w) ==
    /\ pc[w] = "insert"
    /\ LookUpAgain(w)
    /\ Unchanged

\* A statement of executeApprovedAction fails for a reason of its own.
ExecuteErrs(w) ==
    /\ pc[w] \in {"execute", "record"}
    /\ Goto(w, "failed")
    /\ Unchanged
    /\ UNCHANGED work
-----------------------------------------------------------------------------
Init ==
    /\ approvals = [i \in Ids |-> NoRow]
    /\ effects = [i \in Ids |-> NoEffect]
    /\ tickets = [t \in Tickets |-> [c \in Columns |-> None]]
    /\ audit = {}
    /\ clock = 1
    /\ issued = 0
    /\ pc = [w \in Workers |-> "idle"]
    /\ req = [w \in Workers |-> None]
    /\ snap = [w \in Workers |-> None]
    /\ work = [w \in Workers |-> NoWork]
    /\ told = {}
    /\ lost = {}

\* What the handler of w does on its own.
Create(w) ==
    \/ RefuseProposal(w) \/ ReuseProposal(w) \/ PrepareProposal(w)
    \/ InsertRow(w) \/ InsertDuplicate(w)
DecideRequest(w) ==
    \/ RefuseDecision(w) \/ RepeatDecision(w) \/ Decide(w)
    \/ Mark(w) \/ MarkConflict(w)
    \/ ExecuteInvalid(w) \/ ExecuteWrite(w) \/ RecordAction(w)
    \/ Finish(w) \/ FinishFailed(w)
EndTx(w) == Reply(w) \/ Commit(w) \/ Rollback(w) \/ AbortBusy(w)
Handle(w) == Create(w) \/ DecideRequest(w) \/ EndTx(w)

\* What may go wrong at any time.
Break(w) == Abort(w) \/ InsertErrs(w) \/ ExecuteErrs(w) \/ CommitFails(w)

\* Every request issued has ended.
Done ==
    /\ issued = MaxRequests
    /\ \A w \in Workers : pc[w] = "idle"
    /\ UNCHANGED vars

Next ==
    \/ Tick
    \/ \E w \in Workers : Start(w) \/ Handle(w) \/ Break(w)
    \/ Done

Spec == Init /\ [][Next]_vars

\* Go runs every handler: a statement that can be executed is.
FairSpec == Spec /\ \A w \in Workers : WF_vars(Handle(w))
-----------------------------------------------------------------------------
(* Properties.                                                             *)

PCs == {"idle", "started", "insert", "mark", "execute", "record", "finish",
        "failed", "reply", "commit", "rollback"}

\* Every variable has its type, and a worker that has written a row knows its id
\* (repository_approval.go Create fills it in from LastInsertId).
TypeOK ==
    /\ approvals \in [Ids -> Row]
    /\ effects \in [Ids -> Effect]
    /\ tickets \in [Tickets -> [Columns -> Ids \cup {None}]]
    /\ audit \subseteq Events \X Ids
    /\ clock \in Nat
    /\ issued \in Nat
    /\ pc \in [Workers -> PCs]
    /\ req \in [Workers -> Requests \cup {None}]
    /\ snap \in [Workers -> Snapshot \cup {None}]
    /\ work \in [Workers -> Work]
    /\ told \subseteq Ids \X Statuses
    /\ lost \subseteq Ids \X Statuses
    /\ \A w \in Workers : work[w].dirty => work[w].id \in Ids

\* An approval has its business effect exactly once when it is executed, and never
\* otherwise, however approvals, rejections, repeats and failures interleave
\* (approval.go Approve, schema.go UNIQUE approval_id).
ExactlyOnce ==
    \A i \in Ids :
        LET n == IF approvals[i].status = "executed" THEN 1 ELSE 0
        IN  effects[i].writes = n /\ effects[i].actions = n

\* The version counts the transitions of a committed row, and a transaction commits
\* all of its transitions or none: "approved" and "execution_failed" never show
\* (http.go withTx, repository_approval.go UpdateWithVersion).
WholeDecisions ==
    \A i \in Ids :
        <<approvals[i].status, approvals[i].version>> \in
            {<<"absent", 0>>, <<"pending", 1>>, <<"rejected", 2>>, <<"executed", 3>>}

\* A decision is final: no later request changes an executed or a rejected row,
\* nor what its execution left behind (approval.go Approve, Reject).
DecisionsFinal ==
    [][\A i \in Ids :
        approvals[i].status \in {"executed", "rejected"} =>
            approvals'[i] = approvals[i] /\ effects'[i] = effects[i]]_vars

\* An idempotency key and an approval number name one approval each, and a proposal is
\* recorded again only after the approval under its base key was rejected
\* (approval.go CreateProposal, schema.go UNIQUE).
KeysIdentify ==
    \A i, j \in Present(approvals) :
        /\ i # j => ~ Clash(approvals[i], approvals[j])
        /\ approvals[i].key.retry # None =>
            \E b \in WithKey(approvals, BaseKey(approvals[i].key.base)) :
                approvals[b].status = "rejected"

\* Whatever a client was told in a 200 is so, unless the COMMIT that came after the
\* answer has failed or has yet to come (http.go withTx writes the answer first).
AnswersHold ==
    \A a \in told \ lost :
        \/ \E w \in Workers : pc[w] = "commit" /\ work[w].dirty /\ Answer(w) = a
        \/ IF a[2] = "pending" THEN approvals[a[1]].status # "absent"
           ELSE approvals[a[1]].status = a[2]

\* The audit log never tells of a decision or a proposal that is not there: events
\* share the fate of the transaction they report (approval.go LogEvent calls).
AuditTruthful ==
    /\ \A i \in Ids :
        /\ <<"proposal_created", i>> \in audit => approvals[i].status # "absent"
        /\ <<"approval_rejected", i>> \in audit => approvals[i].status = "rejected"
        /\ {<<"approval_approved", i>>, <<"write_executed", i>>} \cap audit # {} =>
               approvals[i].status = "executed"
        /\ <<"write_execution_failed", i>> \notin audit

\* The ticket history is a chain: the old value a ticket_actions row records is the
\* value the action replaced (repository_ticket.go AssignTicket, EscalateTicket).
HistoryChains ==
    [][\A i \in Ids :
        effects'[i].actions > effects[i].actions =>
            LET p == approvals'[i].key.base
            IN  Overwrites(p) => effects'[i].old = tickets[Target[p]][Column(p)]]_vars

\* The next statement of w waits for transaction v to end: on MySQL for the row v has
\* written or the key it is about to add, on SQLite for any writer.  What several INSERTs that
\* wait for one key hold among themselves is outside this model: when the first is rolled back,
\* InnoDB gives the others shared locks, finds their deadlock and ends one of them.
WaitsFor(w, v) ==
    /\ v # w
    /\ \/ Engine = "sqlite" /\ pc[w] \in {"insert", "mark"} /\ work[v].dirty
       \/ /\ pc[w] = "insert" /\ work[v].dirty
          /\ approvals[work[v].id].status = "absent"
          /\ Clash(work[v].row, work[w].row)
       \/ pc[w] = "mark" /\ work[v].dirty /\ work[v].id = work[w].id
       \/ /\ pc[w] = "execute" /\ work[v].wrote
          /\ \A u \in {v, w} : Overwrites(ProposalOf(u))
          /\ Target[ProposalOf(v)] = Target[ProposalOf(w)]

InFlight(w) == pc[w] # "idle"
Waits(w) == \E v \in Workers : WaitsFor(w, v)

\* By the locks of the statements that have been executed, no two transactions wait for each
\* other, in a circle of any length, nor for a lock that was left behind: a statement waits for
\* a transaction in flight that waits for nobody, or for one that waits for nobody but such
\* transactions.  Rows of approvals are locked before rows of tickets (approval.go Approve,
\* executeApprovedAction).
WaitsEnd ==
    \A v, w \in Workers : WaitsFor(w, v) =>
        /\ InFlight(v)
        /\ \A u \in Workers : WaitsFor(v, u) => InFlight(u) /\ ~ Waits(u)

\* Every request ends: no row lock, ticket lock or single-writer lock is held forever
\* and no two transactions wait for each other.
RequestsEnd == \A w \in Workers : pc[w] # "idle" ~> pc[w] = "idle"

\* The atomic promise of module ApprovalLifecycle, read off the committed rows.
Lifecycle == INSTANCE ApprovalLifecycle WITH
    status <- [i \in Ids |-> approvals[i].status],
    key <- [i \in Ids |-> approvals[i].key],
    done <- [i \in Ids |-> effects[i].writes]

\* Transactions of many statements implement the atomic approval lifecycle.
KeepsLifecycle == Lifecycle!ASpec
-----------------------------------------------------------------------------
(* The inductive invariant: what the decisions above rest on.              *)

\* The status and version of a committed row.
Shapes == {<<"absent", 0>>, <<"pending", 1>>, <<"rejected", 2>>, <<"executed", 3>>}
RowOK(r) ==
    /\ <<r.status, r.version>> \in Shapes
    /\ r.status # "absent" => r.key \in Keys

RowsOK == \A i \in Ids : RowOK(approvals[i])

\* A snapshot is a past of the table: rows keep their key and their number, and a
\* decided row its status.
SnapPast(w) ==
    pc[w] # "idle" =>
        /\ req[w] \in Requests
        /\ snap[w] \in Snapshot
        /\ \A i \in Ids :
            LET s == snap[w].approvals[i]
            IN  /\ RowOK(s)
                /\ s.status # "absent" =>
                    /\ approvals[i].status # "absent"
                    /\ approvals[i].key = s.key
                    /\ approvals[i].no = s.no
                /\ s.status \in {"rejected", "executed"} => approvals[i].status = s.status

\* The row w is about to insert: a retry follows a rejected approval.
FreshRow(w) ==
    LET r == work[w].row
    IN  /\ r.status = "pending"
        /\ r.version = 1
        /\ r.key \in Keys
        /\ r.key.retry # None =>
            \E b \in Ids : approvals[b].status = "rejected"
                           /\ approvals[b].key = BaseKey(r.key.base)

\* The row in memory and the uncommitted writes that go with it.
Holds(w, s, v, wrote, recorded) ==
    /\ work[w].row.status = s
    /\ work[w].row.version = v
    /\ work[w].wrote = wrote
    /\ work[w].recorded = recorded

\* w may overwrite the pending row it has locked.
OwnsPending(w) ==
    LET i == work[w].id
    IN  /\ work[w].dirty
        /\ i \in Ids
        /\ approvals[i].status = "pending"
        /\ work[w].row.key = approvals[i].key
        /\ work[w].row.no = approvals[i].no

Inserted(w) ==
    /\ work[w].dirty
    /\ work[w].id \in Ids
    /\ approvals[work[w].id].status = "absent"
    /\ Holds(w, "pending", 1, FALSE, FALSE)
    /\ FreshRow(w)

Closed(w) ==
    /\ OwnsPending(w)
    /\ Holds(w, "rejected", 2, FALSE, FALSE) \/ Holds(w, "executed", 3, TRUE, TRUE)

\* What worker w holds at each statement of its handler.
Phase(w) ==
    /\ pc[w] \in {"idle", "started"} => work[w] = NoWork
    /\ pc[w] = "insert" =>
        FreshRow(w) /\ ~ work[w].dirty /\ Holds(w, "pending", 1, FALSE, FALSE)
    /\ pc[w] = "mark" =>
        /\ req[w].kind \in {"approve", "reject"}
        /\ ~ work[w].dirty
        /\ work[w].id \in Ids
        /\ approvals[work[w].id].status # "absent"
        /\ work[w].row.key = approvals[work[w].id].key
        /\ work[w].row.no = approvals[work[w].id].no
        /\ Holds(w, NextStatus(w), 1, FALSE, FALSE)
    /\ pc[w] = "execute" => OwnsPending(w) /\ Holds(w, "approved", 2, FALSE, FALSE)
    /\ pc[w] = "record" => OwnsPending(w) /\ Holds(w, "approved", 2, TRUE, FALSE)
    /\ pc[w] = "finish" => OwnsPending(w) /\ Holds(w, "approved", 2, TRUE, TRUE)
    /\ pc[w] = "failed" => OwnsPending(w) /\ work[w].row.status = "approved"
    /\ pc[w] \in {"reply", "commit"} =>
        /\ work[w].id \in Ids
        /\ work[w].row.status # "absent"
        /\ work[w].dirty => Inserted(w) \/ Closed(w)

\* Two transactions never hold the same row, nor two rows that clash.
Exclusive(v, w) ==
    v # w /\ work[v].dirty /\ work[w].dirty => work[v].id # work[w].id

Inserting(w) == work[w].dirty /\ approvals[work[w].id].status = "absent"
NoClash ==
    /\ \A i, j \in Present(approvals) : i # j => ~ Clash(approvals[i], approvals[j])
    /\ \A w \in Workers : Inserting(w) =>
        /\ \A i \in Present(approvals) : ~ Clash(approvals[i], work[w].row)
        /\ \A v \in Workers \ {w} : Inserting(v) => ~ Clash(work[v].row, work[w].row)

IInv ==
    /\ TypeOK
    /\ RowsOK
    /\ ExactlyOnce
    /\ \A w \in Workers : SnapPast(w) /\ Phase(w)
    /\ \A v, w \in Workers : Exclusive(v, w)
    /\ NoClash
    /\ KeysIdentify
-----------------------------------------------------------------------------
(* What the documents say and the code does not do.                        *)

\* docs/STATE_MACHINE_OBSERVABILITY.md: approved -> execution_failed.  A failed execution
\* that reaches the end of its transaction leaves the approval execution_failed.
FailureRecorded ==
    [][\A w \in Workers :
        LET i == work[w].id
        IN  pc[w] = "rollback" /\ work[w].row.status = "execution_failed" /\ pc'[w] = "idle"
                => approvals'[i].status = "execution_failed"]_vars

\* docs/STATE_MACHINE_OBSERVABILITY.md: idempotency_key suppresses duplicate pending
\* proposals.  No two approvals of one proposal are pending.
NoDuplicatePending ==
    \A i, j \in Ids :
        /\ approvals[i].status = "pending"
        /\ approvals[j].status = "pending"
        /\ approvals[i].key.base = approvals[j].key.base
        => i = j
=============================================================================
