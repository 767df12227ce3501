-------------------------- MODULE ApprovalsProofs --------------------------
(***************************************************************************)
(* The safety of module Approvals for every value of its constants.        *)
(***************************************************************************)
EXTENDS Approvals, TLAPS

\* One worker takes a step of its handler, or its transaction is broken off.
Step(w) == Start(w) \/ Handle(w) \/ Break(w)

\* Worker v stays where it is.
Stays(v) ==
    /\ pc'[v] = pc[v]
    /\ req'[v] = req[v]
    /\ snap'[v] = snap[v]
    /\ work'[v] = work[v]

\* A step of a worker is invisible to the others, save for what it commits.
LEMMA StepFrame ==
    ASSUME TypeOK, NEW w \in Workers, Step(w)
    PROVE  \A v \in Workers \ {w} : Stays(v)
<1> USE DEF Stays, TypeOK, Goto, Hold, Fail, Unchanged, Release
<1>1. CASE Start(w)
  BY <1>1 DEF Start
<1>2. CASE Create(w)
  <2>1. CASE RefuseProposal(w)
    BY <2>1 DEF RefuseProposal
  <2>2. CASE ReuseProposal(w)
    BY <2>2 DEF ReuseProposal
  <2>3. CASE PrepareProposal(w)
    BY <2>3 DEF PrepareProposal
  <2>4. CASE InsertRow(w)
    BY <2>4 DEF InsertRow
  <2>5. CASE InsertDuplicate(w)
    BY <2>5 DEF InsertDuplicate, LookUpAgain
  <2>6. QED
    BY <1>2, <2>1, <2>2, <2>3, <2>4, <2>5 DEF Create
<1>3. CASE DecideRequest(w)
  <2>1. CASE RefuseDecision(w)
    BY <2>1 DEF RefuseDecision
  <2>2. CASE RepeatDecision(w)
    BY <2>2 DEF RepeatDecision
  <2>3. CASE Decide(w)
    BY <2>3 DEF Decide
  <2>4. CASE Mark(w)
    BY <2>4 DEF Mark
  <2>5. CASE MarkConflict(w)
    BY <2>5 DEF MarkConflict
  <2>6. CASE ExecuteInvalid(w)
    BY <2>6 DEF ExecuteInvalid
  <2>7. CASE ExecuteWrite(w)
    BY <2>7 DEF ExecuteWrite
  <2>8. CASE RecordAction(w)
    BY <2>8 DEF RecordAction
  <2>9. CASE Finish(w) \/ FinishFailed(w)
    BY <2>9 DEF Finish, FinishFailed, Close
  <2>10. QED
    BY <1>3, <2>1, <2>2, <2>3, <2>4, <2>5, <2>6, <2>7, <2>8, <2>9 DEF DecideRequest
<1>4. CASE EndTx(w) \/ Break(w)
  BY <1>4 DEF EndTx, Reply, Commit, Rollback, AbortBusy, LookUpAgain,
              Break, Abort, InsertErrs, ExecuteErrs, CommitFails
<1>5. QED
  BY <1>1, <1>2, <1>3, <1>4 DEF Step, Handle

\* A step that touches the memory of one worker only.
LEMMA LocalTyped ==
    ASSUME TypeOK, NEW w \in Workers, Unchanged,
           NEW l \in PCs, Goto(w, l),
           NEW x \in Work, Hold(w, x), x.dirty => x.id \in Ids
    PROVE  TypeOK'
BY DEF TypeOK, Unchanged, Goto, Hold, db, history

LEMMA FailTyped ==
    ASSUME TypeOK, NEW w \in Workers, Unchanged, Fail(w)
    PROVE  TypeOK'
BY DEF TypeOK, Unchanged, Fail, Goto, PCs, db, history

LEMMA LoadedTyped ==
    ASSUME NEW i \in Ids \cup {None}, NEW r \in Row
    PROVE  Loaded(i, r) \in Work /\ Loaded(i, r).dirty = FALSE
BY DEF Loaded, Work

LEMMA NoWorkTyped == NoWork \in Work /\ NoWork.dirty = FALSE
<1>1. NoRow \in Row
  BY DEF NoRow, Row
<1> QED
  BY <1>1, LoadedTyped DEF NoWork

\* A transaction that ends, committed or not, leaves its worker idle.
LEMMA ReleaseTyped ==
    ASSUME TypeOK, NEW w \in Workers, Release(w),
           approvals' \in [Ids -> Row],
           effects' \in [Ids -> Effect],
           tickets' \in [Tickets -> [Columns -> Ids \cup {None}]],
           audit' \subseteq Events \X Ids,
           lost' \subseteq Ids \X Statuses
    PROVE  TypeOK'
BY NoWorkTyped DEF TypeOK, Release, Goto, Hold, PCs

\* What the statements of a handler do to the working copy keeps its type.
LEMMA InsertUpdate ==
    ASSUME NEW x \in Work, NEW i \in Ids, NEW e \in SUBSET Events
    PROVE  LET y == [x EXCEPT !.id = i, !.dirty = TRUE, !.events = e]
           IN  y \in Work /\ y.id = i /\ y.dirty
BY DEF Work

LEMMA MarkUpdate ==
    ASSUME NEW x \in Work, NEW r \in Row, NEW e \in SUBSET Events
    PROVE  LET y == [x EXCEPT !.dirty = TRUE, !.events = e, !.row = r]
           IN  y \in Work /\ y.id = x.id /\ y.dirty
BY DEF Work

LEMMA WriteUpdate ==
    ASSUME NEW x \in Work, NEW o \in Ids \cup {None}
    PROVE  LET y == [x EXCEPT !.wrote = TRUE, !.old = o]
           IN  y \in Work /\ y.id = x.id /\ y.dirty = x.dirty
BY DEF Work

LEMMA RecordUpdate ==
    ASSUME NEW x \in Work, NEW b \in BOOLEAN
    PROVE  LET y == [x EXCEPT !.recorded = b]
           IN  y \in Work /\ y.id = x.id /\ y.dirty = x.dirty
BY DEF Work

LEMMA CloseUpdate ==
    ASSUME NEW x \in Work, NEW r \in Row, NEW e \in SUBSET Events
    PROVE  LET y == [x EXCEPT !.row = r, !.events = @ \cup e]
           IN  y \in Work /\ y.id = x.id /\ y.dirty = x.dirty
BY DEF Work

LEMMA SavedTyped ==
    ASSUME NEW r \in Row
    PROVE  Saved(r) \in Row
BY DEF Row, Saved

LEMMA StatusTyped ==
    ASSUME NEW r \in Row, NEW s \in Statuses
    PROVE  [r EXCEPT !.status = s] \in Row
BY DEF Row

LEMMA WorkTyped ==
    ASSUME NEW x \in Work
    PROVE  x.row \in Row /\ x.events \in SUBSET Events /\ x.id \in Ids \cup {None}
BY DEF Work

\* A worker past its first statement has a request and a snapshot.
LEMMA SnapTyped ==
    ASSUME IInv, NEW w \in Workers, pc[w] # "idle"
    PROVE  /\ req[w] \in Requests
           /\ snap[w] \in Snapshot
           /\ \A i \in Ids : snap[w].approvals[i] \in Row
BY DEF IInv, SnapPast, Snapshot

\* A step of one worker keeps every variable in its type.
LEMMA TypeStep ==
    ASSUME ConstantsAssumption, IInv, NEW w \in Workers, Step(w)
    PROVE  TypeOK'
<1>a. TypeOK
  BY DEF IInv
<1>b. work[w] \in Work /\ work[w].row \in Row /\ work[w].events \in SUBSET Events
  BY <1>a, WorkTyped DEF TypeOK
<1>1. CASE Start(w)
  BY <1>1, <1>a DEF Start, TypeOK, Goto, Committed, Snapshot, PCs, db, history
<1>2. CASE RefuseProposal(w) \/ RefuseDecision(w) \/ MarkConflict(w) \/ Abort(w)
  BY <1>2, <1>a, FailTyped
  DEF RefuseProposal, RefuseDecision, MarkConflict, Abort
<1>3. CASE ReuseProposal(w)
  <2>1. PICK i \in Ids : Hold(w, Loaded(i, snap[w].approvals[i]))
    BY <1>3 DEF ReuseProposal, Reusable, Existing, WithKey, Present
  <2>2. Goto(w, "reply") /\ Unchanged /\ pc[w] # "idle"
    BY <1>3 DEF ReuseProposal, Creating
  <2> QED
    BY <1>a, <2>1, <2>2, SnapTyped, LoadedTyped, LocalTyped DEF PCs
<1>4. CASE PrepareProposal(w)
  <2> DEFINE k == IF Existing(w) = {} THEN BaseKey(req[w].prop)
                  ELSE RetryKey(req[w].prop, req[w].trace)
  <2>1. Hold(w, Loaded(None, NewRow(k, clock)))
    BY <1>4 DEF PrepareProposal
  <2>2. Goto(w, "insert") /\ Unchanged /\ pc[w] # "idle" /\ req[w].kind = "create"
    BY <1>4 DEF PrepareProposal, Creating
  <2>3. req[w].prop \in Proposals /\ req[w].trace \in Traces
    BY <2>2, SnapTyped DEF Requests
  <2>4. k \in Keys
    BY <2>3 DEF BaseKey, RetryKey, Keys
  <2>5. NewRow(k, clock) \in Row
    BY <1>a, <2>4 DEF NewRow, Row, Statuses, TypeOK
  <2> QED
    BY <1>a, <2>1, <2>2, <2>5, LoadedTyped, LocalTyped DEF PCs
<1>5. CASE InsertRow(w)
  <2>1. PICK i \in Ids, logged \in Logged("proposal_created") :
            Hold(w, [work[w] EXCEPT !.id = i, !.dirty = TRUE, !.events = logged])
    BY <1>5 DEF InsertRow
  <2>2. Goto(w, "reply") /\ Unchanged
    BY <1>5 DEF InsertRow
  <2> DEFINE x == [work[w] EXCEPT !.id = i, !.dirty = TRUE, !.events = logged]
  <2>3. x \in Work /\ x.id \in Ids
    BY <1>b, <2>1, InsertUpdate DEF Logged, Events
  <2> QED
    BY <1>a, <2>1, <2>2, <2>3, LocalTyped DEF PCs
<1>6. CASE InsertDuplicate(w) \/ AbortBusy(w) \/ InsertErrs(w)
  <2>0. Unchanged /\ pc[w] # "idle" /\ (Fail(w) \/ LookUpAgain(w))
    BY <1>6 DEF InsertDuplicate, AbortBusy, InsertErrs
  <2>1. CASE Fail(w)
    BY <1>a, <2>0, <2>1, FailTyped
  <2>2. CASE ~ Fail(w)
    <3>1. PICK i \in Ids : Hold(w, Loaded(i, snap[w].approvals[i]))
      BY <2>0, <2>2 DEF LookUpAgain, WithKey, Present
    <3>2. Goto(w, "reply")
      BY <2>0, <2>2 DEF LookUpAgain
    <3> QED
      BY <1>a, <2>0, <3>1, <3>2, SnapTyped, LoadedTyped, LocalTyped DEF PCs
  <2> QED
    BY <2>1, <2>2
<1>7. CASE RepeatDecision(w)
  <2>1. PICK i \in Ids : Hold(w, Loaded(i, snap[w].approvals[i]))
    BY <1>7 DEF RepeatDecision, Named, WithNo, Present
  <2>2. Goto(w, "reply") /\ Unchanged /\ pc[w] # "idle"
    BY <1>7 DEF RepeatDecision, Deciding
  <2> QED
    BY <1>a, <2>1, <2>2, SnapTyped, LoadedTyped, LocalTyped DEF PCs
<1>8. CASE Decide(w)
  <2>1. PICK i \in Ids :
            Hold(w, Loaded(i, [snap[w].approvals[i] EXCEPT !.status = NextStatus(w),
                                                           !.by = req[w].user]))
    BY <1>8 DEF Decide, Named, WithNo, Present
  <2>2. /\ Goto(w, "mark") /\ Unchanged /\ pc[w] # "idle"
        /\ req[w].kind \in {"approve", "reject"}
    BY <1>8 DEF Decide, Deciding
  <2>3. req[w].user \in Users
    BY <2>2, SnapTyped DEF Requests
  <2>4. [snap[w].approvals[i] EXCEPT !.status = NextStatus(w), !.by = req[w].user] \in Row
    BY <2>2, <2>3, SnapTyped DEF Row, NextStatus, Statuses
  <2> QED
    BY <1>a, <2>1, <2>2, <2>4, LoadedTyped, LocalTyped DEF PCs
<1>9. CASE Mark(w)
  <2>1. PICK logged \in SUBSET Events :
            Hold(w, [work[w] EXCEPT !.dirty = TRUE, !.events = logged, !.row = Saved(@)])
    BY <1>9 DEF Mark, Logged, Events
  <2>2. PICK l \in PCs : Goto(w, l) /\ Unchanged
    BY <1>9 DEF Mark, PCs
  <2> DEFINE r == Saved(work[w].row)
             x == [work[w] EXCEPT !.dirty = TRUE, !.events = logged, !.row = r]
  <2>r. r \in Row
    BY <1>b, SavedTyped
  <2> HIDE DEF r
  <2>3. x \in Work /\ x.id = work[w].id
    BY <1>b, <2>r, MarkUpdate
  <2>4. work[w].id \in Ids
    BY <1>9 DEF Mark, IInv, Phase
  <2> QED
    BY <1>a, <2>1, <2>2, <2>3, <2>4, LocalTyped DEF r
<1>10. CASE ExecuteInvalid(w) \/ ExecuteErrs(w)
  BY <1>10, <1>a DEF ExecuteInvalid, ExecuteErrs, TypeOK, Unchanged, Goto, PCs, db, history
<1>11. CASE ExecuteWrite(w)
  <2> DEFINE p == ProposalOf(w)
             old == IF Overwrites(p) THEN snap[w].tickets[Target[p]][Column(p)] ELSE None
             x == [work[w] EXCEPT !.wrote = TRUE, !.old = old]
  <2>1. Hold(w, x) /\ Goto(w, "record") /\ Unchanged /\ pc[w] = "execute"
    BY <1>11 DEF ExecuteWrite
  <2>2. p \in Proposals
    BY <1>11 DEF ExecuteWrite, ConstantsAssumption
  <2>3. old \in Ids \cup {None}
    BY <2>1, <2>2, SnapTyped DEF ConstantsAssumption, Snapshot, Columns, Column
  <2>4. x \in Work /\ x.dirty = work[w].dirty /\ x.id = work[w].id
    BY <1>b, <2>3, WriteUpdate
  <2> QED
    BY <1>a, <2>1, <2>4, LocalTyped DEF PCs, TypeOK
<1>12. CASE RecordAction(w)
  <2> DEFINE x == [work[w] EXCEPT !.recorded = (effects[work[w].id].actions = 0)]
  <2>1. Hold(w, x) /\ Unchanged
    BY <1>12 DEF RecordAction
  <2>2. PICK l \in PCs : Goto(w, l)
    BY <1>12 DEF RecordAction, PCs
  <2>3. x \in Work /\ x.dirty = work[w].dirty /\ x.id = work[w].id
    BY <1>b, RecordUpdate
  <2> QED
    BY <1>a, <2>1, <2>2, <2>3, LocalTyped DEF TypeOK
<1>13. CASE Finish(w) \/ FinishFailed(w)
  <2>1. PICK s \in Statuses, e \in Events, l \in PCs : Close(w, s, e, l)
    BY <1>13 DEF Finish, FinishFailed, Statuses, Events, PCs
  <2>2. PICK logged \in SUBSET Events :
            Hold(w, [work[w] EXCEPT !.row = Saved([@ EXCEPT !.status = s]),
                                    !.events = @ \cup logged])
    BY <2>1 DEF Close, Logged, Events
  <2> DEFINE r == Saved([work[w].row EXCEPT !.status = s])
             x == [work[w] EXCEPT !.row = r, !.events = @ \cup logged]
  <2>3. r \in Row
    BY <1>b, StatusTyped, SavedTyped
  <2> HIDE DEF r
  <2>5. x \in Work /\ x.dirty = work[w].dirty /\ x.id = work[w].id
    <3>1. x \in Work
      BY <1>b, <2>3, CloseUpdate
    <3>2. x.dirty = work[w].dirty /\ x.id = work[w].id
      BY <1>b DEF Work
    <3> QED
      BY <3>1, <3>2
  <2> QED
    BY <1>a, <2>1, <2>2, <2>5, LocalTyped DEF Close, TypeOK, r
<1>14. CASE Reply(w)
  <2>1. Answer(w) \in Ids \X Statuses
    BY <1>14, <1>a DEF Reply, IInv, Phase, Answer, TypeOK, Work, Row
  <2> QED
    BY <1>14, <1>a, <2>1 DEF Reply, TypeOK, Goto, PCs, db
<1>15. CASE Commit(w)
  <2>1. CASE ~ work[w].dirty
    BY <1>15, <1>a, <2>1, ReleaseTyped DEF Commit, TypeOK, db
  <2>2. CASE work[w].dirty
    <3> DEFINE i == work[w].id
               p == ProposalOf(w)
    <3>1. i \in Ids /\ work[w].row \in Row /\ work[w] \in Work /\ Publish(w) /\ p \in Proposals
      BY <1>15, <1>a, <2>2
      DEF Commit, TypeOK, Work, IInv, Phase, Inserted, Closed, OwnsPending, FreshRow, RowsOK,
          RowOK, ProposalOf, Keys
    <3>2. approvals' \in [Ids -> Row]
      BY <1>a, <3>1 DEF Publish, TypeOK
    <3>3. effects' \in [Ids -> Effect]
      BY <1>a, <3>1 DEF Publish, TypeOK, Effect, One, Work
    <3>4. tickets' \in [Tickets -> [Columns -> Ids \cup {None}]]
      BY <1>a, <3>1 DEF Publish, TypeOK, Columns, Column, ConstantsAssumption
    <3>5. audit' \subseteq Events \X Ids
      BY <1>a, <3>1 DEF Publish, TypeOK, Work
    <3> QED
      BY <1>15, <1>a, <3>2, <3>3, <3>4, <3>5, ReleaseTyped DEF Commit, TypeOK
  <2> QED
    BY <2>1, <2>2
<1>16. CASE CommitFails(w)
  <2>1. Answer(w) \in Ids \X Statuses
    BY <1>16, <1>a DEF CommitFails, IInv, Phase, Answer, TypeOK, Work, Row
  <2> QED
    BY <1>16, <1>a, <2>1, ReleaseTyped DEF CommitFails, TypeOK, db
<1>17. CASE Rollback(w)
  BY <1>17, <1>a, ReleaseTyped DEF Rollback, TypeOK, db
<1> QED
  BY <1>1, <1>2, <1>3, <1>4, <1>5, <1>6, <1>7, <1>8, <1>9, <1>10, <1>11, <1>12, <1>13,
     <1>14, <1>15, <1>16, <1>17 DEF Step, Handle, Create, DecideRequest, EndTx, Break

\* The other workers keep their snapshots and their working copies, and nothing they
\* rest on changes while the tables do not.
LEMMA OthersKeep ==
    ASSUME IInv, NEW v \in Workers, Stays(v), approvals' = approvals
    PROVE  SnapPast(v)' /\ Phase(v)'
<1>1. SnapPast(v) /\ Phase(v)
  BY DEF IInv
<1>2. SnapPast(v)'
  BY <1>1 DEF SnapPast, Stays
<1>3. Phase(v)'
  BY <1>1 DEF Phase, Stays, NextStatus, Holds, OwnsPending, Inserted, Closed, FreshRow
<1> QED
  BY <1>2, <1>3

\* What w has locked, it had locked before, and under the same key and number.
Kept(w) ==
    work'[w].dirty =>
        /\ work[w].dirty
        /\ work'[w].id = work[w].id
        /\ work'[w].row.key = work[w].row.key
        /\ work'[w].row.no = work[w].row.no

\* A step that commits nothing and locks nothing new keeps the invariant if the phase
\* of its own worker is right.
LEMMA LocalKeeps ==
    ASSUME IInv, NEW w \in Workers, Step(w), TypeOK',
           approvals' = approvals, effects' = effects,
           Kept(w), SnapPast(w)', Phase(w)'
    PROVE  IInv'
<1>1. \A v \in Workers \ {w} : Stays(v)
  BY StepFrame DEF IInv
<1>2. \A v \in Workers : SnapPast(v)' /\ Phase(v)'
  BY <1>1, OthersKeep
<1>3. RowsOK' /\ ExactlyOnce' /\ KeysIdentify'
  BY DEF IInv, RowsOK, RowOK, ExactlyOnce, KeysIdentify, Present, WithKey
<1>4. \A u, v \in Workers : Exclusive(u, v)'
  BY <1>1 DEF IInv, Exclusive, Kept, Stays
<1>5. NoClash'
  <2>1. \A v \in Workers : Inserting(v)' =>
          /\ Inserting(v)
          /\ work'[v].row.key = work[v].row.key
          /\ work'[v].row.no = work[v].row.no
    BY <1>1 DEF Inserting, Kept, Stays
  <2>2. Present(approvals)' = Present(approvals)
    BY DEF Present
  <2>3. NoClash
    BY DEF IInv
  <2> QED
    BY <2>1, <2>2, <2>3 DEF NoClash, Clash
<1> QED
  BY <1>2, <1>3, <1>4, <1>5 DEF IInv

\* A worker past its first statement keeps its snapshot.
LEMMA SnapKept ==
    ASSUME IInv, NEW w \in Workers, pc[w] # "idle",
           req' = req, snap' = snap, approvals' = approvals
    PROVE  SnapPast(w)'
BY DEF IInv, SnapPast

LEMMA FailKeeps ==
    ASSUME IInv, NEW w \in Workers, Step(w), TypeOK', pc[w] # "idle", Unchanged, Fail(w)
    PROVE  IInv'
<1>1. Kept(w)
  BY DEF Kept, Fail
<1>2. SnapPast(w)'
  BY SnapKept DEF Unchanged, db
<1>3. pc'[w] = "rollback"
  BY DEF IInv, TypeOK, Fail, Goto
<1>4. Phase(w)'
  BY <1>3 DEF Phase
<1> QED
  BY <1>1, <1>2, <1>4, LocalKeeps DEF Unchanged, db

\* An approval that is only read can be answered.
LEMMA LoadKeeps ==
    ASSUME IInv, NEW w \in Workers, Step(w), TypeOK', pc[w] # "idle", Unchanged,
           Goto(w, "reply"), NEW i \in Ids, NEW r, Hold(w, Loaded(i, r)), r.status # "absent"
    PROVE  IInv'
<1>0. work'[w] = Loaded(i, r) /\ pc'[w] = "reply"
  BY DEF IInv, TypeOK, Hold, Goto
<1>1. Kept(w)
  BY <1>0 DEF Kept, Loaded
<1>2. SnapPast(w)'
  BY SnapKept DEF Unchanged, db
<1>3. Phase(w)'
  BY <1>0 DEF Phase, Loaded
<1> QED
  BY <1>1, <1>2, <1>3, LocalKeeps DEF Unchanged, db

LEMMA LookUpKeeps ==
    ASSUME IInv, NEW w \in Workers, Step(w), TypeOK', pc[w] # "idle", Unchanged,
           LookUpAgain(w)
    PROVE  IInv'
<1>1. CASE Fail(w)
  BY <1>1, FailKeeps
<1>2. CASE ~ Fail(w)
  <2>1. PICK i \in WithKey(snap[w].approvals, work[w].row.key) :
            Hold(w, Loaded(i, snap[w].approvals[i]))
    BY <1>2 DEF LookUpAgain
  <2>2. i \in Ids /\ snap[w].approvals[i].status # "absent"
    BY DEF WithKey, Present
  <2> QED
    BY <1>2, <2>1, <2>2, LoadKeeps DEF LookUpAgain
<1> QED
  BY <1>1, <1>2

\* A transaction that ends without a commit leaves nothing behind.
LEMMA ReleaseKeeps ==
    ASSUME IInv, NEW w \in Workers, Step(w), TypeOK', UNCHANGED db, Release(w)
    PROVE  IInv'
<1>0. work'[w] = NoWork /\ pc'[w] = "idle"
  BY DEF IInv, TypeOK, Hold, Goto, Release
<1>1. Kept(w)
  BY <1>0 DEF Kept, NoWork, Loaded
<1>2. SnapPast(w)'
  BY <1>0 DEF SnapPast
<1>3. Phase(w)'
  BY <1>0 DEF Phase
<1> QED
  BY <1>1, <1>2, <1>3, LocalKeeps DEF db

LEMMA StartKeeps ==
    ASSUME IInv, NEW w \in Workers, Step(w), TypeOK', Start(w)
    PROVE  IInv'
<1>0. /\ pc[w] = "idle" /\ pc'[w] = "started"
      /\ work' = work /\ work[w] = NoWork
      /\ snap'[w] = Committed /\ req'[w] \in Requests
      /\ UNCHANGED db
  BY DEF IInv, TypeOK, Phase, Start, Goto
<1>1. Kept(w)
  BY <1>0 DEF Kept
<1>2. Phase(w)'
  BY <1>0 DEF Phase
<1>3. SnapPast(w)'
  <2>1. snap'[w] \in Snapshot /\ snap'[w].approvals = approvals
    BY <1>0 DEF Committed, Snapshot, IInv, TypeOK
  <2> QED
    BY <1>0, <2>1 DEF SnapPast, db, IInv, RowsOK
<1> QED
  BY <1>0, <1>1, <1>2, <1>3, LocalKeeps DEF db

\* CreateProposal up to its INSERT.
LEMMA CreateKeeps ==
    ASSUME ConstantsAssumption, IInv, NEW w \in Workers, Step(w), TypeOK', Create(w),
           ~ InsertRow(w)
    PROVE  IInv'
<1>1. CASE RefuseProposal(w)
  BY <1>1, FailKeeps DEF RefuseProposal, Creating
<1>2. CASE ReuseProposal(w)
  <2>1. PICK i \in Reusable(w) : Hold(w, Loaded(i, snap[w].approvals[i]))
    BY <1>2 DEF ReuseProposal
  <2>2. i \in Ids /\ snap[w].approvals[i].status # "absent"
    BY DEF Reusable, Existing, WithKey, Present
  <2> QED
    BY <1>2, <2>1, <2>2, LoadKeeps DEF ReuseProposal, Creating
<1>3. CASE PrepareProposal(w)
  <2> DEFINE k == IF Existing(w) = {} THEN BaseKey(req[w].prop)
                  ELSE RetryKey(req[w].prop, req[w].trace)
             r == NewRow(k, clock)
  <2>1. Hold(w, Loaded(None, r)) /\ Goto(w, "insert") /\ Unchanged /\ pc[w] = "started"
    BY <1>3 DEF PrepareProposal, Creating
  <2>2. req[w].prop \in Proposals /\ req[w].trace \in Traces
    BY <1>3, <2>1, SnapTyped DEF PrepareProposal, Creating, Requests
  <2>3. work'[w] = Loaded(None, r) /\ pc'[w] = "insert"
    BY <2>1 DEF IInv, TypeOK, Hold, Goto
  <2>4. Kept(w)
    BY <2>3 DEF Kept, Loaded
  <2>5. SnapPast(w)'
    BY <2>1, SnapKept DEF Unchanged, db
  <2>6. k \in Keys /\ k.base = req[w].prop
    BY <2>2 DEF BaseKey, RetryKey, Keys
  <2>7. ASSUME k.retry # None
        PROVE  \E b \in Ids : approvals[b].status = "rejected"
                              /\ approvals[b].key = BaseKey(k.base)
    <3>1. Existing(w) # {}
      BY <2>7 DEF BaseKey
    <3>2. PICK b \in Existing(w) : TRUE
      BY <3>1
    <3>3. b \in Ids /\ b \notin Reusable(w) /\ snap[w].approvals[b].status # "absent"
          /\ snap[w].approvals[b].key = BaseKey(req[w].prop)
      BY <1>3, <3>2 DEF PrepareProposal, Existing, WithKey, Present
    <3>4. RowOK(snap[w].approvals[b]) /\ approvals[b].key = snap[w].approvals[b].key
      BY <2>1, <3>3 DEF IInv, SnapPast
    <3>5. snap[w].approvals[b].status = "rejected"
      BY <3>2, <3>3, <3>4 DEF RowOK, Shapes, Reusable, ActiveOrCompleted
    <3>6. approvals[b].status = "rejected"
      BY <2>1, <3>3, <3>5 DEF IInv, SnapPast
    <3> QED
      BY <2>6, <3>3, <3>4, <3>6
  <2>8. FreshRow(w)'
    BY <2>1, <2>3, <2>6, <2>7 DEF FreshRow, Loaded, NewRow, Unchanged, db
  <2>9. Phase(w)'
    BY <2>3, <2>8 DEF Phase, Holds, Loaded, NewRow
  <2> QED
    BY <2>1, <2>4, <2>5, <2>9, LocalKeeps DEF Unchanged, db
<1>4. CASE InsertDuplicate(w)
  BY <1>4, LookUpKeeps DEF InsertDuplicate
<1> QED
  BY <1>1, <1>2, <1>3, <1>4 DEF Create

\* What the statements write into the working copy, and what they leave in it.
LEMMA Inserts ==
    ASSUME NEW x \in Work, NEW i \in Ids, NEW e
    PROVE  LET y == [x EXCEPT !.id = i, !.dirty = TRUE, !.events = e]
           IN  /\ y.id = i /\ y.row = x.row
               /\ y.dirty = TRUE /\ y.wrote = x.wrote /\ y.recorded = x.recorded
BY DEF Work

LEMMA Marks ==
    ASSUME NEW x \in Work, NEW e, NEW r
    PROVE  LET y == [x EXCEPT !.dirty = TRUE, !.events = e, !.row = r]
           IN  /\ y.id = x.id /\ y.row = r
               /\ y.dirty = TRUE /\ y.wrote = x.wrote /\ y.recorded = x.recorded
BY DEF Work

LEMMA Writes ==
    ASSUME NEW x \in Work, NEW o
    PROVE  LET y == [x EXCEPT !.wrote = TRUE, !.old = o]
           IN  /\ y.id = x.id /\ y.row = x.row
               /\ y.dirty = x.dirty /\ y.wrote = TRUE /\ y.recorded = x.recorded
BY DEF Work

LEMMA Records ==
    ASSUME NEW x \in Work, NEW b \in BOOLEAN
    PROVE  LET y == [x EXCEPT !.recorded = b]
           IN  /\ y.id = x.id /\ y.row = x.row
               /\ y.dirty = x.dirty /\ y.wrote = x.wrote /\ y.recorded = b
BY DEF Work

LEMMA Closes ==
    ASSUME NEW x \in Work, NEW r, NEW e
    PROVE  LET y == [x EXCEPT !.row = r, !.events = @ \cup e]
           IN  /\ y.id = x.id /\ y.row = r
               /\ y.dirty = x.dirty /\ y.wrote = x.wrote /\ y.recorded = x.recorded
BY DEF Work

LEMMA Saves ==
    ASSUME NEW r \in Row
    PROVE  /\ Saved(r).status = r.status
           /\ Saved(r).version = r.version + 1
           /\ Saved(r).key = r.key
           /\ Saved(r).no = r.no
BY DEF Row, Saved

LEMMA SavesStatus ==
    ASSUME NEW r \in Row, NEW s \in Statuses
    PROVE  LET t == Saved([r EXCEPT !.status = s])
           IN  /\ t.status = s
               /\ t.version = r.version + 1
               /\ t.key = r.key
               /\ t.no = r.no
BY DEF Row, Saved

\* CreateProposal: the INSERT locks a row and a key no other transaction holds.
LEMMA InsertKeeps ==
    ASSUME IInv, NEW w \in Workers, Step(w), TypeOK', InsertRow(w)
    PROVE  IInv'
<1>1. PICK i \in Ids \ Present(approvals), e \in Logged("proposal_created") :
          /\ ~ RowLocked(w, i)
          /\ Hold(w, [work[w] EXCEPT !.id = i, !.dirty = TRUE, !.events = e])
  BY DEF InsertRow
<1>2. /\ pc[w] = "insert" /\ ~ PendingDuplicate(w) /\ ~ Duplicate(w)
      /\ Goto(w, "reply") /\ Unchanged
  BY DEF InsertRow
<1>3. /\ work[w] \in Work /\ FreshRow(w) /\ ~ work[w].dirty
      /\ Holds(w, "pending", 1, FALSE, FALSE)
  BY <1>2 DEF IInv, TypeOK, Phase
<1>4. pc'[w] = "reply" /\ work'[w] = [work[w] EXCEPT !.id = i, !.dirty = TRUE, !.events = e]
  BY <1>1, <1>2 DEF IInv, TypeOK, Hold, Goto
<1>5. /\ work'[w].id = i /\ work'[w].row = work[w].row
      /\ work'[w].dirty = TRUE
      /\ work'[w].wrote = work[w].wrote /\ work'[w].recorded = work[w].recorded
  BY <1>3, <1>4, Inserts
<1>6. approvals' = approvals /\ effects' = effects /\ approvals[i].status = "absent"
  BY <1>1, <1>2 DEF Unchanged, db, Present
<1>7. \A v \in Workers \ {w} : Stays(v)
  BY StepFrame DEF IInv
<1>8. SnapPast(w)'
  BY <1>2, SnapKept DEF Unchanged, db
<1>9. Phase(w)'
  BY <1>3, <1>4, <1>5, <1>6 DEF Phase, Inserted, Holds, FreshRow
<1>10. \A v \in Workers : SnapPast(v)' /\ Phase(v)'
  BY <1>6, <1>7, <1>8, <1>9, OthersKeep
<1>11. RowsOK' /\ ExactlyOnce' /\ KeysIdentify'
  BY <1>6 DEF IInv, RowsOK, RowOK, ExactlyOnce, KeysIdentify, Present, WithKey
<1>12. \A u, v \in Workers : Exclusive(u, v)'
  BY <1>1, <1>5, <1>7 DEF IInv, Exclusive, Stays, RowLocked, Others
<1>13. NoClash'
  <2>1. Present(approvals)' = Present(approvals)
    BY <1>6 DEF Present
  <2>2. \A v \in Workers \ {w} : Inserting(v)' => Inserting(v) /\ work'[v].row = work[v].row
    BY <1>6, <1>7 DEF Inserting, Stays
  <2>3. NoClash
    BY DEF IInv
  <2>4. \A j \in Present(approvals) : ~ Clash(approvals[j], work[w].row)
    BY <1>2 DEF Duplicate
  <2>5. \A v \in Workers \ {w} : Inserting(v) => ~ Clash(work[v].row, work[w].row)
    BY <1>2 DEF PendingDuplicate, Others, Inserting
  <2>6. \A v \in Workers \ {w} : Inserting(v) => ~ Clash(work[w].row, work[v].row)
    BY <2>5 DEF Clash
  <2> QED
    BY <1>5, <1>6, <2>1, <2>2, <2>3, <2>4, <2>5, <2>6 DEF NoClash
<1> QED
  BY <1>10, <1>11, <1>12, <1>13 DEF IInv

\* Approve and Reject: the UPDATE finds the version it has read, so the row is the
\* pending one, and no other transaction holds it.
LEMMA MarkKeeps ==
    ASSUME IInv, NEW w \in Workers, Step(w), TypeOK', Mark(w)
    PROVE  IInv'
<1>1. PICK e : Hold(w, [work[w] EXCEPT !.dirty = TRUE, !.events = e, !.row = Saved(@)])
  BY DEF Mark
<1>2. /\ pc[w] = "mark" /\ ~ RowLocked(w, work[w].id) /\ UpdateMatches(w) /\ Unchanged
      /\ Goto(w, IF req[w].kind = "approve" THEN "execute" ELSE "reply")
  BY DEF Mark
<1>3. /\ work[w] \in Work /\ work[w].row \in Row /\ ~ work[w].dirty
      /\ req[w].kind \in {"approve", "reject"}
      /\ work[w].id \in Ids
      /\ approvals[work[w].id].status # "absent"
      /\ work[w].row.key = approvals[work[w].id].key
      /\ work[w].row.no = approvals[work[w].id].no
      /\ Holds(w, NextStatus(w), 1, FALSE, FALSE)
  BY <1>2, WorkTyped DEF IInv, TypeOK, Phase
<1>4. /\ pc'[w] = IF req[w].kind = "approve" THEN "execute" ELSE "reply"
      /\ work'[w] = [work[w] EXCEPT !.dirty = TRUE, !.events = e, !.row = Saved(@)]
  BY <1>1, <1>2 DEF IInv, TypeOK, Hold, Goto
<1>5. /\ work'[w].id = work[w].id /\ work'[w].row = Saved(work[w].row)
      /\ work'[w].dirty = TRUE
      /\ work'[w].wrote = work[w].wrote /\ work'[w].recorded = work[w].recorded
  BY <1>3, <1>4, Marks
<1>6. /\ work'[w].row.status = NextStatus(w) /\ work'[w].row.version = 2
      /\ work'[w].row.key = work[w].row.key /\ work'[w].row.no = work[w].row.no
  BY <1>3, <1>5, Saves DEF Holds
<1>7. approvals' = approvals /\ effects' = effects /\ req' = req
  BY <1>2 DEF Unchanged, db
<1>8. approvals[work[w].id].status = "pending"
  BY <1>2, <1>3 DEF UpdateMatches, Holds, IInv, RowsOK, RowOK, Shapes
<1>9. \A v \in Workers \ {w} : Stays(v)
  BY StepFrame DEF IInv
<1>10. SnapPast(w)'
  BY <1>2, SnapKept DEF Unchanged, db
<1>11. OwnsPending(w)'
  BY <1>3, <1>5, <1>6, <1>7, <1>8 DEF OwnsPending
<1>12. Phase(w)'
  BY <1>3, <1>4, <1>5, <1>6, <1>7, <1>11 DEF Phase, Closed, Holds, NextStatus
<1>13. \A v \in Workers : SnapPast(v)' /\ Phase(v)'
  BY <1>7, <1>9, <1>10, <1>12, OthersKeep
<1>14. RowsOK' /\ ExactlyOnce' /\ KeysIdentify'
  BY <1>7 DEF IInv, RowsOK, RowOK, ExactlyOnce, KeysIdentify, Present, WithKey
<1>15. \A u, v \in Workers : Exclusive(u, v)'
  BY <1>2, <1>5, <1>9 DEF IInv, Exclusive, Stays, RowLocked, Others
<1>16. NoClash'
  <2>1. Present(approvals)' = Present(approvals)
    BY <1>7 DEF Present
  <2>2. \A v \in Workers : Inserting(v)' =>
            v # w /\ Inserting(v) /\ work'[v].row = work[v].row
    BY <1>5, <1>7, <1>8, <1>9 DEF Inserting, Stays
  <2>3. NoClash
    BY DEF IInv
  <2> QED
    BY <1>7, <2>1, <2>2, <2>3 DEF NoClash
<1> QED
  BY <1>13, <1>14, <1>15, <1>16 DEF IInv

\* Approve and Reject up to the UPDATE.
LEMMA DecideKeeps ==
    ASSUME IInv, NEW w \in Workers, Step(w), TypeOK',
           RefuseDecision(w) \/ RepeatDecision(w) \/ Decide(w) \/ MarkConflict(w)
    PROVE  IInv'
<1>1. CASE RefuseDecision(w) \/ MarkConflict(w)
  BY <1>1, FailKeeps DEF RefuseDecision, Deciding, MarkConflict
<1>2. CASE RepeatDecision(w)
  <2>1. PICK i \in Named(w) : Hold(w, Loaded(i, snap[w].approvals[i]))
    BY <1>2 DEF RepeatDecision
  <2>2. i \in Ids /\ snap[w].approvals[i].status # "absent"
    BY DEF Named, WithNo, Present
  <2> QED
    BY <1>2, <2>1, <2>2, LoadKeeps DEF RepeatDecision, Deciding
<1>3. CASE Decide(w)
  <2>1. PICK i \in Named(w) :
            /\ <<snap[w].approvals[i].status, NextStatus(w)>> \in AllowedTransitions
            /\ Hold(w, Loaded(i, [snap[w].approvals[i] EXCEPT !.status = NextStatus(w),
                                                             !.by = req[w].user]))
    BY <1>3 DEF Decide
  <2> DEFINE s == snap[w].approvals[i]
             r == [s EXCEPT !.status = NextStatus(w), !.by = req[w].user]
  <2>2. /\ pc[w] = "started" /\ req[w].kind \in {"approve", "reject"}
        /\ Goto(w, "mark") /\ Unchanged
    BY <1>3 DEF Decide, Deciding
  <2>3. i \in Ids /\ s.status # "absent"
    BY DEF Named, WithNo, Present
  <2>4. s \in Row
    BY <2>2, <2>3, SnapTyped
  <2>5. /\ RowOK(s) /\ approvals[i].status # "absent"
        /\ approvals[i].key = s.key /\ approvals[i].no = s.no
    BY <2>2, <2>3 DEF IInv, SnapPast
  <2>6. s.version = 1
    BY <2>1, <2>2, <2>5 DEF RowOK, Shapes, AllowedTransitions, NextStatus
  <2>7. r.status = NextStatus(w) /\ r.version = 1 /\ r.key = s.key /\ r.no = s.no
    BY <2>4, <2>6 DEF Row
  <2>8. work'[w] = Loaded(i, r) /\ pc'[w] = "mark"
    BY <2>1, <2>2 DEF IInv, TypeOK, Hold, Goto
  <2>9. /\ work'[w].id = i /\ work'[w].row = r /\ work'[w].dirty = FALSE
        /\ work'[w].wrote = FALSE /\ work'[w].recorded = FALSE
    BY <2>8 DEF Loaded
  <2>10. Kept(w)
    BY <2>9 DEF Kept
  <2>11. SnapPast(w)'
    BY <2>2, SnapKept DEF Unchanged, db
  <2> HIDE DEF r
  <2>12. Phase(w)'
    BY <2>2, <2>3, <2>5, <2>7, <2>8, <2>9 DEF Phase, Holds, NextStatus, Unchanged, db
  <2> QED
    BY <2>2, <2>10, <2>11, <2>12, LocalKeeps DEF Unchanged, db
<1> QED
  BY <1>1, <1>2, <1>3

\* executeApprovedAction and the second UPDATE, on the row that is locked.
LEMMA ExecuteKeeps ==
    ASSUME IInv, NEW w \in Workers, Step(w), TypeOK',
           \/ ExecuteInvalid(w) \/ ExecuteErrs(w) \/ ExecuteWrite(w) \/ RecordAction(w)
           \/ Finish(w) \/ FinishFailed(w)
    PROVE  IInv'
<1>1. pc[w] \in {"execute", "record", "finish", "failed"} /\ Unchanged
  BY DEF ExecuteInvalid, ExecuteErrs, ExecuteWrite, RecordAction, Finish, FinishFailed, Close
<1>2. OwnsPending(w) /\ work[w].row.status = "approved"
  BY <1>1 DEF IInv, Phase, Holds
<1>3. work[w] \in Work /\ work[w].row \in Row
  BY WorkTyped DEF IInv, TypeOK
<1>4. SnapPast(w)'
  BY <1>1, SnapKept DEF Unchanged, db
<1>5. approvals' = approvals /\ effects' = effects
  BY <1>1 DEF Unchanged, db
<1>6. ASSUME Kept(w), Phase(w)'
      PROVE  IInv'
  BY <1>4, <1>5, <1>6, LocalKeeps
<1>7. CASE ExecuteInvalid(w) \/ ExecuteErrs(w)
  <2>1. work' = work /\ pc'[w] = "failed"
    BY <1>7 DEF ExecuteInvalid, ExecuteErrs, Goto, IInv, TypeOK
  <2> QED
    BY <1>2, <1>5, <1>6, <2>1 DEF Kept, Phase, OwnsPending
<1>8. CASE ExecuteWrite(w)
  <2>1. PICK o : Hold(w, [work[w] EXCEPT !.wrote = TRUE, !.old = o])
    BY <1>8 DEF ExecuteWrite
  <2>2. pc[w] = "execute" /\ pc'[w] = "record"
        /\ work'[w] = [work[w] EXCEPT !.wrote = TRUE, !.old = o]
    BY <1>8, <2>1 DEF ExecuteWrite, Goto, Hold, IInv, TypeOK
  <2>3. /\ work'[w].id = work[w].id /\ work'[w].row = work[w].row
        /\ work'[w].dirty = work[w].dirty
        /\ work'[w].wrote = TRUE /\ work'[w].recorded = work[w].recorded
    BY <1>3, <2>2, Writes
  <2>4. Holds(w, "approved", 2, FALSE, FALSE)
    BY <2>2 DEF IInv, Phase
  <2> QED
    BY <1>2, <1>5, <1>6, <2>2, <2>3, <2>4 DEF Kept, Phase, OwnsPending, Holds
<1>9. CASE RecordAction(w)
  <2> DEFINE unique == effects[work[w].id].actions = 0
  <2>1. pc[w] = "record" /\ Holds(w, "approved", 2, TRUE, FALSE)
    BY <1>9 DEF RecordAction, IInv, Phase
  <2>2. unique = TRUE
    BY <1>2 DEF OwnsPending, IInv, ExactlyOnce
  <2>3. Hold(w, [work[w] EXCEPT !.recorded = TRUE]) /\ Goto(w, "finish")
    BY <1>9, <2>2 DEF RecordAction
  <2>4. pc'[w] = "finish" /\ work'[w] = [work[w] EXCEPT !.recorded = TRUE]
    BY <2>3 DEF Goto, Hold, IInv, TypeOK
  <2>5. /\ work'[w].id = work[w].id /\ work'[w].row = work[w].row
        /\ work'[w].dirty = work[w].dirty
        /\ work'[w].wrote = work[w].wrote /\ work'[w].recorded = TRUE
    BY <1>3, <2>4, Records
  <2> QED
    BY <1>2, <1>5, <1>6, <2>1, <2>4, <2>5 DEF Kept, Phase, OwnsPending, Holds
<1>10. CASE Finish(w) \/ FinishFailed(w)
  <2>1. PICK s \in Statuses, e \in Events, l \in {"reply", "rollback"} :
            /\ Close(w, s, e, l)
            /\ l = "reply" => pc[w] = "finish" /\ s = "executed"
    BY <1>10 DEF Finish, FinishFailed, Statuses, Events
  <2>2. PICK v : Hold(w, [work[w] EXCEPT !.row = Saved([@ EXCEPT !.status = s]),
                                         !.events = @ \cup v])
    BY <2>1 DEF Close
  <2> DEFINE r == Saved([work[w].row EXCEPT !.status = s])
  <2>3. pc'[w] = l /\ work'[w] = [work[w] EXCEPT !.row = r, !.events = @ \cup v]
    BY <2>1, <2>2 DEF Close, Goto, Hold, IInv, TypeOK
  <2>4. /\ r.status = s /\ r.version = work[w].row.version + 1
        /\ r.key = work[w].row.key /\ r.no = work[w].row.no
    BY <1>3, SavesStatus
  <2> HIDE DEF r
  <2>5. /\ work'[w].id = work[w].id /\ work'[w].row = r
        /\ work'[w].dirty = work[w].dirty
        /\ work'[w].wrote = work[w].wrote /\ work'[w].recorded = work[w].recorded
    BY <1>3, <2>3, Closes
  <2>6. Kept(w)
    BY <2>4, <2>5 DEF Kept
  <2>7. OwnsPending(w)'
    BY <1>2, <1>5, <2>4, <2>5 DEF OwnsPending
  <2>8. l = "reply" => Holds(w, "approved", 2, TRUE, TRUE)
    BY <2>1 DEF IInv, Phase
  <2>9. l = "reply" => Holds(w, "executed", 3, TRUE, TRUE)'
    BY <2>1, <2>4, <2>5, <2>8 DEF Holds
  <2>10. Phase(w)'
    BY <2>3, <2>7, <2>9 DEF Phase, Closed, OwnsPending, Holds
  <2> QED
    BY <1>6, <2>6, <2>10
<1> QED
  BY <1>7, <1>8, <1>9, <1>10

LEMMA ReplyKeeps ==
    ASSUME IInv, NEW w \in Workers, Step(w), TypeOK', Reply(w)
    PROVE  IInv'
<1>1. pc[w] = "reply" /\ pc'[w] = "commit" /\ UNCHANGED <<db, req, snap, work>>
  BY DEF Reply, Goto, IInv, TypeOK
<1>2. Phase(w)'
  BY <1>1 DEF IInv, Phase, Inserted, Closed, OwnsPending, FreshRow, Holds, db
<1>3. SnapPast(w)'
  BY <1>1, SnapKept DEF db
<1> QED
  BY <1>1, <1>2, <1>3, LocalKeeps DEF Kept, db

\* What a commit publishes: a new pending row, a rejection, or an execution with its
\* one effect; in each case on a row no other transaction holds.
LEMMA Published ==
    ASSUME IInv, NEW w \in Workers, Commit(w), work[w].dirty
    PROVE  LET i == work[w].id
           IN  /\ i \in Ids
               /\ work[w].row \in Row
               /\ work[w].row.key \in Keys
               /\ approvals' = [approvals EXCEPT ![i] = work[w].row]
               /\ \A j \in Ids \ {i} : effects'[j] = effects[j]
               /\ \/ Inserted(w) /\ effects'[i].writes = 0 /\ effects'[i].actions = 0
                  \/ /\ OwnsPending(w)
                     /\ work[w].row.status = "rejected" /\ work[w].row.version = 2
                     /\ effects'[i].writes = 0 /\ effects'[i].actions = 0
                  \/ /\ OwnsPending(w)
                     /\ work[w].row.status = "executed" /\ work[w].row.version = 3
                     /\ effects'[i].writes = 1 /\ effects'[i].actions = 1
<1> DEFINE i == work[w].id
<1>1. pc[w] = "commit" /\ Publish(w)
  BY DEF Commit
<1>2. i \in Ids /\ work[w].row \in Row /\ (Inserted(w) \/ Closed(w))
  BY <1>1, WorkTyped DEF IInv, TypeOK, Phase
<1>3. /\ approvals' = [approvals EXCEPT ![i] = work[w].row]
      /\ effects' = [effects EXCEPT ![i] =
               [writes |-> @.writes + One(work[w].wrote),
                actions |-> @.actions + One(work[w].recorded),
                old |-> IF work[w].recorded THEN work[w].old ELSE @.old]]
  BY <1>1 DEF Publish
<1>4. /\ \A j \in Ids \ {i} : effects'[j] = effects[j]
      /\ effects'[i].writes = effects[i].writes + One(work[w].wrote)
      /\ effects'[i].actions = effects[i].actions + One(work[w].recorded)
  BY <1>2, <1>3 DEF IInv, TypeOK
<1>5. approvals[i].status # "executed"
  BY <1>2 DEF Inserted, Closed, OwnsPending
<1>6. effects[i].writes = 0 /\ effects[i].actions = 0
  BY <1>2, <1>5 DEF IInv, ExactlyOnce
<1>7. work[w].row.key \in Keys
  BY <1>2 DEF Inserted, FreshRow, Closed, OwnsPending, IInv, RowsOK, RowOK
<1>8. CASE Inserted(w)
  <2>1. effects'[i].writes = 0 /\ effects'[i].actions = 0
    BY <1>4, <1>6, <1>8 DEF Inserted, Holds, One
  <2> QED
    BY <1>2, <1>3, <1>4, <1>7, <1>8, <2>1
<1>9. CASE OwnsPending(w) /\ Holds(w, "rejected", 2, FALSE, FALSE)
  <2>1. effects'[i].writes = 0 /\ effects'[i].actions = 0
    BY <1>4, <1>6, <1>9 DEF Holds, One
  <2> QED
    BY <1>2, <1>3, <1>4, <1>7, <1>9, <2>1 DEF Holds
<1>10. CASE OwnsPending(w) /\ Holds(w, "executed", 3, TRUE, TRUE)
  <2>1. effects'[i].writes = 1 /\ effects'[i].actions = 1
    BY <1>4, <1>6, <1>10 DEF Holds, One
  <2> QED
    BY <1>2, <1>3, <1>4, <1>7, <1>10, <2>1 DEF Holds
<1> QED
  BY <1>2, <1>8, <1>9, <1>10 DEF Closed

\* A commit keeps the invariant.
LEMMA PublishKeeps ==
    ASSUME IInv, NEW w \in Workers, Step(w), TypeOK', Commit(w), work[w].dirty
    PROVE  IInv'
<1> DEFINE i == work[w].id
           r == work[w].row
<1>1. /\ i \in Ids /\ r \in Row /\ r.key \in Keys
      /\ approvals' = [approvals EXCEPT ![i] = r]
      /\ \A j \in Ids \ {i} : effects'[j] = effects[j]
  BY Published
<1>2. approvals'[i] = r /\ \A j \in Ids \ {i} : approvals'[j] = approvals[j]
  BY <1>1 DEF IInv, TypeOK
<1>3. pc'[w] = "idle" /\ work'[w].dirty = FALSE
  BY NoWorkTyped DEF Commit, Release, Goto, Hold, IInv, TypeOK
<1>4. \A v \in Workers \ {w} : Stays(v)
  BY StepFrame DEF IInv
<1>5. \/ Inserted(w)
      \/ OwnsPending(w) /\ <<r.status, r.version>> \in {<<"rejected", 2>>, <<"executed", 3>>}
  BY Published
<1>6. \/ approvals[i].status = "absent" /\ r.status = "pending" /\ r.version = 1
      \/ /\ approvals[i].status = "pending"
         /\ r.key = approvals[i].key /\ r.no = approvals[i].no
         /\ <<r.status, r.version>> \in {<<"rejected", 2>>, <<"executed", 3>>}
  BY <1>5 DEF Inserted, OwnsPending, Holds
<1>7. RowsOK'
  <2>1. RowOK(r)
    BY <1>1, <1>6 DEF RowOK, Shapes
  <2>2. \A j \in Ids : RowOK(approvals[j])
    BY DEF IInv, RowsOK
  <2> QED
    BY <1>2, <2>1, <2>2 DEF RowsOK, RowOK
<1>8. ExactlyOnce'
  <2>1. \A j \in Ids \ {i} :
            LET n == IF approvals'[j].status = "executed" THEN 1 ELSE 0
            IN  effects'[j].writes = n /\ effects'[j].actions = n
    BY <1>1, <1>2 DEF IInv, ExactlyOnce
  <2>2. LET n == IF r.status = "executed" THEN 1 ELSE 0
        IN  effects'[i].writes = n /\ effects'[i].actions = n
    BY Published DEF Inserted, Holds
  <2> QED
    BY <1>2, <2>1, <2>2 DEF ExactlyOnce
<1>9. \A b \in Ids : approvals[b].status = "rejected" =>
          b # i /\ approvals'[b] = approvals[b]
  BY <1>2, <1>6
<1>10. ASSUME NEW v \in Workers PROVE SnapPast(v)' /\ Phase(v)'
  <2>1. CASE v = w
    BY <1>3, <2>1, NoWorkTyped DEF SnapPast, Phase, Commit, Release, Hold, Goto, IInv, TypeOK
  <2>2. CASE v # w
    <3>1. Stays(v)
      BY <1>4, <2>2
    <3>2. SnapPast(v) /\ Phase(v)
      BY DEF IInv
    <3>3. SnapPast(v)'
      <4> SUFFICES ASSUME pc[v] # "idle", NEW j \in Ids
                   PROVE  LET s == snap[v].approvals[j]
                          IN  /\ RowOK(s)
                              /\ s.status # "absent" =>
                                  /\ approvals'[j].status # "absent"
                                  /\ approvals'[j].key = s.key
                                  /\ approvals'[j].no = s.no
                              /\ s.status \in {"rejected", "executed"} =>
                                  approvals'[j].status = s.status
        BY <3>1, <3>2 DEF SnapPast, Stays, RowOK
      <4>1. CASE j = i
        BY <1>2, <1>6, <3>2, <4>1 DEF SnapPast
      <4>2. CASE j # i
        BY <1>2, <3>2, <4>2 DEF SnapPast
      <4> QED
        BY <4>1, <4>2
    <3>4. work[v].dirty => work[v].id # i
      BY <2>2 DEF IInv, Exclusive
    <3>5. FreshRow(v) => FreshRow(v)'
      BY <1>9, <3>1 DEF FreshRow, Stays
    <3>6. OwnsPending(v) => OwnsPending(v)'
      BY <1>2, <3>1, <3>4 DEF OwnsPending, Stays
    <3>7. Inserted(v) => Inserted(v)'
      BY <1>2, <3>1, <3>4, <3>5 DEF Inserted, Stays, Holds
    <3>8. Closed(v) => Closed(v)'
      BY <3>1, <3>6 DEF Closed, Stays, Holds
    <3>9. pc[v] = "mark" =>
            /\ approvals'[work[v].id].status # "absent"
            /\ work[v].row.key = approvals'[work[v].id].key
            /\ work[v].row.no = approvals'[work[v].id].no
      <4> SUFFICES ASSUME pc[v] = "mark"
                   PROVE  /\ approvals'[work[v].id].status # "absent"
                          /\ work[v].row.key = approvals'[work[v].id].key
                          /\ work[v].row.no = approvals'[work[v].id].no
        OBVIOUS
      <4>1. /\ work[v].id \in Ids
            /\ approvals[work[v].id].status # "absent"
            /\ work[v].row.key = approvals[work[v].id].key
            /\ work[v].row.no = approvals[work[v].id].no
        BY <3>2 DEF Phase
      <4> QED
        BY <1>2, <1>6, <4>1
    <3>10. Phase(v)'
      BY <3>1, <3>2, <3>5, <3>6, <3>7, <3>8, <3>9 DEF Phase, Stays, NextStatus, Holds
    <3> QED
      BY <3>3, <3>10
  <2> QED
    BY <2>1, <2>2
<1>11. \A u, v \in Workers : Exclusive(u, v)'
  BY <1>3, <1>4 DEF IInv, Exclusive, Stays
<1>12. NoClash'
  <2>1. NoClash
    BY DEF IInv
  <2>2. Present(approvals)' = Present(approvals) \cup {i}
    BY <1>1, <1>2, <1>6 DEF Present
  <2>3. \A j \in Present(approvals) \ {i} : ~ Clash(approvals[j], r)
    <3>1. CASE i \in Present(approvals)
      BY <1>6, <2>1, <3>1 DEF NoClash, Clash, Present
    <3>2. CASE i \notin Present(approvals)
      BY <1>1, <1>5, <2>1, <3>2 DEF NoClash, Inserting, Inserted, OwnsPending, Present
    <3> QED
      BY <3>1, <3>2
  <2>4. \A j, k \in Present(approvals)' : j # k => ~ Clash(approvals'[j], approvals'[k])
    BY <1>2, <2>1, <2>2, <2>3 DEF NoClash, Clash, Present
  <2>5. \A v \in Workers : Inserting(v)' =>
            /\ v # w /\ Inserting(v)
            /\ work'[v].row = work[v].row
    <3> SUFFICES ASSUME NEW v \in Workers, Inserting(v)'
                 PROVE  v # w /\ Inserting(v) /\ work'[v].row = work[v].row
      OBVIOUS
    <3>1. v # w
      BY <1>3 DEF Inserting
    <3>2. work'[v] = work[v] /\ work[v].dirty
      BY <1>4, <3>1 DEF Inserting, Stays
    <3>3. work[v].id \in Ids /\ work[v].id # i
      BY <3>1, <3>2 DEF IInv, TypeOK, Exclusive
    <3> QED
      BY <1>2, <3>1, <3>2, <3>3 DEF Inserting
  <2>6. ASSUME NEW v \in Workers, Inserting(v)'
        PROVE  ~ Clash(r, work[v].row)
    <3>1. v # w /\ Inserting(v)
      BY <2>5, <2>6
    <3>2. CASE i \in Present(approvals)
      BY <1>6, <2>1, <3>1, <3>2 DEF NoClash, Clash, Present
    <3>3. CASE i \notin Present(approvals)
      <4>1. Inserting(w)
        BY <1>1, <3>3 DEF Inserting, Present
      <4> QED
        BY <2>1, <3>1, <4>1 DEF NoClash
    <3> QED
      BY <3>2, <3>3
  <2> QED
    BY <1>2, <2>1, <2>2, <2>4, <2>5, <2>6 DEF NoClash, Present
<1>13. KeysIdentify'
  <2>1. ASSUME NEW j \in Present(approvals)', approvals'[j].key.retry # None
        PROVE  \E b \in WithKey(approvals', BaseKey(approvals'[j].key.base)) :
                   approvals'[b].status = "rejected"
    <3>1. \E b \in Ids : /\ approvals[b].status = "rejected"
                         /\ approvals[b].key = BaseKey(approvals'[j].key.base)
      <4>1. CASE j = i /\ Inserted(w)
        BY <1>2, <2>1, <4>1 DEF Inserted, FreshRow
      <4>2. CASE j \in Present(approvals) /\ approvals'[j].key = approvals[j].key
        BY <2>1, <4>2 DEF IInv, KeysIdentify, WithKey, Present
      <4> QED
        BY <1>1, <1>2, <1>5, <1>6, <2>1, <4>1, <4>2 DEF Present, OwnsPending
    <3> QED
      BY <1>9, <3>1 DEF WithKey, Present
  <2> QED
    BY <1>12, <2>1 DEF KeysIdentify, NoClash
<1> QED
  BY <1>7, <1>8, <1>10, <1>11, <1>12, <1>13 DEF IInv

LEMMA Initial == ConstantsAssumption /\ Init => IInv
<1> SUFFICES ASSUME ConstantsAssumption, Init PROVE IInv
  OBVIOUS
<1>1. NoRow \in Row /\ NoEffect \in Effect
  BY DEF NoRow, NoEffect, Row, Effect, Keys
<1>2. TypeOK
  BY <1>1, NoWorkTyped DEF Init, TypeOK, PCs
<1>3. \A i \in Ids : approvals[i].status = "absent" /\ approvals[i].version = 0
  BY DEF Init, NoRow
<1>4. \A w \in Workers : pc[w] = "idle" /\ work[w] = NoWork /\ work[w].dirty = FALSE
  BY NoWorkTyped DEF Init
<1>5. RowsOK
  BY <1>3 DEF RowsOK, RowOK, Shapes
<1>6. ExactlyOnce
  BY <1>3 DEF Init, ExactlyOnce, NoEffect
<1>7. \A w \in Workers : SnapPast(w) /\ Phase(w)
  BY <1>4 DEF SnapPast, Phase
<1>8. \A v, w \in Workers : Exclusive(v, w)
  BY <1>4 DEF Exclusive
<1>9. NoClash /\ KeysIdentify
  BY <1>3, <1>4 DEF NoClash, KeysIdentify, Present, Inserting
<1> QED
  BY <1>2, <1>5, <1>6, <1>7, <1>8, <1>9 DEF IInv

\* A step of a worker keeps the invariant.
LEMMA StepKeeps ==
    ASSUME ConstantsAssumption, IInv, NEW w \in Workers, Step(w)
    PROVE  IInv'
<1>1. TypeOK'
  BY TypeStep
<1>2. CASE Start(w)
  BY <1>1, <1>2, StartKeeps
<1>3. CASE Create(w)
  BY <1>1, <1>3, CreateKeeps, InsertKeeps
<1>4. CASE DecideRequest(w)
  BY <1>1, <1>4, DecideKeeps, MarkKeeps, ExecuteKeeps DEF DecideRequest
<1>5. CASE Reply(w)
  BY <1>1, <1>5, ReplyKeeps
<1>6. CASE Commit(w)
  <2>1. CASE work[w].dirty
    BY <1>1, <1>6, <2>1, PublishKeeps
  <2>2. CASE ~ work[w].dirty
    BY <1>1, <1>6, <2>2, ReleaseKeeps DEF Commit
  <2> QED
    BY <2>1, <2>2
<1>7. CASE CommitFails(w) \/ Rollback(w)
  BY <1>1, <1>7, ReleaseKeeps DEF CommitFails, Rollback
<1>8. CASE Abort(w) \/ AbortBusy(w) \/ InsertErrs(w)
  BY <1>1, <1>8, FailKeeps, LookUpKeeps DEF Abort, AbortBusy, InsertErrs
<1>9. CASE ExecuteErrs(w)
  BY <1>1, <1>9, ExecuteKeeps
<1> QED
  BY <1>2, <1>3, <1>4, <1>5, <1>6, <1>7, <1>8, <1>9 DEF Step, Handle, EndTx, Break

\* A step that touches neither the tables nor any worker keeps the invariant.
LEMMA TickKeeps ==
    ASSUME IInv, Tick \/ Done \/ UNCHANGED vars
    PROVE  IInv'
<1>1. /\ UNCHANGED <<approvals, effects, tickets, audit, issued, pc, req, snap, work,
                     told, lost>>
      /\ clock' \in Nat
  BY DEF Tick, Done, vars, db, history, IInv, TypeOK
<1>2. TypeOK'
  BY <1>1 DEF IInv, TypeOK
<1>3. \A w \in Workers : SnapPast(w)' /\ Phase(w)'
  BY <1>1, OthersKeep DEF Stays
<1>4. RowsOK' /\ ExactlyOnce' /\ KeysIdentify'
  BY <1>1 DEF IInv, RowsOK, RowOK, ExactlyOnce, KeysIdentify, Present, WithKey
<1>5. \A v, w \in Workers : Exclusive(v, w)'
  BY <1>1 DEF IInv, Exclusive
<1>6. NoClash'
  BY <1>1 DEF IInv, NoClash, Present, Inserting
<1> QED
  BY <1>2, <1>3, <1>4, <1>5, <1>6 DEF IInv

LEMMA NextKeeps == ConstantsAssumption /\ IInv /\ [Next]_vars => IInv'
BY StepKeeps, TickKeeps DEF Next, Step

\* The inductive invariant holds in every reachable state, whatever the engine, the
\* number of requests in flight, proposals, users and traces (http.go withTx,
\* approval.go).
THEOREM Inductive == Spec => []IInv
<1>1. ConstantsAssumption
  BY ConstantsAssumption
<1> QED
  BY <1>1, Initial, NextKeeps, PTL DEF Spec

\* Every variable keeps its type.
THEOREM TypeCorrect == Spec => []TypeOK
<1>1. IInv => TypeOK
  BY DEF IInv
<1> QED
  BY <1>1, Inductive, PTL

\* However requests interleave, fail, repeat and restart, an approval has its business
\* write and its ticket_actions row once if it is executed and never otherwise
\* (approval.go Approve, executeApprovedAction).
THEOREM EffectsExactlyOnce == Spec => []ExactlyOnce
<1>1. IInv => ExactlyOnce
  BY DEF IInv
<1> QED
  BY <1>1, Inductive, PTL

\* Only whole decisions are ever committed: version 1 pending, 2 rejected, 3 executed
\* (http.go withTx, repository_approval.go UpdateWithVersion).
THEOREM DecisionsWhole == Spec => []WholeDecisions
<1>1. IInv => WholeDecisions
  BY DEF IInv, RowsOK, RowOK, Shapes, WholeDecisions
<1> QED
  BY <1>1, Inductive, PTL

\* Keys and numbers name one approval each, and a retry follows a rejection
\* (approval.go CreateProposal, schema.go).
THEOREM KeysUnique == Spec => []KeysIdentify
<1>1. IInv => KeysIdentify
  BY DEF IInv
<1> QED
  BY <1>1, Inductive, PTL

\* Only a commit of uncommitted writes changes the tables.
LEMMA TablesStay ==
    ASSUME NEW w \in Workers, Step(w), ~ (Commit(w) /\ work[w].dirty)
    PROVE  approvals' = approvals /\ effects' = effects
<1> USE DEF Unchanged, db
<1>1. CASE Start(w)
  BY <1>1 DEF Start
<1>2. CASE Create(w)
  BY <1>2 DEF Create, RefuseProposal, ReuseProposal, PrepareProposal, InsertRow, InsertDuplicate
<1>3. CASE DecideRequest(w)
  BY <1>3 DEF DecideRequest, RefuseDecision, RepeatDecision, Decide, Mark, MarkConflict,
              ExecuteInvalid, ExecuteWrite, RecordAction, Finish, FinishFailed, Close
<1>4. CASE EndTx(w) \/ Break(w)
  BY <1>4 DEF EndTx, Reply, Commit, Rollback, AbortBusy, Break, Abort, InsertErrs,
              ExecuteErrs, CommitFails
<1> QED
  BY <1>1, <1>2, <1>3, <1>4 DEF Step, Handle

LEMMA DecidedStays ==
    ASSUME IInv, [Next]_vars, NEW i \in Ids, approvals[i].status \in {"executed", "rejected"}
    PROVE  approvals'[i] = approvals[i] /\ effects'[i] = effects[i]
<1>1. CASE Tick \/ Done \/ UNCHANGED vars
  BY <1>1 DEF Tick, Done, vars, db
<1>2. ASSUME NEW w \in Workers, Step(w)
      PROVE  approvals'[i] = approvals[i] /\ effects'[i] = effects[i]
  <2>1. CASE Commit(w) /\ work[w].dirty
    <3>1. i # work[w].id
      BY <2>1, Published DEF Inserted, OwnsPending
    <3> QED
      BY <2>1, <3>1, Published DEF IInv, TypeOK
  <2> QED
    BY <1>2, <2>1, TablesStay
<1> QED
  BY <1>1, <1>2 DEF Next, Step

\* No step ever changes an executed or a rejected approval, nor its effect
\* (approval.go Approve, Reject).
THEOREM Final == Spec => DecisionsFinal
<1>1. IInv /\ [Next]_vars =>
        [\A i \in Ids :
            approvals[i].status \in {"executed", "rejected"} =>
                approvals'[i] = approvals[i] /\ effects'[i] = effects[i]]_vars
  BY DecidedStays
<1> QED
  BY <1>1, Inductive, PTL DEF Spec, DecisionsFinal

\* A commit is one step of the abstract lifecycle.
LEMMA PublishRefines ==
    ASSUME IInv, NEW w \in Workers, Commit(w), work[w].dirty
    PROVE  Lifecycle!ANext
<1> DEFINE r == work[w].row
<1>0. PICK i \in Ids : i = work[w].id
  BY Published
<1>1. /\ i \in Ids /\ r.key \in Keys
      /\ approvals' = [approvals EXCEPT ![i] = r]
      /\ \A j \in Ids \ {i} : effects'[j] = effects[j]
  BY <1>0, Published
<1>2. /\ i \in Ids
      /\ approvals'[i] = r /\ \A j \in Ids \ {i} : approvals'[j] = approvals[j]
  BY <1>1 DEF IInv, TypeOK
<1>3. CASE Inserted(w)
  <2>1. /\ approvals[i].status = "absent" /\ r.status = "pending"
        /\ FreshRow(w) /\ effects'[i].writes = 0
    BY <1>0, <1>3, Published DEF Inserted, OwnsPending, Holds
  <2>2. effects[i].writes = 0
    BY <1>1, <2>1 DEF IInv, ExactlyOnce
  <2>3. ~ Lifecycle!Taken(r.key)
    <3>1. Inserting(w)
      BY <1>3, <2>1 DEF Inserting, Inserted
    <3>2. \A j \in Present(approvals) : approvals[j].key # r.key
      BY <3>1 DEF IInv, NoClash, Clash
    <3> QED
      BY <3>2 DEF Lifecycle!Taken, Present
  <2> DEFINE p == r.key.base
  <2>4. p \in Proposals /\ r.key \in {Lifecycle!BaseKey(p)} \cup Lifecycle!RetryKeys(p)
    BY <1>1 DEF Keys, Lifecycle!BaseKey, Lifecycle!RetryKeys
  <2>5. r.key \in Lifecycle!RetryKeys(p) => Lifecycle!Refused(p)
    <3>1. r.key \in Lifecycle!RetryKeys(p) => r.key.retry # None
      BY ConstantsAssumption DEF Lifecycle!RetryKeys, ConstantsAssumption
    <3>2. r.key.retry # None => \E b \in Ids : /\ approvals[b].status = "rejected"
                                               /\ approvals[b].key = BaseKey(p)
      BY <2>1 DEF FreshRow
    <3> QED
      BY <3>1, <3>2 DEF Lifecycle!Refused, Lifecycle!BaseKey, BaseKey
  <2>6. [j \in Ids |-> approvals'[j].key] =
            [[j \in Ids |-> approvals[j].key] EXCEPT ![i] = r.key]
    BY <1>2
  <2>7. [j \in Ids |-> approvals'[j].status] =
            [[j \in Ids |-> approvals[j].status] EXCEPT ![i] = "pending"]
    BY <1>2, <2>1
  <2>8. [j \in Ids |-> effects'[j].writes] = [j \in Ids |-> effects[j].writes]
    BY <1>1, <2>1, <2>2
  <2>9. Lifecycle!Propose(i)
    BY <1>1, <2>1, <2>3, <2>4, <2>5, <2>6, <2>7, <2>8 DEF Lifecycle!Propose
  <2> QED
    BY <1>1, <2>9 DEF Lifecycle!ANext
<1>4. CASE OwnsPending(w) /\ r.status = "rejected" /\ effects'[i].writes = 0
  <2>1. approvals[i].status = "pending" /\ r.key = approvals[i].key
    BY <1>0, <1>4 DEF OwnsPending
  <2>2. effects[i].writes = 0
    BY <1>1, <2>1 DEF IInv, ExactlyOnce
  <2>3. [j \in Ids |-> approvals'[j].key] = [j \in Ids |-> approvals[j].key]
    BY <1>2, <2>1
  <2>4. [j \in Ids |-> approvals'[j].status] =
            [[j \in Ids |-> approvals[j].status] EXCEPT ![i] = "rejected"]
    BY <1>2, <1>4
  <2>5. [j \in Ids |-> effects'[j].writes] = [j \in Ids |-> effects[j].writes]
    BY <1>1, <1>4, <2>2
  <2>6. Lifecycle!Reject(i)
    BY <1>1, <2>1, <2>3, <2>4, <2>5 DEF Lifecycle!Reject
  <2> QED
    BY <1>1, <2>6 DEF Lifecycle!ANext
<1>5. CASE OwnsPending(w) /\ r.status = "executed" /\ effects'[i].writes = 1
  <2>1. approvals[i].status = "pending" /\ r.key = approvals[i].key
    BY <1>0, <1>5 DEF OwnsPending
  <2>2. effects[i].writes = 0
    BY <1>1, <2>1 DEF IInv, ExactlyOnce
  <2>3. [j \in Ids |-> approvals'[j].key] = [j \in Ids |-> approvals[j].key]
    BY <1>2, <2>1
  <2>4. [j \in Ids |-> approvals'[j].status] =
            [[j \in Ids |-> approvals[j].status] EXCEPT ![i] = "executed"]
    BY <1>2, <1>5
  <2>5. [j \in Ids |-> effects'[j].writes] =
            [[j \in Ids |-> effects[j].writes] EXCEPT ![i] = @ + 1]
    <3>1. [j \in Ids |-> effects'[j].writes] =
              [[j \in Ids |-> effects[j].writes] EXCEPT ![i] = 1]
      BY <1>1, <1>5
    <3>2. [j \in Ids |-> effects[j].writes][i] + 1 = 1
      BY <2>2
    <3> QED
      BY <3>1, <3>2
  <2>6. Lifecycle!Execute(i)
    BY <1>1, <2>1, <2>3, <2>4, <2>5 DEF Lifecycle!Execute
  <2> QED
    BY <1>1, <2>6 DEF Lifecycle!ANext
<1> QED
  BY <1>0, <1>3, <1>4, <1>5, Published

\* A step that leaves the tables alone is a stutter of the abstract lifecycle.
LEMMA StutterRefines ==
    ASSUME approvals' = approvals, effects' = effects
    PROVE  UNCHANGED Lifecycle!avars
BY DEF Lifecycle!avars

LEMMA StepRefines == IInv /\ [Next]_vars => [Lifecycle!ANext]_(Lifecycle!avars)
<1> SUFFICES ASSUME IInv, [Next]_vars PROVE [Lifecycle!ANext]_(Lifecycle!avars)
  OBVIOUS
<1>1. CASE Tick \/ Done \/ UNCHANGED vars
  BY <1>1, StutterRefines DEF Tick, Done, vars, db
<1>2. ASSUME NEW w \in Workers, Step(w)
      PROVE  [Lifecycle!ANext]_(Lifecycle!avars)
  BY <1>2, PublishRefines, TablesStay, StutterRefines
<1> QED
  BY <1>1, <1>2 DEF Next, Step

LEMMA InitRefines == Init => Lifecycle!AInit
BY DEF Init, NoRow, NoEffect, Lifecycle!AInit

\* The transactions of approval.go, of many statements each, implement the atomic
\* lifecycle of module ApprovalLifecycle.
THEOREM Implements == Spec => KeepsLifecycle
<1> QED
  BY InitRefines, StepRefines, Inductive, PTL DEF Spec, KeepsLifecycle, Lifecycle!ASpec
-----------------------------------------------------------------------------
(* What clients are told and what the audit log tells.                     *)

\* The events that are true of a row in the status a transaction has brought it to.
Reported ==
    {<<"pending", "proposal_created">>, <<"rejected", "approval_rejected">>,
     <<"approved", "approval_approved">>,
     <<"executed", "approval_approved">>, <<"executed", "write_executed">>}

\* Until it is rolled back, a transaction has logged nothing its row does not say.
Telling(w) ==
    pc[w] # "rollback" => \A e \in work[w].events : <<work[w].row.status, e>> \in Reported

\* A client that is told s of approval i finds it so.
Shown(i, s) == IF s = "pending" THEN approvals[i].status # "absent" ELSE approvals[i].status = s

\* A row that was only read is answered as the table has it.
Echoes(w) ==
    pc[w] \in {"reply", "commit"} /\ ~ work[w].dirty =>
        Shown(work[w].id, work[w].row.status)

\* An approval is never deleted, and one that is decided stays as it is.
LEMMA ShownStays ==
    ASSUME IInv, [Next]_vars, NEW i \in Ids, NEW s, s # "absent", Shown(i, s)
    PROVE  Shown(i, s)'
<1>1. approvals[i].status \in {"pending", "executed", "rejected"}
  BY DEF IInv, RowsOK, RowOK, Shapes, Shown
<1>2. CASE approvals[i].status \in {"executed", "rejected"}
  BY <1>2, DecidedStays DEF Shown
<1>3. CASE approvals[i].status = "pending"
  <2>1. s = "pending"
    BY <1>3 DEF Shown
  <2>2. CASE Tick \/ Done \/ UNCHANGED vars
    BY <2>2 DEF Tick, Done, vars, db, Shown
  <2>3. ASSUME NEW w \in Workers, Step(w)
        PROVE  approvals'[i].status # "absent"
    <3>1. CASE Commit(w) /\ work[w].dirty
      <4>1. work[w].row.status # "absent"
        BY <3>1, Published DEF Inserted, Holds
      <4> QED
        BY <1>3, <3>1, <4>1, Published DEF IInv, TypeOK
    <3> QED
      BY <1>3, <2>3, <3>1, TablesStay
  <2> QED
    BY <2>1, <2>2, <2>3 DEF Next, Step, Shown
<1> QED
  BY <1>1, <1>2, <1>3

\* What a snapshot shows of an approval holds of the table.
LEMMA SnapShown ==
    ASSUME IInv, NEW w \in Workers, pc[w] # "idle", NEW i \in Present(snap[w].approvals)
    PROVE  Shown(i, snap[w].approvals[i].status)
BY DEF IInv, SnapPast, RowOK, Shapes, Present, Shown

\* Rows answered without a write of one's own are those of the snapshot.
LEMMA EchoLoad ==
    ASSUME IInv, NEW w \in Workers, pc[w] # "idle", UNCHANGED db, NEW i,
           i \in Present(snap[w].approvals), Hold(w, Loaded(i, snap[w].approvals[i]))
    PROVE  Echoes(w)'
<1>1. work'[w] = Loaded(i, snap[w].approvals[i])
  BY DEF IInv, TypeOK, Hold
<1>2. /\ work'[w].id = i /\ work'[w].row.status = snap[w].approvals[i].status
      /\ approvals' = approvals
  BY <1>1 DEF Loaded, db
<1>3. Shown(i, snap[w].approvals[i].status)
  BY SnapShown
<1> QED
  BY <1>2, <1>3 DEF Echoes, Shown

LEMMA EchoLookUp ==
    ASSUME IInv, NEW w \in Workers, pc[w] # "idle", Unchanged, LookUpAgain(w)
    PROVE  Echoes(w)' /\ Telling(w)'
<1>1. CASE Fail(w)
  BY <1>1 DEF IInv, TypeOK, Fail, Goto, Echoes, Telling
<1>2. CASE ~ Fail(w)
  <2>1. PICK i \in WithKey(snap[w].approvals, work[w].row.key) :
            Hold(w, Loaded(i, snap[w].approvals[i]))
    BY <1>2 DEF LookUpAgain
  <2>2. work'[w].events = {}
    BY <2>1 DEF IInv, TypeOK, Hold, Loaded
  <2> QED
    BY <2>1, <2>2, EchoLoad DEF WithKey, Unchanged, Telling
<1> QED
  BY <1>1, <1>2

\* A step of its own keeps what a request tells and what it logs true.
LEMMA StepTells ==
    ASSUME IInv, NEW w \in Workers, Step(w), Telling(w), Echoes(w)
    PROVE  Telling(w)' /\ Echoes(w)'
<1>0. /\ pc \in [Workers -> PCs] /\ work \in [Workers -> Work]
      /\ Phase(w) /\ TypeOK
  BY DEF IInv, TypeOK
<1>1. CASE Fail(w) \/ Release(w) \/ MarkConflict(w)
  BY <1>0, <1>1 DEF Fail, Release, MarkConflict, Goto, Hold, NoWork, Loaded, Telling, Echoes
<1>2. CASE Start(w)
  <2>1. work'[w].events = {} /\ pc'[w] = "started"
    BY <1>0, <1>2 DEF Start, Goto, Phase, NoWork, Loaded
  <2> QED
    BY <2>1 DEF Telling, Echoes
<1>3. CASE RefuseProposal(w) \/ RefuseDecision(w) \/ Abort(w)
  BY <1>0, <1>1, <1>3 DEF RefuseProposal, RefuseDecision, Abort
<1>4. CASE ReuseProposal(w)
  <2>1. PICK i \in Reusable(w) : Hold(w, Loaded(i, snap[w].approvals[i]))
    BY <1>0, <1>4 DEF ReuseProposal
  <2>2. work'[w].events = {}
    BY <1>0, <2>1 DEF Hold, Loaded
  <2> QED
    BY <1>0, <1>4, <2>1, <2>2, EchoLoad
       DEF ReuseProposal, Creating, Reusable, Existing, WithKey, Unchanged, Telling
<1>5. CASE RepeatDecision(w)
  <2>1. PICK i \in Named(w) : Hold(w, Loaded(i, snap[w].approvals[i]))
    BY <1>0, <1>5 DEF RepeatDecision
  <2>2. work'[w].events = {}
    BY <1>0, <2>1 DEF Hold, Loaded
  <2> QED
    BY <1>0, <1>5, <2>1, <2>2, EchoLoad
       DEF RepeatDecision, Deciding, Named, WithNo, Unchanged, Telling
<1>6. CASE PrepareProposal(w) \/ Decide(w)
  <2>1. PICK i, r : Hold(w, Loaded(i, r))
    <3>1. CASE PrepareProposal(w)
      BY <3>1 DEF PrepareProposal
    <3>2. CASE Decide(w)
      <4>1. PICK i \in Named(w) :
                /\ <<snap[w].approvals[i].status, NextStatus(w)>> \in AllowedTransitions
                /\ Hold(w, Loaded(i, [snap[w].approvals[i] EXCEPT !.status = NextStatus(w),
                                                                  !.by = req[w].user]))
        BY <3>2 DEF Decide
      <4> QED
        BY <4>1
    <3> QED
      BY <1>6, <3>1, <3>2
  <2>2. work'[w].events = {}
    BY <1>0, <2>1 DEF Hold, Loaded
  <2>3. pc'[w] \in {"insert", "mark"}
    BY <1>0, <1>6 DEF PrepareProposal, Decide, Goto
  <2> QED
    BY <2>2, <2>3 DEF Telling, Echoes
<1>7. CASE InsertRow(w)
  <2>1. PICK i \in Ids \ Present(approvals), e \in Logged("proposal_created") :
            /\ ~ RowLocked(w, i)
            /\ Hold(w, [work[w] EXCEPT !.id = i, !.dirty = TRUE, !.events = e])
    BY <1>7 DEF InsertRow
  <2>2. work[w] \in Work /\ work[w].row.status = "pending" /\ e \subseteq {"proposal_created"}
    BY <1>0, <1>7, <2>1 DEF InsertRow, Phase, Holds, Logged
  <2>3. work'[w].events = e /\ work'[w].row = work[w].row /\ work'[w].dirty
    BY <1>0, <2>1, <2>2 DEF Hold, Work
  <2> QED
    BY <2>2, <2>3 DEF Telling, Echoes, Reported
<1>8. CASE InsertDuplicate(w) \/ InsertErrs(w)
  BY <1>8, EchoLookUp DEF InsertDuplicate, InsertErrs
<1>9. CASE AbortBusy(w)
  <2>1. CASE Fail(w)
    BY <1>0, <1>1, <2>1
  <2> QED
    BY <1>0, <1>9, <2>1, EchoLookUp DEF AbortBusy
<1>10. CASE Mark(w)
  <2>1. PICK e \in Logged(IF req[w].kind = "approve" THEN "approval_approved"
                          ELSE "approval_rejected") :
            Hold(w, [work[w] EXCEPT !.dirty = TRUE, !.events = e, !.row = Saved(@)])
    BY <1>10 DEF Mark
  <2>2. work[w] \in Work /\ work[w].row \in Row /\ work[w].row.status = NextStatus(w)
    BY <1>0, <1>10, WorkTyped DEF Mark, Phase, Holds
  <2>3. work'[w].events = e /\ work'[w].row = Saved(work[w].row) /\ work'[w].dirty
    BY <1>0, <2>1, <2>2 DEF Hold, Work
  <2>4. work'[w].row.status = NextStatus(w) 
        /\ e \subseteq {IF req[w].kind = "approve" THEN "approval_approved"
                        ELSE "approval_rejected"}
    BY <2>1, <2>2, <2>3, Saves DEF Logged
  <2> QED
    BY <2>3, <2>4 DEF Telling, Echoes, Reported, NextStatus
<1>11. CASE ExecuteInvalid(w) \/ ExecuteErrs(w)
  <2>1. work' = work /\ pc'[w] = "failed" /\ pc[w] # "rollback"
    BY <1>0, <1>11 DEF ExecuteInvalid, ExecuteErrs, Goto
  <2> QED
    BY <2>1 DEF Telling, Echoes
<1>12. CASE ExecuteWrite(w) \/ RecordAction(w)
  <2>1. work'[w].events = work[w].events /\ work'[w].row = work[w].row
    <3>1. CASE ExecuteWrite(w)
      <4>1. PICK o : Hold(w, [work[w] EXCEPT !.wrote = TRUE, !.old = o])
        BY <3>1 DEF ExecuteWrite
      <4> QED
        BY <1>0, <4>1 DEF Hold, Work
    <3>2. CASE RecordAction(w)
      <4>1. PICK u : Hold(w, [work[w] EXCEPT !.recorded = u])
        BY <3>2 DEF RecordAction
      <4> QED
        BY <1>0, <4>1 DEF Hold, Work
    <3> QED
      BY <1>12, <3>1, <3>2
  <2>2. pc'[w] \in {"record", "finish", "failed"} /\ pc[w] # "rollback"
    BY <1>0, <1>12 DEF ExecuteWrite, RecordAction, Goto
  <2> QED
    BY <2>1, <2>2 DEF Telling, Echoes
<1>13. CASE Finish(w)
  <2>0. Close(w, "executed", "write_executed", "reply")
    BY <1>13 DEF Finish
  <2>1. PICK e \in Logged("write_executed") :
            Hold(w, [work[w] EXCEPT !.row = Saved([@ EXCEPT !.status = "executed"]),
                                    !.events = @ \cup e])
    BY <2>0 DEF Close
  <2>2. /\ work[w] \in Work /\ work[w].row \in Row /\ work[w].row.status = "approved"
        /\ work[w].dirty /\ pc[w] # "rollback"
    BY <1>0, <1>13, WorkTyped DEF Finish, Phase, Holds, OwnsPending
  <2>3. /\ work'[w].events = work[w].events \cup e /\ work'[w].dirty
        /\ work'[w].row = Saved([work[w].row EXCEPT !.status = "executed"])
    BY <1>0, <2>1, <2>2 DEF Hold, Work
  <2>4. work'[w].row.status = "executed" /\ e \subseteq {"write_executed"}
    BY <2>1, <2>2, <2>3, SavesStatus DEF Logged, Statuses
  <2>5. work[w].events \subseteq {"approval_approved"}
    BY <2>2 DEF Telling, Reported
  <2> QED
    BY <2>3, <2>4, <2>5 DEF Telling, Echoes, Reported
<1>14. CASE FinishFailed(w)
  BY <1>0, <1>14 DEF FinishFailed, Close, Goto, Telling, Echoes
<1>15. CASE Reply(w)
  <2>1. work' = work /\ approvals' = approvals /\ pc[w] = "reply"
    BY <1>0, <1>15 DEF Reply, db
  <2> QED
    BY <2>1 DEF Telling, Echoes, Shown
<1>16. CASE Commit(w) \/ CommitFails(w) \/ Rollback(w)
  BY <1>1, <1>16 DEF Commit, CommitFails, Rollback
<1> QED
  BY <1>1, <1>2, <1>3, <1>4, <1>5, <1>6, <1>7, <1>8, <1>9, <1>10, <1>11, <1>12, <1>13,
     <1>14, <1>15, <1>16
     DEF Step, Handle, Create, DecideRequest, EndTx, Break

\* Steps of other requests do not make it false either.
LEMMA OthersTell ==
    ASSUME IInv, [Next]_vars, NEW v \in Workers, Stays(v), Telling(v), Echoes(v)
    PROVE  Telling(v)' /\ Echoes(v)'
<1>1. Telling(v)'
  BY DEF Stays, Telling
<1>2. ASSUME pc[v] \in {"reply", "commit"}, ~ work[v].dirty
      PROVE  Shown(work[v].id, work[v].row.status)'
  <2>1. work[v].id \in Ids /\ work[v].row.status \in Statuses
    BY <1>2 DEF IInv, TypeOK, Phase, Work, Row
  <2>2. Shown(work[v].id, work[v].row.status)
    BY <1>2 DEF Echoes
  <2>3. \A i \in Ids, s \in Statuses : Shown(i, s) => Shown(i, s)'
    BY ShownStays DEF Statuses
  <2> QED
    BY <2>1, <2>2, <2>3 DEF Stays, Shown
<1> QED
  BY <1>1, <1>2 DEF Stays, Echoes

AllTell == \A w \in Workers : Telling(w) /\ Echoes(w)

LEMMA TellingKeeps == IInv /\ AllTell /\ [Next]_vars => AllTell'
<1> SUFFICES ASSUME IInv, AllTell, [Next]_vars PROVE AllTell'
  OBVIOUS
<1>1. CASE Tick \/ Done \/ UNCHANGED vars
  <2>1. pc' = pc /\ work' = work /\ approvals' = approvals
    BY <1>1 DEF Tick, Done, vars, db
  <2> QED
    BY <2>1 DEF AllTell, Telling, Echoes, Shown
<1>2. ASSUME NEW w \in Workers, Step(w)
      PROVE  AllTell'
  <2>1. \A v \in Workers \ {w} : Stays(v)
    BY <1>2, StepFrame DEF IInv
  <2> QED
    BY <1>2, <2>1, StepTells, OthersTell DEF AllTell
<1> QED
  BY <1>1, <1>2 DEF Next, Step

LEMMA AuditStays ==
    ASSUME NEW w \in Workers, Step(w), ~ (Commit(w) /\ work[w].dirty)
    PROVE  audit' = audit
<1> USE DEF Unchanged, db
<1>1. CASE Start(w)
  BY <1>1 DEF Start
<1>2. CASE Create(w)
  BY <1>2 DEF Create, RefuseProposal, ReuseProposal, PrepareProposal, InsertRow, InsertDuplicate
<1>3. CASE DecideRequest(w)
  BY <1>3 DEF DecideRequest, RefuseDecision, RepeatDecision, Decide, Mark, MarkConflict,
              ExecuteInvalid, ExecuteWrite, RecordAction, Finish, FinishFailed, Close
<1>4. CASE EndTx(w) \/ Break(w)
  BY <1>4 DEF EndTx, Reply, Commit, Rollback, AbortBusy, Break, Abort, InsertErrs,
              ExecuteErrs, CommitFails
<1> QED
  BY <1>1, <1>2, <1>3, <1>4 DEF Step, Handle

\* What a commit adds to the audit log is true of the row it commits, and what the log
\* said of that row before is at most that it was proposed.
LEMMA PublishTells ==
    ASSUME IInv, AllTell, AuditTruthful, NEW w \in Workers, Commit(w), work[w].dirty
    PROVE  AuditTruthful'
<1> DEFINE s == work[w].row.status
<1>0. PICK i \in Ids : i = work[w].id
  BY Published
<1>1. /\ audit' = audit \cup {<<e, i>> : e \in work[w].events}
      /\ pc[w] = "commit"
  BY <1>0 DEF Commit, Publish
<1>2. /\ approvals'[i].status = s
      /\ \A j \in Ids \ {i} : approvals'[j] = approvals[j]
  BY <1>0, Published DEF IInv, TypeOK
<1>3. /\ s \in {"pending", "rejected", "executed"}
      /\ approvals[i].status \in {"absent", "pending"}
  BY <1>0, Published DEF Inserted, OwnsPending, Holds
<1>4. \A e \in work[w].events : <<s, e>> \in Reported
  BY <1>1 DEF AllTell, Telling
<1>5. ASSUME NEW e, <<e, i>> \in audit
      PROVE  e = "proposal_created"
  <2>1. e \in Events
    BY <1>5 DEF IInv, TypeOK
  <2> QED
    BY <1>3, <1>5, <2>1 DEF AuditTruthful, Events
<1>6. ASSUME NEW e, NEW j \in Ids, <<e, j>> \in audit'
      PROVE  \/ j # i /\ <<e, j>> \in audit
             \/ j = i /\ (e = "proposal_created" \/ <<s, e>> \in Reported)
  BY <1>1, <1>4, <1>5, <1>6
<1>7. ASSUME NEW j \in Ids
      PROVE  /\ <<"proposal_created", j>> \in audit' => approvals'[j].status # "absent"
             /\ <<"approval_rejected", j>> \in audit' => approvals'[j].status = "rejected"
             /\ <<"approval_approved", j>> \in audit' => approvals'[j].status = "executed"
             /\ <<"write_executed", j>> \in audit' => approvals'[j].status = "executed"
             /\ <<"write_execution_failed", j>> \notin audit'
  <2>1. CASE j = i
    BY <1>2, <1>3, <1>6, <2>1 DEF Reported
  <2>2. CASE j # i
    <3>1. \A e : <<e, j>> \in audit' => <<e, j>> \in audit
      BY <1>6, <2>2
    <3>2. approvals'[j] = approvals[j]
      BY <1>2, <2>2
    <3> QED
      BY <3>1, <3>2 DEF AuditTruthful
  <2> QED
    BY <2>1, <2>2
<1> QED
  BY <1>7 DEF AuditTruthful

LEMMA AuditKeeps == IInv /\ AllTell /\ AuditTruthful /\ [Next]_vars => AuditTruthful'
<1> SUFFICES ASSUME IInv, AllTell, AuditTruthful, [Next]_vars PROVE AuditTruthful'
  OBVIOUS
<1>1. CASE Tick \/ Done \/ UNCHANGED vars
  BY <1>1 DEF Tick, Done, vars, db, AuditTruthful
<1>2. ASSUME NEW w \in Workers, Step(w)
      PROVE  AuditTruthful'
  <2>1. CASE Commit(w) /\ work[w].dirty
    BY <2>1, PublishTells
  <2>2. CASE ~ (Commit(w) /\ work[w].dirty)
    BY <1>2, <2>2, TablesStay, AuditStays DEF AuditTruthful
  <2> QED
    BY <2>1, <2>2
<1> QED
  BY <1>1, <1>2 DEF Next, Step

\* An answer that is not yet committed, by a transaction that still may commit.
Pending(a) == \E w \in Workers : pc[w] = "commit" /\ work[w].dirty /\ Answer(w) = a

LEMMA AnswersAre == AnswersHold <=> \A a \in told \ lost : Pending(a) \/ Shown(a[1], a[2])
BY DEF AnswersHold, Pending, Shown

\* A step that writes no answer and loses none leaves what holds: a pending answer is
\* committed, or its transaction goes on.
LEMMA CommitTells ==
    ASSUME IInv, NEW w \in Workers, Step(w), Commit(w), NEW a \in Ids \X Statuses,
           Pending(a), ~ Pending(a)'
    PROVE  Shown(a[1], a[2])'
<1>1. \A v \in Workers \ {w} : Stays(v)
  BY StepFrame DEF IInv
<1>2. PICK v \in Workers : pc[v] = "commit" /\ work[v].dirty /\ Answer(v) = a
  BY DEF Pending
<1>3. v = w
  BY <1>1, <1>2 DEF Pending, Stays, Answer
<1>4. /\ a[1] \in Ids /\ a[1] = work[w].id /\ a[2] = work[w].row.status
      /\ work[w].dirty
  BY <1>2, <1>3 DEF Answer
<1>5. approvals'[a[1]] = work[w].row
  BY <1>4, Published DEF IInv, TypeOK
<1> QED
  BY <1>4, <1>5 DEF Shown

LEMMA StepAnswers ==
    ASSUME IInv, AllTell, AnswersHold, [Next]_vars, NEW w \in Workers, Step(w)
    PROVE  AnswersHold'
<1>0. \A v \in Workers \ {w} : Stays(v)
  BY StepFrame DEF IInv
<1>1. told \subseteq Ids \X Statuses
  BY DEF IInv, TypeOK
<1>2. \A i \in Ids, s \in Statuses : Shown(i, s) => Shown(i, s)'
  BY ShownStays DEF Statuses
<1>3. \A a \in told \ lost : Pending(a) \/ Shown(a[1], a[2])
  BY AnswersAre
<1>4. CASE Reply(w)
  <2>1. /\ told' = told \cup {Answer(w)} /\ lost' = lost
        /\ pc[w] = "reply" /\ pc'[w] = "commit" /\ work' = work
        /\ approvals' = approvals
    BY <1>4 DEF Reply, Goto, db, IInv, TypeOK
  <2>2. \A a : Pending(a) => Pending(a)'
    BY <1>0, <2>1 DEF Pending, Stays, Answer
  <2>3. ASSUME NEW a, a = Answer(w)
        PROVE  Pending(a)' \/ Shown(a[1], a[2])'
    <3>1. CASE work[w].dirty
      BY <2>1, <2>3, <3>1 DEF Pending, Answer
    <3>2. CASE ~ work[w].dirty
      BY <2>1, <2>3, <3>2 DEF AllTell, Echoes, Answer, Shown
    <3> QED
      BY <3>1, <3>2
  <2>4. \A a \in told' \ lost' : Pending(a)' \/ Shown(a[1], a[2])'
    BY <1>1, <1>2, <1>3, <2>1, <2>2, <2>3
  <2> QED
    BY <2>4 DEF AnswersHold, Pending, Shown
<1>5. CASE Commit(w)
  <2>1. told' = told /\ lost' = lost
    BY <1>5 DEF Commit, Release
  <2>2. \A a \in told' \ lost' : Pending(a)' \/ Shown(a[1], a[2])'
    <3> SUFFICES ASSUME NEW a \in told \ lost
                 PROVE  Pending(a)' \/ Shown(a[1], a[2])'
      BY <2>1
    <3>1. a \in Ids \X Statuses
      BY <1>1
    <3> QED
      BY <1>2, <1>3, <1>5, <3>1, CommitTells
  <2> QED
    BY <2>2 DEF AnswersHold, Pending, Shown
<1>6. CASE CommitFails(w)
  <2>1. /\ told' = told /\ pc[w] = "commit"
        /\ lost' = IF work[w].dirty THEN lost \cup {Answer(w)} ELSE lost
    BY <1>6 DEF CommitFails, Release
  <2>2. \A a \in told' \ lost' : Pending(a) => Pending(a)'
    BY <1>0, <2>1 DEF Pending, Stays, Answer
  <2>3. \A a \in told' \ lost' : Pending(a)' \/ Shown(a[1], a[2])'
    BY <1>1, <1>2, <1>3, <2>1, <2>2
  <2> QED
    BY <2>3 DEF AnswersHold, Pending, Shown
<1>7. CASE ~ Reply(w) /\ ~ Commit(w) /\ ~ CommitFails(w)
  <2>1. pc[w] # "commit" /\ told' = told /\ lost' = lost
    <3> USE DEF Unchanged, history
    <3>1. CASE Start(w)
      BY <3>1 DEF Start
    <3>2. CASE Create(w)
      BY <3>2 DEF Create, RefuseProposal, ReuseProposal, PrepareProposal, InsertRow,
                  InsertDuplicate, Creating
    <3>3. CASE DecideRequest(w)
      BY <3>3 DEF DecideRequest, RefuseDecision, RepeatDecision, Decide, Mark, MarkConflict,
                  ExecuteInvalid, ExecuteWrite, RecordAction, Finish, FinishFailed, Close,
                  Deciding
    <3>4. CASE Rollback(w) \/ AbortBusy(w) \/ Break(w)
      BY <1>7, <3>4 DEF Rollback, Release, AbortBusy, Break, Abort, InsertErrs, ExecuteErrs
    <3> QED
      BY <1>7, <3>1, <3>2, <3>3, <3>4 DEF Step, Handle, EndTx
  <2>2. \A a : Pending(a) => Pending(a)'
    BY <1>0, <2>1 DEF Pending, Stays, Answer
  <2>3. \A a \in told' \ lost' : Pending(a)' \/ Shown(a[1], a[2])'
    BY <1>1, <1>2, <1>3, <2>1, <2>2
  <2> QED
    BY <2>3 DEF AnswersHold, Pending, Shown
<1> QED
  BY <1>4, <1>5, <1>6, <1>7

LEMMA AnswersKeep == IInv /\ AllTell /\ AnswersHold /\ [Next]_vars => AnswersHold'
<1> SUFFICES ASSUME IInv, AllTell, AnswersHold, [Next]_vars PROVE AnswersHold'
  OBVIOUS
<1>1. CASE Tick \/ Done \/ UNCHANGED vars
  BY <1>1 DEF Tick, Done, vars, db, history, AnswersHold, Answer
<1> QED
  BY <1>1, StepAnswers DEF Next, Step

LEMMA InitTells == Init => AllTell /\ AuditTruthful /\ AnswersHold
BY DEF Init, AllTell, Telling, Echoes, NoWork, Loaded, AuditTruthful, AnswersHold

\* What a transaction has logged and is about to answer is true of its row, and of the
\* table if it has written nothing.
THEOREM Tell == Spec => []AllTell
BY InitTells, TellingKeeps, Inductive, PTL DEF Spec

\* No event of the audit log tells of a proposal, a decision or a write that was not
\* committed, whatever fails (approval.go LogEvent calls, http.go withTx).
THEOREM AuditIsTruthful == Spec => []AuditTruthful
BY InitTells, AuditKeeps, Tell, Inductive, PTL DEF Spec

\* What a client was told in a 200 is and stays so, but for a COMMIT that came after
\* the answer and failed (http.go withTx).
THEOREM AnswersAreTrue == Spec => []AnswersHold
BY InitTells, AnswersKeep, Tell, Inductive, PTL DEF Spec
-----------------------------------------------------------------------------
(* The ticket history on SQLite.                                           *)

\* A transaction that has written is the only one that has, and has read the tables as
\* they still are.
Alone(w) ==
    work[w].dirty => snap[w] = Committed /\ \A v \in Others(w) : ~ work[v].dirty

\* The old value in memory is the one its snapshot shows.
OldRead(w) ==
    LET p == ProposalOf(w)
    IN  work[w].wrote /\ Overwrites(p) => work[w].old = snap[w].tickets[Target[p]][Column(p)]

AllAlone == \A w \in Workers : Alone(w) /\ OldRead(w)

\* Only a commit of uncommitted writes changes the committed state.
LEMMA CommittedStays ==
    ASSUME NEW w \in Workers, Step(w), ~ (Commit(w) /\ work[w].dirty)
    PROVE  Committed' = Committed
<1> USE DEF Unchanged, db
<1>1. CASE Start(w)
  BY <1>1 DEF Start, Committed
<1>2. CASE Create(w)
  BY <1>2 DEF Create, RefuseProposal, ReuseProposal, PrepareProposal, InsertRow,
              InsertDuplicate, Committed
<1>3. CASE DecideRequest(w)
  BY <1>3 DEF DecideRequest, RefuseDecision, RepeatDecision, Decide, Mark, MarkConflict,
              ExecuteInvalid, ExecuteWrite, RecordAction, Finish, FinishFailed, Close, Committed
<1>4. CASE EndTx(w) \/ Break(w)
  BY <1>4 DEF EndTx, Reply, Commit, Rollback, AbortBusy, Break, Abort, InsertErrs,
              ExecuteErrs, CommitFails, Committed
<1> QED
  BY <1>1, <1>2, <1>3, <1>4 DEF Step, Handle

\* What a step of w does to its own transaction: it ends, it goes on with what it had
\* written, or it writes for the first time and is the only one that does.
Goes(w) ==
    \/ work'[w].dirty = FALSE /\ work'[w].wrote = FALSE
    \/ /\ snap'[w] = snap[w]
       /\ work'[w].dirty => work[w].dirty \/ MayWrite(w)
       /\ work'[w].wrote => OldRead(w)'

LEMMA StepGoes ==
    ASSUME IInv, NEW w \in Workers, Step(w), OldRead(w)
    PROVE  Goes(w)
<1>0. /\ pc \in [Workers -> PCs] /\ work \in [Workers -> Work]
      /\ Phase(w) /\ TypeOK
  BY DEF IInv, TypeOK
<1>1. ASSUME NEW i, NEW r, Hold(w, Loaded(i, r))
      PROVE  Goes(w)
  BY <1>0, <1>1 DEF Hold, Loaded, Goes
<1>2. CASE UNCHANGED <<work, snap>>
  BY <1>2 DEF Goes, OldRead, ProposalOf
<1>3. CASE LookUpAgain(w) /\ Unchanged
  BY <1>1, <1>2, <1>3 DEF LookUpAgain, Fail, Unchanged
<1>4. CASE Release(w)
  BY <1>0, <1>4 DEF Release, Hold, NoWork, Loaded, Goes
<1>5. CASE Start(w)
  <2>1. work'[w] = NoWork
    BY <1>0, <1>5 DEF Start, Phase
  <2> QED
    BY <2>1 DEF NoWork, Loaded, Goes
<1>6. CASE RefuseProposal(w) \/ RefuseDecision(w) \/ MarkConflict(w) \/ Abort(w)
  BY <1>2, <1>6 DEF RefuseProposal, RefuseDecision, MarkConflict, Abort, Fail, Unchanged
<1>7. CASE ReuseProposal(w) \/ PrepareProposal(w) \/ RepeatDecision(w)
  BY <1>1, <1>7 DEF ReuseProposal, PrepareProposal, RepeatDecision
<1>8. CASE Decide(w)
  <2>1. PICK i \in Named(w) :
            /\ <<snap[w].approvals[i].status, NextStatus(w)>> \in AllowedTransitions
            /\ Hold(w, Loaded(i, [snap[w].approvals[i] EXCEPT !.status = NextStatus(w),
                                                              !.by = req[w].user]))
    BY <1>8 DEF Decide
  <2> QED
    BY <1>1, <2>1
<1>9. CASE InsertRow(w)
  <2>1. PICK i \in Ids \ Present(approvals), e \in Logged("proposal_created") :
            /\ ~ RowLocked(w, i)
            /\ Hold(w, [work[w] EXCEPT !.id = i, !.dirty = TRUE, !.events = e])
    BY <1>9 DEF InsertRow
  <2>2. MayWrite(w) /\ snap' = snap /\ work[w].wrote = FALSE
    BY <1>0, <1>9 DEF InsertRow, Phase, Holds, Unchanged
  <2>3. work'[w].wrote = FALSE
    BY <1>0, <2>1, <2>2 DEF Hold, Work
  <2> QED
    BY <2>2, <2>3 DEF Goes
<1>10. CASE InsertDuplicate(w) \/ InsertErrs(w)
  BY <1>3, <1>10 DEF InsertDuplicate, InsertErrs
<1>11. CASE AbortBusy(w)
  BY <1>2, <1>3, <1>11 DEF AbortBusy, Fail, Unchanged
<1>12. CASE Mark(w)
  <2>1. PICK e : Hold(w, [work[w] EXCEPT !.dirty = TRUE, !.events = e, !.row = Saved(@)])
    BY <1>12 DEF Mark
  <2>2. MayWrite(w) /\ snap' = snap /\ work[w].wrote = FALSE
    BY <1>0, <1>12 DEF Mark, Phase, Holds, Unchanged
  <2>3. work'[w].wrote = FALSE
    BY <1>0, <2>1, <2>2 DEF Hold, Work
  <2> QED
    BY <2>2, <2>3 DEF Goes
<1>13. CASE ExecuteInvalid(w) \/ ExecuteErrs(w)
  BY <1>2, <1>13 DEF ExecuteInvalid, ExecuteErrs, Unchanged
<1>14. CASE ExecuteWrite(w)
  <2> DEFINE p == ProposalOf(w)
             o == IF Overwrites(p) THEN snap[w].tickets[Target[p]][Column(p)] ELSE None
  <2>1. Hold(w, [work[w] EXCEPT !.wrote = TRUE, !.old = o]) /\ snap' = snap
    BY <1>14 DEF ExecuteWrite, Unchanged
  <2>2. /\ work'[w].row = work[w].row /\ work'[w].dirty = work[w].dirty
        /\ work'[w].old = o
    BY <1>0, <2>1 DEF Hold, Work
  <2>3. ProposalOf(w)' = p
    BY <2>2 DEF ProposalOf
  <2>4. Overwrites(p) => work'[w].old = snap'[w].tickets[Target[p]][Column(p)]
    BY <2>1, <2>2
  <2>5. OldRead(w)'
    BY <2>3, <2>4 DEF OldRead, Overwrites, Column
  <2> QED
    BY <2>1, <2>2, <2>5 DEF Goes
<1>15. CASE RecordAction(w)
  <2>1. PICK u : Hold(w, [work[w] EXCEPT !.recorded = u])
    BY <1>15 DEF RecordAction
  <2>2. /\ work'[w].row = work[w].row /\ work'[w].dirty = work[w].dirty
        /\ work'[w].old = work[w].old /\ work'[w].wrote = work[w].wrote
    BY <1>0, <2>1 DEF Hold, Work
  <2>3. snap' = snap
    BY <1>15 DEF RecordAction, Unchanged
  <2>4. OldRead(w)'
    BY <2>2, <2>3 DEF OldRead, ProposalOf
  <2> QED
    BY <2>2, <2>3, <2>4 DEF Goes
<1>16. CASE Finish(w) \/ FinishFailed(w)
  <2>1. PICK s \in Statuses, e \in Events, l \in {"reply", "rollback"} : Close(w, s, e, l)
    BY <1>16 DEF Finish, FinishFailed, Statuses, Events
  <2>2. PICK v : Hold(w, [work[w] EXCEPT !.row = Saved([@ EXCEPT !.status = s]),
                                         !.events = @ \cup v])
    BY <2>1 DEF Close
  <2>3. /\ work'[w].row = Saved([work[w].row EXCEPT !.status = s])
        /\ work'[w].dirty = work[w].dirty
        /\ work'[w].old = work[w].old /\ work'[w].wrote = work[w].wrote
    BY <1>0, <2>2 DEF Hold, Work
  <2>4. work'[w].row.key = work[w].row.key
    BY <1>0, <2>3, WorkTyped, SavesStatus
  <2>5. snap' = snap
    BY <2>1 DEF Close, Unchanged
  <2>6. OldRead(w)'
    BY <2>3, <2>4, <2>5 DEF OldRead, ProposalOf
  <2> QED
    BY <2>3, <2>5, <2>6 DEF Goes
<1>17. CASE Reply(w)
  BY <1>2, <1>17 DEF Reply
<1>18. CASE Commit(w) \/ CommitFails(w) \/ Rollback(w)
  BY <1>4, <1>18 DEF Commit, CommitFails, Rollback
<1> QED
  BY <1>5, <1>6, <1>7, <1>8, <1>9, <1>10, <1>11, <1>12, <1>13, <1>14, <1>15, <1>16,
     <1>17, <1>18
     DEF Step, Handle, Create, DecideRequest, EndTx, Break

\* SQLite admits one writer, and only on the tables as they are.
LEMMA AloneKeeps ==
    ASSUME Engine = "sqlite", IInv, AllAlone, [Next]_vars
    PROVE  AllAlone'
<1>1. CASE Tick \/ Done \/ UNCHANGED vars
  <2>1. work' = work /\ snap' = snap /\ approvals' = approvals /\ tickets' = tickets
    BY <1>1 DEF Tick, Done, vars, db
  <2> QED
    BY <2>1 DEF AllAlone, Alone, OldRead, Committed, ProposalOf
<1>2. ASSUME NEW w \in Workers, Step(w)
      PROVE  AllAlone'
  <2>1. \A v \in Workers \ {w} : work'[v] = work[v] /\ snap'[v] = snap[v]
    BY <1>2, StepFrame DEF IInv, Stays
  <2>2. Goes(w)
    BY <1>2, StepGoes DEF AllAlone
  <2>3. \A v \in Workers : OldRead(v)'
    BY <2>1, <2>2 DEF AllAlone, OldRead, ProposalOf, Goes
  <2>4. \A v \in Workers : Alone(v)'
    <3>1. CASE Commit(w) /\ work[w].dirty
      <4>1. ~ work'[w].dirty
        BY <3>1 DEF IInv, TypeOK, Commit, Release, Hold, NoWork, Loaded
      <4>2. \A v \in Others(w) : ~ work'[v].dirty
        BY <1>2, <2>1, <3>1 DEF AllAlone, Alone, Others
      <4> QED
        BY <4>1, <4>2 DEF Alone, Others
    <3>2. CASE ~ (Commit(w) /\ work[w].dirty)
      <4>1. Committed' = Committed
        BY <1>2, <3>2, CommittedStays
      <4>2. work'[w].dirty => /\ snap'[w] = snap[w] /\ snap[w] = Committed
                              /\ \A v \in Others(w) : ~ work[v].dirty
        BY <1>2, <2>2 DEF Goes, MayWrite, AllAlone, Alone
      <4> QED
        BY <1>2, <2>1, <4>1, <4>2 DEF AllAlone, Alone, Others
    <3> QED
      BY <3>1, <3>2
  <2> QED
    BY <2>3, <2>4 DEF AllAlone
<1> QED
  BY <1>1, <1>2 DEF Next, Step

\* A commit records the value that its UPDATE has replaced.
LEMMA PublishChains ==
    ASSUME IInv, AllAlone, NEW w \in Workers, Commit(w), work[w].dirty, NEW i \in Ids,
           effects'[i].actions > effects[i].actions,
           Overwrites(approvals'[i].key.base)
    PROVE  LET p == approvals'[i].key.base
           IN  effects'[i].old = tickets[Target[p]][Column(p)]
<1>1. i = work[w].id
  BY Published DEF IInv, TypeOK, Effect
<1>2. approvals'[i] = work[w].row
  BY <1>1, Published DEF IInv, TypeOK
<1>3. Publish(w) /\ (Inserted(w) \/ Closed(w))
  BY DEF Commit, IInv, Phase
<1>4. effects' = [effects EXCEPT ![i] =
               [writes |-> @.writes + One(work[w].wrote),
                actions |-> @.actions + One(work[w].recorded),
                old |-> IF work[w].recorded THEN work[w].old ELSE @.old]]
  BY <1>1, <1>3 DEF Publish
<1>5. /\ effects'[i].actions = effects[i].actions + One(work[w].recorded)
      /\ effects'[i].old = IF work[w].recorded THEN work[w].old ELSE effects[i].old
      /\ effects[i].actions \in Nat
  BY <1>4 DEF IInv, TypeOK, Effect
<1>6. work[w].recorded = TRUE
  BY <1>3, <1>5 DEF One, Inserted, Closed, Holds
<1>7. work[w].wrote = TRUE
  BY <1>3, <1>6 DEF Inserted, Closed, Holds
<1>8. snap[w].tickets = tickets
  BY DEF AllAlone, Alone, Committed
<1> QED
  BY <1>2, <1>5, <1>6, <1>7, <1>8 DEF AllAlone, OldRead, ProposalOf

LEMMA StepChains ==
    ASSUME IInv, AllAlone, [Next]_vars, NEW i \in Ids,
           effects'[i].actions > effects[i].actions,
           Overwrites(approvals'[i].key.base)
    PROVE  LET p == approvals'[i].key.base
           IN  effects'[i].old = tickets[Target[p]][Column(p)]
<1>1. effects[i].actions \in Nat
  BY DEF IInv, TypeOK, Effect
<1>2. effects' # effects
  BY <1>1
<1>3. PICK w \in Workers : Step(w)
  BY <1>2 DEF Next, Step, Tick, Done, vars, db
<1>4. Commit(w) /\ work[w].dirty
  BY <1>2, <1>3, TablesStay
<1> QED
  BY <1>4, PublishChains

LEMMA InitAlone == Init => AllAlone
BY DEF Init, AllAlone, Alone, OldRead, NoWork, Loaded

\* On SQLite, whatever the requests and their order, the old value in ticket_actions is
\* the value the action replaced; on MySQL a run shows that it is not
\* (repository_ticket.go AssignTicket, EscalateTicket, db.go).
THEOREM SqliteChains == Engine = "sqlite" => (Spec => HistoryChains)
<1> SUFFICES ASSUME Engine = "sqlite"
             PROVE  Spec => HistoryChains
  OBVIOUS
<1>1. IInv /\ AllAlone /\ [Next]_vars => AllAlone'
  BY AloneKeeps
<1>2. Spec => []AllAlone
  BY <1>1, InitAlone, Inductive, PTL DEF Spec
<1>3. IInv /\ AllAlone /\ [Next]_vars =>
        [\A i \in Ids :
            effects'[i].actions > effects[i].actions =>
                LET p == approvals'[i].key.base
                IN  Overwrites(p) => effects'[i].old = tickets[Target[p]][Column(p)]]_vars
  BY StepChains
<1> QED
  BY <1>2, <1>3, Inductive, PTL DEF Spec, HistoryChains
-----------------------------------------------------------------------------
(* What remains of the chain on MySQL: where old values come from.         *)

\* Row r is of an executed approval that has overwritten column c of ticket t.
Sets(r, t, c) ==
    /\ r.status = "executed"
    /\ Overwrites(r.key.base)
    /\ Target[r.key.base] = t
    /\ Column(r.key.base) = c

\* What is left of HistoryChains on MySQL: an old value may be out of date, but it was there.
\* Another approval, executed before, has written it to the same column of the same ticket;
\* it is never the new value, nor one that was rolled back (repository_ticket.go
\* AssignTicket, EscalateTicket).
OldValuesWereThere ==
    \A i \in Ids :
        LET p == approvals[i].key.base
            j == effects[i].old
        IN  j # None /\ Overwrites(p) => j # i /\ Sets(approvals[j], Target[p], Column(p))

\* A value of a column, if it has one, is that of an executed approval.
WrittenBy(values) ==
    \A t \in Tickets, c \in Columns : values[t][c] # None => Sets(approvals[values[t][c]], t, c)

\* Only an executed approval has recorded an old value.
OldOfExecuted == \A i \in Ids : effects[i].old # None => approvals[i].status = "executed"

\* The tables and what the transactions have read of them.
Sourced ==
    /\ WrittenBy(tickets)
    /\ \A w \in Workers : (InFlight(w) => WrittenBy(snap[w].tickets)) /\ OldRead(w)
    /\ OldOfExecuted
    /\ OldValuesWereThere

\* A snapshot is taken once, at the start of a transaction.
LEMMA SnapOnce ==
    ASSUME TypeOK, NEW w \in Workers, Step(w)
    PROVE  \/ ~ InFlight(w)'
           \/ snap'[w] = Committed
           \/ InFlight(w) /\ snap'[w] = snap[w]
<1> USE DEF InFlight, TypeOK, Goto, Unchanged
<1>1. CASE Start(w)
  BY <1>1 DEF Start
<1>2. CASE Create(w)
  BY <1>2 DEF Create, Creating, RefuseProposal, ReuseProposal, PrepareProposal, InsertRow,
              InsertDuplicate, LookUpAgain, Fail
<1>3. CASE DecideRequest(w)
  BY <1>3 DEF DecideRequest, Deciding, RefuseDecision, RepeatDecision, Decide, Mark,
              MarkConflict, ExecuteInvalid, ExecuteWrite, RecordAction, Finish, FinishFailed,
              Close, Fail
<1>4. CASE Commit(w) \/ CommitFails(w) \/ Rollback(w)
  BY <1>4 DEF Commit, CommitFails, Rollback, Release
<1>5. CASE Reply(w) \/ AbortBusy(w) \/ Abort(w) \/ InsertErrs(w) \/ ExecuteErrs(w)
  BY <1>5 DEF Reply, AbortBusy, Abort, InsertErrs, ExecuteErrs, LookUpAgain, Fail
<1> QED
  BY <1>1, <1>2, <1>3, <1>4, <1>5 DEF Step, Handle, EndTx, Break

\* What an executed approval has written, it has written for good.
LEMMA SetForGood ==
    ASSUME IInv, [Next]_vars, NEW j \in Ids, NEW t, NEW c, Sets(approvals[j], t, c)
    PROVE  Sets(approvals'[j], t, c)
BY DecidedStays DEF Sets

LEMMA WrittenForGood ==
    ASSUME IInv, [Next]_vars, NEW values \in [Tickets -> [Columns -> Ids \cup {None}]],
           WrittenBy(values), NEW t \in Tickets, NEW c \in Columns,
           NEW j, j = values[t][c], j # None
    PROVE  j \in Ids /\ Sets(approvals'[j], t, c)
<1>1. j \in Ids /\ Sets(approvals[j], t, c)
  BY DEF WrittenBy
<1> QED
  BY <1>1, SetForGood

\* A commit writes its own value to the column of its proposal, and the old value it
\* records is one that its snapshot shows.
LEMMA PublishSources ==
    ASSUME ConstantsAssumption, IInv, Sourced, NEW w \in Workers, Commit(w), work[w].dirty,
           [Next]_vars
    PROVE  WrittenBy(tickets)' /\ OldOfExecuted' /\ OldValuesWereThere'
<1> DEFINE i == work[w].id
           p == ProposalOf(w)
<1>1. /\ pc[w] = "commit" /\ Publish(w) /\ (Inserted(w) \/ Closed(w))
      /\ snap[w] \in Snapshot
  BY SnapTyped DEF Commit, IInv, Phase
<1>2. /\ i \in Ids
      /\ p \in Proposals
      /\ approvals' = [approvals EXCEPT ![i] = work[w].row]
      /\ approvals'[i] = work[w].row
  BY Published DEF ProposalOf, Keys, IInv, TypeOK
<1>3. approvals[i].status # "executed"
  BY <1>1 DEF Inserted, Closed, OwnsPending
<1>4. work[w].wrote => Sets(approvals'[i], Target[p], Column(p)) \/ ~ Overwrites(p)
  BY <1>1, <1>2 DEF Inserted, Closed, Holds, Sets, ProposalOf
<1>5. /\ Target[p] \in Tickets
      /\ Column(p) \in Columns
  BY <1>2 DEF ConstantsAssumption, Column, Columns
<1>6. /\ tickets \in [Tickets -> [Columns -> Ids \cup {None}]]
      /\ snap[w].tickets \in [Tickets -> [Columns -> Ids \cup {None}]]
      /\ WrittenBy(tickets) /\ WrittenBy(snap[w].tickets)
  BY <1>1 DEF IInv, TypeOK, Snapshot, Sourced, InFlight
<1>7. tickets' = IF work[w].wrote /\ Overwrites(p)
                 THEN [tickets EXCEPT ![Target[p]][Column(p)] = i]
                 ELSE tickets
  BY <1>1 DEF Publish
<1>8. ASSUME NEW t \in Tickets, NEW c \in Columns, tickets'[t][c] # None
      PROVE  Sets(approvals'[tickets'[t][c]], t, c)
  <2> DEFINE j == tickets'[t][c]
  <2>1. CASE work[w].wrote /\ Overwrites(p) /\ t = Target[p] /\ c = Column(p)
    <3>1. j = i
      BY <1>5, <1>6, <1>7, <2>1
    <3> QED
      BY <1>4, <2>1, <3>1
  <2>2. CASE ~ (work[w].wrote /\ Overwrites(p) /\ t = Target[p] /\ c = Column(p))
    <3>1. j = tickets[t][c]
      BY <1>5, <1>6, <1>7, <2>2
    <3> QED
      BY <1>6, <1>8, <3>1, WrittenForGood
  <2> QED
    BY <2>1, <2>2
<1>9. effects' = [effects EXCEPT ![i] =
             [writes |-> @.writes + One(work[w].wrote),
              actions |-> @.actions + One(work[w].recorded),
              old |-> IF work[w].recorded THEN work[w].old ELSE @.old]]
  BY <1>1 DEF Publish
<1>10. /\ \A a \in Ids \ {i} : effects'[a] = effects[a] /\ approvals'[a] = approvals[a]
       /\ effects'[i].old = IF work[w].recorded THEN work[w].old ELSE None
  <2>1. effects[i].old = None
    BY <1>2, <1>3 DEF Sourced, OldOfExecuted
  <2> QED
    BY <1>2, <1>9, <2>1 DEF IInv, TypeOK
<1>11. work[w].recorded => approvals'[i].status = "executed" /\ work[w].wrote
  BY <1>1, <1>2 DEF Inserted, Closed, Holds
<1>12. OldOfExecuted'
  BY <1>2, <1>10, <1>11 DEF Sourced, OldOfExecuted
<1>13. ASSUME NEW a \in Ids, NEW j, j = effects'[a].old, j # None,
              Overwrites(approvals'[a].key.base)
       PROVE  LET q == approvals'[a].key.base
              IN  j # a /\ Sets(approvals'[j], Target[q], Column(q))
  <2>1. CASE a # i
    <3>1. /\ effects[a].old = j /\ j \in Ids
          /\ approvals'[a] = approvals[a]
      BY <1>10, <1>13, <2>1 DEF IInv, TypeOK, Effect
    <3>2. LET q == approvals[a].key.base
          IN  j # a /\ Sets(approvals[j], Target[q], Column(q))
      BY <1>13, <3>1 DEF Sourced, OldValuesWereThere
    <3> QED
      BY <3>1, <3>2, SetForGood
  <2>2. CASE a = i
    <3>1. work[w].recorded /\ work[w].wrote /\ j = work[w].old
      BY <1>10, <1>11, <1>13, <2>2
    <3>2. p = approvals'[a].key.base /\ Overwrites(p)
      BY <1>2, <1>13, <2>2 DEF ProposalOf
    <3>3. j = snap[w].tickets[Target[p]][Column(p)]
      BY <3>1, <3>2 DEF Sourced, OldRead
    <3>4. Sets(approvals[j], Target[p], Column(p)) /\ Sets(approvals'[j], Target[p], Column(p))
      BY <1>5, <1>6, <1>13, <3>3, WrittenForGood DEF WrittenBy
    <3>5. j # a
      BY <1>3, <2>2, <3>4 DEF Sets
    <3> QED
      BY <3>2, <3>4, <3>5
  <2> QED
    BY <2>1, <2>2
<1> QED
  BY <1>8, <1>12, <1>13 DEF WrittenBy, OldValuesWereThere

\* Every step keeps what has been said of the tables, the snapshots and the old values.
LEMMA SourcesKeep ==
    ASSUME ConstantsAssumption, IInv, Sourced, [Next]_vars
    PROVE  Sourced'
<1>1. ASSUME NEW w \in Workers, Step(w)
      PROVE  WrittenBy(tickets)' /\ OldOfExecuted' /\ OldValuesWereThere'
  <2>1. CASE Commit(w) /\ work[w].dirty
    BY <1>1, <2>1, PublishSources
  <2>2. CASE ~ (Commit(w) /\ work[w].dirty)
    <3>1. tickets' = tickets
      BY <1>1, <2>2, CommittedStays DEF Committed
    <3>2. effects' = effects /\ approvals' = approvals
      BY <1>1, <2>2, TablesStay
    <3> QED
      BY <3>1, <3>2 DEF Sourced, WrittenBy, OldOfExecuted, OldValuesWereThere, Sets,
                        Overwrites, Column
  <2> QED
    BY <2>1, <2>2
<1>2. ASSUME NEW w \in Workers, Step(w), NEW v \in Workers, InFlight(v)'
      PROVE  WrittenBy(snap[v].tickets)'
  <2>1. CASE v # w \/ (InFlight(w) /\ snap'[w] = snap[w])
    <3>1. InFlight(v) /\ snap'[v] = snap[v]
      BY <1>2, <2>1, StepFrame DEF IInv, Stays, InFlight
    <3>2. /\ snap[v].tickets \in [Tickets -> [Columns -> Ids \cup {None}]]
          /\ WrittenBy(snap[v].tickets)
      BY <3>1, SnapTyped DEF InFlight, Snapshot, Sourced
    <3>3. ASSUME NEW t \in Tickets, NEW c \in Columns, snap'[v].tickets[t][c] # None
          PROVE  Sets(approvals'[snap'[v].tickets[t][c]], t, c)
      BY <3>1, <3>2, <3>3, WrittenForGood
    <3> QED
      BY <3>3 DEF WrittenBy
  <2>2. CASE v = w /\ snap'[w] = Committed
    <3>1. snap'[v].tickets = tickets
      BY <2>2 DEF Committed
    <3>2. ASSUME NEW t \in Tickets, NEW c \in Columns, snap'[v].tickets[t][c] # None
          PROVE  Sets(approvals'[snap'[v].tickets[t][c]], t, c)
      BY <3>1, <3>2, WrittenForGood DEF IInv, TypeOK, Sourced
    <3> QED
      BY <3>2 DEF WrittenBy
  <2> QED
    BY <1>2, <2>1, <2>2, SnapOnce DEF IInv
<1>3. ASSUME NEW w \in Workers, Step(w), NEW v \in Workers
      PROVE  OldRead(v)'
  <2>1. CASE v = w
    BY <1>3, <2>1, StepGoes DEF Sourced, Goes, OldRead
  <2>2. CASE v # w
    BY <1>3, <2>2, StepFrame DEF IInv, Stays, Sourced, OldRead, ProposalOf, Overwrites, Column
  <2> QED
    BY <2>1, <2>2
<1>4. CASE Tick \/ Done \/ UNCHANGED vars
  <2>1. /\ work' = work /\ snap' = snap /\ pc' = pc
        /\ approvals' = approvals /\ tickets' = tickets /\ effects' = effects
    BY <1>4 DEF Tick, Done, vars, db
  <2>2. WrittenBy(tickets)' /\ OldOfExecuted'
    BY <2>1 DEF Sourced, WrittenBy, OldOfExecuted
  <2>3. OldValuesWereThere'
    BY <2>1 DEF Sourced, OldValuesWereThere
  <2>4. \A w \in Workers : (InFlight(w) => WrittenBy(snap[w].tickets))' /\ OldRead(w)'
    BY <2>1 DEF Sourced, WrittenBy, InFlight, OldRead, ProposalOf
  <2> QED
    BY <2>2, <2>3, <2>4 DEF Sourced
<1> QED
  BY <1>1, <1>2, <1>3, <1>4 DEF Next, Step, Sourced

LEMMA InitSourced == Init => Sourced
BY DEF Init, Sourced, WrittenBy, OldOfExecuted, OldValuesWereThere, OldRead, InFlight,
       NoEffect, NoWork, Loaded

\* On both engines an old value in ticket_actions is one that another approval, executed
\* before, has written to the same column: never one that was rolled back
\* (repository_ticket.go AssignTicket, EscalateTicket).
THEOREM OldValuesAreReal == Spec => []OldValuesWereThere
<1>1. IInv /\ Sourced /\ [Next]_vars => Sourced'
  BY SourcesKeep, ConstantsAssumption
<1>2. Sourced => OldValuesWereThere
  BY DEF Sourced
<1> QED
  BY <1>1, <1>2, InitSourced, Inductive, PTL DEF Spec
-----------------------------------------------------------------------------
(* Nobody waits forever: the part of it that is about single steps.        *)

\* Locks are held from the first UPDATE on, and the lock of a ticket after the last
\* statement that may wait.
LEMMA Holding ==
    ASSUME IInv, NEW v \in Workers
    PROVE  /\ work[v].dirty => pc[v] \notin {"idle", "started", "insert", "mark"}
           /\ work[v].wrote => pc[v] \notin {"idle", "started", "insert", "mark", "execute"}
BY DEF IInv, Phase, Holds, Inserted, NoWork, Loaded

LEMMA WaitsInOrder == IInv => WaitsEnd
<1> SUFFICES ASSUME IInv, NEW v \in Workers, NEW w \in Workers, WaitsFor(w, v)
             PROVE  /\ InFlight(v)
                    /\ \A u \in Workers : WaitsFor(v, u) => InFlight(u) /\ ~ Waits(u)
  BY DEF WaitsEnd
<1>1. InFlight(v) /\ pc[v] \notin {"insert", "mark"}
  BY Holding DEF WaitsFor, InFlight
<1>2. ASSUME NEW u \in Workers, WaitsFor(v, u)
      PROVE  InFlight(u) /\ ~ Waits(u)
  <2>1. work[u].wrote
    BY <1>1, <1>2 DEF WaitsFor
  <2> QED
    BY <2>1, Holding DEF WaitsFor, InFlight, Waits
<1> QED
  BY <1>1, <1>2

\* By the locks that WaitsFor tells of, no transactions wait for each other in a circle, nor for
\* a lock that was left behind, however many requests are in flight: rows of approvals are locked
\* before rows of tickets (approval.go Approve, executeApprovedAction; http.go withTx).
THEOREM NoWaitingInCircles == Spec => []WaitsEnd
BY Inductive, WaitsInOrder, PTL

\* What the next statement of w asks of the other transactions.
MayGo(w) ==
    /\ pc[w] \in {"insert", "mark"} => MayWrite(w) \/ BusySnapshot(w)
    /\ pc[w] = "insert" => ~ PendingDuplicate(w)
    /\ pc[w] = "mark" => ~ RowLocked(w, work[w].id)
    /\ pc[w] = "execute" /\ Overwrites(ProposalOf(w)) => ~ TicketLocked(w)

\* Whoever may not go on waits for somebody.
LEMMA StoppedWaits ==
    ASSUME NEW w \in Workers, ~ MayGo(w)
    PROVE  Waits(w)
BY DEF MayGo, Waits, WaitsFor, MayWrite, BusySnapshot, PendingDuplicate, RowLocked,
       TicketLocked, Others

\* As long as requests are in flight, the next statement of one of them may be executed.
SomeMayGo ==
    (\E w \in Workers : InFlight(w)) => \E w \in Workers : InFlight(w) /\ MayGo(w)

\* The service never stands still: whatever the requests, one of those in flight waits for
\* no lock (http.go withTx).
THEOREM NoStandstill == Spec => []SomeMayGo
<1>1. ASSUME WaitsEnd
      PROVE  SomeMayGo
  <2>1. ASSUME NEW w \in Workers, InFlight(w), ~ MayGo(w)
        PROVE  \E u \in Workers : InFlight(u) /\ ~ Waits(u)
    <3>1. PICK v \in Workers : WaitsFor(w, v)
      BY <2>1, StoppedWaits DEF Waits
    <3>2. InFlight(v) /\ \A u \in Workers : WaitsFor(v, u) => InFlight(u) /\ ~ Waits(u)
      BY <1>1, <3>1 DEF WaitsEnd
    <3> QED
      BY <3>2 DEF Waits
  <2> QED
    BY <2>1, StoppedWaits DEF SomeMayGo
<1> QED
  BY <1>1, NoWaitingInCircles, PTL

\* How many statements the handler of w has left at most.
StatementsLeft(w) ==
    CASE pc[w] = "started" -> 7
      [] pc[w] \in {"insert", "mark"} -> 6
      [] pc[w] = "execute" -> 5
      [] pc[w] = "record" -> 4
      [] pc[w] \in {"finish", "failed"} -> 3
      [] pc[w] = "reply" -> 2
      [] pc[w] \in {"commit", "rollback"} -> 1
      [] pc[w] = "idle" -> 0

\* A request in flight only comes nearer to its end, whatever fails in it.
Nearing ==
    [][\A w \in Workers : InFlight(w) =>
        StatementsLeft(w)' < StatementsLeft(w) \/ Stays(w)]_vars

\* Every handler ends after seven statements at most: none loops or tries again, and the
\* steps of other requests take it nowhere (approval.go, http.go withTx).
THEOREM HandlersEnd == Spec => Nearing
<1>1. ASSUME IInv, NEW v \in Workers, Step(v), InFlight(v)
      PROVE  StatementsLeft(v)' < StatementsLeft(v)
  <2>1. pc \in [Workers -> PCs]
    BY <1>1 DEF IInv, TypeOK
  <2>2. CASE Create(v)
    <3>1. pc[v] \in {"started", "insert"} /\ pc' \in [Workers -> PCs]
      BY <2>1, <2>2 DEF Create, Creating, RefuseProposal, ReuseProposal, PrepareProposal,
         InsertRow, InsertDuplicate, LookUpAgain, Goto, Fail, PCs
    <3>2. pc[v] = "started" => pc'[v] \in {"insert", "reply", "rollback"}
      BY <2>1, <2>2 DEF Create, RefuseProposal, ReuseProposal, PrepareProposal,
         InsertRow, InsertDuplicate, Goto, Fail
    <3>3. pc[v] = "insert" => pc'[v] \in {"reply", "rollback"}
      BY <2>1, <2>2 DEF Create, Creating, RefuseProposal, ReuseProposal, PrepareProposal,
         InsertRow, InsertDuplicate, LookUpAgain, Goto, Fail
    <3> QED
      BY <3>1, <3>2, <3>3 DEF StatementsLeft
  <2>3. CASE DecideRequest(v)
    <3>1. CASE RefuseDecision(v) \/ RepeatDecision(v) \/ Decide(v)
      <4>1. pc[v] = "started" /\ pc'[v] \in {"rollback", "reply", "mark"}
        BY <2>1, <3>1 DEF RefuseDecision, RepeatDecision, Decide, Deciding, Goto, Fail
      <4> QED
        BY <4>1 DEF StatementsLeft
    <3>2. CASE Mark(v) \/ MarkConflict(v)
      <4>1. pc[v] = "mark" /\ pc'[v] \in {"rollback", "reply", "execute"}
        BY <2>1, <3>2 DEF Mark, MarkConflict, Goto, Fail
      <4> QED
        BY <4>1 DEF StatementsLeft
    <3>3. CASE ExecuteInvalid(v) \/ ExecuteWrite(v)
      <4>1. pc[v] = "execute" /\ pc'[v] \in {"failed", "record"}
        BY <2>1, <3>3 DEF ExecuteInvalid, ExecuteWrite, Goto
      <4> QED
        BY <4>1 DEF StatementsLeft
    <3>4. CASE RecordAction(v)
      <4>1. pc[v] = "record" /\ pc'[v] \in {"failed", "finish"}
        BY <2>1, <3>4 DEF RecordAction, Goto
      <4> QED
        BY <4>1 DEF StatementsLeft
    <3>5. CASE Finish(v) \/ FinishFailed(v)
      <4>1. pc[v] \in {"finish", "failed"} /\ pc'[v] \in {"rollback", "reply"}
        BY <2>1, <3>5 DEF Finish, FinishFailed, Close, Goto
      <4> QED
        BY <4>1 DEF StatementsLeft
    <3> QED
      BY <2>3, <3>1, <3>2, <3>3, <3>4, <3>5 DEF DecideRequest
  <2>4. CASE EndTx(v) \/ Break(v)
    <3>1. CASE Reply(v)
      <4>1. pc[v] = "reply" /\ pc'[v] = "commit"
        BY <2>1, <3>1 DEF Reply, Goto
      <4> QED
        BY <4>1 DEF StatementsLeft
    <3>2. CASE Commit(v) \/ Rollback(v) \/ CommitFails(v)
      <4>1. pc[v] \in {"commit", "rollback"} /\ pc'[v] = "idle"
        BY <2>1, <3>2 DEF Commit, Rollback, CommitFails, Release, Goto
      <4> QED
        BY <4>1 DEF StatementsLeft
    <3>3. CASE AbortBusy(v) \/ InsertErrs(v)
      <4>1. pc[v] \in {"insert", "mark"} /\ pc'[v] \in {"rollback", "reply"}
        BY <2>1, <3>3 DEF AbortBusy, InsertErrs, LookUpAgain, Fail, Goto
      <4> QED
        BY <4>1 DEF StatementsLeft
    <3>4. CASE Abort(v)
      <4>1. pc[v] \in PCs \ {"idle", "commit", "rollback"} /\ pc'[v] = "rollback"
        BY <2>1, <3>4 DEF Abort, Fail, Goto
      <4> QED
        BY <4>1 DEF StatementsLeft, PCs
    <3>5. CASE ExecuteErrs(v)
      <4>1. pc[v] \in {"execute", "record"} /\ pc'[v] = "failed"
        BY <2>1, <3>5 DEF ExecuteErrs, Goto
      <4> QED
        BY <4>1 DEF StatementsLeft
    <3> QED
      BY <2>4, <3>1, <3>2, <3>3, <3>4, <3>5 DEF EndTx, Break
  <2>5. ~ Start(v)
    BY <1>1 DEF Start, InFlight
  <2> QED
    BY <1>1, <2>2, <2>3, <2>4, <2>5 DEF Step, Handle
<1>2. ASSUME IInv, [Next]_vars, NEW w \in Workers, InFlight(w)
      PROVE  StatementsLeft(w)' < StatementsLeft(w) \/ Stays(w)
  <2>1. CASE \E v \in Workers : Step(v)
    BY <1>1, <1>2, <2>1, StepFrame DEF IInv
  <2>2. CASE Tick \/ Done \/ UNCHANGED vars
    BY <2>2 DEF Tick, Done, vars, Stays
  <2> QED
    BY <1>2, <2>1, <2>2 DEF Next, Step
<1>3. IInv /\ [Next]_vars =>
        [\A w \in Workers : InFlight(w) =>
            StatementsLeft(w)' < StatementsLeft(w) \/ Stays(w)]_vars
  BY <1>2
<1> QED
  BY <1>3, Inductive, PTL DEF Spec, Nearing

-----------------------------------------------------------------------------
(* What the idempotency keys do promise.                                   *)

\* Two approvals of one proposal are in force only as retries of a third, rejected one, and
\* under different traces.
OpenTwiceByRetry ==
    \A i, j \in Present(approvals) :
        /\ i # j
        /\ approvals[i].key.base = approvals[j].key.base
        /\ {approvals[i].status, approvals[j].status} \subseteq ActiveOrCompleted
        => /\ \E b \in Present(approvals) \ {i, j} :
                /\ approvals[b].key = BaseKey(approvals[i].key.base)
                /\ approvals[b].status = "rejected"
           /\ None \notin {approvals[i].key.retry, approvals[j].key.retry}
           /\ approvals[i].key.retry # approvals[j].key.retry

\* However requests interleave, a proposal is pending or executed twice only if an approval
\* of it was rejected before and it was proposed again under two more trace ids
\* (approval.go CreateProposal, buildRetryIDKey).
THEOREM DuplicatesAreRetries == Spec => []OpenTwiceByRetry
<1>1. ASSUME IInv, NEW i \in Present(approvals), NEW j \in Present(approvals), i # j,
             approvals[i].key.base = approvals[j].key.base,
             approvals[i].status \in ActiveOrCompleted,
             approvals[j].status \in ActiveOrCompleted
      PROVE  /\ \E b \in Present(approvals) \ {i, j} :
                  /\ approvals[b].key = BaseKey(approvals[i].key.base)
                  /\ approvals[b].status = "rejected"
             /\ None \notin {approvals[i].key.retry, approvals[j].key.retry}
             /\ approvals[i].key.retry # approvals[j].key.retry
  <2>1. approvals[i].key \in Keys /\ approvals[j].key \in Keys
    BY <1>1 DEF IInv, RowsOK, RowOK, Present
  <2>2. approvals[i].key # approvals[j].key
    BY <1>1 DEF IInv, KeysIdentify, Clash
  <2>3. approvals[i].key.retry # approvals[j].key.retry
    BY <1>1, <2>1, <2>2 DEF Keys
  <2>4. ASSUME NEW k \in {i, j}, approvals[k].key.retry # None
        PROVE  \E b \in Present(approvals) \ {i, j} :
                   /\ approvals[b].key = BaseKey(approvals[i].key.base)
                   /\ approvals[b].status = "rejected"
    <3>1. PICK b \in WithKey(approvals, BaseKey(approvals[k].key.base)) :
              approvals[b].status = "rejected"
      BY <1>1, <2>4 DEF IInv, KeysIdentify
    <3> QED
      BY <1>1, <2>4, <3>1 DEF WithKey, ActiveOrCompleted
  <2>5. PICK b \in Present(approvals) \ {i, j} :
            /\ approvals[b].key = BaseKey(approvals[i].key.base)
            /\ approvals[b].status = "rejected"
    BY <2>3, <2>4
  <2>6. ASSUME NEW k \in {i, j}
        PROVE  approvals[k].key.retry # None
    <3>1. approvals[k].key # approvals[b].key
      BY <1>1, <2>5, <2>6 DEF IInv, KeysIdentify, Clash
    <3> QED
      BY <1>1, <2>1, <2>5, <2>6, <3>1 DEF Keys, BaseKey
  <2> QED
    BY <2>3, <2>5, <2>6
<1>2. IInv => OpenTwiceByRetry
  BY <1>1 DEF OpenTwiceByRetry
<1> QED
  BY <1>2, Inductive, PTL
=============================================================================
