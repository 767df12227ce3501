-------------------------- MODULE AgentGraphProofs --------------------------
(***************************************************************************)
(* Theorems about module AgentGraph, for all messages, plans and limits.   *)
(***************************************************************************)
EXTENDS AgentGraph, SequenceTheorems, TLAPS

\* What build_step_reflection returns is a step.
LEMMA RelaxedTyped == ASSUME NEW s \in Step PROVE Relaxed(s) \subseteq Step
  BY DEF Relaxed, Step

\* A result is that of the step that was executed.
LEMMA FoundTyped ==
  ASSUME NEW s \in Step, NEW r \in Found(s)
  PROVE  r \in Result /\ r.tool = s.tool /\ r.args = s.args
<1>1. PICK f \in BOOLEAN : r = [tool |-> s.tool, args |-> s.args, ok |-> TRUE, full |-> f]
  BY DEF Found
<1>2. s.tool \in Tools /\ s.args \in SUBSET Arguments
  BY DEF Step
<1> QED
  BY <1>1, <1>2 DEF Result

\* A failed call leaves a result, too.
LEMMA FailedTyped ==
  ASSUME NEW s \in Step
  PROVE  Failed(s) \in Result /\ Failed(s).tool = s.tool /\ Failed(s).args = s.args
<1>1. s.tool \in Tools /\ s.args \in SUBSET Arguments
  BY DEF Step
<1> QED
  BY <1>1 DEF Failed, Result

\* At most n steps.
Short(n, s) == s \in Seq(Step) /\ Len(s) <= n

\* Steps put one after the other.
LEMMA ShortConcat ==
  ASSUME NEW m \in Nat, NEW n \in Nat, NEW s, NEW t, Short(m, s), Short(n, t)
  PROVE  Short(m + n, s \o t)
<1>1. s \o t \in Seq(Step) /\ Len(s \o t) = Len(s) + Len(t)
  BY ConcatProperties DEF Short
<1>2. Len(s) \in Nat /\ Len(t) \in Nat
  BY LenProperties DEF Short
<1> QED
  BY <1>1, <1>2 DEF Short

\* One call is added, or none.
LEMMA AddIfShort ==
  ASSUME NEW wanted, NEW tool \in Tools, NEW args \in SUBSET Arguments
  PROVE  Short(1, AddIf(wanted, tool, args))
<1>1. [tool |-> tool, args |-> args] \in Step
  BY DEF Step
<1>2. CASE wanted /\ ~ Known(tool)
  BY <1>1, <1>2 DEF AddIf, Short
<1>3. CASE ~ (wanted /\ ~ Known(tool))
  BY <1>3 DEF AddIf, Short
<1> QED
  BY <1>2, <1>3

\* build_answer_reflection adds five steps at most.
LEMMA AdditionsShort == Short(5, Additions)
<1> DEFINE A == AddIf(Wants("attribution") /\ SomeRange, "find_refund_anomalies",
                      {"dates", "few"})
           B == AddIf(Wants("attribution") /\ SomeDate, "list_sla_breached_tickets",
                      {"date", "group_by"})
           C == AddIf(Wants("attribution"), "get_recent_releases", {})
           D == AddIf(Wants("history") /\ SomeTicket, "get_ticket_comments", {"ticket"})
           E == AddIf(Wants("detail") /\ SomeTicket, "get_ticket_detail", {"ticket"})
<1>1. Short(1, A) /\ Short(1, B) /\ Short(1, C) /\ Short(1, D) /\ Short(1, E)
  BY AddIfShort DEF Tools, Ranked, Arguments
<1>2. Additions = A \o B \o C \o D \o E
  BY DEF Additions
<1> HIDE DEF A, B, C, D, E
<1>3. Short(1 + 1, A \o B)
  BY <1>1, ShortConcat
<1>4. Short(2 + 1, A \o B \o C)
  BY <1>1, <1>3, ShortConcat
<1>5. Short(3 + 1, A \o B \o C \o D)
  BY <1>1, <1>4, ShortConcat
<1>6. Short(4 + 1, A \o B \o C \o D \o E)
  BY <1>1, <1>5, ShortConcat
<1> QED
  BY <1>2, <1>6
-----------------------------------------------------------------------------
(* Facts about a state, and about steps that leave the plan alone.         *)

\* The step the index names is a step.
LEMMA CurrentTyped ==
  ASSUME TypeOK, index < Len(planned)
  PROVE  Current \in Step /\ index + 1 \in 1 .. Len(planned)
<1>1. index + 1 \in 1 .. Len(planned)
  BY LenProperties DEF TypeOK
<1> QED
  BY <1>1, ElementOfSeq DEF TypeOK, Current

\* More results do not undo the order of the steps.
LEMMA OrderKept ==
  ASSUME StepsInOrder, planned' = planned, index' = index, results \subseteq results'
  PROVE  StepsInOrder'
  BY DEF StepsInOrder, Passes

\* The numbers the budget is made of.
LEMMA Numbers ==
  ASSUME TypeOK
  PROVE  /\ Len(planned) \in Nat /\ index \in Nat /\ nodes \in Nat
         /\ Retries \in Nat /\ Budget \in Nat /\ OnTheWay(pc) \in Nat
<1>1. Len(planned) \in Nat
  BY LenProperties DEF TypeOK
<1>2. Retries \in Nat
  BY ConstantsAssumption DEF TypeOK, Retries
<1>3. Budget \in Nat
  BY ConstantsAssumption DEF Budget
<1>4. OnTheWay(pc) \in Nat
  BY DEF OnTheWay, TypeOK, PCs
<1> QED
  BY <1>1, <1>2, <1>3, <1>4 DEF TypeOK

\* A node that leaves plan and counters alone and brings the end nearer.
LEMMA BudgetKept ==
  ASSUME TypeOK, WithinBudget, pc # "plan_request", pc' # "plan_request",
         UNCHANGED <<planned, index, reflections, supplements>>,
         NEW n \in Nat, nodes' = nodes + n,
         OnTheWay(pc') \in Nat, OnTheWay(pc') + n <= OnTheWay(pc)
  PROVE  WithinBudget'
<1> DEFINE rest == 2 * (Len(planned) - index)
<1>1. index <= Len(planned) /\ nodes + rest + Retries + OnTheWay(pc) <= Budget
  BY DEF WithinBudget
<1>2. rest \in Int
  BY Numbers
<1>3. Retries' = Retries
  BY DEF Retries
<1>4. nodes' + rest + Retries + OnTheWay(pc') <= Budget
  <2> HIDE DEF rest
  <2> QED
    BY <1>1, <1>2, Numbers
<1>5. index' <= Len(planned')
  BY <1>1
<1>6. Budget' = Budget
  BY DEF Budget
<1>7. OnTheWay(pc)' = OnTheWay(pc')
  BY DEF OnTheWay
<1> QED
  BY <1>3, <1>4, <1>5, <1>6, <1>7 DEF WithinBudget
-----------------------------------------------------------------------------
(* Every node keeps the invariant.                                         *)

\* A run begins within its budget.
LEMMA Initial == Init => IInv
<1> SUFFICES ASSUME Init PROVE IInv
  OBVIOUS
<1>1. TypeOK
  BY ConstantsAssumption DEF Init, TypeOK, PCs
<1>2. WithinBudget /\ IndexInRange /\ Entered
  BY DEF Init, WithinBudget, IndexInRange, Entered
<1>3. StepsInOrder
  BY DEF Init, StepsInOrder
<1> QED
  BY <1>1, <1>2, <1>3 DEF IInv

\* plan_request: a plan has MaxPlan steps at most.
LEMMA PlanKeeps == IInv /\ PlanRequest => IInv'
<1> SUFFICES ASSUME IInv, PlanRequest PROVE IInv'
  OBVIOUS
<1> USE DEF PlanRequest, Run, Goto
<1>1. message \in Messages /\ planned' \in Plans[message]
  BY DEF IInv, TypeOK
<1>2. planned' \in Seq(Step) /\ Len(planned') <= MaxPlan
  BY <1>1, ConstantsAssumption
<1>3. Len(planned') \in Nat /\ (planned' # <<>> => Len(planned') > 0)
  BY <1>2, EmptySeq, LenProperties
<1>4. nodes = 0 /\ index = 0 /\ reflections = 0 /\ supplements = 0
  BY DEF IInv, WithinBudget
<1>5. TypeOK'
  BY <1>2, <1>4 DEF IInv, TypeOK, PCs
<1>6. IndexInRange'
  BY <1>3, <1>4 DEF IndexInRange
<1>7. WithinBudget'
  <2>1. OnTheWay(pc)' \in 0 .. 5
    BY DEF OnTheWay
  <2>2. pc' # "plan_request" /\ index' = 0 /\ nodes' = 1
    BY <1>4
  <2>3. Retries' = 3 * MaxStepReflections + 15 * MaxAnswerReflections
    BY <1>4, ConstantsAssumption DEF Retries
  <2>4. Budget' = 6 + 2 * MaxPlan + 3 * MaxStepReflections + 15 * MaxAnswerReflections
    BY DEF Budget
  <2> DEFINE l == Len(planned')
             o == OnTheWay(pc)'
             r == 3 * MaxStepReflections + 15 * MaxAnswerReflections
  <2>5. r \in Nat /\ l \in Nat /\ l <= MaxPlan /\ MaxPlan \in Nat
    BY <1>2, <1>3, ConstantsAssumption
  <2>6. 1 + 2 * (l - 0) + r + o <= 6 + 2 * MaxPlan + r
    <3> HIDE DEF l, o, r
    <3>1. o \in 0 .. 5
      BY <2>1 DEF o
    <3> QED
      BY <2>5, <3>1
  <2>7. 6 + 2 * MaxPlan + r = 6 + 2 * MaxPlan + 3 * MaxStepReflections
                                + 15 * MaxAnswerReflections
    BY ConstantsAssumption
  <2> QED
    BY <2>2, <2>3, <2>4, <2>5, <2>6, <2>7 DEF WithinBudget
<1>8. StepsInOrder'
  BY <1>4 DEF StepsInOrder
<1>9. Entered'
  BY DEF IInv, Entered
<1> QED
  BY <1>5, <1>6, <1>7, <1>8, <1>9 DEF IInv

\* execute_step: the result is that of the step the index names.
LEMMA ExecuteKeeps == IInv /\ ExecuteStep => IInv'
<1> SUFFICES ASSUME IInv, ExecuteStep PROVE IInv'
  OBVIOUS
<1> USE DEF ExecuteStep, Run, Goto
<1>1. index < Len(planned)
  BY DEF IInv, IndexInRange
<1>2. Current \in Step
  BY <1>1, CurrentTyped DEF IInv
<1>3. CASE Current.tool \in Proposers
  <2>1. TypeOK'
    BY <1>3 DEF IInv, TypeOK, PCs
  <2>2. IndexInRange'
    BY <1>1 DEF IndexInRange
  <2>3. WithinBudget'
    BY <1>3, BudgetKept DEF IInv, OnTheWay
  <2>4. StepsInOrder'
    BY <1>3, OrderKept DEF IInv
  <2>5. Entered'
    BY <1>3 DEF IInv, Entered
  <2> QED
    BY <2>1, <2>2, <2>3, <2>4, <2>5 DEF IInv
<1>4. CASE Current.tool \notin Proposers
  <2>1. PICK r \in Found(Current) : last' = r /\ results' = results \cup {r}
    BY <1>4 DEF Record
  <2>2. r \in Result /\ r.tool = Current.tool /\ r.args = Current.args
    BY <1>2, <2>1, FoundTyped
  <2>3. TypeOK'
    BY <1>4, <2>1, <2>2 DEF IInv, TypeOK, PCs
  <2>4. IndexInRange'
    BY <1>1 DEF IndexInRange
  <2>5. WithinBudget'
    BY <1>4, BudgetKept DEF IInv, OnTheWay
  <2>6. StepsInOrder'
    BY <2>1, OrderKept DEF IInv
  <2>7. Entered'
    BY <1>4, <2>1, <2>2 DEF IInv, Entered, Current
  <2> QED
    BY <2>3, <2>4, <2>5, <2>6, <2>7 DEF IInv
<1> QED
  BY <1>3, <1>4

\* A refused call leaves a result of the step, too.
LEMMA ExecuteFailsKeeps == IInv /\ ExecuteFails => IInv'
<1> SUFFICES ASSUME IInv, ExecuteFails PROVE IInv'
  OBVIOUS
<1> USE DEF ExecuteFails, Run, Goto, Record
<1>1. index < Len(planned)
  BY DEF IInv, IndexInRange
<1>2. Current \in Step
  BY <1>1, CurrentTyped DEF IInv
<1> DEFINE r == Failed(Current)
<1>3. r \in Result /\ r.tool = Current.tool /\ r.args = Current.args
  BY <1>2, FailedTyped
<1>4. last' = r /\ results' = results \cup {r}
  OBVIOUS
<1> HIDE DEF r
<1>5. TypeOK'
  BY <1>3, <1>4 DEF IInv, TypeOK, PCs
<1>6. IndexInRange'
  BY <1>1 DEF IndexInRange
<1>7. WithinBudget'
  <2>1. CASE pc = "execute_step"
    BY <2>1, BudgetKept DEF IInv, OnTheWay
  <2>2. CASE pc = "create_proposal"
    <3>1. nodes' = nodes + 0
      BY <2>2 DEF IInv, TypeOK
    <3> QED
      BY <2>2, <3>1, BudgetKept DEF IInv, OnTheWay
  <2> QED
    BY <2>1, <2>2
<1>8. StepsInOrder'
  BY <1>4, OrderKept DEF IInv
<1>9. Entered'
  BY <1>3, <1>4 DEF IInv, Entered, Current
<1> QED
  BY <1>5, <1>6, <1>7, <1>8, <1>9 DEF IInv

\* create_proposal: the run turns to its answer.
LEMMA ProposalKeeps == IInv /\ CreateProposal => IInv'
<1> SUFFICES ASSUME IInv, CreateProposal PROVE IInv'
  OBVIOUS
<1> USE DEF CreateProposal, Goto
<1>1. index < Len(planned)
  BY DEF IInv, IndexInRange
<1>2. Current \in Step
  BY <1>1, CurrentTyped DEF IInv
<1>3. PICK r \in Found(Current) : last' = r /\ results' = results \cup {r}
  BY DEF Record
<1>4. r \in Result
  BY <1>2, <1>3, FoundTyped
<1>5. proposals' \in Nat
  BY DEF IInv, TypeOK
<1>6. TypeOK'
  BY <1>3, <1>4, <1>5 DEF IInv, TypeOK, PCs
<1>7. IndexInRange'
  BY DEF IndexInRange
<1>8. WithinBudget'
  <2>1. nodes' = nodes + 0
    BY DEF IInv, TypeOK
  <2> QED
    BY <2>1, BudgetKept DEF IInv, OnTheWay
<1>9. StepsInOrder'
  BY <1>3, OrderKept DEF IInv
<1>10. Entered'
  BY DEF IInv, Entered
<1> QED
  BY <1>6, <1>7, <1>8, <1>9, <1>10 DEF IInv

\* verify_step, passed: the step joins those that are done.
LEMMA PassesKeeps == IInv /\ StepPasses => IInv'
<1> SUFFICES ASSUME IInv, StepPasses PROVE IInv'
  OBVIOUS
<1> USE DEF StepPasses, Run, Goto
<1>1. index < Len(planned)
  BY DEF IInv, IndexInRange
<1>2. index \in Nat /\ Len(planned) \in Nat /\ nodes \in Nat /\ Retries \in Nat
  BY Numbers DEF IInv
<1>3. TypeOK'
  BY <1>2 DEF IInv, TypeOK, PCs
<1>4. IndexInRange'
  BY <1>2 DEF IndexInRange
<1>5. WithinBudget'
  <2>1. nodes + 2 * (Len(planned) - index) + Retries + 4 <= Budget
    BY DEF IInv, WithinBudget, OnTheWay
  <2>2. OnTheWay(pc)' \in {3, 5}
    BY DEF OnTheWay
  <2>3. Budget \in Nat /\ Budget' = Budget /\ Retries' = Retries
    BY Numbers DEF IInv, Budget, Retries
  <2>4. index' <= Len(planned')
    BY <1>1, <1>2
  <2> DEFINE r == Retries
             b == Budget
             l == Len(planned)
             o == OnTheWay(pc)'
  <2>5. nodes + 1 + 2 * (l - (index + 1)) + r + o <= b
    <3>1. l \in Nat /\ r \in Nat /\ b \in Nat /\ o \in {3, 5}
      BY <1>2, <2>2, <2>3
    <3>2. nodes + 2 * (l - index) + r + 4 <= b
      BY <2>1
    <3> HIDE DEF l, r, b, o
    <3> QED
      BY <1>2, <3>1, <3>2
  <2> QED
    BY <2>3, <2>4, <2>5 DEF WithinBudget
<1>6. StepsInOrder'
  <2> SUFFICES ASSUME NEW i \in 1 .. index'
               PROVE  /\ i <= Len(planned')
                      /\ \E r \in results' :
                          /\ Passes(r)
                          /\ r.tool = planned'[i].tool
                          /\ r.args = planned'[i].args
    BY DEF StepsInOrder, Passes
  <2>1. CASE i = index + 1
    <3>1. last \in results /\ last.tool = Current.tool /\ last.args = Current.args
      BY DEF IInv, Entered
    <3> QED
      BY <1>1, <1>2, <2>1, <3>1 DEF Current
  <2>2. CASE i # index + 1
    <3>1. i \in 1 .. index
      BY <1>2, <2>2
    <3> QED
      BY <3>1 DEF IInv, StepsInOrder
  <2> QED
    BY <2>1, <2>2
<1>7. Entered'
  BY DEF IInv, Entered
<1> QED
  BY <1>3, <1>4, <1>5, <1>6, <1>7 DEF IInv

\* verify_step, refused.
LEMMA RefusedKeeps == IInv /\ StepRefused => IInv'
<1> SUFFICES ASSUME IInv, StepRefused PROVE IInv'
  OBVIOUS
<1> USE DEF StepRefused, Run, Goto
<1>1. TypeOK'
  BY DEF IInv, TypeOK, PCs
<1>2. IndexInRange'
  BY DEF IInv, IndexInRange
<1>3. WithinBudget'
  <2>1. CASE MayReflect
    BY <2>1, BudgetKept DEF IInv, OnTheWay
  <2>2. CASE ~ MayReflect
    BY <2>2, BudgetKept DEF IInv, OnTheWay
  <2> QED
    BY <2>1, <2>2
<1>4. StepsInOrder'
  BY OrderKept DEF IInv
<1>5. Entered'
  BY DEF IInv, Entered, MayReflect
<1> QED
  BY <1>1, <1>2, <1>3, <1>4, <1>5 DEF IInv

\* reflect_step: one step is replaced, and one retry used up.
LEMMA ReflectKeeps == IInv /\ ReflectStep => IInv'
<1> SUFFICES ASSUME IInv, ReflectStep PROVE IInv'
  OBVIOUS
<1> USE DEF ReflectStep, Run, Goto
<1>1. index < Len(planned)
  BY DEF IInv, IndexInRange
<1>2. Current \in Step /\ index + 1 \in 1 .. Len(planned)
  BY <1>1, CurrentTyped DEF IInv
<1>3. PICK s \in Relaxed(Current) : planned' = [planned EXCEPT ![index + 1] = s]
  OBVIOUS
<1>4. s \in Step
  BY <1>2, <1>3, RelaxedTyped
<1>5. /\ planned' \in Seq(Step)
      /\ Len(planned') = Len(planned)
      /\ \A j \in 1 .. Len(planned) : j # index + 1 => planned'[j] = planned[j]
  BY <1>2, <1>3, <1>4, ExceptSeq DEF IInv, TypeOK
<1>6. reflections < MaxStepReflections /\ reflections \in Nat
  BY DEF IInv, Entered, TypeOK
<1>7. TypeOK'
  BY <1>5, <1>6, ConstantsAssumption DEF IInv, TypeOK, PCs
<1>8. IndexInRange'
  BY <1>1, <1>5 DEF IndexInRange
<1>9. WithinBudget'
  <2>1. nodes + 2 * (Len(planned) - index) + Retries + 3 <= Budget
    BY DEF IInv, WithinBudget, OnTheWay
  <2>2. OnTheWay(pc)' = 5
    BY DEF OnTheWay
  <2>3. Retries' = Retries - 3
    BY <1>6, ConstantsAssumption DEF IInv, TypeOK, Retries
  <2>4. Budget' = Budget /\ Budget \in Nat /\ Retries \in Nat
    BY Numbers DEF IInv, Budget
  <2>5. index \in Nat /\ Len(planned) \in Nat /\ nodes \in Nat
    BY Numbers DEF IInv
  <2> DEFINE r == Retries
             b == Budget
             l == Len(planned)
  <2>6. nodes + 1 + 2 * (l - index) + (r - 3) + 5 <= b
    <3>1. l \in Nat /\ r \in Nat /\ b \in Nat /\ nodes + 2 * (l - index) + r + 3 <= b
      BY <2>1, <2>4, <2>5
    <3> HIDE DEF l, r, b
    <3> QED
      BY <2>5, <3>1
  <2> QED
    BY <1>1, <1>5, <2>2, <2>3, <2>4, <2>5, <2>6 DEF WithinBudget
<1>10. StepsInOrder'
  <2> SUFFICES ASSUME NEW i \in 1 .. index
               PROVE  /\ i <= Len(planned')
                      /\ \E r \in results :
                          /\ Passes(r)
                          /\ r.tool = planned'[i].tool
                          /\ r.args = planned'[i].args
    BY DEF StepsInOrder, Passes
  <2>1. i # index + 1 /\ i \in 1 .. Len(planned)
    BY <1>1, Numbers DEF IInv
  <2>2. planned'[i] = planned[i]
    BY <1>5, <2>1
  <2> QED
    BY <1>5, <2>1, <2>2 DEF IInv, StepsInOrder
<1>11. Entered'
  BY DEF IInv, Entered
<1> QED
  BY <1>7, <1>8, <1>9, <1>10, <1>11 DEF IInv

\* synthesize_answer.
LEMMA SynthesizeKeeps == IInv /\ SynthesizeAnswer => IInv'
<1> SUFFICES ASSUME IInv, SynthesizeAnswer PROVE IInv'
  OBVIOUS
<1> USE DEF SynthesizeAnswer, Run, Goto
<1>1. TypeOK' /\ IndexInRange'
  BY DEF IInv, TypeOK, PCs, IndexInRange
<1>2. WithinBudget'
  BY BudgetKept DEF IInv, OnTheWay
<1>3. StepsInOrder'
  BY OrderKept DEF IInv
<1>4. Entered'
  BY DEF IInv, Entered
<1> QED
  BY <1>1, <1>2, <1>3, <1>4 DEF IInv

\* verify_answer: a supplement is made only when there is one to make.
LEMMA VerifyAnswerKeeps == IInv /\ VerifyAnswer => IInv'
<1> SUFFICES ASSUME IInv, VerifyAnswer PROVE IInv'
  OBVIOUS
<1> USE DEF VerifyAnswer, Run, Goto
<1>1. TypeOK' /\ IndexInRange'
  BY DEF IInv, TypeOK, PCs, IndexInRange
<1>2. pc' \in {"finalize", "reflect_answer"}
  OBVIOUS
<1>3. WithinBudget'
  <2>1. OnTheWay(pc') = 1 /\ OnTheWay(pc) = 2
    BY <1>2 DEF OnTheWay
  <2> QED
    BY <1>2, <2>1, BudgetKept DEF IInv
<1>4. StepsInOrder'
  BY OrderKept DEF IInv
<1>5. pc' = "reflect_answer" => MaySupplement
  OBVIOUS
<1>6. Additions' = Additions
  BY DEF Additions, AddIf, Known, Wants, SomeRange, SomeDate, SomeTicket
<1>7. Entered'
  BY <1>2, <1>5, <1>6 DEF IInv, Entered, MaySupplement
<1> QED
  BY <1>1, <1>3, <1>4, <1>7 DEF IInv

\* reflect_answer: the plan grows by one to five steps, and one supplement is used up.
LEMMA SupplementKeeps == IInv /\ ReflectAnswer => IInv'
<1> SUFFICES ASSUME IInv, ReflectAnswer PROVE IInv'
  OBVIOUS
<1> USE DEF ReflectAnswer, Run, Goto
<1> DEFINE A == Additions
           k == Len(A)
<1>1. A \in Seq(Step) /\ k <= 5 /\ k \in Nat \ {0}
  <2>1. A \in Seq(Step) /\ k <= 5
    BY AdditionsShort DEF Short
  <2>2. A # <<>>
    BY DEF IInv, Entered
  <2> QED
    BY <2>1, <2>2, EmptySeq
<1>2. planned \in Seq(Step) /\ planned' = planned \o A
  BY DEF IInv, TypeOK
<1>3. added' \subseteq Step
  <2>1. \A i \in DOMAIN A : A[i] \in Step
    BY <1>1, ElementOfSeq, LenProperties
  <2>2. added' = added \cup {A[i] : i \in DOMAIN A}
    OBVIOUS
  <2> QED
    BY <2>1, <2>2 DEF IInv, TypeOK
<1> HIDE DEF A
<1>4. /\ planned' \in Seq(Step)
      /\ Len(planned') = Len(planned) + k
      /\ \A i \in 1 .. Len(planned) : planned'[i] = planned[i]
  <2>1. Len(planned) \in Nat
    BY <1>2, LenProperties
  <2> QED
    BY <1>1, <1>2, <2>1, ConcatProperties
<1>5. supplements < MaxAnswerReflections /\ supplements \in Nat
  BY DEF IInv, Entered, TypeOK
<1>6. /\ index \in Nat /\ Len(planned) \in Nat /\ nodes \in Nat
      /\ Retries \in Nat /\ Budget \in Nat
  BY Numbers DEF IInv
<1>7. index <= Len(planned)
  BY DEF IInv, WithinBudget
<1>8. TypeOK'
  BY <1>3, <1>4, <1>5, ConstantsAssumption DEF IInv, TypeOK, PCs
<1>9. IndexInRange'
  BY <1>1, <1>4, <1>6, <1>7 DEF IndexInRange
<1>10. WithinBudget'
  <2>1. nodes + 2 * (Len(planned) - index) + Retries + 1 <= Budget
    BY DEF IInv, WithinBudget, OnTheWay
  <2>2. OnTheWay(pc)' = 5
    BY DEF OnTheWay
  <2>3. Retries' = Retries - 15
    BY <1>5, ConstantsAssumption DEF IInv, TypeOK, Retries
  <2>4. Budget' = Budget
    BY DEF Budget
  <2> DEFINE r == Retries
             b == Budget
             l == Len(planned)
  <2>5. nodes + 1 + 2 * ((l + k) - index) + (r - 15) + 5 <= b
    <3>1. l \in Nat /\ r \in Nat /\ b \in Nat /\ nodes + 2 * (l - index) + r + 1 <= b
      BY <1>6, <2>1
    <3> HIDE DEF l, r, b, k
    <3> QED
      BY <1>1, <1>6, <3>1
  <2>6. index' <= Len(planned')
    BY <1>1, <1>4, <1>6, <1>7
  <2> QED
    BY <1>4, <2>2, <2>3, <2>4, <2>5, <2>6 DEF WithinBudget
<1>11. StepsInOrder'
  <2> SUFFICES ASSUME NEW i \in 1 .. index
               PROVE  /\ i <= Len(planned')
                      /\ \E r \in results :
                          /\ Passes(r)
                          /\ r.tool = planned'[i].tool
                          /\ r.args = planned'[i].args
    BY DEF StepsInOrder, Passes
  <2>1. i \in 1 .. Len(planned)
    BY <1>6, <1>7
  <2>2. planned'[i] = planned[i] /\ i <= Len(planned')
    BY <1>1, <1>4, <1>6, <2>1
  <2> QED
    BY <2>2 DEF IInv, StepsInOrder
<1>12. Entered'
  BY DEF IInv, Entered
<1> QED
  BY <1>8, <1>9, <1>10, <1>11, <1>12 DEF IInv

\* finalize.
LEMMA FinalizeKeeps == IInv /\ Finalize => IInv'
<1> SUFFICES ASSUME IInv, Finalize PROVE IInv'
  OBVIOUS
<1> USE DEF Finalize, Run, Goto
<1>1. TypeOK' /\ IndexInRange'
  BY DEF IInv, TypeOK, PCs, IndexInRange
<1>2. WithinBudget'
  BY BudgetKept DEF IInv, OnTheWay
<1>3. StepsInOrder'
  BY OrderKept DEF IInv
<1>4. Entered'
  BY DEF IInv, Entered
<1> QED
  BY <1>1, <1>2, <1>3, <1>4 DEF IInv

\* An exception ends the run wherever it is.
LEMMA RaiseKeeps == IInv /\ Raise => IInv'
<1> SUFFICES ASSUME IInv, Raise PROVE IInv'
  OBVIOUS
<1> USE DEF Raise, Goto
<1>1. proposals' \in Nat
  BY DEF IInv, TypeOK
<1>2. TypeOK' /\ IndexInRange'
  BY <1>1 DEF IInv, TypeOK, PCs, IndexInRange
<1>3. WithinBudget'
  <2>1. CASE pc = "plan_request"
    <3>1. /\ nodes' = 0 /\ index' = 0 /\ Len(planned') = 0
          /\ reflections = 0 /\ supplements = 0
      BY <2>1, EmptySeq DEF IInv, WithinBudget
    <3>2. OnTheWay(pc)' = 0
      BY DEF OnTheWay
    <3>3. Retries' = 3 * MaxStepReflections + 15 * MaxAnswerReflections
      BY <3>1, ConstantsAssumption DEF Retries
    <3>4. 0 + 2 * (0 - 0) + Retries' + 0 <= Budget
      BY <3>3, ConstantsAssumption DEF Budget
    <3> QED
      BY <3>1, <3>2, <3>4 DEF WithinBudget, Budget
  <2>2. CASE pc # "plan_request"
    <3>1. nodes' = nodes + 0
      BY DEF IInv, TypeOK
    <3>2. OnTheWay(pc') = 0 /\ OnTheWay(pc) \in Nat
      BY Numbers DEF IInv, OnTheWay
    <3> QED
      BY <2>2, <3>1, <3>2, BudgetKept DEF IInv
  <2> QED
    BY <2>1, <2>2
<1>4. StepsInOrder'
  BY OrderKept DEF IInv
<1>5. Entered'
  BY DEF IInv, Entered
<1> QED
  BY <1>2, <1>3, <1>4, <1>5 DEF IInv

\* A run that has ended, or does not move.
LEMMA StutterKeeps == IInv /\ UNCHANGED vars => IInv'
<1> SUFFICES ASSUME IInv, UNCHANGED vars PROVE IInv'
  OBVIOUS
<1> USE DEF vars
<1>1. TypeOK' /\ IndexInRange'
  BY DEF IInv, TypeOK, IndexInRange
<1>2. WithinBudget'
  BY DEF IInv, WithinBudget, Retries, Budget, OnTheWay
<1>3. StepsInOrder'
  BY OrderKept DEF IInv
<1>4. Additions' = Additions /\ Current' = Current
  BY DEF Additions, AddIf, Known, Wants, SomeRange, SomeDate, SomeTicket, Current
<1>5. Entered'
  BY <1>4 DEF IInv, Entered
<1> QED
  BY <1>1, <1>2, <1>3, <1>5 DEF IInv
-----------------------------------------------------------------------------
(* Theorems.                                                               *)

\* No node breaks the invariant.
LEMMA NextKeeps == IInv /\ [Next]_vars => IInv'
  BY PlanKeeps, ExecuteKeeps, ExecuteFailsKeeps, ProposalKeeps, PassesKeeps, RefusedKeeps,
     ReflectKeeps, SynthesizeKeeps, VerifyAnswerKeeps, SupplementKeeps, FinalizeKeeps,
     RaiseKeeps, StutterKeeps
  DEF Next, Execute, Verify, Answer, Done

\* The invariant of a run (graph.py build_graph).
THEOREM Inductive == Spec => []IInv
  BY Initial, NextKeeps, PTL DEF Spec

\* Every variable has its type, and no more reflections are made than config.py allows.
THEOREM TypeCorrect == Spec => []TypeOK
<1>1. IInv => TypeOK
  BY DEF IInv
<1> QED
  BY <1>1, Inductive, PTL

\* The loop of graph.py ends on its own: whatever the tools return, a run goes through
\* no more nodes than its plan and the two limits of config.py allow.
THEOREM LoopBounded == Spec => []Bounded
<1>1. IInv => Bounded
  <2> SUFFICES ASSUME IInv PROVE nodes <= Budget
    BY DEF Bounded
  <2>1. /\ Len(planned) \in Nat /\ index \in Nat /\ nodes \in Nat
        /\ Retries \in Nat /\ Budget \in Nat /\ OnTheWay(pc) \in Nat
    BY Numbers DEF IInv
  <2>2. CASE pc = "plan_request"
    BY <2>1, <2>2 DEF IInv, WithinBudget
  <2>3. CASE pc # "plan_request"
    <3> DEFINE r == Retries
               b == Budget
               o == OnTheWay(pc)
               l == Len(planned)
    <3>1. index <= l /\ nodes + 2 * (l - index) + r + o <= b
      BY <2>3 DEF IInv, WithinBudget
    <3>2. l \in Nat /\ r \in Nat /\ b \in Nat /\ o \in Nat
      BY <2>1
    <3>3. nodes <= b
      <4> HIDE DEF l, r, b, o
      <4> QED
        BY <2>1, <3>1, <3>2
    <3> QED
      BY <3>3
  <2> QED
    BY <2>2, <2>3
<1> QED
  BY <1>1, Inductive, PTL

\* verify_step and reflect_step never index past the plan.
THEOREM IndexSafe == Spec => []IndexInRange
<1>1. IInv => IndexInRange
  BY DEF IInv
<1> QED
  BY <1>1, Inductive, PTL

\* Whatever comes before the step being executed has passed, as planned now.
THEOREM InOrder == Spec => []StepsInOrder
<1>1. IInv => StepsInOrder
  BY DEF IInv
<1> QED
  BY <1>1, Inductive, PTL

\* A run makes one proposal at most and runs no tool after it.
THEOREM OneProposal == Spec => StopsAtProposal
<1>1. IInv /\ [Next]_vars =>
        [proposals > 0 \/ status = "approval_required" =>
            UNCHANGED <<planned, results, proposals>>]_vars
  <2> SUFFICES ASSUME IInv, Next, proposals > 0 \/ status = "approval_required"
               PROVE  UNCHANGED <<planned, results, proposals>>
    OBVIOUS
  <2>1. pc \in {"synthesize_answer", "verify_answer", "finalize", "end"}
    BY DEF IInv, Entered
  <2>2. CASE SynthesizeAnswer \/ VerifyAnswer \/ Finalize
    BY <2>2 DEF SynthesizeAnswer, VerifyAnswer, Finalize
  <2>3. CASE Raise
    BY <2>1, <2>3 DEF Raise
  <2>4. CASE Done
    BY <2>4 DEF Done, vars
  <2> QED
    BY <2>1, <2>2, <2>3, <2>4
    DEF Next, PlanRequest, Execute, ExecuteStep, ExecuteFails, CreateProposal, Verify,
        StepPasses, StepRefused, ReflectStep, Answer, ReflectAnswer, Run
<1> QED
  BY <1>1, Inductive, PTL DEF Spec, StopsAtProposal
-----------------------------------------------------------------------------
(* What a run leaves out.                                                  *)

\* The nodes between the last step and the end of a run.
Answering == {"synthesize_answer", "verify_answer", "finalize"}

\* The nodes of the answer neither move the index nor touch plan and results.
LEMMA AnswerStays ==
  ASSUME SynthesizeAnswer \/ VerifyAnswer \/ Finalize \/ Done \/ UNCHANGED vars
  PROVE  /\ UNCHANGED <<planned, index, last, results, reflections, status, added>>
         /\ pc' \in Answering \/ outcome' = "answered" =>
                pc \in Answering \/ outcome = "answered"
  BY DEF SynthesizeAnswer, VerifyAnswer, Finalize, Done, vars, Run, Goto, Answering

\* An answer is made of the whole plan, after a proposal, or at a step that was refused for
\* good: no step, planned or added, is passed over (graph.py route_after_step_verification,
\* reflect_answer).
NothingPassedOver ==
    pc \in {"synthesize_answer", "verify_answer", "finalize"} \/ outcome = "answered" =>
        index = Len(planned) \/ status = "approval_required" \/ RefusedForGood

\* A run that has ended stays ended, and one that has not is not answered.
EndsOnce == outcome \in {"answered", "error"} => pc = "end"

LEMMA PassedOverKeeps ==
  ASSUME IInv, EndsOnce, NothingPassedOver, [Next]_vars
  PROVE  EndsOnce' /\ NothingPassedOver'
<1> USE DEF Answering
<1>1. ASSUME pc' \notin Answering, outcome' # "answered", outcome' = outcome, pc # "end"
      PROVE  EndsOnce' /\ NothingPassedOver'
  BY <1>1 DEF EndsOnce, NothingPassedOver
<1>2. CASE PlanRequest
  <2>1. index = 0 /\ pc # "end" /\ outcome' = outcome /\ index' = 0
    BY <1>2 DEF PlanRequest, Run, IInv, WithinBudget
  <2>2. pc' = "execute_step" \/ (pc' = "synthesize_answer" /\ planned' = <<>>)
    BY <1>2 DEF PlanRequest, Goto
  <2>3. planned' = <<>> => Len(planned') = 0
    BY EmptySeq
  <2> QED
    BY <2>1, <2>2, <2>3 DEF EndsOnce, NothingPassedOver
<1>3. CASE ExecuteStep \/ ExecuteFails \/ ReflectStep \/ ReflectAnswer
  <2>1. pc' \notin Answering /\ outcome' = outcome /\ pc # "end"
    BY <1>3 DEF ExecuteStep, ExecuteFails, ReflectStep, ReflectAnswer, Run, Goto
  <2> QED
    BY <1>1, <2>1 DEF EndsOnce
<1>4. CASE CreateProposal
  BY <1>4 DEF CreateProposal, Goto, EndsOnce, NothingPassedOver
<1>5. CASE StepPasses
  <2>1. pc = "verify_step" /\ outcome' = outcome /\ planned' = planned /\ index' = index + 1
    BY <1>5 DEF StepPasses, Run
  <2>2. index < Len(planned) /\ index \in Nat /\ Len(planned) \in Nat
    BY <2>1, Numbers DEF IInv, IndexInRange
  <2>3. pc' = "execute_step" \/ (pc' = "synthesize_answer" /\ index' = Len(planned))
    BY <1>5, <2>1, <2>2 DEF StepPasses, Goto
  <2> QED
    BY <2>1, <2>3 DEF EndsOnce, NothingPassedOver
<1>6. CASE StepRefused
  <2>1. /\ pc = "verify_step" /\ outcome' = outcome /\ ~ Passes(last)
        /\ UNCHANGED <<planned, index, last, reflections>>
    BY <1>6 DEF StepRefused, Run
  <2>2. MayReflect' = MayReflect /\ Passes(last)' = Passes(last) /\ Current' = Current
    BY <2>1 DEF MayReflect, Relaxed, Restrictions, Passes, Current
  <2>3. pc' = "reflect_step" \/ (pc' = "synthesize_answer" /\ ~ MayReflect)
    BY <1>6 DEF StepRefused, Goto
  <2>4. index < Len(planned) /\ last.tool = Current.tool /\ last.args = Current.args
        /\ last # None
    BY <2>1, ConstantsAssumption DEF IInv, IndexInRange, Entered, TypeOK
  <2> QED
    BY <2>1, <2>2, <2>3, <2>4 DEF EndsOnce, NothingPassedOver, RefusedForGood
<1>7. CASE SynthesizeAnswer \/ VerifyAnswer \/ Finalize \/ Done \/ UNCHANGED vars
  <2>1. RefusedForGood => RefusedForGood'
    <3>1. UNCHANGED <<planned, index, last, reflections>>
      BY <1>7, AnswerStays
    <3>2. MayReflect' = MayReflect /\ Passes(last)' = Passes(last) /\ Current' = Current
      BY <3>1 DEF MayReflect, Relaxed, Restrictions, Passes, Current
    <3> QED
      BY <3>1, <3>2 DEF RefusedForGood
  <2>2. NothingPassedOver'
    BY <1>7, <2>1, AnswerStays DEF NothingPassedOver
  <2>3. EndsOnce'
    BY <1>7 DEF EndsOnce, SynthesizeAnswer, VerifyAnswer, Finalize, Done, vars, Run, Goto
  <2> QED
    BY <2>2, <2>3
<1>8. CASE Raise
  BY <1>8 DEF Raise, Goto, EndsOnce, NothingPassedOver
<1> QED
  BY <1>2, <1>3, <1>4, <1>5, <1>6, <1>7, <1>8 DEF Next, Execute, Verify, Answer

\* No step of the plan is passed over: a run that answers early has made a proposal, or is
\* stuck at a step that was refused for good.
THEOREM PassesOverNothing == Spec => []NothingPassedOver
<1>1. Init => EndsOnce /\ NothingPassedOver
  BY ConstantsAssumption DEF Init, EndsOnce, NothingPassedOver
<1> QED
  BY <1>1, PassedOverKeeps, Inductive, PTL DEF Spec

\* Every step that was added is in the plan; a reflection changes its arguments at most.
AddedPlanned == \A s \in added : \E i \in 1 .. Len(planned) : planned[i].tool = s.tool

LEMMA RelaxedTool ==
  ASSUME NEW s \in Step, NEW t \in Relaxed(s)
  PROVE  t.tool = s.tool
BY DEF Relaxed, Step

LEMMA AddedKeeps ==
  ASSUME IInv, AddedPlanned, [Next]_vars
  PROVE  AddedPlanned'
<1>1. CASE PlanRequest
  <2>1. planned = <<>> /\ Len(planned) = 0 /\ added' = added
    BY <1>1, EmptySeq DEF IInv, WithinBudget, PlanRequest, Run
  <2> QED
    BY <2>1 DEF AddedPlanned
<1>2. CASE ReflectStep
  <2>1. PICK s \in Relaxed(Current) : planned' = [planned EXCEPT ![index + 1] = s]
    BY <1>2 DEF ReflectStep
  <2>2. Current \in Step /\ index + 1 \in 1 .. Len(planned)
    BY <1>2, CurrentTyped DEF IInv, IndexInRange, ReflectStep, Run
  <2>3. s \in Step /\ s.tool = Current.tool
    BY <2>1, <2>2, RelaxedTyped, RelaxedTool
  <2>4. /\ Len(planned') = Len(planned) /\ planned'[index + 1] = s
        /\ \A j \in 1 .. Len(planned) : j # index + 1 => planned'[j] = planned[j]
    BY <2>1, <2>2, <2>3, ExceptSeq DEF IInv, TypeOK
  <2>5. \A j \in 1 .. Len(planned) : planned'[j].tool = planned[j].tool
    BY <2>2, <2>3, <2>4 DEF Current
  <2> QED
    BY <1>2, <2>4, <2>5 DEF AddedPlanned, ReflectStep
<1>3. CASE ReflectAnswer
  <2> DEFINE A == Additions
  <2>1. A \in Seq(Step) /\ planned \in Seq(Step) /\ planned' = planned \o A
        /\ added' = added \cup {A[i] : i \in DOMAIN A}
    BY <1>3, AdditionsShort DEF Short, IInv, TypeOK, ReflectAnswer
  <2> HIDE DEF A
  <2>2. Len(planned) \in Nat /\ Len(A) \in Nat /\ DOMAIN A = 1 .. Len(A)
    BY <2>1, LenProperties
  <2>3. /\ Len(planned') = Len(planned) + Len(A)
        /\ \A i \in 1 .. Len(planned) : planned'[i] = planned[i]
        /\ \A i \in 1 .. Len(A) : planned'[Len(planned) + i] = A[i]
    BY <2>1, <2>2, ConcatProperties
  <2>4. ASSUME NEW s \in added'
        PROVE  \E i \in 1 .. Len(planned') : planned'[i].tool = s.tool
    <3>1. CASE s \in added
      <4>1. PICK i \in 1 .. Len(planned) : planned[i].tool = s.tool
        BY <3>1 DEF AddedPlanned
      <4>2. i \in 1 .. Len(planned')
        BY <2>2, <2>3
      <4> QED
        BY <2>3, <4>1, <4>2
    <3>2. CASE s \notin added
      <4>1. PICK i \in 1 .. Len(A) : s = A[i]
        BY <2>1, <2>2, <2>4, <3>2
      <4>2. Len(planned) + i \in 1 .. Len(planned')
        BY <2>2, <2>3
      <4> QED
        BY <2>3, <4>1, <4>2
    <3> QED
      BY <3>1, <3>2
  <2> QED
    BY <2>4 DEF AddedPlanned
<1>4. CASE ~ PlanRequest /\ ~ ReflectStep /\ ~ ReflectAnswer
  <2>1. UNCHANGED <<planned, added>>
    BY <1>4 DEF Next, Execute, ExecuteStep, ExecuteFails, CreateProposal, Verify, StepPasses,
       StepRefused, Answer, SynthesizeAnswer, VerifyAnswer, Finalize, Raise, Done, vars
  <2> QED
    BY <2>1 DEF AddedPlanned
<1> QED
  BY <1>1, <1>2, <1>3, <1>4

\* What the answer check has added to the plan is executed and passes before the run is
\* answered, unless the run is over by a proposal or stuck at a step refused for good.
THEOREM SupplementsReached == Spec => []SupplementedUnlessStuck
<1>1. Init => AddedPlanned
  BY DEF Init, AddedPlanned
<1>2. Spec => []AddedPlanned
  BY <1>1, AddedKeeps, Inductive, PTL DEF Spec
<1>3. IInv /\ AddedPlanned /\ NothingPassedOver => SupplementedUnlessStuck
  <2> SUFFICES ASSUME IInv, AddedPlanned, NothingPassedOver, outcome = "answered",
                      status # "approval_required", ~ RefusedForGood, NEW s \in added
               PROVE  \E r \in results : Passes(r) /\ r.tool = s.tool
    BY DEF SupplementedUnlessStuck
  <2>1. index = Len(planned)
    BY DEF NothingPassedOver
  <2>2. PICK i \in 1 .. index : planned[i].tool = s.tool
    BY <2>1 DEF AddedPlanned
  <2> QED
    BY <2>2 DEF IInv, StepsInOrder
<1> QED
  BY <1>2, <1>3, Inductive, PassesOverNothing, PTL
=============================================================================
