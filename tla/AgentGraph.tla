----------------------------- MODULE AgentGraph -----------------------------
(***************************************************************************)
(* One run of the LangGraph graph of the Python runtime (graph.py): a      *)
(* message is planned into steps, the steps are executed one after the     *)
(* other through the internal API of the Go backend, each result is        *)
(* verified, an empty one is retried with a relaxed query, the answer is   *)
(* verified, and missing evidence is appended to the plan.                 *)
(*                                                                         *)
(* An action is a node of the graph together with the edge that leaves it. *)
(* A query is abstracted to the arguments that narrow it, a result to what *)
(* the verification looks for, the words of an answer to whether they pass *)
(* their verification.                                                     *)
(***************************************************************************)
EXTENDS Naturals, Sequences, FiniteSets

CONSTANTS
    Messages,             \* messages, each with the conversation memory it comes with
    Asks,                 \* Asks[m]: what the words of m ask for
    Plans,                \* Plans[m]: the plans the planner may make for m
    MaxPlan,              \* steps of the longest plan
    MaxStepReflections,   \* config.py, 2 by default
    MaxAnswerReflections, \* config.py, 1 by default
    None                  \* the null value

Ranked == {"query_refund_metrics", "find_refund_anomalies", "list_sla_breached_tickets"}
Proposers == {"propose_assign_ticket", "propose_add_ticket_comment", "propose_escalate_ticket"}
Tools == Ranked \cup Proposers \cup
    {"analyze_operational_anomaly", "get_ticket_detail", "get_ticket_comments",
     "get_recent_releases", "run_readonly_sql", "generate_report"}

\* What a call is restricted by ("few": top_k below 10; "dates": a range), or about.
Arguments == {"category", "region", "group_by", "few", "dates", "date", "ticket"}

Wishes == {"write", "attribution", "history", "detail", "top"}

Step == [tool : Tools, args : SUBSET Arguments]
Result == [tool : Tools, args : SUBSET Arguments, ok : BOOLEAN, full : BOOLEAN]

ASSUME ConstantsAssumption ==
    /\ Asks \in [Messages -> SUBSET Wishes]
    /\ MaxPlan \in Nat
    /\ Plans \in [Messages -> SUBSET Seq(Step)]
    /\ \A m \in Messages : \A p \in Plans[m] : Len(p) <= MaxPlan
    /\ MaxStepReflections \in Nat
    /\ MaxAnswerReflections \in Nat
    /\ None \notin Result
    /\ None \notin {"answered", "error"}

VARIABLES
    message,      \* the message of this run
    pc,           \* the node about to run, or "end"
    planned,      \* planned_calls
    index,        \* current_step_index, from 0
    last,         \* the latest of step_results
    results,      \* step_results
    reflections,  \* reflection_count
    supplements,  \* answer_reflection_count
    status,       \* "completed" or "approval_required"
    outcome,      \* how the run ended: "answered" or "error"
    nodes,        \* history: nodes that have run
    added,        \* history: steps appended to the plan
    proposals     \* history: create_proposal calls the backend has carried out

vars == <<message, pc, planned, index, last, results, reflections, supplements,
          status, outcome, nodes, added, proposals>>
-----------------------------------------------------------------------------
(* verification.py                                                         *)

\* What a tool that succeeds may return: a query may find no row.
Found(s) == {[tool |-> s.tool, args |-> s.args, ok |-> TRUE, full |-> f] :
                f \in IF s.tool \in Ranked THEN BOOLEAN ELSE {TRUE}}
Failed(s) == [tool |-> s.tool, args |-> s.args, ok |-> FALSE, full |-> FALSE]

\* verify_step_result looks for the content of a report under a name execute_step does
\* not store it under, so a report never passes.
Passes(r) ==
    /\ r.ok
    /\ r.tool # "generate_report"
    /\ r.tool \in Ranked => r.full

\* The restrictions of a tool in the order in which they are given up.
Restrictions(tool) ==
    CASE tool = "query_refund_metrics" -> <<"category", "region">>
      [] tool = "find_refund_anomalies" -> <<"few", "region">>
      [] tool = "list_sla_breached_tickets" -> <<"group_by", "region">>
      [] OTHER -> <<>>

\* build_step_reflection: the next attempt, if there is one.  Without a restriction the
\* window of dates is widened, which is always possible.
Relaxed(s) ==
    LET order == Restrictions(s.tool)
        left == {i \in DOMAIN order : order[i] \in s.args}
    IN  IF left # {}
        THEN {[s EXCEPT !.args = @ \ {order[i]}] :
                i \in {i \in left : \A j \in left : i <= j}}
        ELSE IF s.tool \in {"query_refund_metrics", "find_refund_anomalies"}
                /\ "dates" \in s.args
             THEN {s}
             ELSE {}

Known(tool) == \/ \E i \in DOMAIN planned : planned[i].tool = tool
               \/ \E r \in results : r.tool = tool
Wants(wish) == wish \in Asks[message]

\* Dates and ticket numbers are looked for in the results so far.
SomeRange == \E r \in results : "dates" \in r.args
SomeDate == \E r \in results : "dates" \in r.args \/ "date" \in r.args
SomeTicket == \E r \in results : r.tool = "get_ticket_detail" /\ r.ok

AddIf(wanted, tool, args) ==
    IF wanted /\ ~ Known(tool) THEN <<[tool |-> tool, args |-> args]>> ELSE <<>>

\* build_answer_reflection: evidence the message asks for and no step has fetched.
Additions ==
    AddIf(Wants("attribution") /\ SomeRange, "find_refund_anomalies", {"dates", "few"})
    \o AddIf(Wants("attribution") /\ SomeDate, "list_sla_breached_tickets", {"date", "group_by"})
    \o AddIf(Wants("attribution"), "get_recent_releases", {})
    \o AddIf(Wants("history") /\ SomeTicket, "get_ticket_comments", {"ticket"})
    \o AddIf(Wants("detail") /\ SomeTicket, "get_ticket_detail", {"ticket"})

\* verify_answer: a write without an approval never passes, what else is asked for
\* depends on the words of the answer, and an answer to nothing special passes.
Verdicts ==
    IF Wants("write") /\ status # "approval_required" THEN {FALSE}
    ELSE IF Asks[message] \subseteq {"write"} THEN {TRUE}
    ELSE BOOLEAN
-----------------------------------------------------------------------------
(* graph.py                                                                *)

Current == planned[index + 1]
Run(node) == pc = node /\ nodes' = nodes + 1
Goto(node) == pc' = node

PlanRequest ==
    /\ Run("plan_request")
    /\ planned' \in Plans[message]
    /\ Goto(IF planned' = <<>> THEN "synthesize_answer" ELSE "execute_step")
    /\ UNCHANGED <<message, index, last, results, reflections, supplements, status,
                   outcome, added, proposals>>

Record(r) ==
    /\ last' = r
    /\ results' = results \cup {r}

\* The tool answers; a proposal tool then has its proposal created in the same node.
ExecuteStep ==
    /\ Run("execute_step")
    /\ IF Current.tool \in Proposers
       THEN Goto("create_proposal") /\ UNCHANGED <<last, results>>
       ELSE Goto("verify_step") /\ \E r \in Found(Current) : Record(r)
    /\ UNCHANGED <<message, planned, index, reflections, supplements, status,
                   outcome, added, proposals>>

\* The backend refuses the tool call, or the proposal: BackendServiceError.
ExecuteFails ==
    /\ \/ Run("execute_step")
       \/ pc = "create_proposal" /\ UNCHANGED nodes
    /\ Goto("verify_step")
    /\ Record(Failed(Current))
    /\ UNCHANGED <<message, planned, index, reflections, supplements, status,
                   outcome, added, proposals>>

\* Mutation: the graph goes on after a proposal.
CreateProposalGoesOn ==
    /\ pc = "create_proposal"
    /\ \E stored \in {0, 1} : proposals' = proposals + stored
    /\ \E r \in Found(Current) : Record(r)
    /\ Goto("verify_step")
    /\ UNCHANGED <<message, planned, index, reflections, supplements, status,
                   outcome, nodes, added>>

\* The proposal is accepted; its transaction commits after the answer, or fails to.
CreateProposal ==
    /\ pc = "create_proposal"
    /\ \E stored \in {0, 1} : proposals' = proposals + stored
    /\ \E r \in Found(Current) : Record(r)
    /\ status' = "approval_required"
    /\ Goto("synthesize_answer")
    /\ UNCHANGED <<message, planned, index, reflections, supplements,
                   outcome, nodes, added>>

\* Mutation: a step is passed over when it has failed.
StepPassesAlways ==
    /\ Run("verify_step")
    /\ index' = index + 1
    /\ Goto(IF index' >= Len(planned) THEN "synthesize_answer" ELSE "execute_step")
    /\ UNCHANGED <<message, planned, last, results, reflections, supplements, status,
                   outcome, added, proposals>>

StepPasses ==
    /\ Run("verify_step")
    /\ Passes(last)
    /\ index' = index + 1
    /\ Goto(IF index' >= Len(planned) THEN "synthesize_answer" ELSE "execute_step")
    /\ UNCHANGED <<message, planned, last, results, reflections, supplements, status,
                   outcome, added, proposals>>

\* Mutation: one reflection too many.
MayReflectOnceMore == reflections <= MaxStepReflections /\ Relaxed(Current) # {}

MayReflect == reflections < MaxStepReflections /\ Relaxed(Current) # {}

StepRefused ==
    /\ Run("verify_step")
    /\ ~ Passes(last)
    /\ Goto(IF MayReflect THEN "reflect_step" ELSE "synthesize_answer")
    /\ UNCHANGED <<message, planned, index, last, results, reflections, supplements,
                   status, outcome, added, proposals>>

\* Mutation: reflections are not counted.
ReflectStepUncounted ==
    /\ Run("reflect_step")
    /\ \E s \in Relaxed(Current) : planned' = [planned EXCEPT ![index + 1] = s]
    /\ Goto("execute_step")
    /\ UNCHANGED <<message, index, last, results, reflections, supplements, status,
                   outcome, added, proposals>>

\* The step is replaced by a relaxed one and executed again.
ReflectStep ==
    /\ Run("reflect_step")
    /\ \E s \in Relaxed(Current) : planned' = [planned EXCEPT ![index + 1] = s]
    /\ reflections' = reflections + 1
    /\ Goto("execute_step")
    /\ UNCHANGED <<message, index, last, results, supplements, status,
                   outcome, added, proposals>>

SynthesizeAnswer ==
    /\ Run("synthesize_answer")
    /\ Goto("verify_answer")
    /\ UNCHANGED <<message, planned, index, last, results, reflections, supplements,
                   status, outcome, added, proposals>>

\* Mutation: whether there is anything to add is not asked.
MaySupplementAnyway == supplements < MaxAnswerReflections /\ status # "approval_required"

\* Something is missing, may still be fetched, and is not fetched yet.
MaySupplement ==
    /\ supplements < MaxAnswerReflections
    /\ status # "approval_required"
    /\ Additions # <<>>

VerifyAnswer ==
    /\ Run("verify_answer")
    /\ \E passed \in Verdicts :
        Goto(IF ~ passed /\ MaySupplement THEN "reflect_answer" ELSE "finalize")
    /\ UNCHANGED <<message, planned, index, last, results, reflections, supplements,
                   status, outcome, added, proposals>>

\* Mutation: the plan grows, and the answer is made again without executing it.
ReflectAnswerOnly ==
    /\ Run("reflect_answer")
    /\ planned' = planned \o Additions
    /\ added' = added \cup {Additions[i] : i \in DOMAIN Additions}
    /\ supplements' = supplements + 1
    /\ Goto("synthesize_answer")
    /\ UNCHANGED <<message, index, last, results, reflections, status,
                   outcome, proposals>>

\* The plan grows; the step to go on with is the one the index still names.
ReflectAnswer ==
    /\ Run("reflect_answer")
    /\ planned' = planned \o Additions
    /\ added' = added \cup {Additions[i] : i \in DOMAIN Additions}
    /\ supplements' = supplements + 1
    /\ Goto("execute_step")
    /\ UNCHANGED <<message, index, last, results, reflections, status,
                   outcome, proposals>>

Finalize ==
    /\ Run("finalize")
    /\ outcome' = "answered"
    /\ Goto("end")
    /\ UNCHANGED <<message, planned, index, last, results, reflections, supplements,
                   status, added, proposals>>

\* A call to the backend fails in transport or times out, or LangGraph gives up (its
\* recursion limit): the exception ends the run with an HTTP error (app.py).  A
\* proposal under way may have been created all the same.
Raise ==
    /\ pc # "end"
    /\ outcome' = "error"
    /\ proposals' \in IF pc = "create_proposal" THEN {proposals, proposals + 1}
                      ELSE {proposals}
    /\ Goto("end")
    /\ UNCHANGED <<message, planned, index, last, results, reflections, supplements,
                   status, nodes, added>>
-----------------------------------------------------------------------------
Init ==
    /\ message \in Messages
    /\ pc = "plan_request"
    /\ planned = <<>>
    /\ index = 0
    /\ last = None
    /\ results = {}
    /\ reflections = 0
    /\ supplements = 0
    /\ status = "completed"
    /\ outcome = None
    /\ nodes = 0
    /\ added = {}
    /\ proposals = 0

Execute == ExecuteStep \/ ExecuteFails \/ CreateProposal
Verify == StepPasses \/ StepRefused \/ ReflectStep
Answer == SynthesizeAnswer \/ VerifyAnswer \/ ReflectAnswer \/ Finalize

\* The run has ended.
Done == pc = "end" /\ UNCHANGED vars

Next == PlanRequest \/ Execute \/ Verify \/ Answer \/ Raise \/ Done

Spec == Init /\ [][Next]_vars
-----------------------------------------------------------------------------
(* Properties.                                                             *)

PCs == {"plan_request", "execute_step", "create_proposal", "verify_step", "reflect_step",
        "synthesize_answer", "verify_answer", "reflect_answer", "finalize", "end"}

\* Every variable has its type; the reflections stay within their limits
\* (graph.py route_after_step_verification, route_after_answer_verification).
TypeOK ==
    /\ message \in Messages
    /\ pc \in PCs
    /\ planned \in Seq(Step)
    /\ index \in Nat
    /\ last \in Result \cup {None}
    /\ results \subseteq Result
    /\ reflections \in 0 .. MaxStepReflections
    /\ supplements \in 0 .. MaxAnswerReflections
    /\ status \in {"completed", "approval_required"}
    /\ outcome \in {"answered", "error", None}
    /\ nodes \in Nat
    /\ added \subseteq Step
    /\ proposals \in Nat

\* Nodes a run may still go through: two for each step left, three for each retry,
\* fifteen for each supplement (five steps, a failing one, an answer), and those on
\* the way from the current node to the end.
OnTheWay(node) ==
    CASE node = "execute_step" -> 5
      [] node = "create_proposal" -> 4
      [] node = "verify_step" -> 4
      [] node = "reflect_step" -> 3
      [] node = "synthesize_answer" -> 3
      [] node = "verify_answer" -> 2
      [] node = "reflect_answer" -> 1
      [] node = "finalize" -> 1
      [] OTHER -> 0

Retries == 3 * (MaxStepReflections - reflections)
            + 15 * (MaxAnswerReflections - supplements)

\* The longest run for any plan of at most MaxPlan steps.
Budget == 6 + 2 * MaxPlan + 3 * MaxStepReflections + 15 * MaxAnswerReflections

\* The loop ends on its own: however steps fail and answers fall short, no run goes
\* through more nodes than its limits allow (graph.py, the counters of the reflections).
Bounded == nodes <= Budget

\* The step the index names exists whenever it is executed, verified or replaced: no
\* run dies of an IndexError (graph.py verify_step, reflect_step, reflect_answer).
IndexInRange ==
    pc \in {"execute_step", "create_proposal", "verify_step", "reflect_step"} =>
        index < Len(planned)

\* Every step before the index has passed as it now stands in the plan, so a write is
\* proposed only on the evidence planned before it (graph.py verify_step, reflect_step).
StepsInOrder ==
    \A i \in 1 .. index :
        /\ i <= Len(planned)
        /\ \E r \in results :
            /\ Passes(r)
            /\ r.tool = planned[i].tool
            /\ r.args = planned[i].args

\* Once a proposal is made no tool runs and nothing else is proposed: a run makes one
\* proposal at most (graph.py route_after_execute, route_after_answer_verification).
StopsAtProposal ==
    [][proposals > 0 \/ status = "approval_required" =>
        UNCHANGED <<planned, results, proposals>>]_vars
\* The step the index names was executed as it stands, refused, and may not be relaxed.
RefusedForGood ==
    /\ index < Len(planned)
    /\ last # None
    /\ ~ Passes(last)
    /\ last.tool = Current.tool
    /\ last.args = Current.args
    /\ ~ MayReflect

\* The steps that were added to the plan have been executed when the run is answered, unless
\* it stopped at a proposal or at a step that was refused for good (graph.py reflect_answer).
SupplementedUnlessStuck ==
    outcome = "answered" /\ status # "approval_required" /\ ~ RefusedForGood =>
        \A s \in added : \E r \in results : Passes(r) /\ r.tool = s.tool
-----------------------------------------------------------------------------
(* The inductive invariant.                                                *)

\* What a run has gone through and what it may still go through.
WithinBudget ==
    IF pc = "plan_request"
    THEN /\ nodes = 0 /\ planned = <<>> /\ index = 0
         /\ reflections = 0 /\ supplements = 0
    ELSE /\ index <= Len(planned)
         /\ nodes + 2 * (Len(planned) - index) + Retries + OnTheWay(pc) <= Budget

\* The result being verified is that of the step the index names, and a reflection is
\* entered only when there is one to make.
Entered ==
    /\ pc = "verify_step" =>
        last \in results /\ last.tool = Current.tool /\ last.args = Current.args
    /\ pc = "reflect_step" => reflections < MaxStepReflections
    /\ pc = "reflect_answer" => supplements < MaxAnswerReflections /\ Additions # <<>>
    /\ status = "approval_required" =>
        pc \in {"synthesize_answer", "verify_answer", "finalize", "end"}
    /\ proposals > 0 => status = "approval_required" \/ pc = "end"

IInv == TypeOK /\ IndexInRange /\ WithinBudget /\ StepsInOrder /\ Entered
-----------------------------------------------------------------------------
(* What the documents say and the code does not do.                        *)

\* README.md: an answer that lacks evidence has the missing steps fetched.  When a run
\* is answered, the steps that were added to its plan have been executed.
Supplemented ==
    outcome = "answered" =>
        \A s \in added : \E r \in results : r.tool = s.tool

\* verification.py: the reason to refuse a report is that it is empty.  A report that
\* has content passes.
ReportPasses ==
    [][pc = "verify_step" /\ last.tool = "generate_report" /\ last.full /\ pc' # "end"
        => index' = index + 1]_vars
=============================================================================
