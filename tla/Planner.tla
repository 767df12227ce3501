------------------------------ MODULE Planner ------------------------------
(***************************************************************************)
(* How the Go backend turns one message into calls of tools and runs them: *)
(* PlannerService.Plan, the models it asks (planner_route_llm.go, llm.go), *)
(* the cache of its plans, and the loop over the plan in HandleChat.       *)
(*                                                                         *)
(* The message stays the same from turn to turn, which is when the cache   *)
(* of plans matters; what the conversation remembers, the mode of the      *)
(* request and the day may change.  A turn is one transaction.             *)
(***************************************************************************)
EXTENDS Router, Settings

CONSTANTS
    Inputs,     \* messages with the view of a configuration
    Contexts,   \* what BuildContext may find
    Overrides,  \* runtime_mode in the request; "" leaves the mode as configured
    Replies,    \* what a model may answer
    Queries,    \* what the sql of a model may be
    Rows,       \* how many rows a query may return
    SqlLimit,   \* ReadonlySQLLimit
    MaxTurns    \* bound: turns of a behaviour

Context == [memory : [Fields -> Nat], recent : Nat, summary : Nat]

\* A reply without a route_decision, or one without a tool, has tool "".  A model reads no clock.
IsReply(r) ==
    /\ r.tool \in STRING
    /\ r.confident \in BOOLEAN
    /\ \A k \in DOMAIN r.args : r.args[k] \in {From("model"), Blank}

ASSUME ConstantsAssumption ==
    /\ \A i \in Inputs : Message(i.message) /\ i.view \in ViewSet
    /\ Contexts \subseteq Context
    /\ Overrides \subseteq RawModes
    /\ \A r \in Replies : IsReply(r)
    /\ SqlLimit \in Nat
    /\ MaxDay \in Nat
    /\ MaxTurns \in Nat

VARIABLES
    message,    \* the words of the message
    view,       \* the configuration
    day,        \* today
    turns,      \* turns so far, and the number of the one that is under way
    pc,         \* what the turn does next
    mode,       \* the mode of this turn
    context,    \* the result of BuildContext
    analysis,   \* the RouteAnalysis
    endpoint,   \* where the next request to a model goes
    plan,       \* the calls
    source,     \* the PlanningSource
    cache,      \* the plans in the cache
    work,       \* the calls made, and the tool_call_logs and proposals of the transaction
    logs,       \* the committed tool_call_logs
    proposals,  \* the committed proposals
    asked,      \* history: the models this turn has had an answer or an error from
    confident,  \* history: whether the answer that made the plan was
    ended       \* history: how each turn has ended

inputs == <<message, view>>
turn == <<mode, context, analysis>>
planned == <<plan, source, asked, confident>>
tables == <<work, logs, proposals>>
vars == <<inputs, day, turns, pc, turn, endpoint, planned, cache, tables, ended>>

NoAnalysis == [fast |-> <<>>, hints |-> <<>>, fallback |-> <<>>, strong |-> FALSE, days |-> {}]
NoContext == [memory |-> [f \in Fields |-> 0], recent |-> 0, summary |-> 0]
NoWork == [made |-> 0, logs |-> <<>>, proposal |-> {}]

Init ==
    /\ \E i \in Inputs : message = i.message /\ view = i.view
    /\ day = 0
    /\ turns = 0
    /\ pc = "idle"
    /\ mode = "auto"
    /\ context = NoContext
    /\ analysis = NoAnalysis
    /\ endpoint = "none"
    /\ plan = <<>>
    /\ source = "none"
    /\ cache = {}
    /\ work = NoWork
    /\ logs = {}
    /\ proposals = {}
    /\ asked = {}
    /\ confident = FALSE
    /\ ended = <<>>
-----------------------------------------------------------------------------
(* What is offered to a model and what is made of its reply.               *)

ToolsOf(calls) == {calls[i].tool : i \in DOMAIN calls}

\* selectSchemasForRouteDecision
Offered(m, hints) ==
    LET sql == IF "sql" \in m THEN {} ELSE {"run_readonly_sql"}
        report == HasSome(m, {"report", "english"}) \/ "generate_report" \in ToolsOf(hints)
        hinted == (ToolsOf(hints) \ {"generate_report"}) \ sql
    IN  [tools |-> IF hints # <<>> /\ (hinted # {} \/ report) THEN hinted ELSE Registered \ sql,
         report |-> report]

\* Mutation: the hints are left out of the key.
KeyWithoutHints(m, c, a) ==
    [message |-> m, memory |-> c.memory, recent |-> c.recent,
     offered |-> Offered(m, a.hints), strong |-> a.strong]

\* Mutation: the recent turns are left out of the key.
KeyWithoutTurns(m, c, a) ==
    [message |-> m, memory |-> c.memory, hints |-> a.hints,
     offered |-> Offered(m, a.hints), strong |-> a.strong]

\* Mutation: the key is made of the message alone.
KeyOfMessage(m, c, a) == [message |-> m, strong |-> a.strong]

\* The key of a plan: cachePayload.  The models and the cutoff do not change.  Schemas are
\* written out in the order of a Go map: a plan may be missed that has this key (MissCache).
Key(m, c, a) ==
    [message |-> m, memory |-> c.memory, recent |-> c.recent, hints |-> a.hints,
     offered |-> Offered(m, a.hints), strong |-> a.strong]

\* Mutation: the arguments of a model are taken as they are.
SanitizedNot(tool, args) == args

Sanitized(tool, args) == [k \in DOMAIN args \cap Parameters(tool) |-> args[k]]

\* mergeHintArguments: the first hint of the tool fills what is missing or blank.
Merged(tool, args, hints) ==
    LET same == {i \in DOMAIN hints : hints[i].tool = tool}
        hint == hints[CHOOSE i \in same : \A j \in same : i <= j].args
    IN  IF same = {} THEN args
        ELSE [k \in DOMAIN args \cup DOMAIN hint |->
                IF k \notin DOMAIN hint \/ (k \in DOMAIN args /\ ~ IsBlank(args[k]))
                THEN args[k] ELSE hint[k]]

\* A proposal without a reason gets one.
WithReason(tool, args) ==
    IF tool \in Proposers /\ ("reason" \notin DOMAIN args \/ IsBlank(args["reason"]))
    THEN [k \in DOMAIN args \cup {"reason"} |->
            IF k = "reason" THEN From("default") ELSE args[k]]
    ELSE args

ReportAs(args) ==
    IF "report_type" \in DOMAIN args /\ ~ IsBlank(args["report_type"])
    THEN Call("generate_report", [report_type |-> args["report_type"]])
    ELSE Report

\* Mutation: required arguments are not looked at.
PlannedCallsUnchecked(r, hints) ==
    LET args == WithReason(r.tool, Merged(r.tool, Sanitized(r.tool, r.args), hints))
    IN  CASE r.tool = "generate_report" -> <<ReportAs(r.args)>>
          [] r.tool \in Registered -> <<Call(r.tool, args)>>
          [] OTHER -> <<>>

\* routeDecisionToPlannedCalls: no call, or one.
PlannedCalls(r, hints) ==
    LET args == WithReason(r.tool, Merged(r.tool, Sanitized(r.tool, r.args), hints))
    IN  CASE r.tool = "generate_report" -> <<ReportAs(r.args)>>
          [] r.tool \in Registered /\ ~ Missing(r.tool, args) -> <<Call(r.tool, args)>>
          [] OTHER -> <<>>
-----------------------------------------------------------------------------
(* PlannerService.Plan.                                                    *)

\* MessageRouter.Analyze.  The hints read the clock again, later than the fast path.
Analyze(m, memory, later) ==
    LET fast == FastPath(m, memory, day)
        hints == Hints(m, memory, later)
    IN  [fast |-> IF view.fast THEN fast ELSE <<>>,
         hints |-> hints,
         fallback |-> Fallback(fast, hints),
         strong |-> ShouldAnalyze(m),
         days |-> day..later]

\* A request in langgraph mode does not reach the planner.
Begin(override) ==
    /\ pc = "idle"
    /\ turns < MaxTurns
    /\ mode' = NormalizeMode(IF override = "" THEN view.mode ELSE override)
    /\ mode' # "langgraph"
    /\ turns' = turns + 1
    /\ UNCHANGED <<inputs, endpoint, planned, cache, tables, ended>>

\* The message is recorded, the context built and the message analyzed.
Receive(c, override, later) ==
    /\ Begin(override)
    /\ later \in {day, day + 1}
    /\ day' = later
    /\ context' = c
    /\ analysis' = Analyze(message, c.memory, later)
    /\ pc' = "route"

\* The session is another user's, or a statement before the planner fails.
ReceiveFails(override) ==
    /\ Begin(override)
    /\ pc' = "refused"
    /\ UNCHANGED <<day, context, analysis>>

UseHeuristic == mode = "heuristic" \/ ~ view.usable

Planned(calls, from) ==
    /\ plan' = calls
    /\ source' = from
    /\ endpoint' = "none"
    /\ pc' = "planned"

FollowRules ==
    /\ pc = "route"
    /\ UseHeuristic \/ analysis.fast # <<>>
    /\ IF analysis.fast # <<>> THEN Planned(analysis.fast, "l0_rule_router")
       ELSE Planned(analysis.fallback, "heuristic_router")
    /\ UNCHANGED <<inputs, day, turns, turn, asked, confident, cache, tables, ended>>

Ask(which) ==
    /\ pc' = which
    /\ endpoint' = IF view.local THEN "/chat/completions" ELSE "/responses"

NeedsModel == pc = "route" /\ ~ UseHeuristic /\ analysis.fast = <<>>

FindCached(e) ==
    /\ NeedsModel
    /\ e.key = Key(message, context, analysis)
    /\ Planned(e.calls, "planner_cache")
    /\ UNCHANGED <<inputs, day, turns, turn, asked, confident, cache, tables, ended>>

\* There is no such plan, it has another order of schemas, or Redis does not answer.
MissCache ==
    /\ NeedsModel
    /\ Ask(IF analysis.strong THEN "strong" ELSE "primary")
    /\ UNCHANGED <<inputs, day, turns, turn, planned, cache, tables, ended>>

\* shouldFallbackToChatCompletions: the endpoint is not served.
NotServed ==
    /\ endpoint = "/responses"
    /\ endpoint' = "/chat/completions"
    /\ UNCHANGED <<inputs, day, turns, pc, turn, planned, cache, tables, ended>>

\* The plan of a model is cached, in place of the one there or beside it.
Settle(calls, r) ==
    /\ Planned(calls, pc)
    /\ confident' = r.confident
    /\ \E kept \in {cache, {e \in cache : e.key # Key(message, context, analysis)}} :
            cache' = kept \cup
                {[key |-> Key(message, context, analysis), calls |-> calls,
                  shown |-> [message |-> message, memory |-> context.memory,
                             recent |-> context.recent, hints |-> analysis.hints]]}
    /\ UNCHANGED ended

FallBack ==
    /\ Planned(analysis.fallback, "heuristic_router")
    /\ UNCHANGED <<confident, cache, ended>>

\* The handler answers with an error and the transaction is rolled back.
Fail ==
    /\ pc' = "failed"
    /\ endpoint' = "none"
    /\ UNCHANGED <<plan, source, confident, cache, ended>>

\* Mutation: one model is enough.
EscalateNever ==
    IF mode = "llm" THEN Fail ELSE FallBack

\* The first model has failed, or decided nothing that can be used.
Escalate ==
    \/ /\ ~ view.same
       /\ Ask("strong")
       /\ UNCHANGED <<plan, source, confident, cache, ended>>
    \/ view.same /\ mode = "llm" /\ Fail
    \/ view.same /\ mode # "llm" /\ FallBack

PrimaryAnswers(r) ==
    LET calls == PlannedCalls(r, analysis.hints)
    IN  /\ pc = "primary"
        /\ asked' = asked \cup {pc}
        /\ IF calls # <<>> /\ r.confident THEN Settle(calls, r) ELSE Escalate
        /\ UNCHANGED <<inputs, day, turns, turn, tables>>

PrimaryFails ==
    /\ pc = "primary"
    /\ asked' = asked \cup {pc}
    /\ IF mode = "llm" THEN Fail ELSE Escalate
    /\ UNCHANGED <<inputs, day, turns, turn, tables>>

\* The stronger model need not be sure.
StrongAnswers(r) ==
    LET calls == PlannedCalls(r, analysis.hints)
    IN  /\ pc = "strong"
        /\ asked' = asked \cup {pc}
        /\ IF calls # <<>> THEN Settle(calls, r) ELSE FallBack
        /\ UNCHANGED <<inputs, day, turns, turn, tables>>

StrongFails ==
    /\ pc = "strong"
    /\ asked' = asked \cup {pc}
    /\ IF mode = "llm" THEN Fail ELSE FallBack
    /\ UNCHANGED <<inputs, day, turns, turn, tables>>
-----------------------------------------------------------------------------
(* The loop over the plan in HandleChat.                                   *)

IsReport == Len(plan) = 1 /\ plan[1].tool = "generate_report"
Upcoming == plan[work.made + 1]

\* GenerateDailyReport reads the database three times.
ReportAnswers ==
    /\ pc = "planned"
    /\ IsReport
    /\ pc' = "answer"
    /\ UNCHANGED <<inputs, day, turns, turn, endpoint, planned, cache, tables, ended>>

ReportFails ==
    /\ pc = "planned"
    /\ IsReport
    /\ Fail
    /\ UNCHANGED <<inputs, day, turns, turn, asked, tables>>

\* ToolRegistry.Invoke, which logs the call and ignores that it could not.
Invoke(success) ==
    /\ pc = "planned"
    /\ ~ IsReport
    /\ \E written \in {<<>>, <<[turn |-> turns, tool |-> Upcoming.tool, success |-> success]>>} :
            work' = [work EXCEPT !.made = @ + 1, !.logs = @ \o written]

InvokeFails ==
    /\ Invoke(FALSE)
    /\ Upcoming.tool \notin Proposers
    /\ Fail
    /\ UNCHANGED <<inputs, day, turns, turn, asked, logs, proposals>>

InvokeReads ==
    /\ Invoke(TRUE)
    /\ Upcoming.tool \in Registered \ (Proposers \cup {"run_readonly_sql"})
    /\ pc' = IF work'.made = Len(plan) THEN "answer" ELSE pc
    /\ UNCHANGED <<inputs, day, turns, turn, endpoint, planned, cache, logs, proposals, ended>>

InvokeQuery(query, rows) ==
    /\ Invoke(TRUE)
    /\ Upcoming.tool = "run_readonly_sql"
    /\ Validate(query, SqlLimit)
    /\ VerifyResultSize(rows)
    /\ pc' = IF work'.made = Len(plan) THEN "answer" ELSE pc
    /\ UNCHANGED <<inputs, day, turns, turn, endpoint, planned, cache, logs, proposals, ended>>

\* A proposal ends the loop.  CreateProposal verifies it.
Propose ==
    /\ Invoke(TRUE)
    /\ Upcoming.tool \in Proposers
    /\ pc' = "propose"
    /\ UNCHANGED <<inputs, day, turns, turn, endpoint, planned, cache, logs, proposals, ended>>

CreateProposal ==
    /\ pc = "propose"
    /\ PayloadComplete(plan[work.made])
    /\ work' = [work EXCEPT !.proposal = {plan[work.made]}]
    /\ pc' = "answer"
    /\ UNCHANGED <<inputs, day, turns, turn, endpoint, planned, cache, logs, proposals, ended>>

\* The payload is not complete, the ticket is not there, the user may not write, or a
\* statement fails.
RejectProposal ==
    /\ pc = "propose"
    /\ Fail
    /\ UNCHANGED <<inputs, day, turns, turn, asked, tables>>

Clean ==
    /\ plan' = <<>>
    /\ source' = "none"
    /\ asked' = {}
    /\ confident' = FALSE
    /\ work' = NoWork
    /\ analysis' = NoAnalysis
    /\ context' = NoContext
    /\ mode' = "auto"
    /\ pc' = "idle"

Commit ==
    /\ pc = "answer"
    /\ logs' = logs \cup {work.logs[i] : i \in DOMAIN work.logs}
    /\ proposals' = proposals \cup
            {[turn |-> turns, call |-> call] : call \in work.proposal}
    /\ ended' = Append(ended, "answered")
    /\ Clean
    /\ UNCHANGED <<inputs, day, turns, endpoint, cache>>

\* Mutation: the tool log is written outside the transaction.
RollbackKeepsLogs ==
    /\ pc \in {"refused", "failed", "answer"}
    /\ logs' = logs \cup {work.logs[i] : i \in DOMAIN work.logs}
    /\ ended' = Append(ended, "error")
    /\ Clean
    /\ UNCHANGED <<inputs, day, turns, endpoint, cache, proposals>>

Rollback ==
    /\ pc \in {"refused", "failed", "answer"}
    /\ ended' = Append(ended, "error")
    /\ Clean
    /\ UNCHANGED <<inputs, day, turns, endpoint, cache, logs, proposals>>
-----------------------------------------------------------------------------
(* The world around a turn.                                                *)

Midnight ==
    /\ day < MaxDay
    /\ day' = day + 1
    /\ UNCHANGED <<inputs, turns, pc, turn, endpoint, planned, cache, tables, ended>>

\* A plan is kept for ten minutes, and as long as Redis keeps it.
Expire(e) ==
    /\ pc = "idle"
    /\ cache' = cache \ {e}
    /\ UNCHANGED <<inputs, day, turns, pc, turn, endpoint, planned, tables, ended>>

Finished ==
    /\ pc = "idle"
    /\ turns = MaxTurns
    /\ UNCHANGED vars

Next ==
    \/ \E c \in Contexts, override \in Overrides, later \in 0..MaxDay : Receive(c, override, later)
    \/ \E override \in Overrides : ReceiveFails(override)
    \/ FollowRules
    \/ \E e \in cache : FindCached(e)
    \/ MissCache
    \/ NotServed
    \/ \E r \in Replies : PrimaryAnswers(r)
    \/ PrimaryFails
    \/ \E r \in Replies : StrongAnswers(r)
    \/ StrongFails
    \/ ReportAnswers
    \/ ReportFails
    \/ InvokeFails
    \/ InvokeReads
    \/ \E query \in Queries, rows \in Rows : InvokeQuery(query, rows)
    \/ Propose
    \/ CreateProposal
    \/ RejectProposal
    \/ Commit
    \/ Rollback
    \/ Midnight
    \/ \E e \in cache : Expire(e)
    \/ Finished

Spec == Init /\ [][Next]_vars
-----------------------------------------------------------------------------
(* Properties.                                                             *)

IsCall(call) ==
    /\ call.tool \in Registered \cup {"generate_report"}
    /\ DOMAIN call.args \subseteq Keys
    /\ \A k \in DOMAIN call.args : call.args[k] \in Value

IsPlan(calls) == \A i \in DOMAIN calls : IsCall(calls[i])

\* The types of the variables: in particular, every plan is made of tools that exist.
TypeOK ==
    /\ Message(message)
    /\ view \in ViewSet
    /\ day \in 0..MaxDay
    /\ turns \in 0..MaxTurns
    /\ pc \in {"idle", "refused", "route", "primary", "strong", "planned", "propose", "answer",
               "failed"}
    /\ mode \in {NormalizeMode(raw) : raw \in RawModes} \ {"langgraph"}
    /\ context \in Context
    /\ IsPlan(analysis.fast) /\ IsPlan(analysis.hints) /\ IsPlan(analysis.fallback)
    /\ endpoint \in {"none", "/responses", "/chat/completions"}
    /\ (endpoint # "none") = (pc \in {"primary", "strong"})
    /\ IsPlan(plan)
    /\ source \in {"none", "l0_rule_router", "heuristic_router", "planner_cache",
                   "primary", "strong"}
    /\ \A e \in cache : IsPlan(e.calls)
    /\ Len(work.logs) <= work.made /\ work.made <= Len(plan)
    /\ asked \subseteq {"primary", "strong"}
    /\ \A i \in DOMAIN ended : ended[i] \in {"answered", "error"}
    /\ Len(ended) = IF pc = "idle" THEN turns ELSE turns - 1

\* The arguments of every call, whoever made it, are parameters of its tool, and none that
\* the tool requires is left out: the keys written out in each parse function of the router are
\* those of the schemas of the registry, to which a model's arguments are cut down.
CallsFitSchemas ==
    \A i \in DOMAIN plan :
        /\ DOMAIN plan[i].args \subseteq Parameters(plan[i].tool)
        /\ Required(plan[i].tool) \subseteq DOMAIN plan[i].args

\* A plan that a model has made, now or ten minutes ago, is one call with every required
\* argument filled in; one of the first model is one it was sure of (routeDecisionToPlannedCalls
\* and shouldEscalateToStrongModel, and no way around them through the cache).
ModelPlansSound ==
    source \in {"primary", "strong", "planner_cache"} =>
        /\ Len(plan) = 1
        /\ IsReport \/ ~ Missing(plan[1].tool, plan[1].args)
        /\ source = "primary" => confident

\* Without a model, a question after the causes of an anomaly that names no write, report or
\* ticket is answered by the analysis and not by one of the simpler rules that its words also fit.
AttributionAnalyzed ==
    source \in {"l0_rule_router", "heuristic_router"} =>
        \/ ~ ShouldAnalyze(message)
        \/ HasSome(message, {"assign", "note", "escalate", "report", "ticket", "followup"})
        \/ ToolsOf(plan) = {"analyze_operational_anomaly"}

\* The dates that the router computes from the clock are those of the day on which, or of the
\* midnight over which, it read the question, in a plan from the cache too: a plan of yesterday
\* is not found today because its hints differ.
FreshDates ==
    \A i \in DOMAIN plan : \A k \in DOMAIN plan[i].args :
        plan[i].args[k].day \in analysis.days \cup {Undated}

\* A plan from the cache was made for the same message, remembered fields, recent turns and hints.
\* Only the summary, which the second model sees and the key leaves out, may be another one.
HitsMatch ==
    source = "planner_cache" =>
        \E e \in cache :
            /\ e.calls = plan
            /\ e.shown = [message |-> message, memory |-> context.memory,
                          recent |-> context.recent, hints |-> analysis.hints]

\* With a usable model the rules come last: after the second model, or after the first when the
\* two are the same and the mode is not llm.  A turn fails without a plan only in llm mode and
\* after a model was asked.
HeuristicsLast ==
    /\ source = "heuristic_router" /\ ~ UseHeuristic =>
            "strong" \in asked \/ ("primary" \in asked /\ view.same /\ mode # "llm")
    /\ pc = "failed" /\ plan = <<>> => mode = "llm" /\ asked # {}

RememberedAs ==
    [ticket_no |-> "last_ticket_no", region |-> "last_region", category |-> "last_category",
     date |-> "last_date", start_date |-> "last_date_range", end_date |-> "last_date_range"]

\* A remembered value stands only in the plan of a message that refers back, and is the one that
\* the conversation remembers in this turn, of the field that the argument is about: not what
\* an earlier turn with the same words remembered when its plan was cached.
RemembersNow ==
    \A i \in DOMAIN plan : \A k \in DOMAIN plan[i].args :
        plan[i].args[k].from = "remembered" =>
            /\ IsFollowup(message)
            /\ k \in DOMAIN RememberedAs
            /\ plan[i].args[k].of = context.memory[RememberedAs[k]]

\* The tool log tells only of tools that succeeded in turns that were answered, and of a
\* proposing tool only with its proposal: what the loop logs before a later step fails is not
\* kept.  A row may be missing, since Invoke ignores that it could not be written.
LogsTellOfAnswers ==
    /\ \A l \in logs : l.success /\ ended[l.turn] = "answered"
    /\ \A l \in logs : l.tool \in Proposers =>
            \E p \in proposals : p.turn = l.turn /\ p.call.tool = l.tool
=============================================================================
