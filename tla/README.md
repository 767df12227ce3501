# ops-agent-copilot: a TLA+ verification project

TLA+ modules, TLC runs and TLAPS proofs about the program in `src/`: a Go
backend that answers operations questions through tools and turns every write
into a proposal a human approves, with a Python LangGraph runtime that plans
and executes the steps of a chat.

## 1. The system

| Component | Source | State it keeps | Operations |
|---|---|---|---|
| Approval service | `internal/app/approval.go`, `repository_approval.go`, `security.go` | table `approvals` (number, idempotency key, status, version, approver) | `CreateProposal`, `Approve`, `Reject`, `executeApprovedAction` |
| Request transactions | `http.go` `withTx`, `db.go`, `schema.go` | one SQL transaction per request | begin, answer, commit, deferred rollback |
| Ticket write path | `repository_ticket.go`, `repository_user.go` | tables `tickets`, `ticket_actions`, `ticket_comments` | `AssignTicket`, `AddTicketComment`, `EscalateTicket` |
| Audit log | `repository_audit.go`, `service_support.go` `AuditService` | tables `audit_logs`, `tool_call_logs` | `LogEvent`, `LogToolCall`, queries |
| Proposal verification | `service_support.go` `VerifierService` | none | `VerifyProposal`, SQL and result checks |
| LangGraph agent loop | `langgraph_runtime/graph.py`, `verification.py`, `backend.py`, `app.py` | the state of one graph run; the planner cache of the process | plan, execute, verify, reflect, synthesize, finalize |
| Conversation memory | `service_support.go` `MemoryService`, `repository_session.go` | tables `sessions`, `messages`; summary and memory state, also cached | `BuildContext`, `RememberTurn`, `MaybeUpdateSummary` |
| Cache | `cache.go` | Redis, an in-memory fallback map, `disabledUntil` | `GetJSON`, `SetJSON`, `Delete` |
| Chat orchestration | `agent.go`, `langgraph_agent.go`, `langgraph_client.go`, `internal_api.go` | none of its own | `HandleChat` of both runtime modes, the internal API |
| Tool registry, SQL guard | `tool_registry.go`, `sql_guard.go` | tool call logs | `Invoke`, `Validate` |
| Planner, routers | `service_support.go` `PlannerService`, `router.go`, `planner_route_llm.go`, `llm.go`, `langgraph_runtime/router.py` | plan cache | model first, heuristics as a fallback |
| Reports, metrics, tracing, configuration, seed data, scripts | the rest | counters, files | read-only aggregation, start-up |

How they interact. A chat (`POST /api/v1/chat`) is handled either by the Go
agent, inside one transaction, or by the LangGraph service: the Go server sends
the message and the conversation memory to the Python runtime, which calls back
`/internal/v1/tool-invoke`, `/internal/v1/proposals` and
`/internal/v1/reports/daily`, each in a transaction of its own. A proposal tool
only describes a write; `CreateProposal` stores it as a pending approval. A user
whose role is in `approverRoles` later approves it, which executes the write in
the same transaction, or rejects it. Every step leaves audit events.

What is hard in it:

* **Concurrency.** Any number of requests run at once. An approval is read at
  the start of a transaction and written later; between the two, other
  transactions approve, reject and propose. What protects it is the version in
  `UPDATE ... WHERE id = ? AND version = ?`, two UNIQUE constraints and the row
  locks of the database.
* **Partial failure.** A failed execution, an ignored error of `LogEvent`, a
  statement that fails after others have succeeded, a client that goes away, a
  COMMIT that fails after the answer was written.
* **Repeats.** A client repeats a request it got no answer to; the runtime
  times out while the backend goes on; an approval is approved twice.
* **Loops.** The agent loop retries steps and extends its own plan; only
  counters bound it.
* **Caches.** The planner cache is shared by the threads of the runtime; the
  conversation memory is cached outside the transaction that writes it.

What makes each component correct:

* Approvals: one business effect for an executed approval and none for any
  other; a decision is final; an idempotency key names one approval; whatever a
  client was told is so; the audit log tells the truth; the ticket history is a
  chain.
* Request transactions: all of a request's writes or none; every request ends.
* Agent loop: it ends on its own; a chat creates one proposal at most and stops
  there; steps are executed in order; a cached plan never changes, and the
  cache stays within its limit.
* Chats and their memory: a turn of the Go planner is recorded whole or not at
  all, one of the runtime in order; what a client was told is recorded; the
  cache tells of turns that are there, and a conversation held one message at a
  time forgets nothing.
* Planner and tools: a plan has the arguments its tools ask for; a plan from the
  cache is one for this message, this memory and this day; the rules come last
  when there is a model; the tool log and the proposals are those of answered turns.

`PROJECT.json` lists the hazards, each at its line, with the property that
would catch it or the reason none does yet.

## 2. Modules

| Module | What it is |
|---|---|
| `ApprovalLifecycle` | the abstract promise of the approval service, every request atomic |
| `Approvals` | the service as it runs: requests, transactions, statements, locks, versions |
| `MCApprovals` | small instances of `Approvals` for TLC, with the `.cfg` files `MCApprovals*.cfg` |
| `ApprovalsProofs` | theorems about `Approvals` for every value of its constants |
| `AgentGraph` | one run of the LangGraph graph: plan, execute, verify, reflect, answer |
| `MCAgentGraph` | its instances: five messages and the plans `router.py` makes for them, `MCAgentGraph*.cfg` |
| `AgentGraphProofs` | theorems about `AgentGraph` |
| `PlannerCache` | the dict of plans that the threads of the runtime share |
| `MCPlannerCache` | its instance, `MCPlannerCache.cfg` |
| `PlannerCacheProofs` | theorems about `PlannerCache` |
| `Conversation` | the abstract promise of a chat service: what is recorded of a turn, and in which order |
| `Cache` | the Go cache: Redis, the fallback map of the process, `disabledUntil` |
| `Chat` | the chats of one session, in both runtime modes, over the tables and the cache (EXTENDS `Cache`) |
| `MCChat` | its instance, `MCChat.cfg` |
| `ChatProofs` | theorems about `Chat` |
| `ChatMemoryProofs` | theorems about what the chats of `Chat` remember (EXTENDS `ChatProofs`) |
| `Tools` | the schemas of the tools, what a payload needs, the SQL guard |
| `Router` | the rules of `router.go`, pure operators (EXTENDS `Tools`) |
| `Settings` | the configuration of the planner, from the environment to what the planner asks |
| `Planner` | a turn of the Go planner: rules, models, cache, the loop over the plan (EXTENDS `Router`, `Settings`) |
| `MCPlanner` | its instance, `MCPlanner.cfg` |
| `PlannerProofs` | theorems about `Planner` |

### Approvals

A **worker** is a request in flight. `pc[w]` is the SQL statement it is about to
execute, `snap[w]` the snapshot its transaction reads, `work[w]` the `Approval`
value it holds in memory together with its uncommitted writes. `approvals`,
`effects`, `tickets` and `audit` are the committed tables.

| Action | Code |
|---|---|
| `Tick` | the wall clock that `generateApprovalNo` reads, in seconds |
| `Start` | `withTx` begins; the user is read, which takes the snapshot |
| `RefuseProposal`, `ReuseProposal`, `PrepareProposal` | `CreateProposal` up to the INSERT: verification, lookup by idempotency key, reuse of an active or completed approval, a retry key after a rejection |
| `InsertRow`, `InsertDuplicate` | the INSERT and, when it fails, the second lookup |
| `RefuseDecision`, `RepeatDecision`, `Decide` | `Approve` and `Reject` up to the first UPDATE |
| `Mark`, `MarkConflict` | `UpdateWithVersion` and the event that follows |
| `ExecuteInvalid`, `ExecuteWrite`, `RecordAction` | `executeApprovedAction`: unknown assignee, the UPDATE of the ticket or the INSERT of the comment, the INSERT into `ticket_actions` |
| `Finish`, `FinishFailed` | the second transition, to `executed` or to `execution_failed`; the latter returns the error, so the transaction is rolled back |
| `Reply`, `Commit`, `CommitFails`, `Rollback` | the end of `withTx`: the handler writes its answer, then the transaction commits or not |
| `Abort`, `InsertErrs`, `ExecuteErrs`, `AbortBusy` | errors of the database, a cancelled context, the death of the server, SQLITE_BUSY |

The database is external and modelled from how the code uses it. Under MySQL
(`docker-compose.yml`) reads see the snapshot of the first SELECT (REPEATABLE
READ), an UPDATE is evaluated on the committed row once its lock is free, and
an INSERT waits for an uncommitted row it clashes with. Under SQLite in WAL
mode (`db.go`) a transaction may write only when nobody else is writing and
nothing was committed since its snapshot. Operator `MayWrite` is the only
difference.

Abstractions. A proposal is a model value: session, user, action, target,
payload and reason together, which is what the idempotency key hashes;
`ActionType`, `Target`, `Verified` and `Executable` say what the code can tell of
it. A ticket column holds the approval that last wrote it. The result of
`LogEvent` is ignored by the code, so an event is recorded or not. A lock wait
is a disabled action. Among the locks modelled, those of the rows and keys that transactions
write, no deadlock forms, since every transaction locks its approval before its ticket, which
is `WaitsEnd`. MySQL's detection of deadlocks is not modelled; section 6 names the one that
this leaves out.

`told` and `lost` are history variables: the 200 answers written so far, and
those whose COMMIT then failed. They appear in no guard.

### AgentGraph

The variables are the fields of `GraphState` that the routing looks at
(`planned` is `planned_calls`, `index` is `current_step_index`, `reflections`
and `supplements` are the two counters); `pc` is the node about to run.
`nodes`, `added` and `proposals` are history variables.

| Action | Code (`graph.py` unless said otherwise) |
|---|---|
| `PlanRequest` | `plan_request`, `route_after_plan` |
| `ExecuteStep`, `CreateProposal` | `execute_step`: the tool call and, for a proposal tool, the second call to the backend; `route_after_execute` |
| `ExecuteFails` | the `except BackendServiceError` branches, after either call |
| `StepPasses`, `StepRefused` | `verify_step`, `verify_step_result`, `route_after_step_verification` |
| `ReflectStep` | `reflect_step`, `build_step_reflection` |
| `SynthesizeAnswer` | `synthesize_answer_node` |
| `VerifyAnswer` | `verify_answer_node`, `route_after_answer_verification` |
| `ReflectAnswer` | `reflect_answer`, `build_answer_reflection` |
| `Finalize` | `finalize` |
| `Raise` | `app.py` `chat`: an exception that no node catches: a transport error or time-out of the backend, LangGraph's recursion limit |

Abstractions. A query is its tool and the arguments that narrow it, in the order
in which `build_step_reflection` gives them up; when none is left the window of
dates is widened, which is always possible. A result is whether the call
succeeded and whether it found what `verify_step_result` asks for. The words of a
message are the set `Asks` of what the code looks for in it; whether the words of
an answer satisfy them is a free choice, except that a write without an approval
never passes and that a message that asks for nothing always does. `Found` says
what the tools of the Go backend may return. `step_results` is a set and its last
element, which is all the code tells apart.

### PlannerCache

FastAPI serves `chat` on a pool of threads, and all of them share one
`PlannerCache`. The interpreter may switch threads between two operations on the
dict, so each is an action: `SetBegins` (`len`), `SetIter`, `SetNext` (or
`SetNextFails`, when another thread has changed the size in between), `SetPop` and
`SetInsert`. `Lookup` is `get` with the planning that follows a miss, by the model
or by the rules; `Reflect` is the copy that `reflect_step` and `reflect_answer`
make before they change a plan. Lists are numbered, so that sharing one is
visible: `items` and `held` refer to the same list after a hit. A plan of the
fast path never meets the cache and is left out. `at` is the insertion order of
the dict; `overlaps` is a history variable.

### Conversation, Cache and Chat

`Chat` follows `handleChat` for several chats of one session. `pc[c]` is the next
statement or call of chat `c`. With the Go planner the chat is one transaction:
`snap[c]` is what its first SELECT has seen, `work[c]` what it has written and not
committed, and once it has written the row of the session no other chat can
(`RowFree`). With the LangGraph runtime there is no transaction (`http.go`
passes the pool): the same statements act on the tables at once, and the runtime
records a proposal in a request of its own. The two modes may meet in one session,
since a payload may name its mode.

| Action | Code |
|---|---|
| `Start` | the mode of the request, `withTx` or not, the read of the user |
| `FindSession`, `CreateSession`, `CreateCollides` | `GetOrCreate`: SELECT, then INSERT under UNIQUE `session_id` |
| `Ask`, `LogReceived` | the user's message, the event `chat_received` |
| `ReadRows`, `LookUp`, `LookUpFails` | `BuildContext`: recent messages and the session row, then the two cache keys, each of which replaces what was read |
| `AskModel` | a model is asked over HTTP, within the transaction: the chat waits, up to a minute for each request (`llm.go`), and keeps what it has locked |
| `GoAnswers`, `GoProposes`, `GoFails` | the plan and its tools, with or without a model, in one step here; `Planner` takes them apart |
| `Call`, `Receive`, `GiveUp` | `langgraph_client.go`: the call, its answer, an error or a time-out |
| `RuntimeProposes`, `RuntimeEnds` | the Python runtime, which goes on after `GiveUp` |
| `Answer` | the assistant's message |
| `ReadRows`, `LookUp`, `Remember`, `Share`, `ShareFails` | `RememberTurn`: read again, merge, UPDATE, write the cache |
| `ListOlder`, `Summarize`, `Share`, `ShareFails` | `MaybeUpdateSummary` |
| `LogReturned`, `Reply`, `Commit`, `CommitFails` | the event `response_returned`, the JSON answer, and then the COMMIT |
| `StatementFails`, `ErrorIgnored`, `Crash`, `RedisReturns` | an error that is returned, one that is dropped, the end of the process, the end of the minute without Redis |

`Cache` has the whole of `GetJSON` and `SetJSON`: Redis or the map, never both
written, a failure that disables Redis for a minute although the write may have
arrived, entries that expire, a restart that empties the map and not Redis.
`Delete` has no caller.

Abstractions. What a conversation remembers is the chat that last named a ticket
and the chat that spoke last; the other fields are merged in the same way. A
summary is the set of the messages it quotes. Which calls a plan has is left to
`Planner`: here a chat names a ticket or not (`Mentioning`) and proposes a write
or not (`Writing`). A deadlock that MySQL finds between chats that insert the same
session, after the first was rolled back, ends one of them at its INSERT, as a failed
statement does, and is not told apart from one.
`told`, `overlapped` and `lost` are history variables: only the bounds read
`overlapped`, and no guard the others.

### Tools, Router, Settings and Planner

A message is the set of words it contains that the code looks for; a memory numbers,
for each field, the value that was last remembered (0 for none). `Router` is then
`router.go` as it stands: extraction with fallback to the memory, the follow-up rules,
one operator for each `parse...` function with the keys that function writes out, the fast
path, the hints, the fallback plan, `shouldAnalyzeOperationalAnomaly`. An argument is a
record of where it comes from (said, remembered, by default, from a model, or blank), of the
day its date was computed on and of the number of the value it remembers. `Settings` is
`LoadConfig` with `ResolveProvider`, the defaults of both providers, `NormalizeMode`,
`ValidateLLMConfig` and what `PlannerService` asks of the result (`View`).

| Action of `Planner` | Code |
|---|---|
| `Receive` | `HandleChat` up to `Plan`: the mode, the context, `MessageRouter.Analyze`, which reads the clock for the fast path and again for the hints, perhaps after midnight |
| `ReceiveFails` | the errors before `Plan`: the session, the message, its event, the context (one by one in `Chat`) |
| `FollowRules` | the fast path, heuristic mode, no usable model |
| `FindCached`, `MissCache` | `cachePayload`, `GetJSON`, and which model is asked first; a plan that is there may be missed, see below |
| `NotServed` | `/responses` answers 404 or the like, `/chat/completions` is tried |
| `PrimaryAnswers`, `PrimaryFails` | `planWithLLM` with the first model, `routeDecisionToPlannedCalls`, `shouldEscalateToStrongModel` |
| `StrongAnswers`, `StrongFails` | the second model, then the rules, or an error in llm mode |
| `ReportAnswers`, `ReportFails` | a plan that is a report |
| `InvokeReads`, `InvokeQuery`, `InvokeFails`, `Propose` | the loop over the plan: `ToolRegistry.Invoke` with its log, whose errors it ignores, `SQLGuard.Validate` and `VerifyResultSize` for a query of a model |
| `CreateProposal`, `RejectProposal` | the proposal that ends the loop, and `VerifyProposal` |
| `Commit`, `Rollback` | the end of `withTx` |
| `Midnight`, `Expire` | the day changes; a plan leaves the cache |

The message is the same in every turn, because the cache matters only then; the
memory, the recent turns, the summary, the mode and the day may change. The key of a plan
contains the schemas offered, which the registry lists in the order of a Go map: the same
turn may get another key, and the cache may hold a plan twice. So `MissCache` is always
possible and `Settle` keeps or replaces the plan that has its key. `work.made` counts the
calls made, `work.logs` has the rows that were written for them. `asked`,
`confident`, `ended` and the field `shown` of a cached plan are there for the
properties only.

## 3. What is checked

| Run | Instance | What it shows |
|---|---|---|
| `approvals_mysql` | MySQL, 2 workers, 2 approvals, 2 proposals (one whose execution fails), 2 traces, 2 users, clock up to 2, 4 requests | `TypeOK`, `ExactlyOnce`, `WholeDecisions`, `KeysIdentify`, `AnswersHold`, `AuditTruthful`, `WaitsEnd`; `DecisionsFinal`; the refinement `KeepsLifecycle` |
| `approvals_sqlite` | SQLite, 3 proposals (two about the same ticket, one that is refused), 4 requests | `HistoryChains` |
| `approvals_live` | MySQL, an assignment and a comment, 3 requests, `FairSpec` | `RequestsEnd` |
| `approvals_failure` | 1 worker, 2 requests | finding: `FailureRecorded` is violated |
| `approvals_duplicate` | 1 worker, 3 approvals, 4 requests | finding: `NoDuplicatePending` is violated |
| `approvals_history` | MySQL, 2 workers, 2 proposals about one ticket | finding: `HistoryChains` is violated |
| `agent_graph` | 5 messages, 10 plans of at most 4 steps, 2 step reflections, 1 answer reflection | `TypeOK`, `Bounded`, `IndexInRange`, `StepsInOrder`, `SupplementedUnlessStuck`; `StopsAtProposal` |
| `agent_supplement` | the same | finding: `Supplemented` is violated |
| `agent_report` | the same | finding: `ReportPasses` is violated |
| `planner_cache` | 3 threads, 3 contexts, 1 item, 4 plans | `TypeOK`, `GrowsByRacesOnly`, `PlansIntact` |
| `chat` | 3 chats of one session (one names a ticket and proposes, one names a ticket), both modes, 2 chats overlapping, 1 failure | `TypeOK`, `TurnInOrder`, `WholeTurns`, `ToldIsRecorded`, `CacheTellsOfTurns`, `LockOrdersCache`, `LocksAreShort`, `CollisionsAreRaces`, `AtMostOneForgotten`; `TurnsAddUp`; the refinement `KeepsConversation` |
| `planner` | 2 turns and a midnight; all messages of up to 2 words, or of 3 that rules depend on, and 9 longer ones under rules alone, 8 messages under every configuration that `ValidateLLMConfig` accepts, 8 replies of a model, 3 memories | `TypeOK`, `CallsFitSchemas`, `ModelPlansSound`, `AttributionAnalyzed`, `FreshDates`, `HitsMatch`, `HeuristicsLast`, `RemembersNow`, `LogsTellOfAnswers` |

The properties:

* `ExactlyOnce`: the business write and the row of `ticket_actions` happen once
  for an executed approval and never for another, whatever approvals,
  rejections, repeats and failures interleave.
* `WholeDecisions`: the two transitions of an approval become visible together.
* `KeysIdentify`: numbers and idempotency keys are unique, and a retry exists
  only after a rejection.
* `AnswersHold`: what a 200 said is what the table says, once the transaction
  of that answer has committed.
* `AuditTruthful`: no event tells of something that was rolled back.
* `DecisionsFinal`: an executed or rejected approval never changes.
* `HistoryChains`: the old value in `ticket_actions` is the value replaced (on SQLite).
* `WaitsEnd`: a statement waits for a transaction in flight that waits for nobody, or for
  one that waits for nobody but such transactions; on MySQL for a row, a key or a ticket,
  on SQLite for the one writer. So nobody waits in a circle for those, nor for a lock left
  behind.
* `RequestsEnd`: none of these locks is held forever, and every request ends.
* `KeepsLifecycle`: transactions of many statements implement the atomic
  `ApprovalLifecycle`: `Commit` is the only step that is not a stutter.

* `Bounded`: whatever the tools return, a run goes through at most
  `6 + 2 MaxPlan + 3 MaxStepReflections + 15 MaxAnswerReflections` nodes. With
  deadlock checked, this is termination without any fairness: every step but
  `Done` either runs a node or leads to one, or to the end.
* `IndexInRange`: no run dies of an IndexError when the plan was changed.
* `StepsInOrder`: what comes before the current step has passed, as it stands.
* `SupplementedUnlessStuck`: in a run that is answered and neither stopped at a proposal
  nor is stuck at a step refused for good, what the answer check added has been executed and passed.
* `StopsAtProposal`: after a proposal no tool runs and nothing else is proposed.
* `GrowsByRacesOnly`: the cache passes its limit by at most one item for each call
  of `set` that began while another was under way.
* `PlansIntact`: a plan handed out is the one made for that context, unchanged.

Of the chats:

* `TurnInOrder`, `WholeTurns`: the records of a turn come in order, and all at once
  with the Go planner, whatever fails. A proposal of the runtime may come after the
  chat has given up, so it needs a question but not an answer.
* `ToldIsRecorded`: an answer that a client has is in the conversation, unless
  the COMMIT that followed it was lost; after an error there is no answer (with the runtime,
  as far as a statement that returns an error has had no effect, see section 6).
* `CacheTellsOfTurns`: the shared memory is written before the COMMIT, so it can
  tell of a turn that never was, but only of one ended by a crash or a failed
  COMMIT.
* `LockOrdersCache`: with the Go planner and no failure Redis never disagrees with
  the row of the session or of the transaction that holds it: the row lock orders
  the writes of the cache too.
* `LocksAreShort`: the row of the session is locked by one chat at most, which is in flight.
  Over the calls of the planner's models and of the runtime a chat holds no row that others
  may be using: only the chat that opens a session holds the row it has just inserted over its
  models, and another first message of that session waits as long. The row of a session that
  exists is locked by the UPDATE of `RememberTurn`, for the statements at the end of the chat;
  Redis, and the client that is written the answer, are waited for under it.
* `CollisionsAreRaces`: `GetOrCreate` fails only when two chats were in flight.
* `AtMostOneForgotten`: the summary is written before the next question pushes one
  more message out of the recent ones, so a turn misses at most that one message.
* `TurnsAddUp`: a turn adds to the memory of the turns before it and drops nothing.
* `KeepsConversation`: all this implements `Conversation`: questions, proposals and
  answers, once each and in that order.

Of the planner:

* `CallsFitSchemas`: the router, the schemas of the registry and the cleaning of a
  model's arguments name arguments in three files; every plan fits the schemas. The keys
  of each `parse...` function are written out in `Router`, those of each schema in `Tools`.
* `ModelPlansSound`: a plan of a model, or from the cache, is one call that lacks
  nothing, and the first model was sure of it.
* `AttributionAnalyzed`: the rules before the analysis in `router.go` do not catch
  what should be analyzed, but for writes, reports and tickets.
* `FreshDates`: a plan cached before midnight is not found after it, because the
  dates of its hints are part of the key. A question read over midnight may have dates of
  both days.
* `HitsMatch`: a hit was made for the same message, memory, turns and hints.
* `HeuristicsLast`: the fallback chain, and when a turn fails instead.
* `RemembersNow`: a remembered value, such as the ticket that "it" stands for, is in a plan
  only if the message refers back, and is what the conversation remembers now: not what it
  remembered when an earlier turn with the same words had its plan cached.
* `LogsTellOfAnswers`: what the loop logged of a turn that failed later is gone with
  its transaction, and a logged proposal exists. The converse does not hold:
  `ToolRegistry.Invoke` ignores that `LogToolCall` failed, so a call, and a proposal with it,
  may be committed without its row.

LangGraph 0.6.8 gives up after 25 nodes unless told otherwise, and `app.py` tells it
nothing. The model shows runs of more than 27 nodes with the default limits
(a plan of four queries, two retries, a supplement), so `Raise` is a real end of
a run that would have been answered. No property covers it: the budget that `Bounded` checks,
35 nodes with these limits, is above 25, and no document promises less.

The overshoot of the cache stays and adds up: once two threads have taken the
same `oldest_key`, the second pop finds nothing and both insert, so the cache is
not bounded by the number of threads either.

What the model shows of the chats besides. When two chats of the runtime overlap, the
second half of both can leave a memory in Redis that the table does not have, and
since every later chat reads Redis first, it lives on until the entry expires an
hour after the last chat; `TurnsAddUp` therefore asks that no two chats of such a
session ever overlapped. A request whose client goes away fails its call to Redis with
the error of its context, and so disables Redis for everyone for a minute.

And of the planner. The rules plan proposals without a ticket or a text, which
`VerifyProposal` refuses; one without an assignee it does not refuse, because `parseAssign`
fills in 待确认 (`router.go:161`). Such a proposal is recorded, and fails when it is
executed if there is no user of that name (`ExecuteInvalid` of `Approvals`). A model may choose a tool that it was not offered: only the
registry is asked. The key of a plan has no summary and no mode, so a plan made with
another summary or in another mode may be found. `tool_failed` events and the logs of
failed calls never outlive the transaction of the turn they made fail. In llm mode a
second model that answers without a usable decision still ends in the rules, where
`docs/LLM_PROVIDER_SETUP.md` has llm mode force the model, and that document accepts
only `gemma4` models with Ollama, which nothing checks.

**Bounds.** Two workers are enough for every race here: a conflict involves the
holder of a row and one contender, and the roles are symmetric. Two approvals
let two rows clash in number, in key and on a ticket; an approval number is a
second, so with `MaxClock = 2` at most two rows can exist, and a third
`Ids` would never be used (the duplicate run, which needs three rows, raises
both). Four requests allow propose, propose again, approve and reject in any
overlap. `MaxClock` and `MaxRequests` are the only bounds in guards. Workers,
approvals and traces are interchangeable, so the safety runs use symmetry;
`approvals_live` does not, since symmetry is unsound for liveness.

The agent runs use the default limits of `config.py`. Their plans are those of
`plan_ticket_governance_request`, `plan_operational_anomaly`, the fallback to a
report and of the model, which makes at most four steps (`_parse_llm_steps`); each
kind of step is in one of them. `planner_cache` has the smallest limit, so that
the cache is full at once; three threads let two of them race while a third
reads, and four plans let a race follow a race. `MaxPlans` is the only bound in a
guard of that module, and `AgentGraph` has none.

In `chat` three chats let a third one meet what two overlapping ones left behind.
`Keep = 1` and `Lookback = 2` stand for 8 and 6: with two messages a turn, a message
is pushed out of the recent ones, quoted, and pushed out of the summary within
three turns. `MaxOverlapping`, `MaxFaults` and `MaxTroubled` are the bounds in
guards: how many chats ever overlap, how many failures there are, and after how many
chats a behaviour with both ends. One failure at every point, before, during or after
an overlap, with the recovery of Redis after it, is what they leave.

In `planner` a cached plan is made in one turn and found in the next, with another
context, mode or day: two turns and one midnight are enough. The words of a message interact
in rules that look for three words at most, hence every message of three words that a rule
depends on (`Deciding`); the other words fill an argument or count with a model only, and are
taken with each one word. The longer messages fill every argument of each tool at once. The
contexts remember nothing, one value or another, with the same or other recent turns. The
configurations are all those of `Environment` that the server starts with. The
replies of a model are one good, one bad and one blank of each kind of tool.
`MaxTurns` and `MaxDay` are the only bounds in guards.

**Fairness.** `FairSpec` asks weak fairness of `Handle(w)` for each worker: Go
schedules every handler, and a statement that can be executed is. Nothing is
asked of `Tick`, `Start` or the failures in `Break`. A waiting statement is
disabled until its lock is released, so `RequestsEnd` rests on locks being
released, not on strong fairness. What it rests on is proved (`NoStandstill` and
`HandlersEnd`, below). `Chat`, `Planner`, `AgentGraph` and
`PlannerCache` assume none: no property of theirs needs it. Every chat and every turn
only comes nearer to its end (`ChatsEnd`, `TurnsEnd`), so with deadlock checked they end
if their steps are taken.

**Deadlock** is checked in every run: `Done` is the only state in which the
system may stop.

### Findings

1. `FailureRecorded` (`approvals_failure`): `docs/STATE_MACHINE_OBSERVABILITY.md`
   has the transition `approved -> execution_failed`. The code writes the status and
   then returns the error, `withTx` rolls everything back, and the approval is
   pending again, without an audit event of the failure.
2. `NoDuplicatePending` (`approvals_duplicate`): the same document says the
   idempotency key suppresses duplicate pending proposals. After a rejection,
   two requests with different traces each get a retry key of their own and
   both become pending.
3. `HistoryChains` (`approvals_history`): on MySQL the old value is read from
   the snapshot, not from the locked row; two approvals about one ticket
   record the same old value.

4. `Supplemented` (`agent_supplement`): `README.md` says that an answer lacking
   evidence has the missing steps fetched. After a step that failed for good the
   index still names that step: it is executed and refused again, and the run
   ends without executing any of the steps `reflect_answer` has appended.
5. `ReportPasses` (`agent_report`): `verify_step_result` reads `result["answer"]`,
   `execute_step` stores `rendered_answer`. Every report is refused as empty, and
   the steps planned after it are never executed.

## 4. What is proved

An inductive invariant `IInv` is not among the properties of the runs: each was checked
on the instances of its module before it was proved, and the theorem now says more. The
theorems that no run checks as a property (`NoStandstill`, `HandlersEnd`,
`DuplicatesAreRetries`, `OldValuesAreReal`, `PassesOverNothing`, `ChatsGoOn`, `ChatsEnd`,
`TurnsEnd`) are about definitions of the proof modules.

### Approvals

Module `ApprovalsProofs`, for every engine, every number of workers, approvals,
proposals, tickets, traces and users, and every bound, from
`ConstantsAssumption` alone:

| Theorem | Statement |
|---|---|
| `Inductive` | `Spec => []IInv` |
| `TypeCorrect` | `Spec => []TypeOK` |
| `EffectsExactlyOnce` | `Spec => []ExactlyOnce` |
| `DecisionsWhole` | `Spec => []WholeDecisions` |
| `KeysUnique` | `Spec => []KeysIdentify` |
| `Final` | `Spec => DecisionsFinal` |
| `Implements` | `Spec => KeepsLifecycle` |
| `AnswersAreTrue` | `Spec => []AnswersHold` |
| `AuditIsTruthful` | `Spec => []AuditTruthful` |
| `SqliteChains` | `Engine = "sqlite" => (Spec => HistoryChains)` |
| `OldValuesAreReal` | `Spec => []OldValuesWereThere`: a recorded old value was written by another approval, executed before, to the same column of the same ticket |
| `NoWaitingInCircles` | `Spec => []WaitsEnd` |
| `NoStandstill` | `Spec => []SomeMayGo`: when requests are in flight, the next statement of one of them can be executed |
| `HandlersEnd` | `Spec => Nearing`: every step of a request in flight brings it nearer to its end, and those of the others leave it where it is |
| `DuplicatesAreRetries` | `Spec => []OpenTwiceByRetry`: two approvals of one proposal in force are retries of a third, rejected one, under different traces |

None of the invariants is inductive alone: `ExactlyOnce` says nothing of a
transaction that is about to commit. `IInv` adds what the argument rests on:

* `SnapPast`: a snapshot is a past of the table. Rows keep their key and number
  and a decided row its status, so a version read in a snapshot equals the
  committed version only if nobody has decided since.
* `Phase`: what a worker holds at each statement. From `Mark` on it owns a
  pending row (`OwnsPending`): the version matched and the row is locked.
* `Exclusive`: two transactions never hold the same row.
* `NoClash`: neither committed rows nor rows about to be inserted share a
  number or a key.
* `RowsOK`: committed rows are absent 0, pending 1, rejected 2 or executed 3.

The proof follows the code. `TypeStep` gives the types after any step;
`Kept` shows that a step that changes no table keeps the invariant if it
keeps what its own worker must hold (`LocalKeeps`), and there is one lemma per
handler part on top of it (`CreateKeeps`, `DecideKeeps`, `ExecuteKeeps`,
`ReplyKeeps`, ...); `PublishKeeps` is the one case that changes a table, the
COMMIT. The refinement (`PublishRefines`, `StutterRefines`) uses the invariant
to know which abstract action a COMMIT is.

`AnswersAreTrue`, `AuditIsTruthful` and `SqliteChains` rest on smaller invariants
beside `IInv`. `Telling`: until it is rolled
back, a transaction has logged only what the row in its memory says; a COMMIT then
publishes both together, on a row of which the log could say at most that it was
proposed. `Echoes`: a request that has written nothing answers what the table says,
since a decided row in its snapshot is still so (`SnapPast`, `DecidedStays`). `Alone`,
for SQLite: a transaction that has written is the only one and has read the tables as
they still are, so the old value it read is the one it replaces.

`OldValuesAreReal` is what is left of the chain on MySQL, where an old value may be out of
date: it was there, is never the new value, and never one that was rolled back. The proof
needs no engine: `Sourced` says of the tables, of every snapshot and of
every recorded old value that what is in a column was written there by an executed
approval. That stays so because an executed approval never changes (`DecidedStays`), and
the recording approval is another one because its own row is pending until its COMMIT.

`NoWaitingInCircles` follows from `IInv` by the order of the locks (`Holding`,
`WaitsInOrder`): a transaction that has written anything never waits for a row or a key
again, and one that has written its ticket waits for nothing, so a chain of waiting has two
links at most. `NoStandstill` takes the end of such a chain. `HandlersEnd` is a variant:
`StatementsLeft` is seven when a request starts, falls with each of its steps, failures
included, and other requests leave it alone. Together they are the safety part of
`RequestsEnd`: some request can always go on, and none goes on for ever. That each one
does, under weak fairness, is left to TLC.

`DuplicatesAreRetries` is what remains true of the sentence that `approvals_duplicate`
refutes; it comes from `KeysIdentify`, and `OldValuesAreReal` is the same for
`approvals_history`.

### AgentGraph

Module `AgentGraphProofs`, for any messages, plans, results and limits:
`Inductive` (`IInv`), `TypeCorrect` (`TypeOK`), `LoopBounded` (`Bounded`),
`IndexSafe` (`IndexInRange`), `InOrder` (`StepsInOrder`), `OneProposal`
(`StopsAtProposal`), `SupplementsReached` (`SupplementedUnlessStuck`) and
`PassesOverNothing`: an answer is made of the whole plan, after a proposal, or at a step
that was refused for good.

`Bounded` needs a variant: `WithinBudget` adds to the nodes run so far two for
each step left, three for each retry, fifteen for each supplement and those on the
way from the current node, and every action keeps that sum within `Budget`.
A supplement appends five steps at most (`AdditionsShort`). `Entered` says what a
node may rely on when it is entered: the result being verified is that of the
current step, a reflection is entered only while there is one left. The lemmas
follow the nodes of the graph, one `...Keeps` for each action.

`SupplementsReached` is what remains true of the sentence that `agent_supplement` refutes.
`AddedPlanned` keeps each added step in the plan, perhaps relaxed, which leaves its tool
alone (`RelaxedTool`); `PassesOverNothing` then says that the whole plan was gone through, and
`InOrder` that each step of it has passed.

### PlannerCache

Module `PlannerCacheProofs`, for any threads, contexts, plans and limit:
`Inductive` (`IInv`), `TypeCorrect` (`TypeOK`), `LimitedButForRaces`
(`GrowsByRacesOnly`) and `Intact` (`PlansIntact`).

`GrowsByRacesOnly` rests on `Growth`: the calls under way number at most one more
than the overlaps, and size plus calls under way stays within limit plus
overlaps, with a credit of one while `Owed` holds: as long as none of them has
evicted anything, the first to do so will find its key. `Busy` says what a
thread holds at each point of `set`.

### Chat

Module `ChatProofs`, for any chats, modes, lengths, and bounds: `TypeCorrect`
(`TypeOK`), `TurnsInOrder` (`TurnInOrder`), `TurnsAreWhole` (`WholeTurns`), `ToldTruly`
(`ToldIsRecorded`), `OnlyRacesCollide` (`CollisionsAreRaces`), `CacheIsTruthful`
(`CacheTellsOfTurns`), `CacheInOrder` (`LockOrdersCache`) and `ChatRefinesConversation`
(`KeepsConversation`).

The invariant is `Typed /\ TurnInv /\ RaceInv /\ Remembered`. `TurnInv` says for each
`pc` which of a chat's messages, events and proposal are in the tables and which in its
working copy: none of the properties about turns is inductive without the working
copies. `RaceInv` says what a chat that has met no other can find: the session as its
snapshot shows it.
`Remembered` follows a memory through every place it passes: tables, snapshots, working
copies, contexts, Redis and the map, since a chat writes to one what it has read in
another. For `LockOrdersCache` a further invariant, `LockInv`, is needed, which holds as
long as only the Go planner has answered and nothing has failed: Redis is in use, at most
one chat holds the row of the session, what Redis has is in its row from the moment it
has shared it, and in the committed row while nobody holds it.
The refinement goes step by step: `Ask` of the runtime mode is `Question`,
`RuntimeProposes` is `Proposal`, `Answer` is `Reply`, a COMMIT is `WholeTurn`.

Module `ChatMemoryProofs` adds the two properties that say what a conversation
remembers: `TurnsAdd` (`TurnsAddUp`) and `OneForgotten` (`AtMostOneForgotten`). Neither is
inductive, and both hold under conditions on the past of the behaviour (nothing failed,
no chats overlapped), so each has an invariant of its own under the same conditions,
which the run's instance was checked for before it was proved.

* `Adding` follows the memory of the session through a chat that is alone in flight: its
  snapshot and its working copy have the memory of the session, its context has it too
  after the read of Redis, and from `remember` on the row in work has what the turn adds,
  which is all that Redis may hold besides. It rests on two invariants of its own: Redis
  is in use and the map empty while nothing has failed (`MapIdle`), and a row in work is
  one of the Go planner's (`OwnRow`). When chats overlap, the Go planner needs
  `LockOrdersCache` as well: the row in work is then the one that was locked. With the
  runtime the memory in Redis may be that of another chat, hence the condition on
  `overlapped`.
* `Quoting` says of a chat alone in flight that the summary it reads quotes the `Lookback`
  messages before the `Keep` recent ones, as of the turn before, and that its own message
  is the one message newer than those. `Pushed` then counts: one newer message pushes one
  message out of the recent ones, and every other one was quoted. It is proved for any
  `Keep` and `Lookback`, from lemmas on `Recent`: a message is recent when fewer than so
  many are newer (`RecentByNewer`), the recent of the recent are the recent (`RecentTwice`),
  and a newer message is newer than each other one by one (`NewerByOne`). They rest on the
  library's facts about finite sets, and on no induction.

It ends with who waits for whom: `LocksShort` (`LocksAreShort`) and `ChatsGoOn`, that
whenever chats of a session are in flight one of them waits for no lock. `Held` says that
a chat with the row in work is one of the Go planner, is in flight and is the only such
chat: its transaction ends with it, so it leaves no lock behind (`EndsWithIt`). And while
its `pc` is in `Opening`, before `remember`, a row in work is the one it has inserted and none
is committed, which the steps of other chats keep because they wait for that row.
`ChatsEnd` is the variant: `StepsLeft` is twenty-one before a chat starts and falls with
each of its steps, failures and crashes included; nothing is tried again.

### Planner

Module `PlannerProofs`, for any messages, configurations, replies, queries and number of
turns, days and remembered values: all nine properties, as `TypeCorrect` (`TypeOK`), `FitSchemas`
(`CallsFitSchemas`), `PlansSound` (`ModelPlansSound`), `Attributed`
(`AttributionAnalyzed`), `Fresh` (`FreshDates`), `CacheHitsMatch` (`HitsMatch`),
`RulesComeLast` (`HeuristicsLast`), `RemembersTruly` (`RemembersNow`) and `LogsTrue`
(`LogsTellOfAnswers`).

The lemmas come first and know nothing of behaviours: what each rule of the router
returns for any message and memory (`ParsedComplete`, function by function: a call is
`Complete` when its arguments are exactly the parameters of its tool and each has a value that
is `Right` for this message, this memory and these days), and where the arguments come from
that `Sanitized`, `Merged` and `WithReason` make of a reply and the hints. The
invariant then says that the analysis is the one of the rules on the day of the question
(`Analyzed`), that each cached plan is one that a model may have made for its key
(`CacheSound`), that the plan is what its source says (`Chosen`), that there is none while
a model is asked (`Searched`), that the log of the turn follows its plan (`Logging`) and
what is committed (`Recorded`). `FreshDates` and `RemembersNow` follow because the hints in the
key carry their dates and their remembered values, and a model's own arguments have neither.

`TurnsEnd` adds a variant of two parts: `Stage` falls from model to model and endpoint to
endpoint, and while the plan is followed `Left`, the calls not made yet, falls within it.

### What is not proved

Of the properties of the runs that pass, only `RequestsEnd` of `Approvals` is without a
theorem: liveness under fairness is out of the prover's reach, like ENABLED, induction
over data and RECURSIVE operators. Its safety part is proved (`NoStandstill`, `HandlersEnd`). `HistoryChains` is proved for SQLite and refuted for
MySQL by `approvals_history`.

## 5. Plan

In this order, most important first:

1. Done: `ApprovalLifecycle`, `Approvals`, their runs and `ApprovalsProofs`.
2. Done: `AgentGraph`, one run of the LangGraph graph, and `PlannerCache`, the
   cache its threads share, with their runs and proofs.
3. Done: `Conversation`, `Cache` and `Chat`, a chat in both runtime modes, with
   client time-outs and proposals nobody was told of, and `ChatProofs`.
4. Done: `Tools`, `Router`, `Settings` and `Planner`, and `PlannerProofs`.
5. Left: `router.py` of the runtime as operators like those of `Router`, and the plans
   of `AgentGraph` taken from it instead of listed.
6. Left: a composition of `AgentGraph` with `Chat`, in which the calls of the graph are
   requests of their own, and of both with `Approvals`, in which a proposal of
   a chat is one of the approval service.
7. Done: `ChatMemoryProofs`.
8. Done: who waits for whom, and the variants of requests, chats and turns
   (`NoStandstill`, `HandlersEnd`, `ChatsGoOn`, `ChatsEnd`, `TurnsEnd`).

## 6. Not modelled

* Metrics and tracing: counters and spans that are written and never read.
* The daily report and the read-only ticket queries: they change nothing, and
  aggregate rows into text. That they are asked for, and succeed or fail, is in
  `Planner`. Queries of the audit log likewise.
* Recognition of words in a message and the wording of answers: text processing. The
  modules start from the words that were recognized.
* `langgraph_runtime/router.py`, of which `MCAgentGraph` lists the plans.
* Limits, addresses, start-up and static pages of the configuration; the admin page.
* Seed data; the evaluation and load scripts, which are clients of the service.
* InnoDB's shared locks on a duplicate key: several INSERTs that wait for the key of one
  transaction are given shared locks on it when that transaction is rolled back, and each then
  waits for the others' before it may insert. MySQL finds this deadlock and ends one of them
  at once. `Approvals` and `Chat` have no such locks, so `WaitsEnd`, `NoWaitingInCircles` and
  `NoStandstill` say nothing of them.
* An acknowledgement that is lost outside a transaction: in langgraph mode an INSERT may have
  been committed although its statement returned an error, and the client is then told of an
  error while the answer is recorded. `Chat` has statements that fail without effect only;
  `ToldIsRecorded` says so.
* A MySQL transaction that the server aborts on its own while the driver goes on in
  autocommit mode is outside the model of the database.
