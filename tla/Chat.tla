-------------------------------- MODULE Chat --------------------------------
(***************************************************************************)
(* The chats of one session on the Go backend: handleChat (http.go), the   *)
(* two chat services (agent.go, langgraph_agent.go), the memory of the     *)
(* conversation (MemoryService), the session repository and the cache.     *)
(*                                                                         *)
(* A chat answered by the Go planner runs in one transaction of MySQL      *)
(* under REPEATABLE READ: it reads the snapshot of its first SELECT and    *)
(* its own writes, keeps the row of the session locked once it has written *)
(* it, calls the models of the planner (module Planner) within it, and     *)
(* answers the client before it commits.  A chat answered by the Python    *)
(* runtime has no transaction: each of its statements stands alone, and    *)
(* the runtime records a proposal in a request of its own.  The cache      *)
(* takes no part in transactions.                                          *)
(*                                                                         *)
(* The memory of a conversation is abstracted to the chat that last named  *)
(* a ticket (the other remembered fields are kept the same way) and the    *)
(* chat that spoke last, a summary to the messages it quotes.              *)
(***************************************************************************)
EXTENDS Cache, FiniteSets

CONSTANTS
    Chats,      \* the requests, a message each
    Modes,      \* "go" and "langgraph": who may answer
    Mentioning, \* the chats whose planned calls name a ticket
    Writing,    \* the chats whose planned calls propose a write
    Keep,       \* keepRecentMessageCount
    Lookback,   \* further messages MaybeUpdateSummary reads, 6 in the code
    MaxOverlapping, \* bound: chats that are ever in flight together with another
    MaxFaults,      \* bound: failures in one behaviour
    MaxTroubled,    \* bound: chats of a behaviour in which chats overlap and something fails
    None        \* the null value

Memory == [ticket : Chats \cup {None}, last : Chats \cup {None}]
Row == [memory : Memory, summary : SUBSET Nat]
Message == [id : Nat, chat : Chats, role : {"user", "assistant"}]
Event == {"chat_received", "response_returned"} \X Chats

NoMemory == [ticket |-> None, last |-> None]
NewRow == [memory |-> NoMemory, summary |-> {}]
NoWork == [messages |-> {}, row |-> None, events |-> {}, proposal |-> {}]
NoSnapshot == [messages |-> {}, row |-> None]
NoContext == [recent |-> {}, summary |-> {}, memory |-> NoMemory]

ASSUME ConstantsAssumption ==
    /\ Keys = {"memory", "summary"}
    /\ Modes \subseteq {"go", "langgraph"}
    /\ Mentioning \subseteq Chats
    /\ Writing \subseteq Chats
    /\ Keep \in Nat \ {0}
    /\ Lookback \in Nat
    /\ MaxOverlapping \in Nat
    /\ MaxFaults \in Nat
    /\ MaxTroubled \in Nat
    /\ None \notin Chats \cup Modes
    /\ None \notin Row

VARIABLES
    session,    \* the committed row of agent_sessions, or None
    messages,   \* the committed rows of agent_messages
    nextId,     \* the next id of agent_messages
    events,     \* the committed audit_logs of the chats
    proposals,  \* the chats on whose behalf an approval is recorded
    pc,         \* pc[c]: the statement or call chat c is about to make
    mode,       \* mode[c]: who answers c
    snap,       \* snap[c]: what the transaction of c read first
    work,       \* work[c]: what it has written and not committed
    context,    \* context[c]: the result of BuildContext
    runtime,    \* runtime[c]: what the Python runtime is doing for c
    faults,     \* failures so far
    told,       \* history: told[c]: what the client of c has been told
    overlapped, \* history: chats that were in flight together with another
    lost        \* history: transactions ended by a crash or a failed commit

database == <<session, messages, events, proposals>>
history == <<told, overlapped, lost>>
vars == <<session, messages, nextId, events, proposals, redis, local, disabled, pc, mode,
          snap, work, context, runtime, faults, told, overlapped, lost>>

Init ==
    /\ session = None
    /\ messages = {}
    /\ nextId = 0
    /\ events = {}
    /\ proposals = {}
    /\ CacheInit
    /\ pc = [c \in Chats |-> "new"]
    /\ mode = [c \in Chats |-> None]
    /\ snap = [c \in Chats |-> NoSnapshot]
    /\ work = [c \in Chats |-> NoWork]
    /\ context = [c \in Chats |-> NoContext]
    /\ runtime = [c \in Chats |-> "idle"]
    /\ faults = 0
    /\ told = [c \in Chats |-> "nothing"]
    /\ overlapped = {}
    /\ lost = {}
-----------------------------------------------------------------------------
(* The database as a chat sees it.                                         *)

Active == {c \in Chats : pc[c] \notin {"new", "done"}}
Go(c) == mode[c] = "go"

SeenRow(c) ==
    IF ~ Go(c) THEN session ELSE IF work[c].row # None THEN work[c].row ELSE snap[c].row
SeenMessages(c) ==
    IF Go(c) THEN snap[c].messages \cup work[c].messages ELSE messages

\* No other transaction has inserted or updated the row of the session.
RowFree(c) == \A d \in Chats \ {c} : work[d].row = None

\* An UPDATE starts from the newest row, not from the one of the snapshot.
NewestRow(c) == IF work[c].row # None THEN work[c].row ELSE session

WriteRow(c, row) ==
    IF Go(c)
    THEN work' = [work EXCEPT ![c].row = row] /\ UNCHANGED session
    ELSE session' = row /\ UNCHANGED work

\* Mutation: messages are written through the connection pool, not the transaction.
AddMessageOutside(c, role) ==
    /\ nextId' = nextId + 1
    /\ messages' = messages \cup {[id |-> nextId, chat |-> c, role |-> role]}
    /\ UNCHANGED work

AddMessage(c, role) ==
    LET m == [id |-> nextId, chat |-> c, role |-> role]
    IN  /\ nextId' = nextId + 1
        /\ IF Go(c)
           THEN work' = [work EXCEPT ![c].messages = @ \cup {m}] /\ UNCHANGED messages
           ELSE messages' = messages \cup {m} /\ UNCHANGED work

LogEvent(c, kind) ==
    IF Go(c)
    THEN work' = [work EXCEPT ![c].events = @ \cup {<<kind, c>>}] /\ UNCHANGED events
    ELSE events' = events \cup {<<kind, c>>} /\ UNCHANGED work

\* ListRecentMessages: the newest n of some messages.
Recent(ms, n) == {m \in ms : Cardinality({o \in ms : o.id > m.id}) < n}
IdsOf(ms) == {m.id : m \in ms}

\* RememberTurn: what chat c changes in a memory.
Merge(memory, c) ==
    [ticket |-> IF c \in Mentioning THEN c ELSE memory.ticket, last |-> c]

Goto(c, step) == pc' = [pc EXCEPT ![c] = step]
At(c, step) == pc[c] = step

Started == {c \in Chats : pc[c] # "new"}
Fault ==
    /\ faults < MaxFaults
    /\ overlapped = {} \/ Cardinality(Started) <= MaxTroubled
    /\ faults' = faults + 1

\* The handler answers with an error; a transaction is rolled back.
Refuse(c) ==
    /\ Goto(c, "done")
    /\ told' = [told EXCEPT ![c] = "error"]
    /\ work' = [work EXCEPT ![c] = NoWork]
    /\ snap' = [snap EXCEPT ![c] = NoSnapshot]
    /\ context' = [context EXCEPT ![c] = NoContext]
    /\ UNCHANGED <<database, nextId, cacheVars, mode, overlapped, lost>>
-----------------------------------------------------------------------------
(* The request, up to the answer.                                          *)

\* The mode is read from the configuration or the payload; GetByID of the user is the
\* first SELECT of a transaction.
Start(c, m) ==
    /\ At(c, "new")
    /\ Active # {} => Cardinality(overlapped \cup Active \cup {c}) <= MaxOverlapping
    /\ mode' = [mode EXCEPT ![c] = m]
    /\ snap' = IF m = "go"
               THEN [snap EXCEPT ![c] = [messages |-> messages, row |-> session]]
               ELSE snap
    /\ overlapped' = IF Active = {} THEN overlapped ELSE overlapped \cup Active \cup {c}
    /\ faults = 0 \/ overlapped' = {} \/ Cardinality(Started) < MaxTroubled
    /\ Goto(c, "session")
    /\ UNCHANGED <<database, nextId, cacheVars, work, context, runtime, faults, told, lost>>

\* Mutation: the message is recorded only when it opens the session.
FindSessionUnasked(c) ==
    /\ At(c, "session")
    /\ Goto(c, IF SeenRow(c) # None THEN "received" ELSE "create")
    /\ UNCHANGED <<database, nextId, cacheVars, mode, snap, work, context, runtime,
                   faults, history>>

\* Mutation: the INSERT is not preceded by a look.
FindSessionCreates(c) ==
    /\ At(c, "session")
    /\ Goto(c, "create")
    /\ UNCHANGED <<database, nextId, cacheVars, mode, snap, work, context, runtime,
                   faults, history>>

\* Mutation: a session that is found is touched, so that its row is locked from here on.
FindSessionTouches(c) ==
    /\ At(c, "session")
    /\ IF SeenRow(c) # None THEN RowFree(c) /\ WriteRow(c, NewestRow(c))
                            ELSE UNCHANGED <<session, work>>
    /\ Goto(c, IF SeenRow(c) # None THEN "ask" ELSE "create")
    /\ UNCHANGED <<messages, nextId, events, proposals, cacheVars, mode, snap, context,
                   runtime, faults, history>>

FindSession(c) ==
    /\ At(c, "session")
    /\ Goto(c, IF SeenRow(c) # None THEN "ask" ELSE "create")
    /\ UNCHANGED <<database, nextId, cacheVars, mode, snap, work, context, runtime,
                   faults, history>>

\* The INSERT waits for another transaction that has inserted the row.
CreateSession(c) ==
    /\ At(c, "create")
    /\ RowFree(c)
    /\ session = None
    /\ WriteRow(c, NewRow)
    /\ Goto(c, "ask")
    /\ UNCHANGED <<messages, nextId, events, proposals, cacheVars, mode, snap, context,
                   runtime, faults, history>>

\* session_id is UNIQUE.
CreateCollides(c) ==
    /\ At(c, "create")
    /\ RowFree(c)
    /\ session # None
    /\ Refuse(c)
    /\ UNCHANGED <<runtime, faults>>

Ask(c) ==
    /\ At(c, "ask")
    /\ AddMessage(c, "user")
    /\ Goto(c, "received")
    /\ UNCHANGED <<session, events, proposals, cacheVars, mode, snap, context, runtime,
                   faults, history>>

LogReceived(c) ==
    /\ At(c, "received")
    /\ LogEvent(c, "chat_received")
    /\ Goto(c, "context")
    /\ UNCHANGED <<session, messages, nextId, proposals, cacheVars, mode, snap, context,
                   runtime, faults, history>>

\* Mutation: the memory is taken from the cache alone.
ReadRowsForgets(c) ==
    /\ pc[c] \in {"context", "recall"}
    /\ context' = [context EXCEPT ![c] =
            [NoContext EXCEPT !.recent = IdsOf(Recent(SeenMessages(c), Keep)),
                              !.summary = SeenRow(c).summary]]
    /\ Goto(c, IF At(c, "context") THEN "lookup" ELSE "merge")
    /\ UNCHANGED <<database, nextId, cacheVars, mode, snap, work, runtime, faults, history>>

\* BuildContext, first half: the recent messages and the row of the session.
ReadRows(c) ==
    /\ pc[c] \in {"context", "recall"}
    /\ context' = [context EXCEPT ![c] =
            [recent |-> IdsOf(Recent(SeenMessages(c), Keep)),
             summary |-> SeenRow(c).summary,
             memory |-> SeenRow(c).memory]]
    /\ Goto(c, IF At(c, "context") THEN "lookup" ELSE "merge")
    /\ UNCHANGED <<database, nextId, cacheVars, mode, snap, work, runtime, faults, history>>

\* Mutation: a missing cache entry takes the place of the memory that was read.
OverrideUnchecked(c, summary, memory) ==
    context' = [context EXCEPT
        ![c].summary = IF summary \in {Miss, {}} THEN @ ELSE summary,
        ![c].memory = memory]

\* BuildContext, second half: what is cached takes the place of what was read.
Override(c, summary, memory) ==
    context' = [context EXCEPT
        ![c].summary = IF summary \in {Miss, {}} THEN @ ELSE summary,
        ![c].memory = IF memory = Miss THEN @ ELSE memory]

AfterLookUp(c) ==
    Goto(c, IF At(c, "merge") THEN "remember" ELSE IF Go(c) THEN "act" ELSE "call")

LookUp(c) ==
    /\ pc[c] \in {"lookup", "merge"}
    /\ UNCHANGED disabled
    /\ Expire
    /\ Override(c, Cached("summary")', Cached("memory")')
    /\ AfterLookUp(c)
    /\ UNCHANGED <<database, nextId, mode, snap, work, runtime, faults, history>>

\* Redis fails at the first or at the second of the two keys.
LookUpFails(c) ==
    /\ pc[c] \in {"lookup", "merge"}
    /\ ~ disabled
    /\ Fault
    /\ disabled' = TRUE
    /\ Expire
    /\ \E summary \in {Either("summary")', local'["summary"]} :
            Override(c, summary, local'["memory"])
    /\ AfterLookUp(c)
    /\ UNCHANGED <<database, nextId, mode, snap, work, runtime, history>>
-----------------------------------------------------------------------------
(* The answer of the Go planner and its tools.                             *)

\* Where a chat of the Go planner stands until it is planned and its tools have run: at its
\* own code, or waiting for the answer of a model, a minute at most for each request.
Planning == {"act", "model"}

\* A model is asked over HTTP, within the transaction: what it has locked stays locked.
AskModel(c) ==
    /\ At(c, "act")
    /\ Goto(c, "model")
    /\ UNCHANGED <<database, nextId, cacheVars, mode, snap, work, context, runtime,
                   faults, history>>

GoAnswers(c) ==
    /\ pc[c] \in Planning
    /\ Goto(c, "answer")
    /\ UNCHANGED <<database, nextId, cacheVars, mode, snap, work, context, runtime,
                   faults, history>>

GoProposes(c) ==
    /\ pc[c] \in Planning
    /\ c \in Writing
    /\ work' = [work EXCEPT ![c].proposal = {c}]
    /\ Goto(c, "answer")
    /\ UNCHANGED <<database, nextId, cacheVars, mode, snap, context, runtime, faults, history>>

\* No plan, a tool that fails or a proposal that is refused.
GoFails(c) ==
    /\ pc[c] \in Planning
    /\ Refuse(c)
    /\ UNCHANGED <<runtime, faults>>
-----------------------------------------------------------------------------
(* The call of the Python runtime, and the runtime itself.                 *)

Call(c) ==
    /\ At(c, "call")
    /\ runtime' = [runtime EXCEPT ![c] = "running"]
    /\ Goto(c, "wait")
    /\ UNCHANGED <<database, nextId, cacheVars, mode, snap, work, context, faults, history>>

\* Mutation: a retried proposal after the answer.
RuntimeProposesLate(c) ==
    /\ runtime[c] \in {"running", "answered"}
    /\ c \in Writing
    /\ proposals' = proposals \cup {c}
    /\ runtime' = [runtime EXCEPT ![c] = "proposed"]
    /\ UNCHANGED <<session, messages, events, nextId, cacheVars, pc, mode, snap, work,
                   context, faults, history>>

\* create_proposal of the runtime: a request and a transaction of its own.
RuntimeProposes(c) ==
    /\ runtime[c] = "running"
    /\ c \in Writing
    /\ proposals' = proposals \cup {c}
    /\ runtime' = [runtime EXCEPT ![c] = "proposed"]
    /\ UNCHANGED <<session, messages, events, nextId, cacheVars, pc, mode, snap, work,
                   context, faults, history>>

RuntimeEnds(c) ==
    /\ runtime[c] \in {"running", "proposed"}
    /\ \E end \in {"answered", "failed"} : runtime' = [runtime EXCEPT ![c] = end]
    /\ UNCHANGED <<database, nextId, cacheVars, pc, mode, snap, work, context, faults, history>>

Receive(c) ==
    /\ At(c, "wait")
    /\ runtime[c] = "answered"
    /\ Goto(c, "answer")
    /\ UNCHANGED <<database, nextId, cacheVars, mode, snap, work, context, runtime,
                   faults, history>>

\* Mutation: a turn is remembered although the runtime has not answered.
GiveUpRemembers(c) ==
    /\ At(c, "wait")
    /\ Goto(c, "recall")
    /\ UNCHANGED <<database, nextId, cacheVars, mode, snap, work, context, runtime, faults,
                   history>>

\* An error of the runtime, a timeout of the client, a client of the chat that is gone:
\* the runtime is not told.
GiveUp(c) ==
    /\ At(c, "wait")
    /\ Refuse(c)
    /\ UNCHANGED <<runtime, faults>>
-----------------------------------------------------------------------------
(* The answer is recorded, the turn remembered, the session summarized.    *)

Answer(c) ==
    /\ At(c, "answer")
    /\ AddMessage(c, "assistant")
    /\ context' = [context EXCEPT ![c] = NoContext]
    /\ Goto(c, "recall")
    /\ UNCHANGED <<session, events, proposals, cacheVars, mode, snap, runtime, faults, history>>

\* Mutation: the memory is written to the cache and not to the row.
RememberInCache(c) ==
    /\ At(c, "remember")
    /\ context' = [context EXCEPT
            ![c] = [NoContext EXCEPT !.memory = Merge(context[c].memory, c)]]
    /\ Goto(c, "share")
    /\ UNCHANGED <<database, nextId, cacheVars, mode, snap, work, runtime, faults, history>>

Remember(c) ==
    /\ At(c, "remember")
    /\ RowFree(c)
    /\ LET memory == Merge(context[c].memory, c)
       IN  /\ WriteRow(c, [NewestRow(c) EXCEPT !.memory = memory])
           /\ context' = [context EXCEPT ![c] = [NoContext EXCEPT !.memory = memory]]
    /\ Goto(c, "share")
    /\ UNCHANGED <<messages, nextId, events, proposals, cacheVars, mode, snap, runtime,
                   faults, history>>

\* Both keys are written once the row is.
Shared(c) ==
    IF At(c, "share") THEN [key |-> "memory", value |-> context[c].memory, next |-> "list"]
    ELSE [key |-> "summary", value |-> context[c].summary, next |-> "returned"]

Share(c) ==
    /\ pc[c] \in {"share", "shareSummary"}
    /\ Set(Shared(c).key, Shared(c).value)
    /\ Goto(c, Shared(c).next)
    /\ context' = [context EXCEPT ![c] = NoContext]
    /\ UNCHANGED <<database, nextId, mode, snap, work, runtime, faults, history>>

ShareFails(c) ==
    /\ pc[c] \in {"share", "shareSummary"}
    /\ Fault
    /\ SetFails(Shared(c).key, Shared(c).value)
    /\ Goto(c, Shared(c).next)
    /\ context' = [context EXCEPT ![c] = NoContext]
    /\ UNCHANGED <<database, nextId, mode, snap, work, runtime, history>>

\* Mutation: the recent messages are counted among those looked back at.
ListOlderShort(c) ==
    LET listed == Recent(SeenMessages(c), Lookback)
        older == IdsOf(listed \ Recent(listed, Keep))
    IN  /\ At(c, "list")
        /\ context' = [context EXCEPT ![c] = [NoContext EXCEPT !.summary = older]]
        /\ Goto(c, IF older = {} THEN "returned" ELSE "summarize")
        /\ UNCHANGED <<database, nextId, cacheVars, mode, snap, work, runtime, faults, history>>

\* MaybeUpdateSummary quotes what is older than the recent messages.
ListOlder(c) ==
    LET listed == Recent(SeenMessages(c), Keep + Lookback)
        older == IdsOf(listed \ Recent(listed, Keep))
    IN  /\ At(c, "list")
        /\ context' = [context EXCEPT ![c] = [NoContext EXCEPT !.summary = older]]
        /\ Goto(c, IF older = {} THEN "returned" ELSE "summarize")
        /\ UNCHANGED <<database, nextId, cacheVars, mode, snap, work, runtime, faults, history>>

Summarize(c) ==
    /\ At(c, "summarize")
    /\ RowFree(c)
    /\ WriteRow(c, [NewestRow(c) EXCEPT !.summary = context[c].summary])
    /\ Goto(c, "shareSummary")
    /\ UNCHANGED <<messages, nextId, events, proposals, cacheVars, mode, snap, context,
                   runtime, faults, history>>

LogReturned(c) ==
    /\ At(c, "returned")
    /\ LogEvent(c, "response_returned")
    /\ Goto(c, "reply")
    /\ UNCHANGED <<session, messages, nextId, proposals, cacheVars, mode, snap, context,
                   runtime, faults, history>>

\* Mutation: the handler answers and returns without a commit.
ReplyIsLast(c) ==
    /\ At(c, "reply")
    /\ told' = [told EXCEPT ![c] = "answer"]
    /\ Goto(c, "done")
    /\ UNCHANGED <<database, nextId, cacheVars, mode, snap, work, context, runtime, faults,
                   overlapped, lost>>

\* RespondJSON; a transaction is committed after it.
Reply(c) ==
    /\ At(c, "reply")
    /\ told' = [told EXCEPT ![c] = "answer"]
    /\ Goto(c, IF Go(c) THEN "commit" ELSE "done")
    /\ UNCHANGED <<database, nextId, cacheVars, mode, snap, work, context, runtime, faults,
                   overlapped, lost>>

Commit(c) ==
    /\ At(c, "commit")
    /\ session' = NewestRow(c)
    /\ messages' = messages \cup work[c].messages
    /\ events' = events \cup work[c].events
    /\ proposals' = proposals \cup work[c].proposal
    /\ work' = [work EXCEPT ![c] = NoWork]
    /\ snap' = [snap EXCEPT ![c] = NoSnapshot]
    /\ Goto(c, "done")
    /\ UNCHANGED <<nextId, cacheVars, mode, context, runtime, faults, history>>
-----------------------------------------------------------------------------
(* Failures.                                                               *)

\* A statement whose error HandleChat returns.
StatementFails(c) ==
    /\ pc[c] \in {"session", "create", "ask", "received", "context", "answer"}
    /\ Fault
    /\ Refuse(c)
    /\ UNCHANGED runtime

\* A statement whose error HandleChat ignores: the rest of the method is skipped.
Skipped(step) ==
    CASE step \in {"recall", "remember"} -> "list"
      [] step \in {"list", "summarize"} -> "returned"
      [] step = "returned" -> "reply"

ErrorIgnored(c) ==
    /\ pc[c] \in {"recall", "remember", "list", "summarize", "returned"}
    /\ Fault
    /\ Goto(c, Skipped(pc[c]))
    /\ context' = [context EXCEPT ![c] = NoContext]
    /\ UNCHANGED <<database, nextId, cacheVars, mode, snap, work, runtime, history>>

CommitFails(c) ==
    /\ At(c, "commit")
    /\ Fault
    /\ work' = [work EXCEPT ![c] = NoWork]
    /\ snap' = [snap EXCEPT ![c] = NoSnapshot]
    /\ lost' = lost \cup {c}
    /\ Goto(c, "done")
    /\ UNCHANGED <<database, nextId, cacheVars, mode, context, runtime, told, overlapped>>

\* The Go process ends and starts again; the Python runtime does not notice.
Crash ==
    /\ Active # {}
    /\ Fault
    /\ pc' = [c \in Chats |-> IF c \in Active THEN "done" ELSE pc[c]]
    /\ work' = [c \in Chats |-> NoWork]
    /\ snap' = [c \in Chats |-> NoSnapshot]
    /\ context' = [c \in Chats |-> NoContext]
    /\ lost' = lost \cup {c \in Active : Go(c)}
    /\ Restarted
    /\ UNCHANGED <<database, nextId, mode, runtime, told, overlapped>>

RedisReturns ==
    /\ Reenable
    /\ UNCHANGED <<database, nextId, pc, mode, snap, work, context, runtime, faults, history>>

Finished ==
    /\ Active = {}
    /\ \A c \in Chats : runtime[c] \notin {"running", "proposed"}
    /\ UNCHANGED vars

\* What the goroutine of a request and the runtime do when nothing fails.
Proceed(c) ==
    \/ FindSession(c) \/ CreateSession(c) \/ CreateCollides(c) \/ Ask(c) \/ LogReceived(c)
    \/ ReadRows(c) \/ LookUp(c)
    \/ AskModel(c) \/ GoAnswers(c) \/ GoProposes(c) \/ GoFails(c)
    \/ Call(c) \/ Receive(c) \/ GiveUp(c) \/ Answer(c) \/ Remember(c) \/ Share(c)
    \/ ListOlder(c) \/ Summarize(c) \/ LogReturned(c) \/ Reply(c) \/ Commit(c)

Runtime(c) == RuntimeProposes(c) \/ RuntimeEnds(c)

Fails(c) ==
    LookUpFails(c) \/ ShareFails(c) \/ StatementFails(c) \/ ErrorIgnored(c) \/ CommitFails(c)

Next ==
    \/ \E c \in Chats : \/ \E m \in Modes : Start(c, m)
                        \/ Proceed(c) \/ Runtime(c) \/ Fails(c)
    \/ Crash \/ RedisReturns \/ Finished

Spec == Init /\ [][Next]_vars
-----------------------------------------------------------------------------
(* Properties.                                                             *)

\* Every variable stays in its type.
TypeOK ==
    /\ session \in {None} \cup Row
    /\ messages \subseteq Message
    /\ nextId \in Nat
    /\ events \subseteq Event
    /\ proposals \subseteq Chats
    /\ DOMAIN redis = Keys /\ DOMAIN local = Keys
    /\ \A store \in {redis, local} :
            /\ store["memory"] \in {Miss} \cup Memory
            /\ store["summary"] \in {Miss} \cup SUBSET Nat
    /\ disabled \in BOOLEAN
    /\ mode \in [Chats -> Modes \cup {None}]
    /\ snap \in [Chats -> [messages : SUBSET Message, row : {None} \cup Row]]
    /\ work \in [Chats -> [messages : SUBSET Message, row : {None} \cup Row,
                           events : SUBSET Event, proposal : SUBSET Chats]]
    /\ context \in [Chats -> [recent : SUBSET Nat, summary : SUBSET Nat, memory : Memory]]
    /\ pc \in [Chats -> {"new", "session", "create", "ask", "received", "context", "lookup",
                         "act", "model", "call", "wait", "answer", "recall", "merge", "remember",
                         "share", "list", "summarize", "shareSummary", "returned", "reply",
                         "commit", "done"}]
    /\ runtime \in [Chats -> {"idle", "running", "proposed", "answered", "failed"}]
    /\ faults \in 0..MaxFaults
    /\ told \in [Chats -> {"nothing", "answer", "error"}]
    /\ overlapped \subseteq Chats
    /\ lost \subseteq Chats

Said(role) == {m.chat : m \in {m \in messages : m.role = role}}
Asked == Said("user")
Answered == Said("assistant")

\* What is recorded of a turn is recorded in the order of the turn: no answer, event or
\* proposal without the message that caused it, and the answer has the greater id
\* (HandleChat of both services, and the proposals of the runtime, which come in
\* requests of their own and may come after the chat has given up).
TurnInOrder ==
    /\ Answered \subseteq Asked
    /\ proposals \subseteq Asked
    /\ \A e \in events : e[2] \in (IF e[1] = "chat_received" THEN Asked ELSE Answered)
    /\ \A m, n \in messages :
            m.chat = n.chat /\ m.role = "user" /\ n.role = "assistant" => m.id < n.id

\* A turn of the Go planner is recorded whole or not at all: with its answer, or with
\* neither the message nor the proposal it made (withTx of http.go).
WholeTurns ==
    \A c \in Chats : Go(c) =>
        /\ c \in Asked <=> c \in Answered
        /\ c \in proposals => c \in Answered

\* A client that was told the answer finds it in the conversation, unless the commit that
\* follows the answer was lost; a client that was told an error never does. (A statement
\* outside a transaction whose own acknowledgement is lost is not modelled: there the answer
\* may be recorded under an error.)
ToldIsRecorded ==
    \A c \in Chats : pc[c] = "done" =>
        /\ told[c] = "answer" /\ c \notin lost => c \in Answered
        /\ told[c] = "error" => c \notin Answered

\* The memory that chats share through the cache tells of turns that are recorded: the
\* cache is written inside a transaction that may still be rolled back, which shows only
\* when the transaction was ended by a crash or by a failed commit.
CacheTellsOfTurns ==
    \A store \in {redis, local} : store["memory"] # Miss =>
        \A c \in {store["memory"].ticket, store["memory"].last} \ {None} :
            c \in Answered \/ c \in Active \/ c \in lost

\* While nothing fails and the Go planner answers, Redis never disagrees with the
\* database: the lock that a chat takes on the row of the session, and holds until its
\* commit, orders the writes of the cache as well (MemoryService, withTx).
LockOrdersCache ==
    faults = 0 /\ (\A c \in Chats : mode[c] \in {None, "go"}) =>
        LET rows == ({session} \cup {work[c].row : c \in Chats}) \ {None}
        IN  /\ redis["memory"] # Miss => \E row \in rows : row.memory = redis["memory"]
            /\ redis["summary"] # Miss => \E row \in rows : row.summary = redis["summary"]

\* The row of the session is locked by one chat at most, until the end of its transaction.
\* Over the calls that may take minutes, of the planner's models and of the Python runtime,
\* no chat holds the row of a session that others may be using: only the chat that opens a
\* session holds the row it has just inserted over its models, and another chat that would
\* open the same session waits that long (repository_session.go; withTx around the planner
\* in http.go, no transaction around the runtime). Calls of Redis and the writing of the
\* answer to the client do happen under the lock (Share, Reply).
LocksAreShort ==
    \A c \in Chats : work[c].row # None =>
        /\ c \in Active /\ RowFree(c)
        /\ pc[c] \in {"model", "call", "wait"} => session = None /\ work[c].row = NewRow

\* GetOrCreate fails on the UNIQUE session_id only when two chats of the session were in
\* flight together: a conversation that is held one message at a time never meets it.
CollisionsAreRaces ==
    \A c \in Chats : At(c, "create") /\ session # None => c \in overlapped

\* A conversation with the Go planner that is held one message at a time and meets no
\* failure: what BuildContext hands to the planner lacks, of all that the last turn could
\* see, at most the one message that the new one has pushed out of the recent messages
\* and that no summary quotes yet.
AtMostOneForgotten ==
    \A c \in Chats : At(c, "act") /\ faults = 0 /\ overlapped = {}
                     /\ (\A d \in Chats : mode[d] \in {None, "go"}) =>
        LET seen == SeenMessages(c)
            reach == IdsOf(Recent(seen, Keep + Lookback + 1))
            pushed == IdsOf(Recent(seen, Keep + 1) \ Recent(seen, Keep))
        IN  reach \ (context[c].recent \cup context[c].summary) \subseteq pushed

MemoryOf(row) == IF row = None THEN NoMemory ELSE row.memory

\* A turn adds what it mentions to the memory of the session as it was before the turn,
\* and drops nothing of it, when no other chat was in flight with it and nothing failed.
\* With the Python runtime no two chats may ever have overlapped: the second half of
\* two overlapping turns can leave a memory in Redis that the database does not have, and
\* the next chats build on that one.
TurnsAddUp ==
    [][ \A c \in Chats :
            /\ MemoryOf(session') # MemoryOf(session)
            /\ MemoryOf(session').last = c
            /\ faults = 0
            /\ c \notin overlapped
            /\ overlapped = {} \/ \A d \in Chats : mode[d] \in {None, "go"}
            => MemoryOf(session') = Merge(MemoryOf(session), c) ]_vars

\* The conversation keeps the promises of module Conversation.
Promise == INSTANCE Conversation
    WITH asked <- Asked, answered <- Answered, proposed <- proposals

\* Questions, proposals and answers are recorded once and in order, whatever fails and
\* whoever answers; a turn of the Go planner appears at once.
KeepsConversation == Promise!Spec

=============================================================================
