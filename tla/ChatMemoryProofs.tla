-------------------------- MODULE ChatMemoryProofs --------------------------
(***************************************************************************)
(* What a conversation remembers, for every value of the constants of      *)
(* module Chat: turns add up in the memory of the session, and the         *)
(* messages that the planner is given leave out one at most.  At the end:  *)
(* chats do not wait for each other in a circle.                           *)
(***************************************************************************)
EXTENDS ChatProofs, FiniteSetTheorems

-----------------------------------------------------------------------------
(* Turns add up: the invariant.                                            *)

OnlyGo == \A c \in Chats : mode[c] \in {None, "go"}

\* Nothing has failed, and either no two chats have overlapped or the Go planner answers.
Even == faults = 0 /\ (overlapped = {} \/ OnlyGo)

\* The steps at which a chat of the Go planner has written the memory of the session.
Remembering == {"share"} \cup SharedMemory

\* Redis is asked first and has never been replaced by the map.
MapIdle ==
    faults = 0 => disabled = FALSE /\ local["memory"] = Miss /\ local["summary"] = Miss

\* A row in the work of a chat is one of the Go planner, and once the chat has remembered
\* its turn the row tells of it.
OwnRow ==
    faults = 0 => \A c \in Chats :
        /\ ~ Go(c) \/ pc[c] = "new" => work[c].row = None
        /\ Go(c) /\ pc[c] \in Remembering => work[c].row # None /\ work[c].row.memory.last = c

\* The memory that Redis may hold while only chat c is in flight.
Latest(c) ==
    IF Go(c) /\ pc[c] \in SharedMemory THEN work[c].row.memory ELSE MemoryOf(session)

\* A chat on its own works on the memory of the session, and replaces it by what it adds.
Adds(c) ==
    /\ Go(c) => MemoryOf(snap[c].row) = MemoryOf(session)
    /\ Go(c) /\ pc[c] \notin Remembering /\ work[c].row # None =>
            work[c].row.memory = MemoryOf(session)
    /\ pc[c] \in {"merge", "remember"} => context[c].memory = MemoryOf(session)
    /\ Go(c) /\ pc[c] \in Remembering => work[c].row.memory = Merge(MemoryOf(session), c)
    /\ pc[c] = "share" =>
            context[c].memory = IF Go(c) THEN work[c].row.memory ELSE MemoryOf(session)
    /\ Go(c) \/ pc[c] # "share" => redis["memory"] \in {Miss, Latest(c)}

Adding ==
    Even => /\ Active = {} => redis["memory"] \in {Miss, MemoryOf(session)}
            /\ \A c \in Active \ overlapped : Adds(c)

-----------------------------------------------------------------------------
(* Behaviours without a failure.                                           *)

LEMMA FaultFree ==
    ASSUME Typed, [Next]_vars, faults' = 0
    PROVE  /\ faults = 0
           /\ \/ \E c \in Chats : \/ \E m \in Modes : Start(c, m)
                                  \/ Proceed(c) \/ Runtime(c)
              \/ RedisReturns
              \/ UNCHANGED vars
<1>1. faults \in Nat
  BY TypeParts, ConstantsAssumption DEF Typed, HistoryOK
<1>2. ~ Fault
  BY <1>1 DEF Fault
<1>3. ~ Crash /\ \A c \in Chats : ~ Fails(c)
  BY <1>2 DEF Crash, Fails, LookUpFails, ShareFails, StatementFails, ErrorIgnored, CommitFails
<1>4. ASSUME NEW c \in Chats, Runtime(c) \/ \E m \in Modes : Start(c, m)
      PROVE  faults' = faults
  BY <1>4 DEF Runtime, RuntimeProposes, RuntimeEnds, Start
<1>5. ASSUME NEW c \in Chats, Proceed(c)
      PROVE  faults' = faults
  BY <1>5 DEF Proceed, FindSession, CreateSession, CreateCollides, Ask, LogReceived, ReadRows,
     LookUp, AskModel, GoAnswers, Planning, GoProposes, GoFails, Call, Receive, GiveUp, Answer,
     Remember, Share, ListOlder, Summarize, LogReturned, Reply, Commit
<1>6. ASSUME RedisReturns \/ Finished \/ UNCHANGED vars
      PROVE  faults' = faults
  BY <1>6 DEF RedisReturns, Finished, vars
<1> QED
  BY <1>3, <1>4, <1>5, <1>6 DEF Next, Finished

\* The runtime touches neither the chats of the backend nor what they share.
LEMMA RuntimeApart ==
    ASSUME NEW c \in Chats, Runtime(c)
    PROVE  UNCHANGED <<session, messages, nextId, cacheVars, pc, mode, snap, work, context,
                       overlapped>>
BY DEF Runtime, RuntimeProposes, RuntimeEnds, database, history

\* A step of a chat without a failure leaves the bookkeeping alone.
LEMMA ProceedApart ==
    ASSUME NEW c \in Chats, Proceed(c)
    PROVE  UNCHANGED <<mode, overlapped, disabled>>
<1>1. CASE Share(c)
  BY <1>1 DEF Share, Set, history
<1>2. CASE ~ Share(c)
  BY <1>2 DEF Proceed, FindSession, CreateSession, CreateCollides, Ask, LogReceived, ReadRows,
     LookUp, AskModel, GoAnswers, Planning, GoProposes, GoFails, Call, Receive, GiveUp, Answer,
     Remember, ListOlder, Summarize, LogReturned, Reply, Commit, Refuse, cacheVars, history
<1> QED
  BY <1>1, <1>2

LEMMA MapIdleNext ==
    ASSUME Typed, MapIdle, [Next]_vars
    PROVE  MapIdle'
<1> SUFFICES ASSUME faults' = 0
             PROVE  disabled' = FALSE /\ local'["memory"] = Miss /\ local'["summary"] = Miss
  BY DEF MapIdle
<1>1. faults = 0 /\ disabled = FALSE /\ local["memory"] = Miss /\ local["summary"] = Miss
  BY FaultFree DEF MapIdle
<1>2. ASSUME UNCHANGED cacheVars
      PROVE  disabled' = FALSE /\ local'["memory"] = Miss /\ local'["summary"] = Miss
  BY <1>1, <1>2 DEF cacheVars
<1>3. ASSUME NEW c \in Chats, Proceed(c)
      PROVE  disabled' = FALSE /\ local'["memory"] = Miss /\ local'["summary"] = Miss
  <2>1. CASE Share(c)
    BY <1>1, <2>1 DEF Share, Set
  <2>2. CASE LookUp(c)
    BY <1>1, <2>2, ConstantsAssumption DEF LookUp, Expire, Aged
  <2>3. CASE ~ Share(c) /\ ~ LookUp(c)
    BY <1>2, <1>3, <2>3 DEF Proceed, FindSession, CreateSession, CreateCollides, Ask,
       LogReceived, ReadRows, AskModel, GoAnswers, Planning, GoProposes, GoFails, Call,
       Receive, GiveUp, Answer,
       Remember, ListOlder, Summarize, LogReturned, Reply, Commit, Refuse
  <2> QED
    BY <2>1, <2>2, <2>3
<1>4. ASSUME NEW c \in Chats, Runtime(c) \/ \E m \in Modes : Start(c, m)
      PROVE  UNCHANGED cacheVars
  BY <1>4, RuntimeApart DEF Start
<1>5. ~ RedisReturns
  BY <1>1 DEF RedisReturns, Reenable
<1> QED
  BY <1>2, <1>3, <1>4, <1>5, FaultFree DEF vars, cacheVars

-----------------------------------------------------------------------------
(* The rows that chats hold.                                               *)

\* A chat past its first look at the session works on a row.
LEMMA NewestTyped ==
    ASSUME Typed, NEW c \in Chats, pc[c] \notin Rowless
    PROVE  NewestRow(c) \in Row
<1>1. NewestRow(c) # None
  BY DEF Typed, RowsSeen, SeenRow, NewestRow
<1> QED
  BY <1>1, SeenTyped DEF Typed

\* What a chat writes to the row of the session.
LEMMA Written ==
    ASSUME Typed, NEW c \in Chats, NEW r \in Row, WriteRow(c, r)
    PROVE  /\ \A d \in Chats \ {c} : work'[d] = work[d]
           /\ Go(c) => work'[c].row = r /\ session' = session
           /\ ~ Go(c) => work' = work /\ session' = r
           /\ r # None
BY TypeParts, ConstantsAssumption DEF Typed, ChatsOK, Work, WriteRow

LEMMA RowWritten ==
    ASSUME Typed, NEW c \in Chats
    PROVE  /\ CreateSession(c) => WriteRow(c, NewRow)
           /\ Remember(c) =>
                LET m == Merge(context[c].memory, c)
                    r == [NewestRow(c) EXCEPT !.memory = m]
                IN  /\ m \in Memory /\ r \in Row /\ r.memory = m /\ WriteRow(c, r)
                    /\ r.summary = NewestRow(c).summary
                    /\ context'[c].memory = m
           /\ Summarize(c) =>
                LET r == [NewestRow(c) EXCEPT !.summary = context[c].summary]
                IN  /\ r \in Row /\ r.memory = NewestRow(c).memory /\ WriteRow(c, r)
                    /\ r.summary = context[c].summary
<1>1. context \in [Chats -> Known] /\ context[c] \in Known
  BY TypeParts DEF Typed, ChatsOK
<1>2. ASSUME Remember(c) \/ Summarize(c)
      PROVE  NewestRow(c) \in Row
  BY <1>2, NewestTyped DEF Remember, Summarize, At, Rowless
<1>3. ASSUME Remember(c)
      PROVE  LET m == Merge(context[c].memory, c)
                 r == [NewestRow(c) EXCEPT !.memory = m]
             IN  /\ m \in Memory /\ r \in Row /\ r.memory = m /\ WriteRow(c, r)
                 /\ r.summary = NewestRow(c).summary
                 /\ context'[c].memory = m
  <2> DEFINE m == Merge(context[c].memory, c)
             r == [NewestRow(c) EXCEPT !.memory = m]
  <2>1. m \in Memory
    BY <1>1, MergeTyped DEF Known
  <2>2. r \in Row /\ r.memory = m /\ r.summary = NewestRow(c).summary
    BY <1>2, <1>3, <2>1 DEF Row
  <2>3. WriteRow(c, r) /\ context' = [context EXCEPT ![c] = [NoContext EXCEPT !.memory = m]]
    BY <1>3 DEF Remember
  <2>4. context'[c].memory = m
    BY <1>1, <2>3 DEF NoContext
  <2> QED
    BY <2>1, <2>2, <2>3, <2>4
<1>4. ASSUME Summarize(c)
      PROVE  LET r == [NewestRow(c) EXCEPT !.summary = context[c].summary]
             IN  /\ r \in Row /\ r.memory = NewestRow(c).memory /\ WriteRow(c, r)
                 /\ r.summary = context[c].summary
  BY <1>1, <1>2, <1>4 DEF Row, Known, Summarize
<1>5. CreateSession(c) => WriteRow(c, NewRow)
  BY DEF CreateSession
<1> QED
  BY <1>3, <1>4, <1>5

\* The steps of a chat leave the others alone, and few of them touch rows.
LEMMA ProceedRows ==
    ASSUME Typed, NEW c \in Chats, Proceed(c)
    PROVE  /\ \A d \in Chats \ {c} : /\ pc'[d] = pc[d] /\ work'[d] = work[d]
                                     /\ snap'[d] = snap[d] /\ context'[d] = context[d]
           /\ \/ CreateSession(c) \/ Remember(c) \/ Summarize(c)
              \/ Refuse(c) \/ Commit(c)
              \/ work'[c].row = work[c].row /\ snap' = snap /\ session' = session
           /\ pc'[c] \in Remembering => pc[c] \in Remembering \/ Remember(c)
           /\ c \in Active /\ Active' \subseteq Active
<1>1. ChatsOK /\ DatabaseOK
  BY TypeParts DEF Typed
<1>2. pc \in [Chats -> PCs] /\ work \in [Chats -> Work] /\ snap \in [Chats -> Snap]
      /\ context \in [Chats -> Known]
  BY <1>1 DEF ChatsOK
<1> DEFINE Bystanders == \A d \in Chats \ {c} : /\ pc'[d] = pc[d] /\ work'[d] = work[d]
                                           /\ snap'[d] = snap[d] /\ context'[d] = context[d]
           Rowing == CreateSession(c) \/ Remember(c) \/ Summarize(c)
           Ending == Refuse(c) \/ Commit(c)
           Resting == work'[c].row = work[c].row /\ snap' = snap /\ session' = session
           Turning == pc'[c] \in Remembering => pc[c] \in Remembering \/ Remember(c)
<1>3. CASE CreateSession(c) \/ Remember(c) \/ Summarize(c)
  <2>1. Bystanders
    BY <1>2, <1>3 DEF CreateSession, Remember, Summarize, WriteRow, Goto
  <2>2. Turning /\ pc[c] \notin {"new", "done"}
    BY <1>2, <1>3 DEF CreateSession, Remember, Summarize, Goto, At, Remembering, SharedMemory
  <2> QED
    BY <1>3, <2>1, <2>2 DEF Active
<1>4. CASE CreateCollides(c) \/ GoFails(c) \/ GiveUp(c) \/ Commit(c)
  <2>1. Ending /\ Bystanders
    BY <1>2, <1>4 DEF CreateCollides, GoFails, GiveUp, Commit, Refuse, Goto
  <2>2. Turning /\ pc[c] \notin {"new", "done"}
    BY <1>2, <1>4 DEF CreateCollides, GoFails, Planning, GiveUp, Commit, Refuse, Goto, At,
                      Remembering, SharedMemory
  <2> QED
    BY <2>1, <2>2 DEF Active
<1>5. CASE Ask(c) \/ Answer(c)
  <2>1. work'[c].row = work[c].row
    BY <1>1, <1>5, AddTyped DEF Ask, Answer
  <2>2. Bystanders /\ Resting
    BY <1>2, <1>5, <2>1 DEF Ask, Answer, AddMessage, Goto
  <2>3. Turning /\ pc[c] \notin {"new", "done"}
    BY <1>2, <1>5 DEF Ask, Answer, Goto, At, Remembering, SharedMemory
  <2> QED
    BY <2>2, <2>3 DEF Active
<1>6. CASE LogReceived(c) \/ LogReturned(c)
  <2>1. work'[c].row = work[c].row
    BY <1>1, <1>6, LogTyped DEF LogReceived, LogReturned
  <2>2. Bystanders /\ Resting
    BY <1>2, <1>6, <2>1 DEF LogReceived, LogReturned, LogEvent, Goto
  <2>3. Turning /\ pc[c] \notin {"new", "done"}
    BY <1>2, <1>6 DEF LogReceived, LogReturned, Goto, At, Remembering, SharedMemory
  <2> QED
    BY <2>2, <2>3 DEF Active
<1>7. CASE GoProposes(c)
  <2>1. work'[c].row = work[c].row
    BY <1>2, <1>7 DEF GoProposes, Work
  <2>2. Bystanders /\ Resting /\ Turning /\ pc[c] \notin {"new", "done"}
    BY <1>2, <1>7, <2>1 DEF GoProposes, Planning, Goto, Remembering, SharedMemory, database
  <2> QED
    BY <2>2 DEF Active
<1>8. CASE ReadRows(c) \/ LookUp(c) \/ ListOlder(c) \/ Share(c)
  <2>1. Bystanders /\ Resting
    BY <1>2, <1>8 DEF ReadRows, LookUp, AfterLookUp, Override, ListOlder, Share, Goto, database
  <2>2. Turning /\ pc[c] \notin {"new", "done"}
    BY <1>2, <1>8 DEF ReadRows, LookUp, AfterLookUp, ListOlder, Share, Shared, Goto, At,
                      Remembering, SharedMemory
  <2> QED
    BY <2>1, <2>2 DEF Active
<1>9. CASE FindSession(c) \/ AskModel(c) \/ GoAnswers(c) \/ Call(c) \/ Receive(c) \/ Reply(c)
  <2>1. Bystanders /\ Resting
    BY <1>2, <1>9 DEF FindSession, AskModel, GoAnswers, Planning, Call, Receive, Reply, Goto,
                      database
  <2>2. Turning /\ pc[c] \notin {"new", "done"}
    BY <1>2, <1>9 DEF FindSession, AskModel, GoAnswers, Planning, Call, Receive, Reply, Goto,
                      At, Remembering, SharedMemory
  <2> QED
    BY <2>1, <2>2 DEF Active
<1> QED
  BY <1>3, <1>4, <1>5, <1>6, <1>7, <1>8, <1>9 DEF Proceed

LEMMA OwnRowNext ==
    ASSUME Typed, Chosen, OwnRow, [Next]_vars
    PROVE  OwnRow'
<1> SUFFICES ASSUME faults' = 0, NEW d \in Chats
             PROVE  /\ ~ Go(d)' \/ pc'[d] = "new" => work'[d].row = None
                    /\ Go(d)' /\ pc'[d] \in Remembering =>
                            work'[d].row # None /\ work'[d].row.memory.last = d
  BY DEF OwnRow
<1>1. /\ ~ Go(d) \/ pc[d] = "new" => work[d].row = None
      /\ Go(d) /\ pc[d] \in Remembering => work[d].row # None /\ work[d].row.memory.last = d
  BY FaultFree DEF OwnRow
<1>2. work[d] \in Work /\ pc \in [Chats -> PCs] /\ work \in [Chats -> Work]
      /\ mode \in [Chats -> Modes \cup {None}]
  BY TypeParts DEF Typed, ChatsOK
<1>3. ASSUME NEW c \in Chats, NEW m \in Modes, Start(c, m)
      PROVE  /\ ~ Go(d)' \/ pc'[d] = "new" => work'[d].row = None
             /\ Go(d)' /\ pc'[d] \in Remembering =>
                     work'[d].row # None /\ work'[d].row.memory.last = d
  <2>2. work' = work /\ (d = c => pc'[d] = "session" /\ work[d].row = None)
    BY <1>1, <1>2, <1>3 DEF Start, Goto, At
  <2>3. d # c => pc'[d] = pc[d] /\ Go(d)' = Go(d)
    BY <1>2, <1>3 DEF Start, Goto, Go
  <2> QED
    BY <1>1, <2>2, <2>3 DEF Remembering, SharedMemory
<1>4. ASSUME NEW c \in Chats, Proceed(c)
      PROVE  /\ ~ Go(d)' \/ pc'[d] = "new" => work'[d].row = None
             /\ Go(d)' /\ pc'[d] \in Remembering =>
                     work'[d].row # None /\ work'[d].row.memory.last = d
  <2>1. Go(d)' = Go(d) /\ (pc'[d] = "new" <=> pc[d] = "new")
    BY <1>4, ProceedApart, ChosenNext DEF Go, Chosen
  <2>2. CASE d # c
    BY <1>1, <1>4, <2>1, <2>2, ProceedRows
  <2>3. CASE d = c /\ (Refuse(c) \/ Commit(c))
    BY <1>2, <2>3 DEF Refuse, Commit, NoWork, Goto, Remembering, SharedMemory
  <2>4. CASE d = c /\ work'[c].row = work[c].row /\ ~ Remember(c)
    BY <1>1, <1>4, <2>1, <2>4, ProceedRows
  <2>5. CASE d = c /\ CreateSession(c)
    BY <1>1, <1>2, <2>1, <2>5, Nothing, Written, RowWritten
       DEF CreateSession, Goto, Remembering, SharedMemory
  <2>6. CASE d = c /\ Remember(c)
    <3> DEFINE m == Merge(context[c].memory, c)
               r == [NewestRow(c) EXCEPT !.memory = m]
    <3>1. r \in Row /\ r.memory = m /\ WriteRow(c, r)
      BY <2>6, RowWritten
    <3>2. m.last = c /\ pc[c] # "new"
      BY <2>6 DEF Merge, Remember, At
    <3> HIDE DEF m, r
    <3> QED
      BY <1>1, <2>1, <2>6, <3>1, <3>2, Written
  <2>7. CASE d = c /\ Summarize(c)
    <3> DEFINE r == [NewestRow(c) EXCEPT !.summary = context[c].summary]
    <3>1. r \in Row /\ r.memory = NewestRow(c).memory /\ WriteRow(c, r)
      BY <2>7, RowWritten
    <3>2. /\ Go(c) => NewestRow(c) = work[c].row /\ work[c].row.memory.last = c
          /\ pc[c] # "new"
      BY <1>1, <2>7 DEF Summarize, At, Remembering, SharedMemory, NewestRow
    <3> HIDE DEF r
    <3> QED
      BY <1>1, <2>1, <2>7, <3>1, <3>2, Written
  <2> QED
    BY <1>4, <2>2, <2>3, <2>4, <2>5, <2>6, <2>7, ProceedRows
<1>5. ASSUME UNCHANGED <<pc, mode, work>>
      PROVE  /\ ~ Go(d)' \/ pc'[d] = "new" => work'[d].row = None
             /\ Go(d)' /\ pc'[d] \in Remembering =>
                     work'[d].row # None /\ work'[d].row.memory.last = d
  BY <1>1, <1>5 DEF Go
<1>6. ASSUME (\E c \in Chats : Runtime(c)) \/ RedisReturns \/ UNCHANGED vars
      PROVE  UNCHANGED <<pc, mode, work>>
  BY <1>6, RuntimeApart DEF RedisReturns, vars
<1> QED
  BY <1>3, <1>4, <1>5, <1>6, FaultFree

-----------------------------------------------------------------------------
(* A chat on its own.                                                      *)

\* The steps of a chat between the states of Adds that change nothing it speaks of.
LEMMA AddsQuiet ==
    ASSUME NEW c \in Chats, Adds(c),
           mode'[c] = mode[c], session' = session, snap'[c] = snap[c],
           work'[c].row = work[c].row, redis'["memory"] \in {Miss, redis["memory"]},
           \/ pc[c] \notin Remembering /\ pc'[c] \notin Remembering \cup {"merge", "remember"}
           \/ pc[c] \in SharedMemory /\ pc'[c] \in SharedMemory
    PROVE  Adds(c)'
<1>1. Go(c)' = Go(c)
  BY DEF Go
<1>2. Latest(c)' = Latest(c)
  BY <1>1 DEF Latest, Remembering, SharedMemory
<1>3. pc'[c] \notin {"merge", "remember", "share"}
  BY DEF Remembering, SharedMemory
<1>4. pc[c] # "share" /\ (pc[c] \in Remembering <=> pc'[c] \in Remembering)
  BY DEF Remembering, SharedMemory
<1> QED
  BY <1>1, <1>2, <1>3, <1>4 DEF Adds, MemoryOf

\* While c reads and looks up.
LEMMA AddsRead ==
    ASSUME Typed, MapIdle, faults = 0, faults' = 0, MapIdle',
           NEW c \in Chats, Adds(c), ReadRows(c) \/ LookUp(c)
    PROVE  Adds(c)'
<1>1. /\ context \in [Chats -> Known] /\ pc \in [Chats -> PCs]
      /\ UNCHANGED <<mode, session, snap, work>>
  BY TypeParts DEF Typed, ChatsOK, ReadRows, LookUp, database
<1>2. redis'["memory"] \in {Miss, redis["memory"]}
  BY ConstantsAssumption DEF ReadRows, LookUp, Expire, Aged, cacheVars
<1>3. CASE pc[c] \in {"context", "lookup"}
  <2>1. pc'[c] \in {"lookup", "act", "call"}
    BY <1>1, <1>3 DEF ReadRows, LookUp, AfterLookUp, Goto, At
  <2> QED
    BY <1>1, <1>2, <1>3, <2>1, AddsQuiet DEF Remembering, SharedMemory
<1>4. CASE pc[c] = "recall"
  <2>1. pc'[c] = "merge" /\ context'[c].memory = SeenRow(c).memory
    BY <1>1, <1>4 DEF ReadRows, LookUp, Goto, At
  <2>2. SeenRow(c) # None
    BY <1>4 DEF Typed, RowsSeen, Rowless
  <2>3. SeenRow(c).memory = MemoryOf(session)
    BY <1>4, <2>2 DEF SeenRow, Adds, MemoryOf, Remembering, SharedMemory
  <2> QED
    BY <1>1, <1>2, <1>4, <2>1, <2>3 DEF Adds, Latest, Go, MemoryOf, Remembering, SharedMemory
<1>5. CASE pc[c] = "merge"
  <2>1. pc'[c] = "remember" /\ LookUp(c)
    BY <1>1, <1>5 DEF ReadRows, LookUp, AfterLookUp, Goto, At
  <2>2. Cached("memory")' = redis'["memory"]
    BY DEF MapIdle, Cached, Either
  <2>3. context'[c].memory \in {context[c].memory, redis'["memory"]} \ {Miss}
        \/ context'[c].memory = context[c].memory
    BY <1>1, <2>1, <2>2 DEF LookUp, Override, Known
  <2>4. redis["memory"] \in {Miss, MemoryOf(session)}
    BY <1>5 DEF Adds, Latest, SharedMemory
  <2>5. context'[c].memory = MemoryOf(session)
    BY <1>2, <1>5, <2>3, <2>4 DEF Adds
  <2> QED
    BY <1>1, <1>2, <1>5, <2>1, <2>5 DEF Adds, Latest, Go, MemoryOf, Remembering, SharedMemory
<1> QED
  BY <1>3, <1>4, <1>5 DEF ReadRows, LookUp

\* While c writes the row, and the cache after it.
LEMMA AddsWrite ==
    ASSUME Typed, MapIdle, OwnRow, faults = 0, NEW c \in Chats, Adds(c),
           CreateSession(c) \/ Remember(c) \/ Summarize(c) \/ Share(c)
    PROVE  Adds(c)'
<1>1. pc \in [Chats -> PCs] /\ context \in [Chats -> Known] /\ DOMAIN redis = Keys
  BY TypeParts DEF Typed, ChatsOK, CacheOK, StoreOK
<1>2. mode' = mode /\ snap' = snap /\ Go(c)' = Go(c)
  BY DEF CreateSession, Remember, Summarize, Share, Go
<1>3. /\ ~ Go(c) => work[c].row = None
      /\ Go(c) /\ pc[c] \in Remembering => work[c].row # None
  BY DEF OwnRow
<1>4. CASE CreateSession(c)
  <2>1. /\ pc[c] = "create" /\ pc'[c] = "ask" /\ session = None /\ WriteRow(c, NewRow)
        /\ redis' = redis
    BY <1>1, <1>4 DEF CreateSession, Goto, At, cacheVars
  <2>2. NewRow.memory = NoMemory /\ NewRow \in Row
    BY Nothing DEF NewRow
  <2>3. MemoryOf(session') = MemoryOf(session)
    BY <2>1, <2>2, Written DEF MemoryOf
  <2>4. Go(c) => work'[c].row.memory = MemoryOf(session)
    BY <2>1, <2>2, Written DEF MemoryOf
  <2> QED
    BY <1>2, <2>1, <2>3, <2>4 DEF Adds, Latest, MemoryOf, Remembering, SharedMemory
<1>5. CASE Remember(c)
  <2> DEFINE m == Merge(context[c].memory, c)
             r == [NewestRow(c) EXCEPT !.memory = m]
  <2>1. r \in Row /\ r.memory = m /\ WriteRow(c, r) /\ context'[c].memory = m
    BY <1>5, RowWritten
  <2>2. /\ pc[c] = "remember" /\ pc'[c] = "share" /\ redis' = redis
    BY <1>1, <1>5 DEF Remember, Goto, At, cacheVars
  <2>3. m = Merge(MemoryOf(session), c)
    BY <2>2 DEF Adds
  <2> HIDE DEF m, r
  <2>4. CASE Go(c)
    <3>1. work'[c].row = r /\ session' = session
      BY <2>1, <2>4, Written
    <3> QED
      BY <1>2, <2>1, <2>2, <2>3, <2>4, <3>1
         DEF Adds, Latest, MemoryOf, Remembering, SharedMemory
  <2>5. CASE ~ Go(c)
    <3>1. session' = r /\ r # None
      BY <2>1, <2>5, Written
    <3> QED
      BY <1>2, <2>1, <2>2, <2>5, <3>1 DEF Adds, MemoryOf
  <2> QED
    BY <2>4, <2>5
<1>6. CASE Summarize(c)
  <2> DEFINE r == [NewestRow(c) EXCEPT !.summary = context[c].summary]
  <2>1. r \in Row /\ r.memory = NewestRow(c).memory /\ WriteRow(c, r)
    BY <1>6, RowWritten
  <2>2. pc[c] = "summarize" /\ pc'[c] = "shareSummary" /\ redis' = redis
    BY <1>1, <1>6 DEF Summarize, Goto, At, cacheVars
  <2> HIDE DEF r
  <2>3. CASE Go(c)
    <3>1. work'[c].row = r /\ session' = session /\ r.memory = work[c].row.memory
      BY <1>3, <2>1, <2>2, <2>3, Written DEF NewestRow, Remembering, SharedMemory
    <3> QED
      BY <1>2, <2>2, <2>3, <3>1 DEF Adds, Latest, MemoryOf, Remembering, SharedMemory
  <2>4. CASE ~ Go(c)
    <3>1. session' = r /\ r # None /\ NewestRow(c) = session /\ session # None
      BY <1>3, <2>1, <2>2, <2>4, Written, NewestTyped, ConstantsAssumption
         DEF NewestRow, Rowless
    <3>2. MemoryOf(session') = MemoryOf(session)
      BY <2>1, <3>1 DEF MemoryOf
    <3> QED
      BY <1>2, <2>2, <2>4, <3>2 DEF Adds, Latest, Remembering, SharedMemory
  <2> QED
    BY <2>3, <2>4
<1>7. CASE Share(c)
  <2>1. UNCHANGED <<session, work>> /\ disabled = FALSE
    BY <1>7 DEF Share, database, MapIdle
  <2>2. CASE pc[c] = "share"
    <3>1. pc'[c] = "list" /\ redis'["memory"] = context[c].memory
      BY <1>1, <1>7, <2>1, <2>2, ConstantsAssumption DEF Share, Set, Shared, Goto, At
    <3> QED
      BY <1>2, <2>1, <2>2, <3>1 DEF Adds, Latest, MemoryOf, Remembering, SharedMemory
  <2>3. CASE pc[c] = "shareSummary"
    <3>1. pc'[c] \in SharedMemory /\ redis'["memory"] = redis["memory"]
      BY <1>1, <1>7, <2>1, <2>3, ConstantsAssumption DEF Share, Set, Shared, Goto, At, SharedMemory
    <3> QED
      BY <1>1, <1>2, <1>7, <2>1, <2>3, <3>1, AddsQuiet DEF Share, SharedMemory
  <2> QED
    BY <1>7, <2>2, <2>3 DEF Share
<1> QED
  BY <1>4, <1>5, <1>6, <1>7

\* A chat on its own leaves the memory of the session in Redis, or none, when it ends.
LEMMA AddsProceed ==
    ASSUME Typed, MapIdle, MapIdle', OwnRow, faults = 0, faults' = 0,
           NEW c \in Chats, Adds(c), Proceed(c)
    PROVE  Adds(c)' \/ (pc'[c] = "done" /\ redis'["memory"] \in {Miss, MemoryOf(session')})
<1>1. pc \in [Chats -> PCs] /\ snap \in [Chats -> Snap] /\ ChatsOK /\ DatabaseOK
  BY TypeParts DEF Typed, ChatsOK
<1>2. CASE ReadRows(c) \/ LookUp(c)
  BY <1>2, AddsRead
<1>3. CASE CreateSession(c) \/ Remember(c) \/ Summarize(c) \/ Share(c)
  BY <1>3, AddsWrite
<1>4. CASE CreateCollides(c) \/ GoFails(c) \/ GiveUp(c)
  <2>1. /\ pc[c] \in {"create", "act", "model", "wait"} /\ pc'[c] = "done"
        /\ session' = session /\ redis' = redis
    BY <1>1, <1>4 DEF CreateCollides, GoFails, Planning, GiveUp, Refuse, Goto, At, database,
                      cacheVars
  <2> QED
    BY <2>1 DEF Adds, Latest, MemoryOf, SharedMemory
<1>5. CASE Commit(c)
  <2>1. /\ pc[c] = "commit" /\ pc'[c] = "done" /\ session' = NewestRow(c) /\ redis' = redis
    BY <1>1, <1>5 DEF Commit, Goto, At, cacheVars
  <2>2. redis["memory"] \in {Miss, Latest(c)}
    BY <2>1 DEF Adds
  <2>3. CASE Go(c)
    BY <2>1, <2>2, <2>3 DEF OwnRow, Latest, NewestRow, MemoryOf, Remembering, SharedMemory
  <2>4. CASE ~ Go(c)
    BY <2>1, <2>2, <2>4 DEF OwnRow, Latest, NewestRow, MemoryOf
  <2> QED
    BY <2>3, <2>4
<1>6. CASE Reply(c)
  <2>1. /\ pc[c] = "reply" /\ pc'[c] = (IF Go(c) THEN "commit" ELSE "done")
        /\ UNCHANGED <<mode, session, snap, work, redis>>
    BY <1>1, <1>6 DEF Reply, Goto, At, database, cacheVars
  <2>2. CASE Go(c)
    BY <2>1, <2>2, AddsQuiet DEF SharedMemory
  <2>3. CASE ~ Go(c)
    BY <2>1, <2>3 DEF Adds, Latest, MemoryOf
  <2> QED
    BY <2>2, <2>3
<1>7. CASE \/ FindSession(c) \/ Ask(c) \/ LogReceived(c) \/ AskModel(c) \/ GoAnswers(c)
           \/ GoProposes(c)
           \/ Call(c) \/ Receive(c)
  <2>1. work'[c].row = work[c].row /\ snap' = snap /\ session' = session
    BY <1>1, <1>7, AddTyped, LogTyped
       DEF FindSession, Ask, LogReceived, AskModel, GoAnswers, Planning, GoProposes, Call,
           Receive, database, ChatsOK, Work
  <2>2. mode' = mode /\ redis' = redis
    BY <1>7 DEF FindSession, Ask, LogReceived, AskModel, GoAnswers, Planning, GoProposes, Call,
                Receive, cacheVars
  <2>3. /\ pc[c] \notin Remembering
        /\ pc'[c] \notin Remembering \cup {"merge", "remember"}
    BY <1>1, <1>7 DEF FindSession, Ask, LogReceived, AskModel, GoAnswers, Planning, GoProposes,
       Call, Receive, Goto, At, Remembering, SharedMemory
  <2> QED
    BY <2>1, <2>2, <2>3, AddsQuiet
<1>8. CASE Answer(c)
  <2>1. work'[c].row = work[c].row
    BY <1>1, <1>8, AddTyped DEF Answer
  <2>2. UNCHANGED <<mode, session, snap, redis>> /\ pc[c] = "answer" /\ pc'[c] = "recall"
    BY <1>1, <1>8 DEF Answer, Goto, At, cacheVars
  <2> QED
    BY <2>1, <2>2, AddsQuiet DEF Remembering, SharedMemory
<1>9. CASE ListOlder(c) \/ LogReturned(c)
  <2>1. work'[c].row = work[c].row
    BY <1>1, <1>9, LogTyped DEF ListOlder, LogReturned
  <2>2. /\ UNCHANGED <<mode, session, snap, redis>>
        /\ pc[c] \in SharedMemory /\ pc'[c] \in SharedMemory
    BY <1>1, <1>9 DEF ListOlder, LogReturned, Goto, At, cacheVars, database, SharedMemory
  <2> QED
    BY <2>1, <2>2, AddsQuiet
<1> QED
  BY <1>2, <1>3, <1>4, <1>5, <1>6, <1>7, <1>8, <1>9 DEF Proceed

-----------------------------------------------------------------------------
(* All chats.                                                              *)

LEMMA EvenBefore ==
    ASSUME Typed, Chosen, [Next]_vars, Even'
    PROVE  Even
<1>1. faults = 0
  BY FaultFree DEF Even
<1>2. CASE OnlyGo'
  BY <1>2, SmoothBefore DEF Even, OnlyGo, Smooth
<1>3. CASE overlapped' = {}
  <2>1. overlapped \subseteq overlapped'
    BY FaultFree, ProceedApart, RuntimeApart DEF Even, Start, RedisReturns, history, vars
  <2> QED
    BY <1>1, <1>3, <2>1 DEF Even
<1> QED
  BY <1>2, <1>3 DEF Even

LEMMA AddingNext ==
    ASSUME Typed, RaceInv, Chosen, MapIdle, OwnRow, Smooth => LockInv, Adding, [Next]_vars
    PROVE  Adding'
<1> SUFFICES ASSUME Even'
             PROVE  /\ Active' = {} => redis'["memory"] \in {Miss, MemoryOf(session')}
                    /\ \A c \in Active' \ overlapped' : Adds(c)'
  BY DEF Adding, MemoryOf
<1>1. /\ faults = 0 /\ faults' = 0
      /\ Active = {} => redis["memory"] \in {Miss, MemoryOf(session)}
      /\ \A c \in Active \ overlapped : Adds(c)
  BY EvenBefore DEF Adding, Even
<1>2. pc \in [Chats -> PCs] /\ snap \in [Chats -> Snap] /\ mode \in [Chats -> Modes \cup {None}]
  BY TypeParts DEF Typed, ChatsOK
<1>3. ASSUME NEW c \in Chats, NEW m \in Modes, Start(c, m)
      PROVE  /\ Active' = {} => redis'["memory"] \in {Miss, MemoryOf(session')}
             /\ \A d \in Active' \ overlapped' : Adds(d)'
  <2>1. /\ pc[c] = "new" /\ pc'[c] = "session" /\ \A d \in Chats \ {c} : pc'[d] = pc[d]
        /\ UNCHANGED <<session, redis, work>>
        /\ m = "go" => snap'[c].row = session
        /\ mode'[c] = m
    BY <1>2, <1>3 DEF Start, Goto, At, database, cacheVars
  <2>2. Active' = Active \cup {c} /\ c \notin Active
    BY <2>1 DEF Active
  <2>3. ASSUME NEW d \in Active' \ overlapped'
        PROVE  d = c /\ Active = {}
    BY <1>3, <2>2, <2>3 DEF Start
  <2>4. work[c].row = None
    BY <1>1, <2>1 DEF OwnRow
  <2>5. ASSUME Active = {}
        PROVE  Adds(c)'
    BY <1>1, <2>1, <2>4, <2>5 DEF Adds, Latest, MemoryOf, Go, Remembering, SharedMemory
  <2> QED
    BY <2>2, <2>3, <2>5
<1>4. ASSUME NEW c \in Chats, Proceed(c)
      PROVE  /\ Active' = {} => redis'["memory"] \in {Miss, MemoryOf(session')}
             /\ \A d \in Active' \ overlapped' : Adds(d)'
  <2>1. c \in Active /\ Active' \subseteq Active /\ overlapped' = overlapped
    BY <1>4, ProceedRows, ProceedApart
  <2>2. \A d \in Active' \ overlapped' : d = c
    BY <2>1 DEF RaceInv
  <2>3. ASSUME c \notin overlapped
        PROVE  Adds(c)' \/ (pc'[c] = "done" /\ redis'["memory"] \in {Miss, MemoryOf(session')})
    BY <1>1, <1>4, <2>1, <2>3, AddsProceed, MapIdleNext
  <2>4. ASSUME Active' = {}
        PROVE  redis'["memory"] \in {Miss, MemoryOf(session')}
    <3>1. CASE c \notin overlapped
      <4>1. pc'[c] \in {"new", "done"}
        BY <2>4 DEF Active
      <4> QED
        BY <2>3, <3>1, <4>1 DEF Adds, Latest, MemoryOf, SharedMemory
    <3>2. CASE c \in overlapped
      <4>1. Smooth'
        BY <2>1, <3>2 DEF Even, OnlyGo, Smooth
      <4>2. LockInv'
        BY <4>1, LockNext
      <4>3. \A d \in Chats : ~ Holds(d)'
        BY <2>4, <4>2 DEF LockInv, Active
      <4> QED
        BY <4>2, <4>3 DEF LockInv, MemoryOf
    <3> QED
      BY <3>1, <3>2
  <2> QED
    BY <2>1, <2>2, <2>3, <2>4 DEF Active
<1>5. ASSUME UNCHANGED <<pc, mode, session, snap, work, context, redis, overlapped>>
      PROVE  /\ Active' = {} => redis'["memory"] \in {Miss, MemoryOf(session')}
             /\ \A d \in Active' \ overlapped' : Adds(d)'
  BY <1>1, <1>5 DEF Active, Adds, Latest, MemoryOf, Go
<1>6. ASSUME (\E c \in Chats : Runtime(c)) \/ RedisReturns \/ UNCHANGED vars
      PROVE  UNCHANGED <<pc, mode, session, snap, work, context, redis, overlapped>>
  BY <1>6, RuntimeApart DEF RedisReturns, Reenable, vars, cacheVars, history, database
<1> QED
  BY <1>1, <1>3, <1>4, <1>5, <1>6, FaultFree

Additive == Ordered /\ RaceInv /\ MapIdle /\ OwnRow /\ Adding

LEMMA AdditiveInit == Init => Additive
<1> SUFFICES ASSUME Init
             PROVE  Additive
  OBVIOUS
<1>1. MapIdle
  BY ConstantsAssumption DEF Init, CacheInit, MapIdle
<1>2. OwnRow
  BY DEF Init, OwnRow, NoWork, Remembering, SharedMemory
<1>3. Adding
  BY ConstantsAssumption DEF Init, CacheInit, Adding, Active
<1> QED
  BY <1>1, <1>2, <1>3, OrderedInit, RaceInit DEF Additive

LEMMA AdditiveNext == Additive /\ [Next]_vars => Additive'
BY OrderedNext, RaceNext, MapIdleNext, OwnRowNext, AddingNext DEF Additive, Ordered

\* The steps that change the row of the session.
LEMMA SessionSteps ==
    ASSUME Typed, [Next]_vars, session' # session
    PROVE  \E c \in Chats : CreateSession(c) \/ Remember(c) \/ Summarize(c) \/ Commit(c)
<1>1. ASSUME NEW c \in Chats, Fails(c) \/ Runtime(c) \/ \E m \in Modes : Start(c, m)
      PROVE  session' = session
  BY <1>1, RuntimeApart DEF Fails, LookUpFails, ShareFails, StatementFails, ErrorIgnored,
     CommitFails, Refuse, Start, database
<1>2. ASSUME Crash \/ RedisReturns \/ Finished \/ UNCHANGED vars
      PROVE  session' = session
  BY <1>2 DEF Crash, RedisReturns, Finished, vars, database
<1> QED
  BY <1>1, <1>2, ProceedRows DEF Next, Refuse, database

\* Only the chat that the new memory names can have written it, and it wrote what it adds.
LEMMA AddsUp ==
    ASSUME Additive, [Next]_vars, NEW c \in Chats,
           MemoryOf(session') # MemoryOf(session), MemoryOf(session').last = c,
           faults = 0, c \notin overlapped, overlapped = {} \/ OnlyGo
    PROVE  MemoryOf(session') = Merge(MemoryOf(session), c)
<1>1. Typed /\ OwnRow /\ Adding
  BY DEF Additive, Ordered
<1>2. PICK d \in Chats : CreateSession(d) \/ Remember(d) \/ Summarize(d) \/ Commit(d)
  BY <1>1, SessionSteps
<1>3. ASSUME c \in Active
      PROVE  Adds(c)
  BY <1>1, <1>3 DEF Adding, Even
<1>4. ~ Go(d) => work[d].row = None
  BY <1>1 DEF OwnRow
<1>5. CASE CreateSession(d)
  <2>1. session = None /\ WriteRow(d, NewRow) /\ NewRow \in Row /\ NewRow.memory = NoMemory
    BY <1>5, Nothing DEF CreateSession, NewRow
  <2>2. MemoryOf(session') = MemoryOf(session)
    BY <1>1, <2>1, Written DEF MemoryOf
  <2> QED
    BY <2>2
<1>6. CASE Remember(d)
  <2> DEFINE m == Merge(context[d].memory, d)
             r == [NewestRow(d) EXCEPT !.memory = m]
  <2>1. r \in Row /\ r.memory = m /\ WriteRow(d, r)
    BY <1>1, <1>6, RowWritten
  <2>2. m.last = d
    BY DEF Merge
  <2>3. pc[d] = "remember"
    BY <1>6 DEF Remember, At
  <2> HIDE DEF r
  <2>4. MemoryOf(session') = m
    BY <1>1, <2>1, Written DEF MemoryOf
  <2>5. d = c
    BY <2>2, <2>4
  <2>6. context[c].memory = MemoryOf(session)
    BY <1>3, <2>3, <2>5 DEF Adds, Active
  <2> QED
    BY <2>4, <2>5, <2>6
<1>7. CASE Summarize(d)
  <2> DEFINE r == [NewestRow(d) EXCEPT !.summary = context[d].summary]
  <2>1. r \in Row /\ r.memory = NewestRow(d).memory /\ WriteRow(d, r)
    BY <1>1, <1>7, RowWritten
  <2> HIDE DEF r
  <2>2. ~ Go(d) /\ session' = r /\ r # None
    BY <1>1, <2>1, Written
  <2>3. NewestRow(d) = session /\ session # None
    BY <1>1, <1>4, <1>7, <2>2, NewestTyped, ConstantsAssumption
       DEF NewestRow, Summarize, At, Rowless
  <2> QED
    BY <2>1, <2>2, <2>3 DEF MemoryOf
<1>8. CASE Commit(d)
  <2>1. pc[d] = "commit" /\ session' = NewestRow(d)
    BY <1>8 DEF Commit, At
  <2>2. work[d].row # None /\ session' = work[d].row
    BY <2>1 DEF NewestRow
  <2>3. Go(d) /\ work[d].row.memory.last = d
    BY <1>1, <1>4, <2>1, <2>2 DEF OwnRow, Remembering, SharedMemory
  <2>4. d = c
    BY <2>2, <2>3 DEF MemoryOf
  <2>5. work[c].row.memory = Merge(MemoryOf(session), c)
    BY <1>3, <2>1, <2>3, <2>4 DEF Adds, Active, Remembering, SharedMemory
  <2> QED
    BY <2>2, <2>4, <2>5 DEF MemoryOf
<1> QED
  BY <1>2, <1>5, <1>6, <1>7, <1>8

\* A turn adds what it mentions to the memory of the turns before it and drops nothing of
\* it, whoever answers, when no other chat was in flight with it and nothing has failed
\* (RememberTurn reads the memory through the cache, changes it and writes it back).
THEOREM TurnsAdd == Spec => TurnsAddUp
<1>1. ASSUME Additive, [Next]_vars
      PROVE  \A c \in Chats :
                 /\ MemoryOf(session') # MemoryOf(session)
                 /\ MemoryOf(session').last = c
                 /\ faults = 0
                 /\ c \notin overlapped
                 /\ overlapped = {} \/ \A d \in Chats : mode[d] \in {None, "go"}
                 => MemoryOf(session') = Merge(MemoryOf(session), c)
  BY <1>1, AddsUp DEF OnlyGo
<1> QED
  BY <1>1, AdditiveInit, AdditiveNext, PTL DEF Spec, TurnsAddUp

-----------------------------------------------------------------------------
(* What is forgotten: the invariant.                                       *)

\* The conversation with the Go planner is held one message at a time, without a failure.
Unhurried == Smooth /\ overlapped = {}

SummaryOf(row) == IF row = None THEN {} ELSE row.summary

\* What MaybeUpdateSummary is to quote of some messages.
OlderOf(ms) == IdsOf(Recent(ms, Keep + Lookback) \ Recent(ms, Keep))

\* The steps at which a chat has written a summary or need not.
Summarized == {"shareSummary"} \cup SharedSummary

\* What a chat has in hand: the recent messages, and a summary of the older ones.
Quotes(c) ==
    /\ snap[c] = [messages |-> messages, row |-> session]
    /\ IsFiniteSet(work[c].messages)
    /\ pc[c] \in AfterAsk =>
            \E u \in work[c].messages :
                work[c].messages = {u} /\ \A m \in messages : m.id < u.id
    /\ pc[c] \notin Summarized => SummaryOf(SeenRow(c)) = SummaryOf(session)
    /\ pc[c] \in {"lookup", "act"} =>
            /\ context[c].summary = SummaryOf(session)
            /\ context[c].recent = IdsOf(Recent(SeenMessages(c), Keep))
    /\ pc[c] = "summarize" => context[c].summary = OlderOf(SeenMessages(c))
    /\ pc[c] \in Summarized => OlderOf(SeenMessages(c)) \subseteq SummaryOf(SeenRow(c))

Quoting ==
    Unhurried => /\ IsFiniteSet(messages)
                 /\ OlderOf(messages) \subseteq SummaryOf(session)
                 /\ \A c \in Active : Quotes(c)

-----------------------------------------------------------------------------
(* Counting messages.                                                      *)

Newer(ms, m) == {o \in ms : o.id > m.id}

LEMMA NewerCounted ==
    ASSUME NEW ms, IsFiniteSet(ms), NEW m
    PROVE  IsFiniteSet(Newer(ms, m)) /\ Cardinality(Newer(ms, m)) \in Nat
<1>1. IsFiniteSet(Newer(ms, m))
  BY FS_Subset DEF Newer
<1> QED
  BY <1>1, FS_CardinalityType

LEMMA RecentByNewer ==
    ASSUME NEW ms, NEW k
    PROVE  Recent(ms, k) = {m \in ms : Cardinality(Newer(ms, m)) < k}
BY DEF Recent, Newer

\* The newest k of the newest j are the newest k.
LEMMA RecentTwice ==
    ASSUME NEW ms, ms \subseteq Message, IsFiniteSet(ms), NEW j \in Nat, NEW k \in Nat, k <= j
    PROVE  Recent(Recent(ms, j), k) = Recent(ms, k)
<1> DEFINE js == Recent(ms, j)
<1>1. js \subseteq ms /\ \A m \in ms : m \in js <=> Cardinality(Newer(ms, m)) < j
  BY RecentByNewer
<1>2. \A m \in ms : m.id \in Nat
  BY DEF Message
<1>3. ASSUME NEW m \in js
      PROVE  Newer(js, m) = Newer(ms, m)
  <2>1. ASSUME NEW o \in Newer(ms, m)
        PROVE  o \in js
    <3>1. o \in ms /\ Newer(ms, o) \subseteq Newer(ms, m)
      BY <1>1, <1>2 DEF Newer
    <3>2. Cardinality(Newer(ms, o)) <= Cardinality(Newer(ms, m))
      BY <3>1, NewerCounted, FS_Subset
    <3> QED
      BY <1>1, <3>1, <3>2, NewerCounted
  <2> QED
    BY <1>1, <2>1 DEF Newer
<1>4. Recent(js, k) = {m \in js : Cardinality(Newer(js, m)) < k}
  BY RecentByNewer
<1>5. Recent(ms, k) = {m \in ms : Cardinality(Newer(ms, m)) < k}
  BY RecentByNewer
<1>6. ASSUME NEW m \in ms, Cardinality(Newer(ms, m)) < k
      PROVE  m \in js
  BY <1>1, <1>6, NewerCounted
<1> HIDE DEF js
<1>7. Recent(js, k) = Recent(ms, k)
  BY <1>1, <1>3, <1>4, <1>5, <1>6
<1> QED
  BY <1>7 DEF js

\* A newer message is newer than each of the others by one.
LEMMA NewerByOne ==
    ASSUME NEW ms, ms \subseteq Message, IsFiniteSet(ms), NEW u \in Message,
           \A m \in ms : m.id < u.id
    PROVE  /\ \A m \in ms : Cardinality(Newer(ms \cup {u}, m)) = Cardinality(Newer(ms, m)) + 1
           /\ Cardinality(Newer(ms \cup {u}, u)) = 0
<1>1. u.id \in Nat /\ \A m \in ms : m.id \in Nat
  BY DEF Message
<1>2. u \notin ms
  BY <1>1
<1>3. ASSUME NEW m \in ms
      PROVE  Cardinality(Newer(ms \cup {u}, m)) = Cardinality(Newer(ms, m)) + 1
  <2>1. Newer(ms \cup {u}, m) = Newer(ms, m) \cup {u} /\ u \notin Newer(ms, m)
    BY <1>1, <1>2 DEF Newer
  <2> QED
    BY <2>1, NewerCounted, FS_AddElement
<1>4. Newer(ms \cup {u}, u) = {}
  BY <1>1 DEF Newer
<1> QED
  BY <1>3, <1>4, FS_EmptySet

\* With the messages before the last one quoted, the last one pushes one out at most.
LEMMA Pushed ==
    ASSUME NEW ms, ms \subseteq Message, IsFiniteSet(ms), NEW u \in Message,
           \A m \in ms : m.id < u.id,
           NEW quoted, OlderOf(ms) \subseteq quoted
    PROVE  LET seen == ms \cup {u}
           IN  IdsOf(Recent(seen, Keep + Lookback + 1)) \ (IdsOf(Recent(seen, Keep)) \cup quoted)
                   \subseteq IdsOf(Recent(seen, Keep + 1) \ Recent(seen, Keep))
<1> DEFINE seen == ms \cup {u}
<1>1. Keep \in Nat /\ Keep > 0 /\ Lookback \in Nat
  BY ConstantsAssumption
<1>2. \A k : Recent(seen, k) = {m \in seen : Cardinality(Newer(seen, m)) < k}
  BY RecentByNewer
<1>3. u \in Recent(seen, Keep)
  BY <1>1, <1>2, NewerByOne
<1>4. ASSUME NEW m \in Recent(seen, Keep + Lookback + 1), m \notin Recent(seen, Keep + 1),
             m \notin Recent(seen, Keep)
      PROVE  m \in Recent(ms, Keep + Lookback) \ Recent(ms, Keep)
  <2>1. m \in ms
    BY <1>2, <1>3, <1>4
  <2>2. Cardinality(Newer(seen, m)) = Cardinality(Newer(ms, m)) + 1
    BY <2>1, NewerByOne
  <2>3. Cardinality(Newer(ms, m)) \in Nat
    BY NewerCounted
  <2>4. Cardinality(Newer(ms, m)) < Keep + Lookback /\ ~ (Cardinality(Newer(ms, m)) < Keep)
    <3>1. Cardinality(Newer(seen, m)) < Keep + Lookback + 1
      BY <1>2, <1>4
    <3>2. ~ (Cardinality(Newer(seen, m)) < Keep + 1)
      BY <1>2, <1>4, <2>1
    <3> QED
      BY <1>1, <2>2, <2>3, <3>1, <3>2
  <2> QED
    BY <2>1, <2>4, RecentByNewer
<1> HIDE DEF seen
<1>5. IdsOf(Recent(seen, Keep + Lookback + 1)) \ (IdsOf(Recent(seen, Keep)) \cup quoted)
          \subseteq IdsOf(Recent(seen, Keep + 1) \ Recent(seen, Keep))
  BY <1>4 DEF IdsOf, OlderOf
<1> QED
  BY <1>5 DEF seen

-----------------------------------------------------------------------------
(* A chat that counts.                                                     *)

LEMMA QuotesQuiet ==
    ASSUME NEW c \in Chats, Quotes(c), mode'[c] = mode[c], snap'[c] = snap[c],
           UNCHANGED <<session, messages>>,
           work'[c].row = work[c].row, work'[c].messages = work[c].messages,
           \/ /\ pc[c] \notin Summarized
              /\ pc'[c] \notin Summarized \cup {"lookup", "act", "summarize"}
              /\ pc'[c] \in AfterAsk => pc[c] \in AfterAsk
           \/ pc[c] \in Summarized /\ pc'[c] \in Summarized
    PROVE  Quotes(c)'
<1>1. Go(c)' = Go(c) /\ SeenRow(c)' = SeenRow(c) /\ SeenMessages(c)' = SeenMessages(c)
  BY DEF Go, SeenRow, SeenMessages
<1>2. /\ pc'[c] \in AfterAsk => pc[c] \in AfterAsk
      /\ pc'[c] \notin {"lookup", "act", "summarize"}
      /\ pc'[c] \in Summarized <=> pc[c] \in Summarized
  BY DEF Summarized, SharedSummary, AfterAsk
<1>3. OlderOf(SeenMessages(c))' = OlderOf(SeenMessages(c))
  BY <1>1 DEF OlderOf, Recent, IdsOf
<1>4. SummaryOf(SeenRow(c))' = SummaryOf(SeenRow(c)) /\ SummaryOf(session)' = SummaryOf(session)
  BY <1>1 DEF SummaryOf
<1> QED
  BY <1>2, <1>3, <1>4 DEF Quotes

\* What a chat of the Go planner sees of a session that nobody else changes.
LEMMA SeenAlone ==
    ASSUME Typed, NEW c \in Chats, Go(c), Quotes(c), IsFiniteSet(messages)
    PROVE  /\ SeenMessages(c) = messages \cup work[c].messages
           /\ SeenMessages(c) \subseteq Message /\ IsFiniteSet(SeenMessages(c))
           /\ SeenRow(c) = NewestRow(c)
<1>1. SeenMessages(c) = messages \cup work[c].messages
  BY DEF Quotes, SeenMessages
<1>2. IsFiniteSet(SeenMessages(c))
  <2>1. IsFiniteSet(work[c].messages)
    BY DEF Quotes
  <2>2. IsFiniteSet(messages \cup work[c].messages)
    BY <2>1, FS_Union
  <2> QED
    BY <1>1, <2>2
<1>3. SeenRow(c) = NewestRow(c)
  BY DEF Quotes, SeenRow, NewestRow
<1> QED
  BY <1>1, <1>2, <1>3, SeenTyped DEF Typed

\* The cache shows the summary of the session until a new one is shared.
LEMMA CachedSummary ==
    ASSUME LockInv, NEW c \in Chats, pc[c] \notin SharedSummary,
           \A d \in Chats : Holds(d) => d = c
    PROVE  redis["summary"] \in {Miss, SummaryOf(session)}
BY DEF LockInv, HolderShares, SummaryOf

\* While c reads, looks up and asks.
LEMMA QuotesRead ==
    ASSUME Typed, TurnInv, LockInv, MapIdle', faults' = 0, NEW c \in Chats, Go(c), Quotes(c),
           IsFiniteSet(messages), \A d \in Chats : Holds(d) => d = c,
           Ask(c) \/ Answer(c) \/ ReadRows(c) \/ LookUp(c)
    PROVE  Quotes(c)'
<1>1. /\ context \in [Chats -> Known] /\ context[c] \in Known /\ pc \in [Chats -> PCs]
      /\ work \in [Chats -> Work] /\ work[c] \in Work /\ ChatsOK /\ DatabaseOK
  BY TypeParts DEF Typed, ChatsOK
<1>2. /\ UNCHANGED <<mode, session, messages, snap>> /\ Go(c)' = Go(c)
      /\ work'[c].row = work[c].row
  BY <1>1, AddTyped DEF Ask, Answer, AddMessage, ReadRows, LookUp, database, Go
<1>3. SeenRow(c)' = SeenRow(c)
  BY <1>2 DEF SeenRow
<1>4. CASE Ask(c) \/ Answer(c)
  <2>1. PICK r \in {"user", "assistant"} :
            AddMessage(c, r) /\ (Ask(c) => r = "user") /\ (Answer(c) => r = "assistant")
    BY <1>4 DEF Ask, Answer, At
  <2> DEFINE u == [id |-> nextId, chat |-> c, role |-> r]
  <2>2. work'[c].messages = work[c].messages \cup {u} /\ u.id = nextId
    BY <1>1, <2>1 DEF AddMessage, Work
  <2> HIDE DEF u
  <2>3. IsFiniteSet(work'[c].messages)
    BY <2>2, FS_AddElement DEF Quotes
  <2>4. CASE Ask(c)
    <3>1. pc[c] = "ask" /\ pc'[c] = "received"
      BY <1>1, <2>4 DEF Ask, Goto, At
    <3>2. work[c].messages = {}
      BY <3>1 DEF TurnInv, ChatInv, Staged, Bare, BeforeAsk
    <3>3. work'[c].messages = {u} /\ \A m \in messages : m.id < u.id
      BY <2>2, <3>2 DEF TurnInv, IdsBelow
    <3> QED
      BY <1>2, <1>3, <2>3, <3>1, <3>3 DEF Quotes, SummaryOf, Summarized, SharedSummary
  <2>5. CASE Answer(c)
    <3>1. pc[c] = "answer" /\ pc'[c] = "recall"
      BY <1>1, <2>5 DEF Answer, Goto, At
    <3> QED
      BY <1>2, <1>3, <2>3, <3>1 DEF Quotes, SummaryOf, Summarized, SharedSummary, AfterAsk
  <2> QED
    BY <1>4, <2>4, <2>5
<1>5. CASE (ReadRows(c) /\ pc[c] = "recall") \/ (LookUp(c) /\ pc[c] = "merge")
  <2>1. pc'[c] \in {"merge", "remember"} /\ work' = work
    BY <1>1, <1>5 DEF ReadRows, LookUp, AfterLookUp, Goto, At
  <2> QED
    BY <1>2, <1>5, <2>1, QuotesQuiet DEF Summarized, SharedSummary, AfterAsk
<1>6. CASE ReadRows(c) /\ pc[c] = "context"
  <2>1. /\ pc'[c] = "lookup" /\ work' = work
        /\ context'[c].recent = IdsOf(Recent(SeenMessages(c), Keep))
        /\ context'[c].summary = SeenRow(c).summary
    BY <1>1, <1>6 DEF ReadRows, Goto, At
  <2>2. SeenRow(c) # None
    BY <1>6 DEF Typed, RowsSeen, Rowless
  <2>3. context'[c].summary = SummaryOf(session)
    BY <1>6, <2>1, <2>2 DEF Quotes, SummaryOf, Summarized, SharedSummary
  <2>4. SeenMessages(c)' = SeenMessages(c)
    BY <1>2, <2>1 DEF SeenMessages
  <2> QED
    BY <1>2, <1>3, <1>6, <2>1, <2>3, <2>4
       DEF Quotes, SummaryOf, Summarized, SharedSummary, AfterAsk, Recent, IdsOf
<1>7. CASE LookUp(c) /\ pc[c] = "lookup"
  <2>1. pc'[c] = "act" /\ work' = work
    BY <1>1, <1>7 DEF LookUp, AfterLookUp, Goto, At
  <2>2. Cached("summary")' \in {Miss, redis["summary"]}
    <3>1. redis'["summary"] \in {Miss, redis["summary"]}
      BY <1>7, ConstantsAssumption DEF LookUp, Expire, Aged
    <3> QED
      BY <3>1 DEF MapIdle, Cached, Either
  <2>3. redis["summary"] \in {Miss, SummaryOf(session)}
    BY <1>7, CachedSummary DEF SharedSummary
  <2>4. /\ context'[c].recent = context[c].recent
        /\ context'[c].summary \in {context[c].summary} \cup ({Cached("summary")'} \ {Miss, {}})
    BY <1>1, <1>7 DEF LookUp, Override, Known
  <2>5. context'[c].summary = SummaryOf(session)
    BY <1>7, <2>2, <2>3, <2>4 DEF Quotes
  <2>6. SeenMessages(c)' = SeenMessages(c)
    BY <1>2, <2>1 DEF SeenMessages
  <2> QED
    BY <1>2, <1>3, <1>7, <2>1, <2>4, <2>5, <2>6
       DEF Quotes, SummaryOf, Summarized, SharedSummary, AfterAsk, Recent, IdsOf
<1> QED
  BY <1>4, <1>5, <1>6, <1>7 DEF ReadRows, LookUp

\* While c writes its row.
LEMMA QuotesWrite ==
    ASSUME Typed, OwnRow, faults = 0, NEW c \in Chats, Go(c), Quotes(c), IsFiniteSet(messages),
           CreateSession(c) \/ Remember(c) \/ ListOlder(c) \/ Summarize(c)
    PROVE  Quotes(c)'
<1>1. context \in [Chats -> Known] /\ context[c] \in Known /\ pc \in [Chats -> PCs]
      /\ work \in [Chats -> Work] /\ work[c] \in Work
  BY TypeParts DEF Typed, ChatsOK
<1>2. /\ UNCHANGED <<mode, messages, snap>> /\ Go(c)' = Go(c)
      /\ session' = session /\ work'[c].messages = work[c].messages
  BY <1>1 DEF CreateSession, Remember, ListOlder, Summarize, WriteRow, database, Go, Work
<1>3. /\ SeenMessages(c)' = SeenMessages(c)
      /\ OlderOf(SeenMessages(c))' = OlderOf(SeenMessages(c))
  BY <1>2 DEF SeenMessages, OlderOf, Recent, IdsOf
<1>4. ASSUME NEW r \in Row, WriteRow(c, r)
      PROVE  SeenRow(c)' = r /\ SummaryOf(SeenRow(c))' = r.summary
  BY <1>2, <1>4, Written DEF SeenRow, SummaryOf
<1>5. CASE CreateSession(c)
  <2>1. /\ pc[c] = "create" /\ pc'[c] = "ask" /\ session = None /\ WriteRow(c, NewRow)
        /\ NewRow \in Row /\ NewRow.summary = {}
    BY <1>1, <1>5, Nothing DEF CreateSession, Goto, At, NewRow
  <2>2. SummaryOf(SeenRow(c))' = SummaryOf(session)
    BY <1>4, <2>1 DEF SummaryOf
  <2> QED
    BY <1>2, <2>1, <2>2 DEF Quotes, SummaryOf, Summarized, SharedSummary, AfterAsk
<1>6. CASE Remember(c)
  <2> DEFINE m == Merge(context[c].memory, c)
             r == [NewestRow(c) EXCEPT !.memory = m]
  <2>1. r \in Row /\ WriteRow(c, r) /\ r.summary = NewestRow(c).summary
    BY <1>6, RowWritten
  <2>2. pc[c] = "remember" /\ pc'[c] = "share"
    BY <1>1, <1>6 DEF Remember, Goto, At
  <2>3. NewestRow(c) = SeenRow(c) /\ NewestRow(c) # None
    BY <2>2, SeenAlone, NewestTyped, ConstantsAssumption DEF Rowless
  <2> HIDE DEF r
  <2>4. SummaryOf(SeenRow(c))' = SummaryOf(session)
    BY <1>4, <2>1, <2>2, <2>3 DEF Quotes, SummaryOf, Summarized, SharedSummary
  <2> QED
    BY <1>2, <2>2, <2>4 DEF Quotes, SummaryOf, Summarized, SharedSummary, AfterAsk
<1>7. CASE ListOlder(c)
  <2> DEFINE listed == Recent(SeenMessages(c), Keep + Lookback)
             older == IdsOf(listed \ Recent(listed, Keep))
  <2>1. /\ pc[c] = "list" /\ pc'[c] = (IF older = {} THEN "returned" ELSE "summarize")
        /\ context'[c].summary = older /\ work' = work
    BY <1>1, <1>7 DEF ListOlder, Goto, At, NoContext
  <2>2. older = OlderOf(SeenMessages(c))
    <3>1. Keep \in Nat /\ Keep + Lookback \in Nat /\ Keep <= Keep + Lookback
      BY ConstantsAssumption
    <3> QED
      BY <3>1, SeenAlone, RecentTwice DEF OlderOf
  <2>3. SeenRow(c)' = SeenRow(c)
    BY <1>2, <2>1 DEF SeenRow
  <2> HIDE DEF older
  <2> QED
    BY <1>2, <1>3, <2>1, <2>2, <2>3 DEF Quotes, SummaryOf, Summarized, SharedSummary, AfterAsk
<1>8. CASE Summarize(c)
  <2> DEFINE r == [NewestRow(c) EXCEPT !.summary = context[c].summary]
  <2>1. r \in Row /\ WriteRow(c, r) /\ r.summary = context[c].summary
    BY <1>8, RowWritten
  <2>2. pc[c] = "summarize" /\ pc'[c] = "shareSummary"
    BY <1>1, <1>8 DEF Summarize, Goto, At
  <2> HIDE DEF r
  <2>3. SummaryOf(SeenRow(c))' = OlderOf(SeenMessages(c))
    BY <1>4, <2>1, <2>2 DEF Quotes
  <2> QED
    BY <1>2, <1>3, <2>2, <2>3 DEF Quotes, SummaryOf, Summarized, SharedSummary, AfterAsk
<1> QED
  BY <1>5, <1>6, <1>7, <1>8

\* A chat of the Go planner leaves behind a summary of the messages there are, when it ends.
LEMMA QuotesProceed ==
    ASSUME Typed, TurnInv, LockInv, MapIdle', OwnRow, faults = 0, faults' = 0,
           NEW c \in Chats, Go(c), Quotes(c), Proceed(c),
           IsFiniteSet(messages), OlderOf(messages) \subseteq SummaryOf(session),
           \A d \in Chats : Holds(d) => d = c
    PROVE  /\ IsFiniteSet(messages')
           /\ OlderOf(messages') \subseteq SummaryOf(session')
           /\ Quotes(c)' \/ pc'[c] = "done"
<1>1. pc \in [Chats -> PCs] /\ work \in [Chats -> Work] /\ work[c] \in Work
      /\ ChatsOK /\ DatabaseOK
  BY TypeParts DEF Typed, ChatsOK
<1>2. CASE Commit(c)
  <2>1. /\ pc[c] = "commit" /\ pc'[c] = "done" /\ session' = NewestRow(c)
        /\ messages' = messages \cup work[c].messages
    BY <1>1, <1>2 DEF Commit, Goto, At
  <2>2. messages' = SeenMessages(c) /\ session' = SeenRow(c) /\ IsFiniteSet(messages')
    BY <2>1, SeenAlone
  <2>3. OlderOf(SeenMessages(c)) \subseteq SummaryOf(SeenRow(c))
    BY <2>1 DEF Quotes, Summarized, SharedSummary
  <2> QED
    BY <2>1, <2>2, <2>3
<1>3. CASE CreateCollides(c) \/ GoFails(c) \/ GiveUp(c)
  <2>1. pc'[c] = "done" /\ session' = session /\ messages' = messages
    BY <1>1, <1>3 DEF CreateCollides, GoFails, GiveUp, Refuse, Goto, database
  <2> QED
    BY <2>1
<1>4. ASSUME session' = session, messages' = messages, Quotes(c)' \/ pc'[c] = "done"
      PROVE  /\ IsFiniteSet(messages')
             /\ OlderOf(messages') \subseteq SummaryOf(session')
             /\ Quotes(c)' \/ pc'[c] = "done"
  BY <1>4
<1>5. CASE Ask(c) \/ Answer(c) \/ ReadRows(c) \/ LookUp(c)
  <2>1. session' = session /\ messages' = messages
    BY <1>5 DEF Ask, Answer, AddMessage, ReadRows, LookUp, database
  <2> QED
    BY <1>4, <1>5, <2>1, QuotesRead
<1>6. CASE CreateSession(c) \/ Remember(c) \/ ListOlder(c) \/ Summarize(c)
  <2>1. session' = session /\ messages' = messages
    BY <1>6 DEF CreateSession, Remember, ListOlder, Summarize, WriteRow, database
  <2> QED
    BY <1>4, <1>6, <2>1, QuotesWrite
<1>7. CASE \/ FindSession(c) \/ LogReceived(c) \/ AskModel(c) \/ GoAnswers(c) \/ GoProposes(c)
           \/ Call(c)
           \/ Receive(c) \/ Share(c) \/ LogReturned(c) \/ Reply(c)
  <2>1. work'[c].row = work[c].row /\ work'[c].messages = work[c].messages
    BY <1>1, <1>7 DEF FindSession, LogReceived, AskModel, GoAnswers, Planning, GoProposes,
       Call, Receive, Share, LogReturned, Reply, LogEvent, Work
  <2>2. UNCHANGED <<mode, session, messages, snap>>
    BY <1>7 DEF FindSession, LogReceived, AskModel, GoAnswers, Planning, GoProposes, Call,
       Receive, Share, LogReturned, Reply, LogEvent, database
  <2>3. \/ /\ pc[c] \notin Summarized
           /\ pc'[c] \notin Summarized \cup {"lookup", "act", "summarize"}
           /\ pc'[c] \in AfterAsk => pc[c] \in AfterAsk
        \/ pc[c] \in Summarized /\ pc'[c] \in Summarized
    <3>1. CASE FindSession(c) \/ LogReceived(c) \/ AskModel(c) \/ GoAnswers(c)
            \/ GoProposes(c) \/ Call(c)
               \/ Receive(c)
      BY <1>1, <3>1 DEF FindSession, LogReceived, AskModel, GoAnswers, Planning, GoProposes,
         Call, Receive, Goto, At, Summarized, SharedSummary, AfterAsk
    <3>2. CASE Share(c) \/ LogReturned(c) \/ Reply(c)
      BY <1>1, <3>2 DEF Share, Shared, LogReturned, Reply, Goto, At, Summarized, SharedSummary,
         AfterAsk
    <3> QED
      BY <1>7, <3>1, <3>2
  <2> QED
    BY <1>4, <2>1, <2>2, <2>3, QuotesQuiet
<1> QED
  BY <1>2, <1>3, <1>5, <1>6, <1>7 DEF Proceed

LEMMA QuotingNext ==
    ASSUME Typed, TurnInv, RaceInv, Chosen, Smooth => LockInv, MapIdle, OwnRow, Quoting,
           [Next]_vars
    PROVE  Quoting'
<1> SUFFICES ASSUME Unhurried'
             PROVE  /\ IsFiniteSet(messages')
                    /\ OlderOf(messages') \subseteq SummaryOf(session')
                    /\ \A c \in Active' : Quotes(c)'
  BY DEF Quoting, OlderOf, SummaryOf, Recent, IdsOf
<1>1. Smooth /\ faults = 0 /\ faults' = 0 /\ overlapped' = {}
  BY SmoothBefore DEF Unhurried, Smooth
<1>2. overlapped = {}
  BY EvenBefore, <1>1, FaultFree, ProceedApart, RuntimeApart
     DEF Unhurried, Start, RedisReturns, history, vars
<1>3. /\ LockInv /\ IsFiniteSet(messages) /\ OlderOf(messages) \subseteq SummaryOf(session)
      /\ \A c \in Active : Quotes(c)
  BY <1>1, <1>2 DEF Quoting, Unhurried
<1>4. pc \in [Chats -> PCs] /\ snap \in [Chats -> Snap] /\ mode \in [Chats -> Modes \cup {None}]
  BY TypeParts DEF Typed, ChatsOK
<1>5. ASSUME NEW c \in Chats, NEW m \in Modes, Start(c, m)
      PROVE  /\ IsFiniteSet(messages')
             /\ OlderOf(messages') \subseteq SummaryOf(session')
             /\ \A d \in Active' : Quotes(d)'
  <2>1. /\ pc[c] = "new" /\ pc'[c] = "session" /\ \A d \in Chats \ {c} : pc'[d] = pc[d]
        /\ UNCHANGED <<session, messages, work>> /\ mode'[c] = m
    BY <1>4, <1>5 DEF Start, Goto, At, database
  <2>2. m = "go"
    BY <1>1, <2>1, ConstantsAssumption DEF Unhurried, Smooth
  <2>3. snap'[c] = [messages |-> messages, row |-> session]
    BY <1>4, <1>5, <2>2 DEF Start
  <2>4. Active' = {c}
    BY <1>1, <1>5, <2>1 DEF Start, Active
  <2>5. work'[c].row = None /\ work'[c].messages = {}
    BY <1>1, <2>1 DEF OwnRow, TurnInv, ChatInv, Staged, Bare, BeforeAsk
  <2>6. SeenRow(c)' = session /\ IsFiniteSet(work'[c].messages)
    BY <2>1, <2>2, <2>3, <2>5, FS_EmptySet DEF SeenRow, Go
  <2>7. Quotes(c)'
    BY <2>1, <2>3, <2>6 DEF Quotes, SummaryOf, Summarized, SharedSummary, AfterAsk
  <2> QED
    BY <1>3, <2>1, <2>4, <2>7
<1>6. ASSUME NEW c \in Chats, Proceed(c)
      PROVE  /\ IsFiniteSet(messages')
             /\ OlderOf(messages') \subseteq SummaryOf(session')
             /\ \A d \in Active' : Quotes(d)'
  <2>1. c \in Active /\ Active' \subseteq Active
    BY <1>6, ProceedRows
  <2>2. \A d \in Active : d = c
    BY <1>2, <2>1 DEF RaceInv
  <2>3. Go(c)
    BY <1>1, <1>4, <2>1 DEF Chosen, Smooth, Go, Active
  <2>4. \A d \in Chats : Holds(d) => d = c
    BY <1>3, <2>2 DEF LockInv, Active
  <2>5. /\ IsFiniteSet(messages')
        /\ OlderOf(messages') \subseteq SummaryOf(session')
        /\ Quotes(c)' \/ pc'[c] = "done"
    BY <1>1, <1>3, <1>6, <2>1, <2>3, <2>4, MapIdleNext, QuotesProceed
  <2> QED
    BY <2>1, <2>2, <2>5 DEF Active
<1>7. ASSUME UNCHANGED <<pc, mode, session, messages, snap, work, context>>
      PROVE  /\ IsFiniteSet(messages')
             /\ OlderOf(messages') \subseteq SummaryOf(session')
             /\ \A d \in Active' : Quotes(d)'
  <2>1. ASSUME NEW c \in Chats
        PROVE  /\ SeenRow(c)' = SeenRow(c) /\ SeenMessages(c)' = SeenMessages(c)
               /\ OlderOf(SeenMessages(c))' = OlderOf(SeenMessages(c))
               /\ SummaryOf(SeenRow(c))' = SummaryOf(SeenRow(c))
               /\ Recent(SeenMessages(c), Keep)' = Recent(SeenMessages(c), Keep)
    BY <1>7 DEF SeenRow, SeenMessages, Go, OlderOf, SummaryOf, Recent, IdsOf
  <2>2. Active' = Active
    BY <1>7 DEF Active
  <2>3. \A c \in Chats : Quotes(c)' = Quotes(c)
    BY <1>7, <2>1 DEF Quotes, SummaryOf, IdsOf
  <2> QED
    BY <1>3, <1>7, <2>2, <2>3 DEF Active
<1>8. ASSUME (\E c \in Chats : Runtime(c)) \/ RedisReturns \/ UNCHANGED vars
      PROVE  UNCHANGED <<pc, mode, session, messages, snap, work, context>>
  BY <1>8, RuntimeApart DEF RedisReturns, vars, database
<1> QED
  BY <1>1, <1>5, <1>6, <1>7, <1>8, FaultFree

\* A conversation with the Go planner that is held one message at a time and meets no
\* failure: what BuildContext hands to the planner leaves out, of all that the last turn
\* could see, at most the message that the new one has pushed out of the recent messages.
THEOREM OneForgotten == Spec => []AtMostOneForgotten
<1>1. Init => Quoting
  <2> SUFFICES ASSUME Init
               PROVE  Quoting
    OBVIOUS
  <2>1. messages = {} /\ Active = {}
    BY DEF Init, Active
  <2>2. OlderOf(messages) = {}
    BY <2>1 DEF OlderOf, Recent, IdsOf
  <2> QED
    BY <2>1, <2>2, FS_EmptySet DEF Quoting
<1>2. Additive /\ Typed /\ TurnInv /\ Quoting /\ [Next]_vars => Quoting'
  BY QuotingNext DEF Additive, Ordered
<1>3. Typed /\ TurnInv /\ Quoting => AtMostOneForgotten
  <2> SUFFICES ASSUME Typed, TurnInv, Quoting, NEW c \in Chats, At(c, "act"),
                      faults = 0, overlapped = {}, \A d \in Chats : mode[d] \in {None, "go"}
               PROVE  LET seen == SeenMessages(c)
                          reach == IdsOf(Recent(seen, Keep + Lookback + 1))
                          pushed == IdsOf(Recent(seen, Keep + 1) \ Recent(seen, Keep))
                      IN  reach \ (context[c].recent \cup context[c].summary) \subseteq pushed
    BY DEF AtMostOneForgotten
  <2>1. c \in Active /\ pc[c] \in AfterAsk /\ Go(c)
    BY DEF At, Active, AfterAsk, TurnInv, ChatInv, Staged
  <2>2. /\ Quotes(c) /\ IsFiniteSet(messages) /\ messages \subseteq Message
        /\ OlderOf(messages) \subseteq SummaryOf(session)
    BY <2>1, TypeParts DEF Quoting, Unhurried, Smooth, Typed, DatabaseOK
  <2>3. PICK u \in work[c].messages :
            work[c].messages = {u} /\ \A m \in messages : m.id < u.id
    BY <2>1, <2>2 DEF Quotes
  <2>4. SeenMessages(c) = messages \cup {u} /\ u \in Message
    BY <2>1, <2>2, <2>3, SeenAlone
  <2>5. /\ context[c].summary = SummaryOf(session)
        /\ context[c].recent = IdsOf(Recent(SeenMessages(c), Keep))
    BY <2>2 DEF Quotes, At
  <2> QED
    BY <2>2, <2>3, <2>4, <2>5, Pushed
<1>4. Init => Additive
  BY AdditiveInit
<1>5. Additive /\ [Next]_vars => Additive'
  BY AdditiveNext
<1> QED
  BY <1>1, <1>2, <1>3, <1>4, <1>5, AlwaysTurns, PTL DEF Spec
-----------------------------------------------------------------------------
(* Who waits for whom.                                                     *)

\* Until its turn is planned and answered, a chat has written no row but that of a session
\* it opens.
Opening == BeforeAsk \cup AfterAsk

\* The row of the session is locked by one chat at most, in its transaction, and nobody has
\* committed the row that a chat inserts.
Held ==
    \A c \in Chats : work[c].row # None =>
        /\ Go(c) /\ c \in Active /\ RowFree(c)
        /\ pc[c] \in Opening => session = None /\ work[c].row = NewRow

\* A chat of the Go planner ends with its transaction, and does not come back to its opening.
LEMMA EndsWithIt ==
    ASSUME Typed, NEW c \in Chats, Go(c), Proceed(c), ~ Refuse(c), ~ Commit(c)
    PROVE  c \in Active' /\ (pc'[c] \in Opening => pc[c] \in Opening)
<1> USE DEF Opening, BeforeAsk, AfterAsk
<1>1. pc \in [Chats -> PCs] /\ pc' = [pc EXCEPT ![c] = pc'[c]]
  <2>1. pc \in [Chats -> PCs]
    BY TypeParts DEF Typed, ChatsOK
  <2>2. \E q : Goto(c, q)
    BY DEF Proceed, FindSession, CreateSession, CreateCollides, Ask, LogReceived, ReadRows,
       LookUp, AfterLookUp, AskModel, GoAnswers, GoProposes, GoFails, Call, Receive, GiveUp,
       Answer, Remember, Share, ListOlder, Summarize, LogReturned, Reply, Refuse
  <2> QED
    BY <2>1, <2>2 DEF Goto
<1>2. CASE FindSession(c) \/ CreateSession(c) \/ Ask(c) \/ LogReceived(c) \/ ReadRows(c)
  BY <1>1, <1>2 DEF FindSession, CreateSession, Ask, LogReceived, ReadRows, Goto, At, Active
<1>3. CASE AskModel(c) \/ GoAnswers(c) \/ GoProposes(c) \/ Call(c) \/ Receive(c)
  BY <1>1, <1>3 DEF AskModel, GoAnswers, GoProposes, Call, Receive, Planning, Goto, At, Active
<1>4. CASE LookUp(c) \/ Answer(c) \/ Remember(c) \/ Share(c) \/ ListOlder(c)
  BY <1>1, <1>4 DEF LookUp, AfterLookUp, Answer, Remember, Share, Shared, ListOlder, Goto, At,
                    Active
<1>5. CASE Summarize(c) \/ LogReturned(c) \/ Reply(c)
  BY <1>1, <1>5 DEF Summarize, LogReturned, Reply, Goto, Active
<1> QED
  BY <1>2, <1>3, <1>4, <1>5 DEF Proceed, CreateCollides, GoFails, GiveUp

LEMMA HeldNext ==
    ASSUME Typed, Held, [Next]_vars
    PROVE  Held'
<1>1. /\ pc \in [Chats -> PCs] /\ work \in [Chats -> Work]
      /\ mode \in [Chats -> Modes \cup {None}]
  BY TypeParts DEF Typed, ChatsOK
<1>2. ASSUME UNCHANGED <<session, work, mode>>, \A c \in Active : c \in Active',
             \A c \in Active : pc'[c] \in Opening => pc[c] \in Opening
      PROVE  Held'
  BY <1>2 DEF Held, Go, RowFree
<1>3. ASSUME NEW c \in Chats, work'[c].row = None, mode' = mode,
             \A d \in Chats \ {c} : work'[d] = work[d] /\ pc'[d] = pc[d],
             session' = session \/ RowFree(c)
      PROVE  Held'
  BY <1>3 DEF Held, Go, Active, RowFree
<1>4. ASSUME NEW c \in Chats, NEW m \in Modes, Start(c, m)
      PROVE  Held'
  <2>1. work[c].row = None /\ work' = work /\ session' = session
    BY <1>4 DEF Start, At, Held, Active, database
  <2>2. \A d \in Chats \ {c} : pc'[d] = pc[d] /\ Go(d)' = Go(d)
    BY <1>1, <1>4 DEF Start, Goto, Go
  <2> QED
    BY <2>1, <2>2 DEF Held, Active, RowFree
<1>5. ASSUME NEW c \in Chats, Proceed(c)
      PROVE  Held'
  <2>1. /\ mode' = mode
        /\ \A d \in Chats \ {c} : work'[d] = work[d] /\ pc'[d] = pc[d]
    BY <1>5, ProceedApart, ProceedRows
  <2>2. CASE Refuse(c) \/ Commit(c)
    <3>1. work'[c] = NoWork
      BY <1>1, <2>2 DEF Refuse, Commit
    <3>2. session' = session \/ RowFree(c)
      BY <2>2 DEF Refuse, Commit, NewestRow, Held, database
    <3> QED
      BY <1>3, <2>1, <3>1, <3>2 DEF NoWork
  <2>3. CASE (CreateSession(c) \/ Remember(c) \/ Summarize(c)) /\ ~ Refuse(c) /\ ~ Commit(c)
    <3>1. \A d \in Chats \ {c} : work[d].row = None
      BY <2>3 DEF CreateSession, Remember, Summarize, RowFree
    <3>2. PICK r \in Row : WriteRow(c, r)
      BY <2>3, Nothing, RowWritten
    <3>3. ~ Go(c) => work'[c].row = None
      BY <3>2, Written DEF Held
    <3>4. Go(c) => Go(c)' /\ c \in Active'
      BY <1>5, <2>1, <2>3, EndsWithIt DEF Go
    <3>5. ASSUME Go(c), pc'[c] \in Opening
          PROVE  session' = None /\ work'[c].row = NewRow
      <4>1. CreateSession(c)
        BY <1>1, <2>3, <3>5 DEF Remember, Summarize, Goto, Opening, BeforeAsk, AfterAsk
      <4> QED
        BY <3>5, <4>1, Nothing, RowWritten, Written DEF CreateSession
    <3> QED
      BY <2>1, <3>1, <3>3, <3>4, <3>5 DEF Held, RowFree
  <2>4. CASE work'[c].row = work[c].row /\ session' = session /\ ~ Refuse(c) /\ ~ Commit(c)
    <3>1. Go(c) => Go(c)' /\ c \in Active' /\ (pc'[c] \in Opening => pc[c] \in Opening)
      BY <1>5, <2>1, <2>4, EndsWithIt DEF Go
    <3> QED
      BY <2>1, <2>4, <3>1 DEF Held, Go, Active, RowFree
  <2> QED
    BY <1>5, <2>2, <2>3, <2>4, ProceedRows
<1>6. ASSUME NEW c \in Chats, Fails(c)
      PROVE  Held'
  <2>1. CASE LookUpFails(c) \/ ShareFails(c) \/ ErrorIgnored(c)
    <3>1. UNCHANGED <<session, work, mode>> /\ pc'[c] \notin {"new", "done"}
          /\ (\A d \in Chats \ {c} : pc'[d] = pc[d])
          /\ (pc'[c] \in Opening => pc[c] \in Opening)
      BY <1>1, <2>1 DEF LookUpFails, AfterLookUp, ShareFails, Shared, ErrorIgnored, Skipped,
                        Goto, At, Opening, BeforeAsk, AfterAsk, database
    <3> QED
      BY <1>2, <3>1 DEF Active
  <2>2. CASE StatementFails(c) \/ CommitFails(c)
    <3>1. work'[c] = NoWork /\ mode' = mode /\ session' = session
          /\ \A d \in Chats \ {c} : work'[d] = work[d] /\ pc'[d] = pc[d]
      BY <1>1, <2>2 DEF StatementFails, Refuse, CommitFails, Goto, database
    <3> QED
      BY <1>3, <3>1 DEF NoWork
  <2> QED
    BY <1>6, <2>1, <2>2 DEF Fails
<1>7. ASSUME Crash
      PROVE  Held'
  BY <1>7 DEF Crash, Held, NoWork
<1>8. ASSUME (\E c \in Chats : Runtime(c)) \/ RedisReturns \/ Finished \/ UNCHANGED vars
      PROVE  UNCHANGED <<session, pc, mode, work>>
  BY <1>8, RuntimeApart DEF RedisReturns, Finished, vars, database
<1>9. ASSUME UNCHANGED <<session, pc, mode, work>>
      PROVE  Held'
  BY <1>2, <1>9 DEF Active
<1> QED
  BY <1>4, <1>5, <1>6, <1>7, <1>8, <1>9 DEF Next

LEMMA HeldShortly == Held => LocksAreShort
BY DEF Held, LocksAreShort, Opening, BeforeAsk, AfterAsk

\* However many chats of a session there are and whatever fails, one of them at most has the
\* row of the session locked, and over the calls of the planner's models only the row of a
\* session that nobody has committed.
THEOREM LocksShort == Spec => []LocksAreShort
<1>1. Init => Held
  BY DEF Init, Held, NoWork
<1>2. Typed /\ Held /\ [Next]_vars => Held'
  BY HeldNext
<1> QED
  BY <1>1, <1>2, AlwaysTurns, HeldShortly, PTL DEF Spec

\* The next statement of chat c need not wait for the row of the session.  The call of a
\* model or of the runtime ends by its timeout at the latest (GoFails, GiveUp).
MayGo(c) == pc[c] \in {"create", "remember", "summarize"} => RowFree(c)

\* As long as chats are in flight, one of them may go on.
SomeMayGo == Active # {} => \E c \in Active : MayGo(c)

\* The chats of a session never bring each other to a standstill (http.go withTx,
\* repository_session.go).
THEOREM ChatsGoOn == Spec => []SomeMayGo
<1>1. LocksAreShort => SomeMayGo
  BY DEF LocksAreShort, SomeMayGo, MayGo, RowFree, Active
<1> QED
  BY <1>1, LocksShort, PTL

\* How many statements and calls chat c has left at most.
StepsLeft(c) ==
    CASE pc[c] = "new" -> 21
      [] pc[c] = "session" -> 20
      [] pc[c] = "create" -> 19
      [] pc[c] = "ask" -> 18
      [] pc[c] = "received" -> 17
      [] pc[c] = "context" -> 16
      [] pc[c] = "lookup" -> 15
      [] pc[c] \in {"act", "call"} -> 14
      [] pc[c] \in {"model", "wait"} -> 13
      [] pc[c] = "answer" -> 12
      [] pc[c] = "recall" -> 11
      [] pc[c] = "merge" -> 10
      [] pc[c] = "remember" -> 9
      [] pc[c] = "share" -> 8
      [] pc[c] = "list" -> 7
      [] pc[c] = "summarize" -> 6
      [] pc[c] = "shareSummary" -> 5
      [] pc[c] = "returned" -> 4
      [] pc[c] = "reply" -> 3
      [] pc[c] = "commit" -> 2
      [] pc[c] = "done" -> 1

\* A chat only comes nearer to its end, whatever the others do and whatever fails.
Nearing ==
    [][\A c \in Chats : pc'[c] # pc[c] => StepsLeft(c)' < StepsLeft(c)]_vars

LEMMA ProceedNears ==
    ASSUME Typed, NEW c \in Chats, Proceed(c)
    PROVE  StepsLeft(c)' < StepsLeft(c)
<1> USE DEF Goto, At, StepsLeft
<1>1. pc \in [Chats -> PCs]
  BY TypeParts DEF Typed, ChatsOK
<1>2. CASE FindSession(c) \/ CreateSession(c) \/ Ask(c) \/ LogReceived(c)
  BY <1>1, <1>2 DEF FindSession, CreateSession, Ask, LogReceived
<1>3. CASE ReadRows(c) \/ LookUp(c)
  BY <1>1, <1>3 DEF ReadRows, LookUp, AfterLookUp
<1>4. CASE AskModel(c) \/ GoAnswers(c) \/ GoProposes(c) \/ Call(c) \/ Receive(c) \/ Answer(c)
  BY <1>1, <1>4 DEF AskModel, GoAnswers, Planning, GoProposes, Call, Receive, Answer
<1>5. CASE CreateCollides(c) \/ GoFails(c) \/ GiveUp(c)
  BY <1>1, <1>5 DEF CreateCollides, GoFails, GiveUp, Refuse, Planning
<1>6. CASE Remember(c) \/ Share(c) \/ ListOlder(c) \/ Summarize(c)
  BY <1>1, <1>6 DEF Remember, Share, Shared, ListOlder, Summarize
<1>7. CASE LogReturned(c) \/ Reply(c) \/ Commit(c)
  BY <1>1, <1>7 DEF LogReturned, Reply, Commit
<1> QED
  BY <1>2, <1>3, <1>4, <1>5, <1>6, <1>7 DEF Proceed

LEMMA FailsNears ==
    ASSUME Typed, NEW c \in Chats, Fails(c)
    PROVE  /\ StepsLeft(c)' < StepsLeft(c)
           /\ \A d \in Chats \ {c} : pc'[d] = pc[d]
<1> USE DEF Goto, At, StepsLeft
<1>1. pc \in [Chats -> PCs]
  BY TypeParts DEF Typed, ChatsOK
<1>2. CASE LookUpFails(c) \/ ShareFails(c)
  BY <1>1, <1>2 DEF LookUpFails, AfterLookUp, ShareFails, Shared
<1>3. CASE StatementFails(c) \/ CommitFails(c)
  BY <1>1, <1>3 DEF StatementFails, Refuse, CommitFails
<1>4. CASE ErrorIgnored(c)
  BY <1>1, <1>4 DEF ErrorIgnored, Skipped
<1> QED
  BY <1>2, <1>3, <1>4 DEF Fails

\* Every chat goes through its statements in one direction, through twenty of them at most:
\* nothing is tried again, neither after an error of the cache nor after one of the runtime
\* (agent.go HandleChat, langgraph_agent.go).
THEOREM ChatsEnd == Spec => Nearing
<1>1. ASSUME Typed, [Next]_vars, NEW d \in Chats, pc'[d] # pc[d]
      PROVE  StepsLeft(d)' < StepsLeft(d)
  <2>1. pc \in [Chats -> PCs]
    BY <1>1, TypeParts DEF Typed, ChatsOK
  <2>2. ASSUME NEW c \in Chats, NEW m \in Modes, Start(c, m)
        PROVE  StepsLeft(d)' < StepsLeft(d)
    BY <1>1, <2>1, <2>2 DEF Start, At, Goto, StepsLeft
  <2>3. ASSUME NEW c \in Chats, Proceed(c)
        PROVE  StepsLeft(d)' < StepsLeft(d)
    BY <1>1, <2>3, ProceedRows, ProceedNears
  <2>4. ASSUME NEW c \in Chats, Fails(c)
        PROVE  StepsLeft(d)' < StepsLeft(d)
    BY <1>1, <2>4, FailsNears
  <2>5. CASE Crash
    BY <1>1, <2>1, <2>5 DEF Crash, Active, PCs, StepsLeft
  <2>6. CASE (\E c \in Chats : Runtime(c)) \/ RedisReturns \/ Finished \/ UNCHANGED vars
    BY <1>1, <2>6, RuntimeApart DEF RedisReturns, Finished, vars
  <2> QED
    BY <1>1, <2>2, <2>3, <2>4, <2>5, <2>6 DEF Next
<1>2. Typed /\ [Next]_vars =>
        [\A c \in Chats : pc'[c] # pc[c] => StepsLeft(c)' < StepsLeft(c)]_vars
  BY <1>1
<1> QED
  BY <1>2, AlwaysTurns, PTL DEF Spec, Nearing
=============================================================================
