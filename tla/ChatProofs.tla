----------------------------- MODULE ChatProofs -----------------------------
(***************************************************************************)
(* The safety of module Chat for every value of its constants.             *)
(***************************************************************************)
EXTENDS Chat, TLAPS

-----------------------------------------------------------------------------
(* Types.                                                                  *)

PCs == {"new", "session", "create", "ask", "received", "context", "lookup", "act", "model",
        "call", "wait", "answer", "recall", "merge", "remember", "share", "list", "summarize",
        "shareSummary", "returned", "reply", "commit", "done"}
Snap == [messages : SUBSET Message, row : {None} \cup Row]
Work == [messages : SUBSET Message, row : {None} \cup Row, events : SUBSET Event,
         proposal : SUBSET Chats]
Known == [recent : SUBSET Nat, summary : SUBSET Nat, memory : Memory]

StoreOK(store) ==
    /\ DOMAIN store = Keys
    /\ store["memory"] \in {Miss} \cup Memory
    /\ store["summary"] \in {Miss} \cup SUBSET Nat

CacheOK == StoreOK(redis) /\ StoreOK(local) /\ disabled \in BOOLEAN

DatabaseOK ==
    /\ session \in {None} \cup Row
    /\ messages \subseteq Message
    /\ nextId \in Nat
    /\ events \subseteq Event
    /\ proposals \subseteq Chats

ChatsOK ==
    /\ mode \in [Chats -> Modes \cup {None}]
    /\ snap \in [Chats -> Snap]
    /\ work \in [Chats -> Work]
    /\ context \in [Chats -> Known]
    /\ pc \in [Chats -> PCs]
    /\ runtime \in [Chats -> {"idle", "running", "proposed", "answered", "failed"}]

HistoryOK ==
    /\ faults \in 0..MaxFaults
    /\ told \in [Chats -> {"nothing", "answer", "error"}]
    /\ overlapped \subseteq Chats
    /\ lost \subseteq Chats

LEMMA TypeParts ==
    /\ TypeOK <=> DatabaseOK /\ CacheOK /\ ChatsOK /\ HistoryOK
    /\ TypeOK' <=> DatabaseOK' /\ CacheOK' /\ ChatsOK' /\ HistoryOK'
BY DEF TypeOK, DatabaseOK, CacheOK, ChatsOK, HistoryOK, StoreOK, PCs, Snap, Work, Known

\* The steps between the start of a chat and its row: a chat past them sees a row.
Rowless == {"new", "session", "create", "done"}

RowsSeen ==
    \A c \in Chats :
        /\ pc[c] \notin Rowless => SeenRow(c) # None
        /\ snap[c].row # None => session # None

Typed == TypeOK /\ RowsSeen

LEMMA Nothing ==
    /\ NoMemory \in Memory
    /\ NewRow \in Row
    /\ NoWork \in Work
    /\ NoSnapshot \in Snap
    /\ NoContext \in Known
<1>1. NoMemory \in Memory
  BY DEF NoMemory, Memory
<1>2. NewRow \in Row
  BY <1>1 DEF NewRow, Row
<1>3. NoWork \in Work
  BY DEF NoWork, Work
<1>4. NoSnapshot \in Snap
  BY DEF NoSnapshot, Snap
<1>5. NoContext \in Known
  BY <1>1 DEF NoContext, Known
<1> QED
  BY <1>1, <1>2, <1>3, <1>4, <1>5


LEMMA SeenTyped ==
    ASSUME TypeOK, NEW c \in Chats
    PROVE  /\ SeenRow(c) \in {None} \cup Row
           /\ NewestRow(c) \in {None} \cup Row
           /\ SeenMessages(c) \subseteq Message
BY TypeParts DEF DatabaseOK, ChatsOK, Snap, Work, SeenRow, NewestRow, SeenMessages, Go

LEMMA IdsTyped ==
    ASSUME NEW ms, ms \subseteq Message, NEW n, NEW k
    PROVE  /\ Recent(ms, n) \subseteq ms
           /\ IdsOf(Recent(ms, n)) \subseteq Nat
           /\ IdsOf(Recent(ms, n) \ Recent(Recent(ms, n), k)) \subseteq Nat
BY DEF Recent, IdsOf, Message

LEMMA MergeTyped ==
    ASSUME NEW m \in Memory, NEW c \in Chats
    PROVE  Merge(m, c) \in Memory
BY DEF Merge, Memory

-----------------------------------------------------------------------------
(* What the operations keep.                                               *)

LEMMA FaultTyped ==
    ASSUME faults \in 0..MaxFaults, Fault
    PROVE  faults' \in 0..MaxFaults
<1>1. MaxFaults \in Nat
  BY ConstantsAssumption
<1> QED
  BY <1>1 DEF Fault

LEMMA AgedTyped ==
    ASSUME CacheOK, Expire, disabled' \in BOOLEAN
    PROVE  CacheOK'
<1>1. PICK gone \in SUBSET Keys : redis' = [k \in Keys |-> IF k \in gone THEN Miss ELSE redis[k]]
  BY DEF Expire, Aged
<1>2. PICK stale \in SUBSET Keys : local' = [k \in Keys |-> IF k \in stale THEN Miss ELSE local[k]]
  BY DEF Expire, Aged
<1>3. "memory" \in Keys /\ "summary" \in Keys
  BY ConstantsAssumption
<1> QED
  BY <1>1, <1>2, <1>3 DEF CacheOK, StoreOK

LEMMA SetTyped ==
    ASSUME CacheOK, NEW k \in Keys, NEW v,
           k = "memory" => v \in Memory, k = "summary" => v \in SUBSET Nat,
           Set(k, v) \/ SetFails(k, v)
    PROVE  CacheOK'
<1>1. Keys = {"memory", "summary"}
  BY ConstantsAssumption
<1>2. ASSUME NEW s, StoreOK(s)
      PROVE  StoreOK([s EXCEPT ![k] = v])
  BY <1>1, <1>2 DEF StoreOK
<1> QED
  BY <1>2 DEF CacheOK, Set, SetFails

LEMMA OverrideTyped ==
    ASSUME ChatsOK, NEW c \in Chats,
           NEW s \in {Miss} \cup SUBSET Nat, NEW m \in {Miss} \cup Memory,
           Override(c, s, m)
    PROVE  context' \in [Chats -> Known]
<1> DEFINE k == [context[c] EXCEPT !.summary = IF s \in {Miss, {}} THEN @ ELSE s]
           l == [k EXCEPT !.memory = IF m = Miss THEN @ ELSE m]
<1>1. context[c] \in Known
  BY DEF ChatsOK
<1>2. k \in Known
  BY <1>1 DEF Known
<1>3. l \in Known
  BY <1>2 DEF Known
<1>4. context' = [context EXCEPT ![c] = l]
  BY <1>1 DEF Override, ChatsOK, Known
<1> QED
  BY <1>3, <1>4 DEF ChatsOK

LEMMA AddTyped ==
    ASSUME DatabaseOK, ChatsOK, NEW c \in Chats, NEW r \in {"user", "assistant"}, AddMessage(c, r)
    PROVE  /\ nextId' \in Nat
           /\ messages' \subseteq Message
           /\ work' \in [Chats -> Work]
           /\ \A d \in Chats : work'[d].row = work[d].row
<1> DEFINE m == [id |-> nextId, chat |-> c, role |-> r]
           w == [work[c] EXCEPT !.messages = @ \cup {m}]
<1>1. m \in Message
  BY DEF Message, DatabaseOK
<1>2. work[c] \in Work
  BY DEF ChatsOK
<1>3. w \in Work /\ w.row = work[c].row
  BY <1>1, <1>2 DEF Work
<1>4. CASE Go(c)
  <2>1. work' = [work EXCEPT ![c] = w] /\ messages' = messages
    BY <1>4, <1>2 DEF AddMessage, ChatsOK, Work
  <2> QED
    BY <2>1, <1>3 DEF AddMessage, ChatsOK, DatabaseOK
<1>5. CASE ~ Go(c)
  BY <1>1, <1>5 DEF AddMessage, ChatsOK, DatabaseOK
<1> QED
  BY <1>4, <1>5

LEMMA LogTyped ==
    ASSUME DatabaseOK, ChatsOK, NEW c \in Chats,
           NEW k \in {"chat_received", "response_returned"}, LogEvent(c, k)
    PROVE  /\ events' \subseteq Event
           /\ work' \in [Chats -> Work]
           /\ \A d \in Chats : work'[d].row = work[d].row
<1> DEFINE w == [work[c] EXCEPT !.events = @ \cup {<<k, c>>}]
<1>1. <<k, c>> \in Event
  BY DEF Event
<1>2. work[c] \in Work
  BY DEF ChatsOK
<1>3. w \in Work /\ w.row = work[c].row
  BY <1>1, <1>2 DEF Work
<1>4. CASE Go(c)
  <2>1. work' = [work EXCEPT ![c] = w] /\ events' = events
    BY <1>4, <1>2 DEF LogEvent, ChatsOK, Work
  <2> QED
    BY <2>1, <1>3 DEF ChatsOK, DatabaseOK
<1>5. CASE ~ Go(c)
  BY <1>1, <1>5 DEF LogEvent, ChatsOK, DatabaseOK
<1> QED
  BY <1>4, <1>5

LEMMA WriteTyped ==
    ASSUME DatabaseOK, ChatsOK, NEW c \in Chats, NEW r \in Row, WriteRow(c, r)
    PROVE  /\ session' \in {None} \cup Row
           /\ work' \in [Chats -> Work]
           /\ session # None => session' # None
           /\ \A d \in Chats : work[d].row # None => work'[d].row # None
           /\ IF Go(c) THEN work'[c].row # None ELSE session' # None
<1> DEFINE w == [work[c] EXCEPT !.row = r]
<1>1. r # None
  BY ConstantsAssumption
<1>2. work[c] \in Work
  BY DEF ChatsOK
<1>3. w \in Work /\ w.row = r
  BY <1>2 DEF Work
<1>4. CASE Go(c)
  <2>1. work' = [work EXCEPT ![c] = w] /\ session' = session
    BY <1>4, <1>2 DEF WriteRow, ChatsOK, Work
  <2> QED
    BY <1>1, <1>4, <2>1, <1>3 DEF ChatsOK, DatabaseOK
<1>5. CASE ~ Go(c)
  BY <1>1, <1>5 DEF WriteRow, ChatsOK, DatabaseOK
<1> QED
  BY <1>4, <1>5

-----------------------------------------------------------------------------
(* Each step keeps the types.                                              *)

\* A step of chat c that moves on within its transaction.
LEMMA Kept ==
    ASSUME Typed, NEW c \in Chats, NEW p \in PCs,
           DatabaseOK', CacheOK', HistoryOK',
           pc' = [pc EXCEPT ![c] = p], mode' = mode, snap' = snap,
           work' \in [Chats -> Work], context' \in [Chats -> Known],
           runtime' \in [Chats -> {"idle", "running", "proposed", "answered", "failed"}],
           session # None => session' # None,
           \A d \in Chats : work[d].row # None => work'[d].row # None,
           p \in Rowless \/ pc[c] \notin Rowless \/ SeenRow(c)' # None
    PROVE  Typed'
<1>1. ChatsOK
  BY TypeParts DEF Typed
<1>2. ChatsOK'
  BY <1>1 DEF ChatsOK
<1>3. TypeOK'
  BY <1>2, TypeParts
<1>4. ASSUME NEW d \in Chats, pc'[d] \notin Rowless
      PROVE  SeenRow(d)' # None
  <2>1. CASE d = c /\ pc[c] \in Rowless
    BY <2>1, <1>1, <1>4 DEF ChatsOK
  <2>2. CASE pc[d] \notin Rowless
    BY <2>2, <1>1 DEF Typed, RowsSeen, SeenRow, Go, ChatsOK
  <2> QED
    BY <2>1, <2>2, <1>1, <1>4 DEF ChatsOK
<1>5. \A d \in Chats : snap'[d].row # None => session' # None
  BY DEF Typed, RowsSeen
<1> QED
  BY <1>3, <1>4, <1>5 DEF Typed, RowsSeen

\* A step that ends chat c and leaves the rows of the others.
LEMMA Ended ==
    ASSUME Typed, NEW c \in Chats,
           DatabaseOK', CacheOK', HistoryOK',
           pc' = [pc EXCEPT ![c] = "done"], mode' = mode,
           snap' = [snap EXCEPT ![c] = NoSnapshot],
           work' = [work EXCEPT ![c] = NoWork],
           context' \in [Chats -> Known],
           runtime' \in [Chats -> {"idle", "running", "proposed", "answered", "failed"}],
           session # None => session' # None
    PROVE  Typed'
<1>1. ChatsOK
  BY TypeParts DEF Typed
<1>2. ChatsOK'
  BY <1>1, Nothing DEF ChatsOK, PCs
<1>3. TypeOK'
  BY <1>2, TypeParts
<1>4. ASSUME NEW d \in Chats, pc'[d] \notin Rowless
      PROVE  SeenRow(d)' # None
  <2>1. d # c /\ pc[d] \notin Rowless
    BY <1>1, <1>4 DEF ChatsOK, Rowless
  <2> QED
    BY <2>1, <1>1 DEF Typed, RowsSeen, SeenRow, Go, ChatsOK
<1>5. ASSUME NEW d \in Chats, snap'[d].row # None
      PROVE  session' # None
  BY <1>1, <1>5 DEF Typed, RowsSeen, ChatsOK, NoSnapshot
<1> QED
  BY <1>3, <1>4, <1>5 DEF Typed, RowsSeen

LEMMA RefuseTyped ==
    ASSUME Typed, NEW c \in Chats, Refuse(c), faults' \in 0..MaxFaults,
           runtime' = runtime
    PROVE  Typed'
<1>1. DatabaseOK /\ CacheOK /\ ChatsOK /\ HistoryOK
  BY TypeParts DEF Typed
<1>2. DatabaseOK' /\ CacheOK'
  BY <1>1 DEF Refuse, database, cacheVars, DatabaseOK, CacheOK, StoreOK
<1>3. HistoryOK'
  BY <1>1 DEF Refuse, HistoryOK
<1>4. context' \in [Chats -> Known]
  BY <1>1, Nothing DEF Refuse, ChatsOK
<1> QED
  BY <1>1, <1>2, <1>3, <1>4, Ended DEF Refuse, Goto, database, ChatsOK

\* The steps that leave the database and the cache alone and only move chat c on.
LEMMA MovedTyped ==
    ASSUME Typed, NEW c \in Chats, NEW p \in PCs,
           p \in Rowless \/ pc[c] \notin Rowless \/ SeenRow(c) # None,
           pc' = [pc EXCEPT ![c] = p],
           context' \in [Chats -> Known],
           runtime' \in [Chats -> {"idle", "running", "proposed", "answered", "failed"}],
           HistoryOK',
           UNCHANGED <<database, nextId, cacheVars, mode, snap, work>>
    PROVE  Typed'
<1>1. DatabaseOK /\ CacheOK /\ ChatsOK
  BY TypeParts DEF Typed
<1>2. DatabaseOK' /\ CacheOK'
  BY <1>1 DEF database, cacheVars, DatabaseOK, CacheOK, StoreOK
<1>3. SeenRow(c)' = SeenRow(c)
  BY DEF SeenRow, Go, database
<1> QED
  BY <1>1, <1>2, <1>3, Kept DEF database, ChatsOK

LEMMA StartTyped ==
    ASSUME Typed, NEW c \in Chats, NEW m \in Modes, Start(c, m)
    PROVE  Typed'
<1>1. DatabaseOK /\ CacheOK /\ ChatsOK /\ HistoryOK
  BY TypeParts DEF Typed
<1>2. DatabaseOK' /\ CacheOK'
  BY <1>1 DEF Start, database, cacheVars, DatabaseOK, CacheOK, StoreOK
<1>3. HistoryOK'
  BY <1>1 DEF Start, HistoryOK, Active
<1>4. ChatsOK'
  <2>1. [messages |-> messages, row |-> session] \in Snap
    BY <1>1 DEF DatabaseOK, Snap
  <2> QED
    BY <1>1, <2>1 DEF Start, ChatsOK, Goto, PCs
<1>5. ASSUME NEW d \in Chats, pc'[d] \notin Rowless
      PROVE  SeenRow(d)' # None
  <2>1. d # c /\ pc[d] \notin Rowless
    BY <1>1, <1>5 DEF ChatsOK, Rowless, Start, Goto
  <2> QED
    BY <2>1, <1>1 DEF Typed, RowsSeen, SeenRow, Go, ChatsOK, Start, database
<1>6. ASSUME NEW d \in Chats, snap'[d].row # None
      PROVE  session' # None
  BY <1>1, <1>6 DEF Typed, RowsSeen, ChatsOK, Start, database
<1> QED
  BY <1>2, <1>3, <1>4, <1>5, <1>6, TypeParts DEF Typed, RowsSeen

LEMMA FindSessionTyped ==
    ASSUME Typed, NEW c \in Chats, FindSession(c)
    PROVE  Typed'
<1>1. ChatsOK /\ HistoryOK
  BY TypeParts DEF Typed
<1>2. HistoryOK'
  BY <1>1 DEF FindSession, history, HistoryOK
<1> QED
  BY <1>1, <1>2, MovedTyped DEF FindSession, Goto, PCs, Rowless, ChatsOK

LEMMA ReadRowsTyped ==
    ASSUME Typed, NEW c \in Chats, ReadRows(c)
    PROVE  Typed'
<1>1. DatabaseOK /\ ChatsOK /\ HistoryOK /\ TypeOK
  BY TypeParts DEF Typed
<1>2. HistoryOK'
  BY <1>1 DEF ReadRows, history, HistoryOK
<1>3. pc[c] \notin Rowless
  BY DEF ReadRows, Rowless
<1>4. SeenRow(c) \in Row
  BY <1>1, <1>3, SeenTyped DEF Typed, RowsSeen
<1>5. IdsOf(Recent(SeenMessages(c), Keep)) \subseteq Nat
  BY <1>1, SeenTyped, IdsTyped
<1>6. [recent |-> IdsOf(Recent(SeenMessages(c), Keep)),
       summary |-> SeenRow(c).summary, memory |-> SeenRow(c).memory] \in Known
  BY <1>4, <1>5 DEF Known, Row
<1>7. context' \in [Chats -> Known]
  BY <1>1, <1>6 DEF ReadRows, ChatsOK
<1> QED
  BY <1>1, <1>2, <1>3, <1>7, MovedTyped DEF ReadRows, Goto, PCs, ChatsOK, At

LEMMA LookUpTyped ==
    ASSUME Typed, NEW c \in Chats, LookUp(c) \/ LookUpFails(c)
    PROVE  Typed'
<1>1. DatabaseOK /\ CacheOK /\ ChatsOK /\ HistoryOK
  BY TypeParts DEF Typed
<1>2. CacheOK'
  BY <1>1, AgedTyped DEF LookUp, LookUpFails, CacheOK
<1>3. DatabaseOK'
  BY <1>1 DEF LookUp, LookUpFails, database, DatabaseOK
<1>4. HistoryOK'
  BY <1>1, FaultTyped DEF LookUp, LookUpFails, history, HistoryOK
<1>5. context' \in [Chats -> Known]
  <2>1. /\ redis'["memory"] \in {Miss} \cup Memory /\ local'["memory"] \in {Miss} \cup Memory
        /\ redis'["summary"] \in {Miss} \cup SUBSET Nat
        /\ local'["summary"] \in {Miss} \cup SUBSET Nat
    BY <1>2 DEF CacheOK, StoreOK
  <2>2. PICK s \in {Miss} \cup SUBSET Nat, m \in {Miss} \cup Memory : Override(c, s, m)
    BY <2>1 DEF LookUp, LookUpFails, Cached, Either
  <2> QED
    BY <1>1, <2>2, OverrideTyped
<1>6. PICK p \in PCs : pc' = [pc EXCEPT ![c] = p]
  BY DEF LookUp, LookUpFails, AfterLookUp, Goto, PCs
<1>7. pc[c] \notin Rowless
  BY DEF LookUp, LookUpFails, Rowless
<1>8. UNCHANGED <<database, nextId, mode, snap, work, runtime>>
  BY DEF LookUp, LookUpFails
<1> QED
  BY <1>1, <1>2, <1>3, <1>4, <1>5, <1>6, <1>7, <1>8, Kept DEF database, ChatsOK

LEMMA ShareTyped ==
    ASSUME Typed, NEW c \in Chats, Share(c) \/ ShareFails(c)
    PROVE  Typed'
<1>1. DatabaseOK /\ CacheOK /\ ChatsOK /\ HistoryOK
  BY TypeParts DEF Typed
<1>2. DatabaseOK'
  BY <1>1 DEF Share, ShareFails, database, DatabaseOK
<1>3. HistoryOK'
  BY <1>1, FaultTyped DEF Share, ShareFails, history, HistoryOK
<1>4. context[c] \in Known
  BY <1>1 DEF ChatsOK
<1>5. CacheOK'
  <2>1. "memory" \in Keys /\ "summary" \in Keys
    BY ConstantsAssumption
  <2>2. CASE At(c, "share")
    BY <1>1, <1>4, <2>1, <2>2, SetTyped DEF Share, ShareFails, Shared, Known
  <2>3. CASE ~ At(c, "share")
    BY <1>1, <1>4, <2>1, <2>3, SetTyped DEF Share, ShareFails, Shared, Known
  <2> QED
    BY <2>2, <2>3
<1>6. context' \in [Chats -> Known]
  BY <1>1, Nothing DEF Share, ShareFails, ChatsOK
<1>7. PICK p \in PCs : pc' = [pc EXCEPT ![c] = p]
  BY DEF Share, ShareFails, Shared, Goto, PCs
<1>8. pc[c] \notin Rowless
  BY DEF Share, ShareFails, Rowless
<1>9. UNCHANGED <<database, nextId, mode, snap, work, runtime>>
  BY DEF Share, ShareFails
<1> QED
  BY <1>1, <1>2, <1>3, <1>5, <1>6, <1>7, <1>8, <1>9, Kept DEF database, ChatsOK

\* The steps that write the row of the session.
LEMMA RowTyped ==
    ASSUME Typed, NEW c \in Chats, NEW r \in Row, WriteRow(c, r), NEW p \in PCs,
           pc' = [pc EXCEPT ![c] = p],
           context' \in [Chats -> Known],
           UNCHANGED <<messages, nextId, events, proposals, cacheVars, mode, snap, runtime,
                       faults, history>>
    PROVE  Typed'
<1>1. DatabaseOK /\ CacheOK /\ ChatsOK /\ HistoryOK
  BY TypeParts DEF Typed
<1>2. /\ session' \in {None} \cup Row
      /\ work' \in [Chats -> Work]
      /\ session # None => session' # None
      /\ \A d \in Chats : work[d].row # None => work'[d].row # None
      /\ IF Go(c) THEN work'[c].row # None ELSE session' # None
  BY <1>1, WriteTyped
<1>3. SeenRow(c)' # None
  BY <1>1, <1>2 DEF SeenRow, Go
<1>4. DatabaseOK' /\ CacheOK' /\ HistoryOK'
  BY <1>1, <1>2 DEF DatabaseOK, CacheOK, StoreOK, HistoryOK, cacheVars, history
<1> QED
  BY <1>1, <1>2, <1>3, <1>4, Kept DEF ChatsOK

LEMMA WritesTyped ==
    ASSUME Typed, NEW c \in Chats, CreateSession(c) \/ Remember(c) \/ Summarize(c)
    PROVE  Typed'
<1>1. TypeOK /\ DatabaseOK /\ CacheOK /\ ChatsOK /\ HistoryOK
  BY TypeParts DEF Typed
<1>2. CASE CreateSession(c)
  BY <1>1, <1>2, Nothing, RowTyped DEF CreateSession, Goto, PCs, ChatsOK
<1>3. ASSUME pc[c] \notin Rowless
      PROVE  NewestRow(c) \in Row
  <2>1. NewestRow(c) # None
    BY <1>3 DEF Typed, RowsSeen, SeenRow, NewestRow
  <2> QED
    BY <1>1, <2>1, SeenTyped
<1>4. CASE Remember(c)
  <2> DEFINE m == Merge(context[c].memory, c)
             r == [NewestRow(c) EXCEPT !.memory = m]
  <2>1. NewestRow(c) \in Row
    BY <1>3, <1>4 DEF Remember, At, Rowless
  <2>2. m \in Memory
    BY <1>1, MergeTyped DEF ChatsOK, Known
  <2>3. r \in Row
    BY <2>1, <2>2 DEF Row
  <2>4. [NoContext EXCEPT !.memory = m] \in Known
    BY <2>2, Nothing DEF Known
  <2>5. context' \in [Chats -> Known]
    BY <1>1, <1>4, <2>4 DEF Remember, ChatsOK
  <2>6. WriteRow(c, r)
    BY <1>4 DEF Remember
  <2> HIDE DEF r
  <2> QED
    BY <1>4, <2>3, <2>5, <2>6, RowTyped DEF Remember, Goto, PCs
<1>5. CASE Summarize(c)
  <2> DEFINE r == [NewestRow(c) EXCEPT !.summary = context[c].summary]
  <2>1. NewestRow(c) \in Row
    BY <1>3, <1>5 DEF Summarize, At, Rowless
  <2>2. r \in Row
    BY <1>1, <2>1 DEF Row, ChatsOK, Known
  <2>3. WriteRow(c, r)
    BY <1>5 DEF Summarize
  <2> HIDE DEF r
  <2> QED
    BY <1>1, <1>5, <2>2, <2>3, RowTyped DEF Summarize, Goto, PCs, ChatsOK
<1> QED
  BY <1>2, <1>4, <1>5

LEMMA AskAnswerTyped ==
    ASSUME Typed, NEW c \in Chats, Ask(c) \/ Answer(c)
    PROVE  Typed'
<1>1. DatabaseOK /\ CacheOK /\ ChatsOK /\ HistoryOK
  BY TypeParts DEF Typed
<1>2. PICK r \in {"user", "assistant"} : AddMessage(c, r)
  BY DEF Ask, Answer
<1>3. UNCHANGED <<session, events, proposals, cacheVars, mode, snap, runtime, faults, history>>
  BY DEF Ask, Answer
<1>4. /\ nextId' \in Nat
      /\ messages' \subseteq Message
      /\ work' \in [Chats -> Work]
      /\ \A d \in Chats : work'[d].row = work[d].row
  BY <1>1, <1>2, AddTyped
<1>5. DatabaseOK' /\ CacheOK' /\ HistoryOK'
  BY <1>1, <1>3, <1>4 DEF DatabaseOK, CacheOK, StoreOK, HistoryOK, cacheVars, history
<1>6. context' \in [Chats -> Known]
  BY <1>1, Nothing DEF Ask, Answer, ChatsOK
<1>7. PICK p \in PCs : pc' = [pc EXCEPT ![c] = p]
  BY DEF Ask, Answer, Goto, PCs
<1>8. SeenRow(c)' # None \/ pc[c] \notin Rowless
  BY DEF Ask, Answer, At, Rowless
<1> QED
  BY <1>1, <1>3, <1>4, <1>5, <1>6, <1>7, <1>8, Kept DEF ChatsOK

LEMMA LogsTyped ==
    ASSUME Typed, NEW c \in Chats, LogReceived(c) \/ LogReturned(c)
    PROVE  Typed'
<1>1. DatabaseOK /\ CacheOK /\ ChatsOK /\ HistoryOK
  BY TypeParts DEF Typed
<1>2. PICK k \in {"chat_received", "response_returned"} : LogEvent(c, k)
  BY DEF LogReceived, LogReturned
<1>3. UNCHANGED <<session, messages, nextId, proposals, cacheVars, mode, snap, context,
                  runtime, faults, history>>
  BY DEF LogReceived, LogReturned
<1>4. /\ events' \subseteq Event
      /\ work' \in [Chats -> Work]
      /\ \A d \in Chats : work'[d].row = work[d].row
  BY <1>1, <1>2, LogTyped
<1>5. DatabaseOK' /\ CacheOK' /\ HistoryOK'
  BY <1>1, <1>3, <1>4 DEF DatabaseOK, CacheOK, StoreOK, HistoryOK, cacheVars, history
<1>6. PICK p \in PCs : pc' = [pc EXCEPT ![c] = p]
  BY DEF LogReceived, LogReturned, Goto, PCs
<1>7. pc[c] \notin Rowless
  BY DEF LogReceived, LogReturned, At, Rowless
<1> QED
  BY <1>1, <1>3, <1>4, <1>5, <1>6, <1>7, Kept DEF ChatsOK

\* The planner, its tools and the runtime.
LEMMA AnswersTyped ==
    ASSUME Typed, NEW c \in Chats,
           \/ AskModel(c) \/ GoAnswers(c) \/ GoProposes(c) \/ GoFails(c) \/ Call(c)
           \/ Receive(c) \/ GiveUp(c)
           \/ Runtime(c)
    PROVE  Typed'
<1>1. DatabaseOK /\ CacheOK /\ ChatsOK /\ HistoryOK
  BY TypeParts DEF Typed
<1>2. CASE AskModel(c) \/ GoAnswers(c) \/ Receive(c) \/ Call(c)
  <2>1. HistoryOK'
    BY <1>1, <1>2 DEF AskModel, GoAnswers, Planning, Receive, Call, history, HistoryOK
  <2>2. pc[c] \notin Rowless
    BY <1>2 DEF AskModel, GoAnswers, Planning, Receive, Call, At, Rowless
  <2>3. runtime' \in [Chats -> {"idle", "running", "proposed", "answered", "failed"}]
    BY <1>1, <1>2 DEF AskModel, GoAnswers, Planning, Receive, Call, ChatsOK
  <2>4. PICK p \in PCs : pc' = [pc EXCEPT ![c] = p]
    BY <1>2 DEF AskModel, GoAnswers, Planning, Receive, Call, Goto, PCs
  <2>5. UNCHANGED <<database, nextId, cacheVars, mode, snap, work, context>>
    BY <1>2 DEF AskModel, GoAnswers, Planning, Receive, Call
  <2> QED
    BY <1>1, <2>1, <2>2, <2>3, <2>4, <2>5, MovedTyped DEF ChatsOK
<1>3. CASE GoProposes(c)
  <2> DEFINE w == [work[c] EXCEPT !.proposal = {c}]
  <2>1. work[c] \in Work
    BY <1>1 DEF ChatsOK
  <2>2. w \in Work /\ w.row = work[c].row
    BY <2>1 DEF Work
  <2>3. work' = [work EXCEPT ![c] = w]
    BY <1>1, <1>3, <2>1 DEF GoProposes, ChatsOK, Work
  <2>4. work' \in [Chats -> Work] /\ \A d \in Chats : work'[d].row = work[d].row
    BY <1>1, <2>2, <2>3 DEF ChatsOK
  <2>5. DatabaseOK' /\ CacheOK' /\ HistoryOK'
    BY <1>1, <1>3 DEF GoProposes, DatabaseOK, CacheOK, StoreOK, HistoryOK, cacheVars,
                      history, database
  <2>6. pc[c] \notin Rowless
    BY <1>3 DEF GoProposes, Planning, Rowless
  <2>7. pc' = [pc EXCEPT ![c] = "answer"] /\ "answer" \in PCs
    BY <1>3 DEF GoProposes, Goto, PCs
  <2>8. UNCHANGED <<session, mode, snap, context, runtime>>
    BY <1>3 DEF GoProposes, database
  <2> QED
    BY <1>1, <2>4, <2>5, <2>6, <2>7, <2>8, Kept DEF ChatsOK
<1>4. CASE GoFails(c) \/ GiveUp(c)
  BY <1>1, <1>4, RefuseTyped DEF GoFails, GiveUp, HistoryOK
<1>5. CASE Runtime(c)
  <2>1. DatabaseOK' /\ CacheOK' /\ HistoryOK'
    BY <1>1, <1>5 DEF Runtime, RuntimeProposes, RuntimeEnds, DatabaseOK, CacheOK, StoreOK,
                      HistoryOK, cacheVars, history, database
  <2>2. runtime' \in [Chats -> {"idle", "running", "proposed", "answered", "failed"}]
    BY <1>1, <1>5 DEF Runtime, RuntimeProposes, RuntimeEnds, ChatsOK
  <2>3. UNCHANGED <<session, pc, mode, snap, work, context>>
    BY <1>5 DEF Runtime, RuntimeProposes, RuntimeEnds, database
  <2>4. ChatsOK'
    BY <1>1, <2>2, <2>3 DEF ChatsOK
  <2>5. RowsSeen'
    BY <2>3 DEF Typed, RowsSeen, SeenRow, Go
  <2> QED
    BY <2>1, <2>4, <2>5, TypeParts DEF Typed
<1> QED
  BY <1>2, <1>3, <1>4, <1>5

\* What ends a turn, and what goes wrong.
LEMMA EndsTyped ==
    ASSUME Typed, NEW c \in Chats,
           CreateCollides(c) \/ ListOlder(c) \/ Reply(c) \/ Commit(c) \/ StatementFails(c)
           \/ ErrorIgnored(c) \/ CommitFails(c)
    PROVE  Typed'
<1>1. TypeOK /\ DatabaseOK /\ CacheOK /\ ChatsOK /\ HistoryOK
  BY TypeParts DEF Typed
<1>2. CASE CreateCollides(c) \/ StatementFails(c)
  BY <1>1, <1>2, FaultTyped, RefuseTyped DEF CreateCollides, StatementFails, HistoryOK
<1>3. CASE ListOlder(c)
  <2> DEFINE older == IdsOf(Recent(SeenMessages(c), Keep + Lookback)
                                \ Recent(Recent(SeenMessages(c), Keep + Lookback), Keep))
  <2>1. older \subseteq Nat
    BY <1>1, SeenTyped, IdsTyped
  <2>2. [NoContext EXCEPT !.summary = older] \in Known
    BY <2>1, Nothing DEF Known
  <2>3. context' = [context EXCEPT ![c] = [NoContext EXCEPT !.summary = older]]
    BY <1>3 DEF ListOlder
  <2> HIDE DEF older
  <2>4. context' \in [Chats -> Known]
    BY <1>1, <2>2, <2>3 DEF ChatsOK
  <2>5. PICK p \in PCs : pc' = [pc EXCEPT ![c] = p]
    BY <1>3 DEF ListOlder, Goto, PCs
  <2>6. HistoryOK' /\ pc[c] \notin Rowless
    BY <1>1, <1>3 DEF ListOlder, HistoryOK, history, At, Rowless
  <2> QED
    BY <1>1, <1>3, <2>4, <2>5, <2>6, MovedTyped DEF ListOlder, ChatsOK
<1>4. CASE Reply(c)
  <2>1. HistoryOK' /\ pc[c] \notin Rowless
    BY <1>1, <1>4 DEF Reply, HistoryOK, At, Rowless
  <2> QED
    BY <1>1, <1>4, <2>1, MovedTyped DEF Reply, Goto, PCs, ChatsOK
<1>5. CASE ErrorIgnored(c)
  <2>1. HistoryOK'
    BY <1>1, <1>5, FaultTyped DEF ErrorIgnored, HistoryOK, history
  <2>2. pc[c] \notin Rowless /\ Skipped(pc[c]) \in PCs
    BY <1>5 DEF ErrorIgnored, Rowless, Skipped, PCs
  <2>3. context' \in [Chats -> Known]
    BY <1>1, <1>5, Nothing DEF ErrorIgnored, ChatsOK
  <2> QED
    BY <1>1, <1>5, <2>1, <2>2, <2>3, MovedTyped DEF ErrorIgnored, Goto, ChatsOK
<1>6. CASE Commit(c)
  <2>1. work[c] \in Work
    BY <1>1 DEF ChatsOK
  <2>2. NewestRow(c) \in {None} \cup Row /\ (session # None => NewestRow(c) # None)
    BY <1>1, SeenTyped DEF NewestRow
  <2>3. DatabaseOK'
    BY <1>1, <1>6, <2>1, <2>2 DEF Commit, DatabaseOK, Work
  <2>4. CacheOK' /\ HistoryOK'
    BY <1>1, <1>6 DEF Commit, CacheOK, StoreOK, HistoryOK, cacheVars, history
  <2> QED
    BY <1>1, <1>6, <2>2, <2>3, <2>4, Ended DEF Commit, Goto, ChatsOK
<1>7. CASE CommitFails(c)
  <2>1. DatabaseOK' /\ CacheOK'
    BY <1>1, <1>7 DEF CommitFails, DatabaseOK, CacheOK, StoreOK, cacheVars, database
  <2>2. HistoryOK'
    BY <1>1, <1>7, FaultTyped DEF CommitFails, HistoryOK
  <2> QED
    BY <1>1, <1>7, <2>1, <2>2, Ended DEF CommitFails, Goto, ChatsOK, database
<1> QED
  BY <1>2, <1>3, <1>4, <1>5, <1>6, <1>7

LEMMA CrashTyped ==
    ASSUME Typed, Crash
    PROVE  Typed'
<1>1. DatabaseOK /\ CacheOK /\ ChatsOK /\ HistoryOK
  BY TypeParts DEF Typed
<1>2. DatabaseOK'
  BY <1>1 DEF Crash, DatabaseOK, database
<1>3. CacheOK'
  <2>1. Keys = {"memory", "summary"}
    BY ConstantsAssumption
  <2> QED
    BY <1>1, <2>1 DEF Crash, Restarted, CacheOK, StoreOK
<1>4. HistoryOK'
  BY <1>1, FaultTyped DEF Crash, HistoryOK, Active
<1>5. ChatsOK'
  BY <1>1, Nothing DEF Crash, ChatsOK, PCs
<1>6. ASSUME NEW d \in Chats
      PROVE  pc'[d] \in Rowless /\ snap'[d].row = None
  BY <1>1 DEF Crash, Active, Rowless, NoSnapshot
<1> QED
  BY <1>2, <1>3, <1>4, <1>5, <1>6, TypeParts DEF Typed, RowsSeen

LEMMA TypedInit == Init => Typed
<1> SUFFICES ASSUME Init
             PROVE  Typed
  OBVIOUS
<1>1. DatabaseOK
  BY DEF Init, DatabaseOK
<1>2. CacheOK
  <2>1. Keys = {"memory", "summary"}
    BY ConstantsAssumption
  <2> QED
    BY <2>1 DEF Init, CacheInit, CacheOK, StoreOK
<1>3. ChatsOK
  BY Nothing DEF Init, ChatsOK, PCs
<1>4. HistoryOK
  BY ConstantsAssumption DEF Init, HistoryOK
<1>5. RowsSeen
  BY DEF Init, RowsSeen, Rowless, NoSnapshot
<1> QED
  BY <1>1, <1>2, <1>3, <1>4, <1>5, TypeParts DEF Typed

LEMMA TypedNext == Typed /\ [Next]_vars => Typed'
<1> SUFFICES ASSUME Typed, [Next]_vars
             PROVE  Typed'
  OBVIOUS
<1>1. ASSUME NEW c \in Chats, NEW m \in Modes, Start(c, m)
      PROVE  Typed'
  BY <1>1, StartTyped
<1>2. ASSUME NEW c \in Chats, Proceed(c)
      PROVE  Typed'
  BY <1>2, FindSessionTyped, WritesTyped, AskAnswerTyped, LogsTyped, ReadRowsTyped, LookUpTyped,
     AnswersTyped, ShareTyped, EndsTyped DEF Proceed
<1>3. ASSUME NEW c \in Chats, Runtime(c) \/ Fails(c)
      PROVE  Typed'
  BY <1>3, AnswersTyped, LookUpTyped, ShareTyped, EndsTyped DEF Fails
<1>4. CASE RedisReturns \/ Finished \/ UNCHANGED vars
  <2>1. DatabaseOK /\ CacheOK /\ ChatsOK /\ HistoryOK
    BY TypeParts DEF Typed
  <2>2. UNCHANGED <<redis, local, database, nextId, pc, mode, snap, work, context, runtime,
                    faults, history>> /\ disabled' \in BOOLEAN
    BY <1>4, <2>1 DEF RedisReturns, Reenable, Finished, vars, database, history, CacheOK
  <2>3. DatabaseOK' /\ CacheOK' /\ ChatsOK' /\ HistoryOK'
    BY <2>1, <2>2 DEF database, history, DatabaseOK, CacheOK, StoreOK, ChatsOK, HistoryOK
  <2>4. RowsSeen'
    BY <2>2 DEF database, Typed, RowsSeen, SeenRow, Go
  <2> QED
    BY <2>3, <2>4, TypeParts DEF Typed
<1> QED
  BY <1>1, <1>2, <1>3, <1>4, CrashTyped DEF Next

LEMMA AlwaysTyped == Spec => []Typed
BY TypedInit, TypedNext, PTL DEF Spec

\* Every variable stays in its type; in particular a chat that builds its context, or
\* writes its memory, has a row of the session to read (GetOrCreate before BuildContext).
THEOREM TypeCorrect == Spec => []TypeOK
BY AlwaysTyped, PTL DEF Typed

-----------------------------------------------------------------------------
(* The inductive invariant.  A chat passes three stages: before its message *)
(* is written, until its answer is written, until it ends.  Under the Go    *)
(* planner what it has written is a draft in its work; under the runtime it *)
(* is recorded.                                                             *)

BeforeAsk == {"new", "session", "create", "ask"}
AfterAsk == {"received", "context", "lookup", "act", "model", "call", "wait", "answer"}
AfterAnswer == {"recall", "merge", "remember", "share", "list", "summarize", "shareSummary",
                "returned", "reply", "commit"}

SaidIn(ms, role) == {m.chat : m \in {m \in ms : m.role = role}}
Drafted(c, role) == c \in SaidIn(work[c].messages, role)
InOrder(ms) ==
    \A m, n \in ms : m.chat = n.chat /\ m.role = "user" /\ n.role = "assistant" => m.id < n.id
Bare(c) == work[c].messages = {} /\ work[c].events = {} /\ work[c].proposal = {}

\* What c has drafted is its own, and follows the order of a turn.
OwnWork(c) ==
    /\ \A m \in work[c].messages : m.chat = c
    /\ \A e \in work[c].events : /\ e[2] = c
                                 /\ Drafted(c, "user")
                                 /\ e[1] = "response_returned" => Drafted(c, "assistant")
    /\ work[c].proposal \subseteq {c}
    /\ InOrder(work[c].messages)
    /\ Go(c) \/ Bare(c)

Staged(c) ==
    /\ pc[c] \in BeforeAsk =>
            /\ Bare(c)
            /\ c \notin Asked \cup Answered \cup proposals
            /\ runtime[c] = "idle"
    /\ pc[c] \in AfterAsk =>
            /\ c \notin Answered
            /\ ~ Drafted(c, "assistant")
            /\ IF Go(c) THEN Drafted(c, "user") /\ c \notin Asked \cup proposals ELSE c \in Asked
    /\ pc[c] \in AfterAnswer =>
            IF Go(c)
            THEN /\ Drafted(c, "user") /\ Drafted(c, "assistant")
                 /\ c \notin Asked \cup Answered \cup proposals
            ELSE c \in Asked \cap Answered
    /\ pc[c] = "done" => Bare(c)
    /\ pc[c] \in {"act", "model", "commit"} => Go(c)
    /\ pc[c] \in {"call", "wait"} => ~ Go(c)

\* What the runtime does is done for a recorded question, and before the answer.
Remote(c) ==
    /\ runtime[c] # "idle" =>
            ~ Go(c) /\ c \in Asked /\ pc[c] \in {"wait", "answer", "done"} \cup AfterAnswer
    /\ runtime[c] \in {"running", "proposed"} => c \notin Answered /\ pc[c] \in {"wait", "done"}
    /\ runtime[c] \in {"idle", "running"} /\ ~ Go(c) => c \notin proposals

Whole(c) ==
    /\ c \in Answered => c \in Asked
    /\ Go(c) => (c \in Asked => c \in Answered) /\ (c \in proposals => c \in Answered)

TellsTruly(c) ==
    /\ pc[c] \notin {"commit", "done"} => told[c] = "nothing"
    /\ pc[c] = "commit" => told[c] = "answer"
    /\ pc[c] = "done" => /\ told[c] = "answer" /\ c \notin lost => c \in Answered
                         /\ told[c] = "error" => c \notin Answered

ChatInv(c) == OwnWork(c) /\ Staged(c) /\ Remote(c) /\ Whole(c) /\ TellsTruly(c)

IdsBelow ==
    /\ \A m \in messages : m.id < nextId
    /\ \A c \in Chats : \A m \in work[c].messages : m.id < nextId

EventsFollow == \A e \in events : e[2] \in (IF e[1] = "chat_received" THEN Asked ELSE Answered)

TurnInv == (\A c \in Chats : ChatInv(c)) /\ IdsBelow /\ InOrder(messages) /\ EventsFollow

\* A chat that nothing overlapped has seen the row that is there.
RaceInv ==
    \A c \in Active :
        /\ \A d \in Active : d = c \/ c \in overlapped
        /\ At(c, "create") /\ Go(c) => snap[c].row = None
        /\ session # None /\ c \notin overlapped =>
                IF Go(c) THEN snap[c].row # None ELSE ~ At(c, "create")

\* The chats whose turn is remembered somewhere: answered, or about to be.
Turned == {c \in Chats : c \in Answered \cup lost \/ pc[c] \in AfterAnswer}
Tells(T, m) == m.ticket \in T \cup {None} /\ m.last \in T \cup {None}
TellsRow(T, row) == row # None => Tells(T, row.memory)
TellsStore(T, store) == store["memory"] # Miss => Tells(T, store["memory"])

\* Every memory there is tells of the chats of T.
Remembered(T) ==
    /\ TellsRow(T, session)
    /\ \A c \in Chats : TellsRow(T, snap[c].row) /\ TellsRow(T, work[c].row)
    /\ \A c \in Chats : Tells(T, context[c].memory)
    /\ TellsStore(T, redis) /\ TellsStore(T, local)


-----------------------------------------------------------------------------
(* What leaves the facts about a chat as they are.                         *)

DraftsKept(d) ==
    /\ work'[d].messages = work[d].messages
    /\ work'[d].events = work[d].events
    /\ work'[d].proposal = work[d].proposal

RecordKept(d) ==
    /\ d \in Asked' <=> d \in Asked
    /\ d \in Answered' <=> d \in Answered
    /\ d \in proposals' <=> d \in proposals

Untouched(d) ==
    /\ pc'[d] = pc[d]
    /\ mode'[d] = mode[d]
    /\ runtime'[d] = runtime[d]
    /\ told'[d] = told[d]
    /\ DraftsKept(d)
    /\ RecordKept(d)
    /\ d \in lost => d \in lost'

LEMMA SaidUnion ==
    ASSUME NEW ms, NEW ns, NEW r
    PROVE  SaidIn(ms \cup ns, r) = SaidIn(ms, r) \cup SaidIn(ns, r)
BY DEF SaidIn

LEMMA SaidOne ==
    ASSUME NEW m, NEW r
    PROVE  SaidIn({m}, r) = IF m.role = r THEN {m.chat} ELSE {}
BY DEF SaidIn

LEMMA SaidParts ==
    /\ Asked = SaidIn(messages, "user") /\ Answered = SaidIn(messages, "assistant")
    /\ Asked' = SaidIn(messages', "user") /\ Answered' = SaidIn(messages', "assistant")
BY DEF Asked, Answered, Said, SaidIn

LEMMA RecordsKept ==
    ASSUME messages' = messages, proposals' = proposals
    PROVE  Asked' = Asked /\ Answered' = Answered /\ \A d \in Chats : RecordKept(d)
BY SaidParts DEF RecordKept

LEMMA Frame ==
    ASSUME NEW d \in Chats, ChatInv(d), Untouched(d)
    PROVE  ChatInv(d)'
<1>1. Go(d)' = Go(d)
  BY DEF Untouched, Go
<1>2. Bare(d)' = Bare(d)
  BY DEF Untouched, DraftsKept, Bare
<1>3. \A r : Drafted(d, r)' = Drafted(d, r)
  BY DEF Untouched, DraftsKept, Drafted, SaidIn
<1>4. OwnWork(d)'
  BY <1>1, <1>2, <1>3 DEF ChatInv, OwnWork, Untouched, DraftsKept, InOrder
<1>5. Staged(d)'
  BY <1>1, <1>2, <1>3 DEF ChatInv, Staged, Untouched, RecordKept
<1>6. Remote(d)'
  BY <1>1 DEF ChatInv, Remote, Untouched, RecordKept
<1>7. Whole(d)'
  BY <1>1 DEF ChatInv, Whole, Untouched, RecordKept
<1>8. TellsTruly(d)'
  BY DEF ChatInv, TellsTruly, Untouched, RecordKept
<1> QED
  BY <1>4, <1>5, <1>6, <1>7, <1>8 DEF ChatInv

\* A step within a stage.
LEMMA Move ==
    ASSUME NEW c \in Chats, NEW q, ChatInv(c),
           pc'[c] = q, mode'[c] = mode[c], runtime'[c] = runtime[c], told'[c] = told[c],
           DraftsKept(c), RecordKept(c),
           \/ pc[c] \in BeforeAsk /\ q \in BeforeAsk
           \/ /\ pc[c] \in AfterAsk /\ q \in AfterAsk
              /\ q \in {"act", "model"} => Go(c)
              /\ q \in {"call", "wait"} => ~ Go(c)
              /\ runtime[c] = "idle" \/ (q = "answer" /\ runtime[c] = "answered")
           \/ pc[c] \in AfterAnswer \ {"commit"} /\ q \in AfterAnswer \ {"commit"}
    PROVE  ChatInv(c)'
<1>1. Go(c)' = Go(c)
  BY DEF Go
<1>2. Bare(c)' = Bare(c)
  BY DEF DraftsKept, Bare
<1>3. \A r : Drafted(c, r)' = Drafted(c, r)
  BY DEF DraftsKept, Drafted, SaidIn
<1>4. OwnWork(c)'
  BY <1>1, <1>2, <1>3 DEF ChatInv, OwnWork, DraftsKept, InOrder
<1>5. Staged(c)'
  BY <1>1, <1>2, <1>3 DEF ChatInv, Staged, RecordKept, BeforeAsk, AfterAsk, AfterAnswer
<1>6. Remote(c)'
  BY <1>1 DEF ChatInv, Remote, Staged, RecordKept, BeforeAsk, AfterAsk, AfterAnswer
<1>7. Whole(c)'
  BY <1>1 DEF ChatInv, Whole, RecordKept
<1>8. TellsTruly(c)'
  BY DEF ChatInv, TellsTruly, RecordKept, BeforeAsk, AfterAsk, AfterAnswer
<1> QED
  BY <1>4, <1>5, <1>6, <1>7, <1>8 DEF ChatInv

LEMMA Others ==
    ASSUME TurnInv, NEW c \in Chats, \A d \in Chats \ {c} : Untouched(d),
           ChatInv(c)', IdsBelow', InOrder(messages'), EventsFollow'
    PROVE  TurnInv'
<1>1. ASSUME NEW d \in Chats
      PROVE  ChatInv(d)'
  <2>1. CASE d = c
    BY <2>1
  <2>2. CASE d # c
    BY <2>2, Frame DEF TurnInv
  <2> QED
    BY <2>1, <2>2
<1>2. InOrder(messages)' <=> InOrder(messages')
  BY DEF InOrder
<1> QED
  BY <1>1, <1>2 DEF TurnInv

\* The steps of chat c that write no message, event or proposal.
LEMMA Quiet ==
    ASSUME Typed, TurnInv, NEW c \in Chats, NEW q,
           pc' = [pc EXCEPT ![c] = q],
           UNCHANGED <<messages, nextId, events, proposals, mode, runtime, told, lost>>,
           \A d \in Chats : DraftsKept(d),
           \/ pc[c] \in BeforeAsk /\ q \in BeforeAsk
           \/ /\ pc[c] \in AfterAsk /\ q \in AfterAsk
              /\ q \in {"act", "model"} => Go(c)
              /\ q \in {"call", "wait"} => ~ Go(c)
              /\ runtime[c] = "idle" \/ (q = "answer" /\ runtime[c] = "answered")
           \/ pc[c] \in AfterAnswer \ {"commit"} /\ q \in AfterAnswer \ {"commit"}
    PROVE  TurnInv'
<1>1. pc'[c] = q /\ \A d \in Chats \ {c} : pc'[d] = pc[d]
  BY TypeParts DEF Typed, ChatsOK
<1>2. Asked' = Asked /\ Answered' = Answered /\ \A d \in Chats : RecordKept(d)
  BY RecordsKept
<1>3. ChatInv(c)'
  BY <1>1, <1>2, Move DEF TurnInv
<1>4. \A d \in Chats \ {c} : Untouched(d)
  BY <1>1, <1>2 DEF Untouched
<1>5. IdsBelow'
  BY DEF TurnInv, IdsBelow, DraftsKept
<1>6. InOrder(messages') /\ EventsFollow'
  BY <1>2 DEF TurnInv, InOrder, EventsFollow
<1> QED
  BY <1>3, <1>4, <1>5, <1>6, Others

\* A chat that ends without its answer drops what it has drafted.
LEMMA RefuseTurns ==
    ASSUME Typed, TurnInv, NEW c \in Chats, Refuse(c), runtime' = runtime,
           pc[c] \in {"session", "create", "ask"} \cup AfterAsk
    PROVE  TurnInv'
<1>1. pc'[c] = "done" /\ \A d \in Chats \ {c} : pc'[d] = pc[d]
  BY TypeParts DEF Typed, ChatsOK, Refuse, Goto
<1>2. told'[c] = "error" /\ \A d \in Chats \ {c} : told'[d] = told[d]
  BY TypeParts DEF Typed, HistoryOK, Refuse
<1>3. work'[c] = NoWork /\ \A d \in Chats \ {c} : work'[d] = work[d]
  BY TypeParts DEF Typed, ChatsOK, Refuse
<1>4. UNCHANGED <<messages, nextId, events, proposals, mode, lost>>
  BY DEF Refuse, database
<1>5. Asked' = Asked /\ Answered' = Answered /\ \A d \in Chats : RecordKept(d)
  BY <1>4, RecordsKept
<1>6. ChatInv(c)
  BY DEF TurnInv
<1>7. ChatInv(c)'
  <2>1. Bare(c)' /\ Go(c)' = Go(c)
    BY <1>3, <1>4 DEF Bare, NoWork, Go
  <2>2. OwnWork(c)'
    BY <2>1 DEF OwnWork, Bare, InOrder
  <2>3. Staged(c)'
    BY <2>1, <1>1 DEF Staged, BeforeAsk, AfterAsk, AfterAnswer
  <2>4. Remote(c)'
    BY <1>1, <1>4, <1>5, <1>6, <2>1 DEF ChatInv, Remote, BeforeAsk, AfterAsk, AfterAnswer
  <2>5. Whole(c)'
    BY <1>4, <1>5, <1>6, <2>1 DEF ChatInv, Whole
  <2>6. TellsTruly(c)'
    BY <1>1, <1>2, <1>5, <1>6 DEF ChatInv, Staged, TellsTruly, BeforeAsk
  <2> QED
    BY <2>2, <2>3, <2>4, <2>5, <2>6 DEF ChatInv
<1>8. \A d \in Chats \ {c} : Untouched(d)
  BY <1>1, <1>2, <1>3, <1>4, <1>5 DEF Untouched, DraftsKept
<1>9. IdsBelow'
  BY <1>3, <1>4 DEF TurnInv, IdsBelow, NoWork
<1>10. InOrder(messages') /\ EventsFollow'
  BY <1>4, <1>5 DEF TurnInv, InOrder, EventsFollow
<1> QED
  BY <1>7, <1>8, <1>9, <1>10, Others

-----------------------------------------------------------------------------
(* Each step keeps the invariant of the turns.                             *)

LEMMA StartTurns ==
    ASSUME Typed, TurnInv, NEW c \in Chats, NEW m \in Modes, Start(c, m)
    PROVE  TurnInv'
<1>1. /\ pc[c] = "new" /\ pc'[c] = "session" /\ mode'[c] = m
      /\ \A d \in Chats \ {c} : pc'[d] = pc[d] /\ mode'[d] = mode[d]
  BY TypeParts DEF Typed, ChatsOK, Start, Goto, At
<1>2. UNCHANGED <<messages, nextId, events, proposals, work, runtime, told, lost>>
  BY DEF Start, database
<1>3. Asked' = Asked /\ Answered' = Answered /\ \A d \in Chats : RecordKept(d)
  BY <1>2, RecordsKept
<1>4. ChatInv(c)
  BY DEF TurnInv
<1>5. ChatInv(c)'
  <2>1. Bare(c) /\ Bare(c)' /\ c \notin Asked \cup Answered \cup proposals /\ runtime[c] = "idle"
    BY <1>1, <1>2, <1>4 DEF ChatInv, Staged, BeforeAsk, Bare
  <2>2. OwnWork(c)'
    BY <2>1 DEF OwnWork, Bare, InOrder
  <2>3. Staged(c)'
    BY <1>1, <1>2, <1>3, <2>1 DEF Staged, BeforeAsk, AfterAsk, AfterAnswer
  <2>4. Remote(c)' /\ Whole(c)'
    BY <1>2, <1>3, <2>1 DEF Remote, Whole
  <2>5. TellsTruly(c)'
    BY <1>1, <1>2, <1>4 DEF ChatInv, TellsTruly
  <2> QED
    BY <2>2, <2>3, <2>4, <2>5 DEF ChatInv
<1>6. \A d \in Chats \ {c} : Untouched(d)
  BY <1>1, <1>2, <1>3 DEF Untouched, DraftsKept
<1>7. IdsBelow' /\ InOrder(messages') /\ EventsFollow'
  BY <1>2, <1>3 DEF TurnInv, IdsBelow, InOrder, EventsFollow
<1> QED
  BY <1>5, <1>6, <1>7, Others

\* Writing the row is not drafting.
LEMMA WriteDrafts ==
    ASSUME Typed, NEW c \in Chats, NEW r, WriteRow(c, r)
    PROVE  \A d \in Chats : DraftsKept(d)
<1>1. work[c] \in Work /\ work \in [Chats -> Work]
  BY TypeParts DEF Typed, ChatsOK
<1> DEFINE w == [work[c] EXCEPT !.row = r]
<1>2. w.messages = work[c].messages /\ w.events = work[c].events /\ w.proposal = work[c].proposal
  BY <1>1 DEF Work
<1>3. work' = [work EXCEPT ![c] = w] \/ work' = work
  BY <1>1 DEF WriteRow
<1> HIDE DEF w
<1> QED
  BY <1>1, <1>2, <1>3 DEF DraftsKept

LEMMA RowTurns ==
    ASSUME Typed, TurnInv, NEW c \in Chats, CreateSession(c) \/ Remember(c) \/ Summarize(c)
    PROVE  TurnInv'
<1>1. \A d \in Chats : DraftsKept(d)
  BY WriteDrafts DEF CreateSession, Remember, Summarize
<1>2. UNCHANGED <<messages, nextId, events, proposals, mode, runtime, told, lost>>
  BY DEF CreateSession, Remember, Summarize, history
<1>3. CASE CreateSession(c)
  BY <1>1, <1>2, <1>3, Quiet DEF CreateSession, Goto, At, BeforeAsk
<1>4. CASE Remember(c)
  BY <1>1, <1>2, <1>4, Quiet DEF Remember, Goto, At, AfterAnswer
<1>5. CASE Summarize(c)
  BY <1>1, <1>2, <1>5, Quiet DEF Summarize, Goto, At, AfterAnswer
<1> QED
  BY <1>3, <1>4, <1>5

LEMMA ReadTurns ==
    ASSUME Typed, TurnInv, NEW c \in Chats,
           \/ FindSession(c) \/ ReadRows(c) \/ LookUp(c) \/ LookUpFails(c) \/ AskModel(c)
           \/ GoAnswers(c)
           \/ Receive(c) \/ Share(c) \/ ShareFails(c) \/ ListOlder(c) \/ ErrorIgnored(c)
    PROVE  TurnInv'
<1>1. /\ UNCHANGED <<messages, nextId, events, proposals, mode, runtime, told, lost>>
      /\ \A d \in Chats : DraftsKept(d)
  BY DEF FindSession, ReadRows, LookUp, LookUpFails, AskModel, GoAnswers, Planning, Receive,
         Share, ShareFails, ListOlder, ErrorIgnored, database, history, DraftsKept
<1>2. ChatInv(c)
  BY DEF TurnInv
<1>3. pc[c] \in {"context", "lookup", "act", "model"} => runtime[c] = "idle"
  BY <1>2 DEF ChatInv, Remote, AfterAnswer
<1>4. CASE FindSession(c)
  BY <1>1, <1>4, Quiet DEF FindSession, Goto, At, BeforeAsk
<1>5. CASE ReadRows(c)
  <2>1. CASE At(c, "context")
    <3>1. pc[c] \in AfterAsk /\ "lookup" \in AfterAsk /\ runtime[c] = "idle"
      BY <1>3, <2>1 DEF At, AfterAsk
    <3>2. pc' = [pc EXCEPT ![c] = "lookup"]
      BY <1>5, <2>1 DEF ReadRows, Goto
    <3> QED
      BY <1>1, <3>1, <3>2, Quiet
  <2>2. CASE At(c, "recall")
    BY <1>1, <1>5, <2>2, Quiet DEF ReadRows, Goto, At, AfterAnswer
  <2> QED
    BY <1>5, <2>1, <2>2 DEF ReadRows, At
<1>6. CASE LookUp(c) \/ LookUpFails(c)
  <2>1. pc[c] \in {"lookup", "merge"} /\ AfterLookUp(c)
    BY <1>6 DEF LookUp, LookUpFails
  <2>2. CASE At(c, "lookup")
    <3>1. pc[c] \in AfterAsk /\ runtime[c] = "idle"
      BY <1>3, <2>2 DEF At, AfterAsk
    <3>2. PICK q \in AfterAsk :
              /\ pc' = [pc EXCEPT ![c] = q]
              /\ q \in {"act", "model"} => Go(c)
              /\ q \in {"call", "wait"} => ~ Go(c)
      BY <2>1, <2>2 DEF AfterLookUp, Goto, At, AfterAsk
    <3> QED
      BY <1>1, <3>1, <3>2, Quiet
  <2>3. CASE At(c, "merge")
    BY <1>1, <2>1, <2>3, Quiet DEF AfterLookUp, Goto, At, AfterAnswer
  <2> QED
    BY <2>1, <2>2, <2>3 DEF At
<1>7. CASE AskModel(c) \/ GoAnswers(c)
  <2>1. pc[c] \in AfterAsk /\ runtime[c] = "idle" /\ Go(c)
    BY <1>2, <1>3, <1>7 DEF AskModel, GoAnswers, Planning, At, AfterAsk, ChatInv, Staged
  <2>2. PICK q \in {"model", "answer"} : pc' = [pc EXCEPT ![c] = q]
    BY <1>7 DEF AskModel, GoAnswers, Goto
  <2>3. q \in AfterAsk
    BY DEF AfterAsk
  <2> QED
    BY <1>1, <2>1, <2>2, <2>3, Quiet
<1>8. CASE Receive(c)
  BY <1>1, <1>8, Quiet DEF Receive, Goto, At, AfterAsk
<1>9. CASE Share(c) \/ ShareFails(c)
  BY <1>1, <1>9, Quiet DEF Share, ShareFails, Shared, Goto, At, AfterAnswer
<1>10. CASE ListOlder(c)
  BY <1>1, <1>10, Quiet DEF ListOlder, Goto, At, AfterAnswer
<1>11. CASE ErrorIgnored(c)
  <2>1. pc[c] \in AfterAnswer \ {"commit"} /\ Skipped(pc[c]) \in AfterAnswer \ {"commit"}
    BY <1>11 DEF ErrorIgnored, Skipped, AfterAnswer
  <2> QED
    BY <1>1, <1>11, <2>1, Quiet DEF ErrorIgnored, Goto
<1> QED
  BY <1>4, <1>5, <1>6, <1>7, <1>8, <1>9, <1>10, <1>11

LEMMA RefusalsTurns ==
    ASSUME Typed, TurnInv, NEW c \in Chats,
           CreateCollides(c) \/ GoFails(c) \/ GiveUp(c) \/ StatementFails(c)
    PROVE  TurnInv'
BY RefuseTurns DEF CreateCollides, GoFails, Planning, GiveUp, StatementFails, At, AfterAsk

\* What AddMessage adds, and to which record.
LEMMA AddSaid ==
    ASSUME Typed, TurnInv, NEW c \in Chats, NEW r \in {"user", "assistant"}, AddMessage(c, r),
           c \notin Answered, ~ Drafted(c, "assistant")
    PROVE  /\ \A d \in Chats \ {c} : DraftsKept(d)
           /\ work'[c].events = work[c].events /\ work'[c].proposal = work[c].proposal
           /\ Go(c) => /\ messages' = messages
                       /\ \A q : Drafted(c, q)' <=> (Drafted(c, q) \/ q = r)
                       /\ \A m \in work'[c].messages : m \in work[c].messages \/ m.chat = c
           /\ ~ Go(c) => /\ work' = work
                         /\ Asked' = Asked \cup (IF r = "user" THEN {c} ELSE {})
                         /\ Answered' = Answered \cup (IF r = "assistant" THEN {c} ELSE {})
           /\ IdsBelow'
           /\ InOrder(messages') /\ InOrder(work'[c].messages)
<1> DEFINE m == [id |-> nextId, chat |-> c, role |-> r]
           w == [work[c] EXCEPT !.messages = @ \cup {m}]
<1>1. work[c] \in Work /\ work \in [Chats -> Work] /\ nextId \in Nat /\ messages \subseteq Message
  BY TypeParts DEF Typed, ChatsOK, DatabaseOK
<1>2. /\ w.messages = work[c].messages \cup {m}
      /\ w.events = work[c].events /\ w.proposal = work[c].proposal
  BY <1>1 DEF Work
<1>3. nextId' = nextId + 1
  BY DEF AddMessage
<1>4. ASSUME NEW ms, ms \subseteq Message, InOrder(ms), \A n \in ms : n.id < nextId,
             c \notin SaidIn(ms, "assistant")
      PROVE  InOrder(ms \cup {m}) /\ \A n \in ms \cup {m} : n.id < nextId'
  <2>1. \A n \in ms : n.id < nextId'
    BY <1>1, <1>3, <1>4 DEF Message
  <2>2. \A n \in ms : n.chat = c => n.role # "assistant"
    BY <1>4 DEF SaidIn
  <2> QED
    BY <1>1, <1>3, <1>4, <2>1, <2>2 DEF InOrder
<1>4a. ASSUME NEW ms, NEW q
       PROVE  SaidIn(ms \cup {m}, q) = SaidIn(ms, q) \cup (IF r = q THEN {c} ELSE {})
  <2>1. SaidIn(ms \cup {m}, q) = SaidIn(ms, q) \cup SaidIn({m}, q)
    BY SaidUnion
  <2>2. m.role = r /\ m.chat = c
    OBVIOUS
  <2>3. SaidIn({m}, q) = IF m.role = q THEN {m.chat} ELSE {}
    BY SaidOne
  <2> QED
    BY <2>1, <2>2, <2>3
<1>5. \A q : SaidIn(work[c].messages \cup {m}, q)
                 = SaidIn(work[c].messages, q) \cup (IF r = q THEN {c} ELSE {})
  BY <1>4a
<1>6. \A q : SaidIn(messages \cup {m}, q) = SaidIn(messages, q) \cup (IF r = q THEN {c} ELSE {})
  BY <1>4a
<1>7. InOrder(messages) /\ InOrder(work[c].messages)
  BY DEF TurnInv, ChatInv, OwnWork
<1>8. \A d \in Chats : \A n \in work[d].messages : n.id < nextId'
  BY <1>1, <1>3 DEF TurnInv, IdsBelow, Work, Message
<1>9. \A n \in messages : n.id < nextId'
  BY <1>1, <1>3 DEF TurnInv, IdsBelow, Message
<1>10. CASE Go(c)
  <2>1. work' = [work EXCEPT ![c] = w] /\ messages' = messages
    BY <1>1, <1>10 DEF AddMessage, Work
  <2>2. work'[c] = w /\ \A d \in Chats \ {c} : work'[d] = work[d]
    BY <1>1, <2>1
  <2>3. work[c].messages \subseteq Message /\ \A n \in work[c].messages : n.id < nextId
    BY <1>1 DEF TurnInv, IdsBelow, Work
  <2>4. InOrder(w.messages) /\ \A n \in w.messages : n.id < nextId'
    BY <1>2, <1>4, <1>7, <2>3 DEF Drafted
  <2>5. IdsBelow'
    <3>1. \A d \in Chats : \A n \in work'[d].messages : n.id < nextId'
      BY <1>8, <2>2, <2>4
    <3> QED
      BY <1>9, <2>1, <3>1 DEF IdsBelow
  <2>6. \A q : Drafted(c, q)' <=> (Drafted(c, q) \/ q = r)
    BY <1>2, <1>5, <2>2 DEF Drafted
  <2>7. \A n \in w.messages : n \in work[c].messages \/ n.chat = c
    BY <1>2
  <2>8. \A d \in Chats \ {c} : DraftsKept(d)
    BY <2>2 DEF DraftsKept
  <2> HIDE DEF w, m
  <2> QED
    BY <1>2, <1>7, <1>10, <2>1, <2>2, <2>4, <2>5, <2>6, <2>7, <2>8
<1>11. CASE ~ Go(c)
  <2>1. work' = work /\ messages' = messages \cup {m}
    BY <1>11 DEF AddMessage
  <2>2. \A n \in messages : n.id < nextId
    BY DEF TurnInv, IdsBelow
  <2>3. InOrder(messages') /\ \A n \in messages' : n.id < nextId'
    BY <1>1, <1>4, <1>7, <2>1, <2>2, SaidParts
  <2>4. IdsBelow'
    BY <1>8, <2>1, <2>3 DEF IdsBelow
  <2>5. /\ Asked' = Asked \cup (IF r = "user" THEN {c} ELSE {})
        /\ Answered' = Answered \cup (IF r = "assistant" THEN {c} ELSE {})
    BY <1>6, <2>1, SaidParts
  <2>6. \A d \in Chats \ {c} : DraftsKept(d)
    BY <2>1 DEF DraftsKept
  <2> QED
    BY <1>7, <1>11, <2>1, <2>3, <2>4, <2>5, <2>6
<1> QED
  BY <1>10, <1>11

LEMMA AskTurns ==
    ASSUME Typed, TurnInv, NEW c \in Chats, Ask(c)
    PROVE  TurnInv'
<1>1. ChatInv(c)
  BY DEF TurnInv
<1>2. /\ pc[c] = "ask" /\ pc'[c] = "received" /\ \A d \in Chats \ {c} : pc'[d] = pc[d]
      /\ AddMessage(c, "user")
      /\ UNCHANGED <<events, proposals, mode, runtime, told, lost>>
  BY TypeParts DEF Typed, ChatsOK, Ask, Goto, At, history
<1>3. Bare(c) /\ c \notin Asked \cup Answered \cup proposals /\ runtime[c] = "idle"
  BY <1>1, <1>2 DEF ChatInv, Staged, BeforeAsk
<1>4. ~ Drafted(c, "assistant")
  BY <1>3 DEF Bare, Drafted, SaidIn
<1>5. /\ \A d \in Chats \ {c} : DraftsKept(d)
      /\ work'[c].events = {} /\ work'[c].proposal = {}
      /\ Go(c) => /\ messages' = messages
                  /\ Drafted(c, "user")' /\ ~ Drafted(c, "assistant")'
                  /\ \A m \in work'[c].messages : m.chat = c
      /\ ~ Go(c) => work' = work /\ Asked' = Asked \cup {c} /\ Answered' = Answered
      /\ IdsBelow' /\ InOrder(messages') /\ InOrder(work'[c].messages)
  BY <1>2, <1>3, <1>4, AddSaid DEF Bare
<1>6. /\ Go(c) => Asked' = Asked /\ Answered' = Answered
      /\ \A d \in Chats \ {c} : RecordKept(d)
  BY <1>2, <1>5, SaidParts DEF RecordKept
<1>7. ChatInv(c)'
  <2>1. Go(c)' = Go(c)
    BY <1>2 DEF Go
  <2>2. ~ Go(c) => Bare(c)' /\ ~ Drafted(c, "assistant")'
    BY <1>3, <1>4, <1>5 DEF Bare, Drafted, SaidIn
  <2>3. OwnWork(c)'
    BY <1>3, <1>5, <2>1, <2>2 DEF OwnWork, Bare, InOrder
  <2>4. Staged(c)'
    BY <1>2, <1>3, <1>5, <1>6, <2>1, <2>2 DEF Staged, BeforeAsk, AfterAsk, AfterAnswer
  <2>5. Remote(c)' /\ Whole(c)'
    BY <1>2, <1>3, <1>5, <1>6, <2>1 DEF Remote, Whole
  <2>6. TellsTruly(c)'
    BY <1>1, <1>2 DEF ChatInv, TellsTruly
  <2> QED
    BY <2>3, <2>4, <2>5, <2>6 DEF ChatInv
<1>8. \A d \in Chats \ {c} : Untouched(d)
  BY <1>2, <1>5, <1>6 DEF Untouched
<1>9. EventsFollow'
  BY <1>2, <1>5, <1>6 DEF TurnInv, EventsFollow
<1> QED
  BY <1>5, <1>7, <1>8, <1>9, Others

LEMMA AnswerTurns ==
    ASSUME Typed, TurnInv, NEW c \in Chats, Answer(c)
    PROVE  TurnInv'
<1>1. ChatInv(c)
  BY DEF TurnInv
<1>2. /\ pc[c] = "answer" /\ pc'[c] = "recall" /\ \A d \in Chats \ {c} : pc'[d] = pc[d]
      /\ AddMessage(c, "assistant")
      /\ UNCHANGED <<events, proposals, mode, runtime, told, lost>>
  BY TypeParts DEF Typed, ChatsOK, Answer, Goto, At, history
<1>3. /\ c \notin Answered /\ ~ Drafted(c, "assistant")
      /\ IF Go(c) THEN Drafted(c, "user") /\ c \notin Asked \cup proposals ELSE c \in Asked
      /\ runtime[c] \notin {"running", "proposed"}
  BY <1>1, <1>2 DEF ChatInv, Staged, Remote, AfterAsk
<1>4. /\ \A d \in Chats \ {c} : DraftsKept(d)
      /\ work'[c].events = work[c].events /\ work'[c].proposal = work[c].proposal
      /\ Go(c) => /\ messages' = messages
                  /\ Drafted(c, "user")' /\ Drafted(c, "assistant")'
                  /\ \A m \in work'[c].messages : m.chat = c
      /\ ~ Go(c) => work' = work /\ Asked' = Asked /\ Answered' = Answered \cup {c}
      /\ IdsBelow' /\ InOrder(messages') /\ InOrder(work'[c].messages)
  BY <1>1, <1>2, <1>3, AddSaid DEF ChatInv, OwnWork
<1>5. /\ Go(c) => Asked' = Asked /\ Answered' = Answered
      /\ \A d \in Chats \ {c} : RecordKept(d)
  BY <1>2, <1>4, SaidParts DEF RecordKept
<1>6. ChatInv(c)'
  <2>1. Go(c)' = Go(c)
    BY <1>2 DEF Go
  <2>2. ~ Go(c) => Bare(c) /\ Bare(c)'
    BY <1>1, <1>4 DEF ChatInv, OwnWork, Bare
  <2>3. OwnWork(c)'
    BY <1>1, <1>4, <2>1, <2>2 DEF ChatInv, OwnWork, Bare
  <2>4. Staged(c)'
    BY <1>2, <1>3, <1>4, <1>5, <2>1 DEF Staged, BeforeAsk, AfterAsk, AfterAnswer
  <2>5. Remote(c)'
    BY <1>1, <1>2, <1>3, <1>4, <1>5, <2>1 DEF ChatInv, Remote, AfterAnswer
  <2>6. Whole(c)'
    BY <1>3, <1>4, <1>5, <2>1, <1>2 DEF Whole
  <2>7. TellsTruly(c)'
    BY <1>1, <1>2 DEF ChatInv, TellsTruly
  <2> QED
    BY <2>3, <2>4, <2>5, <2>6, <2>7 DEF ChatInv
<1>7. \A d \in Chats \ {c} : Untouched(d)
  BY <1>2, <1>4, <1>5 DEF Untouched
<1>8. EventsFollow'
  BY <1>2, <1>4, <1>5 DEF TurnInv, EventsFollow
<1> QED
  BY <1>4, <1>6, <1>7, <1>8, Others

LEMMA LogTurns ==
    ASSUME Typed, TurnInv, NEW c \in Chats, LogReceived(c) \/ LogReturned(c)
    PROVE  TurnInv'
<1>1. ChatInv(c) /\ work[c] \in Work /\ work \in [Chats -> Work]
  BY TypeParts DEF Typed, ChatsOK, TurnInv
<1>2. PICK k \in {"chat_received", "response_returned"}, q \in {"context", "reply"} :
          /\ LogEvent(c, k)
          /\ pc' = [pc EXCEPT ![c] = q]
          /\ \/ k = "chat_received" /\ pc[c] = "received" /\ q = "context"
             \/ k = "response_returned" /\ pc[c] = "returned" /\ q = "reply"
  BY DEF LogReceived, LogReturned, Goto, At
<1>3. pc'[c] = q /\ \A d \in Chats \ {c} : pc'[d] = pc[d]
  BY <1>2, TypeParts DEF Typed, ChatsOK
<1>4. UNCHANGED <<messages, nextId, proposals, mode, runtime, told, lost>>
  BY DEF LogReceived, LogReturned, history
<1>5. Asked' = Asked /\ Answered' = Answered /\ \A d \in Chats : RecordKept(d)
  BY <1>4, RecordsKept
<1>6. /\ k = "chat_received" => IF Go(c) THEN Drafted(c, "user") ELSE c \in Asked
      /\ k = "response_returned" => IF Go(c) THEN Drafted(c, "user") /\ Drafted(c, "assistant")
                                             ELSE c \in Answered
      /\ k = "chat_received" => runtime[c] = "idle"
      /\ k = "response_returned" => runtime[c] \notin {"running", "proposed"}
  BY <1>1, <1>2 DEF ChatInv, Staged, Remote, AfterAsk, AfterAnswer
<1> DEFINE w == [work[c] EXCEPT !.events = @ \cup {<<k, c>>}]
<1>7. w.messages = work[c].messages /\ w.proposal = work[c].proposal
      /\ w.events = work[c].events \cup {<<k, c>>}
  BY <1>1 DEF Work
<1>8. IF Go(c) THEN work' = [work EXCEPT ![c] = w] /\ events' = events
               ELSE work' = work /\ events' = events \cup {<<k, c>>}
  BY <1>1, <1>2 DEF LogEvent, Work
<1> HIDE DEF w
<1>9. /\ \A d \in Chats \ {c} : work'[d] = work[d]
      /\ work'[c].messages = work[c].messages /\ work'[c].proposal = work[c].proposal
      /\ work'[c].events = IF Go(c) THEN work[c].events \cup {<<k, c>>} ELSE work[c].events
  BY <1>1, <1>7, <1>8
<1>10. ChatInv(c)'
  <2>1. Go(c)' = Go(c)
    BY <1>4 DEF Go
  <2>2. \A r : Drafted(c, r)' = Drafted(c, r)
    BY <1>9 DEF Drafted, SaidIn
  <2>3. ~ Go(c) => Bare(c)'
    BY <1>1, <1>9 DEF ChatInv, OwnWork, Bare
  <2>4. \A e \in work'[c].events : e[2] = c /\ Drafted(c, "user")
                                  /\ (e[1] = "response_returned" => Drafted(c, "assistant"))
    <3>1. CASE Go(c)
      <4>1. \A e \in work[c].events : e[2] = c /\ Drafted(c, "user")
                                     /\ (e[1] = "response_returned" => Drafted(c, "assistant"))
        BY <1>1 DEF ChatInv, OwnWork
      <4>2. <<k, c>>[1] = k /\ <<k, c>>[2] = c
        OBVIOUS
      <4>3. Drafted(c, "user") /\ (k = "response_returned" => Drafted(c, "assistant"))
        BY <1>6, <3>1
      <4> QED
        BY <1>9, <3>1, <4>1, <4>2, <4>3
    <3>2. CASE ~ Go(c)
      BY <1>1, <1>9, <3>2 DEF ChatInv, OwnWork, Bare
    <3> QED
      BY <3>1, <3>2
  <2>5. OwnWork(c)'
    BY <1>1, <1>9, <2>1, <2>2, <2>3, <2>4 DEF ChatInv, OwnWork, InOrder
  <2>6. Staged(c)'
    BY <1>1, <1>2, <1>3, <1>4, <1>5, <2>1, <2>2
       DEF ChatInv, Staged, BeforeAsk, AfterAsk, AfterAnswer
  <2>7. Remote(c)'
    BY <1>1, <1>2, <1>3, <1>4, <1>5, <1>6, <2>1 DEF ChatInv, Remote, AfterAnswer
  <2>8. Whole(c)'
    BY <1>1, <1>4, <1>5, <2>1 DEF ChatInv, Whole
  <2>9. TellsTruly(c)'
    BY <1>1, <1>2, <1>3, <1>4 DEF ChatInv, TellsTruly
  <2> QED
    BY <2>5, <2>6, <2>7, <2>8, <2>9 DEF ChatInv
<1>11. \A d \in Chats \ {c} : Untouched(d)
  BY <1>3, <1>4, <1>5, <1>9 DEF Untouched, DraftsKept
<1>12. IdsBelow' /\ InOrder(messages')
  BY <1>4, <1>9 DEF TurnInv, IdsBelow, InOrder
<1>13. EventsFollow'
  <2>1. \A e \in events : e[2] \in (IF e[1] = "chat_received" THEN Asked ELSE Answered)
    BY DEF TurnInv, EventsFollow
  <2>2. <<k, c>>[1] = k /\ <<k, c>>[2] = c
    OBVIOUS
  <2>3. ~ Go(c) => c \in (IF k = "chat_received" THEN Asked ELSE Answered)
    BY <1>6
  <2> QED
    BY <1>5, <1>8, <2>1, <2>2, <2>3 DEF EventsFollow
<1> QED
  BY <1>10, <1>11, <1>12, <1>13, Others

LEMMA ProposeTurns ==
    ASSUME Typed, TurnInv, NEW c \in Chats, GoProposes(c)
    PROVE  TurnInv'
<1>1. ChatInv(c) /\ work[c] \in Work /\ work \in [Chats -> Work]
  BY TypeParts DEF Typed, ChatsOK, TurnInv
<1>2. /\ pc[c] \in {"act", "model"} /\ pc'[c] = "answer" /\ \A d \in Chats \ {c} : pc'[d] = pc[d]
      /\ UNCHANGED <<messages, nextId, events, proposals, mode, runtime, told, lost>>
  BY TypeParts DEF Typed, ChatsOK, GoProposes, Planning, Goto, history, database
<1>3. Asked' = Asked /\ Answered' = Answered /\ \A d \in Chats : RecordKept(d)
  BY <1>2, RecordsKept
<1>4. Go(c) /\ runtime[c] = "idle"
  BY <1>1, <1>2 DEF ChatInv, Staged, Remote, AfterAnswer
<1> DEFINE w == [work[c] EXCEPT !.proposal = {c}]
<1>5. w.messages = work[c].messages /\ w.events = work[c].events /\ w.proposal = {c}
  BY <1>1 DEF Work
<1>6. work' = [work EXCEPT ![c] = w]
  BY <1>1 DEF GoProposes, Work
<1> HIDE DEF w
<1>7. /\ \A d \in Chats \ {c} : work'[d] = work[d]
      /\ work'[c].messages = work[c].messages /\ work'[c].events = work[c].events
      /\ work'[c].proposal = {c}
  BY <1>1, <1>5, <1>6
<1>8. ChatInv(c)'
  <2>1. Go(c)'
    BY <1>2, <1>4 DEF Go
  <2>2. \A r : Drafted(c, r)' = Drafted(c, r)
    BY <1>7 DEF Drafted, SaidIn
  <2>3. OwnWork(c)'
    BY <1>1, <1>7, <2>1, <2>2 DEF ChatInv, OwnWork, InOrder
  <2>4. Staged(c)'
    BY <1>1, <1>2, <1>3, <1>4, <2>1, <2>2 DEF ChatInv, Staged, BeforeAsk, AfterAsk, AfterAnswer
  <2>5. Remote(c)' /\ Whole(c)'
    BY <1>1, <1>2, <1>3, <1>4, <2>1 DEF ChatInv, Remote, Whole
  <2>6. TellsTruly(c)'
    BY <1>1, <1>2 DEF ChatInv, TellsTruly
  <2> QED
    BY <2>3, <2>4, <2>5, <2>6 DEF ChatInv
<1>9. \A d \in Chats \ {c} : Untouched(d)
  BY <1>2, <1>3, <1>7 DEF Untouched, DraftsKept
<1>10. IdsBelow' /\ InOrder(messages') /\ EventsFollow'
  BY <1>2, <1>3, <1>7 DEF TurnInv, IdsBelow, InOrder, EventsFollow
<1> QED
  BY <1>8, <1>9, <1>10, Others

\* The call of the runtime and its end.
LEMMA RemoteTurns ==
    ASSUME Typed, TurnInv, NEW c \in Chats, Call(c) \/ RuntimeEnds(c)
    PROVE  TurnInv'
<1>1. ChatInv(c)
  BY DEF TurnInv
<1>2. /\ \/ pc[c] = "call" /\ pc'[c] = "wait" /\ runtime'[c] = "running"
         \/ /\ runtime[c] \in {"running", "proposed"} /\ runtime'[c] \in {"answered", "failed"}
            /\ pc'[c] = pc[c]
      /\ \A d \in Chats \ {c} : pc'[d] = pc[d] /\ runtime'[d] = runtime[d]
      /\ UNCHANGED <<messages, nextId, events, proposals, mode, work, told, lost>>
  BY TypeParts DEF Typed, ChatsOK, Call, RuntimeEnds, Goto, At, history, database
<1>3. Asked' = Asked /\ Answered' = Answered /\ \A d \in Chats : RecordKept(d)
  BY <1>2, RecordsKept
<1>4. ~ Go(c) /\ c \in Asked /\ c \notin Answered
  BY <1>1, <1>2 DEF ChatInv, Staged, Remote, AfterAsk
<1>5. ChatInv(c)'
  <2>1. Go(c)' = Go(c) /\ Bare(c)' = Bare(c) /\ OwnWork(c)'
    BY <1>1, <1>2 DEF Go, Bare, ChatInv, OwnWork, Drafted, InOrder
  <2>2. \A r : Drafted(c, r)' = Drafted(c, r)
    BY <1>2 DEF Drafted
  <2>3. Staged(c)'
    BY <1>1, <1>2, <1>3, <1>4, <2>1, <2>2
       DEF ChatInv, Staged, Remote, BeforeAsk, AfterAsk, AfterAnswer
  <2>4. Remote(c)'
    BY <1>1, <1>2, <1>3, <1>4, <2>1 DEF ChatInv, Remote, Staged, AfterAnswer
  <2>5. Whole(c)'
    BY <1>1, <1>2, <1>3, <2>1 DEF ChatInv, Whole
  <2>6. TellsTruly(c)'
    BY <1>1, <1>2, <1>3 DEF ChatInv, TellsTruly
  <2> QED
    BY <2>1, <2>3, <2>4, <2>5, <2>6 DEF ChatInv
<1>6. \A d \in Chats \ {c} : Untouched(d)
  BY <1>2, <1>3 DEF Untouched, DraftsKept
<1>7. IdsBelow' /\ InOrder(messages') /\ EventsFollow'
  BY <1>2, <1>3 DEF TurnInv, IdsBelow, InOrder, EventsFollow
<1> QED
  BY <1>5, <1>6, <1>7, Others

LEMMA RuntimeProposesTurns ==
    ASSUME Typed, TurnInv, NEW c \in Chats, RuntimeProposes(c)
    PROVE  TurnInv'
<1>1. ChatInv(c)
  BY DEF TurnInv
<1>2. /\ runtime[c] = "running" /\ runtime'[c] = "proposed"
      /\ \A d \in Chats \ {c} : runtime'[d] = runtime[d]
      /\ proposals' = proposals \cup {c}
      /\ UNCHANGED <<messages, nextId, events, pc, mode, work, told, lost>>
  BY TypeParts DEF Typed, ChatsOK, RuntimeProposes, history
<1>3. Asked' = Asked /\ Answered' = Answered /\ \A d \in Chats \ {c} : RecordKept(d)
  BY <1>2, SaidParts DEF RecordKept
<1>4. ~ Go(c) /\ c \in Asked /\ c \notin Answered /\ pc[c] \in {"wait", "done"}
  BY <1>1, <1>2 DEF ChatInv, Remote
<1>5. ChatInv(c)'
  <2>1. Go(c)' = Go(c) /\ Bare(c)' = Bare(c) /\ OwnWork(c)'
    BY <1>1, <1>2 DEF Go, Bare, ChatInv, OwnWork, Drafted, InOrder
  <2>2. \A r : Drafted(c, r)' = Drafted(c, r)
    BY <1>2 DEF Drafted
  <2>3. Staged(c)'
    BY <1>1, <1>2, <1>3, <1>4, <2>1, <2>2 DEF ChatInv, Staged, BeforeAsk, AfterAsk, AfterAnswer
  <2>4. Remote(c)' /\ Whole(c)'
    BY <1>1, <1>2, <1>3, <1>4, <2>1 DEF ChatInv, Remote, Whole
  <2>5. TellsTruly(c)'
    BY <1>1, <1>2, <1>3 DEF ChatInv, TellsTruly
  <2> QED
    BY <2>1, <2>3, <2>4, <2>5 DEF ChatInv
<1>6. \A d \in Chats \ {c} : Untouched(d)
  BY <1>2, <1>3 DEF Untouched, DraftsKept
<1>7. IdsBelow' /\ InOrder(messages') /\ EventsFollow'
  BY <1>2, <1>3 DEF TurnInv, IdsBelow, InOrder, EventsFollow
<1> QED
  BY <1>5, <1>6, <1>7, Others

LEMMA ReplyTurns ==
    ASSUME Typed, TurnInv, NEW c \in Chats, Reply(c)
    PROVE  TurnInv'
<1>1. ChatInv(c)
  BY DEF TurnInv
<1>2. /\ pc[c] = "reply" /\ pc'[c] = IF Go(c) THEN "commit" ELSE "done"
      /\ told'[c] = "answer"
      /\ \A d \in Chats \ {c} : pc'[d] = pc[d] /\ told'[d] = told[d]
      /\ UNCHANGED <<messages, nextId, events, proposals, mode, work, runtime, lost>>
  BY TypeParts DEF Typed, ChatsOK, HistoryOK, Reply, Goto, At, database
<1>3. Asked' = Asked /\ Answered' = Answered /\ \A d \in Chats : RecordKept(d)
  BY <1>2, RecordsKept
<1>4. /\ ~ Go(c) => c \in Asked \cap Answered /\ Bare(c)
      /\ runtime[c] \notin {"running", "proposed"}
  BY <1>1, <1>2 DEF ChatInv, OwnWork, Staged, Remote, AfterAnswer
<1>5. ChatInv(c)'
  <2>1. Go(c)' = Go(c) /\ Bare(c)' = Bare(c) /\ OwnWork(c)'
    BY <1>1, <1>2 DEF Go, Bare, ChatInv, OwnWork, Drafted, InOrder
  <2>2. \A r : Drafted(c, r)' = Drafted(c, r)
    BY <1>2 DEF Drafted
  <2>3. Staged(c)'
    BY <1>1, <1>2, <1>3, <1>4, <2>1, <2>2 DEF ChatInv, Staged, BeforeAsk, AfterAsk, AfterAnswer
  <2>4. Remote(c)' /\ Whole(c)'
    BY <1>1, <1>2, <1>3, <1>4, <2>1 DEF ChatInv, Remote, Whole, AfterAnswer
  <2>5. TellsTruly(c)'
    BY <1>2, <1>3, <1>4 DEF TellsTruly
  <2> QED
    BY <2>1, <2>3, <2>4, <2>5 DEF ChatInv
<1>6. \A d \in Chats \ {c} : Untouched(d)
  BY <1>2, <1>3 DEF Untouched, DraftsKept
<1>7. IdsBelow' /\ InOrder(messages') /\ EventsFollow'
  BY <1>2, <1>3 DEF TurnInv, IdsBelow, InOrder, EventsFollow
<1> QED
  BY <1>5, <1>6, <1>7, Others

\* What a commit records: the question, the answer, and what was proposed.
LEMMA CommitRecords ==
    ASSUME Typed, TurnInv, NEW c \in Chats, Commit(c)
    PROVE  /\ Go(c) /\ c \notin Asked \cup Answered \cup proposals
           /\ Asked' = Asked \cup {c} /\ Answered' = Answered \cup {c}
           /\ proposals' \in {proposals, proposals \cup {c}}
           /\ InOrder(messages')
<1>1. ChatInv(c) /\ At(c, "commit")
  BY DEF TurnInv, Commit
<1>2. /\ Go(c) /\ Drafted(c, "user") /\ Drafted(c, "assistant")
      /\ c \notin Asked \cup Answered \cup proposals
  BY <1>1 DEF ChatInv, Staged, At, AfterAnswer
<1>3. messages' = messages \cup work[c].messages /\ proposals' = proposals \cup work[c].proposal
  BY DEF Commit
<1>4. /\ \A m \in work[c].messages : m.chat = c
      /\ work[c].proposal \subseteq {c} /\ InOrder(work[c].messages) /\ InOrder(messages)
  BY <1>1 DEF ChatInv, OwnWork, TurnInv
<1>5. \A r : SaidIn(work[c].messages, r) \subseteq {c}
  BY <1>4 DEF SaidIn
<1>6. Asked' = Asked \cup {c} /\ Answered' = Answered \cup {c}
  BY <1>2, <1>3, <1>5, SaidParts, SaidUnion DEF Drafted
<1>7. InOrder(messages')
  <2>1. \A m \in messages : m.chat = c => m.role \notin {"user", "assistant"}
    BY <1>2, SaidParts DEF SaidIn
  <2> QED
    BY <1>3, <1>4, <2>1 DEF InOrder
<1> QED
  BY <1>2, <1>3, <1>4, <1>6, <1>7

LEMMA CommitTurns ==
    ASSUME Typed, TurnInv, NEW c \in Chats, Commit(c)
    PROVE  TurnInv'
<1>1. ChatInv(c)
  BY DEF TurnInv
<1>2. /\ pc[c] = "commit" /\ pc'[c] = "done" /\ \A d \in Chats \ {c} : pc'[d] = pc[d]
      /\ work'[c] = NoWork /\ \A d \in Chats \ {c} : work'[d] = work[d]
      /\ messages' = messages \cup work[c].messages
      /\ events' = events \cup work[c].events
      /\ UNCHANGED <<nextId, mode, runtime, told, lost>>
  BY TypeParts DEF Typed, ChatsOK, Commit, Goto, At, history
<1>3. /\ Go(c) /\ c \notin Asked \cup Answered \cup proposals
      /\ Asked' = Asked \cup {c} /\ Answered' = Answered \cup {c}
      /\ proposals' \in {proposals, proposals \cup {c}}
      /\ InOrder(messages')
  BY CommitRecords
<1>4. \A d \in Chats \ {c} : RecordKept(d)
  BY <1>3 DEF RecordKept
<1>5. ChatInv(c)'
  <2>1. Go(c)' /\ Bare(c)'
    BY <1>2, <1>3 DEF Go, Bare, NoWork
  <2>2. OwnWork(c)'
    BY <2>1 DEF OwnWork, Bare, InOrder
  <2>3. Staged(c)'
    BY <1>2, <2>1 DEF Staged, BeforeAsk, AfterAsk, AfterAnswer
  <2>4. Remote(c)' /\ Whole(c)'
    BY <1>1, <1>2, <1>3, <2>1 DEF ChatInv, Remote, Whole
  <2>5. TellsTruly(c)'
    BY <1>1, <1>2, <1>3 DEF ChatInv, TellsTruly
  <2> QED
    BY <2>2, <2>3, <2>4, <2>5 DEF ChatInv
<1>6. \A d \in Chats \ {c} : Untouched(d)
  BY <1>2, <1>4 DEF Untouched, DraftsKept
<1>7. IdsBelow'
  BY <1>2 DEF TurnInv, IdsBelow, NoWork
<1>8. EventsFollow'
  <2>1. \A e \in work[c].events : e[2] = c
    BY <1>1 DEF ChatInv, OwnWork
  <2> QED
    BY <1>2, <1>3, <2>1 DEF TurnInv, EventsFollow
<1> QED
  BY <1>3, <1>5, <1>6, <1>7, <1>8, Others

\* A chat whose transaction is lost, at its commit or in a crash.
LEMMA Abandoned ==
    ASSUME NEW c \in Chats, ChatInv(c), pc[c] # "new", pc[c] # "done", pc'[c] = "done",
           work'[c] = NoWork, c \in lost' \/ ~ Go(c),
           mode'[c] = mode[c], runtime'[c] = runtime[c], told'[c] = told[c], RecordKept(c)
    PROVE  ChatInv(c)'
<1>1. Go(c)' = Go(c) /\ Bare(c)'
  BY DEF Go, Bare, NoWork
<1>2. OwnWork(c)'
  BY <1>1 DEF OwnWork, Bare, InOrder
<1>3. Staged(c)'
  BY <1>1 DEF Staged, BeforeAsk, AfterAsk, AfterAnswer
<1>4. Remote(c)' /\ Whole(c)'
  BY <1>1 DEF ChatInv, Remote, Whole, RecordKept
<1>5. TellsTruly(c)'
  BY DEF ChatInv, TellsTruly, Staged, RecordKept
<1> QED
  BY <1>2, <1>3, <1>4, <1>5 DEF ChatInv

LEMMA LossTurns ==
    ASSUME Typed, TurnInv, Crash \/ \E c \in Chats : CommitFails(c)
    PROVE  TurnInv'
<1> DEFINE Lost(c) == /\ pc[c] # "new" /\ pc[c] # "done" /\ pc'[c] = "done" /\ work'[c] = NoWork
                      /\ c \in lost' \/ ~ Go(c)
<1>1. UNCHANGED <<messages, nextId, events, proposals, mode, runtime, told>>
  BY DEF Crash, CommitFails, database
<1>2. Asked' = Asked /\ Answered' = Answered /\ \A d \in Chats : RecordKept(d)
  BY <1>1, RecordsKept
<1>3. ASSUME NEW c \in Chats
      PROVE  Untouched(c) \/ Lost(c)
  <2>1. CASE Crash
    <3>1. CASE c \in Active
      BY <2>1, <3>1 DEF Crash, Active
    <3>2. CASE c \notin Active
      <4>1. Bare(c)
        BY <3>2 DEF TurnInv, ChatInv, Staged, Active, BeforeAsk
      <4> QED
        BY <1>1, <1>2, <2>1, <3>2, <4>1 DEF Crash, Untouched, DraftsKept, Bare, NoWork
    <3> QED
      BY <3>1, <3>2
  <2>2. ASSUME NEW d \in Chats, CommitFails(d)
        PROVE  Untouched(c) \/ Lost(c)
    <3>1. CASE c = d
      BY <2>2, <3>1, TypeParts DEF Typed, ChatsOK, CommitFails, Goto, At
    <3>2. CASE c # d
      BY <1>1, <1>2, <2>2, <3>2, TypeParts
         DEF Typed, ChatsOK, CommitFails, Goto, Untouched, DraftsKept
    <3> QED
      BY <3>1, <3>2
  <2> QED
    BY <2>1, <2>2
<1>4. \A c \in Chats : ChatInv(c)'
  BY <1>1, <1>2, <1>3, Frame, Abandoned DEF TurnInv
<1>5. IdsBelow'
  BY <1>1, <1>3 DEF TurnInv, IdsBelow, NoWork, Untouched, DraftsKept
<1>6. InOrder(messages)' /\ EventsFollow'
  BY <1>1, <1>2 DEF TurnInv, InOrder, EventsFollow
<1> QED
  BY <1>4, <1>5, <1>6 DEF TurnInv

LEMMA TurnInit == Init => TurnInv
<1> SUFFICES ASSUME Init
             PROVE  TurnInv
  OBVIOUS
<1>1. Asked = {} /\ Answered = {}
  BY SaidParts DEF Init, SaidIn
<1>2. ASSUME NEW c \in Chats
      PROVE  ChatInv(c)
  <2>1. Bare(c) /\ pc[c] = "new" /\ runtime[c] = "idle" /\ told[c] = "nothing" /\ proposals = {}
    BY DEF Init, Bare, NoWork
  <2> QED
    BY <1>1, <2>1 DEF ChatInv, OwnWork, Bare, InOrder, Staged, Remote, Whole, TellsTruly,
                      BeforeAsk, AfterAsk, AfterAnswer
<1>3. IdsBelow /\ InOrder(messages) /\ EventsFollow
  BY DEF Init, IdsBelow, InOrder, EventsFollow, NoWork
<1> QED
  BY <1>2, <1>3 DEF TurnInv

LEMMA TurnNext == Typed /\ TurnInv /\ [Next]_vars => TurnInv'
<1> SUFFICES ASSUME Typed, TurnInv, [Next]_vars
             PROVE  TurnInv'
  OBVIOUS
<1>1. ASSUME NEW c \in Chats, NEW m \in Modes, Start(c, m)
      PROVE  TurnInv'
  BY <1>1, StartTurns
<1>2. ASSUME NEW c \in Chats, Proceed(c)
      PROVE  TurnInv'
  BY <1>2, ReadTurns, RowTurns, RefusalsTurns, AskTurns, AnswerTurns, LogTurns, ProposeTurns,
     RemoteTurns, ReplyTurns, CommitTurns DEF Proceed
<1>3. ASSUME NEW c \in Chats, Runtime(c) \/ Fails(c)
      PROVE  TurnInv'
  BY <1>3, RuntimeProposesTurns, RemoteTurns, ReadTurns, RefusalsTurns, LossTurns
     DEF Runtime, Fails
<1>4. CASE RedisReturns \/ Finished \/ UNCHANGED vars
  <2>1. UNCHANGED <<messages, nextId, events, proposals, pc, mode, work, runtime, told, lost>>
    BY <1>4 DEF RedisReturns, Finished, vars, database, history
  <2>2. Asked' = Asked /\ Answered' = Answered /\ \A d \in Chats : RecordKept(d)
    BY <2>1, RecordsKept
  <2>3. \A d \in Chats : Untouched(d)
    BY <2>1, <2>2 DEF Untouched, DraftsKept
  <2>4. \A d \in Chats : ChatInv(d)'
    BY <2>3, Frame DEF TurnInv
  <2>5. IdsBelow' /\ InOrder(messages)' /\ EventsFollow'
    BY <2>1, <2>2 DEF TurnInv, IdsBelow, InOrder, EventsFollow
  <2> QED
    BY <2>4, <2>5 DEF TurnInv
<1> QED
  BY <1>1, <1>2, <1>3, <1>4, LossTurns DEF Next

LEMMA AlwaysTurns == Spec => [](Typed /\ TurnInv)
<1>1. Init => Typed /\ TurnInv
  BY TypedInit, TurnInit
<1>2. Typed /\ TurnInv /\ [Next]_vars => Typed' /\ TurnInv'
  BY TypedNext, TurnNext
<1> QED
  BY <1>1, <1>2, PTL DEF Spec

-----------------------------------------------------------------------------
(* Races on the row of the session.                                        *)

\* A step of an active chat that leaves the row of the session alone.
LEMMA Calm ==
    ASSUME Typed, RaceInv, NEW c \in Active, NEW q,
           pc' = [pc EXCEPT ![c] = q], q # "create",
           mode' = mode, overlapped' = overlapped, session' = session,
           \A d \in Chats \ {c} : snap'[d] = snap[d],
           snap' = snap \/ q = "done"
    PROVE  RaceInv'
<1>1. c \in Chats /\ pc'[c] = q /\ \A d \in Chats \ {c} : pc'[d] = pc[d]
  BY TypeParts DEF Typed, ChatsOK, Active
<1>2. Active' \subseteq Active /\ (q = "done" => c \notin Active')
  BY <1>1 DEF Active
<1>3. ASSUME NEW d \in Active'
      PROVE  d \in Active /\ snap'[d] = snap[d] /\ (At(d, "create")' => At(d, "create")) /\ Go(d)' = Go(d)
  BY <1>1, <1>2, <1>3 DEF At, Go, Active
<1> QED
  BY <1>2, <1>3 DEF RaceInv

LEMMA StartRaces ==
    ASSUME Typed, RaceInv, NEW c \in Chats, NEW m \in Modes, Start(c, m)
    PROVE  RaceInv'
<1>1. /\ pc[c] = "new" /\ pc'[c] = "session" /\ mode'[c] = m
      /\ \A d \in Chats \ {c} : pc'[d] = pc[d] /\ mode'[d] = mode[d] /\ snap'[d] = snap[d]
      /\ m = "go" => snap'[c].row = session
      /\ session' = session
  BY TypeParts DEF Typed, ChatsOK, Start, Goto, At, database
<1>2. Active' = Active \cup {c} /\ c \notin Active
  BY <1>1 DEF Active
<1>3. overlapped' = IF Active = {} THEN overlapped ELSE overlapped \cup Active \cup {c}
  BY DEF Start
<1>4. ASSUME NEW d \in Active
      PROVE  d \in Chats \ {c} /\ d \in overlapped' /\ Go(d)' = Go(d) /\ At(d, "create")' = At(d, "create")
  BY <1>1, <1>2, <1>3, <1>4 DEF Active, Go, At
<1>5. \A d \in Active' : \A e \in Active' : e = d \/ d \in overlapped'
  BY <1>2, <1>3, <1>4
<1>6. ~ At(c, "create")' /\ (Go(c)' => snap'[c].row = session)
  BY <1>1 DEF At, Go
<1> QED
  BY <1>1, <1>2, <1>4, <1>5, <1>6 DEF RaceInv

LEMMA FindRaces ==
    ASSUME Typed, RaceInv, NEW c \in Chats, FindSession(c)
    PROVE  RaceInv'
<1>1. /\ pc[c] = "session" /\ pc'[c] = IF SeenRow(c) # None THEN "ask" ELSE "create"
      /\ \A d \in Chats \ {c} : pc'[d] = pc[d]
      /\ UNCHANGED <<session, mode, snap, overlapped>>
  BY TypeParts DEF Typed, ChatsOK, FindSession, Goto, At, database, history
<1>2. Active' = Active /\ c \in Active
  BY <1>1 DEF Active
<1>3. SeenRow(c) = None => IF Go(c) THEN snap[c].row = None ELSE session = None
  BY DEF SeenRow
<1>4. \A d \in Chats : Go(d)' = Go(d) /\ (d # c => At(d, "create")' = At(d, "create"))
  BY <1>1 DEF Go, At
<1>5. At(c, "create")' => SeenRow(c) = None
  BY <1>1 DEF At
<1> QED
  BY <1>1, <1>2, <1>3, <1>4, <1>5 DEF RaceInv, Active

\* A chat that writes the row is seen by all that overlap it, and it has found its own.
LEMMA RowRaces ==
    ASSUME Typed, RaceInv, NEW c \in Chats,
           CreateSession(c) \/ Remember(c) \/ Summarize(c) \/ Commit(c)
    PROVE  RaceInv'
<1>1. PICK q \in {"ask", "share", "shareSummary", "done"} :
          pc' = [pc EXCEPT ![c] = q] /\ (Commit(c) => q = "done")
  BY DEF CreateSession, Remember, Summarize, Commit, Goto, At
<1>2. UNCHANGED <<mode, overlapped>> /\ \A d \in Chats \ {c} : snap'[d] = snap[d]
  BY TypeParts DEF Typed, ChatsOK, CreateSession, Remember, Summarize, Commit, history
<1>3. c \in Active
  BY DEF CreateSession, Remember, Summarize, Commit, Active, At
<1>4. pc'[c] = q /\ \A d \in Chats \ {c} : pc'[d] = pc[d]
  BY <1>1, TypeParts DEF Typed, ChatsOK
<1>5. Active' \subseteq Active /\ (q = "done" => c \notin Active')
  BY <1>3, <1>4 DEF Active
<1>6. \A d \in Active' : d \in Active /\ Go(d)' = Go(d) /\ (At(d, "create")' => At(d, "create") /\ d # c)
  BY <1>2, <1>4, <1>5 DEF Active, At, Go
<1>7. ASSUME NEW d \in Active', d # c
      PROVE  d \in overlapped'
  BY <1>2, <1>3, <1>6, <1>7 DEF RaceInv
<1>8. ASSUME c \in Active', Go(c), c \notin overlapped', session' # None
      PROVE  snap'[c].row # None /\ snap' = snap
  <2>1. snap' = snap /\ session' = session
    BY <1>5, <1>1, <1>8 DEF CreateSession, Remember, Summarize, WriteRow
  <2> QED
    BY <1>2, <1>3, <1>8, <2>1 DEF RaceInv
<1> QED
  BY <1>2, <1>5, <1>6, <1>7, <1>8 DEF RaceInv, Active

LEMMA RefuseRaces ==
    ASSUME Typed, RaceInv, NEW c \in Active, Refuse(c)
    PROVE  RaceInv'
<1>1. \A d \in Chats \ {c} : snap'[d] = snap[d]
  BY TypeParts DEF Typed, ChatsOK, Refuse
<1> QED
  BY <1>1, Calm DEF Refuse, Goto, database

LEMMA RaceInit == Init => RaceInv
BY DEF Init, RaceInv, Active

LEMMA RaceNext == Typed /\ RaceInv /\ [Next]_vars => RaceInv'
<1> SUFFICES ASSUME Typed, RaceInv, [Next]_vars
             PROVE  RaceInv'
  OBVIOUS
<1>1. ASSUME NEW c \in Chats, NEW m \in Modes, Start(c, m)
      PROVE  RaceInv'
  BY <1>1, StartRaces
<1>2. ASSUME NEW c \in Chats, NEW q \in PCs, c \in Active, q # "create",
             pc' = [pc EXCEPT ![c] = q], UNCHANGED <<session, mode, snap, overlapped>>
      PROVE  RaceInv'
  BY <1>2, Calm
<1>3. ASSUME NEW c \in Chats, Proceed(c)
      PROVE  RaceInv'
  <2>1. CASE FindSession(c) \/ CreateSession(c) \/ Remember(c) \/ Summarize(c) \/ Commit(c)
    BY <2>1, FindRaces, RowRaces
  <2>2. CASE CreateCollides(c) \/ GoFails(c) \/ GiveUp(c)
    BY <2>2, RefuseRaces DEF CreateCollides, GoFails, Planning, GiveUp, At, Active
  <2>3. CASE Ask(c) \/ LogReceived(c) \/ LogReturned(c) \/ Answer(c) \/ Reply(c)
    BY <1>2, <2>3 DEF Ask, LogReceived, LogReturned, Answer, Reply, Goto, At, Active, PCs,
                      history, database
  <2>4. CASE ReadRows(c) \/ LookUp(c) \/ ListOlder(c) \/ Share(c)
    BY <1>2, <2>4 DEF ReadRows, LookUp, AfterLookUp, ListOlder, Share, Shared, Goto, At, Active,
                      PCs, history, database
  <2>5. CASE AskModel(c) \/ GoAnswers(c) \/ GoProposes(c) \/ Call(c) \/ Receive(c)
    BY <1>2, <2>5 DEF AskModel, GoAnswers, Planning, GoProposes, Call, Receive, Goto, At,
                      Active, PCs, history, database
  <2> QED
    BY <1>3, <2>1, <2>2, <2>3, <2>4, <2>5 DEF Proceed
<1>4. ASSUME NEW c \in Chats, Fails(c)
      PROVE  RaceInv'
  <2>1. CASE LookUpFails(c) \/ ShareFails(c)
    BY <1>2, <2>1 DEF LookUpFails, AfterLookUp, ShareFails, Shared, Goto, At, Active,
                      PCs, history, database
  <2>2. CASE StatementFails(c)
    BY <2>2, RefuseRaces DEF StatementFails, Active
  <2>3. CASE ErrorIgnored(c)
    BY <1>2, <2>3 DEF ErrorIgnored, Skipped, Goto, Active, PCs, history, database
  <2>4. CASE CommitFails(c)
    <3>1. \A d \in Chats \ {c} : snap'[d] = snap[d]
      BY <2>4, TypeParts DEF Typed, ChatsOK, CommitFails
    <3> QED
      BY <2>4, <3>1, Calm DEF CommitFails, Goto, At, Active, database
  <2> QED
    BY <1>4, <2>1, <2>2, <2>3, <2>4 DEF Fails
<1>5. CASE Crash
  <2>1. Active' = {}
    BY <1>5 DEF Crash, Active
  <2> QED
    BY <2>1 DEF RaceInv
<1>6. ASSUME UNCHANGED <<pc, session, mode, snap, overlapped>>
      PROVE  RaceInv'
  BY <1>6 DEF RaceInv, Active, At, Go
<1>7. ASSUME NEW c \in Chats, Runtime(c)
      PROVE  RaceInv'
  BY <1>6, <1>7 DEF Runtime, RuntimeProposes, RuntimeEnds, database, history
<1>8. CASE RedisReturns \/ Finished \/ UNCHANGED vars
  BY <1>6, <1>8 DEF RedisReturns, Finished, vars, database, history
<1> QED
  BY <1>1, <1>3, <1>4, <1>5, <1>7, <1>8 DEF Next

-----------------------------------------------------------------------------
(* Whose turns the memories tell of.                                       *)

\* A transaction that has its answer keeps it until the commit, or is lost.
LEMMA AnswerStays ==
    ASSUME Typed, NEW c \in Chats, Go(c), pc[c] \in AfterAnswer, [Next]_vars
    PROVE  pc'[c] \in AfterAnswer \/ Commit(c) \/ c \in lost'
<1>1. pc \in [Chats -> PCs]
  BY TypeParts DEF Typed, ChatsOK
<1>2. ASSUME NEW d \in Chats, NEW m \in Modes, Start(d, m)
      PROVE  pc'[c] \in AfterAnswer
  BY <1>1, <1>2 DEF Start, Goto, At, AfterAnswer
<1>3. ASSUME NEW d \in Chats, Proceed(d), ~ Commit(c)
      PROVE  pc'[c] \in AfterAnswer
  <2>1. CASE \/ FindSession(d) \/ CreateSession(d) \/ CreateCollides(d) \/ Ask(d)
             \/ LogReceived(d) \/ AskModel(d) \/ GoAnswers(d) \/ GoProposes(d) \/ GoFails(d)
             \/ Call(d)
             \/ Receive(d) \/ GiveUp(d) \/ Answer(d) \/ Commit(d)
    BY <1>1, <1>3, <2>1
       DEF FindSession, CreateSession, CreateCollides, Ask, LogReceived, AskModel, GoAnswers,
           Planning, GoProposes,
           GoFails, Call, Receive, GiveUp, Answer, Commit, Refuse, Goto, At, AfterAnswer
  <2>2. CASE ReadRows(d) \/ LookUp(d) \/ Remember(d) \/ Share(d)
    BY <1>1, <2>2
       DEF ReadRows, LookUp, AfterLookUp, Remember, Share, Shared, Goto, At, AfterAnswer
  <2>3. CASE ListOlder(d) \/ Summarize(d) \/ LogReturned(d) \/ Reply(d)
    BY <1>1, <2>3 DEF ListOlder, Summarize, LogReturned, Reply, Goto, At, AfterAnswer
  <2> QED
    BY <1>3, <2>1, <2>2, <2>3 DEF Proceed
<1>4. ASSUME NEW d \in Chats, Fails(d)
      PROVE  pc'[c] \in AfterAnswer \/ c \in lost'
  <2>1. CASE LookUpFails(d) \/ ShareFails(d)
    BY <1>1, <2>1 DEF LookUpFails, AfterLookUp, ShareFails, Shared, Goto, At, AfterAnswer
  <2>2. CASE StatementFails(d) \/ ErrorIgnored(d) \/ CommitFails(d)
    BY <1>1, <2>2 DEF StatementFails, Refuse, ErrorIgnored, Skipped, CommitFails, Goto, AfterAnswer
  <2> QED
    BY <1>4, <2>1, <2>2 DEF Fails
<1>5. CASE Crash
  BY <1>5 DEF Crash, Active, AfterAnswer
<1>6. ASSUME pc' = pc
      PROVE  pc'[c] \in AfterAnswer
  BY <1>6
<1>7. CASE RedisReturns \/ Finished \/ UNCHANGED vars
  BY <1>6, <1>7 DEF RedisReturns, Finished, vars
<1>8. ASSUME NEW d \in Chats, Runtime(d)
      PROVE  pc'[c] \in AfterAnswer
  BY <1>6, <1>8 DEF Runtime, RuntimeProposes, RuntimeEnds
<1> QED
  BY <1>2, <1>3, <1>4, <1>5, <1>7, <1>8 DEF Next

\* A turn that is remembered is answered, or lost with its transaction.
LEMMA TurnedGrows ==
    ASSUME Typed, TurnInv, [Next]_vars
    PROVE  Turned \subseteq Turned'
<1>1. messages \subseteq messages' /\ lost \subseteq lost'
  BY DEF Next, Start, Proceed, Runtime, Fails, FindSession, CreateSession, CreateCollides,
         Ask, LogReceived, ReadRows, LookUp, AskModel, GoAnswers, Planning, GoProposes,
         GoFails, Call, Receive,
         GiveUp, Answer, Remember, Share, ListOlder, Summarize, LogReturned, Reply, Commit,
         RuntimeProposes, RuntimeEnds, LookUpFails, ShareFails, StatementFails,
         ErrorIgnored, CommitFails, Crash, RedisReturns, Finished, vars, Refuse, AddMessage,
         database, history
<1>2. Answered \subseteq Answered'
  BY <1>1, SaidParts DEF SaidIn
<1>3. ASSUME NEW c \in Chats, pc[c] \in AfterAnswer
      PROVE  c \in Answered' \cup lost' \/ pc'[c] \in AfterAnswer
  <2>1. CASE Go(c)
    BY <1>3, <2>1, AnswerStays, CommitRecords
  <2>2. CASE ~ Go(c)
    BY <1>2, <1>3, <2>2 DEF TurnInv, ChatInv, Staged
  <2> QED
    BY <2>1, <2>2
<1> QED
  BY <1>1, <1>2, <1>3 DEF Turned

\* Steps that leave every memory where it is, or put the memory of a chat away.
LEMMA MemoryKept ==
    ASSUME Typed, NEW T, Remembered(T), NEW c \in Chats,
           session' = session,
           snap' = snap \/ snap' = [snap EXCEPT ![c] = NoSnapshot],
           (\A d \in Chats : work'[d].row = work[d].row) \/ work' = [work EXCEPT ![c] = NoWork],
           context' = context \/ context' = [context EXCEPT ![c] = NoContext],
           redis' = redis, local' = local
    PROVE  Remembered(T)'
<1>1. ChatsOK
  BY TypeParts DEF Typed
<1>2. ASSUME NEW d \in Chats
      PROVE  /\ snap'[d].row \in {None, snap[d].row}
             /\ work'[d].row \in {None, work[d].row}
             /\ context'[d].memory \in {NoMemory, context[d].memory}
  BY <1>1 DEF ChatsOK, NoSnapshot, NoWork, NoContext
<1>3. Tells(T, NoMemory)
  BY DEF Tells, NoMemory
<1> QED
  BY <1>2, <1>3 DEF Remembered, TellsRow, TellsStore

LEMMA StartMemory ==
    ASSUME Typed, NEW T, Remembered(T), NEW c \in Chats, NEW m \in Modes, Start(c, m)
    PROVE  Remembered(T)'
<1>1. snap \in [Chats -> Snap]
  BY TypeParts DEF Typed, ChatsOK
<1>2. \A d \in Chats : snap'[d].row \in {session, snap[d].row}
  BY <1>1 DEF Start
<1>3. UNCHANGED <<session, work, context, redis, local>>
  BY DEF Start, database, cacheVars
<1> QED
  BY <1>2, <1>3 DEF Remembered, TellsRow, TellsStore

LEMMA ReadMemory ==
    ASSUME Typed, NEW T, Remembered(T), NEW c \in Chats, ReadRows(c) \/ ListOlder(c)
    PROVE  Remembered(T)'
<1>1. context \in [Chats -> Known]
  BY TypeParts DEF Typed, ChatsOK
<1>2. UNCHANGED <<session, snap, work, redis, local>>
  BY DEF ReadRows, ListOlder, database, cacheVars
<1>3. Tells(T, context'[c].memory)
  <2>1. CASE ReadRows(c)
    <3>1. SeenRow(c) # None
      BY <2>1 DEF Typed, RowsSeen, ReadRows, Rowless
    <3>2. TellsRow(T, SeenRow(c))
      BY DEF SeenRow, Remembered
    <3> QED
      BY <1>1, <2>1, <3>1, <3>2 DEF ReadRows, TellsRow
  <2>2. CASE ListOlder(c)
    BY <1>1, <2>2 DEF ListOlder, NoContext, NoMemory, Tells
  <2> QED
    BY <2>1, <2>2
<1>4. \A d \in Chats \ {c} : context'[d] = context[d]
  BY <1>1 DEF ReadRows, ListOlder
<1> QED
  BY <1>2, <1>3, <1>4 DEF Remembered, TellsRow, TellsStore

LEMMA LookUpMemory ==
    ASSUME Typed, NEW T, Remembered(T), NEW c \in Chats, LookUp(c) \/ LookUpFails(c)
    PROVE  Remembered(T)'
<1>1. context \in [Chats -> Known] /\ Keys = {"memory", "summary"}
  BY TypeParts, ConstantsAssumption DEF Typed, ChatsOK
<1>2. UNCHANGED <<session, snap, work>> /\ Expire
  BY DEF LookUp, LookUpFails, database
<1>3. /\ redis'["memory"] \in {Miss, redis["memory"]}
      /\ local'["memory"] \in {Miss, local["memory"]}
  BY <1>1, <1>2 DEF Expire, Aged
<1>4. TellsStore(T, redis') /\ TellsStore(T, local')
  BY <1>3 DEF Remembered, TellsStore
<1>5. PICK s, m : Override(c, s, m) /\ m \in {redis'["memory"], local'["memory"]}
  BY DEF LookUp, LookUpFails, Cached, Either
<1> DEFINE k == [context[c] EXCEPT !.summary = IF s \in {Miss, {}} THEN @ ELSE s]
           l == [k EXCEPT !.memory = IF m = Miss THEN @ ELSE m]
<1>6. context[c] \in Known
  BY <1>1
<1>7. l.memory = IF m = Miss THEN context[c].memory ELSE m
  BY <1>6 DEF Known
<1>8. context' = [context EXCEPT ![c] = l]
  BY <1>1, <1>5, <1>6 DEF Override, Known
<1> HIDE DEF l
<1>9. Tells(T, l.memory)
  BY <1>4, <1>5, <1>7 DEF TellsStore, Remembered
<1>10. \A d \in Chats : Tells(T, context'[d].memory)
  BY <1>1, <1>8, <1>9 DEF Remembered
<1> QED
  BY <1>2, <1>4, <1>10 DEF Remembered, TellsRow, TellsStore

LEMMA ShareMemory ==
    ASSUME Typed, NEW T, Remembered(T), NEW c \in Chats, Share(c) \/ ShareFails(c)
    PROVE  Remembered(T)'
<1>1. context \in [Chats -> Known] /\ Keys = {"memory", "summary"}
  BY TypeParts, ConstantsAssumption DEF Typed, ChatsOK
<1>2. UNCHANGED <<session, snap, work>>
  BY DEF Share, ShareFails, database
<1>3. DOMAIN redis = Keys /\ DOMAIN local = Keys
  BY TypeParts DEF Typed, CacheOK, StoreOK
<1>4. /\ redis'["memory"] \in {redis["memory"], context[c].memory}
      /\ local'["memory"] \in {local["memory"], context[c].memory}
  BY <1>1, <1>3 DEF Share, ShareFails, Set, SetFails, Shared
<1>5. \A d \in Chats : context'[d].memory \in {NoMemory, context[d].memory}
  BY <1>1 DEF Share, ShareFails, NoContext
<1>6. Tells(T, NoMemory)
  BY DEF Tells, NoMemory
<1> QED
  BY <1>2, <1>4, <1>5, <1>6 DEF Remembered, TellsRow, TellsStore

LEMMA WriteMemory ==
    ASSUME Typed, NEW T, Remembered(T), NEW c \in Chats, NEW r, Tells(T, r.memory), WriteRow(c, r)
    PROVE  TellsRow(T, session') /\ \A d \in Chats : TellsRow(T, work'[d].row)
<1>1. work \in [Chats -> Work]
  BY TypeParts DEF Typed, ChatsOK
<1>2. session' \in {session, r} /\ \A d \in Chats : work'[d].row \in {work[d].row, r}
  BY <1>1 DEF WriteRow, Work
<1> QED
  BY <1>2 DEF Remembered, TellsRow

LEMMA RowMemory ==
    ASSUME Typed, NEW T, Remembered(T), NEW c \in Chats,
           CreateSession(c) \/ Remember(c) \/ Summarize(c),
           pc[c] \in AfterAnswer => c \in T
    PROVE  Remembered(T)'
<1>1. context \in [Chats -> Known]
  BY TypeParts DEF Typed, ChatsOK
<1>2. UNCHANGED <<snap, redis, local>>
  BY DEF CreateSession, Remember, Summarize, cacheVars
<1>3. ASSUME pc[c] \notin Rowless
      PROVE  NewestRow(c) \in Row /\ Tells(T, NewestRow(c).memory)
  <2>1. NewestRow(c) # None
    BY <1>3 DEF Typed, RowsSeen, SeenRow, NewestRow
  <2>2. TellsRow(T, NewestRow(c))
    BY DEF NewestRow, Remembered
  <2> QED
    BY <2>1, <2>2, SeenTyped DEF Typed, TellsRow
<1>4. CASE CreateSession(c)
  <2>1. Tells(T, NewRow.memory)
    BY DEF NewRow, NoMemory, Tells
  <2>2. TellsRow(T, session') /\ \A d \in Chats : TellsRow(T, work'[d].row)
    BY <1>4, <2>1, WriteMemory DEF CreateSession
  <2> QED
    BY <1>2, <1>4, <2>2 DEF CreateSession, Remembered, TellsRow, TellsStore
<1>5. CASE Summarize(c)
  <2> DEFINE r == [NewestRow(c) EXCEPT !.summary = context[c].summary]
  <2>1. NewestRow(c) \in Row /\ Tells(T, NewestRow(c).memory)
    BY <1>3, <1>5 DEF Summarize, At, Rowless
  <2>2. r.memory = NewestRow(c).memory /\ WriteRow(c, r)
    BY <1>5, <2>1 DEF Summarize, Row
  <2> HIDE DEF r
  <2>3. TellsRow(T, session') /\ \A d \in Chats : TellsRow(T, work'[d].row)
    BY <2>1, <2>2, WriteMemory
  <2> QED
    BY <1>2, <1>5, <2>3 DEF Summarize, Remembered, TellsRow, TellsStore
<1>6. CASE Remember(c)
  <2> DEFINE m == Merge(context[c].memory, c)
             r == [NewestRow(c) EXCEPT !.memory = m]
  <2>1. NewestRow(c) \in Row
    BY <1>3, <1>6 DEF Remember, At, Rowless
  <2>2. c \in T /\ Tells(T, context[c].memory)
    BY <1>6 DEF Remember, At, AfterAnswer, Remembered
  <2>3. Tells(T, m)
    BY <2>2 DEF Merge, Tells
  <2>4. r.memory = m /\ WriteRow(c, r)
    BY <1>6, <2>1 DEF Remember, Row
  <2>5. context' = [context EXCEPT ![c] = [NoContext EXCEPT !.memory = m]]
    BY <1>6 DEF Remember
  <2>6. [NoContext EXCEPT !.memory = m].memory = m
    BY DEF NoContext
  <2> HIDE DEF r, m
  <2>7. TellsRow(T, session') /\ \A d \in Chats : TellsRow(T, work'[d].row)
    BY <2>3, <2>4, WriteMemory
  <2>8. \A d \in Chats : Tells(T, context'[d].memory)
    BY <1>1, <2>3, <2>5, <2>6 DEF Remembered
  <2> QED
    BY <1>2, <2>7, <2>8 DEF Remembered, TellsRow, TellsStore
<1> QED
  BY <1>4, <1>5, <1>6

LEMMA CommitMemory ==
    ASSUME Typed, NEW T, Remembered(T), NEW c \in Chats, Commit(c)
    PROVE  Remembered(T)'
<1>1. work \in [Chats -> Work] /\ snap \in [Chats -> Snap]
  BY TypeParts DEF Typed, ChatsOK
<1>2. TellsRow(T, session')
  BY DEF Commit, NewestRow, Remembered
<1>3. \A d \in Chats : /\ snap'[d].row \in {None, snap[d].row}
                      /\ work'[d].row \in {None, work[d].row}
  BY <1>1 DEF Commit, NoSnapshot, NoWork
<1>4. UNCHANGED <<context, redis, local>>
  BY DEF Commit, cacheVars
<1> QED
  BY <1>2, <1>3, <1>4 DEF Remembered, TellsRow, TellsStore

LEMMA CrashMemory ==
    ASSUME NEW T, Remembered(T), Crash
    PROVE  Remembered(T)'
<1>1. Keys = {"memory", "summary"}
  BY ConstantsAssumption
<1>2. Tells(T, NoMemory)
  BY DEF Tells, NoMemory
<1>3. UNCHANGED <<session, redis>> /\ local'["memory"] = Miss
  BY <1>1 DEF Crash, Restarted, database
<1>4. \A d \in Chats : snap'[d].row = None /\ work'[d].row = None /\ context'[d].memory = NoMemory
  BY DEF Crash, NoSnapshot, NoWork, NoContext
<1> QED
  BY <1>2, <1>3, <1>4 DEF Remembered, TellsRow, TellsStore

\* The steps that write messages and events, or nothing at all.
LEMMA PlainMemory ==
    ASSUME Typed, NEW T, Remembered(T), NEW c \in Chats,
           \/ FindSession(c) \/ CreateCollides(c) \/ Ask(c) \/ LogReceived(c) \/ AskModel(c)
           \/ GoAnswers(c)
           \/ GoProposes(c) \/ GoFails(c) \/ Call(c) \/ Receive(c) \/ GiveUp(c) \/ Answer(c)
           \/ LogReturned(c) \/ Reply(c) \/ Runtime(c)
           \/ StatementFails(c) \/ ErrorIgnored(c) \/ CommitFails(c)
    PROVE  Remembered(T)'
<1>1. DatabaseOK /\ ChatsOK
  BY TypeParts DEF Typed
<1>2. CASE Ask(c) \/ Answer(c)
  <2>1. \A d \in Chats : work'[d].row = work[d].row
    BY <1>1, <1>2, AddTyped DEF Ask, Answer
  <2> QED
    BY <1>2, <2>1, MemoryKept DEF Ask, Answer, cacheVars
<1>3. CASE LogReceived(c) \/ LogReturned(c)
  <2>1. \A d \in Chats : work'[d].row = work[d].row
    BY <1>1, <1>3, LogTyped DEF LogReceived, LogReturned
  <2> QED
    BY <1>3, <2>1, MemoryKept DEF LogReceived, LogReturned, cacheVars
<1>4. CASE GoProposes(c)
  <2>1. \A d \in Chats : work'[d].row = work[d].row
    BY <1>1, <1>4 DEF GoProposes, ChatsOK, Work
  <2> QED
    BY <1>4, <2>1, MemoryKept DEF GoProposes, database, cacheVars
<1>5. CASE FindSession(c) \/ AskModel(c) \/ GoAnswers(c) \/ Call(c) \/ Receive(c) \/ Reply(c)
        \/ Runtime(c)
  <2>1. UNCHANGED <<session, snap, work, context, redis, local>>
    BY <1>5 DEF FindSession, AskModel, GoAnswers, Planning, Call, Receive, Reply, Runtime,
                RuntimeProposes, RuntimeEnds, database, cacheVars
  <2> QED
    BY <2>1, MemoryKept
<1>6. CASE CreateCollides(c) \/ GoFails(c) \/ GiveUp(c) \/ StatementFails(c)
  <2>1. Refuse(c)
    BY <1>6 DEF CreateCollides, GoFails, GiveUp, StatementFails
  <2> QED
    BY <2>1, MemoryKept DEF Refuse, database, cacheVars
<1>7. CASE ErrorIgnored(c) \/ CommitFails(c)
  BY <1>7, MemoryKept DEF ErrorIgnored, CommitFails, database, cacheVars
<1> QED
  BY <1>2, <1>3, <1>4, <1>5, <1>6, <1>7

LEMMA MemoryInit == Init => Remembered(Turned)
<1>1. Keys = {"memory", "summary"}
  BY ConstantsAssumption
<1> QED
  BY <1>1 DEF Init, CacheInit, Remembered, TellsRow, TellsStore, Tells, NoSnapshot, NoWork,
              NoContext, NoMemory

LEMMA MemoryNext ==
    ASSUME Typed, TurnInv, Remembered(Turned), [Next]_vars
    PROVE  Remembered(Turned)'
<1>1. PICK T : T = Turned
  OBVIOUS
<1>2. Remembered(T)
  BY <1>1
<1>3. T \subseteq Turned'
  BY <1>1, TurnedGrows
<1>4. \A c \in Chats : pc[c] \in AfterAnswer => c \in T
  BY <1>1 DEF Turned
<1>5. Remembered(T)'
  <2>1. ASSUME NEW c \in Chats, NEW m \in Modes, Start(c, m)
        PROVE  Remembered(T)'
    BY <1>2, <2>1, StartMemory
  <2>2. ASSUME NEW c \in Chats, Proceed(c)
        PROVE  Remembered(T)'
    BY <1>2, <1>4, <2>2, PlainMemory, RowMemory, ReadMemory, LookUpMemory, ShareMemory, CommitMemory
       DEF Proceed
  <2>3. ASSUME NEW c \in Chats, Runtime(c) \/ Fails(c)
        PROVE  Remembered(T)'
    BY <1>2, <2>3, PlainMemory, LookUpMemory, ShareMemory DEF Fails
  <2>4. CASE RedisReturns \/ Finished \/ UNCHANGED vars
    <3>1. UNCHANGED <<session, snap, work, context, redis, local>>
      BY <2>4 DEF RedisReturns, Reenable, Finished, vars, database
    <3> QED
      BY <1>2, <3>1 DEF Remembered, TellsRow, TellsStore
  <2> QED
    BY <1>2, <2>1, <2>2, <2>3, <2>4, CrashMemory DEF Next
<1> QED
  BY <1>3, <1>5 DEF Remembered, TellsRow, TellsStore, Tells

-----------------------------------------------------------------------------
(* The theorems.                                                           *)

IInv == Typed /\ TurnInv /\ RaceInv /\ Remembered(Turned)

LEMMA Invariance == Spec => []IInv
<1>1. Init => IInv
  BY TypedInit, TurnInit, RaceInit, MemoryInit DEF IInv
<1>2. IInv /\ [Next]_vars => IInv'
  BY TypedNext, TurnNext, RaceNext, MemoryNext DEF IInv
<1> QED
  BY <1>1, <1>2, PTL DEF Spec

\* Nothing of a turn is recorded before the message that caused it, whoever answers and
\* whatever fails: the runtime, which works on after its client has given up, included.
THEOREM TurnsInOrder == Spec => []TurnInOrder
<1>1. IInv => TurnInOrder
  <2> SUFFICES ASSUME IInv
               PROVE  TurnInOrder
    OBVIOUS
  <2>1. messages \subseteq Message /\ proposals \subseteq Chats
    BY TypeParts DEF IInv, Typed, DatabaseOK
  <2>2. Answered \subseteq Chats
    BY <2>1, SaidParts DEF SaidIn, Message
  <2>3. Answered \subseteq Asked
    BY <2>2 DEF IInv, TurnInv, ChatInv, Whole
  <2>4. ASSUME NEW c \in proposals
        PROVE  c \in Asked
    BY <2>1, <2>3 DEF IInv, TurnInv, ChatInv, Whole, Remote
  <2> QED
    BY <2>3, <2>4 DEF IInv, TurnInv, InOrder, EventsFollow, TurnInOrder
<1> QED
  BY <1>1, Invariance, PTL

\* The transaction of withTx makes a turn of the Go planner one: its message, its answer
\* and its proposal are all recorded or none of them is.
THEOREM TurnsAreWhole == Spec => []WholeTurns
<1>1. IInv => WholeTurns
  BY DEF IInv, TurnInv, ChatInv, Whole, WholeTurns
<1> QED
  BY <1>1, Invariance, PTL

\* What the client of a chat is told is what the conversation holds: an error means no
\* answer, and an answer is there unless its commit was lost after RespondJSON.
THEOREM ToldTruly == Spec => []ToldIsRecorded
<1>1. IInv => ToldIsRecorded
  BY DEF IInv, TurnInv, ChatInv, TellsTruly, ToldIsRecorded
<1> QED
  BY <1>1, Invariance, PTL

\* No chat meets the UNIQUE session_id unless another chat of the session was in flight
\* with it (GetOrCreate).
THEOREM OnlyRacesCollide == Spec => []CollisionsAreRaces
<1>1. IInv => CollisionsAreRaces
  <2> SUFFICES ASSUME IInv, NEW c \in Chats, At(c, "create"), session # None, c \notin overlapped
               PROVE  FALSE
    BY DEF CollisionsAreRaces
  <2>1. c \in Active
    BY DEF At, Active
  <2> QED
    BY <2>1 DEF IInv, RaceInv
<1> QED
  BY <1>1, Invariance, PTL

\* A memory reaches the cache before its transaction is committed; even so it tells only of
\* turns that were answered, are about to be, or were lost by a crash or a failed commit.
THEOREM CacheIsTruthful == Spec => []CacheTellsOfTurns
<1>1. IInv => CacheTellsOfTurns
  <2> SUFFICES ASSUME IInv, NEW store \in {redis, local}, store["memory"] # Miss,
                      NEW c \in {store["memory"].ticket, store["memory"].last} \ {None}
               PROVE  c \in Answered \/ c \in Active \/ c \in lost
    BY DEF CacheTellsOfTurns
  <2>1. TellsStore(Turned, store)
    BY DEF IInv, Remembered
  <2>2. c \in Turned
    BY <2>1 DEF TellsStore, Tells
  <2> QED
    BY <2>2 DEF Turned, Active, AfterAnswer
<1> QED
  BY <1>1, Invariance, PTL

-----------------------------------------------------------------------------
(* The order of the cache.                                                 *)

\* Nothing has failed and only the Go planner answers.
Smooth == faults = 0 /\ \A c \in Chats : mode[c] \in {None, "go"}

Holds(c) == work[c].row # None
SharedMemory == {"list", "summarize", "shareSummary", "returned", "reply", "commit"}
SharedSummary == {"returned", "reply", "commit"}

\* While c holds the row, the cache shows the session, or what c has shared of its own row.
HolderShares(c) ==
    /\ pc[c] = "share" => work[c].row.memory = context[c].memory
    /\ pc[c] = "shareSummary" => work[c].row.summary = context[c].summary
    /\ pc[c] \notin {"shareSummary"} \cup SharedSummary /\ session # None =>
            work[c].row.summary = session.summary
    /\ redis["memory"] # Miss =>
            IF pc[c] \in SharedMemory THEN redis["memory"] = work[c].row.memory
            ELSE session # None /\ redis["memory"] = session.memory
    /\ redis["summary"] # Miss =>
            IF pc[c] \in SharedSummary THEN redis["summary"] = work[c].row.summary
            ELSE session # None /\ redis["summary"] = session.summary

LockInv ==
    /\ disabled = FALSE
    /\ \A c \in Chats : pc[c] = "new" => ~ Holds(c)
    /\ \A c \in Chats : pc[c] = "done" => ~ Holds(c)
    /\ \A c \in Chats : pc[c] \in {"share"} \cup SharedMemory => Holds(c)
    /\ \A c, d \in Chats : Holds(c) /\ Holds(d) => c = d
    /\ \A c \in Chats : Holds(c) => HolderShares(c)
    /\ (\A c \in Chats : ~ Holds(c)) =>
            /\ redis["memory"] # Miss => session # None /\ redis["memory"] = session.memory
            /\ redis["summary"] # Miss => session # None /\ redis["summary"] = session.summary

\* The mode of a chat is chosen when it starts.
Chosen == \A c \in Chats : pc[c] = "new" <=> mode[c] = None

\* The steps of a chat between the states of HolderShares.
WithinPhase(p, q) ==
    \/ p \notin {"share"} \cup SharedMemory /\ q \notin {"share", "new", "done"} \cup SharedMemory
    \/ p = "list" /\ q \in {"summarize", "returned"}
    \/ p = "returned" /\ q = "reply"
    \/ p = "reply" /\ q = "commit"

LEMMA LockQuiet ==
    ASSUME Typed, LockInv, NEW c \in Chats, NEW q, WithinPhase(pc[c], q),
           pc' = [pc EXCEPT ![c] = q], session' = session, disabled' = FALSE,
           \A d \in Chats : work'[d].row = work[d].row,
           \A d \in Chats \ {c} : context'[d] = context[d],
           redis'["memory"] \in {Miss, redis["memory"]},
           redis'["summary"] \in {Miss, redis["summary"]}
    PROVE  LockInv'
<1>1. pc'[c] = q /\ \A d \in Chats \ {c} : pc'[d] = pc[d]
  BY TypeParts DEF Typed, ChatsOK
<1>2. \A d \in Chats : Holds(d)' = Holds(d)
  BY DEF Holds
<1>3. \A d \in Chats \ {c} : Holds(d) => HolderShares(d)'
  BY <1>1 DEF LockInv, HolderShares
<1>4. Holds(c) => HolderShares(c)'
  BY <1>1 DEF LockInv, HolderShares, WithinPhase, SharedMemory, SharedSummary
<1>5. \A d \in Chats : pc'[d] = "new" \/ pc'[d] = "done" => ~ Holds(d)
  BY <1>1 DEF LockInv, WithinPhase, SharedMemory
<1>6. \A d \in Chats : pc'[d] \in {"share"} \cup SharedMemory => Holds(d)
  BY <1>1 DEF LockInv, WithinPhase, SharedMemory
<1> QED
  BY <1>2, <1>3, <1>4, <1>5, <1>6 DEF LockInv

\* A chat that ends before it has shared anything.
LEMMA LockRefuse ==
    ASSUME Typed, LockInv, NEW c \in Chats, Refuse(c), pc[c] \notin {"share"} \cup SharedMemory
    PROVE  LockInv'
<1>1. /\ pc'[c] = "done" /\ \A d \in Chats \ {c} : pc'[d] = pc[d]
      /\ \A d \in Chats \ {c} : work'[d] = work[d] /\ context'[d] = context[d]
      /\ work'[c].row = None
      /\ UNCHANGED <<session, redis, disabled>>
  BY TypeParts DEF Typed, ChatsOK, Refuse, Goto, NoWork, database, cacheVars
<1>2. ~ Holds(c)' /\ \A d \in Chats \ {c} : Holds(d)' = Holds(d)
  BY <1>1 DEF Holds
<1>3. \A d \in Chats \ {c} : Holds(d) => HolderShares(d)'
  BY <1>1 DEF LockInv, HolderShares
<1>4. Holds(c) => /\ redis["memory"] # Miss => session # None /\ redis["memory"] = session.memory
                  /\ redis["summary"] # Miss => session # None /\ redis["summary"] = session.summary
  BY DEF LockInv, HolderShares, SharedMemory, SharedSummary
<1>5. (\A d \in Chats : ~ Holds(d)') =>
          /\ redis["memory"] # Miss => session # None /\ redis["memory"] = session.memory
          /\ redis["summary"] # Miss => session # None /\ redis["summary"] = session.summary
  BY <1>2, <1>4 DEF LockInv
<1> QED
  BY <1>1, <1>2, <1>3, <1>5 DEF LockInv, SharedMemory

\* The row is written by the only chat that may.
LEMMA LockWrite ==
    ASSUME Typed, LockInv, NEW c \in Chats, Go(c), RowFree(c), NEW r \in Row, WriteRow(c, r), NEW q,
           pc' = [pc EXCEPT ![c] = q], q \notin {"new", "done"},
           \A d \in Chats \ {c} : context'[d] = context[d],
           UNCHANGED <<redis, disabled>>
    PROVE  /\ Holds(c)' /\ work'[c].row = r /\ session' = session /\ pc'[c] = q
           /\ HolderShares(c)' => LockInv'
<1>1. work[c] \in Work /\ work \in [Chats -> Work] /\ pc \in [Chats -> PCs]
  BY TypeParts DEF Typed, ChatsOK
<1>2. r # None
  BY ConstantsAssumption
<1>3. /\ work'[c].row = r /\ session' = session
      /\ \A d \in Chats \ {c} : work'[d] = work[d]
      /\ pc'[c] = q /\ \A d \in Chats \ {c} : pc'[d] = pc[d]
  BY <1>1 DEF WriteRow, Work
<1>4. Holds(c)' /\ \A d \in Chats \ {c} : ~ Holds(d)' /\ ~ Holds(d)
  BY <1>2, <1>3 DEF Holds, RowFree
<1> QED
  BY <1>3, <1>4 DEF LockInv

LEMMA LockRow ==
    ASSUME Typed, LockInv, NEW c \in Chats, Go(c),
           CreateSession(c) \/ Remember(c) \/ Summarize(c)
    PROVE  LockInv'
<1>1. /\ context \in [Chats -> Known] /\ UNCHANGED <<redis, disabled>> /\ RowFree(c)
      /\ TypeOK
  BY TypeParts DEF Typed, ChatsOK, CreateSession, Remember, Summarize, cacheVars
<1>2. \A d \in Chats \ {c} : ~ Holds(d)
  BY <1>1 DEF RowFree, Holds
<1>3. ASSUME pc[c] \notin {"share"} \cup SharedMemory
      PROVE  /\ redis["memory"] # Miss => session # None /\ redis["memory"] = session.memory
             /\ redis["summary"] # Miss => session # None /\ redis["summary"] = session.summary
  BY <1>2, <1>3 DEF LockInv, HolderShares, SharedMemory, SharedSummary
<1>4. ASSUME pc[c] \notin Rowless
      PROVE  /\ NewestRow(c) \in Row
             /\ NewestRow(c) = IF Holds(c) THEN work[c].row ELSE session
  <2>1. NewestRow(c) # None
    BY <1>4 DEF Typed, RowsSeen, SeenRow, NewestRow
  <2> QED
    BY <1>1, <2>1, SeenTyped DEF NewestRow, Holds
<1>5. CASE CreateSession(c)
  <2>1. pc[c] = "create" /\ session = None /\ WriteRow(c, NewRow)
        /\ pc' = [pc EXCEPT ![c] = "ask"] /\ context' = context
    BY <1>5 DEF CreateSession, At, Goto
  <2>2. redis["memory"] = Miss /\ redis["summary"] = Miss
    BY <1>3, <2>1 DEF SharedMemory
  <2>3. session' = session /\ pc'[c] = "ask" /\ (HolderShares(c)' => LockInv')
    BY <1>1, <2>1, Nothing, LockWrite
  <2> QED
    BY <1>1, <2>1, <2>2, <2>3 DEF HolderShares, SharedSummary
<1>6. CASE Remember(c)
  <2> DEFINE m == Merge(context[c].memory, c)
             r == [NewestRow(c) EXCEPT !.memory = m]
  <2>1. pc[c] = "remember" /\ WriteRow(c, r) /\ pc' = [pc EXCEPT ![c] = "share"]
        /\ context' = [context EXCEPT ![c] = [NoContext EXCEPT !.memory = m]]
    BY <1>6 DEF Remember, At, Goto
  <2>2. NewestRow(c) \in Row /\ NewestRow(c) = IF Holds(c) THEN work[c].row ELSE session
    BY <1>4, <2>1 DEF Rowless
  <2>3. m \in Memory
    BY <1>1, MergeTyped DEF Known
  <2>4. r \in Row /\ r.memory = m /\ r.summary = NewestRow(c).summary
    BY <2>2, <2>3 DEF Row
  <2>5. context'[c].memory = m /\ \A d \in Chats \ {c} : context'[d] = context[d]
    BY <1>1, <2>1 DEF NoContext
  <2> HIDE DEF r, m
  <2>6. /\ work'[c].row = r /\ session' = session /\ pc'[c] = "share"
        /\ HolderShares(c)' => LockInv'
    <3>1. UNCHANGED <<redis, disabled>> /\ RowFree(c) /\ r \in Row
      BY <1>1, <2>4
    <3>2. "share" \notin {"new", "done"}
      OBVIOUS
    <3> QED
      BY <2>1, <2>5, <3>1, <3>2, LockWrite
  <2>7. session # None => r.summary = session.summary
    <3>1. Holds(c) /\ session # None => work[c].row.summary = session.summary
      BY <2>1 DEF LockInv, HolderShares, SharedSummary
    <3> QED
      BY <2>2, <2>4, <3>1
  <2>8. /\ redis["memory"] # Miss => session # None /\ redis["memory"] = session.memory
        /\ redis["summary"] # Miss => session # None /\ redis["summary"] = session.summary
    BY <1>3, <2>1 DEF SharedMemory
  <2>9. HolderShares(c)'
    BY <1>1, <2>4, <2>5, <2>6, <2>7, <2>8 DEF HolderShares, SharedMemory, SharedSummary
  <2> QED
    BY <2>6, <2>9
<1>7. CASE Summarize(c)
  <2> DEFINE r == [NewestRow(c) EXCEPT !.summary = context[c].summary]
  <2>1. pc[c] = "summarize" /\ WriteRow(c, r) /\ pc' = [pc EXCEPT ![c] = "shareSummary"]
        /\ context' = context
    BY <1>7 DEF Summarize, At, Goto
  <2>2. Holds(c) /\ HolderShares(c)
    BY <2>1 DEF LockInv, SharedMemory
  <2>3. NewestRow(c) \in Row /\ NewestRow(c) = work[c].row
    BY <1>4, <2>1, <2>2 DEF Rowless
  <2>4. r \in Row /\ r.memory = work[c].row.memory /\ r.summary = context[c].summary
    BY <1>1, <2>3 DEF Row, Known
  <2> HIDE DEF r
  <2>5. /\ work'[c].row = r /\ session' = session /\ pc'[c] = "shareSummary"
        /\ HolderShares(c)' => LockInv'
    <3>1. UNCHANGED <<redis, disabled>> /\ RowFree(c) /\ r \in Row
      BY <1>1, <2>4
    <3>2. "shareSummary" \notin {"new", "done"} /\ \A d \in Chats \ {c} : context'[d] = context[d]
      BY <2>1
    <3> QED
      BY <2>1, <3>1, <3>2, LockWrite
  <2>6. HolderShares(c)'
    BY <1>1, <2>1, <2>2, <2>4, <2>5 DEF HolderShares, SharedMemory, SharedSummary
  <2> QED
    BY <2>5, <2>6
<1> QED
  BY <1>5, <1>6, <1>7

LEMMA LockShare ==
    ASSUME Typed, LockInv, NEW c \in Chats, Share(c)
    PROVE  LockInv'
<1>1. /\ redis \in [Keys -> {redis[k] : k \in Keys}] \/ DOMAIN redis = Keys
      /\ context \in [Chats -> Known] /\ pc \in [Chats -> PCs]
      /\ Keys = {"memory", "summary"}
  BY TypeParts, ConstantsAssumption DEF Typed, ChatsOK, CacheOK, StoreOK
<1>2. disabled = FALSE /\ disabled' = FALSE
  BY DEF LockInv, Share, Set
<1>3. /\ UNCHANGED <<session, work>>
      /\ \A d \in Chats \ {c} : context'[d] = context[d] /\ pc'[d] = pc[d]
      /\ pc'[c] = Shared(c).next
      /\ redis' = [redis EXCEPT ![Shared(c).key] = Shared(c).value]
  BY <1>1, <1>2 DEF Share, Goto, Set, database
<1>4. Holds(c) /\ HolderShares(c) /\ \A d \in Chats \ {c} : ~ Holds(d)
  BY DEF LockInv, Share, SharedMemory
<1>5. \A d \in Chats : Holds(d)' = Holds(d)
  BY <1>3 DEF Holds
<1>6. DOMAIN redis = Keys
  BY TypeParts DEF Typed, CacheOK, StoreOK
<1>7. CASE pc[c] = "share"
  <2>1. /\ pc'[c] = "list" /\ redis'["memory"] = context[c].memory
        /\ redis'["summary"] = redis["summary"]
    BY <1>1, <1>3, <1>6, <1>7 DEF Shared, At
  <2>2. HolderShares(c)'
    BY <1>3, <1>4, <1>7, <2>1 DEF HolderShares, SharedMemory, SharedSummary
  <2> QED
    BY <1>2, <1>3, <1>4, <1>5, <2>1, <2>2 DEF LockInv
<1>8. CASE pc[c] = "shareSummary"
  <2>1. /\ pc'[c] = "returned" /\ redis'["summary"] = context[c].summary
        /\ redis'["memory"] = redis["memory"]
    BY <1>1, <1>3, <1>6, <1>8 DEF Shared, At
  <2>2. HolderShares(c)'
    BY <1>3, <1>4, <1>8, <2>1 DEF HolderShares, SharedMemory, SharedSummary
  <2> QED
    BY <1>2, <1>3, <1>4, <1>5, <2>1, <2>2 DEF LockInv
<1> QED
  BY <1>7, <1>8 DEF Share

LEMMA LockCommit ==
    ASSUME Typed, LockInv, NEW c \in Chats, Commit(c)
    PROVE  LockInv'
<1>1. /\ pc[c] = "commit" /\ pc'[c] = "done" /\ \A d \in Chats \ {c} : pc'[d] = pc[d]
      /\ work'[c].row = None /\ \A d \in Chats \ {c} : work'[d] = work[d]
      /\ session' = NewestRow(c) /\ UNCHANGED <<context, redis, disabled>>
  BY TypeParts DEF Typed, ChatsOK, Commit, Goto, At, NoWork, cacheVars
<1>2. Holds(c) /\ HolderShares(c) /\ \A d \in Chats \ {c} : ~ Holds(d)
  BY <1>1 DEF LockInv, SharedMemory
<1>3. session' = work[c].row /\ session' # None
  BY <1>1, <1>2 DEF NewestRow, Holds
<1>4. \A d \in Chats : ~ Holds(d)'
  BY <1>1, <1>2 DEF Holds
<1>5. /\ redis["memory"] # Miss => redis["memory"] = session'.memory
      /\ redis["summary"] # Miss => redis["summary"] = session'.summary
  BY <1>1, <1>2, <1>3 DEF HolderShares, SharedMemory, SharedSummary
<1>6. \A d \in Chats : pc'[d] \notin {"share"} \cup SharedMemory
  BY <1>1, <1>2 DEF LockInv, SharedMemory
<1> QED
  BY <1>1, <1>3, <1>4, <1>5, <1>6 DEF LockInv

LEMMA SmoothBefore ==
    ASSUME Typed, Chosen, [Next]_vars, Smooth'
    PROVE  Smooth /\ faults' = faults
<1>1. faults \in Nat
  BY TypeParts, ConstantsAssumption DEF Typed, HistoryOK
<1>2. faults' = faults
  <2>1. faults' = faults \/ faults' = faults + 1
    BY DEF Next, Start, Proceed, Runtime, Fails, FindSession, CreateSession, CreateCollides,
         Ask, LogReceived, ReadRows, LookUp, AskModel, GoAnswers, Planning, GoProposes,
         GoFails, Call, Receive,
         GiveUp, Answer, Remember, Share, ListOlder, Summarize, LogReturned, Reply, Commit,
         RuntimeProposes, RuntimeEnds, LookUpFails, ShareFails, StatementFails, Fault,
         ErrorIgnored, CommitFails, Crash, RedisReturns, Finished, vars, history
  <2> QED
    BY <1>1, <2>1 DEF Smooth
<1>3. ASSUME NEW c \in Chats
      PROVE  mode[c] \in {None, mode'[c]}
  <2>1. ASSUME NEW d \in Chats, NEW m \in Modes, Start(d, m)
        PROVE  mode[c] \in {None, mode'[c]}
    BY <2>1, TypeParts DEF Typed, ChatsOK, Start, At, Chosen
  <2>2. ASSUME NEW d \in Chats, Proceed(d) \/ Runtime(d) \/ Fails(d)
        PROVE  mode' = mode
    BY <2>2 DEF Proceed, Runtime, Fails, FindSession, CreateSession, CreateCollides,
         Ask, LogReceived, ReadRows, LookUp, AskModel, GoAnswers, Planning, GoProposes,
         GoFails, Call, Receive,
         GiveUp, Answer, Remember, Share, ListOlder, Summarize, LogReturned, Reply, Commit,
         RuntimeProposes, RuntimeEnds, LookUpFails, ShareFails, StatementFails,
         ErrorIgnored, CommitFails, Refuse
  <2>3. CASE Crash \/ RedisReturns \/ Finished \/ UNCHANGED vars
    BY <2>3 DEF Crash, RedisReturns, Finished, vars
  <2> QED
    BY <2>1, <2>2, <2>3 DEF Next
<1> QED
  BY <1>2, <1>3 DEF Smooth

LEMMA ChosenNext ==
    ASSUME Typed, Chosen, [Next]_vars
    PROVE  Chosen'
<1>1. pc \in [Chats -> PCs] /\ mode \in [Chats -> Modes \cup {None}] /\ None \notin Modes
  BY TypeParts, ConstantsAssumption DEF Typed, ChatsOK
<1>2. ASSUME NEW d \in Chats, NEW m \in Modes, Start(d, m)
      PROVE  Chosen'
  BY <1>1, <1>2 DEF Start, Goto, At, Chosen
<1>3. ASSUME mode' = mode, \A c \in Chats : pc'[c] = "new" <=> pc[c] = "new"
      PROVE  Chosen'
  BY <1>3 DEF Chosen
<1>4. ASSUME NEW d \in Chats, Proceed(d)
      PROVE  Chosen'
  <2>1. CASE \/ FindSession(d) \/ CreateSession(d) \/ CreateCollides(d) \/ Ask(d)
             \/ LogReceived(d) \/ AskModel(d) \/ GoAnswers(d) \/ GoProposes(d) \/ GoFails(d)
             \/ Call(d)
             \/ Receive(d) \/ GiveUp(d) \/ Answer(d) \/ Commit(d)
    BY <1>1, <1>3, <2>1
       DEF FindSession, CreateSession, CreateCollides, Ask, LogReceived, AskModel, GoAnswers,
           Planning, GoProposes,
           GoFails, Call, Receive, GiveUp, Answer, Commit, Refuse, Goto, At
  <2>2. CASE ReadRows(d) \/ LookUp(d) \/ Remember(d) \/ Share(d)
    BY <1>1, <1>3, <2>2
       DEF ReadRows, LookUp, AfterLookUp, Remember, Share, Shared, Goto, At
  <2>3. CASE ListOlder(d) \/ Summarize(d) \/ LogReturned(d) \/ Reply(d)
    BY <1>1, <1>3, <2>3 DEF ListOlder, Summarize, LogReturned, Reply, Goto, At
  <2> QED
    BY <1>4, <2>1, <2>2, <2>3 DEF Proceed
<1>5. ASSUME NEW d \in Chats, Runtime(d) \/ Fails(d)
      PROVE  Chosen'
  <2>1. CASE LookUpFails(d) \/ ShareFails(d) \/ Runtime(d)
    BY <1>1, <1>3, <2>1 DEF LookUpFails, AfterLookUp, ShareFails, Shared, Goto, At, Runtime,
                            RuntimeProposes, RuntimeEnds
  <2>2. CASE StatementFails(d) \/ ErrorIgnored(d) \/ CommitFails(d)
    BY <1>1, <1>3, <2>2 DEF StatementFails, Refuse, ErrorIgnored, Skipped, CommitFails, Goto, At
  <2> QED
    BY <1>5, <2>1, <2>2 DEF Fails
<1>6. CASE Crash
  BY <1>1, <1>3, <1>6 DEF Crash, Active
<1>7. CASE RedisReturns \/ Finished \/ UNCHANGED vars
  BY <1>3, <1>7 DEF RedisReturns, Finished, vars
<1> QED
  BY <1>2, <1>4, <1>5, <1>6, <1>7 DEF Next

LEMMA LockNext ==
    ASSUME Typed, Chosen, Smooth => LockInv, [Next]_vars, Smooth'
    PROVE  LockInv'
<1>1. Smooth /\ LockInv /\ faults' = faults /\ faults \in Nat
  BY SmoothBefore, TypeParts, ConstantsAssumption DEF Typed, HistoryOK
<1>2. ~ Fault
  BY <1>1 DEF Fault
<1>3. DatabaseOK /\ ChatsOK /\ CacheOK /\ TypeOK
  BY TypeParts DEF Typed
<1>4. ASSUME NEW c \in Chats, NEW m \in Modes, Start(c, m)
      PROVE  LockInv'
  <2>1. WithinPhase(pc[c], "session")
    BY <1>4 DEF Start, At, WithinPhase, SharedMemory
  <2> QED
    BY <1>1, <1>4, <2>1, LockQuiet DEF Start, Goto, database, cacheVars, LockInv
<1>5. ASSUME NEW c \in Chats, pc[c] # "new"
      PROVE  Go(c)
  BY <1>1, <1>3, <1>5, <1>2 DEF Chosen, Smooth, Go, ChatsOK
<1>6. ASSUME NEW c \in Chats, Proceed(c)
      PROVE  LockInv'
  <2>1. Go(c)
    BY <1>5, <1>6 DEF Proceed, FindSession, CreateSession, CreateCollides,
         Ask, LogReceived, ReadRows, LookUp, AskModel, GoAnswers, Planning, GoProposes,
         GoFails, Call, Receive,
         GiveUp, Answer, Remember, Share, ListOlder, Summarize, LogReturned, Reply, Commit, At
  <2>2. CASE CreateSession(c) \/ Remember(c) \/ Summarize(c) \/ Share(c) \/ Commit(c)
    BY <1>1, <2>1, <2>2, LockRow, LockShare, LockCommit
  <2>3. CASE CreateCollides(c) \/ GoFails(c) \/ GiveUp(c)
    BY <1>1, <2>3, LockRefuse DEF CreateCollides, GoFails, Planning, GiveUp, At, SharedMemory
  <2>4. CASE LookUp(c)
    <3>1. /\ redis'["memory"] \in {Miss, redis["memory"]}
          /\ redis'["summary"] \in {Miss, redis["summary"]}
      BY <2>4, ConstantsAssumption DEF LookUp, Expire, Aged
    <3>2. PICK q \in {"remember", "act", "call"} : pc' = [pc EXCEPT ![c] = q]
      BY <2>4 DEF LookUp, AfterLookUp, Goto
    <3>2a. WithinPhase(pc[c], q)
      BY <2>4 DEF LookUp, WithinPhase, SharedMemory
    <3>3. \A d \in Chats \ {c} : context'[d] = context[d]
      BY <1>3, <2>4 DEF LookUp, Override, ChatsOK
    <3> QED
      BY <1>1, <2>4, <3>1, <3>2, <3>2a, <3>3, LockQuiet DEF LookUp, LockInv, database
  <2>5. CASE Ask(c) \/ Answer(c)
    <3>1. \A d \in Chats : work'[d].row = work[d].row
      BY <1>3, <2>5, AddTyped DEF Ask, Answer
    <3>2. PICK q : pc' = [pc EXCEPT ![c] = q] /\ WithinPhase(pc[c], q)
      BY <2>5 DEF Ask, Answer, Goto, At, WithinPhase, SharedMemory
    <3>3. \A d \in Chats \ {c} : context'[d] = context[d]
      BY <1>3, <2>5 DEF Ask, Answer, ChatsOK
    <3> QED
      BY <1>1, <2>5, <3>1, <3>2, <3>3, LockQuiet DEF Ask, Answer, LockInv, cacheVars
  <2>6. CASE LogReceived(c) \/ LogReturned(c)
    <3>1. \A d \in Chats : work'[d].row = work[d].row
      BY <1>3, <2>6, LogTyped DEF LogReceived, LogReturned
    <3>2. PICK q : pc' = [pc EXCEPT ![c] = q] /\ WithinPhase(pc[c], q)
      BY <2>6 DEF LogReceived, LogReturned, Goto, At, WithinPhase, SharedMemory
    <3> QED
      BY <1>1, <2>6, <3>1, <3>2, LockQuiet DEF LogReceived, LogReturned, LockInv, cacheVars
  <2>7. CASE GoProposes(c)
    <3>1. \A d \in Chats : work'[d].row = work[d].row
      BY <1>3, <2>7 DEF GoProposes, ChatsOK, Work
    <3>2. WithinPhase(pc[c], "answer")
      BY <2>7 DEF GoProposes, Planning, WithinPhase, SharedMemory
    <3> QED
      BY <1>1, <2>7, <3>1, <3>2, LockQuiet DEF GoProposes, Goto, LockInv, cacheVars, database
  <2>8. CASE ReadRows(c) \/ ListOlder(c)
    <3>1. PICK q : pc' = [pc EXCEPT ![c] = q] /\ WithinPhase(pc[c], q)
      BY <2>8 DEF ReadRows, ListOlder, Goto, At, WithinPhase, SharedMemory
    <3>2. \A d \in Chats \ {c} : context'[d] = context[d]
      BY <1>3, <2>8 DEF ReadRows, ListOlder, ChatsOK
    <3> QED
      BY <1>1, <2>8, <3>1, <3>2, LockQuiet DEF ReadRows, ListOlder, LockInv, cacheVars, database
  <2>9. CASE FindSession(c) \/ AskModel(c) \/ GoAnswers(c) \/ Call(c) \/ Receive(c) \/ Reply(c)
    <3>1. PICK q : pc' = [pc EXCEPT ![c] = q] /\ WithinPhase(pc[c], q)
      BY <2>1, <2>9 DEF FindSession, AskModel, GoAnswers, Planning, Call, Receive, Reply, Goto,
                        At, WithinPhase, SharedMemory
    <3>2. UNCHANGED <<session, redis, disabled, work, context>>
      BY <2>9 DEF FindSession, AskModel, GoAnswers, Planning, Call, Receive, Reply, cacheVars,
                  database
    <3> QED
      BY <1>1, <3>1, <3>2, LockQuiet DEF LockInv
  <2> QED
    BY <1>6, <2>2, <2>3, <2>4, <2>5, <2>6, <2>7, <2>8, <2>9 DEF Proceed
<1>7. ASSUME UNCHANGED <<pc, session, work, context, redis, disabled>>
      PROVE  LockInv'
  BY <1>1, <1>7 DEF LockInv, Holds, HolderShares
<1>8. CASE Finished \/ UNCHANGED vars \/ \E c \in Chats : Runtime(c)
  BY <1>7, <1>8 DEF Finished, vars, Runtime, RuntimeProposes, RuntimeEnds, cacheVars, database
<1>9. ~ RedisReturns /\ ~ Crash /\ \A c \in Chats : ~ Fails(c)
  BY <1>1, <1>2 DEF RedisReturns, Reenable, LockInv, Crash, Fails, LookUpFails, ShareFails,
     StatementFails, ErrorIgnored, CommitFails
<1> QED
  BY <1>4, <1>6, <1>8, <1>9 DEF Next

Ordered == Typed /\ Chosen /\ (Smooth => LockInv)

LEMMA OrderedInit == Init => Ordered
<1> SUFFICES ASSUME Init
             PROVE  Ordered
  OBVIOUS
<1>1. Chosen
  BY DEF Init, Chosen
<1>2. LockInv
  BY ConstantsAssumption DEF Init, CacheInit, LockInv, Holds, HolderShares, NoWork, SharedMemory
<1> QED
  BY <1>1, <1>2, TypedInit DEF Ordered

LEMMA OrderedNext == Ordered /\ [Next]_vars => Ordered'
BY TypedNext, ChosenNext, LockNext DEF Ordered

\* While nothing fails and the Go planner answers, Redis agrees with the row of the session
\* or with the row that its only holder is about to commit: the order of the commits is the
\* order of the writes of the cache.
THEOREM CacheInOrder == Spec => []LockOrdersCache
<1>1. Ordered => LockOrdersCache
  <2> SUFFICES ASSUME Ordered, Smooth
               PROVE  LET rows == ({session} \cup {work[c].row : c \in Chats}) \ {None}
                      IN  /\ redis["memory"] # Miss =>
                                \E row \in rows : row.memory = redis["memory"]
                          /\ redis["summary"] # Miss =>
                                \E row \in rows : row.summary = redis["summary"]
    BY DEF LockOrdersCache, Smooth
  <2>1. LockInv
    BY DEF Ordered
  <2>2. CASE \A c \in Chats : ~ Holds(c)
    BY <2>1, <2>2 DEF LockInv
  <2>3. ASSUME NEW c \in Chats, Holds(c)
        PROVE  /\ redis["memory"] # Miss =>
                     \E row \in {session, work[c].row} \ {None} : row.memory = redis["memory"]
               /\ redis["summary"] # Miss =>
                     \E row \in {session, work[c].row} \ {None} : row.summary = redis["summary"]
    BY <2>1, <2>3 DEF LockInv, HolderShares, Holds
  <2> QED
    BY <2>2, <2>3
<1> QED
  BY <1>1, OrderedInit, OrderedNext, PTL DEF Spec

-----------------------------------------------------------------------------
(* The refinement.                                                         *)

\* A step of the backend is a step of the conversation, or none.
LEMMA PromiseStep ==
    ASSUME Typed, TurnInv, [Next]_vars
    PROVE  [Promise!Step]_(Promise!conversation)
<1>1. ASSUME messages' = messages, proposals' = proposals
      PROVE  UNCHANGED Promise!conversation
  BY <1>1, RecordsKept DEF Promise!conversation
<1>2. ASSUME NEW c \in Chats, Ask(c)
      PROVE  [Promise!Question(c)]_(Promise!conversation)
  <2>1. Bare(c) /\ c \notin Asked \cup Answered
    BY <1>2 DEF TurnInv, ChatInv, Staged, Ask, At, BeforeAsk
  <2>2. ~ Drafted(c, "assistant")
    BY <2>1 DEF Bare, Drafted, SaidIn
  <2>3. AddMessage(c, "user") /\ proposals' = proposals
    BY <1>2 DEF Ask
  <2>4. Go(c) => messages' = messages
    BY <2>3 DEF AddMessage
  <2>5. ~ Go(c) => Asked' = Asked \cup {c} /\ Answered' = Answered
    BY <2>1, <2>2, <2>3, AddSaid
  <2> QED
    BY <1>1, <2>1, <2>3, <2>4, <2>5 DEF Promise!Question
<1>3. ASSUME NEW c \in Chats, Answer(c)
      PROVE  [Promise!Reply(c)]_(Promise!conversation)
  <2>1. c \notin Answered /\ ~ Drafted(c, "assistant") /\ (~ Go(c) => c \in Asked)
    BY <1>3 DEF TurnInv, ChatInv, Staged, Answer, At, AfterAsk
  <2>2. AddMessage(c, "assistant") /\ proposals' = proposals
    BY <1>3 DEF Answer
  <2>3. Go(c) => messages' = messages
    BY <2>2 DEF AddMessage
  <2>4. ~ Go(c) => Asked' = Asked /\ Answered' = Answered \cup {c}
    BY <2>1, <2>2, AddSaid
  <2> QED
    BY <1>1, <2>1, <2>2, <2>3, <2>4 DEF Promise!Reply
<1>4. ASSUME NEW c \in Chats, RuntimeProposes(c)
      PROVE  Promise!Proposal(c)
  <2>1. c \in Asked /\ c \notin Answered /\ c \notin proposals
    BY <1>4 DEF TurnInv, ChatInv, Remote, RuntimeProposes
  <2>2. messages' = messages /\ proposals' = proposals \cup {c}
    BY <1>4 DEF RuntimeProposes
  <2> QED
    BY <2>1, <2>2, SaidParts DEF Promise!Proposal
<1>5. ASSUME NEW c \in Chats, Commit(c)
      PROVE  Promise!WholeTurn(c)
  BY <1>5, CommitRecords DEF Promise!WholeTurn
<1>6. ASSUME NEW c \in Chats, Proceed(c), ~ Ask(c), ~ Answer(c), ~ Commit(c)
      PROVE  messages' = messages /\ proposals' = proposals
  BY <1>6 DEF Proceed, FindSession, CreateSession, CreateCollides, LogReceived, ReadRows,
     LookUp, AskModel, GoAnswers, Planning, GoProposes, GoFails, Call, Receive, GiveUp,
     Remember, Share, ListOlder, Summarize, LogReturned, Reply, Refuse, database
<1>7. ASSUME NEW c \in Chats, RuntimeEnds(c) \/ Fails(c) \/ \E m \in Modes : Start(c, m)
      PROVE  messages' = messages /\ proposals' = proposals
  BY <1>7 DEF RuntimeEnds, Fails, LookUpFails, ShareFails, StatementFails, ErrorIgnored,
     CommitFails, Start, Refuse, database
<1>8. ASSUME Crash \/ RedisReturns \/ Finished \/ UNCHANGED vars
      PROVE  messages' = messages /\ proposals' = proposals
  BY <1>8 DEF Crash, RedisReturns, Finished, vars, database
<1> QED
  <2>1. ASSUME NEW c \in Chats, Proceed(c)
        PROVE  [Promise!Step]_(Promise!conversation)
    BY <1>1, <1>2, <1>3, <1>5, <1>6, <2>1 DEF Promise!Step
  <2>2. ASSUME NEW c \in Chats, Runtime(c) \/ Fails(c) \/ \E m \in Modes : Start(c, m)
        PROVE  [Promise!Step]_(Promise!conversation)
    BY <1>1, <1>4, <1>7, <2>2 DEF Promise!Step, Runtime
  <2>3. CASE Crash \/ RedisReturns \/ Finished \/ UNCHANGED vars
    BY <1>1, <1>8, <2>3
  <2> QED
    BY <2>1, <2>2, <2>3 DEF Next

\* The chat services keep the promises of module Conversation: questions, proposals and
\* answers are recorded once and in order, and a turn of the Go planner appears at once.
THEOREM ChatRefinesConversation == Spec => KeepsConversation
<1>1. Init => Promise!Empty
  BY SaidParts DEF Init, Promise!Empty, SaidIn
<1>2. Typed /\ TurnInv /\ [Next]_vars => [Promise!Step]_(Promise!conversation)
  BY PromiseStep
<1> QED
  BY <1>1, <1>2, AlwaysTurns, PTL DEF Spec, KeepsConversation, Promise!Spec
=============================================================================
