------------------------------- MODULE Router -------------------------------
(***************************************************************************)
(* The rules of router.go that turn the words of a message into calls of   *)
(* tools without a model.  A message is the set of the words it contains   *)
(* that the rules look for; a memory numbers, per field, the value that    *)
(* the last turn to fill it has left, 0 when there is none.                *)
(***************************************************************************)
EXTENDS Tools

\* The words, in the order in which the code meets them.  "add" is 补充 or 添加,
\* "priority" a P1, P2 or P3 that stands alone, "report" 日报 or 周报, "impact" 发布影响,
\* "attribution" one of the other words of shouldAnalyzeOperationalAnomaly, "grouping"
\* 原因, 优先级, 类目 or 分类, "week" 最近7天 or 上周, "assignee" a name after 分派给,
\* "text" something after 备注, "english" the word report, "followup" a reference back.
Words ==
    {"assign", "assignee", "note", "text", "add", "escalate", "priority", "report", "over",
     "sla", "ticket", "detail", "history", "release", "refund", "anomaly", "attribution",
     "impact", "grouping", "region", "category", "count", "week", "yesterday", "today",
     "followup", "sql", "english"}

\* A name follows 分派给 and a text 备注; 发布影响 contains 发布.
Message(m) ==
    /\ m \subseteq Words
    /\ "assignee" \in m => "assign" \in m
    /\ "text" \in m => "note" \in m
    /\ "impact" \in m => "release" \in m

Fields == {"last_ticket_no", "last_region", "last_category", "last_date", "last_date_range"}

Has(m, words) == words \subseteq m
HasSome(m, words) == m \cap words # {}

ShouldAnalyze(m) == HasSome(m, {"attribution", "impact"}) \/ Has(m, {"refund", "sla"})

IsFollowup(m) == "followup" \in m

\* A memory holds what the turns before have filled in.
Remembers(m, memory, field) == IsFollowup(m) /\ memory[field] # 0

\* extractTicketNo, extractRegion, extractCategory
Extracted(m, memory, word, field) ==
    CASE word \in m -> From("said")
      [] word \notin m /\ Remembers(m, memory, field) -> Remembered(memory[field])
      [] OTHER -> Blank

TicketNo(m, memory) == Extracted(m, memory, "ticket", "last_ticket_no")
Region(m, memory) == Extracted(m, memory, "region", "last_region")
Category(m, memory) == Extracted(m, memory, "category", "last_category")

\* extractDateRange and extractSingleDate
DateFrom(m, memory, day, words, field) ==
    CASE HasSome(m, words) -> On("said", day)
      [] ~ HasSome(m, words) /\ Remembers(m, memory, field) -> Remembered(memory[field])
      [] OTHER -> On("default", day)

DateRange(m, memory, day) == DateFrom(m, memory, day, {"week", "yesterday"}, "last_date_range")
SingleDate(m, memory, day) == DateFrom(m, memory, day, {"yesterday", "today"}, "last_date")

\* What a message says of itself, or leaves open.
Said(m, word, otherwise) == IF word \in m THEN From("said") ELSE otherwise

ParseRefundAnomaly(m, memory, day) ==
    Call("find_refund_anomalies",
         [start_date |-> DateRange(m, memory, day), end_date |-> DateRange(m, memory, day),
          region |-> Region(m, memory), top_k |-> Said(m, "count", From("default"))])

ParseRefundMetric(m, memory, day) ==
    Call("query_refund_metrics",
         [start_date |-> DateRange(m, memory, day), end_date |-> DateRange(m, memory, day),
          region |-> Region(m, memory), category |-> Category(m, memory)])

ParseOperationalAnomaly(m, memory, day) ==
    Call("analyze_operational_anomaly",
         [date |-> SingleDate(m, memory, day), region |-> Region(m, memory)])

ParseSLAQuery(m, memory, day) ==
    Call("list_sla_breached_tickets",
         [date |-> SingleDate(m, memory, day), region |-> Region(m, memory),
          group_by |-> Said(m, "grouping", Blank)])

\* Mutation: an argument goes by another name than in the schema of its tool.
ParseAssignMisnamed(m, memory) ==
    Call("propose_assign_ticket",
         [ticket_no |-> TicketNo(m, memory), assignee |-> Said(m, "assignee", From("default")),
          reason |-> From("default")])

\* Without a name the ticket is for 待确认.
ParseAssign(m, memory) ==
    Call("propose_assign_ticket",
         [ticket_no |-> TicketNo(m, memory),
          assignee_name |-> Said(m, "assignee", From("default")), reason |-> From("default")])

ParseAddComment(m, memory) ==
    Call("propose_add_ticket_comment",
         [ticket_no |-> TicketNo(m, memory), comment_text |-> Said(m, "text", Blank),
          reason |-> From("default")])

ParseEscalate(m, memory) ==
    Call("propose_escalate_ticket",
         [ticket_no |-> TicketNo(m, memory), new_priority |-> Said(m, "priority", Blank),
          reason |-> From("default")])

\* The two calls about a ticket, and the one about releases, which takes nothing.
Ticket(m, memory, tool) == Call(tool, [ticket_no |-> TicketNo(m, memory)])
Releases == Call("get_recent_releases", <<>>)

\* The cases of fastPath, the first of which applies.
Rules(m, memory, day) ==
    LET simple == ~ ShouldAnalyze(m)
        detail == ~ IsBlank(TicketNo(m, memory)) /\ HasSome(m, {"detail", "history"})
    IN  << <<"assign" \in m, <<ParseAssign(m, memory)>> >>,
           <<Has(m, {"note", "add"}), <<ParseAddComment(m, memory)>> >>,
           <<Has(m, {"escalate", "priority"}), <<ParseEscalate(m, memory)>> >>,
           <<"report" \in m, <<Report>> >>,
           <<Has(m, {"over", "sla"}) /\ simple, <<ParseSLAQuery(m, memory, day)>> >>,
           <<detail /\ HasSome(m, {"history", "note"}),
             <<Ticket(m, memory, "get_ticket_detail"),
               Ticket(m, memory, "get_ticket_comments")>> >>,
           <<detail, <<Ticket(m, memory, "get_ticket_detail")>> >>,
           <<"release" \in m /\ simple, <<Releases>> >>,
           <<Has(m, {"refund", "anomaly"}) /\ simple, <<ParseRefundAnomaly(m, memory, day)>> >>,
           <<"refund" \in m /\ simple, <<ParseRefundMetric(m, memory, day)>> >> >>

FastPath(m, memory, day) ==
    LET rules == Rules(m, memory, day)
        applying == {i \in DOMAIN rules : rules[i][1]}
    IN  IF applying = {} THEN <<>>
        ELSE rules[CHOOSE i \in applying : \A j \in applying : i <= j][2]

\* The branches of hints on 退款率 cannot be reached: without a need for analysis fastPath
\* has answered already.
Hints(m, memory, day) ==
    CASE FastPath(m, memory, day) # <<>> -> FastPath(m, memory, day)
      [] FastPath(m, memory, day) = <<>> /\ ShouldAnalyze(m) ->
            <<ParseOperationalAnomaly(m, memory, day)>>
      [] OTHER -> <<>>

\* Mutation: the hints are for models only.
FallbackToReport(fast, hints) == IF fast # <<>> THEN fast ELSE <<Report>>

Fallback(fast, hints) ==
    IF fast # <<>> THEN fast ELSE IF hints # <<>> THEN hints ELSE <<Report>>

=============================================================================
