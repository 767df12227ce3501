--------------------------- MODULE PlannerProofs ---------------------------
(***************************************************************************)
(* The safety of module Planner for any messages, configurations, models   *)
(* and queries, and for behaviours of any length over any number of days.  *)
(***************************************************************************)
EXTENDS Planner, TLAPS

-----------------------------------------------------------------------------
(* Arguments and calls.                                                    *)

AllTools == Registered \cup {"generate_report"}
CallSet == [tool : AllTools, args : UNION {[ks -> Value] : ks \in SUBSET Keys}]

\* The values that argument k may have for a message, a memory and the days of its dates.
Right(m, memory, days) ==
    [k \in Keys |->
        {v \in Value :
            /\ v.day \in days \cup {Undated}
            /\ v.from = "remembered" =>
                    /\ IsFollowup(m)
                    /\ k \in DOMAIN RememberedAs
                    /\ v.of = memory[RememberedAs[k]]}]

\* A call as the rules make it.
Complete(call, right) ==
    /\ call \in CallSet
    /\ DOMAIN call.args = Parameters(call.tool)
    /\ \A k \in DOMAIN call.args : call.args[k] \in right[k]

\* A plan as the rules make it: the longest has two calls.
RulePlan(calls, right) ==
    /\ calls \in Seq(CallSet)
    /\ Len(calls) <= 2
    /\ \A i \in DOMAIN calls : Complete(calls[i], right)

LEMMA Least ==
    ASSUME NEW S \in SUBSET (1..10), S # {}
    PROVE  \E i \in S : \A j \in S : i <= j
<1> DEFINE Some(n) == \E i \in S : i <= n
           Good == \E i \in S : \A j \in S : i <= j
<1>1. \A n \in 0..9 : ~ Some(n) /\ n + 1 \in S => Good
    <2> SUFFICES ASSUME NEW n \in 0..9, ~ Some(n), n + 1 \in S
                 PROVE  \A j \in S : n + 1 <= j
        OBVIOUS
    <2> QED OBVIOUS
<1>2. \A n \in 0..9 : ~ Some(n) /\ n + 1 \notin S => ~ Some(n + 1)
    OBVIOUS
<1>3. ~ Some(0)
    OBVIOUS
<1>4. Some(10)
    <2>1. PICK i \in S : TRUE
        OBVIOUS
    <2> QED BY <2>1
<1> HIDE DEF Some, Good
<1>5. ASSUME ~ Good PROVE \A n \in 0..9 : ~ Some(n) => ~ Some(n + 1)
    BY <1>1, <1>2, <1>5
<1>6. ASSUME ~ Good PROVE FALSE
    <2>1. ~ Some(1) BY <1>3, <1>5, <1>6
    <2>2. ~ Some(2) BY <2>1, <1>5, <1>6
    <2>3. ~ Some(3) BY <2>2, <1>5, <1>6
    <2>4. ~ Some(4) BY <2>3, <1>5, <1>6
    <2>5. ~ Some(5) BY <2>4, <1>5, <1>6
    <2>6. ~ Some(6) BY <2>5, <1>5, <1>6
    <2>7. ~ Some(7) BY <2>6, <1>5, <1>6
    <2>8. ~ Some(8) BY <2>7, <1>5, <1>6
    <2>9. ~ Some(9) BY <2>8, <1>5, <1>6
    <2>10. ~ Some(10) BY <2>9, <1>5, <1>6
    <2> QED BY <2>10, <1>4
<1> QED BY <1>6 DEF Good

LEMMA ParameterKeys ==
    ASSUME NEW tool \in AllTools
    PROVE  Parameters(tool) \subseteq Keys
BY DEF AllTools, Keys

LEMMA Values ==
    /\ \A origin \in Sources :
            From(origin) \in Value /\ From(origin).day = Undated /\ From(origin).from = origin
    /\ \A origin \in Sources, d \in 0..MaxDay :
            On(origin, d) \in Value /\ On(origin, d).day = d /\ On(origin, d).from = origin
    /\ \A n \in Nat :
            /\ Remembered(n) \in Value /\ Remembered(n).day = Undated
            /\ Remembered(n).from = "remembered" /\ Remembered(n).of = n
    /\ Blank = From("blank")
    /\ \A v : IsBlank(v) <=> v.from = "blank"
    /\ {"said", "remembered", "default", "model", "blank"} = Sources
BY ConstantsAssumption DEF ConstantsAssumption, On, From, Remembered, Blank, Value, Sources,
   Undated, IsBlank

\* A value that is not remembered and has no date is right for every argument.
LEMMA PlainRight ==
    ASSUME NEW m, NEW memory, NEW days, NEW k \in Keys,
           NEW origin \in {"said", "default", "model", "blank"}
    PROVE  From(origin) \in Right(m, memory, days)[k]
<1>1. From(origin) \in Value /\ From(origin).day = Undated /\ From(origin).from = origin
    BY Values
<1> QED BY <1>1 DEF Right

\* What the router extracts is right for the arguments it is extracted for.
LEMMA ExtractedRight ==
    ASSUME NEW m, NEW memory \in [Fields -> Nat], NEW days \in SUBSET (0..MaxDay), NEW d \in days
    PROVE  LET right == Right(m, memory, days)
           IN  /\ TicketNo(m, memory) \in right["ticket_no"]
               /\ Region(m, memory) \in right["region"]
               /\ Category(m, memory) \in right["category"]
               /\ DateRange(m, memory, d) \in right["start_date"]
               /\ DateRange(m, memory, d) \in right["end_date"]
               /\ SingleDate(m, memory, d) \in right["date"]
<1> DEFINE right == Right(m, memory, days)
           named == DOMAIN RememberedAs
<1>1. /\ named = {"ticket_no", "region", "category", "date", "start_date", "end_date"}
      /\ RememberedAs["ticket_no"] = "last_ticket_no" /\ RememberedAs["region"] = "last_region"
      /\ RememberedAs["category"] = "last_category" /\ RememberedAs["date"] = "last_date"
      /\ RememberedAs["start_date"] = "last_date_range"
      /\ RememberedAs["end_date"] = "last_date_range"
    BY DEF RememberedAs
<1>2. named \subseteq Keys /\ \A k \in named : RememberedAs[k] \in Fields
    <2>1. /\ Parameters("propose_assign_ticket") = {"ticket_no", "assignee_name", "reason"}
          /\ Parameters("query_refund_metrics") = {"start_date", "end_date", "region", "category"}
          /\ Parameters("analyze_operational_anomaly") = {"date", "region"}
          /\ {"propose_assign_ticket", "query_refund_metrics", "analyze_operational_anomaly"}
                \subseteq AllTools
        BY DEF Parameters, AllTools, Registered, Proposers
    <2>2. named \subseteq Keys
        BY <1>1, <2>1, ParameterKeys
    <2>3. \A k \in named : RememberedAs[k] \in Fields
        BY <1>1 DEF Fields
    <2> QED BY <2>2, <2>3
<1>3. ASSUME NEW k \in named, IsFollowup(m)
      PROVE  Remembered(memory[RememberedAs[k]]) \in right[k]
    <2> DEFINE n == memory[RememberedAs[k]]
    <2>1. n \in Nat
        BY <1>2
    <2> HIDE DEF n
    <2>2. /\ Remembered(n) \in Value /\ Remembered(n).day = Undated /\ Remembered(n).of = n
        BY <2>1, Values
    <2> QED BY <1>2, <1>3, <2>2 DEF Right, n
<1>4. ASSUME NEW k \in named, NEW origin \in {"said", "default"}
      PROVE  On(origin, d) \in right[k]
    <2>1. /\ On(origin, d) \in Value /\ On(origin, d).day = d /\ On(origin, d).from = origin
        BY Values
    <2> QED BY <1>2, <2>1 DEF Right
<1>5. \A k \in named : From("said") \in right[k] /\ Blank \in right[k]
    BY <1>2, PlainRight, Values
<1>6. \A k \in named : \A word : Extracted(m, memory, word, RememberedAs[k]) \in right[k]
    BY <1>3, <1>5 DEF Extracted, Remembers
<1>7. \A k \in named : \A words : DateFrom(m, memory, d, words, RememberedAs[k]) \in right[k]
    BY <1>3, <1>4 DEF DateFrom, Remembers
<1> HIDE DEF right, named
<1>8. TicketNo(m, memory) \in right["ticket_no"] /\ Region(m, memory) \in right["region"]
      /\ Category(m, memory) \in right["category"]
    BY <1>1, <1>6 DEF TicketNo, Region, Category
<1>9. /\ DateRange(m, memory, d) \in right["start_date"]
      /\ DateRange(m, memory, d) \in right["end_date"]
      /\ SingleDate(m, memory, d) \in right["date"]
    BY <1>1, <1>7 DEF DateRange, SingleDate
<1> QED BY <1>8, <1>9 DEF right

\* A call with right values for exactly the parameters of its tool.
LEMMA CallComplete ==
    ASSUME NEW tool \in AllTools, NEW m, NEW memory, NEW days,
           NEW args \in [Parameters(tool) -> Value],
           \A k \in Parameters(tool) : args[k] \in Right(m, memory, days)[k]
    PROVE  Complete(Call(tool, args), Right(m, memory, days))
<1>1. Parameters(tool) \in SUBSET Keys
    BY ParameterKeys
<1>2. args \in UNION {[ks -> Value] : ks \in SUBSET Keys}
    BY <1>1
<1>3. DOMAIN args = Parameters(tool)
    OBVIOUS
<1> QED BY <1>2, <1>3 DEF Complete, Call, CallSet

LEMMA RightValues ==
    ASSUME NEW m, NEW memory, NEW days, NEW k \in Keys, NEW v \in Right(m, memory, days)[k]
    PROVE  v \in Value
BY DEF Right
-----------------------------------------------------------------------------
(* The rules.                                                              *)

\* Each parse function names the parameters of its tool and fills them with right values.
LEMMA ParsedComplete ==
    ASSUME NEW m, NEW memory \in [Fields -> Nat], NEW days \in SUBSET (0..MaxDay), NEW d \in days
    PROVE  LET right == Right(m, memory, days)
           IN  /\ Complete(ParseRefundAnomaly(m, memory, d), right)
               /\ Complete(ParseRefundMetric(m, memory, d), right)
               /\ Complete(ParseOperationalAnomaly(m, memory, d), right)
               /\ Complete(ParseSLAQuery(m, memory, d), right)
               /\ Complete(ParseAssign(m, memory), right)
               /\ Complete(ParseAddComment(m, memory), right)
               /\ Complete(ParseEscalate(m, memory), right)
               /\ Complete(Ticket(m, memory, "get_ticket_detail"), right)
               /\ Complete(Ticket(m, memory, "get_ticket_comments"), right)
               /\ Complete(Releases, right)
               /\ Complete(Report, right)
<1> DEFINE right == Right(m, memory, days)
<1>1. \A tool \in AllTools : Parameters(tool) \subseteq Keys
    BY ParameterKeys
<1>2. \A k \in Keys :
          From("said") \in right[k] /\ From("default") \in right[k] /\ Blank \in right[k]
    BY PlainRight, Values
<1>3. \A k \in Keys : \A v \in right[k] : v \in Value
    BY RightValues
<1>4. /\ TicketNo(m, memory) \in right["ticket_no"] /\ Region(m, memory) \in right["region"]
      /\ Category(m, memory) \in right["category"]
      /\ DateRange(m, memory, d) \in right["start_date"]
      /\ DateRange(m, memory, d) \in right["end_date"]
      /\ SingleDate(m, memory, d) \in right["date"]
    BY ExtractedRight
<1>5. \A k \in Keys : \A word :
          Said(m, word, From("default")) \in right[k] /\ Said(m, word, Blank) \in right[k]
    BY <1>2 DEF Said
<1>6. \A tool \in AllTools : \A args :
          /\ args \in [Parameters(tool) -> Value]
          /\ \A k \in Parameters(tool) : args[k] \in right[k]
          => Complete(Call(tool, args), right)
    BY CallComplete
<1> HIDE DEF right
<1>7. \A tool \in AllTools : \A args :
          /\ args = [k \in Parameters(tool) |-> args[k]]
          /\ \A k \in Parameters(tool) : args[k] \in right[k]
          => Complete(Call(tool, args), right)
    <2> SUFFICES ASSUME NEW tool \in AllTools, NEW args,
                        args = [k \in Parameters(tool) |-> args[k]],
                        \A k \in Parameters(tool) : args[k] \in right[k]
                 PROVE  Complete(Call(tool, args), right)
        OBVIOUS
    <2>1. \A k \in Parameters(tool) : args[k] \in Value
        BY <1>1, <1>3
    <2>2. args \in [Parameters(tool) -> Value]
        BY <2>1
    <2> QED BY <1>6, <2>2
<1>8. Complete(ParseRefundAnomaly(m, memory, d), right)
    <2> DEFINE args == [start_date |-> DateRange(m, memory, d),
                        end_date |-> DateRange(m, memory, d),
                        region |-> Region(m, memory),
                        top_k |-> Said(m, "count", From("default"))]
               tool == "find_refund_anomalies"
    <2>1. tool \in AllTools /\ Parameters(tool) = {"start_date", "end_date", "region", "top_k"}
        BY DEF AllTools, Registered, Parameters
    <2>2. \A k \in Parameters(tool) : args[k] \in right[k]
        BY <1>1, <1>2, <1>4, <1>5, <2>1
    <2>3. args = [k \in Parameters(tool) |-> args[k]]
        BY <2>1
    <2>4. ParseRefundAnomaly(m, memory, d) = Call(tool, args)
        BY DEF ParseRefundAnomaly
    <2> HIDE DEF args, tool
    <2> QED BY <1>7, <2>1, <2>2, <2>3, <2>4
<1>9. Complete(ParseRefundMetric(m, memory, d), right)
    <2> DEFINE args == [start_date |-> DateRange(m, memory, d),
                        end_date |-> DateRange(m, memory, d),
                        region |-> Region(m, memory),
                        category |-> Category(m, memory)]
               tool == "query_refund_metrics"
    <2>1. tool \in AllTools /\ Parameters(tool) = {"start_date", "end_date", "region", "category"}
        BY DEF AllTools, Registered, Parameters
    <2>2. \A k \in Parameters(tool) : args[k] \in right[k]
        BY <1>1, <1>2, <1>4, <1>5, <2>1
    <2>3. args = [k \in Parameters(tool) |-> args[k]]
        BY <2>1
    <2>4. ParseRefundMetric(m, memory, d) = Call(tool, args)
        BY DEF ParseRefundMetric
    <2> HIDE DEF args, tool
    <2> QED BY <1>7, <2>1, <2>2, <2>3, <2>4
<1>10. Complete(ParseOperationalAnomaly(m, memory, d), right)
    <2> DEFINE args == [date |-> SingleDate(m, memory, d),
                        region |-> Region(m, memory)]
               tool == "analyze_operational_anomaly"
    <2>1. tool \in AllTools /\ Parameters(tool) = {"date", "region"}
        BY DEF AllTools, Registered, Parameters
    <2>2. \A k \in Parameters(tool) : args[k] \in right[k]
        BY <1>1, <1>2, <1>4, <1>5, <2>1
    <2>3. args = [k \in Parameters(tool) |-> args[k]]
        BY <2>1
    <2>4. ParseOperationalAnomaly(m, memory, d) = Call(tool, args)
        BY DEF ParseOperationalAnomaly
    <2> HIDE DEF args, tool
    <2> QED BY <1>7, <2>1, <2>2, <2>3, <2>4
<1>11. Complete(ParseSLAQuery(m, memory, d), right)
    <2> DEFINE args == [date |-> SingleDate(m, memory, d),
                        region |-> Region(m, memory),
                        group_by |-> Said(m, "grouping", Blank)]
               tool == "list_sla_breached_tickets"
    <2>1. tool \in AllTools /\ Parameters(tool) = {"date", "region", "group_by"}
        BY DEF AllTools, Registered, Parameters
    <2>2. \A k \in Parameters(tool) : args[k] \in right[k]
        BY <1>1, <1>2, <1>4, <1>5, <2>1
    <2>3. args = [k \in Parameters(tool) |-> args[k]]
        BY <2>1
    <2>4. ParseSLAQuery(m, memory, d) = Call(tool, args)
        BY DEF ParseSLAQuery
    <2> HIDE DEF args, tool
    <2> QED BY <1>7, <2>1, <2>2, <2>3, <2>4
<1>12. Complete(ParseAssign(m, memory), right)
    <2> DEFINE args == [ticket_no |-> TicketNo(m, memory),
                        assignee_name |-> Said(m, "assignee", From("default")),
                        reason |-> From("default")]
               tool == "propose_assign_ticket"
    <2>1. tool \in AllTools /\ Parameters(tool) = {"ticket_no", "assignee_name", "reason"}
        BY DEF AllTools, Registered, Proposers, Parameters
    <2>2. \A k \in Parameters(tool) : args[k] \in right[k]
        BY <1>1, <1>2, <1>4, <1>5, <2>1
    <2>3. args = [k \in Parameters(tool) |-> args[k]]
        BY <2>1
    <2>4. ParseAssign(m, memory) = Call(tool, args)
        BY DEF ParseAssign
    <2> HIDE DEF args, tool
    <2> QED BY <1>7, <2>1, <2>2, <2>3, <2>4
<1>13. Complete(ParseAddComment(m, memory), right)
    <2> DEFINE args == [ticket_no |-> TicketNo(m, memory),
                        comment_text |-> Said(m, "text", Blank),
                        reason |-> From("default")]
               tool == "propose_add_ticket_comment"
    <2>1. tool \in AllTools /\ Parameters(tool) = {"ticket_no", "comment_text", "reason"}
        BY DEF AllTools, Registered, Proposers, Parameters
    <2>2. \A k \in Parameters(tool) : args[k] \in right[k]
        BY <1>1, <1>2, <1>4, <1>5, <2>1
    <2>3. args = [k \in Parameters(tool) |-> args[k]]
        BY <2>1
    <2>4. ParseAddComment(m, memory) = Call(tool, args)
        BY DEF ParseAddComment
    <2> HIDE DEF args, tool
    <2> QED BY <1>7, <2>1, <2>2, <2>3, <2>4
<1>14. Complete(ParseEscalate(m, memory), right)
    <2> DEFINE args == [ticket_no |-> TicketNo(m, memory),
                        new_priority |-> Said(m, "priority", Blank),
                        reason |-> From("default")]
               tool == "propose_escalate_ticket"
    <2>1. tool \in AllTools /\ Parameters(tool) = {"ticket_no", "new_priority", "reason"}
        BY DEF AllTools, Registered, Proposers, Parameters
    <2>2. \A k \in Parameters(tool) : args[k] \in right[k]
        BY <1>1, <1>2, <1>4, <1>5, <2>1
    <2>3. args = [k \in Parameters(tool) |-> args[k]]
        BY <2>1
    <2>4. ParseEscalate(m, memory) = Call(tool, args)
        BY DEF ParseEscalate
    <2> HIDE DEF args, tool
    <2> QED BY <1>7, <2>1, <2>2, <2>3, <2>4
<1>15. ASSUME NEW tool \in {"get_ticket_detail", "get_ticket_comments"}
       PROVE  Complete(Ticket(m, memory, tool), right)
    <2>1. tool \in AllTools /\ Parameters(tool) = {"ticket_no"}
        BY DEF AllTools, Registered, Parameters
    <2> QED BY <1>4, <1>7, <2>1 DEF Ticket
<1>16. Complete(Releases, right)
    <2>1. "get_recent_releases" \in AllTools /\ Parameters("get_recent_releases") = {}
        BY DEF AllTools, Registered, Parameters
    <2>2. <<>> = [k \in {} |-> <<>>[k]]
        OBVIOUS
    <2> QED BY <1>7, <2>1, <2>2 DEF Releases
<1>17. Complete(Report, right)
    <2>1. "generate_report" \in AllTools /\ Parameters("generate_report") = {"report_type"}
        BY DEF AllTools, Parameters
    <2> QED BY <1>1, <1>2, <1>7, <2>1 DEF Report
<1> QED BY <1>8, <1>9, <1>10, <1>11, <1>12, <1>13, <1>14, <1>15, <1>16, <1>17 DEF right

LEMMA ShortPlans ==
    ASSUME NEW right
    PROVE  /\ RulePlan(<<>>, right)
           /\ \A call : Complete(call, right) => RulePlan(<<call>>, right) /\ <<call>> # <<>>
           /\ \A one, two : Complete(one, right) /\ Complete(two, right) =>
                  RulePlan(<<one, two>>, right)
BY DEF RulePlan, Complete

\* The calls of each rule.
RuleCalls(m, memory, d) ==
    {<<ParseAssign(m, memory)>>, <<ParseAddComment(m, memory)>>, <<ParseEscalate(m, memory)>>,
     <<Report>>, <<ParseSLAQuery(m, memory, d)>>,
     <<Ticket(m, memory, "get_ticket_detail"), Ticket(m, memory, "get_ticket_comments")>>,
     <<Ticket(m, memory, "get_ticket_detail")>>, <<Releases>>,
     <<ParseRefundAnomaly(m, memory, d)>>, <<ParseRefundMetric(m, memory, d)>>}

LEMMA RulesList ==
    ASSUME NEW m, NEW memory, NEW d
    PROVE  /\ DOMAIN Rules(m, memory, d) = 1..10
           /\ \A i \in 1..10 : Rules(m, memory, d)[i][2] \in RuleCalls(m, memory, d)
BY DEF Rules, RuleCalls

Applying(m, memory, d) == {i \in DOMAIN Rules(m, memory, d) : Rules(m, memory, d)[i][1]}

LEMMA FastPathShape ==
    ASSUME NEW m, NEW memory, NEW d
    PROVE  /\ FastPath(m, memory, d) \in RuleCalls(m, memory, d) \cup {<<>>}
           /\ Applying(m, memory, d) = {} => FastPath(m, memory, d) = <<>>
<1> DEFINE rules == Rules(m, memory, d)
           applying == {i \in DOMAIN rules : rules[i][1]}
           first == CHOOSE i \in applying : \A j \in applying : i <= j
<1>1. FastPath(m, memory, d) = IF applying = {} THEN <<>> ELSE rules[first][2]
    BY DEF FastPath
<1>2. applying = Applying(m, memory, d)
    BY DEF Applying
<1>3. applying \in SUBSET (1..10)
    BY RulesList
<1>4. CASE applying = {}
    <2> HIDE DEF applying, rules, first
    <2> QED BY <1>1, <1>4
<1>5. CASE applying # {}
    <2>1. first \in 1..10
        <3> HIDE DEF applying
        <3> QED BY <1>3, <1>5, Least
    <2>2. rules[first][2] \in RuleCalls(m, memory, d)
        <3> HIDE DEF first
        <3> QED BY <2>1, RulesList
    <2> HIDE DEF applying, rules, first
    <2> QED BY <1>1, <1>2, <1>5, <2>2
<1> QED BY <1>4, <1>5

\* What the rules offer is made of tools that exist, with their parameters and right values;
\* the last resort is never empty.
LEMMA RulesOK ==
    ASSUME NEW m, NEW memory \in [Fields -> Nat], NEW days \in SUBSET (0..MaxDay),
           NEW d \in days, NEW later \in days
    PROVE  LET right == Right(m, memory, days)
               fast == FastPath(m, memory, d)
               hints == Hints(m, memory, later)
           IN  /\ RulePlan(fast, right)
               /\ RulePlan(hints, right)
               /\ RulePlan(Fallback(fast, hints), right)
               /\ Fallback(fast, hints) # <<>>
<1> DEFINE right == Right(m, memory, days)
<1>1. ASSUME NEW e \in days PROVE RulePlan(FastPath(m, memory, e), right)
    <2>1. \A calls \in RuleCalls(m, memory, e) : RulePlan(calls, right)
        BY ParsedComplete, ShortPlans DEF RuleCalls
    <2> QED BY <2>1, FastPathShape, ShortPlans
<1>2. RulePlan(Hints(m, memory, later), right)
    <2>1. RulePlan(<<ParseOperationalAnomaly(m, memory, later)>>, right)
        BY ParsedComplete, ShortPlans
    <2> HIDE DEF right
    <2> QED BY <1>1, <2>1, ShortPlans DEF Hints
<1>3. RulePlan(<<Report>>, right) /\ <<Report>> # <<>>
    BY ParsedComplete, ShortPlans
<1> HIDE DEF right
<1>4. RulePlan(FastPath(m, memory, d), right)
    BY <1>1
<1> QED BY <1>2, <1>3, <1>4 DEF Fallback, right

\* A message that asks for the causes of an anomaly and names no write, report or ticket.
AsksForCauses(m) ==
    /\ ShouldAnalyze(m)
    /\ ~ HasSome(m, {"assign", "note", "escalate", "report", "ticket", "followup"})

\* Such a message fits none of the rules of the fast path.
LEMMA AttributionFallsThrough ==
    ASSUME NEW m, NEW memory, NEW d, NEW later, AsksForCauses(m)
    PROVE  /\ FastPath(m, memory, d) = <<>>
           /\ ToolsOf(Fallback(FastPath(m, memory, d), Hints(m, memory, later))) =
                  {"analyze_operational_anomaly"}
<1>1. /\ "assign" \notin m /\ "note" \notin m /\ "escalate" \notin m /\ "report" \notin m
      /\ "ticket" \notin m /\ ~ IsFollowup(m) /\ ShouldAnalyze(m)
    BY DEF AsksForCauses, HasSome, IsFollowup
<1>2. IsBlank(TicketNo(m, memory))
    BY <1>1 DEF TicketNo, Extracted, Remembers, Blank, From, IsBlank
<1>3. ASSUME NEW e PROVE FastPath(m, memory, e) = <<>>
    <2>1. Applying(m, memory, e) = {}
        <3> SUFFICES ASSUME NEW i \in 1..10
                     PROVE  ~ Rules(m, memory, e)[i][1]
            BY RulesList DEF Applying
        <3> DEFINE rules == Rules(m, memory, e)
        <3>1. ~ rules[1][1] /\ ~ rules[2][1] /\ ~ rules[3][1] /\ ~ rules[4][1]
            BY <1>1 DEF Rules, Has
        <3>2. ~ rules[5][1] /\ ~ rules[8][1] /\ ~ rules[9][1] /\ ~ rules[10][1]
            BY <1>1 DEF Rules
        <3>3. ~ rules[6][1] /\ ~ rules[7][1]
            BY <1>2 DEF Rules
        <3> HIDE DEF rules
        <3> QED BY <3>1, <3>2, <3>3 DEF rules
    <2> QED BY <2>1, FastPathShape
<1> DEFINE call == ParseOperationalAnomaly(m, memory, later)
<1>4. Hints(m, memory, later) = <<call>>
    BY <1>1, <1>3 DEF Hints
<1>5. call.tool = "analyze_operational_anomaly"
    BY DEF ParseOperationalAnomaly, Call
<1> HIDE DEF call
<1>6. Fallback(<<>>, <<call>>) = <<call>>
    BY DEF Fallback
<1>7. ToolsOf(<<call>>) = {call.tool}
    BY DEF ToolsOf
<1> QED BY <1>3, <1>4, <1>5, <1>6, <1>7
-----------------------------------------------------------------------------
(* The plan of a model.                                                    *)

\* A value that a model may have written for argument k, or one that a hint holds for it.
TakenFrom(k, v, hints) ==
    /\ v \in Value
    /\ \/ \E origin \in {"model", "default", "blank"} : v = From(origin)
       \/ \E j \in DOMAIN hints : k \in DOMAIN hints[j].args /\ hints[j].args[k] = v

ArgsFrom(args, tool, hints) ==
    /\ args \in [DOMAIN args -> Value]
    /\ DOMAIN args \subseteq Parameters(tool)
    /\ \A k \in DOMAIN args : TakenFrom(k, args[k], hints)

Sound(call) ==
    /\ call \in CallSet
    /\ DOMAIN call.args \subseteq Parameters(call.tool)
    /\ Required(call.tool) \subseteq DOMAIN call.args
    /\ call.tool = "generate_report" \/ ~ Missing(call.tool, call.args)

\* What routeDecisionToPlannedCalls makes of a reply when it accepts it.
ModelPlan(calls, hints) ==
    \E call \in CallSet :
        /\ calls = <<call>>
        /\ Sound(call)
        /\ \A k \in DOMAIN call.args : TakenFrom(k, call.args[k], hints)

\* What is taken from right hints is right.
LEMMA TakenRight ==
    ASSUME NEW m, NEW memory, NEW days, NEW k \in Keys, NEW v, NEW hints,
           RulePlan(hints, Right(m, memory, days)), TakenFrom(k, v, hints)
    PROVE  v \in Right(m, memory, days)[k]
<1>1. CASE \E origin \in {"model", "default", "blank"} : v = From(origin)
    BY <1>1, PlainRight
<1>2. CASE \E j \in DOMAIN hints : k \in DOMAIN hints[j].args /\ hints[j].args[k] = v
    BY <1>2 DEF RulePlan, Complete
<1> QED BY <1>1, <1>2 DEF TakenFrom

LEMMA SanitizedFrom ==
    ASSUME NEW r \in Replies, NEW tool, NEW hints
    PROVE  ArgsFrom(Sanitized(tool, r.args), tool, hints)
<1>1. \A k \in DOMAIN r.args : TakenFrom(k, r.args[k], hints)
    BY Values, ConstantsAssumption DEF ConstantsAssumption, IsReply, TakenFrom
<1> QED BY <1>1 DEF Sanitized, ArgsFrom, TakenFrom

LEMMA MergedFrom ==
    ASSUME NEW args, NEW tool, NEW right, NEW hints, RulePlan(hints, right),
           ArgsFrom(args, tool, hints)
    PROVE  ArgsFrom(Merged(tool, args, hints), tool, hints)
<1> DEFINE same == {i \in DOMAIN hints : hints[i].tool = tool}
           first == CHOOSE i \in same : \A j \in same : i <= j
           hint == hints[first].args
           merged == [k \in DOMAIN args \cup DOMAIN hint |->
                        IF k \notin DOMAIN hint \/ (k \in DOMAIN args /\ ~ IsBlank(args[k]))
                        THEN args[k] ELSE hint[k]]
<1>1. Merged(tool, args, hints) = IF same = {} THEN args ELSE merged
    BY DEF Merged
<1>2. CASE same = {}
    <2> HIDE DEF merged
    <2> QED BY <1>1, <1>2
<1>3. CASE same # {}
    <2>1. same \in SUBSET (1..10)
        BY DEF RulePlan
    <2>2. first \in same
        <3> HIDE DEF same
        <3> QED BY <1>3, <2>1, Least
    <2>3. first \in DOMAIN hints /\ hints[first].tool = tool
        <3> HIDE DEF first
        <3> QED BY <2>2
    <2>4. Complete(hints[first], right)
        <3> HIDE DEF first
        <3> QED BY <2>3 DEF RulePlan
    <2>5. DOMAIN hint = Parameters(tool) /\ \A k \in DOMAIN hint : TakenFrom(k, hint[k], hints)
        <3> HIDE DEF first
        <3>1. \A k \in DOMAIN hint : hint[k] \in Value
            BY <2>4 DEF Complete, CallSet
        <3> QED BY <2>3, <2>4, <3>1 DEF Complete, TakenFrom
    <2> HIDE DEF hint, same, first
    <2>6. ArgsFrom(merged, tool, hints)
        BY <2>5 DEF ArgsFrom, TakenFrom
    <2> HIDE DEF merged
    <2> QED BY <1>1, <1>3, <2>6
<1> QED BY <1>2, <1>3

LEMMA WithReasonFrom ==
    ASSUME NEW args, NEW tool, NEW hints, ArgsFrom(args, tool, hints)
    PROVE  ArgsFrom(WithReason(tool, args), tool, hints)
<1> DEFINE reasoned == [k \in DOMAIN args \cup {"reason"} |->
                          IF k = "reason" THEN From("default") ELSE args[k]]
<1>1. ASSUME tool \in Proposers PROVE "reason" \in Parameters(tool)
    BY <1>1 DEF Proposers, Parameters
<1>2. \A k : TakenFrom(k, From("default"), hints)
    BY Values DEF TakenFrom
<1>3. ASSUME tool \in Proposers PROVE ArgsFrom(reasoned, tool, hints)
    BY <1>1, <1>2, <1>3 DEF ArgsFrom, TakenFrom
<1> DEFINE lacking ==
              tool \in Proposers /\ ("reason" \notin DOMAIN args \/ IsBlank(args["reason"]))
<1>4. CASE lacking
    <2>1. WithReason(tool, args) = reasoned
        BY <1>4 DEF WithReason
    <2> HIDE DEF reasoned
    <2> QED BY <1>3, <1>4, <2>1
<1>5. CASE ~ lacking
    BY <1>5 DEF WithReason
<1> QED BY <1>4, <1>5

LEMMA ReportSound ==
    ASSUME NEW r \in Replies, NEW hints
    PROVE  ModelPlan(<<ReportAs(r.args)>>, hints)
<1> DEFINE call == ReportAs(r.args)
<1>1. Parameters("generate_report") = {"report_type"} /\ "generate_report" \in AllTools
      /\ Required("generate_report") = {"report_type"}
    BY DEF Parameters, AllTools, Required, Optional
<1>2. /\ \A k : TakenFrom(k, From("default"), hints)
      /\ \A k \in DOMAIN r.args : TakenFrom(k, r.args[k], hints)
    BY Values, ConstantsAssumption DEF ConstantsAssumption, IsReply, TakenFrom
<1>3. call.tool = "generate_report" /\ DOMAIN call.args = {"report_type"}
      /\ \A k \in DOMAIN call.args : TakenFrom(k, call.args[k], hints)
    BY <1>2 DEF ReportAs, Report, Call
<1>4. call.args \in [{"report_type"} -> Value]
    BY <1>2 DEF ReportAs, Report, Call, TakenFrom
<1>5. {"report_type"} \in SUBSET Keys
    BY <1>1, ParameterKeys
<1>6. call.args \in UNION {[ks -> Value] : ks \in SUBSET Keys}
    <2> HIDE DEF call
    <2> QED BY <1>4, <1>5
<1>7. call = [tool |-> call.tool, args |-> call.args]
    BY DEF ReportAs, Report, Call
<1> HIDE DEF call
<1>8. call \in CallSet
    BY <1>1, <1>3, <1>6, <1>7 DEF CallSet
<1> QED BY <1>1, <1>3, <1>8 DEF Sound, ModelPlan, call

\* Whatever a model replies, what is made of it is no plan or one sound call with the values of
\* the model, those of the hints for the same arguments, and a default reason.
LEMMA PlannedCallsSound ==
    ASSUME NEW r \in Replies, NEW right, NEW hints, RulePlan(hints, right)
    PROVE  \/ PlannedCalls(r, hints) = <<>>
           \/ ModelPlan(PlannedCalls(r, hints), hints)
<1> DEFINE args == WithReason(r.tool, Merged(r.tool, Sanitized(r.tool, r.args), hints))
           call == Call(r.tool, args)
<1>1. ArgsFrom(args, r.tool, hints)
    <2>1. ArgsFrom(Sanitized(r.tool, r.args), r.tool, hints)
        BY SanitizedFrom
    <2>2. ArgsFrom(Merged(r.tool, Sanitized(r.tool, r.args), hints), r.tool, hints)
        BY <2>1, MergedFrom
    <2> QED BY <2>2, WithReasonFrom
<1> HIDE DEF args
<1>2. ASSUME r.tool \in Registered, ~ Missing(r.tool, args)
      PROVE  ModelPlan(<<call>>, hints)
    <2>1. r.tool \in AllTools
        BY <1>2 DEF AllTools
    <2>2. DOMAIN args \in SUBSET Keys
        BY <1>1, <2>1, ParameterKeys DEF ArgsFrom
    <2>3. args \in UNION {[ks -> Value] : ks \in SUBSET Keys}
        BY <1>1, <2>2 DEF ArgsFrom
    <2>4. call \in CallSet
        BY <2>1, <2>3 DEF Call, CallSet
    <2>5. Required(r.tool) \subseteq DOMAIN args
        BY <1>2 DEF Missing
    <2>6. call.tool = r.tool /\ call.args = args
        BY DEF Call
    <2> HIDE DEF call
    <2> QED BY <1>1, <1>2, <2>4, <2>5, <2>6 DEF ModelPlan, Sound, ArgsFrom
<1>3. CASE r.tool = "generate_report"
    <2>1. r.tool \notin Registered
        BY <1>3 DEF Registered, Proposers
    <2>2. PlannedCalls(r, hints) = <<ReportAs(r.args)>>
        BY <1>3, <2>1 DEF PlannedCalls
    <2> QED BY <2>2, ReportSound
<1>4. CASE r.tool # "generate_report" /\ r.tool \in Registered /\ ~ Missing(r.tool, args)
    BY <1>2, <1>4 DEF PlannedCalls, args
<1>5. CASE r.tool # "generate_report" /\ ~ (r.tool \in Registered /\ ~ Missing(r.tool, args))
    BY <1>5 DEF PlannedCalls, args
<1> QED BY <1>3, <1>4, <1>5
-----------------------------------------------------------------------------
(* The inductive invariant.                                                *)

PCs == {"idle", "refused", "route", "primary", "strong", "planned", "propose", "answer",
        "failed"}
Searching == {"refused", "route", "primary", "strong"}
Models == {"primary", "strong"}
ModelSources == {"primary", "strong", "planner_cache"}
ModeSet == {NormalizeMode(raw) : raw \in RawModes} \ {"langgraph"}
Log == [turn : 0..MaxTurns, tool : AllTools, success : BOOLEAN]
Work == [made : Nat, logs : Seq(Log), proposal : SUBSET CallSet]

Shape ==
    /\ Message(message)
    /\ view \in ViewSet
    /\ day \in 0..MaxDay
    /\ turns \in 0..MaxTurns
    /\ pc \in PCs
    /\ mode \in ModeSet
    /\ context \in Context
    /\ endpoint \in {"none", "/responses", "/chat/completions"}
    /\ endpoint # "none" <=> pc \in Models
    /\ plan \in Seq(CallSet)
    /\ source \in {"none", "l0_rule_router", "heuristic_router"} \cup ModelSources
    /\ asked \subseteq Models
    /\ work \in Work
    /\ ended \in Seq({"answered", "error"})
    /\ Len(ended) = IF pc = "idle" THEN turns ELSE turns - 1

\* The values that are right in this turn.
Arguments == Right(message, context.memory, analysis.days)

\* The analysis is made of what the rules may offer.
Analyzed ==
    IF pc \in {"idle", "refused"} THEN analysis = NoAnalysis
    ELSE /\ RulePlan(analysis.fast, Arguments)
         /\ RulePlan(analysis.hints, Arguments)
         /\ RulePlan(analysis.fallback, Arguments)
         /\ analysis.fallback # <<>>
         /\ AsksForCauses(message) =>
                /\ analysis.fast = <<>>
                /\ ToolsOf(analysis.fallback) = {"analyze_operational_anomaly"}

\* A plan in the cache is one that a model may have made for its key.
CacheSound ==
    \A e \in cache :
        /\ ModelPlan(e.calls, e.key.hints)
        /\ e.shown = [message |-> e.key.message, memory |-> e.key.memory,
                      recent |-> e.key.recent, hints |-> e.key.hints]

\* The plan is what its source says.
Chosen ==
    /\ source = "none" <=> plan = <<>>
    /\ source = "l0_rule_router" => plan = analysis.fast
    /\ source = "heuristic_router" => plan = analysis.fallback
    /\ source \in ModelSources => ModelPlan(plan, analysis.hints)
    /\ source = "primary" => confident
    /\ HitsMatch

\* There is no plan while one is searched for, and one when it is followed.
Searched ==
    /\ pc \in Searching \cup {"idle"} => source = "none"
    /\ pc \in {"planned", "propose", "answer"} => source # "none"
    /\ HeuristicsLast

Good(l) == l = [turn |-> turns, tool |-> l.tool, success |-> TRUE]

\* The loop keeps within its plan, and the log of the turn tells of a proposing tool only when
\* it is the last call made, and then of the proposal.
Logging ==
    /\ pc \in Searching \cup {"idle"} => work = NoWork
    /\ pc = "planned" => work.made < Len(plan)
    /\ Len(work.logs) <= work.made /\ work.made <= Len(plan)
    /\ pc \in {"planned", "propose", "answer"} =>
            \A i \in DOMAIN work.logs : Good(work.logs[i])
    /\ pc = "planned" =>
            /\ work.proposal = {}
            /\ \A i \in DOMAIN work.logs : work.logs[i].tool \notin Proposers
    /\ pc = "propose" =>
            /\ work.made >= 1
            /\ \A i \in DOMAIN work.logs : work.logs[i].tool \in Proposers =>
                    work.logs[i].tool = plan[work.made].tool
    /\ pc = "answer" =>
            \A i \in DOMAIN work.logs : work.logs[i].tool \in Proposers =>
                \E call \in work.proposal : call.tool = work.logs[i].tool

Recorded ==
    /\ \A l \in logs : l.turn \in DOMAIN ended
    /\ LogsTellOfAnswers

\* Holds in every reachable state and is kept by every step.
IInv ==
    /\ Shape
    /\ Analyzed
    /\ CacheSound
    /\ Chosen
    /\ Searched
    /\ Logging
    /\ Recorded
-----------------------------------------------------------------------------
(* Groups of steps and what they leave alone.                              *)

ModelStep ==
    \/ \E r \in Replies : PrimaryAnswers(r) \/ StrongAnswers(r)
    \/ PrimaryFails \/ StrongFails

LoopStep ==
    \/ ReportAnswers \/ InvokeReads \/ Propose \/ CreateProposal
    \/ \E query \in Queries, rows \in Rows : InvokeQuery(query, rows)

FailStep == ReportFails \/ InvokeFails \/ RejectProposal

EndStep == Commit \/ Rollback

LEMMA Steps ==
    ASSUME [Next]_vars
    PROVE  \/ \E c \in Contexts, override \in Overrides, later \in 0..MaxDay :
                  Receive(c, override, later)
           \/ \E override \in Overrides : ReceiveFails(override)
           \/ FollowRules
           \/ \E e \in cache : FindCached(e)
           \/ MissCache
           \/ NotServed
           \/ ModelStep
           \/ LoopStep
           \/ FailStep
           \/ EndStep
           \/ Midnight
           \/ \E e \in cache : Expire(e)
           \/ UNCHANGED vars
BY DEF Next, ModelStep, LoopStep, FailStep, EndStep, Finished

\* What a request to a model may come to.
Outcome ==
    \/ \E r \in Replies :
            /\ PlannedCalls(r, analysis.hints) # <<>>
            /\ pc = "primary" => r.confident
            /\ Settle(PlannedCalls(r, analysis.hints), r)
    \/ FallBack /\ (pc = "strong" \/ (view.same /\ mode # "llm"))
    \/ Fail /\ mode = "llm"
    \/ pc = "primary" /\ Ask("strong") /\ UNCHANGED <<plan, source, confident, cache, ended>>

LEMMA ModelFrame ==
    ASSUME ModelStep
    PROVE  /\ UNCHANGED <<message, view, day, turns, mode, context, analysis, work, logs,
                          proposals>>
           /\ pc \in Models
           /\ asked' = asked \cup {pc}
           /\ Outcome
<1> DEFINE Rest == UNCHANGED <<message, view, day, turns, mode, context, analysis, work, logs,
                               proposals>>
<1>1. ASSUME pc = "primary", Escalate PROVE Outcome
    <2> USE DEF Models
    <2>1. CASE ~ view.same /\ Ask("strong") /\ UNCHANGED <<plan, source, confident, cache, ended>>
        BY <1>1, <2>1 DEF Outcome
    <2>2. CASE view.same /\ mode = "llm" /\ Fail
        BY <2>2 DEF Outcome
    <2>3. CASE view.same /\ mode # "llm" /\ FallBack
        BY <2>3 DEF Outcome
    <2> QED BY <1>1, <2>1, <2>2, <2>3 DEF Escalate
<1>2. ASSUME NEW r \in Replies, PrimaryAnswers(r)
      PROVE  Rest /\ pc = "primary" /\ asked' = asked \cup {pc} /\ Outcome
    <2>1. Rest /\ pc = "primary" /\ asked' = asked \cup {pc}
        BY <1>2 DEF PrimaryAnswers, inputs, turn, tables
    <2>2. CASE PlannedCalls(r, analysis.hints) # <<>> /\ r.confident
        <3>1. Settle(PlannedCalls(r, analysis.hints), r)
            BY <1>2, <2>2 DEF PrimaryAnswers
        <3> QED BY <2>1, <2>2, <3>1 DEF Outcome
    <2>3. CASE ~ (PlannedCalls(r, analysis.hints) # <<>> /\ r.confident)
        <3>1. Escalate
            BY <1>2, <2>3 DEF PrimaryAnswers
        <3> QED BY <1>1, <2>1, <3>1
    <2> QED BY <2>1, <2>2, <2>3
<1>3. ASSUME PrimaryFails
      PROVE  Rest /\ pc = "primary" /\ asked' = asked \cup {pc} /\ Outcome
    <2>1. Rest /\ pc = "primary" /\ asked' = asked \cup {pc}
        BY <1>3 DEF PrimaryFails, inputs, turn, tables
    <2>2. CASE mode = "llm"
        <3>1. Fail
            BY <1>3, <2>2 DEF PrimaryFails
        <3> QED BY <2>1, <2>2, <3>1 DEF Outcome
    <2>3. CASE mode # "llm"
        <3>1. Escalate
            BY <1>3, <2>3 DEF PrimaryFails
        <3> QED BY <1>1, <2>1, <3>1
    <2> QED BY <2>1, <2>2, <2>3
<1>4. ASSUME NEW r \in Replies, StrongAnswers(r)
      PROVE  Rest /\ pc = "strong" /\ asked' = asked \cup {pc} /\ Outcome
    <2>1. Rest /\ pc = "strong" /\ asked' = asked \cup {pc}
        BY <1>4 DEF StrongAnswers, inputs, turn, tables
    <2>2. CASE PlannedCalls(r, analysis.hints) # <<>>
        <3>1. Settle(PlannedCalls(r, analysis.hints), r)
            BY <1>4, <2>2 DEF StrongAnswers
        <3> QED BY <2>1, <2>2, <3>1 DEF Outcome
    <2>3. CASE PlannedCalls(r, analysis.hints) = <<>>
        <3>1. FallBack
            BY <1>4, <2>3 DEF StrongAnswers
        <3> QED BY <2>1, <3>1 DEF Outcome
    <2> QED BY <2>1, <2>2, <2>3
<1>5. ASSUME StrongFails
      PROVE  Rest /\ pc = "strong" /\ asked' = asked \cup {pc} /\ Outcome
    <2>1. Rest /\ pc = "strong" /\ asked' = asked \cup {pc}
        BY <1>5 DEF StrongFails, inputs, turn, tables
    <2>2. CASE mode = "llm"
        <3>1. Fail
            BY <1>5, <2>2 DEF StrongFails
        <3> QED BY <2>1, <2>2, <3>1 DEF Outcome
    <2>3. CASE mode # "llm"
        <3>1. FallBack
            BY <1>5, <2>3 DEF StrongFails
        <3> QED BY <2>1, <3>1 DEF Outcome
    <2> QED BY <2>1, <2>2, <2>3
<1> QED BY <1>2, <1>3, <1>4, <1>5 DEF ModelStep, Models

LEMMA LoopFrame ==
    ASSUME LoopStep
    PROVE  /\ UNCHANGED <<message, view, day, turns, mode, context, analysis, endpoint, plan,
                          source, asked, confident, cache, logs, proposals, ended>>
           /\ pc \in {"planned", "propose"}
           /\ pc' \in {"planned", "propose", "answer"}
BY DEF LoopStep, ReportAnswers, InvokeReads, Propose, CreateProposal, InvokeQuery, Invoke, inputs,
   turn, planned, tables

LEMMA FailFrame ==
    ASSUME FailStep
    PROVE  /\ UNCHANGED <<message, view, day, turns, mode, context, analysis, plan, source,
                          asked, confident, cache, logs, proposals, ended>>
           /\ pc \in {"planned", "propose"}
           /\ pc' = "failed"
           /\ endpoint' = "none"
BY DEF FailStep, ReportFails, InvokeFails, RejectProposal, Invoke, Fail, inputs, turn, planned,
   tables

LEMMA EndFrame ==
    ASSUME EndStep
    PROVE  /\ Clean
           /\ UNCHANGED <<message, view, day, turns, endpoint, cache>>
           /\ pc \in {"refused", "failed", "answer"}
BY DEF EndStep, Commit, Rollback, inputs

\* The turns end, a day goes by or a plan expires without the plan of a turn being touched.
LEMMA QuietFrame ==
    /\ \A c, override, later : Receive(c, override, later) =>
            UNCHANGED <<message, view, endpoint, plan, source, asked, confident, cache, work, logs,
                        proposals, ended>>
    /\ \A override : ReceiveFails(override) =>
            UNCHANGED <<message, view, day, context, analysis, endpoint, plan, source, asked,
                        confident, cache, work, logs, proposals, ended>>
    /\ \A e : FindCached(e) =>
            UNCHANGED <<message, view, day, turns, mode, context, analysis, asked, confident, cache,
                        work, logs, proposals, ended>>
    /\ FollowRules =>
            UNCHANGED <<message, view, day, turns, mode, context, analysis, asked, confident, cache,
                        work, logs, proposals, ended>>
    /\ MissCache =>
            UNCHANGED <<message, view, day, turns, mode, context, analysis, plan, source, asked,
                        confident, cache, work, logs, proposals, ended>>
    /\ NotServed =>
            UNCHANGED <<message, view, day, turns, pc, mode, context, analysis, plan, source, asked,
                        confident, cache, work, logs, proposals, ended>>
    /\ Midnight =>
            UNCHANGED <<message, view, turns, pc, mode, context, analysis, endpoint, plan, source,
                        asked, confident, cache, work, logs, proposals, ended>>
    /\ \A e : Expire(e) =>
            UNCHANGED <<message, view, day, turns, pc, mode, context, analysis, endpoint, plan,
                        source, asked, confident, work, logs, proposals, ended>>
    /\ UNCHANGED vars =>
            UNCHANGED <<message, view, day, turns, pc, mode, context, analysis, endpoint, plan,
                        source, asked, confident, cache, work, logs, proposals, ended>>
BY DEF Receive, ReceiveFails, Begin, FindCached, FollowRules, MissCache, NotServed, Midnight,
   Expire, vars, inputs, turn, planned, tables
-----------------------------------------------------------------------------
(* The invariant is kept.                                                  *)

LEMMA ModesNormal ==
    /\ "auto" \in ModeSet
    /\ \A m \in {NormalizeMode(raw) : raw \in RawModes} \cup RawModes :
            NormalizeMode(m) \in {NormalizeMode(raw) : raw \in RawModes}
<1>1. {NormalizeMode(raw) : raw \in RawModes} \subseteq RawModes
    BY DEF NormalizeMode, RawModes
<1>2. NormalizeMode("auto") = "auto" /\ "auto" \in RawModes
    BY DEF NormalizeMode, RawModes
<1> QED BY <1>1, <1>2 DEF ModeSet

LEMMA Plans ==
    /\ <<>> \in Seq(CallSet)
    /\ \A calls, right : RulePlan(calls, right) => calls \in Seq(CallSet)
    /\ \A calls, hints : ModelPlan(calls, hints) => calls \in Seq(CallSet) /\ calls # <<>>
BY DEF RulePlan, ModelPlan

LEMMA EmptyWork == NoWork \in Work /\ NoContext \in Context
BY DEF NoWork, Work, NoContext, Context, Fields

LEMMA InitIInv == Init => IInv
<1> SUFFICES ASSUME Init PROVE IInv
    OBVIOUS
<1>1. Shape
    BY ConstantsAssumption, ModesNormal, Plans, EmptyWork
    DEF Init, ConstantsAssumption, Shape, PCs, Models, ModelSources
<1>2. Analyzed /\ CacheSound
    BY DEF Init, Analyzed, CacheSound
<1>3. Chosen
    BY DEF Init, Chosen, ModelSources, HitsMatch
<1>4. Searched
    BY DEF Init, Searched, HeuristicsLast
<1>5. Logging
    BY DEF Init, Logging, NoWork, Searching
<1>6. Recorded
    BY DEF Init, Recorded, LogsTellOfAnswers
<1> QED BY <1>1, <1>2, <1>3, <1>4, <1>5, <1>6 DEF IInv

LEMMA AnalyzedKept ==
    ASSUME IInv, [Next]_vars
    PROVE  Analyzed'
<1> USE DEF Arguments
<1> DEFINE Working(p) == p \notin {"idle", "refused"}
<1>1. ASSUME NEW c \in Contexts, NEW override \in Overrides, NEW later \in 0..MaxDay,
             Receive(c, override, later)
      PROVE  Analyzed'
    <2> DEFINE days == day..later
               right == Right(message, c.memory, days)
               fast == FastPath(message, c.memory, day)
               hints == Hints(message, c.memory, later)
    <2>1. c.memory \in [Fields -> Nat]
        BY ConstantsAssumption DEF ConstantsAssumption, Context
    <2>2. days \in SUBSET (0..MaxDay) /\ day \in days /\ later \in days
        BY <1>1, ConstantsAssumption DEF ConstantsAssumption, Receive, IInv, Shape
    <2>3. /\ analysis'.fast \in {<<>>, fast} /\ analysis'.hints = hints
          /\ analysis'.fallback = Fallback(fast, hints) /\ analysis'.days = days
          /\ message' = message /\ context' = c /\ pc' = "route"
        BY <1>1 DEF Receive, Begin, Analyze, inputs
    <2>4. Arguments' = right
        BY <2>3
    <2> HIDE DEF days
    <2>5. /\ RulePlan(fast, right) /\ RulePlan(hints, right) /\ RulePlan(<<>>, right)
          /\ RulePlan(Fallback(fast, hints), right) /\ Fallback(fast, hints) # <<>>
        BY <2>1, <2>2, RulesOK, ShortPlans
    <2>6. AsksForCauses(message) =>
              fast = <<>> /\ ToolsOf(Fallback(fast, hints)) = {"analyze_operational_anomaly"}
        BY AttributionFallsThrough
    <2> HIDE DEF right, fast, hints
    <2> QED BY <2>3, <2>4, <2>5, <2>6 DEF Analyzed
<1>2. ASSUME Working(pc), Working(pc'), UNCHANGED <<message, context, analysis>>
      PROVE  Analyzed'
    BY <1>2 DEF IInv, Analyzed
<1>3. ASSUME UNCHANGED <<pc, message, context, analysis>> PROVE Analyzed'
    BY <1>3 DEF IInv, Analyzed
<1>4. ASSUME pc' \in {"idle", "refused"}, analysis' = NoAnalysis PROVE Analyzed'
    BY <1>4 DEF Analyzed
<1>5. ASSUME NEW override \in Overrides, ReceiveFails(override) PROVE Analyzed'
    <2>1. pc = "idle" /\ pc' = "refused" /\ analysis' = analysis
        BY <1>5 DEF ReceiveFails, Begin
    <2> QED BY <1>4, <2>1 DEF IInv, Analyzed
<1>6. ASSUME FollowRules \/ MissCache \/ \E e \in cache : FindCached(e) PROVE Analyzed'
    <2>1. Working(pc) /\ Working(pc')
        BY <1>6 DEF FollowRules, FindCached, MissCache, NeedsModel, Planned, Ask
    <2> QED BY <1>2, <1>6, <2>1, QuietFrame
<1>7. ASSUME NotServed \/ Midnight \/ UNCHANGED vars \/ \E e \in cache : Expire(e)
      PROVE  Analyzed'
    BY <1>3, <1>7, QuietFrame
<1>8. ASSUME ModelStep PROVE Analyzed'
    <2>1. UNCHANGED <<message, context, analysis>> /\ Working(pc) /\ Outcome
        BY <1>8, ModelFrame DEF Models
    <2>2. Working(pc')
        BY <2>1 DEF Outcome, Settle, FallBack, Fail, Ask, Planned
    <2> QED BY <1>2, <2>1, <2>2
<1>9. ASSUME LoopStep \/ FailStep PROVE Analyzed'
    BY <1>2, <1>9, LoopFrame, FailFrame
<1>10. ASSUME EndStep PROVE Analyzed'
    BY <1>4, <1>10, EndFrame DEF Clean
<1> QED BY Steps, <1>1, <1>5, <1>6, <1>7, <1>8, <1>9, <1>10

\* What the rules offer in a state of the program.
LEMMA Offers ==
    ASSUME IInv, pc \notin {"idle", "refused"}
    PROVE  /\ RulePlan(analysis.fast, Arguments)
           /\ RulePlan(analysis.hints, Arguments)
           /\ RulePlan(analysis.fallback, Arguments)
           /\ analysis.fallback # <<>>
BY DEF IInv, Analyzed

\* The plan a model has been asked for.
LEMMA Settled ==
    ASSUME IInv, ModelStep, NEW r \in Replies, PlannedCalls(r, analysis.hints) # <<>>
    PROVE  ModelPlan(PlannedCalls(r, analysis.hints), analysis.hints)
BY Offers, ModelFrame, PlannedCallsSound DEF Models

LEMMA CacheKept ==
    ASSUME IInv, [Next]_vars
    PROVE  CacheSound'
<1>1. CASE ModelStep
    <2>1. Outcome /\ UNCHANGED <<message, context, analysis>>
        BY <1>1, ModelFrame
    <2>2. ASSUME NEW r \in Replies, PlannedCalls(r, analysis.hints) # <<>>,
                 Settle(PlannedCalls(r, analysis.hints), r)
          PROVE  CacheSound'
        <3> DEFINE key == Key(message, context, analysis)
                   entry == [key |-> key, calls |-> PlannedCalls(r, analysis.hints),
                             shown |-> [message |-> message, memory |-> context.memory,
                                        recent |-> context.recent, hints |-> analysis.hints]]
        <3>1. cache' \subseteq cache \cup {entry}
            BY <2>2 DEF Settle
        <3>2. key.message = message /\ key.memory = context.memory /\ key.recent = context.recent
              /\ key.hints = analysis.hints
            BY DEF Key
        <3>3. ModelPlan(entry.calls, entry.key.hints)
            BY <1>1, <2>2, <3>2, Settled
        <3>4. entry.shown = [message |-> entry.key.message, memory |-> entry.key.memory,
                             recent |-> entry.key.recent, hints |-> entry.key.hints]
            BY <3>2
        <3> HIDE DEF entry
        <3> QED BY <3>1, <3>3, <3>4 DEF IInv, CacheSound
    <2>3. CASE cache' = cache
        BY <2>3 DEF IInv, CacheSound
    <2> QED BY <2>1, <2>2, <2>3 DEF Outcome, FallBack, Fail
<1>2. ASSUME NEW e \in cache, Expire(e)
      PROVE  CacheSound'
    BY <1>2 DEF Expire, IInv, CacheSound
<1>3. CASE UNCHANGED cache
    BY <1>3 DEF IInv, CacheSound
<1> QED BY Steps, <1>1, <1>2, <1>3, QuietFrame, LoopFrame, FailFrame, EndFrame

\* What Invoke does: one more call is made, and its row written or not.
LEMMA Invoked ==
    ASSUME IInv, NEW success \in BOOLEAN, Invoke(success)
    PROVE  LET n == work.made + 1
               l == [turn |-> turns, tool |-> plan[n].tool, success |-> success]
           IN  /\ n \in 1..Len(plan)
               /\ plan[n] \in CallSet
               /\ work' \in Work
               /\ work'.proposal = {}
               /\ work'.made = n
               /\ Len(work'.logs) <= n
               /\ \A i \in DOMAIN work'.logs :
                      work'.logs[i] = l \/ \E j \in DOMAIN work.logs : work'.logs[i] = work.logs[j]
<1> DEFINE n == work.made + 1
           l == [turn |-> turns, tool |-> plan[n].tool, success |-> success]
<1>1. /\ work \in Work /\ work.proposal = {} /\ work.made < Len(plan)
      /\ Len(work.logs) <= work.made
    BY DEF IInv, Shape, Logging, Invoke
<1>2. work.logs \in Seq(Log) /\ work.made \in Nat /\ Len(work.logs) \in Nat
    BY <1>1 DEF Work
<1>3. plan \in Seq(CallSet) /\ turns \in 0..MaxTurns
    BY DEF IInv, Shape
<1>4. n \in 1..Len(plan) /\ plan[n] \in CallSet
    BY <1>1, <1>2, <1>3
<1>5. l \in Log
    BY <1>3, <1>4 DEF Log, CallSet
<1>6. PICK written \in {<<>>, <<l>>} :
          work' = [work EXCEPT !.made = @ + 1, !.logs = @ \o written]
    BY DEF Invoke, Upcoming
<1> HIDE DEF l
<1>7. /\ work.logs \o written \in Seq(Log)
      /\ Len(work.logs \o written) <= Len(work.logs) + 1
      /\ \A i \in DOMAIN (work.logs \o written) :
            \/ (work.logs \o written)[i] = l
            \/ \E j \in DOMAIN work.logs : (work.logs \o written)[i] = work.logs[j]
    <2>1. CASE written = <<>>
        <3>1. work.logs \o written = work.logs
            BY <1>2, <2>1
        <3> QED BY <1>2, <3>1
    <2>2. CASE written = <<l>>
        BY <1>2, <1>5, <2>2
    <2> QED BY <2>1, <2>2
<1> DEFINE after == work.logs \o written
<1> HIDE DEF after
<1>8. work' = [made |-> n, logs |-> after, proposal |-> {}]
    BY <1>1, <1>6 DEF Work, after
<1>9. work' \in Work
    BY <1>2, <1>7, <1>8 DEF Work, after
<1>10. Len(after) <= n
    BY <1>1, <1>2, <1>7 DEF after
<1> QED BY <1>4, <1>7, <1>8, <1>9, <1>10 DEF l, after

LEMMA ShapeKept ==
    ASSUME IInv, [Next]_vars
    PROVE  Shape'
<1>1. ASSUME NEW override \in Overrides, Begin(override), pc' \in {"route", "refused"},
             day' \in 0..MaxDay, context' \in Context
      PROVE  Shape'
    <2>1. UNCHANGED <<message, view, endpoint, plan, source, asked, work, ended>>
        BY <1>1 DEF Begin, inputs, planned, tables
    <2>2. mode' \in ModeSet
        <3>1. override \in RawModes /\ view.mode \in {NormalizeMode(raw) : raw \in RawModes}
            BY ConstantsAssumption DEF ConstantsAssumption, IInv, Shape, ViewSet
        <3> QED BY <1>1, <3>1, ModesNormal DEF Begin, ModeSet
    <2>3. turns' \in 0..MaxTurns /\ turns' - 1 = turns
        <3>1. turns \in 0..MaxTurns
            BY DEF IInv, Shape
        <3>2. turns < MaxTurns /\ turns' = turns + 1
            BY <1>1 DEF Begin
        <3>3. MaxTurns \in Nat
            BY ConstantsAssumption DEF ConstantsAssumption
        <3> QED BY <3>1, <3>2, <3>3
    <2>4. pc = "idle"
        BY <1>1 DEF Begin
    <2> QED BY <1>1, <2>1, <2>2, <2>3, <2>4 DEF IInv, Shape, PCs, Models
<1>10. ASSUME NEW c \in Contexts, NEW override \in Overrides, NEW later \in 0..MaxDay,
              Receive(c, override, later)
       PROVE  Shape'
    BY <1>1, <1>10, ConstantsAssumption DEF ConstantsAssumption, Receive
<1>11. ASSUME NEW override \in Overrides, ReceiveFails(override) PROVE Shape'
    <2>1. Begin(override) /\ pc' = "refused" /\ UNCHANGED <<day, context>>
        BY <1>11 DEF ReceiveFails
    <2> QED BY <1>1, <2>1 DEF IInv, Shape
<1>2. ASSUME FollowRules PROVE Shape'
    <2>1. UNCHANGED <<message, view, day, turns, mode, context, asked, work, ended>>
        BY <1>2, QuietFrame
    <2>2. pc = "route" /\ pc' = "planned" /\ endpoint' = "none"
          /\ plan' \in {analysis.fast, analysis.fallback}
          /\ source' \in {"l0_rule_router", "heuristic_router"}
        BY <1>2 DEF FollowRules, Planned
    <2>3. plan' \in Seq(CallSet)
        BY <2>2, Offers, Plans
    <2> QED BY <2>1, <2>2, <2>3 DEF IInv, Shape, PCs, Models
<1>3. ASSUME NEW e \in cache, FindCached(e) PROVE Shape'
    <2>1. UNCHANGED <<message, view, day, turns, mode, context, asked, work, ended>>
        BY <1>3, QuietFrame
    <2>2. pc = "route" /\ pc' = "planned" /\ endpoint' = "none" /\ plan' = e.calls
          /\ source' = "planner_cache"
        BY <1>3 DEF FindCached, NeedsModel, Planned
    <2>3. plan' \in Seq(CallSet)
        BY <2>2, Plans DEF IInv, CacheSound
    <2> QED BY <2>1, <2>2, <2>3 DEF IInv, Shape, PCs, Models, ModelSources
<1>4. ASSUME MissCache PROVE Shape'
    <2>1. UNCHANGED <<message, view, day, turns, mode, context, plan, source, asked, work, ended>>
        BY <1>4, QuietFrame
    <2>2. pc = "route" /\ pc' \in Models /\ endpoint' \in {"/responses", "/chat/completions"}
        BY <1>4 DEF MissCache, NeedsModel, Ask, Models
    <2> QED BY <2>1, <2>2 DEF IInv, Shape, PCs, Models
<1>5. ASSUME NotServed \/ Midnight \/ UNCHANGED vars \/ \E e \in cache : Expire(e)
      PROVE  Shape'
    <2>1. UNCHANGED <<message, view, turns, pc, mode, context, plan, source, asked, work, ended>>
        BY <1>5, QuietFrame
    <2>2. day' \in 0..MaxDay
        BY <1>5, QuietFrame, ConstantsAssumption
        DEF ConstantsAssumption, Midnight, IInv, Shape
    <2>3. endpoint' = endpoint \/ (endpoint = "/responses" /\ endpoint' = "/chat/completions")
        BY <1>5, QuietFrame DEF NotServed
    <2> QED BY <2>1, <2>2, <2>3 DEF IInv, Shape
<1>6. ASSUME ModelStep PROVE Shape'
    <2>1. /\ UNCHANGED <<message, view, day, turns, mode, context, work>>
          /\ pc \in Models /\ asked' = asked \cup {pc} /\ Outcome
        BY <1>6, ModelFrame
    <2>2. ASSUME NEW r \in Replies, PlannedCalls(r, analysis.hints) # <<>>,
                 Settle(PlannedCalls(r, analysis.hints), r)
          PROVE  Shape'
        <3>1. plan' \in Seq(CallSet)
            BY <1>6, <2>2, Settled, Plans DEF Settle, Planned
        <3>2. pc' = "planned" /\ endpoint' = "none" /\ source' = pc /\ ended' = ended
            BY <2>2 DEF Settle, Planned
        <3> QED BY <2>1, <3>1, <3>2 DEF IInv, Shape, PCs, Models, ModelSources
    <2>3. ASSUME FallBack PROVE Shape'
        <3>1. plan' \in Seq(CallSet)
            BY <2>1, <2>3, Offers, Plans DEF FallBack, Planned, Models
        <3>2. pc' = "planned" /\ endpoint' = "none" /\ source' = "heuristic_router"
              /\ ended' = ended
            BY <2>3 DEF FallBack, Planned
        <3> QED BY <2>1, <3>1, <3>2 DEF IInv, Shape, PCs, Models
    <2>4. ASSUME Fail PROVE Shape'
        BY <2>1, <2>4 DEF Fail, IInv, Shape, PCs, Models
    <2>5. ASSUME Ask("strong"), UNCHANGED <<plan, source, ended>>
          PROVE  Shape'
        BY <2>1, <2>5 DEF Ask, IInv, Shape, PCs, Models
    <2> QED BY <2>1, <2>2, <2>3, <2>4, <2>5 DEF Outcome
<1>7. ASSUME LoopStep PROVE Shape'
    <2>1. work' \in Work
        <3>1. CASE ReportAnswers
            BY <3>1 DEF ReportAnswers, tables, IInv, Shape
        <3>2. CASE Invoke(TRUE)
            BY <3>2, Invoked
        <3>3. CASE CreateProposal
            <4>1. work.made \in 1..Len(plan)
                BY <3>3 DEF CreateProposal, IInv, Shape, Logging, Work
            <4>2. plan[work.made] \in CallSet
                BY <4>1 DEF IInv, Shape
            <4> QED BY <3>3, <4>2 DEF CreateProposal, IInv, Shape, Work
        <3> QED BY <1>7, <3>1, <3>2, <3>3 DEF LoopStep, InvokeReads, InvokeQuery, Propose
    <2> QED BY <1>7, <2>1, LoopFrame DEF IInv, Shape, PCs, Models
<1>8. ASSUME FailStep PROVE Shape'
    <2>1. work' \in Work
        <3>1. CASE InvokeFails
            BY <3>1, Invoked DEF InvokeFails
        <3> QED BY <1>8, <3>1 DEF FailStep, ReportFails, RejectProposal, tables, IInv, Shape
    <2> QED BY <1>8, <2>1, FailFrame DEF IInv, Shape, PCs, Models
<1>9. ASSUME EndStep PROVE Shape'
    <2>1. /\ Clean /\ UNCHANGED <<message, view, day, turns, endpoint>>
          /\ pc \in {"refused", "failed", "answer"}
        BY <1>9, EndFrame
    <2>2. /\ ended' \in Seq({"answered", "error"})
          /\ Len(ended') = Len(ended) + 1
        BY <1>9 DEF EndStep, Commit, Rollback, IInv, Shape
    <2>3. Len(ended') = turns
        BY <2>1, <2>2 DEF IInv, Shape
    <2> QED BY <2>1, <2>2, <2>3, ModesNormal, Plans, EmptyWork DEF Clean, IInv, Shape, PCs, Models
<1> QED BY Steps, <1>2, <1>3, <1>4, <1>5, <1>6, <1>7, <1>8, <1>9, <1>10, <1>11

LEMMA ChosenKept ==
    ASSUME IInv, [Next]_vars
    PROVE  Chosen'
<1>1. ASSUME \/ \E c \in Contexts, override \in Overrides, later \in 0..MaxDay :
                    Receive(c, override, later)
             \/ \E override \in Overrides : ReceiveFails(override)
      PROVE  Chosen'
    <2>1. pc = "idle" /\ UNCHANGED <<plan, source>>
        BY <1>1, QuietFrame DEF Receive, ReceiveFails, Begin
    <2>2. source = "none" /\ plan = <<>>
        BY <2>1 DEF IInv, Searched, Chosen
    <2> QED BY <2>1, <2>2 DEF Chosen, HitsMatch, ModelSources
<1>2. ASSUME FollowRules PROVE Chosen'
    <2>1. pc = "route" /\ analysis' = analysis
        BY <1>2, QuietFrame DEF FollowRules
    <2>2. \/ plan' = analysis.fast /\ analysis.fast # <<>> /\ source' = "l0_rule_router"
          \/ plan' = analysis.fallback /\ source' = "heuristic_router"
        BY <1>2 DEF FollowRules, Planned
    <2>3. plan' # <<>>
        BY <2>1, <2>2, Offers
    <2> QED BY <2>1, <2>2, <2>3 DEF Chosen, HitsMatch, ModelSources
<1>3. ASSUME NEW e \in cache, FindCached(e) PROVE Chosen'
    <2>1. UNCHANGED <<message, context, analysis, cache>>
        BY <1>3, QuietFrame
    <2>2. plan' = e.calls /\ source' = "planner_cache" /\ e.key = Key(message, context, analysis)
        BY <1>3 DEF FindCached, Planned
    <2>3. /\ e.key.message = message /\ e.key.memory = context.memory
          /\ e.key.recent = context.recent /\ e.key.hints = analysis.hints
        BY <2>2 DEF Key
    <2>4. /\ ModelPlan(e.calls, analysis.hints)
          /\ e.shown = [message |-> message, memory |-> context.memory,
                        recent |-> context.recent, hints |-> analysis.hints]
        BY <2>3 DEF IInv, CacheSound
    <2>5. e.calls # <<>>
        BY <2>4, Plans
    <2>6. HitsMatch'
        BY <2>1, <2>2, <2>4 DEF HitsMatch
    <2> QED BY <2>1, <2>2, <2>4, <2>5, <2>6 DEF Chosen, ModelSources
<1>4. ASSUME UNCHANGED <<message, context, analysis, plan, source, confident, cache>>
      PROVE  Chosen'
    BY <1>4 DEF IInv, Chosen, HitsMatch
<1>5. ASSUME MissCache \/ NotServed \/ Midnight \/ UNCHANGED vars \/ LoopStep \/ FailStep
      PROVE  Chosen'
    BY <1>4, <1>5, QuietFrame, LoopFrame, FailFrame
<1>6. ASSUME NEW e \in cache, Expire(e) PROVE Chosen'
    <2>1. pc = "idle" /\ UNCHANGED <<plan, source>>
        BY <1>6, QuietFrame DEF Expire
    <2>2. source = "none" /\ plan = <<>>
        BY <2>1 DEF IInv, Searched, Chosen
    <2> QED BY <2>1, <2>2 DEF Chosen, HitsMatch, ModelSources
<1>7. ASSUME ModelStep PROVE Chosen'
    <2>1. UNCHANGED <<message, context, analysis>> /\ pc \in Models /\ Outcome
        BY <1>7, ModelFrame
    <2>2. ASSUME NEW r \in Replies, PlannedCalls(r, analysis.hints) # <<>>,
                 pc = "primary" => r.confident, Settle(PlannedCalls(r, analysis.hints), r)
          PROVE  Chosen'
        <3>1. ModelPlan(PlannedCalls(r, analysis.hints), analysis.hints)
            BY <1>7, <2>2, Settled
        <3>2. plan' = PlannedCalls(r, analysis.hints) /\ source' = pc /\ confident' = r.confident
            BY <2>2 DEF Settle, Planned
        <3>3. source' \in Models /\ (source' = "primary" => confident')
            BY <2>1, <2>2, <3>2
        <3>4. HitsMatch'
            BY <3>3 DEF HitsMatch, Models
        <3> QED BY <2>1, <2>2, <3>1, <3>2, <3>3, <3>4 DEF Chosen, Models
    <2>3. ASSUME FallBack PROVE Chosen'
        <3>1. plan' = analysis.fallback /\ source' = "heuristic_router"
            BY <2>3 DEF FallBack, Planned
        <3>2. plan' # <<>>
            BY <2>1, <3>1, Offers DEF Models
        <3> QED BY <2>1, <3>1, <3>2 DEF Chosen, HitsMatch, ModelSources
    <2> QED BY <2>1, <2>2, <2>3, <1>4 DEF Outcome, Fail
<1>8. ASSUME EndStep PROVE Chosen'
    <2>1. source' = "none" /\ plan' = <<>>
        BY <1>8, EndFrame DEF Clean
    <2> QED BY <2>1 DEF Chosen, HitsMatch, ModelSources
<1> QED BY Steps, <1>1, <1>2, <1>3, <1>5, <1>6, <1>7, <1>8

LEMMA SearchedKept ==
    ASSUME IInv, [Next]_vars
    PROVE  Searched'
<1>1. ASSUME \/ \E c \in Contexts, override \in Overrides, later \in 0..MaxDay :
                    Receive(c, override, later)
             \/ \E override \in Overrides : ReceiveFails(override)
      PROVE  Searched'
    <2>1. pc = "idle" /\ pc' \in {"route", "refused"} /\ source' = source
        BY <1>1, QuietFrame DEF Receive, ReceiveFails, Begin
    <2> QED BY <2>1 DEF IInv, Searched, HeuristicsLast
<1>2. ASSUME FollowRules PROVE Searched'
    <2>1. pc' = "planned" /\ source' \in {"l0_rule_router", "heuristic_router"}
          /\ (source' = "heuristic_router" => UseHeuristic) /\ UNCHANGED <<mode, view>>
        BY <1>2, QuietFrame DEF FollowRules, Planned
    <2> QED BY <2>1 DEF Searched, Searching, HeuristicsLast, UseHeuristic
<1>3. ASSUME NEW e \in cache, FindCached(e) PROVE Searched'
    <2>1. pc' = "planned" /\ source' = "planner_cache"
        BY <1>3 DEF FindCached, Planned
    <2> QED BY <2>1 DEF Searched, Searching, HeuristicsLast
<1>4. ASSUME MissCache PROVE Searched'
    <2>1. pc = "route" /\ pc' \in Models /\ source' = source
        BY <1>4, QuietFrame DEF MissCache, NeedsModel, Ask, Models
    <2> QED BY <2>1 DEF IInv, Searched, Searching, Models, HeuristicsLast
<1>5. ASSUME NotServed \/ Midnight \/ UNCHANGED vars \/ \E e \in cache : Expire(e)
      PROVE  Searched'
    <2>1. UNCHANGED <<pc, source, plan, asked, mode, view>>
        BY <1>5, QuietFrame
    <2> QED BY <2>1 DEF IInv, Searched, HeuristicsLast, UseHeuristic
<1>6. ASSUME ModelStep PROVE Searched'
    <2>1. pc \in Models /\ Outcome /\ asked' = asked \cup {pc} /\ UNCHANGED <<mode, view>>
        BY <1>6, ModelFrame
    <2>2. source = "none"
        BY <2>1 DEF IInv, Searched, Searching, Models
    <2>3. ASSUME NEW r \in Replies, Settle(PlannedCalls(r, analysis.hints), r)
          PROVE  Searched'
        <3>1. pc' = "planned" /\ source' = pc
            BY <2>3 DEF Settle, Planned
        <3> QED BY <2>1, <3>1 DEF Searched, Searching, Models, HeuristicsLast
    <2>4. ASSUME FallBack, pc = "strong" \/ (view.same /\ mode # "llm")
          PROVE  Searched'
        <3>1. pc' = "planned" /\ source' = "heuristic_router"
            BY <2>4 DEF FallBack, Planned
        <3> QED BY <2>1, <2>4, <3>1 DEF Searched, Searching, Models, HeuristicsLast
    <2>5. ASSUME Fail, mode = "llm" PROVE Searched'
        BY <2>1, <2>2, <2>5 DEF Fail, Searched, Searching, HeuristicsLast
    <2>6. ASSUME Ask("strong"), source' = source PROVE Searched'
        BY <2>2, <2>6 DEF Ask, Searched, HeuristicsLast
    <2> QED BY <2>1, <2>3, <2>4, <2>5, <2>6 DEF Outcome
<1>7. ASSUME LoopStep PROVE Searched'
    <2>1. /\ UNCHANGED <<source, asked, mode, view>>
          /\ pc \in {"planned", "propose"} /\ pc' \in {"planned", "propose", "answer"}
        BY <1>7, LoopFrame
    <2> QED BY <2>1 DEF IInv, Searched, Searching, HeuristicsLast, UseHeuristic
<1>8. ASSUME FailStep PROVE Searched'
    <2>1. /\ UNCHANGED <<source, plan, asked, mode, view>>
          /\ pc \in {"planned", "propose"} /\ pc' = "failed"
        BY <1>8, FailFrame
    <2>2. plan # <<>>
        BY <2>1 DEF IInv, Searched, Chosen
    <2> QED BY <2>1, <2>2 DEF IInv, Searched, Searching, HeuristicsLast, UseHeuristic
<1>9. ASSUME EndStep PROVE Searched'
    <2>1. source' = "none" /\ pc' = "idle"
        BY <1>9, EndFrame DEF Clean
    <2> QED BY <2>1 DEF Searched, HeuristicsLast
<1> QED BY Steps, <1>1, <1>2, <1>3, <1>4, <1>5, <1>6, <1>7, <1>8, <1>9

\* A plan that has just been made has not been followed yet.
LEMMA NotYetFollowed ==
    ASSUME NEW calls \in Seq(CallSet), calls # <<>>
    PROVE  Len(calls) \in Nat /\ 0 < Len(calls) /\ Len(NoWork.logs) = 0 /\ NoWork.made = 0
           /\ DOMAIN NoWork.logs = {} /\ NoWork.proposal = {}
BY DEF NoWork

LEMMA LoggingKept ==
    ASSUME IInv, [Next]_vars
    PROVE  Logging'
<1> USE DEF Good
<1>1. Shape' /\ Chosen' /\ Searched'
    BY ShapeKept, ChosenKept, SearchedKept
<1>2. ASSUME \/ \E c \in Contexts, override \in Overrides, later \in 0..MaxDay :
                    Receive(c, override, later)
             \/ \E override \in Overrides : ReceiveFails(override)
      PROVE  Logging'
    <2>1. pc = "idle" /\ pc' \in {"route", "refused"} /\ UNCHANGED <<work, plan>>
        BY <1>2, QuietFrame DEF Receive, ReceiveFails, Begin
    <2> QED BY <2>1 DEF IInv, Logging
<1>3. ASSUME work = NoWork, work' = work, pc' \in Searching \cup {"planned", "failed"},
             pc' # "failed" \/ plan' = plan
      PROVE  Logging'
    <2>1. CASE pc' = "planned"
        <3>1. plan' \in Seq(CallSet) /\ plan' # <<>>
            BY <1>1, <2>1 DEF Shape, Chosen, Searched
        <3> QED BY <1>3, <2>1, <3>1, NotYetFollowed DEF Logging, Searching
    <2>2. CASE pc' # "planned"
        <3>1. plan' \in Seq(CallSet)
            BY <1>1 DEF Shape
        <3>2. Len(plan') \in Nat /\ Len(work'.logs) = 0 /\ work'.made = 0
            BY <3>1, <1>3 DEF NoWork
        <3>3. Len(work'.logs) <= work'.made /\ work'.made <= Len(plan')
            BY <3>2
        <3> QED BY <1>3, <2>2, <3>3 DEF Logging, Searching
    <2> QED BY <2>1, <2>2
<1>4. ASSUME FollowRules \/ (\E e \in cache : FindCached(e)) \/ MissCache
      PROVE  Logging'
    <2>1. pc = "route" /\ work' = work /\ pc' \in Searching \cup {"planned"}
        BY <1>4, QuietFrame
        DEF FollowRules, FindCached, MissCache, NeedsModel, Planned, Ask, Searching
    <2>2. work = NoWork
        BY <2>1 DEF IInv, Logging, Searching
    <2> QED BY <1>3, <2>1, <2>2 DEF Searching
<1>5. ASSUME NotServed \/ Midnight \/ UNCHANGED vars \/ \E e \in cache : Expire(e)
      PROVE  Logging'
    <2>1. UNCHANGED <<pc, work, plan, turns>>
        BY <1>5, QuietFrame
    <2> QED BY <2>1 DEF IInv, Logging
<1>6. ASSUME ModelStep PROVE Logging'
    <2>1. pc \in Models /\ Outcome /\ work' = work
        BY <1>6, ModelFrame
    <2>2. work = NoWork
        BY <2>1 DEF IInv, Logging, Searching, Models
    <2>3. pc' \in Searching \cup {"planned", "failed"} /\ (pc' # "failed" \/ plan' = plan)
        BY <2>1 DEF Outcome, Settle, FallBack, Fail, Ask, Planned, Searching
    <2> QED BY <1>3, <2>1, <2>2, <2>3
<1>7. ASSUME LoopStep PROVE Logging'
    <2> DEFINE n == work.made + 1
    <2>1. UNCHANGED <<turns, plan>> /\ Len(plan) \in Nat
        BY <1>7, LoopFrame DEF IInv, Shape
    <2>2. CASE ReportAnswers
        <3>1. pc = "planned" /\ pc' = "answer" /\ work' = work
            BY <2>2 DEF ReportAnswers, tables
        <3> QED BY <2>1, <3>1 DEF IInv, Logging, Searching
    <2>3. ASSUME Invoke(TRUE)
          PROVE  /\ pc = "planned" /\ work'.made = n /\ n \in 1..Len(plan)
                 /\ work'.proposal = {} /\ Len(work'.logs) <= n
                 /\ \A i \in DOMAIN work'.logs :
                        /\ Good(work'.logs[i])
                        /\ work'.logs[i].tool \in Proposers => work'.logs[i].tool = plan[n].tool
        <3> DEFINE l == [turn |-> turns, tool |-> plan[n].tool, success |-> TRUE]
        <3>1. pc = "planned"
            BY <2>3 DEF Invoke
        <3>2. \A j \in DOMAIN work.logs : Good(work.logs[j]) /\ work.logs[j].tool \notin Proposers
            BY <3>1 DEF IInv, Logging
        <3>3. /\ work'.made = n /\ n \in 1..Len(plan) /\ work'.proposal = {} /\ Len(work'.logs) <= n
              /\ \A i \in DOMAIN work'.logs :
                    work'.logs[i] = l \/ \E j \in DOMAIN work.logs : work'.logs[i] = work.logs[j]
            BY <2>3, Invoked
        <3>4. Good(l) /\ l.tool = plan[n].tool
            OBVIOUS
        <3> HIDE DEF l
        <3>5. ASSUME NEW i \in DOMAIN work'.logs
              PROVE  /\ Good(work'.logs[i])
                     /\ work'.logs[i].tool \in Proposers => work'.logs[i].tool = plan[n].tool
            <4>1. CASE work'.logs[i] = l
                BY <3>4, <4>1
            <4>2. CASE \E j \in DOMAIN work.logs : work'.logs[i] = work.logs[j]
                BY <3>2, <4>2
            <4> QED BY <3>3, <4>1, <4>2
        <3> QED BY <3>1, <3>3, <3>5
    <2>4. ASSUME Invoke(TRUE), plan[n].tool \notin Proposers,
                 pc' = IF work'.made = Len(plan) THEN "answer" ELSE pc
          PROVE  Logging'
        <3>1. \A i \in DOMAIN work'.logs :
                  Good(work'.logs[i]) /\ work'.logs[i].tool \notin Proposers
            BY <2>3, <2>4
        <3>2. pc' \in {"planned", "answer"} /\ (pc' = "planned" => work'.made < Len(plan))
            BY <2>1, <2>3, <2>4
        <3>3. Len(work'.logs) <= work'.made /\ work'.made <= Len(plan) /\ work'.proposal = {}
            BY <2>3, <2>4
        <3> QED BY <2>1, <3>1, <3>2, <3>3 DEF Logging, Searching
    <2>5. CASE InvokeReads
        BY <2>4, <2>5 DEF InvokeReads, Upcoming
    <2>6. ASSUME NEW query \in Queries, NEW rows \in Rows, InvokeQuery(query, rows)
          PROVE  Logging'
        <3>1. "run_readonly_sql" \notin Proposers
            BY DEF Proposers
        <3> QED BY <2>4, <2>6, <3>1 DEF InvokeQuery, Upcoming
    <2>7. CASE Propose
        <3>1. pc' = "propose" /\ Invoke(TRUE)
            BY <2>7 DEF Propose
        <3>2. work'.made >= 1 /\ Len(work'.logs) <= work'.made /\ work'.made <= Len(plan)
            BY <2>1, <2>3, <3>1
        <3> QED BY <2>1, <2>3, <3>1, <3>2 DEF Logging, Searching
    <2>8. CASE CreateProposal
        <3> DEFINE call == plan[work.made]
        <3>1. pc = "propose" /\ pc' = "answer" /\ work' = [work EXCEPT !.proposal = {call}]
              /\ work \in Work
            BY <2>8 DEF CreateProposal, IInv, Shape
        <3>2. work'.logs = work.logs /\ work'.made = work.made /\ work'.proposal = {call}
            BY <3>1 DEF Work
        <3>3. /\ Len(work.logs) <= work.made /\ work.made <= Len(plan)
              /\ \A i \in DOMAIN work.logs :
                    /\ Good(work.logs[i])
                    /\ work.logs[i].tool \in Proposers => work.logs[i].tool = call.tool
            BY <3>1 DEF IInv, Logging
        <3> HIDE DEF call
        <3> QED BY <2>1, <3>1, <3>2, <3>3 DEF Logging, Searching
    <2> QED BY <1>7, <2>2, <2>5, <2>6, <2>7, <2>8 DEF LoopStep
<1>8. ASSUME FailStep PROVE Logging'
    <2>1. pc' = "failed" /\ plan' = plan
        BY <1>8, FailFrame
    <2>2. CASE InvokeFails
        <3>1. Len(plan) \in Nat
            BY DEF IInv, Shape
        <3>2. work'.made \in 1..Len(plan) /\ Len(work'.logs) <= work'.made
            BY <2>2, Invoked DEF InvokeFails
        <3>3. Len(work'.logs) <= work'.made /\ work'.made <= Len(plan)
            BY <3>1, <3>2
        <3> QED BY <2>1, <3>3 DEF Logging, Searching
    <2>3. CASE ReportFails \/ RejectProposal
        <3>1. work' = work
            BY <2>3 DEF ReportFails, RejectProposal, tables
        <3> QED BY <2>1, <3>1 DEF IInv, Logging, Searching
    <2> QED BY <1>8, <2>2, <2>3 DEF FailStep
<1>9. ASSUME EndStep PROVE Logging'
    <2>1. pc' = "idle" /\ work' = NoWork /\ plan' = <<>>
        BY <1>9, EndFrame DEF Clean
    <2> QED BY <2>1 DEF Logging, NoWork
<1> QED BY Steps, <1>2, <1>4, <1>5, <1>6, <1>7, <1>8, <1>9

LEMMA RecordedKept ==
    ASSUME IInv, [Next]_vars
    PROVE  Recorded'
<1>1. CASE UNCHANGED <<logs, proposals, ended>>
    BY <1>1 DEF IInv, Recorded, LogsTellOfAnswers
<1>2. ASSUME ModelStep PROVE UNCHANGED <<logs, proposals, ended>>
    BY <1>2, ModelFrame DEF Outcome, Settle, FallBack, Fail
<1>3. ASSUME EndStep PROVE Recorded'
    <2>1. pc # "idle" /\ turns \in Nat /\ work \in Work
        BY <1>3, EndFrame DEF IInv, Shape
    <2>2. Len(ended) = turns - 1 /\ ended \in Seq({"answered", "error"})
        BY <2>1 DEF IInv, Shape
    <2>3. DOMAIN ended = 1..(turns - 1) /\ turns \notin DOMAIN ended /\ turns >= 1
        BY <2>1, <2>2
    <2>4. ASSUME NEW how \in {"answered", "error"}, ended' = Append(ended, how)
          PROVE  /\ DOMAIN ended' = DOMAIN ended \cup {turns} /\ ended'[turns] = how
                 /\ \A i \in DOMAIN ended : ended'[i] = ended[i]
        BY <2>1, <2>2, <2>3, <2>4
    <2>5. CASE Rollback
        <3>1. ended' = Append(ended, "error") /\ UNCHANGED <<logs, proposals>>
            BY <2>5 DEF Rollback
        <3> QED BY <2>4, <3>1 DEF IInv, Recorded, LogsTellOfAnswers
    <2>6. CASE Commit
        <3> DEFINE new == {work.logs[i] : i \in DOMAIN work.logs}
                   made == {[turn |-> turns, call |-> call] : call \in work.proposal}
        <3>1. /\ pc = "answer" /\ ended' = Append(ended, "answered")
              /\ logs' = logs \cup new /\ proposals' = proposals \cup made
            BY <2>6 DEF Commit
        <3>2. /\ DOMAIN ended' = DOMAIN ended \cup {turns} /\ ended'[turns] = "answered"
              /\ \A i \in DOMAIN ended : ended'[i] = ended[i]
            BY <2>4, <3>1
        <3>3. \A l \in new : l = [turn |-> turns, tool |-> l.tool, success |-> TRUE]
            BY <3>1 DEF IInv, Logging, Good
        <3>4. \A l \in new : l.tool \in Proposers => \E call \in work.proposal : call.tool = l.tool
            BY <3>1 DEF IInv, Logging
        <3> HIDE DEF new
        <3>5. \A l \in new : l.tool \in Proposers =>
                  \E p \in made : p.turn = l.turn /\ p.call.tool = l.tool
            <4> SUFFICES ASSUME NEW l \in new, l.tool \in Proposers
                         PROVE  \E p \in made : p.turn = l.turn /\ p.call.tool = l.tool
                OBVIOUS
            <4>1. PICK call \in work.proposal : call.tool = l.tool
                BY <3>4
            <4>2. l.turn = turns
                BY <3>3
            <4>3. [turn |-> turns, call |-> call] \in made
                OBVIOUS
            <4> QED BY <4>1, <4>2, <4>3
        <3> HIDE DEF made
        <3>6. \A l \in new : l.turn = turns /\ l.success
            BY <3>3
        <3>7. LogsTellOfAnswers'
            BY <3>1, <3>2, <3>5, <3>6 DEF IInv, Recorded, LogsTellOfAnswers
        <3>8. \A l \in logs' : l.turn \in DOMAIN ended'
            BY <3>1, <3>2, <3>6 DEF IInv, Recorded
        <3> QED BY <3>7, <3>8 DEF Recorded
    <2> QED BY <1>3, <2>5, <2>6 DEF EndStep
<1> QED BY Steps, <1>1, <1>2, <1>3, QuietFrame, LoopFrame, FailFrame

LEMMA Inductive == Spec => []IInv
<1>1. IInv /\ [Next]_vars => IInv'
    BY ShapeKept, AnalyzedKept, CacheKept, ChosenKept, SearchedKept, LoggingKept, RecordedKept
    DEF IInv
<1> QED BY <1>1, InitIInv, PTL DEF Spec
-----------------------------------------------------------------------------
(* The theorems.                                                           *)

\* A plan of the rules is a plan.
LEMMA RulePlansArePlans ==
    ASSUME NEW calls \in Seq(CallSet)
    PROVE  IsPlan(calls)
<1> SUFFICES ASSUME NEW i \in DOMAIN calls
             PROVE  IsCall(calls[i])
    BY DEF IsPlan
<1>1. calls[i] \in CallSet
    OBVIOUS
<1>2. PICK ks \in SUBSET Keys : calls[i].args \in [ks -> Value]
    BY <1>1 DEF CallSet
<1> QED BY <1>1, <1>2 DEF CallSet, AllTools, IsCall

\* Every variable keeps its type and every plan is made of tools that exist, whatever a message
\* says and a model replies (PlannerService.Plan and the loop of HandleChat).
THEOREM TypeCorrect == Spec => []TypeOK
<1>1. ASSUME IInv PROVE TypeOK
    <2>1. Shape
        BY <1>1 DEF IInv
    <2>2. IsPlan(plan)
        BY <2>1, RulePlansArePlans DEF Shape
    <2>3. IsPlan(<<>>)
        BY DEF IsPlan
    <2>4. IsPlan(analysis.fast) /\ IsPlan(analysis.hints) /\ IsPlan(analysis.fallback)
        <3>1. CASE pc \in {"idle", "refused"}
            BY <1>1, <2>3, <3>1 DEF IInv, Analyzed, NoAnalysis
        <3>2. CASE pc \notin {"idle", "refused"}
            BY <1>1, <3>2, Offers, RulePlansArePlans DEF RulePlan
        <3> QED BY <3>1, <3>2
    <2>5. \A e \in cache : IsPlan(e.calls)
        BY <1>1, Plans, RulePlansArePlans DEF IInv, CacheSound
    <2>6. Len(work.logs) <= work.made /\ work.made <= Len(plan)
        BY <1>1 DEF IInv, Logging
    <2>7. \A i \in DOMAIN ended : ended[i] \in {"answered", "error"}
        BY <2>1 DEF Shape
    <2>8. (endpoint # "none") = (pc \in {"primary", "strong"})
        BY <2>1 DEF Shape, Models
    <2> QED BY <2>1, <2>2, <2>4, <2>5, <2>6, <2>7, <2>8
        DEF Shape, TypeOK, PCs, ModeSet, Models, ModelSources
<1> QED BY <1>1, Inductive, PTL

\* A plan is followed only in a turn that has analyzed its message.
LEMMA PlanOfTurn ==
    ASSUME IInv, plan # <<>>
    PROVE  source # "none" /\ pc \notin {"idle", "refused"}
BY DEF IInv, Chosen, Searched, Searching

\* The calls of a plan, whoever made it.
LEMMA CallsOfPlan ==
    ASSUME IInv, NEW i \in DOMAIN plan
    PROVE  /\ Complete(plan[i], Arguments) \/ Sound(plan[i])
           /\ \A k \in DOMAIN plan[i].args : k \in Keys /\ plan[i].args[k] \in Arguments[k]
<1>1. source # "none" /\ pc \notin {"idle", "refused"}
    <2>1. plan # <<>>
        OBVIOUS
    <2> QED BY <2>1, PlanOfTurn
<1>2. plan[i] \in CallSet
    BY DEF IInv, Shape
<1>3. \A k \in DOMAIN plan[i].args : k \in Keys
    BY <1>2 DEF CallSet
<1>4. CASE source \in ModelSources
    <2>1. PICK call \in CallSet :
              /\ plan = <<call>> /\ Sound(call)
              /\ \A k \in DOMAIN call.args : TakenFrom(k, call.args[k], analysis.hints)
        BY <1>4 DEF IInv, Chosen, ModelPlan
    <2>2. plan[i] = call
        BY <2>1
    <2>3. RulePlan(analysis.hints, Right(message, context.memory, analysis.days))
        BY <1>1, Offers DEF Arguments
    <2>4. \A k \in DOMAIN call.args :
              call.args[k] \in Right(message, context.memory, analysis.days)[k]
        BY <1>3, <2>1, <2>2, <2>3, TakenRight
    <2> QED BY <1>3, <2>1, <2>2, <2>4 DEF Arguments
<1>5. CASE source \in {"l0_rule_router", "heuristic_router"}
    <2>1. plan \in {analysis.fast, analysis.fallback}
        BY <1>5 DEF IInv, Chosen
    <2>2. RulePlan(plan, Arguments)
        BY <1>1, <2>1, Offers
    <2> QED BY <1>3, <2>2 DEF RulePlan, Complete
<1> QED BY <1>1, <1>4, <1>5 DEF IInv, Shape

\* The keys that the parse functions of router.go write, the schemas of tool_registry.go and what
\* sanitizeArgumentsForSchema and mergeHintArguments make of a model's reply agree.
THEOREM FitSchemas == Spec => []CallsFitSchemas
<1>1. ASSUME IInv PROVE CallsFitSchemas
    <2> SUFFICES ASSUME NEW i \in DOMAIN plan
                 PROVE  /\ DOMAIN plan[i].args \subseteq Parameters(plan[i].tool)
                        /\ Required(plan[i].tool) \subseteq DOMAIN plan[i].args
        BY DEF CallsFitSchemas
    <2>1. CASE Complete(plan[i], Arguments)
        BY <2>1 DEF Complete, Required
    <2>2. CASE Sound(plan[i])
        BY <2>2 DEF Sound
    <2> QED BY <1>1, <2>1, <2>2, CallsOfPlan
<1> QED BY <1>1, Inductive, PTL

\* A plan made by a model, or found in the cache, is one call that lacks no required argument,
\* and the first model was sure of it (routeDecisionToPlannedCalls, shouldEscalateToStrongModel).
THEOREM PlansSound == Spec => []ModelPlansSound
<1>1. ASSUME IInv PROVE ModelPlansSound
    <2> SUFFICES ASSUME source \in ModelSources
                 PROVE  /\ Len(plan) = 1
                        /\ IsReport \/ ~ Missing(plan[1].tool, plan[1].args)
                        /\ source = "primary" => confident
        BY DEF ModelPlansSound, ModelSources
    <2>1. PICK call \in CallSet : plan = <<call>> /\ Sound(call)
        BY <1>1 DEF IInv, Chosen, ModelPlan
    <2>2. Len(plan) = 1 /\ plan[1] = call
        BY <2>1
    <2>3. source = "primary" => confident
        BY <1>1 DEF IInv, Chosen
    <2> QED BY <2>1, <2>2, <2>3 DEF Sound, IsReport
<1> QED BY <1>1, Inductive, PTL

\* Without a model a question after causes is answered by the analysis, whichever of the simpler
\* rules of fastPath its words also fit.
THEOREM Attributed == Spec => []AttributionAnalyzed
<1>1. ASSUME IInv PROVE AttributionAnalyzed
    <2> SUFFICES ASSUME source \in {"l0_rule_router", "heuristic_router"}, ShouldAnalyze(message),
                        ~ HasSome(message, {"assign", "note", "escalate", "report", "ticket",
                                            "followup"})
                 PROVE  ToolsOf(plan) = {"analyze_operational_anomaly"}
        BY DEF AttributionAnalyzed
    <2>1. plan # <<>> /\ AsksForCauses(message)
        BY <1>1 DEF IInv, Chosen, AsksForCauses
    <2>2. pc \notin {"idle", "refused"}
        BY <1>1, <2>1, PlanOfTurn
    <2>3. analysis.fast = <<>> /\ ToolsOf(analysis.fallback) = {"analyze_operational_anomaly"}
        BY <1>1, <2>1, <2>2 DEF IInv, Analyzed
    <2> QED BY <1>1, <2>1, <2>3 DEF IInv, Chosen
<1> QED BY <1>1, Inductive, PTL

\* The dates in a plan that were computed from the clock are those of the day, or the midnight,
\* of the question, in a plan from the cache too: the hints, with their dates, are in its key.
THEOREM Fresh == Spec => []FreshDates
<1>1. ASSUME IInv PROVE FreshDates
    <2> SUFFICES ASSUME NEW i \in DOMAIN plan, NEW k \in DOMAIN plan[i].args
                 PROVE  plan[i].args[k].day \in analysis.days \cup {Undated}
        BY DEF FreshDates
    <2>1. k \in Keys /\ plan[i].args[k] \in Arguments[k]
        BY <1>1, CallsOfPlan
    <2> QED BY <2>1 DEF Arguments, Right
<1> QED BY <1>1, Inductive, PTL

\* A remembered value in a plan, whoever made it and whenever, is the one that the conversation
\* remembers now, of the field its argument is about (extractTicketNo and the other extractors of
\* router.go, and the key of the cached plans).
THEOREM RemembersTruly == Spec => []RemembersNow
<1>1. ASSUME IInv PROVE RemembersNow
    <2> SUFFICES ASSUME NEW i \in DOMAIN plan, NEW k \in DOMAIN plan[i].args,
                        plan[i].args[k].from = "remembered"
                 PROVE  /\ IsFollowup(message)
                        /\ k \in DOMAIN RememberedAs
                        /\ plan[i].args[k].of = context.memory[RememberedAs[k]]
        BY DEF RemembersNow
    <2>1. k \in Keys /\ plan[i].args[k] \in Arguments[k]
        BY <1>1, CallsOfPlan
    <2> QED BY <2>1 DEF Arguments, Right
<1> QED BY <1>1, Inductive, PTL

\* A plan from the cache was made for the same message, memory, recent turns and hints.
THEOREM CacheHitsMatch == Spec => []HitsMatch
<1>1. IInv => HitsMatch
    BY DEF IInv, Chosen
<1> QED BY <1>1, Inductive, PTL

\* With a usable model the rules come last, and a turn fails without a plan only in llm mode.
THEOREM RulesComeLast == Spec => []HeuristicsLast
<1>1. IInv => HeuristicsLast
    BY DEF IInv, Searched
<1> QED BY <1>1, Inductive, PTL

\* The committed tool log holds the successful calls of answered turns, and a proposing tool
\* only with the proposal of its turn; rows may be missing (ToolRegistry.Invoke, HandleChat).
THEOREM LogsTrue == Spec => []LogsTellOfAnswers
<1>1. IInv => LogsTellOfAnswers
    BY DEF IInv, Recorded
<1> QED BY <1>1, Inductive, PTL
-----------------------------------------------------------------------------
(* A turn ends.                                                            *)

\* How far a turn is from its end: the models and endpoints still to ask, then the plan.
Stage ==
    CASE pc = "route" -> 8
      [] pc = "primary" -> IF endpoint = "/responses" THEN 7 ELSE 6
      [] pc = "strong" -> IF endpoint = "/responses" THEN 5 ELSE 4
      [] pc = "planned" -> 3
      [] pc = "propose" -> 2
      [] pc \in {"refused", "answer", "failed"} -> 1
      [] pc = "idle" -> 0

\* The calls of the plan that have not been made.
Left == Len(plan) - work.made

\* A turn in progress only comes nearer to its end, in its stages or within its plan.
Nearing ==
    [][pc # "idle" => \/ Stage' < Stage
                      \/ Stage' = Stage /\ Left' < Left /\ Left' \in Nat
                      \/ UNCHANGED <<pc, endpoint, plan, work>>]_vars

LEMMA ModelNears ==
    ASSUME IInv, ModelStep
    PROVE  Stage' < Stage
<1>1. pc \in {"primary", "strong"} /\ Outcome
    BY ModelFrame DEF Models
<1>2. CASE \E r \in Replies : Settle(PlannedCalls(r, analysis.hints), r)
    BY <1>1, <1>2 DEF Settle, Planned, Stage
<1>3. CASE FallBack \/ Fail
    BY <1>1, <1>3 DEF FallBack, Planned, Fail, Stage
<1>4. CASE pc = "primary" /\ Ask("strong")
    BY <1>4 DEF Ask, Stage
<1> QED BY <1>1, <1>2, <1>3, <1>4 DEF Outcome

LEMMA LoopNears ==
    ASSUME IInv, LoopStep
    PROVE  Stage' < Stage \/ (Stage' = Stage /\ Left' < Left /\ Left' \in Nat)
<1>1. /\ pc \in {"planned", "propose"} /\ pc' \in {"planned", "propose", "answer"}
      /\ plan' = plan
    BY LoopFrame
<1>2. CASE ReportAnswers \/ Propose \/ CreateProposal
    BY <1>1, <1>2 DEF ReportAnswers, Propose, Invoke, CreateProposal, Stage
<1>3. CASE InvokeReads \/ \E query \in Queries, rows \in Rows : InvokeQuery(query, rows)
    <2>1. Invoke(TRUE) /\ pc = "planned" /\ pc' \in {"planned", "answer"}
        BY <1>1, <1>3 DEF InvokeReads, InvokeQuery, Invoke
    <2>2. work.made + 1 \in 1..Len(plan) /\ work'.made = work.made + 1 /\ work.made \in Nat
        BY <2>1, Invoked DEF IInv, Shape, Work
    <2>3. Len(plan) \in Nat
        BY DEF IInv, Shape
    <2>4. Left' < Left /\ Left' \in Nat
        BY <1>1, <2>2, <2>3 DEF Left
    <2> QED BY <2>1, <2>4 DEF Stage
<1> QED BY <1>2, <1>3 DEF LoopStep

\* Every turn of the planner ends: a model is asked once at each endpoint, a fallback leads
\* to no other, and the loop makes each call of the plan once (service_support.go Plan,
\* agent.go HandleChat).
THEOREM TurnsEnd == Spec => Nearing
<1>1. ASSUME IInv, [Next]_vars, pc # "idle"
      PROVE  \/ Stage' < Stage
             \/ Stage' = Stage /\ Left' < Left /\ Left' \in Nat
             \/ UNCHANGED <<pc, endpoint, plan, work>>
    <2>1. CASE FollowRules \/ \E e \in cache : FindCached(e)
        BY <2>1 DEF FollowRules, FindCached, NeedsModel, Planned, Stage
    <2>2. CASE MissCache
        BY <2>2 DEF MissCache, NeedsModel, Ask, Stage
    <2>3. CASE NotServed
        <3>1. endpoint = "/responses" /\ endpoint' = "/chat/completions" /\ pc' = pc
            BY <2>3 DEF NotServed
        <3>2. endpoint # "none"
            BY <3>1
        <3>3. pc \in Models
            BY <1>1, <3>2, Zenon DEF IInv, Shape
        <3> QED BY <3>1, <3>2, <3>3 DEF Stage, Models
    <2>4. CASE FailStep \/ EndStep
        <3>1. CASE FailStep
            BY <3>1, FailFrame DEF Stage
        <3>2. CASE EndStep
            BY <3>2, EndFrame DEF Clean, Stage
        <3> QED BY <2>4, <3>1, <3>2
    <2>5. CASE Midnight \/ (\E e \in cache : Expire(e)) \/ UNCHANGED vars
        BY <2>5, QuietFrame
    <2>6. CASE \/ \E c \in Contexts, override \in Overrides, later \in 0..MaxDay :
                    Receive(c, override, later)
               \/ \E override \in Overrides : ReceiveFails(override)
        BY <1>1, <2>6 DEF Receive, ReceiveFails, Begin
    <2> QED BY <1>1, <2>1, <2>2, <2>3, <2>4, <2>5, <2>6, ModelNears, LoopNears, Steps
<1>2. IInv /\ [Next]_vars =>
        [pc # "idle" => \/ Stage' < Stage
                        \/ Stage' = Stage /\ Left' < Left /\ Left' \in Nat
                        \/ UNCHANGED <<pc, endpoint, plan, work>>]_vars
    BY <1>1
<1> QED BY <1>2, Inductive, PTL DEF Spec, Nearing
=============================================================================
