----------------------------- MODULE MCPlanner -----------------------------
(***************************************************************************)
(* A small instance of module Planner for TLC: under rules alone every     *)
(* message of up to two words, or three that rules depend on, and some     *)
(* longer ones; and a few messages that reach a model under the            *)
(* configurations the server starts with.                                  *)
(***************************************************************************)
EXTENDS Planner

AcceptedViews == {View(c) : c \in {d \in {LoadConfig(e) : e \in Environment} : Accepted(d)}}

\* Rules alone, the default mode.
RulesOnly == [local |-> FALSE, mode |-> "auto", usable |-> FALSE, same |-> TRUE, fast |-> TRUE]

\* The words that a rule can depend on; the others only fill an argument or count with a model.
Deciding == Words \ {"assignee", "text", "grouping", "region", "category", "count", "week",
                     "yesterday", "today", "sql", "english"}

Short ==
    {m \in {{a, b, c} : a, b, c \in Deciding} \cup {{a, b} : a, b \in Words} : Message(m)}

Long ==
    {{"over", "sla", "region", "grouping", "yesterday"}, {"assign", "assignee", "ticket", "followup"},
     {"note", "text", "add", "ticket"}, {"escalate", "priority", "followup", "ticket"},
     {"refund", "anomaly", "region", "week", "count"}, {"ticket", "detail", "history", "note"},
     {"refund", "sla", "over", "region"}, {"note", "text", "add", "followup", "detail"}, Words}

ToModels ==
    {{}, {"detail"}, {"sql"}, {"english"}, {"attribution", "yesterday", "region"},
     {"attribution", "followup"}, {"refund", "anomaly", "yesterday"}, {"assign", "followup"}}

MCInputs ==
    [message : Short \cup Long, view : {RulesOnly}] \cup
    [message : ToModels, view : {v \in AcceptedViews : v.mode = "auto"}]

\* The same value remembered of every field, or none.
All(n) == [f \in Fields |-> n]

MCContexts ==
    {[memory |-> All(0), recent |-> 1, summary |-> 0],
     [memory |-> All(1), recent |-> 1, summary |-> 0],
     [memory |-> All(1), recent |-> 2, summary |-> 1],
     [memory |-> All(2), recent |-> 2, summary |-> 0]}

MCOverrides == {"", "openai", "heuristic"}

Reply(tool, args, sure) ==
    [tool |-> tool, args |-> args, confident |-> sure]

M == From("model")

MCReplies ==
    {Reply("", <<>>, FALSE),
     Reply("get_ticket_detail", <<>>, TRUE),
     Reply("find_refund_anomalies", [start_date |-> M, end_date |-> M, unknown |-> M], TRUE),
     Reply("analyze_operational_anomaly", [date |-> Blank], FALSE),
     Reply("propose_assign_ticket",
           [ticket_no |-> M, assignee_name |-> M, reason |-> Blank], TRUE),
     Reply("unknown_tool", <<>>, TRUE),
     Reply("generate_report", [report_type |-> M], TRUE),
     Reply("run_readonly_sql", [sql |-> M], TRUE)}

Query(limits, objects) ==
    [verb |-> "select", forbidden |-> FALSE, limits |-> limits, objects |-> objects]

MCQueries ==
    {Query(<<5>>, {"v_ticket_sla"}), Query(<<>>, {"v_ticket_sla"}),
     Query(<<5>>, {"v_ticket_sla", "users"})}

MCRows == {0, 1, 201}
=============================================================================
