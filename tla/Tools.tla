------------------------------- MODULE Tools -------------------------------
(***************************************************************************)
(* The tools of the Go backend (tool_registry.go): what each is called     *)
(* with, what it requires, and the checks between a tool and its result.   *)
(*                                                                         *)
(* The value of an argument is abstracted to where it comes from: for a    *)
(* date that is relative to today with the day it was computed on, for a   *)
(* remembered value with the number of what was remembered (0 for others). *)
(***************************************************************************)
EXTENDS Naturals, Sequences

CONSTANT MaxDay  \* bound: the days a behaviour spans, from 0

Proposers == {"propose_assign_ticket", "propose_add_ticket_comment", "propose_escalate_ticket"}

\* BuildDefaultToolRegistry; generate_report is not in the registry.
Registered == Proposers \cup
    {"query_refund_metrics", "find_refund_anomalies", "analyze_operational_anomaly",
     "list_sla_breached_tickets", "get_ticket_detail", "get_ticket_comments",
     "get_recent_releases", "run_readonly_sql"}

\* The properties of the schema of each tool.
Parameters(tool) ==
    CASE tool = "query_refund_metrics" -> {"start_date", "end_date", "region", "category"}
      [] tool = "find_refund_anomalies" -> {"start_date", "end_date", "region", "top_k"}
      [] tool = "list_sla_breached_tickets" -> {"region", "date", "group_by"}
      [] tool \in {"get_ticket_detail", "get_ticket_comments"} -> {"ticket_no"}
      [] tool = "get_recent_releases" -> {}
      [] tool = "analyze_operational_anomaly" -> {"date", "region"}
      [] tool = "run_readonly_sql" -> {"sql"}
      [] tool = "propose_assign_ticket" -> {"ticket_no", "assignee_name", "reason"}
      [] tool = "propose_add_ticket_comment" -> {"ticket_no", "comment_text", "reason"}
      [] tool = "propose_escalate_ticket" -> {"ticket_no", "new_priority", "reason"}
      [] tool = "generate_report" -> {"report_type"}

Optional == {"region", "category", "top_k", "group_by"}
Required(tool) == Parameters(tool) \ Optional

Keys == UNION {Parameters(tool) : tool \in Registered \cup {"generate_report"}}

\* "said" in the message, "remembered" from an earlier turn, the "default" of the router,
\* the choice of a "model", or "blank": an empty string, a null.
Sources == {"said", "remembered", "default", "model", "blank"}
Undated == MaxDay + 1
Value == [from : Sources, day : 0..Undated, of : Nat]
From(source) == [from |-> source, day |-> Undated, of |-> 0]
On(source, day) == [from |-> source, day |-> day, of |-> 0]
Remembered(of) == [from |-> "remembered", day |-> Undated, of |-> of]
Blank == From("blank")
IsBlank(v) == v.from = "blank"

Call(tool, args) == [tool |-> tool, args |-> args]
Report == Call("generate_report", [report_type |-> From("default")])

\* hasMissingRequiredArguments
Missing(tool, args) ==
    \E k \in Required(tool) : k \notin DOMAIN args \/ IsBlank(args[k])
-----------------------------------------------------------------------------
(* SQLGuard.Validate and VerifyResultSize.  A query is abstracted to its   *)
(* verb, whether it holds a forbidden word, the numbers after its LIMITs   *)
(* and the names after its FROMs and JOINs, in their order.                *)

Views == {"v_refund_metrics_daily", "v_ticket_sla", "v_ticket_detail", "v_recent_releases"}

\* The first LIMIT counts; a name counts as it is written.
Validate(query, maxLimit) ==
    /\ query.verb = "select"
    /\ ~ query.forbidden
    /\ query.limits # <<>>
    /\ Head(query.limits) <= maxLimit
    /\ query.objects # {}
    /\ query.objects \subseteq Views

VerifyResultSize(rows) == rows \in 1..200

\* VerifyProposal, the part that looks at the payload alone: every tool that proposes
\* checks what its action needs.
PayloadComplete(call) ==
    \A k \in Parameters(call.tool) : k \in DOMAIN call.args /\ ~ IsBlank(call.args[k])

=============================================================================
