---------------------------- MODULE MCAgentGraph ----------------------------
(***************************************************************************)
(* Small instances of module AgentGraph for TLC: messages, what their words*)
(* ask for, and the plans that router.py makes for them.                   *)
(***************************************************************************)
EXTENDS AgentGraph, TLC

CONSTANTS govern, explain, look, mixed, other

Call(tool, args) == [tool |-> tool, args |-> args]
Refunds == Call("query_refund_metrics", {"category", "region", "dates"})
Anomalies == Call("find_refund_anomalies", {"few", "region", "dates"})
Breaches == Call("list_sla_breached_tickets", {"group_by", "region", "date"})
Releases == Call("get_recent_releases", {})
Detail == Call("get_ticket_detail", {"ticket"})
Comments == Call("get_ticket_comments", {"ticket"})
Sql == Call("run_readonly_sql", {})
Analysis == Call("analyze_operational_anomaly", {"date"})
Assign == Call("propose_assign_ticket", {"ticket"})
Escalate == Call("propose_escalate_ticket", {"ticket"})
Report == Call("generate_report", {})

MCAsks ==
    (govern :> {"write", "detail", "history"}) @@ (explain :> {"write", "attribution"})
        @@ (look :> {"history", "detail"}) @@ (mixed :> {"attribution"}) @@ (other :> {})

\* govern: plan_ticket_governance_request; explain: a write without a ticket number,
\* planned by the model or from the hints; look: a message without a ticket number,
\* planned by the model; mixed: plan_operational_anomaly; other: the fallback.
MCPlans ==
    (govern :> {<<Detail, Assign, Escalate>>, <<Detail, Comments, Assign>>})
        @@ (explain :> {<<Refunds, Analysis, Sql, Comments>>, <<Refunds, Assign>>,
                        <<Anomalies, Breaches, Releases>>})
        @@ (look :> {<<Detail, Refunds>>, <<Detail, Breaches, Releases, Sql>>})
        @@ (mixed :> {<<Anomalies, Breaches, Releases, Report>>})
        @@ (other :> {<<Report>>, <<Report, Refunds>>})
=============================================================================
