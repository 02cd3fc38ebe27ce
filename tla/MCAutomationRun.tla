---------------------------- MODULE MCAutomationRun ----------------------------
(* Small automations for TLC: one waits, mails and deletes the contact, one    *)
(* delays, updates the contact and loops on a condition, one just ends; and    *)
(* one without a loop that waits, mails and delays.                            *)
EXTENDS AutomationRun

MCSteps == 1..8
MCKind == <<"trigger", "wait_for_event", "send_email", "contact_delete",
            "delay", "contact_update", "end", "condition">>
NoEdge == [b \in Branches |-> 0]
MCLoopFlows ==
  {[live |-> 1..4, edge |-> [s \in MCSteps |-> NoEdge]],
   [live |-> {1, 5, 6, 8},
    edge |-> [s \in MCSteps |-> IF s = 8 THEN [NoEdge EXCEPT !["condition_met"] = 5] ELSE NoEdge]],
   [live |-> {1, 7}, edge |-> [s \in MCSteps |-> NoEdge]]}
MCPlainFlow == {[live |-> {1, 2, 3, 5}, edge |-> [s \in MCSteps |-> NoEdge]]}
=============================================================================
