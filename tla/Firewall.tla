------------------------------ MODULE Firewall ------------------------------
(***************************************************************************)
(* The packet filter (kernel/security/firewall.c) and the page that shows  *)
(* it (kernel/apps/firewall_app.c).  A packet is its kind, and a rule's    *)
(* direction, protocol, address and port are the set of kinds they match.  *)
(***************************************************************************)
EXTENDS Naturals, Sequences, FiniteSets

CONSTANTS MaxRules,       (* MAX_FIREWALL_RULES                             *)
          ShownRules,     (* the rows of the page's table: 4 in the code    *)
          MaxRuleId, MaxInspected   (* bounds: rules made, packets          *)

ASSUME FirewallAssumption == /\ {MaxRules, ShownRules, MaxRuleId, MaxInspected} \subseteq Nat
                             /\ MaxRules >= 3     \* room for the standard rules

VARIABLES rules,           (* g_rules                                       *)
          next_rule_id,    (* g_next_rule_id                                *)
          firewall_active, total_inspected, total_allowed, total_blocked,
          active_rules_count,                                 (* g_stats    *)
          retired          (* history: packets that deleted rules matched   *)

firewallStats == <<firewall_active, total_inspected, total_allowed, total_blocked>>
firewallVars == <<rules, next_rule_id, firewallStats, active_rules_count, retired>>

RuleSlot == 1 .. MaxRules
Inbound == {"loopback in", "smb", "other in"}
Outbound == {"loopback out", "web", "other out"}
Packet == Inbound \cup Outbound

(* The rules firewall_init makes; those for DNS, HTTP, NetBIOS and Telnet
   are like "web" and "smb".                                                *)
Standard == << [matches |-> {"loopback in", "loopback out"}, action |-> "allow"],
               [matches |-> {"web"}, action |-> "allow"],
               [matches |-> {"smb"}, action |-> "drop"] >>

NoRule == [id |-> 0, enabled |-> FALSE, matches |-> {}, action |-> "allow", matched |-> 0]

(* firewall_init: the standard rules in the first slots. *)
firewall_init ==
    /\ rules = [i \in RuleSlot |->
                  IF i > Len(Standard) THEN NoRule
                  ELSE [id |-> i, enabled |-> TRUE, matches |-> Standard[i].matches,
                        action |-> Standard[i].action, matched |-> 0]]
    /\ next_rule_id = Len(Standard) + 1
    /\ firewall_active = TRUE
    /\ total_inspected = 0 /\ total_allowed = 0 /\ total_blocked = 0
    /\ active_rules_count = Len(Standard)
    /\ retired = 0

firewall_set_active ==
    /\ firewall_active' \in BOOLEAN
    /\ UNCHANGED <<rules, next_rule_id, total_inspected, total_allowed, total_blocked,
                   active_rules_count, retired>>

(* firewall_add_rule takes the first slot that is not enabled. *)
firewall_add_rule(matches, action) ==
    /\ next_rule_id <= MaxRuleId
    /\ \E i \in RuleSlot :
          /\ ~rules[i].enabled
          /\ \A j \in 1 .. i - 1 : rules[j].enabled
          /\ rules' = [rules EXCEPT ![i] = [id |-> next_rule_id, enabled |-> TRUE,
                          matches |-> matches, action |-> action, matched |-> 0]]
          /\ retired' = retired + rules[i].matched
    /\ next_rule_id' = next_rule_id + 1
    /\ active_rules_count' = active_rules_count + 1
    /\ UNCHANGED firewallStats

(* Bug: the slot keeps its number, and a second deletion finds it. *)
firewall_delete_rule_Twice(id) ==
    /\ \E i \in RuleSlot : rules[i].id = id /\ rules' = [rules EXCEPT ![i].enabled = FALSE]
    /\ active_rules_count' = IF active_rules_count > 0 THEN active_rules_count - 1 ELSE 0
    /\ UNCHANGED <<next_rule_id, firewallStats, retired>>

firewall_delete_rule(id) ==
    /\ \E i \in RuleSlot : /\ rules[i].enabled /\ rules[i].id = id
                           /\ rules' = [rules EXCEPT ![i].enabled = FALSE, ![i].id = 0]
    /\ active_rules_count' = IF active_rules_count > 0 THEN active_rules_count - 1 ELSE 0
    /\ UNCHANGED <<next_rule_id, firewallStats, retired>>

(* A press on a rule's action in the page's table, whether or not the rule
   is enabled.                                                              *)
on_firewall_mouse ==
    /\ \E i \in RuleSlot \cap (1 .. ShownRules) :
          rules' = [rules EXCEPT ![i].action = IF @ = "allow" THEN "drop" ELSE "allow"]
    /\ UNCHANGED <<next_rule_id, firewallStats, active_rules_count, retired>>

Verdict(allowed) ==
    /\ total_inspected' = total_inspected + 1
    /\ total_allowed' = total_allowed + (IF allowed THEN 1 ELSE 0)
    /\ total_blocked' = total_blocked + (IF allowed THEN 0 ELSE 1)

(* firewall_filter_packet while the filter is active: the first rule in slot
   order decides; else outbound packets pass and inbound ones do not.       *)
firewall_filter_packet(p) ==
    /\ firewall_active
    /\ total_inspected < MaxInspected
    /\ LET hits == {i \in RuleSlot : rules[i].enabled /\ p \in rules[i].matches}
       IN  \/ /\ hits = {} /\ Verdict(p \in Outbound) /\ UNCHANGED rules
           \/ \E i \in hits : /\ \A j \in hits : i <= j
                              /\ rules' = [rules EXCEPT ![i].matched = @ + 1]
                              /\ Verdict(rules[i].action = "allow")
    /\ UNCHANGED <<next_rule_id, firewall_active, active_rules_count, retired>>

FirewallNext ==
    \/ firewall_set_active \/ on_firewall_mouse
    \/ \E p \in Packet : firewall_filter_packet(p)
    \/ firewall_add_rule({"web"}, "drop") \/ firewall_add_rule(Inbound, "allow")
    \/ \E id \in 1 .. MaxRuleId : firewall_delete_rule(id)

FirewallSpec == firewall_init /\ [][FirewallNext]_firewallVars

-----------------------------------------------------------------------------

(* The matches of all rules, one element each. *)
MatchesShown == UNION {{i} \X (1 .. rules[i].matched) : i \in RuleSlot}

(* The figures the page shows add up however rules come, go and change
   their action between packets: every packet inspected was allowed or
   blocked, no packet was matched twice, the count of rules is the number
   that are enabled, and no two of those have the same number.              *)
FirewallAccounts ==
    LET on == {i \in RuleSlot : rules[i].enabled}
    IN  /\ total_inspected = total_allowed + total_blocked
        /\ retired + Cardinality(MatchesShown) <= total_inspected
        /\ active_rules_count = Cardinality(on)
        /\ \A i, j \in on : rules[i].id = rules[j].id => i = j

=============================================================================
