---------------------------- MODULE MCPdgPolicy ----------------------------
(* Instances of PdgPolicy: the bot and the web API edit a configuration     *)
(* with a group, two rule sets and a Telegram exit, or the template.        *)
EXTENDS PdgPolicy

Out(tag) == [tag |-> tag, type |-> IF tag \in {"J", "K"} THEN "direct" ELSE "proxy", link |-> 0]
Group(name, ps) == [name |-> name, proxies |-> ps, use |-> FALSE]
To(x) == [to |-> x, label |-> FALSE]

Template ==
  [f \in File |->
     CASE f = "model" -> [outs |-> <<Out("J")>>, groups |-> <<>>, rules |-> <<RejectRule>>,
                          sets |-> {}, final |-> "J"]
       [] f = "meta" -> [r \in {} |-> None]
       [] f \in {"direct", "hijack"} -> {}
       [] OTHER -> Missing]

InUse ==
  [f \in File |->
     CASE f = "model" -> [outs |-> <<Out("J"), Out("a"), Out("b")>>,
                          groups |-> <<Group("g", {"a"})>>,
                          rules |-> <<RejectRule, TgRule("b"), SetRule("r", "g"),
                                      DomainRule({"d"}, "a")>>,
                          sets |-> {"r"}, final |-> "g"]
       [] f = "meta" -> [r \in {"q", "r"} |-> IF r = "r" THEN To("g") ELSE To(Direct)]
       [] f = "direct" -> {}
       [] f = "hijack" -> {"d"}
       [] OTHER -> 1]

MCListed == [r \in RuleSet |-> IF r = "r" THEN {"d", "s"} ELSE {"s"}]
MCReserved == {"DIRECT", "REJECT"}

(* Another gateway's configuration: its direct exit has another name, and   *)
(* it knows one rule set.                                                  *)
Foreign ==
  [f \in File |->
     CASE f = "model" -> [outs |-> <<Out("K"), Out("a")>>, groups |-> <<>>,
                          rules |-> <<RejectRule, SetRule("q", "K"), DomainRule({"e"}, "a")>>,
                          sets |-> {"q"}, final |-> "K"]
       [] f = "meta" -> [r \in {"q"} |-> To("K")]
       [] f = "direct" -> {}
       [] f = "hijack" -> {"e"}
       [] f = "q" -> 3
       [] OTHER -> Missing]

(* Archives: of this gateway, of another, and one that lost a member.       *)
Whole(s) == [do |-> "restore", data |-> Archive(s), listed |-> DOMAIN Archive(s)]
Damaged == [Whole(Foreign) EXCEPT !.data = [f \in DOMAIN @ \ {"q"} |-> @[f]]]

Bot ==
  {Whole(InUse), Whole(Template), Whole(Foreign), Damaged,
   [do |-> "add_direct", dom |-> "d"],
   [do |-> "add_rule", dom |-> "d", to |-> "b"],
   [do |-> "add_rule", dom |-> "e", to |-> "a"],
   [do |-> "del_rule", dom |-> "d"],
   [do |-> "del_rules_bulk", doms |-> {"d", "e"}],
   [do |-> "reassign_rule", idx |-> 4, to |-> "b"],
   [do |-> "reorder_exits", order |-> <<"b", "J", "a">>],
   [do |-> "rename_exit", tag |-> "a", new |-> "n"],
   [do |-> "set_direct_tag", tag |-> "J", new |-> "n"],
   [do |-> "delete_exit", tag |-> "a"],
   [do |-> "set_tg_exit", to |-> "a"],
   [do |-> "set_tg_exit", to |-> None],
   [do |-> "add_group", name |-> "g", members |-> {"a", "b"}],
   [do |-> "add_ruleset", set |-> "q", to |-> "J", got |-> 1],
   [do |-> "set_ruleset_target", set |-> "r", to |-> "a"],
   [do |-> "set_ruleset_target", set |-> "r", to |-> Direct],
   [do |-> "set_ruleset_target", set |-> "q", to |-> "b"],
   [do |-> "set_ruleset_label", set |-> "r"],
   [do |-> "del_ruleset", set |-> "q"],
   [do |-> "refresh_rulesets", sets |-> {"q", "r"}, got |-> 2]}

Web ==
  {[do |-> "web_add_rule", dom |-> "e", to |-> "J"],
   [do |-> "patch_rule", dom |-> "d", to |-> Direct],
   [do |-> "patch_rule", dom |-> "d", to |-> "J"],
   [do |-> "del_rule", dom |-> "d"],
   [do |-> "web_delete_exit", tag |-> "a"],
   [do |-> "web_delete_exit", tag |-> "b"],
   [do |-> "add_exit", tag |-> "n", link |-> 0],
   [do |-> "replace_exit", tag |-> "a", link |-> 1],
   [do |-> "set_default_exit", to |-> "a"],
   [do |-> "add_policy_group", name |-> "n", members |-> {"g"}, use |-> FALSE],
   [do |-> "patch_group", name |-> "g", new |-> "n", members |-> {"b"}, use |-> FALSE],
   [do |-> "delete_group", name |-> "g"],
   [do |-> "add_ruleset", set |-> "r", to |-> "J", got |-> 2],
   [do |-> "set_ruleset_target", set |-> "r", to |-> "a"]}

MCMenu == [e \in Editor |-> IF e = "bot" THEN Bot ELSE Web]

(* A policy group with the name of the phone's own way, which the bot       *)
(* refuses and the web does not.                                           *)
NamedDirect ==
  {[do |-> "add_policy_group", name |-> Direct, members |-> {"a"}, use |-> FALSE],
   [do |-> "patch_group", name |-> "g", new |-> Direct, members |-> {"b"}, use |-> FALSE],
   [do |-> "delete_group", name |-> Direct]}
MCNamedDirect == [e \in Editor |-> IF e = "bot" THEN {Whole(InUse)} ELSE Web \cup NamedDirect]

MCAtStart == {Template, InUse}
=============================================================================
