------------------------------ MODULE PdgModel ------------------------------
(***************************************************************************)
(* The policy model of the gateway (deploy/bot/pdgmodel.py), what the bot  *)
(* and the web API do to it (deploy/bot/pdg-bot.py and                     *)
(* deploy/web/pdgcontrol.py), how it becomes the Mihomo configuration      *)
(* (deploy/bot/sb2mihomo.py) and how the domain test reads it.             *)
(*                                                                         *)
(* A model is a record: outs, the outbounds in order; groups, the policy   *)
(* groups in order; rules, the route rules in order; sets, the rule sets   *)
(* the model declares; final, the default target.  Only the pure functions *)
(* are here: PdgPolicy has the processes that call them.                   *)
(***************************************************************************)
EXTENDS Naturals, Sequences, FiniteSets, SequencesExt

CONSTANTS
  None,      \* a rule without outbound, without rule set; no target
  Reserved   \* RESERVED_TARGETS: the names Mihomo has itself

(* The pseudo target of rules.json: the phone goes there without us.       *)
Direct == "direct"

(* PROXY_OUTBOUND_TYPES, and the machine's own outbounds.                  *)
RoutableType == {"proxy", "direct", "block"}

(* A route rule.  reject: the anti-loop action rule; tg: it carries the    *)
(* condition inbound = tg-proxy; set: the rule set it applies to; domains: *)
(* its domain_suffix list, keyed if the key is there at all.               *)
DomainRule(ds, x) ==
  [reject |-> FALSE, tg |-> FALSE, set |-> None, domains |-> ds, keyed |-> TRUE,
   out |-> x]
SetRule(r, x) == [DomainRule({}, x) EXCEPT !.set = r, !.keyed = FALSE]
TgRule(x) == [DomainRule({}, x) EXCEPT !.tg = TRUE, !.keyed = FALSE]
RejectRule == [DomainRule({}, None) EXCEPT !.reject = TRUE, !.keyed = FALSE]

(* A filtered list: what is at the positions in I, in order.  (SelectSeq is*)
(* this recursively; the proofs need to know what is left of a sequence.)  *)
Those(s, I) ==
  LET Nth(k) == CHOOSE i \in I : Cardinality({j \in I : j <= i}) = k
  IN  [k \in 1..Cardinality(I) |-> s[Nth(k)]]

(* The shape of a model that has been parsed.                              *)
WellFormed(m) ==
  /\ DOMAIN m = {"outs", "groups", "rules", "sets", "final"}
  /\ \A f \in {"outs", "groups", "rules"} : m[f] \in Seq(ToSet(m[f]))
  /\ \A o \in ToSet(m.outs) : DOMAIN o = {"tag", "type", "link"}
  /\ \A g \in ToSet(m.groups) : DOMAIN g = {"name", "proxies", "use"}
  /\ \A r \in ToSet(m.rules) : DOMAIN r = DOMAIN RejectRule

-----------------------------------------------------------------------------
(* Names and validation (pdgmodel.py).                                     *)

OutTags(m) == {m.outs[i].tag : i \in DOMAIN m.outs}
GroupNames(m) == {m.groups[i].name : i \in DOMAIN m.groups}
RuleTargets(m) == {m.rules[i].out : i \in DOMAIN m.rules} \ {None}

Proxies(m) == {m.outs[i].tag : i \in {j \in DOMAIN m.outs : m.outs[j].type = "proxy"}}

(* routable_tags_unchecked: the ordered targets.                           *)
RoutableTags(m) ==
  LET outs == Those(m.outs, {i \in DOMAIN m.outs : m.outs[i].type \in RoutableType})
  IN  [i \in DOMAIN outs |-> outs[i].tag] \o [i \in DOMAIN m.groups |-> m.groups[i].name]

Routable(m) == ToSet(RoutableTags(m))

DirectTags(m) == {m.outs[i].tag : i \in {j \in DOMAIN m.outs : m.outs[j].type = "direct"}}

(* The depth-first search for a cycle: there is none if every set of       *)
(* groups has a member without member in the set.                          *)
Acyclic(groups) ==
  \A S \in (SUBSET DOMAIN groups) \ {{}} : \E i \in S :
    groups[i].proxies \cap {groups[j].name : j \in S} = {}

(* validate, as migrate and normalize_model end with it.  Names are text,  *)
(* which None, the absence of one, is not (_name, _tag).                   *)
ValidNoTargets(m) ==
  /\ Cardinality(DirectTags(m)) = 1
  /\ Cardinality(OutTags(m)) = Len(m.outs)
  /\ Cardinality(GroupNames(m)) = Len(m.groups)
  /\ OutTags(m) \cap GroupNames(m) = {}
  /\ (OutTags(m) \cup GroupNames(m)) \cap (Reserved \cup {None}) = {}
  /\ \A i \in DOMAIN m.groups : m.groups[i].proxies # {} \/ m.groups[i].use
  /\ Acyclic(m.groups)
Valid(m) ==
  /\ ValidNoTargets(m)
  /\ \A i \in DOMAIN m.groups : m.groups[i].proxies \subseteq Routable(m)
  /\ m.final \in Routable(m)
  /\ RuleTargets(m) \subseteq Routable(m)

(* rename_references, with the group's own name if asked.                  *)
Sub(old, new, x) == IF x = old THEN new ELSE x
RenameReferences(m, old, new) ==
  [m EXCEPT
    !.groups = [i \in DOMAIN m.groups |->
      [m.groups[i] EXCEPT !.name = Sub(old, new, @),
                          !.proxies = {Sub(old, new, x) : x \in @}]],
    !.final = Sub(old, new, @),
    !.rules = [i \in DOMAIN m.rules |-> [m.rules[i] EXCEPT !.out = Sub(old, new, @)]]]

(* rebind_direct and rename_exit: the outbound and everything that names it. *)
Rename(m, old, new) ==
  LET n == RenameReferences(m, old, new)
  IN  [n EXCEPT !.outs = [i \in DOMAIN n.outs |->
                            [n.outs[i] EXCEPT !.tag = Sub(old, new, @)]]]

-----------------------------------------------------------------------------
(* What deletions cascade to.                                              *)

(* The groups _mihomo_group_delete removes with those named in S: each pass*)
(* takes the groups that lost their last member and use no provider, until *)
(* there are none: the least set that is closed under that.                *)
Cascade(m, S) ==
  LET Emptied(R) == {m.groups[i].name : i \in {j \in DOMAIN m.groups :
                       ~m.groups[j].use /\ m.groups[j].proxies \subseteq R}}
      names == S \cup GroupNames(m)
  IN  {x \in names : \A R \in SUBSET names : S \cup Emptied(R) \subseteq R => x \in R}

Without(m, S) ==
  LET R == Cascade(m, S)
      left == Those(m.groups, {i \in DOMAIN m.groups : m.groups[i].name \notin R})
  IN  [m EXCEPT !.outs = Those(@, {i \in DOMAIN @ : @[i].tag \notin S}),
                !.groups = [i \in DOMAIN left |-> [left[i] EXCEPT !.proxies = @ \ R]]]

(* The routes that lost their target fall back on one that is left.        *)
Retarget(m, fallback) ==
  [m EXCEPT !.final = IF @ \in Routable(m) THEN @ ELSE fallback,
            !.rules = [i \in DOMAIN @ |->
              IF @[i].out \in Routable(m) \cup {None} THEN @[i]
                                                      ELSE [@[i] EXCEPT !.out = fallback]]]

(* The fallback of delete_exit and delete_group: the first target left.    *)
Fallback(m, S) == Head(RoutableTags(Without(m, S)))

(* _delete_outbound picks among the outbounds only, and gives every rule   *)
(* without a live target, the action rules included, its own choice.       *)
DeleteOutbound(m, tag) ==
  LET n == Without(m, {tag})
      outs == Those(n.outs, {i \in DOMAIN n.outs : n.outs[i].type \in {"proxy", "direct"}})
      final == IF m.final \in Routable(n) THEN m.final ELSE outs[1].tag
  IN  [n EXCEPT !.final = final,
                !.rules = [i \in DOMAIN @ |->
                  IF @[i].out \in Routable(n) THEN @[i] ELSE [@[i] EXCEPT !.out = final]]]

-----------------------------------------------------------------------------
(* Edits of the rules.                                                     *)

(* New rules go first, but after a leading action rule.                    *)
Foremost(rules) == IF rules # <<>> /\ rules[1].reject THEN 2 ELSE 1

Insert(m, rule) == [m EXCEPT !.rules = InsertAt(@, Foremost(@), rule)]

(* add_rule: into the first rule of that target that has no rule set,      *)
(* whatever else that rule is.                                             *)
AddDomain(m, d, x) ==
  LET At == {i \in DOMAIN m.rules : m.rules[i].out = x /\ m.rules[i].set = None}
  IN  IF At = {} THEN Insert(m, DomainRule({d}, x))
      ELSE LET i == CHOOSE i \in At : \A j \in At : i <= j
           IN  [m EXCEPT !.rules[i].domains = @ \cup {d}, !.rules[i].keyed = TRUE]

(* The filter del_rule, del_rules_bulk and patch_rule share.               *)
Kept(rule) ==
  rule.reject \/ rule.out = None \/ rule.set # None \/ rule.domains # {}

DropDomains(m, ds) ==
  LET cut == [i \in DOMAIN m.rules |-> [m.rules[i] EXCEPT !.domains = @ \ ds]]
  IN  [m EXCEPT !.rules = Those(cut, {i \in DOMAIN cut : Kept(cut[i])})]

(* patch_rule puts a domain only into a rule that already lists domains.   *)
MoveDomain(m, d, x) ==
  LET n == DropDomains(m, {d})
      At == {i \in DOMAIN n.rules :
               n.rules[i].out = x /\ n.rules[i].set = None /\ n.rules[i].keyed}
  IN  IF x = Direct THEN n
      ELSE IF At = {} THEN Insert(n, DomainRule({d}, x))
      ELSE LET i == CHOOSE i \in At : \A j \in At : i <= j
           IN  [n EXCEPT !.rules[i].domains = @ \cup {d}]

(* _merge_domain_rules: rules with domains and the same target become one. *)
MergeDomainRules(rules) ==
  LET Same(i) == {j \in DOMAIN rules : /\ rules[j].set = None /\ rules[j].domains # {}
                                       /\ rules[j].out = rules[i].out}
      Mergeable(i) == i \in Same(i) /\ rules[i].out # None
      First(i) == \A j \in Same(i) : i <= j
      All(i) == UNION {rules[j].domains : j \in Same(i)}
      merged == [i \in DOMAIN rules |->
                   IF Mergeable(i) THEN [rules[i] EXCEPT !.domains = All(i)] ELSE rules[i]]
  IN  Those(merged, {i \in DOMAIN rules : ~Mergeable(i) \/ First(i)})

(* reassign_rule changes the rule that now has the index.                  *)
Reassign(m, i, x) ==
  [m EXCEPT !.rules = MergeDomainRules([@ EXCEPT ![i].out = x])]

(* set_tg_exit: one rule for the Telegram inbound, or none.                *)
PinTelegram(m, x) ==
  LET n == [m EXCEPT !.rules = Those(@, {i \in DOMAIN @ : ~@[i].tg})]
  IN  IF x = None THEN n ELSE Insert(n, TgRule(x))

-----------------------------------------------------------------------------
(* Edits of the rule sets.                                                 *)

DropSet(m, r) ==
  [m EXCEPT !.sets = @ \ {r}, !.rules = Those(@, {i \in DOMAIN @ : @[i].set # r})]

(* add_ruleset puts the rule at the front, set_ruleset_target where it was.*)
AddSet(m, r, x) ==
  IF x = Direct THEN DropSet(m, r)
  ELSE Insert([DropSet(m, r) EXCEPT !.sets = @ \cup {r}], SetRule(r, x))

TargetSet(m, r, x) ==
  LET At == {i \in DOMAIN m.rules : m.rules[i].set = r}
      n == DropSet(m, r)
      at == IF At = {} THEN Foremost(m.rules) ELSE CHOOSE i \in At : \A j \in At : i <= j
      bounded == IF at > Len(n.rules) + 1 THEN Len(n.rules) + 1 ELSE at
  IN  IF x = Direct THEN n
      ELSE [n EXCEPT !.sets = @ \cup {r}, !.rules = InsertAt(@, bounded, SetRule(r, x))]

-----------------------------------------------------------------------------
(* Rendering and reading the routes.                                       *)

(* _rules_from_route with _mixed_listeners: the Mihomo rules in order, as  *)
(* records; the address blocks of the leading action rules first, then the *)
(* Telegram inbound, then the rest, then MATCH.                            *)
MapTarget(m, x) ==
  LET o == {i \in DOMAIN m.outs : m.outs[i].tag = x}
  IN  IF \E i \in o : m.outs[i].type = "direct" THEN "DIRECT"
      ELSE IF \E i \in o : m.outs[i].type = "block" THEN "REJECT" ELSE x

TelegramExit(m) ==
  LET At == {i \in DOMAIN m.rules : m.rules[i].tg /\ m.rules[i].out # None}
  IN  IF At = {} THEN m.final ELSE m.rules[CHOOSE i \in At : \A j \in At : i <= j].out

(* A rule set is rendered only if rulesets.json provides it.               *)
Rendered(m, providers) ==
  LET Line(r) ==
        CASE r.reject -> [op |-> "IP-CIDR", arg |-> {}, to |-> "REJECT"]
          [] ~r.reject /\ r.set # None ->
               [op |-> "RULE-SET", arg |-> {r.set}, to |-> MapTarget(m, r.out)]
          [] OTHER -> [op |-> "DOMAIN", arg |-> r.domains, to |-> MapTarget(m, r.out)]
      Goes(r) == \/ r.reject
                 \/ /\ r.out # None
                    /\ IF r.set # None THEN r.set \in providers ELSE r.domains # {}
      body == Those([i \in DOMAIN m.rules |-> Line(m.rules[i])],
                    {i \in DOMAIN m.rules : Goes(m.rules[i])})
      lead == IF body # <<>> /\ body[1].op = "IP-CIDR" THEN 1 ELSE 0
  IN  SubSeq(body, 1, lead)
        \o <<[op |-> "IN-NAME", arg |-> {}, to |-> MapTarget(m, TelegramExit(m))]>>
        \o SubSeq(body, lead + 1, Len(body))
        \o <<[op |-> "MATCH", arg |-> {}, to |-> MapTarget(m, m.final)]>>

(* Rules the renderer has to drop; the caller refuses the model then.      *)
Dropped(m, providers) ==
  {i \in DOMAIN m.rules : /\ ~m.rules[i].reject
                          /\ \/ m.rules[i].out = None
                             \/ m.rules[i].set # None /\ m.rules[i].set \notin providers}

(* What Mihomo does with a connection for domain d that did not come in    *)
(* through the Telegram port: the first line that matches.                 *)
Runs(lines, listed, d) ==
  LET At == {i \in DOMAIN lines :
               \/ lines[i].op = "DOMAIN" /\ d \in lines[i].arg
               \/ lines[i].op = "RULE-SET" /\ \E r \in lines[i].arg : d \in listed[r]
               \/ lines[i].op = "MATCH"}
  IN  lines[CHOOSE i \in At : \A j \in At : i <= j].to

(* _singbox_route_info: what the domain test says; None when it declines.  *)
(* A rule without outbound that names the domain, or that carries another  *)
(* condition, makes it decline.                                            *)
RouteInfoDomainsFirst(m, listed, d) ==
  LET At == {i \in DOMAIN m.rules : d \in m.rules[i].domains}
  IN  IF At = {} THEN None ELSE m.rules[CHOOSE i \in At : \A j \in At : i <= j].out
RouteInfo(m, listed, d) ==
  LET Hit(i) == \/ d \in m.rules[i].domains
                \/ m.rules[i].set # None /\ d \in listed[m.rules[i].set]
      At == {i \in DOMAIN m.rules : Hit(i)}
      i == CHOOSE i \in At : \A j \in At : i <= j
  IN  IF At = {} THEN m.final
      ELSE IF m.rules[i].reject \/ m.rules[i].tg \/ m.rules[i].out = None THEN None
      ELSE m.rules[i].out
=============================================================================
