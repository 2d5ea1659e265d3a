------------------------------ MODULE PdgPolicy ------------------------------
(***************************************************************************)
(* Concurrent edits of the gateway's policy: the Telegram bot's handlers   *)
(* (deploy/bot/pdg-bot.py), the web API's (deploy/web/pdgcontrol.py), and  *)
(* tx_apply, through which all of them write.                              *)
(*                                                                         *)
(* An editor loads the model to check a request (Begin), reads the files   *)
(* its candidate is computed from (Snapshot), lets tx_apply read the model *)
(* again, compute the candidate and stage it (Stage), and commits          *)
(* (Commit).  No lock is held before the commit: other editors may commit  *)
(* between any two of these steps.  A commit is the all-or-nothing change  *)
(* AtomicConfig promises: it happens only if every staged file still is    *)
(* what its staged basis says, and derives the Mihomo configuration and    *)
(* the MosDNS aggregates in the same transaction.                          *)
(***************************************************************************)
EXTENDS PdgModel

CONSTANTS
  Editor,     \* the bot's and the web's worker threads, the command line
  Menu,       \* Menu[e]: the requests editor e may handle
  RuleSet,    \* names of rule sets
  Listed,     \* Listed[r]: the domains rule set r lists
  MaxEdits,   \* bound on the number of commits
  AtStart,    \* the configurations it may start from
  Discipline  \* {"undisturbed"}: see Loose

(* The files an edit concerns: the model (config.json), rulesets.json,     *)
(* custom_direct.txt, custom_hijack.txt and the source file of a rule set. *)
File == {"model", "meta", "direct", "hijack"} \cup RuleSet

(* A source file is missing (0) or has the contents of some download.      *)
Missing == 0

Requests ==
  {"add_direct", "add_rule", "web_add_rule", "del_rule", "del_rules_bulk", "patch_rule",
   "reassign_rule", "reorder_exits", "rename_exit", "set_direct_tag", "delete_exit",
   "web_delete_exit", "add_exit", "replace_exit", "set_default_exit", "set_tg_exit",
   "add_group", "add_policy_group", "patch_group", "delete_group", "add_ruleset",
   "set_ruleset_target", "set_ruleset_label", "del_ruleset", "refresh_rulesets", "restore"}

(* A configuration without dangling targets.                               *)
ClosedFiles(s) ==
  /\ Valid(s.model)
  /\ \A r \in DOMAIN s.meta : s.meta[r].to \in Routable(s.model) \cup {Direct}

(* rulesets.json, parsed.                                                  *)
WellFormedMeta(meta) ==
  /\ DOMAIN meta \subseteq RuleSet
  /\ meta = [r \in DOMAIN meta |-> [to |-> meta[r].to, label |-> meta[r].label]]

(* Requests as the handlers get them: add_rule to literal direct is        *)
(* add_direct, parse_link refuses an exit of that name, and the members of *)
(* an archive are parsed.                                                  *)
WellFormedRequest(op) ==
  /\ op.do \in Requests
  /\ op.do \in {"add_rule", "web_add_rule"} => op.to # Direct
  /\ op.do = "add_exit" => op.tag # Direct
  /\ op.do = "reorder_exits" => op.order \in Seq(ToSet(op.order))
  /\ op.do \in {"add_ruleset", "del_ruleset"} => op.set \in RuleSet
  /\ op.do = "restore" =>
       /\ "model" \in DOMAIN op.data => WellFormed(op.data.model)
       /\ "meta" \in DOMAIN op.data => WellFormedMeta(op.data.meta)

ASSUME PolicyAssumption ==
  /\ DOMAIN Menu = Editor
  /\ \A e \in Editor : \A op \in Menu[e] : WellFormedRequest(op)
  /\ RuleSet \cap {"model", "meta", "direct", "hijack", None} = {}
  /\ \A s \in AtStart : /\ DOMAIN s = File /\ ClosedFiles(s) /\ WellFormed(s.model)
                        /\ WellFormedMeta(s.meta)
  /\ MaxEdits \in Nat
  /\ Discipline \subseteq {"undisturbed"}

VARIABLES
  live,       \* the contents of each file
  mihomo,     \* the rules in Mihomo's configuration
  aggregate,  \* MosDNS's ruleset_direct and ruleset_hijack lists, by download
  edits,      \* how many edits were committed
  step,       \* how far each editor is
  seen        \* what it has read or computed

vars == <<live, mihomo, aggregate, edits, step, seen>>

NoFiles == [f \in {} |-> None]

Blank == [op |-> [do |-> "none"],
          model |-> None,     \* the model as loaded, if the commit is pinned to it
          ruled |-> FALSE,    \* del_rule found the domain in the model
          at |-> 0,           \* ghost: edits when it began, see Loose
          files |-> NoFiles,  \* snapshots, then the staged contents
          expect |-> NoFiles] \* what the staged files, and the watched, must be

-----------------------------------------------------------------------------
(* Derived files.                                                          *)

(* _mihomo_rulesets: literal direct is the phone's own way, not Mihomo's.  *)
Providers(meta) == {r \in DOMAIN meta : meta[r].to # Direct}

(* _ruleset_direct_bytes and _ruleset_hijack_bytes.                        *)
Aggregates(meta, files) ==
  [direct |-> {<<r, files[r]>> : r \in DOMAIN meta \ Providers(meta)},
   hijack |-> {<<r, files[r]>> : r \in Providers(meta)}]

(* _mihomo_derive refuses rule sets whose target cannot be used and rules  *)
(* it would have to drop.                                                  *)
DerivableAnyTarget(m, meta) == Dropped(m, Providers(meta)) = {}
Derivable(m, meta) ==
  /\ DOMAIN meta \cap (OutTags(m) \cup GroupNames(m) \cup Reserved) = {}
  /\ \A r \in DOMAIN meta : meta[r].to \in Routable(m) \cup {Direct}
  /\ Dropped(m, Providers(meta)) = {}

-----------------------------------------------------------------------------
(* The requests.  XEarly: what the handler checks on the model it loads    *)
(* (and the direct list it reads) before anything else.  X: the files it   *)
(* stages, from its snapshots s and the model m that tx_apply read; NoFiles*)
(* if it changes nothing or a check inside the transaction fails.          *)

Rule(m, d) == \E i \in DOMAIN m.rules : d \in m.rules[i].domains

(* _rule_items: the domains the web lists.                                 *)
Items(m, direct) ==
  direct \cup UNION {m.rules[i].domains : i \in
     {j \in DOMAIN m.rules : m.rules[j].out # None /\ m.rules[j].set = None}}

(* Mapped rule-set targets, where a renamed or removed tag is replaced.    *)
MetaTo(meta, S, x) == [r \in DOMAIN meta |->
                         IF meta[r].to \in S THEN [meta[r] EXCEPT !.to = x] ELSE meta[r]]

(* A file is staged only when it changes.                                  *)
IfDirty(meta, new) == IF new = meta THEN NoFiles ELSE [f \in {"meta"} |-> new]

ModelOnly(m) == [f \in {"model"} |-> m]
And(f, g) == [x \in DOMAIN f \cup DOMAIN g |-> IF x \in DOMAIN f THEN f[x] ELSE g[x]]
Both(direct, hijack) == [f \in {"direct", "hijack"} |->
                           IF f = "direct" THEN direct ELSE hijack]

(* add_rule to literal direct: the two lists only.                         *)
AddDirectRule(op, s) == Both(s.direct \cup {op.dom}, s.hijack \ {op.dom})

(* add_rule to an exit; the web refuses a domain that is already listed.   *)
AddRuleEarly(op, m, direct) ==
  /\ op.to \in Routable(m)
  /\ op.do = "web_add_rule" => op.dom \notin Items(m, direct)
AddRuleWithoutHijack(op, s, m) == ModelOnly(AddDomain(m, op.dom, op.to))
AddRule(op, s, m) ==
  And(ModelOnly(AddDomain(m, op.dom, op.to)),
      [f \in {"hijack"} |-> s.hijack \cup {op.dom}])

(* del_rule: what it does depends on the model it loaded at first.         *)
DelRule(op, s, m, ruled) ==
  LET lists == Both(s.direct \ {op.dom}, s.hijack \ {op.dom})
  IN  IF ruled THEN And(ModelOnly(DropDomains(m, {op.dom})), lists)
      ELSE IF op.dom \in s.direct \cup s.hijack THEN lists
      ELSE NoFiles

DelRulesBulk(op, s, m) ==
  And(ModelOnly(DropDomains(m, op.doms)), Both(s.direct \ op.doms, s.hijack \ op.doms))

(* patch_rule reads the lists inside the transaction.                      *)
PatchRuleEarly(op, m, direct) == op.dom \in Items(m, direct)
PatchRule(op, s, m) ==
  IF \/ op.to \notin Routable(m) \cup {Direct}
     \/ ~Rule(m, op.dom) /\ op.dom \notin s.direct
  THEN NoFiles
  ELSE And(ModelOnly(MoveDomain(m, op.dom, op.to)),
           IF op.to = Direct THEN Both(s.direct \cup {op.dom}, s.hijack \ {op.dom})
                             ELSE Both(s.direct \ {op.dom}, s.hijack \cup {op.dom}))

(* reassign_rule: the index was picked from a list shown earlier.          *)
ReassignRuleEarly(op, m) ==
  /\ op.idx \in DOMAIN m.rules /\ m.rules[op.idx].out \notin {None, op.to}
  /\ m.rules[op.idx].set = None
  /\ op.to \in Routable(m)
ReassignRule(op, m) ==
  IF op.idx \notin DOMAIN m.rules THEN NoFiles ELSE ModelOnly(Reassign(m, op.idx, op.to))

(* reorder_exits: a stable sort; it fails on an outbound the order omits.  *)
ReorderExitsEarly(op, m) == ToSet(op.order) = OutTags(m)
ReorderExits(op, m) ==
  IF ~(OutTags(m) \subseteq ToSet(op.order)) THEN NoFiles
  ELSE LET ranked == Those(op.order, {i \in DOMAIN op.order : op.order[i] \in OutTags(m)})
           Out(t) == CHOOSE o \in ToSet(m.outs) : o.tag = t
       IN  ModelOnly([m EXCEPT !.outs = [i \in DOMAIN ranked |-> Out(ranked[i])]])

(* rename_exit, of a proxy or a group, and set_direct_tag.                 *)
RenameExitEarly(op, m) ==
  /\ op.tag \in Proxies(m) \cup GroupNames(m)
  /\ op.new \notin OutTags(m) \cup GroupNames(m) \cup Reserved \cup {Direct}
SetDirectTagEarly(op, m) ==
  /\ op.tag \in DirectTags(m)
  /\ op.new \notin OutTags(m) \cup GroupNames(m) \cup Reserved \cup {Direct}
RenameExit(op, s, m) ==
  And(ModelOnly(Rename(m, op.tag, op.new)), IfDirty(s.meta, MetaTo(s.meta, {op.tag}, op.new)))

(* delete_exit of the bot: a proxy or a group.                             *)
DeleteExitEarly(op, m) ==
  /\ op.tag \in Proxies(m) \cup GroupNames(m)
  /\ RoutableTags(Without(m, {op.tag})) # <<>>
DeleteExit(op, s, m) ==
  LET fallback == Fallback(m, {op.tag})
  IN  And(ModelOnly(Retarget(Without(m, {op.tag}), fallback)),
          IfDirty(s.meta, MetaTo(s.meta, Cascade(m, {op.tag}), fallback)))

(* delete_exit of the web (_delete_outbound), which deletes proxies only.  *)
WebDeleteExitEarly(op, m) == op.tag \in Proxies(m)
WebDeleteExit(op, s, m) ==
  IF op.tag \notin Proxies(m) THEN NoFiles
  ELSE LET n == DeleteOutbound(m, op.tag)
           dead == {s.meta[r].to : r \in DOMAIN s.meta} \ (Routable(n) \cup {Direct})
       IN  And(ModelOnly(n), IfDirty(s.meta, MetaTo(s.meta, dead, n.final)))

(* add_exit, replace_exit and set_default_exit of the web.                 *)
AddExitEarly(op, m) == op.tag \notin OutTags(m)
AddExit(op, m) ==
  IF op.tag \in OutTags(m) THEN NoFiles
  ELSE ModelOnly([m EXCEPT !.outs = Append(@, [tag |-> op.tag, type |-> "proxy",
                                               link |-> op.link])])
ReplaceExitEarly(op, m) == op.tag \in Proxies(m)
ReplaceExit(op, m) ==
  IF op.tag \notin Proxies(m) THEN NoFiles
  ELSE ModelOnly([m EXCEPT !.outs = [i \in DOMAIN @ |->
         IF @[i].tag = op.tag THEN [@[i] EXCEPT !.link = op.link] ELSE @[i]]])
SetDefaultExit(op, m) ==
  IF op.to \in Routable(m) THEN ModelOnly([m EXCEPT !.final = op.to]) ELSE NoFiles

(* set_tg_exit.                                                            *)
SetTgExitEarly(op, m) == op.to \in Routable(m) \cup {None}
SetTgExit(op, m) == ModelOnly(PinTelegram(m, op.to))

(* add_group of the bot: a new url-test group, or new members for it.      *)
AddGroupEarly(op, m) ==
  /\ op.name \notin OutTags(m) \cup Reserved \cup {Direct}
  /\ op.members \subseteq Proxies(m) \cup DirectTags(m)
  /\ Cardinality(op.members) >= 2
AddGroup(op, m) ==
  ModelOnly(
    IF op.name \in GroupNames(m)
      THEN [m EXCEPT !.groups = [i \in DOMAIN @ |->
              IF @[i].name = op.name THEN [@[i] EXCEPT !.proxies = op.members] ELSE @[i]]]
      ELSE [m EXCEPT !.groups = Append(@, [name |-> op.name, proxies |-> op.members,
                                           use |-> FALSE])])

(* The web's policy groups; the request carries the model's revision.      *)
AddPolicyGroup(op, m) ==
  IF op.name \in OutTags(m) \cup GroupNames(m) \cup Reserved THEN NoFiles
  ELSE ModelOnly([m EXCEPT !.groups = Append(@, [name |-> op.name, proxies |-> op.members,
                                                 use |-> op.use])])
PatchGroupEarly(op, m) == op.name \in GroupNames(m)
PatchGroup(op, s, m) ==
  LET n == RenameReferences(m, op.name, op.new)
  IN  IF op.new # op.name /\ op.new \in OutTags(m) \cup GroupNames(m) \cup Reserved
      THEN NoFiles
      ELSE And(ModelOnly([n EXCEPT !.groups = [i \in DOMAIN @ |->
                 IF @[i].name = op.new
                 THEN [name |-> op.new, proxies |-> op.members, use |-> op.use]
                 ELSE @[i]]]),
               IfDirty(s.meta, MetaTo(s.meta, {op.name}, op.new)))

(* delete_group counts as removed the groups only.                         *)
DeleteGroup(op, s, m) ==
  LET removed == Cascade(m, {op.name})
      all == RoutableTags(m)
      left == Those(all, {i \in DOMAIN all : all[i] \notin removed})
  IN  IF left = <<>> THEN NoFiles
      ELSE And(ModelOnly(Retarget(Without(m, {op.name}), left[1])),
               IfDirty(s.meta, MetaTo(s.meta, removed, left[1])))

(* add_ruleset: the download is in op.got.                                 *)
AddRuleSetEarly(op, m) ==
  /\ op.to \in Routable(m) \cup {Direct}
  /\ op.set \notin OutTags(m) \cup GroupNames(m)
AddRuleSet(op, s, m) ==
  LET new == [to |-> op.to, label |-> FALSE]
  IN  And(ModelOnly(AddSet(m, op.set, op.to)),
          [f \in {"meta", op.set} |->
             IF f = "meta" THEN [r \in DOMAIN s.meta \cup {op.set} |->
                                   IF r = op.set THEN new ELSE s.meta[r]]
                           ELSE op.got])

TargetRuleSetEarly(op, m) == op.to \in Routable(m) \cup {Direct}
TargetRuleSet(op, s, m) ==
  IF op.set \notin DOMAIN s.meta \/ op.to \notin Routable(m) \cup {Direct} THEN NoFiles
  ELSE And(ModelOnly(TargetSet(m, op.set, op.to)),
           [f \in {"meta"} |-> [s.meta EXCEPT ![op.set].to = op.to]])

LabelRuleSet(op, s) ==
  IF op.set \notin DOMAIN s.meta THEN NoFiles
  ELSE [f \in {"meta"} |-> [s.meta EXCEPT ![op.set] = [to |-> @.to, label |-> TRUE]]]

DelRuleSet(op, s, m) ==
  And(ModelOnly(DropSet(m, op.set)),
      [f \in {"meta", op.set} |->
         IF f = "meta" THEN [r \in DOMAIN s.meta \ {op.set} |-> s.meta[r]] ELSE Missing])

(* _refresh_rulesets: new contents for the rule sets it could download.    *)
RefreshRuleSets(op, s, m) ==
  LET fresh == op.sets \cap DOMAIN s.meta
  IN  IF fresh = {} THEN NoFiles
      ELSE And(ModelOnly(m), [f \in fresh \cup {"meta"} |->
                                IF f = "meta" THEN s.meta ELSE op.got])

-----------------------------------------------------------------------------
(* Backup and restore.                                                     *)

(* _backup_entries_once: the members of an archive, with the source file of*)
(* every rule set that rulesets.json names.                                *)
Archive(s) == [f \in {"model", "meta", "direct", "hijack"} \cup DOMAIN s.meta |-> s[f]]

(* _safe_extract: members of the known names only, and a config.json.      *)
Unpacks(data) == DOMAIN data \subseteq File /\ "model" \in DOMAIN data

(* _verify_backup_manifest: a legacy archive has none; any other lists its *)
(* members, neither more nor less.                                         *)
Intact(op) == op.listed \in {{}, DOMAIN op.data}

(* Every rule set the archive's rulesets.json names has its source there.  *)
RestoreEarly(op) ==
  /\ Unpacks(op.data) /\ Intact(op)
  /\ "meta" \in DOMAIN op.data => DOMAIN op.data.meta \subseteq DOMAIN op.data

(* _restore_ruleset_plan: sources of the archive are written, those that   *)
(* only rulesets.json of now names are deleted, all others stay.           *)
RestorePlan(s, data) ==
  [r \in DOMAIN s.meta \cup DOMAIN data.meta |->
     IF r \in DOMAIN data.meta THEN data[r] ELSE Missing]

(* The archive's targets under this machine's direct exit.                 *)
TheDirect(m) == CHOOSE x \in DirectTags(m) : TRUE
RestoredModel(s, data) == Rename(data.model, TheDirect(data.model), TheDirect(s.model))
Rebound(s, data, meta) == MetaTo(meta, {TheDirect(data.model)}, TheDirect(s.model))

(* The optional members: a file the archive lacks stays, but for the name  *)
(* of the direct exit.                                                     *)
RestoredFiles(s, data) ==
  And([f \in DOMAIN data \cap {"direct", "hijack"} |-> data[f]],
      IF "meta" \in DOMAIN data
        THEN And([f \in {"meta"} |-> Rebound(s, data, data.meta)], RestorePlan(s, data))
        ELSE IfDirty(s.meta, Rebound(s, data, s.meta)))

Restore(op, s) == And(ModelOnly(RestoredModel(s, op.data)), RestoredFiles(s, op.data))

-----------------------------------------------------------------------------
(* The requests, by name.                                                  *)

PolicyGroupOps == {"add_policy_group", "patch_group", "delete_group"}

(* The commit is refused unless the model still is the one that was loaded *)
(* (model_expect).                                                         *)
PinnedDeletes(op) == op.do \in {"delete_exit"} \cup PolicyGroupOps
Pinned(op) == op.do \in {"rename_exit", "set_direct_tag", "delete_exit"} \cup PolicyGroupOps

(* ruleset_direct: the MosDNS aggregates are derived in the transaction.   *)
RuleSetOps == {"add_ruleset", "set_ruleset_target", "del_ruleset", "refresh_rulesets"}
RuleSetDirect(op, files) ==
  op.do \in RuleSetOps \cup {"restore"} /\ "meta" \in DOMAIN files

(* The files a handler reads with their hashes (_domain_file_snapshot,     *)
(* _rs_meta_snapshot) before it computes its candidate.                    *)
Reads(op) ==
  CASE op.do \in {"add_direct", "del_rule", "del_rules_bulk", "patch_rule"} ->
         {"direct", "hijack"}
    [] op.do \in {"add_rule", "web_add_rule"} -> {"hijack"}
    [] \/ op.do \in {"rename_exit", "set_direct_tag", "delete_exit", "web_delete_exit",
                     "patch_group", "delete_group", "set_ruleset_label"}
       \/ op.do \in RuleSetOps -> {"meta"}
    [] op.do = "restore" -> {"model", "meta"}
    [] OTHER -> {}

(* Requests whose early answer is not checked again by the commit.  With   *)
(* the discipline "undisturbed" nobody else commits while they run.        *)
Loose(op) == op.do \in {"del_rule", "web_add_rule", "reassign_rule", "reorder_exits"}

Early(op, m, direct) ==
  CASE op.do \in {"add_rule", "web_add_rule"} -> AddRuleEarly(op, m, direct)
    [] op.do = "patch_rule" -> PatchRuleEarly(op, m, direct)
    [] op.do = "reassign_rule" -> ReassignRuleEarly(op, m)
    [] op.do = "reorder_exits" -> ReorderExitsEarly(op, m)
    [] op.do = "rename_exit" -> RenameExitEarly(op, m)
    [] op.do = "set_direct_tag" -> SetDirectTagEarly(op, m)
    [] op.do = "delete_exit" -> DeleteExitEarly(op, m)
    [] op.do = "web_delete_exit" -> WebDeleteExitEarly(op, m)
    [] op.do = "add_exit" -> AddExitEarly(op, m)
    [] op.do = "replace_exit" -> ReplaceExitEarly(op, m)
    [] op.do = "set_tg_exit" -> SetTgExitEarly(op, m)
    [] op.do = "add_group" -> AddGroupEarly(op, m)
    [] op.do = "patch_group" -> PatchGroupEarly(op, m)
    [] op.do = "delete_group" -> op.name \in GroupNames(m)
    [] op.do = "add_ruleset" -> AddRuleSetEarly(op, m)
    [] op.do = "set_ruleset_target" -> TargetRuleSetEarly(op, m)
    [] op.do = "restore" -> RestoreEarly(op)
    [] OTHER -> TRUE

Change(op, s, m, ruled) ==
  CASE op.do = "add_direct" -> AddDirectRule(op, s)
    [] op.do \in {"add_rule", "web_add_rule"} -> AddRule(op, s, m)
    [] op.do = "del_rule" -> DelRule(op, s, m, ruled)
    [] op.do = "del_rules_bulk" -> DelRulesBulk(op, s, m)
    [] op.do = "patch_rule" -> PatchRule(op, s, m)
    [] op.do = "reassign_rule" -> ReassignRule(op, m)
    [] op.do = "reorder_exits" -> ReorderExits(op, m)
    [] op.do \in {"rename_exit", "set_direct_tag"} -> RenameExit(op, s, m)
    [] op.do = "delete_exit" -> DeleteExit(op, s, m)
    [] op.do = "web_delete_exit" -> WebDeleteExit(op, s, m)
    [] op.do = "add_exit" -> AddExit(op, m)
    [] op.do = "replace_exit" -> ReplaceExit(op, m)
    [] op.do = "set_default_exit" -> SetDefaultExit(op, m)
    [] op.do = "set_tg_exit" -> SetTgExit(op, m)
    [] op.do = "add_group" -> AddGroup(op, m)
    [] op.do = "add_policy_group" -> AddPolicyGroup(op, m)
    [] op.do = "patch_group" -> PatchGroup(op, s, m)
    [] op.do = "delete_group" -> DeleteGroup(op, s, m)
    [] op.do = "add_ruleset" -> AddRuleSet(op, s, m)
    [] op.do = "set_ruleset_target" -> TargetRuleSet(op, s, m)
    [] op.do = "set_ruleset_label" -> LabelRuleSet(op, s)
    [] op.do = "del_ruleset" -> DelRuleSet(op, s, m)
    [] op.do = "restore" -> Restore(op, s)
    [] OTHER -> RefreshRuleSets(op, s, m)

-----------------------------------------------------------------------------
(* The steps of one request.                                               *)

(* The snapshots the commit is to be checked against; everything else is   *)
(* checked against what tx_apply itself found when it staged it.           *)
CheckedWithoutLists(op) == Reads(op) \ {"direct", "hijack"}
CheckedWithoutMeta(op) == Reads(op) \ {"meta"}
Checked(op) == Reads(op)

(* The source files the aggregates are made of and that are not staged:    *)
(* they are read and watched when the derivation is registered.  A restore *)
(* watches rulesets.json whether it stages it or not.                      *)
Watched(op, files) ==
  (IF RuleSetDirect(op, files) THEN DOMAIN files.meta \ DOMAIN files ELSE {})
    \cup (IF op.do = "restore" THEN {"meta"} ELSE {})

(* What must not have changed when the transaction is committed.           *)
StagedOnly(c) == DOMAIN c.files
Unchanged(c) == DOMAIN c.expect

Begin(e) ==
  \E op \in Menu[e] :
    /\ step[e] = "idle" /\ edits < MaxEdits
    /\ Early(op, live.model, live.direct)
    /\ seen' = [seen EXCEPT ![e] =
         [Blank EXCEPT !.op = op,
                       !.model = IF Pinned(op) THEN live.model ELSE None,
                       !.ruled = op.do = "del_rule" /\ Rule(live.model, op.dom),
                       !.at = IF Loose(op) THEN edits ELSE 0]]
    /\ step' = [step EXCEPT ![e] = "checked"]
    /\ UNCHANGED <<live, mihomo, aggregate, edits>>

(* A web request on a policy group carries the revision the browser saw:   *)
(* the snapshot of the model must still have it, as the commit must.       *)
Snapshot(e) ==
  LET op == seen[e].op
  IN  /\ step[e] = "checked" /\ edits < MaxEdits
      /\ op.do \in PolicyGroupOps => seen[e].model = live.model
      /\ seen' = [seen EXCEPT ![e].files = [f \in Reads(op) |-> live[f]]]
      /\ step' = [step EXCEPT ![e] = "read"]
      /\ UNCHANGED <<live, mihomo, aggregate, edits>>

(* tx_apply reads the model, changes it, validates it and stages the files.*)
Stage(e) ==
  LET c == seen[e]
      files == Change(c.op, c.files, live.model, c.ruled)
      held == DOMAIN files \cup Watched(c.op, files)
  IN  /\ step[e] = "read" /\ edits < MaxEdits
      /\ Pinned(c.op) => c.model = live.model
      /\ "undisturbed" \in Discipline /\ Loose(c.op) => c.at = edits
      /\ DOMAIN files # {}
      /\ "model" \in DOMAIN files => Valid(files.model)
      /\ seen' = [seen EXCEPT ![e] =
           [c EXCEPT !.model = None,
                     !.files = files,
                     !.expect = [f \in held |-> IF f \in Checked(c.op) THEN c.files[f]
                                                                      ELSE live[f]]]]
      /\ step' = [step EXCEPT ![e] = "staged"]
      /\ UNCHANGED <<live, mihomo, aggregate, edits>>

(* Whatever the end, abort_unstarted leaves no candidate behind.           *)
ForgetKeepingCandidate(e) == seen' = [seen EXCEPT ![e].op = Blank.op]
Forget(e) == seen' = [seen EXCEPT ![e] = Blank]

(* Under the transaction's lock: the staged and watched files are what they*)
(* were, the derivations accept the candidate, and all of it is written.   *)
Commit(e) ==
  LET c == seen[e]
      next == And(c.files, live)
      read == And(c.files, And(c.expect, live))   \* as the aggregates' derivation has it
  IN  /\ step[e] = "staged" /\ edits < MaxEdits
      /\ "undisturbed" \in Discipline /\ Loose(c.op) => c.at = edits
      /\ \A f \in Unchanged(c) : live[f] = c.expect[f]
      /\ "model" \in DOMAIN c.files => Derivable(next.model, next.meta)
      /\ RuleSetDirect(c.op, c.files) => \A r \in DOMAIN next.meta : read[r] # Missing
      /\ live' = next
      /\ mihomo' = IF "model" \in DOMAIN c.files
                     THEN Rendered(next.model, Providers(next.meta)) ELSE mihomo
      /\ aggregate' = IF RuleSetDirect(c.op, c.files) THEN Aggregates(next.meta, read) ELSE aggregate
      /\ edits' = edits + 1
      /\ step' = [step EXCEPT ![e] = "idle"]
      /\ Forget(e)

(* Any check that fails, a busy lock or an exception: nothing is changed.  *)
Refuse(e) ==
  /\ step[e] # "idle"
  /\ step' = [step EXCEPT ![e] = "idle"]
  /\ Forget(e)
  /\ UNCHANGED <<live, mihomo, aggregate, edits>>

Init ==
  /\ live \in AtStart
  /\ mihomo = Rendered(live.model, Providers(live.meta))
  /\ aggregate = Aggregates(live.meta, live)
  /\ edits = 0
  /\ step = [e \in Editor |-> "idle"]
  /\ seen = [e \in Editor |-> Blank]

Next == \E e \in Editor :
  Begin(e) \/ Snapshot(e) \/ Stage(e) \/ Commit(e) \/ Refuse(e)

Spec == Init /\ [][Next]_vars

-----------------------------------------------------------------------------
(* Properties.                                                             *)

(* Whatever edits ran at the same time, no target names an exit or group   *)
(* that is gone: neither in the rules, the groups and the default nor, in  *)
(* its own file and often not staged with the model, in rulesets.json.     *)
Closed == ClosedFiles(live)

(* The model and rulesets.json agree: a rule set that is not the phone's   *)
(* own way has exactly one rule, to its recorded target, and every rule set*)
(* has its source file; a deleted or direct one has no rule.               *)
RuleSetsAgree ==
  \A r \in RuleSet :
    /\ r \in DOMAIN live.meta <=> live[r] # Missing
    /\ {live.model.rules[i].out : i \in {j \in DOMAIN live.model.rules :
                                           live.model.rules[j].set = r}}
         = IF r \in Providers(live.meta) THEN {live.meta[r].to} ELSE {}
    /\ r \in live.model.sets <=> r \in Providers(live.meta)

(* What Mihomo runs is what the model and rulesets.json say now, and what  *)
(* MosDNS loads is made of the rule sets and targets of now, though both   *)
(* are derived only in the transactions that thought they had to: tx_apply *)
(* with model_mod, and with ruleset_direct.                                *)
RenderingAgrees == mihomo = Rendered(live.model, Providers(live.meta))
AggregatesAgree == aggregate = Aggregates(live.meta, live)
DerivedAgree == RenderingAgrees /\ AggregatesAgree

(* A domain named by a rule is hijacked by MosDNS, or the phone was told   *)
(* its way: otherwise the rule is dead (the comment in add_rule).          *)
RuledDomainsReachGateway ==
  \A i \in DOMAIN live.model.rules :
    live.model.rules[i].domains \subseteq live.hijack \cup live.direct

(* Where the domain test of the bot (_singbox_route_info reads the model)  *)
(* names an exit, Mihomo (which reads the rendered rules) goes there.      *)
DomainTestAgrees ==
  \A d \in UNION {Listed[r] : r \in RuleSet} \cup live.hijack :
    LET said == RouteInfo(live.model, Listed, d)
    IN  said # None => Runs(mihomo, Listed, d) = MapTarget(live.model, said)

(* Every committed edit is what the request would have done in one step on *)
(* the files as they were when it was written: no lost update, and nothing *)
(* that was read too early counts.                                         *)
Commits(e) == step[e] = "staged" /\ edits' # edits /\ step'[e] = "idle"
EditIsAtomic(e) ==
  LET op == seen[e].op
  IN  live' = And(Change(op, live, live.model,
                         op.do = "del_rule" /\ Rule(live.model, op.dom)), live)
EditsAreAtomic == [][\A e \in Editor : Commits(e) => EditIsAtomic(e)]_vars

(* What the handler checked before anything else still holds when its edit *)
(* is committed, whoever committed in between.  add_group's members still  *)
(* are targets then, but perhaps no longer exits.                          *)
StillHolds(op, m, direct) ==
  IF op.do = "add_group"
    THEN /\ op.name \notin OutTags(m) \cup Reserved \cup {Direct}
         /\ op.members \subseteq Routable(m) \ {op.name}
         /\ Cardinality(op.members) >= 2
    ELSE Early(op, m, direct)
ChecksStand ==
  [][\A e \in Editor : Commits(e) =>
       StillHolds(seen[e].op, live.model, live.direct)]_vars

(* README.md: the exit for Telegram is chosen on its own.  Deleting or     *)
(* moving a domain must not change it.                                     *)
TelegramPinKept ==
  [][\A e \in Editor :
       /\ Commits(e)
       /\ seen[e].op.do \in {"del_rule", "del_rules_bulk", "patch_rule"}
       => TelegramExit(live'.model) = TelegramExit(live.model)]_vars
=============================================================================
