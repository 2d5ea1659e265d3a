--------------------------- MODULE PdgPolicyProofs ---------------------------
(***************************************************************************)
(* Closed, RenderingAgrees and AggregatesAgree hold for every set of       *)
(* editors, requests and rule sets.  None is inductive alone: a commit     *)
(* writes a candidate that was computed from files read long before.       *)
(*                                                                         *)
(* Sound says what a staged candidate may be: either its model is valid and*)
(* the commit derives the Mihomo configuration again, or it does not touch *)
(* the model, and then it changes rulesets.json only in names, on a basis  *)
(* the commit checks.                                                      *)
(*                                                                         *)
(* Ready says it for the aggregates: either the commit derives them, or the*)
(* candidate stages no rule-set source and moves no rule set to or from the*)
(* phone's own way.  That takes what the handlers compute: no exit or group*)
(* that a target is replaced by has the literal's name, whatever was       *)
(* filtered, renamed, appended or restored.                                *)
(***************************************************************************)
EXTENDS PdgPolicy, FiniteSetTheorems, WellFoundedInduction, TLAPS

SameTargets(meta, new) ==
  /\ DOMAIN new = DOMAIN meta
  /\ \A r \in DOMAIN meta : new[r].to = meta[r].to

Sound(c) ==
  /\ "model" \in DOMAIN c.files => Valid(c.files.model)
  /\ "meta" \in DOMAIN c.files /\ "model" \notin DOMAIN c.files =>
       /\ "meta" \in DOMAIN c.expect
       /\ SameTargets(c.expect.meta, c.files.meta)

(* The inductive invariant.                                                *)
IInv ==
  /\ DOMAIN step = Editor /\ DOMAIN seen = Editor
  /\ \A e \in Editor :
       /\ DOMAIN seen[e] = DOMAIN Blank
       /\ step[e] # "idle" => seen[e].op.do \in Requests
       /\ step[e] = "staged" => Sound(seen[e])
  /\ {"model", "meta"} \subseteq DOMAIN live
  /\ Closed
  /\ RenderingAgrees

-----------------------------------------------------------------------------
(* The fields an editor's record has.                                      *)
LEMMA BlankFields ==
  DOMAIN Blank = {"op", "model", "ruled", "at", "files", "expect"}
BY DEF Blank

(* What the combination of two changes stages.                             *)
LEMMA AndFiles ==
  ASSUME NEW f, NEW g
  PROVE  /\ DOMAIN And(f, g) = DOMAIN f \cup DOMAIN g
         /\ \A x \in DOMAIN f : And(f, g)[x] = f[x]
         /\ \A x \in DOMAIN g : x \notin DOMAIN f => And(f, g)[x] = g[x]
BY DEF And

(* The smallest changes.                                                   *)
LEMMA SmallFiles ==
  /\ "meta" \notin DOMAIN NoFiles
  /\ \A m : DOMAIN ModelOnly(m) = {"model"}
  /\ \A d, h : "meta" \notin DOMAIN Both(d, h)
  /\ \A m : "model" \in DOMAIN ModelOnly(m)
BY DEF NoFiles, ModelOnly, Both

(* A change that stages the model stages it whatever else it stages.       *)
LEMMA WithModel ==
  \A x, g : "model" \in DOMAIN And(ModelOnly(x), g)
<1>1. TAKE x, g
<1>2. DOMAIN And(ModelOnly(x), g) = DOMAIN ModelOnly(x) \cup DOMAIN g
  BY AndFiles
<1>3. QED
  BY <1>2, SmallFiles

(* All but three requests stage the model if they stage anything.          *)
LEMMA ModelStaged ==
  ASSUME NEW op, NEW s, NEW m, NEW ruled, op.do \in Requests,
         op.do \notin {"add_direct", "del_rule", "set_ruleset_label"}
  PROVE  "model" \in DOMAIN Change(op, s, m, ruled) \/ Change(op, s, m, ruled) = NoFiles
<1>1. CASE op.do \in {"add_rule", "web_add_rule"}
  <2>1. Change(op, s, m, ruled) = AddRule(op, s, m)
    BY <1>1, Zenon DEF Change
  <2>2. QED
    BY <2>1, WithModel, SmallFiles, Zenon DEF AddRule
<1>2. CASE op.do = "del_rules_bulk"
  <2>1. Change(op, s, m, ruled) = DelRulesBulk(op, s, m)
    BY <1>2, Zenon DEF Change
  <2>2. QED
    BY <2>1, WithModel, SmallFiles, Zenon DEF DelRulesBulk
<1>3. CASE op.do = "patch_rule"
  <2>1. Change(op, s, m, ruled) = PatchRule(op, s, m)
    BY <1>3, Zenon DEF Change
  <2>2. QED
    BY <2>1, WithModel, SmallFiles, Zenon DEF PatchRule
<1>4. CASE op.do = "reassign_rule"
  <2>1. Change(op, s, m, ruled) = ReassignRule(op, m)
    BY <1>4, Zenon DEF Change
  <2>2. QED
    BY <2>1, WithModel, SmallFiles, Zenon DEF ReassignRule
<1>5. CASE op.do = "reorder_exits"
  <2>1. Change(op, s, m, ruled) = ReorderExits(op, m)
    BY <1>5, Zenon DEF Change
  <2>2. QED
    BY <2>1, WithModel, SmallFiles, Zenon DEF ReorderExits
<1>6. CASE op.do \in {"rename_exit", "set_direct_tag"}
  <2>1. Change(op, s, m, ruled) = RenameExit(op, s, m)
    BY <1>6, Zenon DEF Change
  <2>2. QED
    BY <2>1, WithModel, SmallFiles, Zenon DEF RenameExit
<1>7. CASE op.do = "delete_exit"
  <2>1. Change(op, s, m, ruled) = DeleteExit(op, s, m)
    BY <1>7, Zenon DEF Change
  <2>2. QED
    BY <2>1, WithModel, SmallFiles, Zenon DEF DeleteExit
<1>8. CASE op.do = "web_delete_exit"
  <2>1. Change(op, s, m, ruled) = WebDeleteExit(op, s, m)
    BY <1>8, Zenon DEF Change
  <2>2. QED
    BY <2>1, WithModel, SmallFiles, Zenon DEF WebDeleteExit
<1>9. CASE op.do = "add_exit"
  <2>1. Change(op, s, m, ruled) = AddExit(op, m)
    BY <1>9, Zenon DEF Change
  <2>2. QED
    BY <2>1, WithModel, SmallFiles, Zenon DEF AddExit
<1>10. CASE op.do = "replace_exit"
  <2>1. Change(op, s, m, ruled) = ReplaceExit(op, m)
    BY <1>10, Zenon DEF Change
  <2>2. QED
    BY <2>1, WithModel, SmallFiles, Zenon DEF ReplaceExit
<1>11. CASE op.do = "set_default_exit"
  <2>1. Change(op, s, m, ruled) = SetDefaultExit(op, m)
    BY <1>11, Zenon DEF Change
  <2>2. QED
    BY <2>1, WithModel, SmallFiles, Zenon DEF SetDefaultExit
<1>12. CASE op.do = "set_tg_exit"
  <2>1. Change(op, s, m, ruled) = SetTgExit(op, m)
    BY <1>12, Zenon DEF Change
  <2>2. QED
    BY <2>1, WithModel, SmallFiles, Zenon DEF SetTgExit
<1>13. CASE op.do = "add_group"
  <2>1. Change(op, s, m, ruled) = AddGroup(op, m)
    BY <1>13, Zenon DEF Change
  <2>2. QED
    BY <2>1, WithModel, SmallFiles, Zenon DEF AddGroup
<1>14. CASE op.do = "add_policy_group"
  <2>1. Change(op, s, m, ruled) = AddPolicyGroup(op, m)
    BY <1>14, Zenon DEF Change
  <2>2. QED
    BY <2>1, WithModel, SmallFiles, Zenon DEF AddPolicyGroup
<1>15. CASE op.do = "patch_group"
  <2>1. Change(op, s, m, ruled) = PatchGroup(op, s, m)
    BY <1>15, Zenon DEF Change
  <2>2. QED
    BY <2>1, WithModel, SmallFiles, Zenon DEF PatchGroup
<1>16. CASE op.do = "delete_group"
  <2>1. Change(op, s, m, ruled) = DeleteGroup(op, s, m)
    BY <1>16, Zenon DEF Change
  <2>2. QED
    BY <2>1, WithModel, SmallFiles, Zenon DEF DeleteGroup
<1>17. CASE op.do = "add_ruleset"
  <2>1. Change(op, s, m, ruled) = AddRuleSet(op, s, m)
    BY <1>17, Zenon DEF Change
  <2>2. QED
    BY <2>1, WithModel, SmallFiles, Zenon DEF AddRuleSet
<1>18. CASE op.do = "set_ruleset_target"
  <2>1. Change(op, s, m, ruled) = TargetRuleSet(op, s, m)
    BY <1>18, Zenon DEF Change
  <2>2. QED
    BY <2>1, WithModel, SmallFiles, Zenon DEF TargetRuleSet
<1>19. CASE op.do = "del_ruleset"
  <2>1. Change(op, s, m, ruled) = DelRuleSet(op, s, m)
    BY <1>19, Zenon DEF Change
  <2>2. QED
    BY <2>1, WithModel, SmallFiles, Zenon DEF DelRuleSet
<1>20. CASE op.do = "refresh_rulesets"
  <2>1. Change(op, s, m, ruled) = RefreshRuleSets(op, s, m)
    BY <1>20, Zenon DEF Change
  <2>2. QED
    BY <2>1, WithModel, SmallFiles, Zenon DEF RefreshRuleSets
<1>21. CASE op.do = "restore"
  <2>1. Change(op, s, m, ruled) = Restore(op, s)
    BY <1>21, Zenon DEF Change
  <2>2. QED
    BY <2>1, WithModel, SmallFiles, Zenon DEF Restore
<1>22. QED
  BY <1>1, <1>2, <1>3, <1>4, <1>5, <1>6, <1>7, <1>8, <1>9, <1>10, <1>11,
     <1>12, <1>13, <1>14, <1>15, <1>16, <1>17, <1>18, <1>19, <1>20, <1>21 DEF Requests

(* Only set_ruleset_label stages rulesets.json without the model.          *)
LEMMA OnlyLabel ==
  ASSUME NEW op, NEW s, NEW m, NEW ruled, op.do \in Requests,
         "meta" \in DOMAIN Change(op, s, m, ruled),
         "model" \notin DOMAIN Change(op, s, m, ruled)
  PROVE  op.do = "set_ruleset_label"
<1>1. op.do \in {"add_direct", "del_rule", "set_ruleset_label"}
  BY ModelStaged, SmallFiles, Zenon
<1>2. CASE op.do = "add_direct"
  <2>1. Change(op, s, m, ruled) = AddDirectRule(op, s)
    BY <1>2, Zenon DEF Change
  <2>2. QED
    BY <2>1, SmallFiles, Zenon DEF AddDirectRule
<1>3. CASE op.do = "del_rule"
  <2>1. Change(op, s, m, ruled) = DelRule(op, s, m, ruled)
    BY <1>3, Zenon DEF Change
  <2>2. QED
    BY <2>1, WithModel, SmallFiles, Zenon DEF DelRule
<1>4. QED
  BY <1>1, <1>2, <1>3

-----------------------------------------------------------------------------
(* The candidate set_ruleset_label stages keeps the targets it read.       *)
LEMMA LabelKeepsTargets ==
  ASSUME NEW op, NEW s, "meta" \in DOMAIN LabelRuleSet(op, s)
  PROVE  SameTargets(s.meta, LabelRuleSet(op, s).meta)
<1>1. LabelRuleSet(op, s) = [f \in {"meta"} |->
         [s.meta EXCEPT ![op.set] = [to |-> @.to, label |-> TRUE]]]
  BY SmallFiles DEF LabelRuleSet
<1>2. LabelRuleSet(op, s).meta = [s.meta EXCEPT ![op.set] = [to |-> @.to, label |-> TRUE]]
  BY <1>1
<1>3. QED
  BY <1>2 DEF SameTargets

(* Same targets: the same providers, and nothing dangles that did not.     *)
LEMMA SameTargetsFacts ==
  ASSUME NEW meta, NEW new, SameTargets(meta, new)
  PROVE  /\ Providers(new) = Providers(meta)
         /\ \A m : (\A r \in DOMAIN meta : meta[r].to \in Routable(m) \cup {Direct})
              => \A r \in DOMAIN new : new[r].to \in Routable(m) \cup {Direct}
BY DEF SameTargets, Providers

(* What tx_apply stages is sound, whatever it was computed from.           *)
LEMMA StageSound ==
  ASSUME NEW e \in Editor, Stage(e), seen[e].op.do \in Requests,
         DOMAIN seen = Editor, DOMAIN seen[e] = DOMAIN Blank
  PROVE  Sound(seen'[e])
<1> DEFINE c == seen[e]
           files == Change(c.op, c.files, live.model, c.ruled)
           held == DOMAIN files \cup Watched(c.op, files)
           expect == [f \in held |-> IF f \in Checked(c.op) THEN c.files[f] ELSE live[f]]
<1>1. /\ "model" \in DOMAIN files => Valid(files.model)
      /\ seen' = [seen EXCEPT ![e] = [c EXCEPT !.model = None, !.files = files,
                                                !.expect = expect]]
  BY DEF Stage
<1>2. seen'[e].files = files /\ seen'[e].expect = expect
  BY <1>1, BlankFields
<1>3. ASSUME "meta" \in DOMAIN files, "model" \notin DOMAIN files
      PROVE  "meta" \in DOMAIN expect /\ SameTargets(expect.meta, files.meta)
  <2>1. c.op.do = "set_ruleset_label"
    BY <1>3, OnlyLabel
  <2>2. files = LabelRuleSet(c.op, c.files)
    BY <2>1, Zenon DEF Change
  <2>3. "meta" \in Checked(c.op)
    <3>1. ~(c.op.do \in {"add_direct", "del_rule", "del_rules_bulk", "patch_rule"})
          /\ ~(c.op.do \in {"add_rule", "web_add_rule"})
      BY <2>1
    <3>2. Reads(c.op) = {"meta"}
      BY <2>1, <3>1, Zenon DEF Reads
    <3>3. QED
      BY <3>2 DEF Checked
  <2>4. expect.meta = c.files.meta
    BY <1>3, <2>3
  <2>5. SameTargets(c.files.meta, files.meta)
    BY <1>3, <2>2, LabelKeepsTargets
  <2>6. QED
    BY <1>3, <2>4, <2>5
<1>4. QED
  BY <1>1, <1>2, <1>3 DEF Sound

(* A sound candidate on an unchanged basis keeps the configuration closed, *)
(* and Mihomo's rules are those of the new files.                          *)
LEMMA CommitKeeps ==
  ASSUME NEW e \in Editor, Commit(e), Sound(seen[e]), Closed, RenderingAgrees,
         {"model", "meta"} \subseteq DOMAIN live
  PROVE  Closed' /\ RenderingAgrees' /\ {"model", "meta"} \subseteq DOMAIN live'
<1> DEFINE c == seen[e]
           next == And(c.files, live)
<1>0. /\ DOMAIN next = DOMAIN c.files \cup DOMAIN live
      /\ \A x \in DOMAIN c.files : next[x] = c.files[x]
      /\ \A x \in DOMAIN live : x \notin DOMAIN c.files => next[x] = live[x]
  BY AndFiles
<1>1. /\ live' = next
      /\ \A f \in DOMAIN c.expect : live[f] = c.expect[f]
      /\ "model" \in DOMAIN c.files => Derivable(next.model, next.meta)
      /\ mihomo' = IF "model" \in DOMAIN c.files
                     THEN Rendered(next.model, Providers(next.meta)) ELSE mihomo
  BY DEF Commit, Unchanged
<1> HIDE DEF next
<1>2. ASSUME "model" \in DOMAIN c.files
      PROVE  Closed' /\ RenderingAgrees'
  <2>1. next.model = c.files.model
    BY <1>2, <1>0
  <2>2. Valid(next.model)
    BY <1>2, <2>1 DEF Sound
  <2>3. \A r \in DOMAIN next.meta : next.meta[r].to \in Routable(next.model) \cup {Direct}
    BY <1>1, <1>2 DEF Derivable
  <2>4. QED
    BY <1>1, <1>2, <2>2, <2>3 DEF Closed, ClosedFiles, RenderingAgrees
<1>3. ASSUME "model" \notin DOMAIN c.files
      PROVE  Closed' /\ RenderingAgrees'
  <2>1. next.model = live.model /\ mihomo' = mihomo
    BY <1>1, <1>3, <1>0
  <2>2. SameTargets(live.meta, next.meta)
    <3>1. CASE "meta" \in DOMAIN c.files
      <4>1. next.meta = c.files.meta
        BY <3>1, <1>0
      <4>2. "meta" \in DOMAIN c.expect /\ SameTargets(c.expect.meta, c.files.meta)
        BY <1>3, <3>1 DEF Sound
      <4>3. live.meta = c.expect.meta
        BY <1>1, <4>2
      <4>4. QED
        BY <4>1, <4>2, <4>3
    <3>2. CASE "meta" \notin DOMAIN c.files
      <4>1. next.meta = live.meta
        BY <1>0, <3>2
      <4>2. QED
        BY <4>1 DEF SameTargets
    <3>3. QED
      BY <3>1, <3>2
  <2>3. Providers(next.meta) = Providers(live.meta)
    BY <2>2, SameTargetsFacts
  <2>4. \A r \in DOMAIN next.meta : next.meta[r].to \in Routable(live.model) \cup {Direct}
    BY <2>2, SameTargetsFacts DEF Closed, ClosedFiles
  <2>5. QED
    BY <1>1, <2>1, <2>3, <2>4 DEF Closed, ClosedFiles, RenderingAgrees
<1>4. QED
  BY <1>0, <1>1, <1>2, <1>3

-----------------------------------------------------------------------------
(* The invariant holds at first: every configuration the system starts from*)
(* is closed, and its Mihomo configuration was derived from it.            *)
LEMMA InitInv == Init => IInv
<1> SUFFICES ASSUME Init PROVE IInv
  OBVIOUS
<1>1. ClosedFiles(live) /\ DOMAIN live = File
  BY PolicyAssumption DEF Init
<1>2. \A e \in Editor : seen[e] = Blank /\ step[e] = "idle"
  BY DEF Init
<1>3. QED
  BY <1>1, <1>2 DEF Init, IInv, Closed, RenderingAgrees, File

(* Every step keeps it.                                                    *)
LEMMA StepInv == IInv /\ [Next]_vars => IInv'
<1> SUFFICES ASSUME IInv, [Next]_vars PROVE IInv'
  OBVIOUS
<1> USE DEF IInv
<1>1. ASSUME NEW e \in Editor, Begin(e) PROVE IInv'
  <2>1. PICK op \in Menu[e] :
          seen' = [seen EXCEPT ![e] =
            [Blank EXCEPT !.op = op,
                          !.model = IF Pinned(op) THEN live.model ELSE None,
                          !.ruled = op.do = "del_rule" /\ Rule(live.model, op.dom),
                          !.at = IF Loose(op) THEN edits ELSE 0]]
    BY <1>1 DEF Begin
  <2>2. op.do \in Requests
    BY PolicyAssumption DEF WellFormedRequest
  <2>3. DOMAIN seen'[e] = DOMAIN Blank /\ seen'[e].op = op
    BY <2>1, BlankFields
  <2>4. step' = [step EXCEPT ![e] = "checked"] /\ UNCHANGED <<live, mihomo>>
    BY <1>1 DEF Begin
  <2>5. \A d \in Editor \ {e} : seen'[d] = seen[d] /\ step'[d] = step[d]
    BY <2>1, <2>4
  <2>6. QED
    BY <2>1, <2>2, <2>3, <2>4, <2>5 DEF Closed, RenderingAgrees
<1>2. ASSUME NEW e \in Editor, Snapshot(e) PROVE IInv'
  <2>1. seen' = [seen EXCEPT ![e] =
          [seen[e] EXCEPT !.files = [f \in Reads(seen[e].op) |-> live[f]]]]
    BY <1>2 DEF Snapshot
  <2>2. DOMAIN seen'[e] = DOMAIN Blank /\ seen'[e].op = seen[e].op
    BY <2>1, BlankFields
  <2>3. /\ step[e] = "checked" /\ step' = [step EXCEPT ![e] = "read"]
        /\ UNCHANGED <<live, mihomo>>
    BY <1>2 DEF Snapshot
  <2>4. \A d \in Editor \ {e} : seen'[d] = seen[d] /\ step'[d] = step[d]
    BY <2>1, <2>3
  <2>5. QED
    BY <2>1, <2>2, <2>3, <2>4 DEF Closed, RenderingAgrees
<1>3. ASSUME NEW e \in Editor, Stage(e) PROVE IInv'
  <2>1. /\ step[e] = "read" /\ step' = [step EXCEPT ![e] = "staged"]
        /\ UNCHANGED <<live, mihomo>>
    BY <1>3 DEF Stage
  <2>2. Sound(seen'[e])
    BY <1>3, <2>1, StageSound
  <2>3. DOMAIN seen'[e] = DOMAIN Blank /\ seen'[e].op = seen[e].op
    <3>1. PICK files, expect :
            seen' = [seen EXCEPT ![e] = [seen[e] EXCEPT !.model = None, !.files = files,
                                                        !.expect = expect]]
      BY <1>3 DEF Stage
    <3>2. QED
      BY <3>1, BlankFields
  <2>4. /\ DOMAIN seen' = Editor
        /\ \A d \in Editor \ {e} : seen'[d] = seen[d] /\ step'[d] = step[d]
    <3>1. PICK c : seen' = [seen EXCEPT ![e] = c]
      BY <1>3 DEF Stage
    <3>2. QED
      BY <2>1, <3>1
  <2>5. QED
    BY <2>1, <2>2, <2>3, <2>4 DEF Closed, RenderingAgrees
<1>4. ASSUME NEW e \in Editor, Commit(e) PROVE IInv'
  <2>1. /\ step[e] = "staged" /\ step' = [step EXCEPT ![e] = "idle"]
        /\ seen' = [seen EXCEPT ![e] = Blank]
    BY <1>4 DEF Commit, Forget
  <2>2. Closed' /\ RenderingAgrees' /\ {"model", "meta"} \subseteq DOMAIN live'
    BY <1>4, <2>1, CommitKeeps
  <2>3. QED
    BY <2>1, <2>2
<1>5. ASSUME NEW e \in Editor, Refuse(e) PROVE IInv'
  BY <1>5 DEF Refuse, Forget, Closed, RenderingAgrees
<1>6. CASE UNCHANGED vars
  BY <1>6 DEF vars, Closed, RenderingAgrees, Sound
<1>7. QED
  BY <1>1, <1>2, <1>3, <1>4, <1>5, <1>6 DEF Next

(* No edit, whatever ran at the same time, leaves a rule, a group, the     *)
(* default or a rule set with a target that is gone: the check of the      *)
(* derivation under the lock is enough though rulesets.json is often not   *)
(* staged with the model.                                                  *)
THEOREM PolicyClosed == Spec => []Closed
<1>1. IInv => Closed
  BY DEF IInv
<1>2. QED
  BY InitInv, StepInv, <1>1, PTL DEF Spec

(* Mihomo's rules are always those of the model and rulesets.json as they  *)
(* are: no edit that changes what they say omits the derivation.           *)
THEOREM PolicyRendering == Spec => []RenderingAgrees
<1>1. IInv => RenderingAgrees
  BY DEF IInv
<1>2. QED
  BY InitInv, StepInv, <1>1, PTL DEF Spec

-----------------------------------------------------------------------------
(* Filtered lists: what Those(s, I) is.                                    *)

(* Every nonempty set of natural numbers has a least one.                  *)
LEMMA Least ==
  ASSUME NEW T \in SUBSET Nat, T # {}
  PROVE  \E x \in T : \A y \in T : x <= y
<1>1. PICK x \in T : \A y \in T : ~(<<y, x>> \in OpToRel(<, Nat))
  BY NatLessThanWellFounded, WFMin, Zenon
<1>2. \A y \in T : ~(y < x)
  BY <1>1 DEF OpToRel
<1>3. QED
  BY <1>2

(* How many positions of I come before x, and x.                           *)
Count(I, x) == Cardinality({j \in I : j <= x})

(* Each position of I adds one.                                            *)
LEMMA CountFacts ==
  ASSUME NEW n \in Nat, NEW I \in SUBSET (1..n)
  PROVE  /\ IsFiniteSet(I) /\ Cardinality(I) \in Nat
         /\ \A x \in Nat : Count(I, x) \in Nat
         /\ Count(I, 0) = 0 /\ Count(I, n) = Cardinality(I)
         /\ \A x \in Nat : Count(I, x + 1) = IF x + 1 \in I THEN Count(I, x) + 1
                                                            ELSE Count(I, x)
         /\ \A x, y \in Nat : x <= y => Count(I, x) <= Count(I, y)
<1>0. \A j \in I : j \in Nat /\ 0 < j /\ j <= n
  OBVIOUS
<1>1. IsFiniteSet(1..n)
  BY FS_Interval
<1>2. IsFiniteSet(I) /\ Cardinality(I) \in Nat
  BY <1>1, FS_Subset, FS_CardinalityType
<1>3. \A x : IsFiniteSet({j \in I : j <= x}) /\ Count(I, x) \in Nat
  <2>1. TAKE x
  <2>2. {j \in I : j <= x} \subseteq I
    OBVIOUS
  <2>3. QED
    BY <1>2, <2>2, FS_Subset, FS_CardinalityType DEF Count
<1>4. Count(I, 0) = 0
  <2>1. \A j \in I : ~(j <= 0)
    BY <1>0
  <2>3. {j \in I : j <= 0} = {}
    BY <2>1, Zenon
  <2>2. QED
    BY <2>3, FS_EmptySet DEF Count
<1>5. Count(I, n) = Cardinality(I)
  <2>1. {j \in I : j <= n} = I
    BY <1>0
  <2>2. QED
    BY <2>1 DEF Count
<1>6. ASSUME NEW x \in Nat
      PROVE  Count(I, x + 1) = IF x + 1 \in I THEN Count(I, x) + 1 ELSE Count(I, x)
  <2> DEFINE A == {j \in I : j <= x}
             B == {j \in I : j <= x + 1}
  <2>0. \A j \in I : /\ j <= x + 1 <=> j <= x \/ j = x + 1
                     /\ j = x + 1 => ~(j <= x)
    BY <1>0
  <2>1. CASE x + 1 \in I
    <3>1. B = A \cup {x + 1} /\ x + 1 \notin A
      BY <2>0, <2>1, Zenon
    <3>2. Cardinality(A \cup {x + 1}) = Cardinality(A) + 1
      BY <1>3, <3>1, FS_AddElement
    <3>3. QED
      BY <2>1, <3>1, <3>2 DEF Count
  <2>2. CASE x + 1 \notin I
    <3>1. B = A
      BY <2>0, <2>2, Zenon
    <3>2. QED
      BY <2>2, <3>1 DEF Count
  <2>3. QED
    BY <2>1, <2>2
<1>7. ASSUME NEW x \in Nat, NEW y \in Nat, x <= y
      PROVE  Count(I, x) <= Count(I, y)
  <2>0. \A j \in I : j <= x => j <= y
    BY <1>0, <1>7
  <2>1. {j \in I : j <= x} \subseteq {j \in I : j <= y}
    BY <2>0, Zenon
  <2>2. QED
    BY <1>3, <2>1, FS_Subset DEF Count
<1>8. QED
  BY <1>2, <1>3, <1>4, <1>5, <1>6, <1>7

(* What is left of a list: nothing else, all of it, and in order.          *)
LEMMA ThoseInOrder ==
  ASSUME NEW s, NEW n \in Nat, NEW I \in SUBSET (1..n)
  PROVE  \E f \in [1..Cardinality(I) -> I] :
           /\ Those(s, I) = [k \in 1..Cardinality(I) |-> s[f[k]]]
           /\ \A i \in I : \E k \in 1..Cardinality(I) : f[k] = i
           /\ \A k, l \in 1..Cardinality(I) : k < l => f[k] < f[l]
<1> DEFINE Nth(k) == CHOOSE i \in I : Cardinality({j \in I : j <= i}) = k
           f == [k \in 1..Cardinality(I) |-> Nth(k)]
<1>0. /\ \A j \in I : j \in Nat /\ 0 < j /\ j <= n
      /\ Cardinality(I) \in Nat
      /\ \A z \in Nat : Count(I, z) \in Nat
      /\ \A z \in Nat : Count(I, z + 1) = IF z + 1 \in I THEN Count(I, z) + 1
                                                         ELSE Count(I, z)
  <2>1. \A j \in I : j \in Nat /\ 0 < j /\ j <= n
    OBVIOUS
  <2>2. /\ Cardinality(I) \in Nat
        /\ \A z \in Nat : Count(I, z) \in Nat
        /\ \A z \in Nat : Count(I, z + 1) = IF z + 1 \in I THEN Count(I, z) + 1
                                                           ELSE Count(I, z)
    BY CountFacts
  <2>3. QED
    BY <2>1, <2>2
<1>1. ASSUME NEW k \in 1..Cardinality(I)
      PROVE  \E i \in I : Count(I, i) = k
  <2> DEFINE T == {x \in Nat : k <= Count(I, x)}
  <2>1. n \in T /\ Cardinality(I) \in Nat
    BY CountFacts
  <2>2. PICK x \in T : \A y \in T : x <= y
    BY <2>1, Least
  <2>3. x # 0 /\ k \in Nat
    BY <2>1, <2>2, CountFacts
  <2>4. x - 1 \in Nat /\ (x - 1) + 1 = x
    BY <2>2, <2>3
  <2>5. x - 1 \notin T
    BY <2>2, <2>4
  <2>6. Count(I, x - 1) < k /\ Count(I, x - 1) \in Nat /\ Count(I, x) \in Nat /\ k <= Count(I, x)
    BY <2>1, <2>2, <2>3, <2>4, <2>5, CountFacts
  <2>7. Count(I, x) = IF x \in I THEN Count(I, x - 1) + 1 ELSE Count(I, x - 1)
    <3>1. Count(I, (x - 1) + 1) = IF (x - 1) + 1 \in I THEN Count(I, x - 1) + 1
                                                         ELSE Count(I, x - 1)
      BY <1>0, <2>4
    <3>2. QED
      BY <2>4, <3>1
  <2>8. QED
    BY <2>3, <2>6, <2>7
<1>2. ASSUME NEW k \in 1..Cardinality(I)
      PROVE  Nth(k) \in I /\ Count(I, Nth(k)) = k
  BY <1>1 DEF Count
<1>3. ASSUME NEW i \in I, NEW j \in I, i < j
      PROVE  Count(I, i) < Count(I, j)
  <2>1. /\ i \in Nat /\ j - 1 \in Nat /\ (j - 1) + 1 = j /\ i <= j - 1
    BY <1>0, <1>3
  <2>2. Count(I, i) <= Count(I, j - 1)
    BY <2>1, CountFacts
  <2>3. Count(I, j) = Count(I, j - 1) + 1
    <3>1. Count(I, (j - 1) + 1) = IF (j - 1) + 1 \in I THEN Count(I, j - 1) + 1
                                                         ELSE Count(I, j - 1)
      BY <1>0, <2>1
    <3>2. QED
      BY <2>1, <3>1
  <2>4. Count(I, i) \in Nat /\ Count(I, j - 1) \in Nat
    BY <2>1, CountFacts
  <2>5. QED
    BY <2>2, <2>3, <2>4
<1>4. f \in [1..Cardinality(I) -> I]
  BY <1>2
<1>5. Those(s, I) = [k \in 1..Cardinality(I) |-> s[f[k]]]
  BY DEF Those
<1>6. ASSUME NEW i \in I PROVE \E k \in 1..Cardinality(I) : f[k] = i
  <2>1. /\ i \in Nat /\ n \in Nat /\ i <= n /\ 0 < i /\ Cardinality(I) \in Nat
    BY <1>0
  <2>2. Count(I, i) \in Nat /\ Count(I, i) <= Cardinality(I)
    <3>1. Count(I, i) <= Count(I, n) /\ Count(I, n) = Cardinality(I)
      BY <2>1, CountFacts
    <3>2. QED
      BY <1>0, <2>1, <3>1
  <2>3. Count(I, i) # 0
    <3>1. i - 1 \in Nat /\ (i - 1) + 1 = i
      BY <2>1
    <3>2. Count(I, (i - 1) + 1) = IF (i - 1) + 1 \in I THEN Count(I, i - 1) + 1
                                                         ELSE Count(I, i - 1)
      BY <1>0, <3>1
    <3>3. Count(I, i) = Count(I, i - 1) + 1 /\ Count(I, i - 1) \in Nat
      BY <1>0, <3>1, <3>2
    <3>4. QED
      BY <3>3
  <2>4. Count(I, i) \in 1..Cardinality(I)
    BY <2>1, <2>2, <2>3
  <2>5. Nth(Count(I, i)) \in I /\ Count(I, Nth(Count(I, i))) = Count(I, i)
    BY <1>2, <2>4
  <2>6. ASSUME NEW j \in I, Count(I, j) = Count(I, i) PROVE j = i
    <3>1. j \in Nat /\ i \in Nat /\ Count(I, i) \in Nat
      BY <1>0
    <3>2. ~(j < i) /\ ~(i < j)
      BY <1>3, <2>2, <2>6
    <3>3. QED
      BY <3>1, <3>2
  <2>7. QED
    BY <2>4, <2>5, <2>6
<1>7. ASSUME NEW k \in 1..Cardinality(I), NEW l \in 1..Cardinality(I), k < l
      PROVE  f[k] < f[l]
  <2>1. /\ f[k] \in I /\ f[l] \in I /\ Count(I, f[k]) = k /\ Count(I, f[l]) = l
    BY <1>2
  <2> HIDE DEF f
  <2>2. f[k] \in Nat /\ f[l] \in Nat /\ k \in Nat /\ l \in Nat
    BY <1>0, <2>1
  <2>3. f[l] < f[k] => l < k
    BY <1>3, <2>1
  <2>4. f[k] # f[l]
    BY <1>7, <2>1, <2>2
  <2>5. QED
    BY <1>7, <2>2, <2>3, <2>4
<1> HIDE DEF f
<1>8. QED
  BY <1>4, <1>5, <1>6, <1>7

-----------------------------------------------------------------------------
(* The lists of a model, and what the edits do to them.                    *)

(* The lists of a model are sequences.                                     *)
IsList(s) == s \in Seq(ToSet(s))

(* A model of exits with names and of groups with names and members, none  *)
(* of them with the name of the phone's own way.                           *)
Plain(m) ==
  /\ {"outs", "groups", "final"} \subseteq DOMAIN m
  /\ IsList(m.outs) /\ IsList(m.groups)
  /\ \A o \in ToSet(m.outs) : "tag" \in DOMAIN o /\ o.tag # Direct
  /\ \A g \in ToSet(m.groups) : {"name", "proxies"} \subseteq DOMAIN g /\ g.name # Direct

(* A list is a function on 1..n.                                           *)
LEMMA ListIs ==
  ASSUME NEW s, IsList(s)
  PROVE  /\ Len(s) \in Nat /\ DOMAIN s = 1..Len(s)
         /\ s = [i \in 1..Len(s) |-> s[i]]
BY DEF IsList

(* A sequence is a function on its positions.                              *)
LEMMA SeqIs ==
  ASSUME NEW S, NEW s \in Seq(S)
  PROVE  s \in [1..Len(s) -> S]
OBVIOUS

(* A function on 1..n is a list of n.                                      *)
LEMMA IsListIf ==
  ASSUME NEW s, NEW n \in Nat, s = [i \in 1..n |-> s[i]]
  PROVE  IsList(s) /\ Len(s) = n
<1>1. \A i \in 1..n : s[i] \in ToSet(s)
  BY DEF ToSet
<1>2. s \in [1..n -> ToSet(s)]
  BY <1>1
<1>3. QED
  BY <1>2 DEF IsList

(* A list made element by element from a list.                             *)
LEMMA MapIsList ==
  ASSUME NEW s, IsList(s), NEW t, t = [i \in DOMAIN s |-> t[i]]
  PROVE  IsList(t) /\ Len(t) = Len(s)
<1>1. /\ Len(s) \in Nat /\ DOMAIN s = 1..Len(s)
  BY ListIs
<1>2. t = [i \in 1..Len(s) |-> t[i]]
  BY <1>1
<1>3. QED
  BY <1>1, <1>2, IsListIf

(* Filtering a list leaves a list of its elements.                         *)
LEMMA ThoseIsList ==
  ASSUME NEW s, IsList(s), NEW I \in SUBSET DOMAIN s
  PROVE  /\ IsList(Those(s, I)) /\ DOMAIN Those(s, I) = 1..Len(Those(s, I))
         /\ \A k \in DOMAIN Those(s, I) : \E i \in I : Those(s, I)[k] = s[i]
         /\ ToSet(Those(s, I)) \subseteq {s[i] : i \in I}
<1>1. Len(s) \in Nat /\ DOMAIN s = 1..Len(s)
  BY ListIs
<1>2. PICK f \in [1..Cardinality(I) -> I] :
        Those(s, I) = [k \in 1..Cardinality(I) |-> s[f[k]]]
  <2>1. I \in SUBSET (1..Len(s)) /\ Len(s) \in Nat
    BY <1>1
  <2>2. PICK f \in [1..Cardinality(I) -> I] :
           /\ Those(s, I) = [k \in 1..Cardinality(I) |-> s[f[k]]]
           /\ \A i \in I : \E k \in 1..Cardinality(I) : f[k] = i
           /\ \A k, l \in 1..Cardinality(I) : k < l => f[k] < f[l]
    BY <2>1, ThoseInOrder, ZenonT(60)
  <2>3. QED
    BY <2>2
<1>3. Cardinality(I) \in Nat
  BY <1>1, CountFacts
<1>4. Those(s, I) = [k \in 1..Cardinality(I) |-> Those(s, I)[k]]
  BY <1>2
<1>5. IsList(Those(s, I)) /\ Len(Those(s, I)) = Cardinality(I)
  BY <1>3, <1>4, IsListIf
<1>6. \A k \in DOMAIN Those(s, I) : \E i \in I : Those(s, I)[k] = s[i]
  BY <1>2
<1>7. QED
  BY <1>4, <1>5, <1>6, ZenonT(60) DEF ToSet

(* Appending to a list.                                                    *)
LEMMA AppendIsList ==
  ASSUME NEW s, IsList(s), NEW x
  PROVE  IsList(Append(s, x)) /\ ToSet(Append(s, x)) \subseteq ToSet(s) \cup {x}
<1>1. s \in Seq(ToSet(s) \cup {x}) /\ Len(s) \in Nat
  BY DEF IsList
<1>2. /\ Append(s, x) \in Seq(ToSet(s) \cup {x})
      /\ Len(Append(s, x)) = Len(s) + 1
      /\ \A i \in 1..Len(s) : Append(s, x)[i] = s[i]
      /\ Append(s, x)[Len(s) + 1] = x
  BY <1>1
<1>3. DOMAIN Append(s, x) = 1..(Len(s) + 1)
  BY <1>2
<1>4. Append(s, x) = [i \in 1..(Len(s) + 1) |-> Append(s, x)[i]]
  <2>1. Append(s, x) \in [1..Len(Append(s, x)) -> ToSet(s) \cup {x}]
    BY <1>2, SeqIs
  <2>2. QED
    BY <1>2, <2>1
<1>5. IsList(Append(s, x))
  BY <1>1, <1>4, IsListIf
<1>6. \A i \in 1..(Len(s) + 1) : Append(s, x)[i] \in ToSet(s) \cup {x}
  BY <1>2, <1>3
<1>7. QED
  BY <1>3, <1>5, <1>6 DEF ToSet

(* A target is the tag of an outbound or the name of a group.              *)
LEMMA PlainTargets ==
  ASSUME NEW m, Plain(m)
  PROVE  /\ IsList(RoutableTags(m))
         /\ \A i \in DOMAIN RoutableTags(m) : RoutableTags(m)[i] # Direct
         /\ Direct \notin Routable(m) \cup OutTags(m) \cup GroupNames(m)
         /\ Direct \notin Proxies(m) \cup DirectTags(m)
<1> DEFINE I == {i \in DOMAIN m.outs : m.outs[i].type \in RoutableType}
           outs == Those(m.outs, I)
           a == [i \in DOMAIN outs |-> outs[i].tag]
           b == [i \in DOMAIN m.groups |-> m.groups[i].name]
<1>1. /\ \A i \in DOMAIN m.outs : m.outs[i].tag # Direct
      /\ \A i \in DOMAIN m.groups : m.groups[i].name # Direct
  BY DEF Plain, ToSet
<1>2. IsList(m.outs) /\ IsList(m.groups)
  BY DEF Plain
<1>3. /\ IsList(outs)
      /\ \A k \in DOMAIN outs : \E i \in I : outs[k] = m.outs[i]
  <2>1. I \in SUBSET DOMAIN m.outs
    OBVIOUS
  <2> HIDE DEF I
  <2>2. QED
    BY <1>2, <2>1, ThoseIsList
<1>4. \A k \in DOMAIN outs : outs[k].tag # Direct
  BY <1>1, <1>3
<1>5. IsList(a) /\ IsList(b)
  <2> HIDE DEF outs
  <2>1. a = [i \in DOMAIN outs |-> a[i]] /\ b = [i \in DOMAIN m.groups |-> b[i]]
    OBVIOUS
  <2>2. QED
    BY <1>2, <1>3, <2>1, MapIsList
<1>6. (\A i \in DOMAIN a : a[i] # Direct) /\ (\A i \in DOMAIN b : b[i] # Direct)
  BY <1>1, <1>4
<1>7. RoutableTags(m) = a \o b
  BY DEF RoutableTags
<1> HIDE DEF a, b
<1>8. /\ Len(a) \in Nat /\ DOMAIN a = 1..Len(a) /\ Len(b) \in Nat /\ DOMAIN b = 1..Len(b)
      /\ a \o b = [i \in 1..(Len(a) + Len(b)) |-> IF i <= Len(a) THEN a[i] ELSE b[i - Len(a)]]
  <2>1. /\ Len(a) \in Nat /\ DOMAIN a = 1..Len(a) /\ Len(b) \in Nat /\ DOMAIN b = 1..Len(b)
    BY <1>5, ListIs
  <2>2. a \in Seq(ToSet(a) \cup ToSet(b)) /\ b \in Seq(ToSet(a) \cup ToSet(b))
    BY <1>5 DEF IsList
  <2>3. /\ (a \o b) \in Seq(ToSet(a) \cup ToSet(b))
        /\ Len(a \o b) = Len(a) + Len(b)
        /\ \A i \in 1..(Len(a) + Len(b)) :
             (a \o b)[i] = IF i <= Len(a) THEN a[i] ELSE b[i - Len(a)]
    BY <2>1, <2>2
  <2>4. (a \o b) \in [1..Len(a \o b) -> ToSet(a) \cup ToSet(b)]
    BY <2>3, SeqIs
  <2>5. QED
    BY <2>1, <2>3, <2>4
<1>9. /\ (a \o b) = [i \in 1..(Len(a) + Len(b)) |-> (a \o b)[i]]
      /\ DOMAIN (a \o b) = 1..(Len(a) + Len(b))
      /\ Len(a) + Len(b) \in Nat
  BY <1>8
<1>10. IsList(a \o b)
  BY <1>9, IsListIf
<1>11. \A i \in 1..(Len(a) + Len(b)) : (a \o b)[i] # Direct
  <2>1. TAKE i \in 1..(Len(a) + Len(b))
  <2>2. CASE i <= Len(a)
    BY <1>6, <1>8, <2>2
  <2>3. CASE ~(i <= Len(a))
    <3>1. i - Len(a) \in DOMAIN b
      BY <1>8, <2>3
    <3>2. QED
      BY <1>6, <1>8, <2>3, <3>1
  <2>4. QED
    BY <2>2, <2>3
<1>12. QED
  BY <1>1, <1>7, <1>9, <1>10, <1>11 DEF Routable, ToSet, OutTags, GroupNames, Proxies, DirectTags

(* An outbound and a group of such a model.                                *)
PlainOut(o) == "tag" \in DOMAIN o /\ o.tag # Direct
PlainGroup(g) == {"name", "proxies"} \subseteq DOMAIN g /\ g.name # Direct

(* The same element by element.                                            *)
LEMMA PlainIff ==
  ASSUME NEW m
  PROVE  Plain(m) <=> /\ {"outs", "groups", "final"} \subseteq DOMAIN m
                      /\ IsList(m.outs) /\ IsList(m.groups)
                      /\ \A i \in DOMAIN m.outs : PlainOut(m.outs[i])
                      /\ \A i \in DOMAIN m.groups : PlainGroup(m.groups[i])
BY DEF Plain, ToSet, PlainOut, PlainGroup

(* n is m but for the rules, the rule sets and the default.                *)
SameLists(m, n) ==
  DOMAIN n = DOMAIN m /\ n.outs = m.outs /\ n.groups = m.groups

(* Such a model is as plain as m.                                          *)
LEMMA SameListsPlain ==
  ASSUME NEW m, Plain(m), NEW n, SameLists(m, n)
  PROVE  Plain(n)
BY DEF Plain, SameLists

(* The edits of rules, rule sets and the default change nothing else.      *)
LEMMA RuleEdits ==
  ASSUME NEW m, Plain(m)
  PROVE  /\ \A x : SameLists(m, [m EXCEPT !.final = x])
         /\ \A x : SameLists(m, [m EXCEPT !.rules = x])
         /\ \A d, x : SameLists(m, AddDomain(m, d, x))
         /\ \A ds : SameLists(m, DropDomains(m, ds))
         /\ \A d, x : SameLists(m, MoveDomain(m, d, x))
         /\ \A i, x : SameLists(m, Reassign(m, i, x))
         /\ \A x : SameLists(m, PinTelegram(m, x))
         /\ \A r : SameLists(m, DropSet(m, r))
         /\ \A r, x : SameLists(m, AddSet(m, r, x))
         /\ \A r, x : SameLists(m, TargetSet(m, r, x))
         /\ \A x : SameLists(m, Retarget(m, x))
<1>0. {"outs", "groups", "final"} \subseteq DOMAIN m
  BY DEF Plain
<1>1. \A n, x : SameLists(m, n) =>
         /\ SameLists(m, [n EXCEPT !.rules = x])
         /\ SameLists(m, [n EXCEPT !.sets = x])
         /\ SameLists(m, [n EXCEPT !.final = x])
  BY <1>0 DEF SameLists
<1>2. SameLists(m, m)
  BY DEF SameLists
<1>3. \A n, rule : SameLists(m, n) => SameLists(m, Insert(n, rule))
  BY <1>1, Zenon DEF Insert
<1>4. \A n, i, x, y : SameLists(m, n) =>
         /\ SameLists(m, [n EXCEPT !.rules[i].domains = x])
         /\ SameLists(m, [n EXCEPT !.rules[i].domains = x, !.rules[i].keyed = y])
  BY <1>0 DEF SameLists
<1>5. ASSUME NEW d, NEW x PROVE SameLists(m, AddDomain(m, d, x))
  <2>1. \A i : SameLists(m, [m EXCEPT !.rules[i].domains = @ \cup {d}, !.rules[i].keyed = TRUE])
    BY <1>0 DEF SameLists
  <2>2. QED
    BY <2>1, <1>2, <1>3, Zenon DEF AddDomain
<1>6. \A ds : SameLists(m, DropDomains(m, ds))
  BY <1>1, <1>2, Zenon DEF DropDomains
<1>7. ASSUME NEW d, NEW x PROVE SameLists(m, MoveDomain(m, d, x))
  <2>1. PICK n : n = DropDomains(m, {d})
    OBVIOUS
  <2>2. SameLists(m, n)
    BY <1>6, <2>1
  <2>3. \A i : SameLists(m, [n EXCEPT !.rules[i].domains = @ \cup {d}])
    BY <1>0, <2>2 DEF SameLists
  <2>4. QED
    BY <2>1, <2>2, <2>3, <1>3, Zenon DEF MoveDomain
<1>8. \A i, x : SameLists(m, Reassign(m, i, x))
  BY <1>1, <1>2, Zenon DEF Reassign
<1>9. \A x : SameLists(m, PinTelegram(m, x))
  BY <1>1, <1>2, <1>3, Zenon DEF PinTelegram
<1>10. \A r : SameLists(m, DropSet(m, r))
  BY <1>0 DEF DropSet, SameLists
<1>11. \A r, x : SameLists(m, AddSet(m, r, x))
  BY <1>1, <1>3, <1>10, Zenon DEF AddSet
<1>12. ASSUME NEW r, NEW x PROVE SameLists(m, TargetSet(m, r, x))
  <2>1. \A n, s, t : SameLists(m, n) => SameLists(m, [n EXCEPT !.sets = s, !.rules = t])
    BY <1>0 DEF SameLists
  <2>2. QED
    BY <1>10, <2>1, Zenon DEF TargetSet
<1>13. ASSUME NEW x PROVE SameLists(m, Retarget(m, x))
  <2>1. \A y, z : SameLists(m, [m EXCEPT !.final = y, !.rules = z])
    BY <1>0 DEF SameLists
  <2>2. QED
    BY <2>1, Zenon DEF Retarget
<1>14. QED
  BY <1>1, <1>2, <1>5, <1>6, <1>7, <1>8, <1>9, <1>10, <1>11, <1>12, <1>13

(* An outbound or a group more.                                            *)
LEMMA AppendPlain ==
  ASSUME NEW m, Plain(m), NEW x
  PROVE  /\ PlainOut(x) => Plain([m EXCEPT !.outs = Append(@, x)])
         /\ PlainGroup(x) => Plain([m EXCEPT !.groups = Append(@, x)])
<1>1. \A s : IsList(s) => /\ IsList(Append(s, x))
                          /\ ToSet(Append(s, x)) \subseteq ToSet(s) \cup {x}
  BY AppendIsList
<1>2. QED
  BY <1>1 DEF Plain, PlainOut, PlainGroup

(* Lists changed element by element.                                       *)
LEMMA MapPlain ==
  ASSUME NEW m, Plain(m), NEW n, DOMAIN n = DOMAIN m,
         n.outs = [i \in DOMAIN m.outs |-> n.outs[i]],
         n.groups = [i \in DOMAIN m.groups |-> n.groups[i]],
         \A i \in DOMAIN m.outs : PlainOut(n.outs[i]),
         \A i \in DOMAIN m.groups : PlainGroup(n.groups[i])
  PROVE  Plain(n)
<1>1. IsList(m.outs) /\ IsList(m.groups) /\ {"outs", "groups", "final"} \subseteq DOMAIN n
  BY DEF Plain
<1>2. IsList(n.outs) /\ IsList(n.groups)
  BY <1>1, MapIsList
<1>3. DOMAIN n.outs = DOMAIN m.outs /\ DOMAIN n.groups = DOMAIN m.groups
  OBVIOUS
<1>4. QED
  BY <1>1, <1>2, <1>3, PlainIff

(* Renaming keeps a model plain unless the new name is the literal.        *)
LEMMA RenamePlain ==
  ASSUME NEW m, Plain(m), NEW old, NEW new, new # Direct
  PROVE  /\ Plain(RenameReferences(m, old, new))
         /\ Plain(Rename(m, old, new))
<1> DEFINE n == RenameReferences(m, old, new)
           o == Rename(m, old, new)
<1>1. /\ {"outs", "groups", "final"} \subseteq DOMAIN m
      /\ IsList(m.outs) /\ IsList(m.groups)
      /\ \A i \in DOMAIN m.outs : PlainOut(m.outs[i])
      /\ \A i \in DOMAIN m.groups : PlainGroup(m.groups[i])
  BY PlainIff
<1>2. /\ DOMAIN n = DOMAIN m /\ n.outs = m.outs
      /\ n.groups = [i \in DOMAIN m.groups |->
           [m.groups[i] EXCEPT !.name = Sub(old, new, @),
                               !.proxies = {Sub(old, new, x) : x \in @}]]
  BY <1>1 DEF RenameReferences
<1>3. \A i \in DOMAIN m.groups : PlainGroup(n.groups[i])
  BY <1>1, <1>2 DEF PlainGroup, Sub
<1>4. /\ n.groups = [i \in DOMAIN m.groups |-> n.groups[i]]
      /\ n.outs = [i \in DOMAIN m.outs |-> n.outs[i]]
  <2>1. m.outs = [i \in DOMAIN m.outs |-> m.outs[i]]
    BY <1>1, ListIs
  <2>2. QED
    BY <1>2, <2>1
<1>5. Plain(n)
  <2> HIDE DEF n
  <2>1. \A i \in DOMAIN m.outs : PlainOut(n.outs[i])
    BY <1>1, <1>2
  <2>2. QED
    BY <1>2, <1>3, <1>4, <2>1, MapPlain
<1>6. /\ DOMAIN o = DOMAIN n /\ o.groups = n.groups
      /\ o.outs = [i \in DOMAIN n.outs |-> [n.outs[i] EXCEPT !.tag = Sub(old, new, @)]]
  <2>1. o = [n EXCEPT !.outs = [i \in DOMAIN n.outs |->
                                 [n.outs[i] EXCEPT !.tag = Sub(old, new, @)]]]
    BY DEF Rename
  <2>2. "outs" \in DOMAIN n
    BY <1>1, <1>2
  <2> HIDE DEF o, n
  <2>3. QED
    BY <2>1, <2>2
<1> HIDE DEF o, n
<1>7. \A i \in DOMAIN n.outs : PlainOut(o.outs[i])
  <2>1. TAKE i \in DOMAIN n.outs
  <2>2. "tag" \in DOMAIN n.outs[i] /\ n.outs[i].tag # Direct
    BY <1>1, <1>2 DEF PlainOut
  <2>3. o.outs[i] = [n.outs[i] EXCEPT !.tag = Sub(old, new, @)]
    BY <1>6
  <2>4. Sub(old, new, n.outs[i].tag) # Direct
    BY <2>2 DEF Sub
  <2>5. QED
    BY <2>2, <2>3, <2>4 DEF PlainOut
<1>8. /\ o.outs = [i \in DOMAIN n.outs |-> o.outs[i]]
      /\ o.groups = [i \in DOMAIN n.groups |-> o.groups[i]]
  BY <1>2, <1>4, <1>6
<1>9. \A i \in DOMAIN n.groups : PlainGroup(o.groups[i])
  BY <1>2, <1>3, <1>6
<1>10. Plain(o)
  BY <1>5, <1>6, <1>7, <1>8, <1>9, MapPlain
<1>11. QED
  BY <1>5, <1>10 DEF n, o

(* What is left when things are deleted.                                   *)
LEMMA WithoutPlain ==
  ASSUME NEW m, Plain(m), NEW S
  PROVE  Plain(Without(m, S))
<1> DEFINE n == Without(m, S)
           R == Cascade(m, S)
           I == {i \in DOMAIN m.outs : m.outs[i].tag \notin S}
           J == {i \in DOMAIN m.groups : m.groups[i].name \notin R}
           left == Those(m.groups, J)
<1>1. /\ {"outs", "groups", "final"} \subseteq DOMAIN m
      /\ IsList(m.outs) /\ IsList(m.groups)
      /\ \A i \in DOMAIN m.outs : PlainOut(m.outs[i])
      /\ \A i \in DOMAIN m.groups : PlainGroup(m.groups[i])
  BY PlainIff
<1>2. I \in SUBSET DOMAIN m.outs /\ J \in SUBSET DOMAIN m.groups
  OBVIOUS
<1>3. /\ DOMAIN n = DOMAIN m /\ n.outs = Those(m.outs, I)
      /\ n.groups = [i \in DOMAIN left |-> [left[i] EXCEPT !.proxies = @ \ R]]
  <2>1. n = [m EXCEPT !.outs = Those(@, {i \in DOMAIN @ : @[i].tag \notin S}),
                      !.groups = [i \in DOMAIN left |-> [left[i] EXCEPT !.proxies = @ \ R]]]
    BY DEF Without
  <2> HIDE DEF n, left, R
  <2>2. QED
    BY <1>1, <2>1
<1> HIDE DEF n, R, I, J
<1>4. /\ IsList(Those(m.outs, I)) /\ IsList(left)
      /\ \A k \in DOMAIN Those(m.outs, I) : \E i \in I : Those(m.outs, I)[k] = m.outs[i]
      /\ \A k \in DOMAIN left : \E i \in J : left[k] = m.groups[i]
  BY <1>1, <1>2, ThoseIsList
<1> HIDE DEF left
<1>5. n.groups = [i \in DOMAIN left |-> n.groups[i]]
  BY <1>3
<1>6. IsList(n.outs) /\ IsList(n.groups)
  BY <1>3, <1>4, <1>5, MapIsList
<1>7. \A k \in DOMAIN n.outs : PlainOut(n.outs[k])
  BY <1>1, <1>2, <1>3, <1>4
<1>8. \A k \in DOMAIN n.groups : PlainGroup(n.groups[k])
  <2>1. \A k \in DOMAIN left : PlainGroup(left[k])
    BY <1>1, <1>2, <1>4
  <2>2. QED
    BY <1>3, <2>1 DEF PlainGroup
<1>9. Plain(n)
  BY <1>1, <1>3, <1>6, <1>7, <1>8, PlainIff
<1>10. QED
  BY <1>9 DEF n

(* The same for the deletion of the web.                                   *)
LEMMA DeleteOutboundPlain ==
  ASSUME NEW m, Plain(m), NEW tag
  PROVE  Plain(DeleteOutbound(m, tag))
<1>1. PICK n : n = Without(m, {tag})
  OBVIOUS
<1>2. Plain(n)
  BY <1>1, WithoutPlain
<1>3. \A x, y : SameLists(n, [n EXCEPT !.final = x, !.rules = y])
  BY <1>2 DEF Plain, SameLists
<1>4. SameLists(n, DeleteOutbound(m, tag))
  BY <1>1, <1>3, Zenon DEF DeleteOutbound
<1>5. QED
  BY <1>2, <1>4, SameListsPlain

-----------------------------------------------------------------------------
(* What the requests stage.                                                *)

(* The shape of rulesets.json that the proof needs.                        *)
Listing(meta) ==
  DOMAIN meta \subseteq RuleSet /\ \A r \in DOMAIN meta : "to" \in DOMAIN meta[r]

(* The same rule sets, and the same of them are the phone's own way.       *)
SameWay(meta, new) ==
  /\ DOMAIN new = DOMAIN meta
  /\ \A r \in DOMAIN meta : new[r].to = Direct <=> meta[r].to = Direct

(* What a change may stage: the aggregates are derived from it, or it      *)
(* changes nothing of what they are made of.                               *)
Fits(op, s, files) ==
  /\ "model" \in DOMAIN files => Plain(files.model)
  /\ "meta" \in DOMAIN files => Listing(files.meta)
  /\ \/ RuleSetDirect(op, files)
     \/ /\ DOMAIN files \cap RuleSet = {}
        /\ "meta" \in DOMAIN files => "meta" \in Reads(op) /\ SameWay(s.meta, files.meta)

(* The hypothesis of the theorem: nobody calls a group by the name of the  *)
(* phone's own way, as the bot never lets one do.  The web does, and then  *)
(* deleting that group moves the phone's rule sets: see the run            *)
(* policy_direct_group.                                                    *)
DirectIsPhone ==
  /\ \A s \in AtStart : Direct \notin OutTags(s.model) \cup GroupNames(s.model)
  /\ \A e \in Editor : \A op \in Menu[e] :
       /\ op.do = "add_policy_group" => op.name # Direct
       /\ op.do = "patch_group" => op.new # Direct
       /\ op.do = "restore" /\ "model" \in DOMAIN op.data =>
            Direct \notin OutTags(op.data.model) \cup GroupNames(op.data.model)

(* A request that got past its early answer.                               *)
Asked(op) ==
  /\ WellFormedRequest(op)
  /\ op.do \in {"rename_exit", "set_direct_tag"} => op.tag # Direct /\ op.new # Direct
  /\ op.do = "delete_exit" => op.tag # Direct
  /\ op.do \in {"add_group", "add_policy_group", "patch_group", "delete_group"} =>
       op.name # Direct
  /\ op.do = "patch_group" => op.new # Direct
  /\ op.do = "restore" => RestoreEarly(op) /\ Plain(op.data.model)

(* A rule set is none of the four other files.                             *)
LEMMA NoRuleSetFiles ==
  \A f \in {"model", "meta", "direct", "hijack"} : f \notin RuleSet
BY PolicyAssumption

(* A parsed model without the literal among its names is plain.            *)
LEMMA WellFormedPlain ==
  ASSUME NEW m, WellFormed(m), Direct \notin OutTags(m) \cup GroupNames(m)
  PROVE  Plain(m)
<1>1. /\ m.outs \in Seq(ToSet(m.outs)) /\ m.groups \in Seq(ToSet(m.groups))
      /\ {"outs", "groups", "final"} \subseteq DOMAIN m
  BY DEF WellFormed
<1>2. /\ \A o \in ToSet(m.outs) : "tag" \in DOMAIN o
      /\ \A g \in ToSet(m.groups) : {"name", "proxies"} \subseteq DOMAIN g
  BY DEF WellFormed
<1>3. /\ \A o \in ToSet(m.outs) : o.tag # Direct
      /\ \A g \in ToSet(m.groups) : g.name # Direct
  BY DEF OutTags, GroupNames, ToSet
<1>4. QED
  BY <1>1, <1>2, <1>3 DEF Plain, IsList

(* Replacing exits in rulesets.json moves no rule set to or from the       *)
(* literal.                                                                *)
LEMMA MetaToFacts ==
  ASSUME NEW meta, Listing(meta), NEW S, NEW x
  PROVE  /\ Listing(MetaTo(meta, S, x))
         /\ Direct \notin S /\ x # Direct => SameWay(meta, MetaTo(meta, S, x))
BY DEF Listing, SameWay, MetaTo

(* A change of the model together with another one.                        *)
LEMMA ModelAnd ==
  ASSUME NEW x, NEW g
  PROVE  /\ DOMAIN ModelOnly(x) = {"model"} /\ ModelOnly(x).model = x
         /\ DOMAIN And(ModelOnly(x), g) = {"model"} \cup DOMAIN g
         /\ And(ModelOnly(x), g).model = x
         /\ "meta" \in DOMAIN g => And(ModelOnly(x), g).meta = g.meta
BY DEF And, ModelOnly

(* A change of the model, or of the two lists, or of both.                 *)
LEMMA ModelFits ==
  ASSUME NEW op, NEW s, NEW x, Plain(x), NEW g, DOMAIN g \subseteq {"direct", "hijack"}
  PROVE  /\ Fits(op, s, ModelOnly(x))
         /\ Fits(op, s, And(ModelOnly(x), g))
         /\ Fits(op, s, g)
<1>1. /\ DOMAIN ModelOnly(x) = {"model"} /\ ModelOnly(x).model = x
  BY DEF ModelOnly
<1>2. /\ DOMAIN And(ModelOnly(x), g) = {"model"} \cup DOMAIN g
      /\ And(ModelOnly(x), g).model = x
  BY ModelAnd
<1>3. QED
  BY <1>1, <1>2, NoRuleSetFiles DEF Fits

(* A change of the model with targets replaced in rulesets.json.           *)
LEMMA ModelMetaFits ==
  ASSUME NEW op, NEW s, NEW x, Plain(x), "meta" \in Reads(op), Listing(s.meta),
         NEW S, NEW y, Direct \notin S, y # Direct
  PROVE  Fits(op, s, And(ModelOnly(x), IfDirty(s.meta, MetaTo(s.meta, S, y))))
<1> DEFINE new == MetaTo(s.meta, S, y)
           g == IfDirty(s.meta, new)
<1>1. /\ DOMAIN ModelOnly(x) = {"model"} /\ ModelOnly(x).model = x
  BY DEF ModelOnly
<1>2. /\ DOMAIN g \subseteq {"meta"}
      /\ "meta" \in DOMAIN g => g.meta = new
  BY DEF IfDirty, NoFiles
<1>3. Listing(new) /\ SameWay(s.meta, new)
  BY MetaToFacts
<1> HIDE DEF g, new
<1>4. /\ DOMAIN And(ModelOnly(x), g) = {"model"} \cup DOMAIN g
      /\ And(ModelOnly(x), g).model = x
      /\ "meta" \in DOMAIN g => And(ModelOnly(x), g).meta = new
  BY <1>2, ModelAnd
<1>5. Fits(op, s, And(ModelOnly(x), g))
  BY <1>2, <1>3, <1>4, NoRuleSetFiles DEF Fits
<1>6. QED
  BY <1>5 DEF g, new

(* A change of the rule sets: the aggregates are derived.                  *)
LEMMA SetFits ==
  ASSUME NEW op, op.do \in RuleSetOps \cup {"restore"}, NEW s, NEW x, Plain(x),
         NEW g, "meta" \in DOMAIN g, Listing(g.meta)
  PROVE  Fits(op, s, And(ModelOnly(x), g))
<1>1. /\ DOMAIN ModelOnly(x) = {"model"} /\ ModelOnly(x).model = x
  BY DEF ModelOnly
<1>2. /\ DOMAIN And(ModelOnly(x), g) = {"model"} \cup DOMAIN g
      /\ And(ModelOnly(x), g).model = x
      /\ And(ModelOnly(x), g).meta = g.meta
  BY ModelAnd
<1>3. QED
  BY <1>1, <1>2 DEF Fits, RuleSetDirect

(* No change at all.                                                       *)
LEMMA NoFilesFit == \A op, s : Fits(op, s, NoFiles)
BY DEF Fits, NoFiles

-----------------------------------------------------------------------------
(* Targets depend on outbounds and groups only.                            *)
LEMMA SameTags ==
  ASSUME NEW m, NEW n, SameLists(m, n)
  PROVE  RoutableTags(n) = RoutableTags(m) /\ Routable(n) = Routable(m)
BY DEF SameLists, RoutableTags, Routable

(* The head of a list that is not empty is its first element.              *)
LEMMA HeadIs ==
  ASSUME NEW s, IsList(s), ToSet(s) # {}
  PROVE  1 \in DOMAIN s /\ Head(s) = s[1]
<1>1. s \in Seq(ToSet(s)) /\ Len(s) \in Nat /\ DOMAIN s = 1..Len(s)
  BY DEF IsList
<1>2. PICK i : i \in DOMAIN s
  BY DEF ToSet
<1>3. Len(s) # 0
  BY <1>1, <1>2
<1>4. QED
  BY <1>1, <1>3

(* The fallback of a deletion is an exit or a group.                       *)
LEMMA FallbackIs ==
  ASSUME NEW m, Plain(m), NEW S, Valid(Retarget(Without(m, S), Fallback(m, S)))
  PROVE  Fallback(m, S) # Direct
<1> DEFINE n == Without(m, S)
<1>1. Plain(n)
  BY WithoutPlain
<1>2. SameLists(n, Retarget(n, Fallback(m, S)))
  BY <1>1, RuleEdits
<1>3. Routable(Retarget(n, Fallback(m, S))) = Routable(n)
  BY <1>2, SameTags
<1>4. Routable(n) # {}
  BY <1>3 DEF Valid
<1>5. /\ IsList(RoutableTags(n))
      /\ \A i \in DOMAIN RoutableTags(n) : RoutableTags(n)[i] # Direct
  BY <1>1, PlainTargets
<1>6. ToSet(RoutableTags(n)) # {}
  BY <1>4 DEF Routable
<1>7. 1 \in DOMAIN RoutableTags(n) /\ Head(RoutableTags(n)) = RoutableTags(n)[1]
  BY <1>5, <1>6, HeadIs
<1>8. QED
  BY <1>5, <1>7 DEF Fallback

(* Deletions remove exits and groups only.                                 *)
LEMMA CascadeIs ==
  ASSUME NEW m, Plain(m), NEW x, x # Direct
  PROVE  Direct \notin Cascade(m, {x})
<1>1. Cascade(m, {x}) \subseteq {x} \cup GroupNames(m)
  BY DEF Cascade
<1>2. Direct \notin GroupNames(m)
  BY PlainTargets
<1>3. QED
  BY <1>1, <1>2

(* What a handler that renames or deletes reads.                           *)
LEMMA ReadsMeta ==
  ASSUME NEW op
  PROVE  /\ op.do \in {"rename_exit", "set_direct_tag", "delete_exit", "web_delete_exit",
                       "patch_group", "delete_group", "set_ruleset_label"} \cup RuleSetOps
              => "meta" \in Reads(op)
         /\ op.do = "restore" => {"model", "meta"} \subseteq Reads(op)
<1>1. CASE op.do \in {"add_direct", "del_rule", "del_rules_bulk", "patch_rule"}
  BY <1>1 DEF RuleSetOps
<1>2. CASE op.do \in {"add_rule", "web_add_rule"}
  BY <1>2 DEF RuleSetOps
<1>3. CASE /\ ~(op.do \in {"add_direct", "del_rule", "del_rules_bulk", "patch_rule"})
           /\ ~(op.do \in {"add_rule", "web_add_rule"})
  <2>1. ASSUME op.do \in {"rename_exit", "set_direct_tag", "delete_exit", "web_delete_exit",
                          "patch_group", "delete_group", "set_ruleset_label"} \cup RuleSetOps
        PROVE  "meta" \in Reads(op)
    <3>1. Reads(op) = {"meta"}
      BY <1>3, <2>1 DEF Reads, RuleSetOps
    <3>2. QED
      BY <3>1
  <2>2. ASSUME op.do = "restore"
        PROVE  {"model", "meta"} \subseteq Reads(op)
    <3>1. Reads(op) = {"model", "meta"}
      BY <2>2 DEF Reads, RuleSetOps
    <3>2. QED
      BY <3>1
  <2>3. QED
    BY <2>1, <2>2
<1>4. QED
  BY <1>1, <1>2, <1>3

-----------------------------------------------------------------------------
(* The exits.                                                              *)
LEMMA ReorderPlain ==
  ASSUME NEW op, op.order \in Seq(ToSet(op.order)), NEW s, NEW m, Plain(m)
  PROVE  Fits(op, s, ReorderExits(op, m))
<1> DEFINE I == {i \in DOMAIN op.order : op.order[i] \in OutTags(m)}
           ranked == Those(op.order, I)
           Out(t) == CHOOSE o \in ToSet(m.outs) : o.tag = t
           outs == [i \in DOMAIN ranked |-> Out(ranked[i])]
           n == [m EXCEPT !.outs = outs]
<1>1. I \in SUBSET DOMAIN op.order /\ IsList(op.order)
  BY DEF IsList
<1>2. IsList(ranked) /\ \A k \in DOMAIN ranked : \E i \in I : ranked[k] = op.order[i]
  <2> HIDE DEF I
  <2>1. QED
    BY <1>1, ThoseIsList
<1>3. \A k \in DOMAIN ranked : ranked[k] \in OutTags(m)
  BY <1>2
<1>4. \A t \in OutTags(m) : Out(t) \in ToSet(m.outs)
  BY DEF OutTags, ToSet
<1>5. /\ {"outs", "groups", "final"} \subseteq DOMAIN m
      /\ IsList(m.groups)
      /\ \A o \in ToSet(m.outs) : PlainOut(o)
      /\ \A i \in DOMAIN m.groups : PlainGroup(m.groups[i])
  <2>1. \A o \in ToSet(m.outs) : PlainOut(o)
    BY DEF Plain, PlainOut
  <2>2. QED
    BY <2>1, PlainIff
<1>6. \A k \in DOMAIN outs : PlainOut(outs[k])
  BY <1>3, <1>4, <1>5, ZenonT(60)
<1>7. outs = [i \in DOMAIN ranked |-> outs[i]]
  OBVIOUS
<1> HIDE DEF ranked
<1>8. IsList(outs)
  <2> HIDE DEF outs
  <2>1. QED
    BY <1>2, <1>7, MapIsList
<1> HIDE DEF outs
<1>9. Plain(n)
  <2>1. n.outs = outs /\ n.groups = m.groups /\ DOMAIN n = DOMAIN m
    BY <1>5
  <2> HIDE DEF n
  <2>2. QED
    BY <1>5, <1>6, <1>8, <2>1, PlainIff
<1>10. Fits(op, s, ModelOnly(n))
  <2> HIDE DEF n
  <2>1. DOMAIN NoFiles \subseteq {"direct", "hijack"}
    BY DEF NoFiles
  <2>2. QED
    BY <1>9, <2>1, ModelFits
<1>11. ReorderExits(op, m) = NoFiles \/ ReorderExits(op, m) = ModelOnly(n)
  BY DEF ReorderExits, n, outs, ranked
<1>12. QED
  BY <1>10, <1>11, NoFilesFit

(* rename_exit and set_direct_tag.                                         *)
LEMMA RenameFits ==
  ASSUME NEW op, op.do \in {"rename_exit", "set_direct_tag"}, Asked(op),
         NEW s, Listing(s.meta), NEW m, Plain(m)
  PROVE  Fits(op, s, RenameExit(op, s, m))
<1>1. op.tag # Direct /\ op.new # Direct
  BY DEF Asked
<1>2. Plain(Rename(m, op.tag, op.new))
  BY <1>1, RenamePlain
<1>3. "meta" \in Reads(op) /\ Direct \notin {op.tag}
  BY <1>1, ReadsMeta
<1>4. QED
  BY <1>1, <1>2, <1>3, ModelMetaFits DEF RenameExit

(* delete_exit of the bot: the fallback is there because the result is     *)
(* valid.                                                                  *)
LEMMA DeleteFits ==
  ASSUME NEW op, op.do = "delete_exit", Asked(op), NEW s, Listing(s.meta),
         NEW m, Plain(m), Valid(DeleteExit(op, s, m).model)
  PROVE  Fits(op, s, DeleteExit(op, s, m))
<1> DEFINE fallback == Fallback(m, {op.tag})
           n == Retarget(Without(m, {op.tag}), fallback)
<1>1. op.tag # Direct
  BY DEF Asked
<1>2. Plain(n)
  <2>1. Plain(Without(m, {op.tag}))
    BY WithoutPlain
  <2>2. SameLists(Without(m, {op.tag}), n)
    BY <2>1, RuleEdits
  <2>3. QED
    BY <2>1, <2>2, SameListsPlain
<1>3. DeleteExit(op, s, m) =
        And(ModelOnly(n), IfDirty(s.meta, MetaTo(s.meta, Cascade(m, {op.tag}), fallback)))
  BY DEF DeleteExit
<1>4. Valid(n)
  <2> HIDE DEF n, fallback
  <2>1. PICK g : DeleteExit(op, s, m) = And(ModelOnly(n), g)
    BY <1>3, Zenon
  <2>2. And(ModelOnly(n), g).model = n
    BY ModelAnd
  <2>3. QED
    BY <2>1, <2>2
<1>5. fallback # Direct
  BY <1>4, FallbackIs
<1>6. Direct \notin Cascade(m, {op.tag})
  BY <1>1, CascadeIs
<1>7. "meta" \in Reads(op)
  BY ReadsMeta
<1> HIDE DEF n, fallback
<1>8. QED
  BY <1>2, <1>3, <1>5, <1>6, <1>7, ModelMetaFits

(* delete_exit of the web: the same of the default of the result.          *)
LEMMA WebDeleteFits ==
  ASSUME NEW op, op.do = "web_delete_exit", NEW s, Listing(s.meta), NEW m, Plain(m),
         "model" \in DOMAIN WebDeleteExit(op, s, m) => Valid(WebDeleteExit(op, s, m).model)
  PROVE  Fits(op, s, WebDeleteExit(op, s, m))
<1>1. CASE op.tag \notin Proxies(m)
  BY <1>1, NoFilesFit DEF WebDeleteExit
<1>2. CASE op.tag \in Proxies(m)
  <2> DEFINE n == DeleteOutbound(m, op.tag)
             dead == {s.meta[r].to : r \in DOMAIN s.meta} \ (Routable(n) \cup {Direct})
  <2>1. WebDeleteExit(op, s, m) =
          And(ModelOnly(n), IfDirty(s.meta, MetaTo(s.meta, dead, n.final)))
    BY <1>2 DEF WebDeleteExit
  <2>2. Plain(n)
    BY DeleteOutboundPlain
  <2>3. n.final # Direct
    <3>1. "model" \in DOMAIN WebDeleteExit(op, s, m) /\ WebDeleteExit(op, s, m).model = n
      <4> HIDE DEF n, dead
      <4>1. PICK g : WebDeleteExit(op, s, m) = And(ModelOnly(n), g)
        BY <2>1, Zenon
      <4>2. /\ DOMAIN And(ModelOnly(n), g) = {"model"} \cup DOMAIN g
            /\ And(ModelOnly(n), g).model = n
        BY ModelAnd
      <4>3. QED
        BY <4>1, <4>2
    <3>2. n.final \in Routable(n)
      BY <3>1 DEF Valid
    <3>3. QED
      BY <2>2, <3>2, PlainTargets
  <2>4. Direct \notin dead
    OBVIOUS
  <2>5. "meta" \in Reads(op)
    BY ReadsMeta
  <2> HIDE DEF n, dead
  <2>6. QED
    BY <2>1, <2>2, <2>3, <2>4, <2>5, ModelMetaFits
<1>3. QED
  BY <1>1, <1>2

(* add_exit.                                                               *)
LEMMA AddExitFits ==
  ASSUME NEW op, op.tag # Direct, NEW s, NEW m, Plain(m)
  PROVE  Fits(op, s, AddExit(op, m))
<1> DEFINE x == [tag |-> op.tag, type |-> "proxy", link |-> op.link]
           n == [m EXCEPT !.outs = Append(@, x)]
<1>1. PlainOut(x)
  BY DEF PlainOut
<1>2. Plain(n)
  <2> HIDE DEF x
  <2>1. QED
    BY <1>1, AppendPlain
<1>3. AddExit(op, m) = NoFiles \/ AddExit(op, m) = ModelOnly(n)
  BY DEF AddExit
<1> HIDE DEF n
<1>4. DOMAIN NoFiles \subseteq {"direct", "hijack"}
  BY DEF NoFiles
<1>5. QED
  BY <1>2, <1>3, <1>4, ModelFits, NoFilesFit

(* replace_exit.                                                           *)
LEMMA ReplaceExitFits ==
  ASSUME NEW op, NEW s, NEW m, Plain(m)
  PROVE  Fits(op, s, ReplaceExit(op, m))
<1> DEFINE n == [m EXCEPT !.outs = [i \in DOMAIN m.outs |->
         IF m.outs[i].tag = op.tag THEN [m.outs[i] EXCEPT !.link = op.link] ELSE m.outs[i]]]
<1>1. ReplaceExit(op, m) = NoFiles \/ ReplaceExit(op, m) = ModelOnly(n)
  BY DEF ReplaceExit
<1>2. /\ {"outs", "groups", "final"} \subseteq DOMAIN m
      /\ IsList(m.outs) /\ IsList(m.groups)
      /\ \A i \in DOMAIN m.outs : PlainOut(m.outs[i])
      /\ \A i \in DOMAIN m.groups : PlainGroup(m.groups[i])
  BY PlainIff
<1>3. /\ DOMAIN n = DOMAIN m /\ n.groups = m.groups
      /\ n.outs = [i \in DOMAIN m.outs |->
           IF m.outs[i].tag = op.tag THEN [m.outs[i] EXCEPT !.link = op.link] ELSE m.outs[i]]
  BY <1>2
<1> HIDE DEF n
<1>4. \A i \in DOMAIN m.outs : PlainOut(n.outs[i])
  BY <1>2, <1>3 DEF PlainOut
<1>5. m.groups = [i \in DOMAIN m.groups |-> m.groups[i]]
  BY <1>2, ListIs
<1>6. Plain(n)
  <2>1. /\ n.outs = [i \in DOMAIN m.outs |-> n.outs[i]]
        /\ n.groups = [i \in DOMAIN m.groups |-> n.groups[i]]
    BY <1>3, <1>5
  <2>2. \A i \in DOMAIN m.groups : PlainGroup(n.groups[i])
    BY <1>2, <1>3
  <2>3. QED
    BY <1>3, <1>4, <2>1, <2>2, MapPlain
<1>7. DOMAIN NoFiles \subseteq {"direct", "hijack"}
  BY DEF NoFiles
<1>8. QED
  BY <1>1, <1>6, <1>7, ModelFits, NoFilesFit

(* The groups.                                                             *)

(* A model that differs from m in the entries of its groups.               *)
LEMMA GroupsPlain ==
  ASSUME NEW m, Plain(m), NEW gs, gs = [i \in DOMAIN m.groups |-> gs[i]],
         \A i \in DOMAIN m.groups : PlainGroup(gs[i])
  PROVE  Plain([m EXCEPT !.groups = gs])
<1> DEFINE n == [m EXCEPT !.groups = gs]
<1>1. /\ {"outs", "groups", "final"} \subseteq DOMAIN m
      /\ IsList(m.outs)
      /\ \A i \in DOMAIN m.outs : PlainOut(m.outs[i])
  BY PlainIff
<1>2. DOMAIN n = DOMAIN m /\ n.outs = m.outs /\ n.groups = gs
  BY <1>1
<1> HIDE DEF n
<1>3. m.outs = [i \in DOMAIN m.outs |-> m.outs[i]]
  BY <1>1, ListIs
<1>4. /\ n.outs = [i \in DOMAIN m.outs |-> n.outs[i]]
      /\ n.groups = [i \in DOMAIN m.groups |-> n.groups[i]]
  BY <1>2, <1>3
<1>5. /\ \A i \in DOMAIN m.outs : PlainOut(n.outs[i])
      /\ \A i \in DOMAIN m.groups : PlainGroup(n.groups[i])
  BY <1>1, <1>2
<1>6. Plain(n)
  BY <1>2, <1>4, <1>5, MapPlain
<1>7. QED
  BY <1>6 DEF n

(* add_group of the bot.                                                   *)
LEMMA AddGroupFits ==
  ASSUME NEW op, op.name # Direct, NEW s, NEW m, Plain(m)
  PROVE  Fits(op, s, AddGroup(op, m))
<1> DEFINE gs == [i \in DOMAIN m.groups |->
              IF m.groups[i].name = op.name THEN [m.groups[i] EXCEPT !.proxies = op.members]
                                            ELSE m.groups[i]]
           old == [m EXCEPT !.groups = gs]
           x == [name |-> op.name, proxies |-> op.members, use |-> FALSE]
           new == [m EXCEPT !.groups = Append(@, x)]
<1>1. Plain(old)
  <2>1. \A i \in DOMAIN m.groups : PlainGroup(m.groups[i])
    BY PlainIff
  <2>2. \A i \in DOMAIN m.groups : PlainGroup(gs[i])
    BY <2>1 DEF PlainGroup
  <2>3. gs = [i \in DOMAIN m.groups |-> gs[i]]
    OBVIOUS
  <2> HIDE DEF gs
  <2>4. QED
    BY <2>2, <2>3, GroupsPlain
<1>2. Plain(new)
  <2>1. PlainGroup(x)
    BY DEF PlainGroup
  <2> HIDE DEF x
  <2>2. QED
    BY <2>1, AppendPlain
<1>3. AddGroup(op, m) = ModelOnly(old) \/ AddGroup(op, m) = ModelOnly(new)
  BY DEF AddGroup
<1>4. DOMAIN NoFiles \subseteq {"direct", "hijack"}
  BY DEF NoFiles
<1> HIDE DEF old, new
<1>5. QED
  BY <1>1, <1>2, <1>3, <1>4, ModelFits

(* add_policy_group of the web.                                            *)
LEMMA AddPolicyGroupFits ==
  ASSUME NEW op, op.name # Direct, NEW s, NEW m, Plain(m)
  PROVE  Fits(op, s, AddPolicyGroup(op, m))
<1> DEFINE x == [name |-> op.name, proxies |-> op.members, use |-> op.use]
           new == [m EXCEPT !.groups = Append(@, x)]
<1>1. Plain(new)
  <2>1. PlainGroup(x)
    BY DEF PlainGroup
  <2> HIDE DEF x
  <2>2. QED
    BY <2>1, AppendPlain
<1>2. AddPolicyGroup(op, m) = NoFiles \/ AddPolicyGroup(op, m) = ModelOnly(new)
  BY DEF AddPolicyGroup
<1>3. DOMAIN NoFiles \subseteq {"direct", "hijack"}
  BY DEF NoFiles
<1> HIDE DEF new
<1>4. QED
  BY <1>1, <1>2, <1>3, ModelFits, NoFilesFit

(* patch_group: a new name, new members, or both.                          *)
LEMMA PatchGroupFits ==
  ASSUME NEW op, op.do = "patch_group", Asked(op), NEW s, Listing(s.meta),
         NEW m, Plain(m)
  PROVE  Fits(op, s, PatchGroup(op, s, m))
<1> DEFINE n == RenameReferences(m, op.name, op.new)
           x == [name |-> op.new, proxies |-> op.members, use |-> op.use]
           gs == [i \in DOMAIN n.groups |-> IF n.groups[i].name = op.new THEN x
                                                                        ELSE n.groups[i]]
           o == [n EXCEPT !.groups = gs]
<1>1. op.name # Direct /\ op.new # Direct
  BY DEF Asked
<1>2. Plain(n)
  BY <1>1, RenamePlain
<1>3. PlainGroup(x)
  BY <1>1 DEF PlainGroup
<1>4. PatchGroup(op, s, m) = NoFiles
      \/ PatchGroup(op, s, m)
           = And(ModelOnly(o), IfDirty(s.meta, MetaTo(s.meta, {op.name}, op.new)))
  BY DEF PatchGroup
<1> HIDE DEF n, x
<1>5. \A i \in DOMAIN n.groups : PlainGroup(gs[i])
  <2>1. \A i \in DOMAIN n.groups : PlainGroup(n.groups[i])
    BY <1>2, PlainIff
  <2>2. QED
    BY <1>3, <2>1
<1>6. gs = [i \in DOMAIN n.groups |-> gs[i]]
  OBVIOUS
<1> HIDE DEF gs
<1>7. Plain(o)
  BY <1>2, <1>5, <1>6, GroupsPlain
<1>8. "meta" \in Reads(op) /\ Direct \notin {op.name}
  BY <1>1, ReadsMeta
<1> HIDE DEF o
<1>9. Fits(op, s, And(ModelOnly(o), IfDirty(s.meta, MetaTo(s.meta, {op.name}, op.new))))
  BY <1>1, <1>7, <1>8, ModelMetaFits
<1>10. QED
  BY <1>4, <1>9, NoFilesFit

(* delete_group: its fallback is a target that is left.                    *)
LEMMA DeleteGroupFits ==
  ASSUME NEW op, op.do = "delete_group", Asked(op), NEW s, Listing(s.meta),
         NEW m, Plain(m)
  PROVE  Fits(op, s, DeleteGroup(op, s, m))
<1> DEFINE removed == Cascade(m, {op.name})
           all == RoutableTags(m)
           I == {i \in DOMAIN all : all[i] \notin removed}
           left == Those(all, I)
           n == Retarget(Without(m, {op.name}), left[1])
<1>1. op.name # Direct
  BY DEF Asked
<1>2. Direct \notin removed
  BY <1>1, CascadeIs
<1>3. IsList(all) /\ \A i \in DOMAIN all : all[i] # Direct
  BY PlainTargets
<1>4. /\ IsList(left)
      /\ \A k \in DOMAIN left : \E i \in I : left[k] = all[i]
  <2>1. I \in SUBSET DOMAIN all
    OBVIOUS
  <2> HIDE DEF I, all
  <2>2. QED
    BY <1>3, <2>1, ThoseIsList
<1>5. Plain(n)
  <2>1. Plain(Without(m, {op.name}))
    BY WithoutPlain
  <2>2. SameLists(Without(m, {op.name}), n)
    BY <2>1, RuleEdits
  <2>3. QED
    BY <2>1, <2>2, SameListsPlain
<1>6. DeleteGroup(op, s, m) =
        IF left = <<>> THEN NoFiles
        ELSE And(ModelOnly(n), IfDirty(s.meta, MetaTo(s.meta, removed, left[1])))
  BY DEF DeleteGroup
<1>7. "meta" \in Reads(op)
  BY ReadsMeta
<1> HIDE DEF n, removed
<1>8. CASE left = <<>>
  BY <1>6, <1>8, NoFilesFit
<1>9. CASE left # <<>>
  <2>1. left[1] # Direct
    <3> HIDE DEF left
    <3>1. 1 \in DOMAIN left
      <4>1. left \in Seq(ToSet(left)) /\ DOMAIN left = 1..Len(left) /\ Len(left) \in Nat
        BY <1>4, ListIs DEF IsList
      <4>2. Len(left) # 0
        BY <1>9, <4>1
      <4>3. QED
        BY <4>1, <4>2
    <3>2. QED
      BY <1>3, <1>4, <3>1
  <2> HIDE DEF left
  <2>2. QED
    BY <1>2, <1>5, <1>6, <1>7, <1>9, <2>1, ModelMetaFits
<1>10. QED
  BY <1>8, <1>9

(* The rules.                                                              *)
LEMMA RulesFit ==
  ASSUME NEW op, NEW s, NEW m, Plain(m), NEW ruled
  PROVE  /\ Fits(op, s, AddDirectRule(op, s))
         /\ Fits(op, s, AddRule(op, s, m))
         /\ Fits(op, s, DelRule(op, s, m, ruled))
         /\ Fits(op, s, DelRulesBulk(op, s, m))
         /\ Fits(op, s, PatchRule(op, s, m))
         /\ Fits(op, s, ReassignRule(op, m))
         /\ Fits(op, s, SetDefaultExit(op, m))
         /\ Fits(op, s, SetTgExit(op, m))
<1>1. \A d, h : DOMAIN Both(d, h) \subseteq {"direct", "hijack"}
  BY DEF Both
<1>2. \A d, h : Fits(op, s, Both(d, h))
  BY <1>1, ModelFits
<1>3. ASSUME NEW x, SameLists(m, x)
      PROVE  /\ Fits(op, s, ModelOnly(x))
             /\ \A g : DOMAIN g \subseteq {"direct", "hijack"} =>
                         Fits(op, s, And(ModelOnly(x), g))
  <2>1. Plain(x)
    BY <1>3, SameListsPlain
  <2>2. DOMAIN NoFiles \subseteq {"direct", "hijack"}
    BY DEF NoFiles
  <2>3. QED
    BY <2>1, <2>2, ModelFits
<1>4. Fits(op, s, AddDirectRule(op, s))
  BY <1>2 DEF AddDirectRule
<1>5. Fits(op, s, AddRule(op, s, m))
  <2>1. SameLists(m, AddDomain(m, op.dom, op.to))
    BY RuleEdits
  <2>2. DOMAIN [f \in {"hijack"} |-> s.hijack \cup {op.dom}] \subseteq {"direct", "hijack"}
    OBVIOUS
  <2>3. QED
    BY <1>3, <2>1, <2>2, Zenon DEF AddRule
<1>6. \A ds : SameLists(m, DropDomains(m, ds))
  BY RuleEdits
<1>7. Fits(op, s, DelRule(op, s, m, ruled))
  BY <1>1, <1>2, <1>3, <1>6, NoFilesFit, Zenon DEF DelRule
<1>8. Fits(op, s, DelRulesBulk(op, s, m))
  BY <1>1, <1>3, <1>6, Zenon DEF DelRulesBulk
<1>9. Fits(op, s, PatchRule(op, s, m))
  <2>1. SameLists(m, MoveDomain(m, op.dom, op.to))
    BY RuleEdits
  <2>2. QED
    BY <1>1, <1>3, <2>1, NoFilesFit, Zenon DEF PatchRule
<1>10. Fits(op, s, ReassignRule(op, m))
  <2>1. SameLists(m, Reassign(m, op.idx, op.to))
    BY RuleEdits
  <2>2. QED
    BY <1>3, <2>1, NoFilesFit, Zenon DEF ReassignRule
<1>11. Fits(op, s, SetDefaultExit(op, m))
  <2>1. SameLists(m, [m EXCEPT !.final = op.to])
    BY RuleEdits
  <2>2. QED
    BY <1>3, <2>1, NoFilesFit, Zenon DEF SetDefaultExit
<1>12. Fits(op, s, SetTgExit(op, m))
  <2>1. SameLists(m, PinTelegram(m, op.to))
    BY RuleEdits
  <2>2. QED
    BY <1>3, <2>1, Zenon DEF SetTgExit
<1>13. QED
  BY <1>4, <1>5, <1>7, <1>8, <1>9, <1>10, <1>11, <1>12

(* The rule sets.                                                          *)
LEMMA SetsFit ==
  ASSUME NEW op, op.do \in RuleSetOps, WellFormedRequest(op), NEW s, Listing(s.meta),
         NEW m, Plain(m)
  PROVE  /\ op.do = "add_ruleset" => Fits(op, s, AddRuleSet(op, s, m))
         /\ Fits(op, s, TargetRuleSet(op, s, m))
         /\ op.do = "del_ruleset" => Fits(op, s, DelRuleSet(op, s, m))
         /\ Fits(op, s, RefreshRuleSets(op, s, m))
<1>1. ASSUME NEW x, SameLists(m, x), NEW g, "meta" \in DOMAIN g, Listing(g.meta)
      PROVE  Fits(op, s, And(ModelOnly(x), g))
  <2>1. Plain(x)
    BY <1>1, SameListsPlain
  <2>2. QED
    BY <1>1, <2>1, SetFits
<1>2. ASSUME op.do = "add_ruleset" PROVE Fits(op, s, AddRuleSet(op, s, m))
  <2> DEFINE new == [to |-> op.to, label |-> FALSE]
             listed == [r \in DOMAIN s.meta \cup {op.set} |->
                          IF r = op.set THEN new ELSE s.meta[r]]
             g == [f \in {"meta", op.set} |-> IF f = "meta" THEN listed ELSE op.got]
  <2>1. op.set \in RuleSet
    BY <1>2 DEF WellFormedRequest
  <2>2. Listing(listed)
    BY <2>1 DEF Listing
  <2>3. "meta" \in DOMAIN g /\ g.meta = listed
    OBVIOUS
  <2>4. SameLists(m, AddSet(m, op.set, op.to))
    BY RuleEdits
  <2>5. AddRuleSet(op, s, m) = And(ModelOnly(AddSet(m, op.set, op.to)), g)
    BY DEF AddRuleSet
  <2> HIDE DEF g, listed
  <2>6. QED
    BY <1>1, <2>2, <2>3, <2>4, <2>5
<1>3. Fits(op, s, TargetRuleSet(op, s, m))
  <2> DEFINE listed == [s.meta EXCEPT ![op.set].to = op.to]
             g == [f \in {"meta"} |-> listed]
  <2>1. Listing(listed)
    BY DEF Listing
  <2>2. "meta" \in DOMAIN g /\ g.meta = listed
    OBVIOUS
  <2>3. SameLists(m, TargetSet(m, op.set, op.to))
    BY RuleEdits
  <2>4. \/ TargetRuleSet(op, s, m) = NoFiles
        \/ TargetRuleSet(op, s, m) = And(ModelOnly(TargetSet(m, op.set, op.to)), g)
    BY DEF TargetRuleSet
  <2> HIDE DEF g, listed
  <2>5. QED
    BY <1>1, <2>1, <2>2, <2>3, <2>4, NoFilesFit
<1>4. ASSUME op.do = "del_ruleset" PROVE Fits(op, s, DelRuleSet(op, s, m))
  <2> DEFINE listed == [r \in DOMAIN s.meta \ {op.set} |-> s.meta[r]]
             g == [f \in {"meta", op.set} |-> IF f = "meta" THEN listed ELSE Missing]
  <2>1. Listing(listed)
    BY DEF Listing
  <2>2. "meta" \in DOMAIN g /\ g.meta = listed
    OBVIOUS
  <2>3. SameLists(m, DropSet(m, op.set))
    BY RuleEdits
  <2>4. DelRuleSet(op, s, m) = And(ModelOnly(DropSet(m, op.set)), g)
    BY DEF DelRuleSet
  <2> HIDE DEF g, listed
  <2>5. QED
    BY <1>1, <2>1, <2>2, <2>3, <2>4
<1>5. Fits(op, s, RefreshRuleSets(op, s, m))
  <2> DEFINE fresh == op.sets \cap DOMAIN s.meta
             g == [f \in fresh \cup {"meta"} |-> IF f = "meta" THEN s.meta ELSE op.got]
  <2>1. "meta" \in DOMAIN g /\ g.meta = s.meta
    OBVIOUS
  <2>2. SameLists(m, m)
    BY DEF SameLists
  <2>3. \/ RefreshRuleSets(op, s, m) = NoFiles
        \/ RefreshRuleSets(op, s, m) = And(ModelOnly(m), g)
    BY DEF RefreshRuleSets
  <2> HIDE DEF g
  <2>4. QED
    BY <1>1, <2>1, <2>2, <2>3, NoFilesFit
<1>6. QED
  BY <1>2, <1>3, <1>4, <1>5

(* set_ruleset_label.                                                      *)
LEMMA LabelFits ==
  ASSUME NEW op, op.do = "set_ruleset_label", NEW s, Listing(s.meta)
  PROVE  Fits(op, s, LabelRuleSet(op, s))
<1> DEFINE new == [s.meta EXCEPT ![op.set] = [to |-> @.to, label |-> TRUE]]
           g == [f \in {"meta"} |-> new]
<1>1. Listing(new) /\ SameWay(s.meta, new)
  BY DEF Listing, SameWay
<1>2. DOMAIN g = {"meta"} /\ g.meta = new
  OBVIOUS
<1>3. LabelRuleSet(op, s) = NoFiles \/ LabelRuleSet(op, s) = g
  BY DEF LabelRuleSet
<1>4. "meta" \in Reads(op)
  BY ReadsMeta
<1> HIDE DEF g, new
<1>5. Fits(op, s, g)
  BY <1>1, <1>2, <1>4, NoRuleSetFiles DEF Fits
<1>6. QED
  BY <1>3, <1>5, NoFilesFit

(* A restore: with or without rulesets.json in the archive.                *)
LEMMA RestoreFits ==
  ASSUME NEW op, op.do = "restore", Asked(op), NEW s, Listing(s.meta),
         TheDirect(s.model) # Direct
  PROVE  Fits(op, s, Restore(op, s))
<1> DEFINE data == op.data
           x == RestoredModel(s, data)
           g == RestoredFiles(s, data)
           a == [f \in DOMAIN data \cap {"direct", "hijack"} |-> data[f]]
<1>1. Plain(x)
  <2>1. Plain(data.model)
    BY DEF Asked
  <2>2. QED
    BY <2>1, RenamePlain DEF RestoredModel
<1>2. Restore(op, s) = And(ModelOnly(x), g)
  BY DEF Restore
<1>3. DOMAIN a \subseteq {"direct", "hijack"}
  OBVIOUS
<1>4. "meta" \in DOMAIN g => Listing(g.meta)
  <2>1. CASE "meta" \in DOMAIN data
    <3> DEFINE new == Rebound(s, data, data.meta)
               b == [f \in {"meta"} |-> new]
               c == And(b, RestorePlan(s, data))
    <3>1. Listing(data.meta)
      BY <2>1 DEF Asked, WellFormedRequest, WellFormedMeta, Listing
    <3>2. Listing(new)
      BY <3>1, MetaToFacts DEF Rebound
    <3>3. c.meta = new /\ "meta" \in DOMAIN c
      BY DEF And
    <3>4. g = And(a, c)
      BY <2>1 DEF RestoredFiles
    <3> HIDE DEF a, c, new
    <3>5. And(a, c).meta = c.meta
      BY <1>3, <3>3 DEF And
    <3>6. QED
      BY <3>2, <3>3, <3>4, <3>5
  <2>2. CASE "meta" \notin DOMAIN data
    <3> DEFINE new == Rebound(s, data, s.meta)
               c == IfDirty(s.meta, new)
    <3>1. Listing(new)
      BY MetaToFacts DEF Rebound
    <3>2. "meta" \in DOMAIN c => c.meta = new
      BY DEF IfDirty, NoFiles
    <3>3. g = And(a, c)
      BY <2>2 DEF RestoredFiles
    <3> HIDE DEF a, c, new
    <3>4. "meta" \in DOMAIN And(a, c) => "meta" \in DOMAIN c /\ And(a, c).meta = c.meta
      BY <1>3 DEF And
    <3>5. QED
      BY <3>1, <3>2, <3>3, <3>4
  <2>3. QED
    BY <2>1, <2>2
<1>5. "meta" \notin DOMAIN g => DOMAIN g \subseteq {"direct", "hijack"}
  <2>1. ASSUME "meta" \notin DOMAIN g PROVE DOMAIN g \subseteq {"direct", "hijack"}
    <3>1. "meta" \notin DOMAIN data
      BY <2>1 DEF RestoredFiles, And
    <3>2. g = And(a, IfDirty(s.meta, Rebound(s, data, s.meta)))
      BY <3>1 DEF RestoredFiles
    <3>3. DOMAIN IfDirty(s.meta, Rebound(s, data, s.meta)) \subseteq {"meta"}
      BY DEF IfDirty, NoFiles
    <3> HIDE DEF a
    <3>4. QED
      BY <1>3, <2>1, <3>2, <3>3 DEF And
  <2>2. QED
    BY <2>1
<1> HIDE DEF x, g
<1>6. CASE "meta" \in DOMAIN g
  BY <1>1, <1>2, <1>4, <1>6, SetFits
<1>7. CASE "meta" \notin DOMAIN g
  BY <1>1, <1>2, <1>5, <1>7, ModelFits
<1>8. QED
  BY <1>6, <1>7

-----------------------------------------------------------------------------
(* What an editor has read for its candidate.                              *)
Snapped(c) ==
  /\ "meta" \in Reads(c.op) => Listing(c.files.meta)
  /\ c.op.do = "restore" => TheDirect(c.files.model) # Direct

(* What it has staged: Fits, on a basis that the commit checks.            *)
Ready(c) ==
  /\ "model" \in DOMAIN c.files => Plain(c.files.model)
  /\ "meta" \in DOMAIN c.files => Listing(c.files.meta)
  /\ \/ RuleSetDirect(c.op, c.files)
     \/ /\ DOMAIN c.files \cap RuleSet = {}
        /\ "meta" \in DOMAIN c.files =>
             "meta" \in DOMAIN c.expect /\ SameWay(c.expect.meta, c.files.meta)

(* The inductive invariant of AggregatesAgree, beside IInv.                *)
FInv ==
  /\ RuleSet \subseteq DOMAIN live
  /\ Plain(live.model) /\ Listing(live.meta)
  /\ AggregatesAgree
  /\ \A e \in Editor :
       /\ step[e] # "idle" => Asked(seen[e].op)
       /\ step[e] = "read" => Snapped(seen[e])
       /\ step[e] = "staged" => Ready(seen[e])

(* Whatever is asked, its candidate fits.                                  *)
LEMMA ChangeFits ==
  ASSUME NEW op, Asked(op), NEW s, "meta" \in Reads(op) => Listing(s.meta),
         op.do = "restore" => TheDirect(s.model) # Direct,
         NEW m, Plain(m), NEW ruled,
         "model" \in DOMAIN Change(op, s, m, ruled) => Valid(Change(op, s, m, ruled).model)
  PROVE  Fits(op, s, Change(op, s, m, ruled))
<1> DEFINE C == Change(op, s, m, ruled)
<1>0. WellFormedRequest(op) /\ op.do \in Requests
  BY DEF Asked, WellFormedRequest
<1>1. CASE op.do = "add_direct"
  <2>1. C = AddDirectRule(op, s)
    BY <1>1, Zenon DEF Change
  <2>2. QED
    BY <2>1, RulesFit
<1>2. CASE op.do \in {"add_rule", "web_add_rule"}
  <2>1. C = AddRule(op, s, m)
    BY <1>2, Zenon DEF Change
  <2>2. QED
    BY <2>1, RulesFit
<1>3. CASE op.do = "del_rule"
  <2>1. C = DelRule(op, s, m, ruled)
    BY <1>3, Zenon DEF Change
  <2>2. QED
    BY <2>1, RulesFit
<1>4. CASE op.do = "del_rules_bulk"
  <2>1. C = DelRulesBulk(op, s, m)
    BY <1>4, Zenon DEF Change
  <2>2. QED
    BY <2>1, RulesFit
<1>5. CASE op.do = "patch_rule"
  <2>1. C = PatchRule(op, s, m)
    BY <1>5, Zenon DEF Change
  <2>2. QED
    BY <2>1, RulesFit
<1>6. CASE op.do = "reassign_rule"
  <2>1. C = ReassignRule(op, m)
    BY <1>6, Zenon DEF Change
  <2>2. QED
    BY <2>1, RulesFit
<1>7. CASE op.do = "reorder_exits"
  <2>1. C = ReorderExits(op, m)
    BY <1>7, Zenon DEF Change
  <2>2. op.order \in Seq(ToSet(op.order))
    BY <1>0, <1>7 DEF WellFormedRequest
  <2>3. QED
    BY <2>1, <2>2, ReorderPlain
<1>8. CASE op.do \in {"rename_exit", "set_direct_tag"}
  <2>1. C = RenameExit(op, s, m)
    BY <1>8, Zenon DEF Change
  <2>2. Listing(s.meta)
    BY <1>8, ReadsMeta
  <2>3. QED
    BY <1>8, <2>1, <2>2, RenameFits
<1>9. CASE op.do = "delete_exit"
  <2>1. C = DeleteExit(op, s, m)
    BY <1>9, Zenon DEF Change
  <2>2. Listing(s.meta)
    BY <1>9, ReadsMeta
  <2>3. Valid(DeleteExit(op, s, m).model)
    BY <2>1, WithModel, Zenon DEF DeleteExit
  <2>4. QED
    BY <1>9, <2>1, <2>2, <2>3, DeleteFits
<1>10. CASE op.do = "web_delete_exit"
  <2>1. C = WebDeleteExit(op, s, m)
    BY <1>10, Zenon DEF Change
  <2>2. Listing(s.meta)
    BY <1>10, ReadsMeta
  <2>3. "model" \in DOMAIN WebDeleteExit(op, s, m) => Valid(WebDeleteExit(op, s, m).model)
    BY <2>1
  <2>4. QED
    BY <1>10, <2>1, <2>2, <2>3, WebDeleteFits
<1>11. CASE op.do = "add_exit"
  <2>1. C = AddExit(op, m)
    BY <1>11, Zenon DEF Change
  <2>2. op.tag # Direct
    BY <1>0, <1>11 DEF WellFormedRequest
  <2>3. QED
    BY <2>1, <2>2, AddExitFits
<1>12. CASE op.do = "replace_exit"
  <2>1. C = ReplaceExit(op, m)
    BY <1>12, Zenon DEF Change
  <2>2. QED
    BY <2>1, ReplaceExitFits
<1>13. CASE op.do = "set_default_exit"
  <2>1. C = SetDefaultExit(op, m)
    BY <1>13, Zenon DEF Change
  <2>2. QED
    BY <2>1, RulesFit
<1>14. CASE op.do = "set_tg_exit"
  <2>1. C = SetTgExit(op, m)
    BY <1>14, Zenon DEF Change
  <2>2. QED
    BY <2>1, RulesFit
<1>15. CASE op.do = "add_group"
  <2>1. C = AddGroup(op, m)
    BY <1>15, Zenon DEF Change
  <2>2. op.name # Direct
    BY <1>15 DEF Asked
  <2>3. QED
    BY <2>1, <2>2, AddGroupFits
<1>16. CASE op.do = "add_policy_group"
  <2>1. C = AddPolicyGroup(op, m)
    BY <1>16, Zenon DEF Change
  <2>2. op.name # Direct
    BY <1>16 DEF Asked
  <2>3. QED
    BY <2>1, <2>2, AddPolicyGroupFits
<1>17. CASE op.do = "patch_group"
  <2>1. C = PatchGroup(op, s, m)
    BY <1>17, Zenon DEF Change
  <2>2. Listing(s.meta)
    BY <1>17, ReadsMeta
  <2>3. QED
    BY <1>17, <2>1, <2>2, PatchGroupFits
<1>18. CASE op.do = "delete_group"
  <2>1. C = DeleteGroup(op, s, m)
    BY <1>18, Zenon DEF Change
  <2>2. Listing(s.meta)
    BY <1>18, ReadsMeta
  <2>3. QED
    BY <1>18, <2>1, <2>2, DeleteGroupFits
<1>19. CASE op.do \in RuleSetOps
  <2>1. Listing(s.meta)
    BY <1>19, ReadsMeta
  <2>2. CASE op.do = "add_ruleset"
    <3>1. C = AddRuleSet(op, s, m)
      BY <2>2, Zenon DEF Change
    <3>2. QED
      BY <1>0, <1>19, <2>1, <2>2, <3>1, SetsFit
  <2>3. CASE op.do = "set_ruleset_target"
    <3>1. C = TargetRuleSet(op, s, m)
      BY <2>3, Zenon DEF Change
    <3>2. QED
      BY <1>0, <1>19, <2>1, <3>1, SetsFit
  <2>4. CASE op.do = "del_ruleset"
    <3>1. C = DelRuleSet(op, s, m)
      BY <2>4, Zenon DEF Change
    <3>2. QED
      BY <1>0, <1>19, <2>1, <2>4, <3>1, SetsFit
  <2>5. CASE op.do = "refresh_rulesets"
    <3>1. C = RefreshRuleSets(op, s, m)
      BY <2>5, Zenon DEF Change
    <3>2. QED
      BY <1>0, <1>19, <2>1, <3>1, SetsFit
  <2>6. QED
    BY <1>19, <2>2, <2>3, <2>4, <2>5 DEF RuleSetOps
<1>20. CASE op.do = "set_ruleset_label"
  <2>1. C = LabelRuleSet(op, s)
    BY <1>20, Zenon DEF Change
  <2>2. Listing(s.meta)
    BY <1>20, ReadsMeta
  <2>3. QED
    BY <1>20, <2>1, <2>2, LabelFits
<1>21. CASE op.do = "restore"
  <2>1. C = Restore(op, s)
    BY <1>21, Zenon DEF Change
  <2>2. Listing(s.meta)
    BY <1>21, ReadsMeta
  <2>3. QED
    BY <1>21, <2>1, <2>2, RestoreFits
<1>22. QED
  BY <1>0, <1>1, <1>2, <1>3, <1>4, <1>5, <1>6, <1>7, <1>8, <1>9, <1>10, <1>11, <1>12,
     <1>13, <1>14, <1>15, <1>16, <1>17, <1>18, <1>19, <1>20, <1>21
     DEF Requests, RuleSetOps

-----------------------------------------------------------------------------
(* What the early answers let through.                                     *)
LEMMA BeginAsked ==
  ASSUME DirectIsPhone, FInv, IInv, NEW e \in Editor, NEW op \in Menu[e],
         Early(op, live.model, live.direct)
  PROVE  Asked(op)
<1> DEFINE m == live.model
<1>0. WellFormedRequest(op)
  BY PolicyAssumption
<1>1. Plain(m)
  BY DEF FInv
<1>2. Direct \notin Proxies(m) \cup DirectTags(m) \cup GroupNames(m)
  BY <1>1, PlainTargets
<1> HIDE DEF m
<1>3. op.do = "rename_exit" => op.tag # Direct /\ op.new # Direct
  <2>1. op.do = "rename_exit" => RenameExitEarly(op, m)
    BY Zenon DEF Early, m
  <2>2. QED
    BY <1>2, <2>1 DEF RenameExitEarly
<1>4. op.do = "set_direct_tag" => op.tag # Direct /\ op.new # Direct
  <2>1. op.do = "set_direct_tag" => SetDirectTagEarly(op, m)
    BY Zenon DEF Early, m
  <2>2. QED
    BY <1>2, <2>1 DEF SetDirectTagEarly
<1>5. op.do = "delete_exit" => op.tag # Direct
  <2>1. op.do = "delete_exit" => DeleteExitEarly(op, m)
    BY Zenon DEF Early, m
  <2>2. QED
    BY <1>2, <2>1 DEF DeleteExitEarly
<1>6. op.do = "add_group" => op.name # Direct
  <2>1. op.do = "add_group" => AddGroupEarly(op, m)
    BY Zenon DEF Early, m
  <2>2. QED
    BY <2>1 DEF AddGroupEarly
<1>7. op.do = "patch_group" => op.name # Direct /\ op.new # Direct
  <2>1. op.do = "patch_group" => PatchGroupEarly(op, m)
    BY Zenon DEF Early, m
  <2>2. QED
    BY <1>2, <2>1 DEF PatchGroupEarly, DirectIsPhone
<1>8. op.do = "delete_group" => op.name # Direct
  <2>1. op.do = "delete_group" => op.name \in GroupNames(m)
    BY Zenon DEF Early, m
  <2>2. QED
    BY <1>2, <2>1
<1>9. op.do = "add_policy_group" => op.name # Direct
  BY DEF DirectIsPhone
<1>10. ASSUME op.do = "restore" PROVE RestoreEarly(op) /\ Plain(op.data.model)
  <2>1. RestoreEarly(op)
    BY <1>10, Zenon DEF Early
  <2>2. "model" \in DOMAIN op.data
    BY <2>1 DEF RestoreEarly, Unpacks
  <2>3. WellFormed(op.data.model)
    BY <1>0, <1>10, <2>2 DEF WellFormedRequest
  <2>4. Direct \notin OutTags(op.data.model) \cup GroupNames(op.data.model)
    BY <1>10, <2>2 DEF DirectIsPhone
  <2>5. QED
    BY <2>1, <2>3, <2>4, WellFormedPlain
<1>11. QED
  BY <1>0, <1>3, <1>4, <1>5, <1>6, <1>7, <1>8, <1>9, <1>10 DEF Asked

(* What a handler reads.                                                   *)
LEMMA SnapshotSnapped ==
  ASSUME FInv, IInv, NEW e \in Editor, Snapshot(e)
  PROVE  Snapped(seen'[e])
<1> DEFINE op == seen[e].op
           files == [f \in Reads(op) |-> live[f]]
<1>1. seen' = [seen EXCEPT ![e].files = files]
  BY DEF Snapshot
<1>2. seen'[e].op = op /\ seen'[e].files = files
  BY <1>1, BlankFields DEF IInv
<1>3. "meta" \in Reads(op) => Listing(files.meta)
  BY DEF FInv
<1>4. ASSUME op.do = "restore" PROVE TheDirect(files.model) # Direct
  <2>1. files.model = live.model
    BY <1>4, ReadsMeta
  <2>2. DirectTags(live.model) # {}
    <3>1. Cardinality(DirectTags(live.model)) = 1
      BY DEF IInv, Closed, ClosedFiles, Valid, ValidNoTargets
    <3>2. QED
      BY <3>1, FS_EmptySet
  <2>3. Direct \notin DirectTags(live.model)
    BY PlainTargets DEF FInv
  <2>4. QED
    BY <2>1, <2>2, <2>3 DEF TheDirect
<1>5. QED
  BY <1>2, <1>3, <1>4 DEF Snapped

(* What tx_apply stages.                                                   *)
LEMMA StageReady ==
  ASSUME FInv, IInv, NEW e \in Editor, Stage(e)
  PROVE  Ready(seen'[e]) /\ seen'[e].op = seen[e].op
<1> DEFINE c == seen[e]
           files == Change(c.op, c.files, live.model, c.ruled)
           held == DOMAIN files \cup Watched(c.op, files)
           expect == [f \in held |-> IF f \in Checked(c.op) THEN c.files[f] ELSE live[f]]
<1>1. /\ step[e] = "read"
      /\ "model" \in DOMAIN files => Valid(files.model)
      /\ seen' = [seen EXCEPT ![e] = [c EXCEPT !.model = None, !.files = files,
                                                !.expect = expect]]
  BY DEF Stage
<1>2. seen'[e].files = files /\ seen'[e].expect = expect /\ seen'[e].op = c.op
  <2> HIDE DEF files, expect
  <2>1. QED
    BY <1>1, BlankFields DEF IInv
<1>3. Asked(c.op) /\ Snapped(c) /\ Plain(live.model)
  BY <1>1 DEF FInv
<1>4. Fits(c.op, c.files, files)
  BY <1>1, <1>3, ChangeFits DEF Snapped
<1>5. ASSUME "meta" \in DOMAIN files, "meta" \in Reads(c.op)
      PROVE  "meta" \in DOMAIN expect /\ expect.meta = c.files.meta
  <2> HIDE DEF files
  <2>1. QED
    BY <1>5 DEF Checked
<1> HIDE DEF files, expect
<1>6. QED
  BY <1>2, <1>4, <1>5 DEF Fits, Ready

-----------------------------------------------------------------------------
(* Same contents, same ways: same aggregates.                              *)
LEMMA SameAggregates ==
  ASSUME NEW meta, NEW new, SameWay(meta, new), NEW f, NEW g,
         \A r \in DOMAIN meta : f[r] = g[r]
  PROVE  Aggregates(new, g) = Aggregates(meta, f)
<1>1. DOMAIN new = DOMAIN meta /\ Providers(new) = Providers(meta)
  BY DEF SameWay, Providers
<1>2. /\ {<<r, g[r]>> : r \in DOMAIN meta \ Providers(meta)}
           = {<<r, f[r]>> : r \in DOMAIN meta \ Providers(meta)}
      /\ {<<r, g[r]>> : r \in Providers(meta)} = {<<r, f[r]>> : r \in Providers(meta)}
  BY DEF Providers
<1>3. QED
  BY <1>1, <1>2, Zenon DEF Aggregates

(* A commit derives the aggregates anew, or changes nothing they are made  *)
(* of.                                                                     *)
LEMMA CommitAgrees ==
  ASSUME FInv, IInv, NEW e \in Editor, Commit(e)
  PROVE  /\ RuleSet \subseteq DOMAIN live'
         /\ Plain(live'.model) /\ Listing(live'.meta)
         /\ AggregatesAgree'
<1> DEFINE c == seen[e]
           next == And(c.files, live)
           read == And(c.files, And(c.expect, live))
<1>0. /\ DOMAIN next = DOMAIN c.files \cup DOMAIN live
      /\ \A x \in DOMAIN c.files : next[x] = c.files[x]
      /\ \A x \in DOMAIN live : x \notin DOMAIN c.files => next[x] = live[x]
  BY AndFiles
<1>1. /\ step[e] = "staged" /\ live' = next
      /\ \A f \in DOMAIN c.expect : live[f] = c.expect[f]
      /\ aggregate' = IF RuleSetDirect(c.op, c.files) THEN Aggregates(next.meta, read)
                                                      ELSE aggregate
  BY DEF Commit, Unchanged
<1>2. Ready(c)
  BY <1>1 DEF FInv
<1>3. \A x \in DOMAIN live : read[x] = next[x]
  <2>1. TAKE x \in DOMAIN live
  <2>2. CASE x \in DOMAIN c.files
    BY <2>2 DEF And
  <2>3. CASE x \notin DOMAIN c.files
    <3>1. read[x] = And(c.expect, live)[x] /\ next[x] = live[x]
      BY <2>3 DEF And
    <3>2. And(c.expect, live)[x] = live[x]
      BY <1>1 DEF And
    <3>3. QED
      BY <3>1, <3>2
  <2>4. QED
    BY <2>2, <2>3
<1> HIDE DEF next, read
<1>4. {"model", "meta"} \subseteq DOMAIN live /\ RuleSet \subseteq DOMAIN live
  BY DEF IInv, FInv
<1>5. Plain(next.model) /\ Listing(next.meta)
  BY <1>0, <1>2, <1>4 DEF Ready, FInv
<1>6. CASE RuleSetDirect(c.op, c.files)
  <2>1. SameWay(next.meta, next.meta)
    BY DEF SameWay
  <2>2. \A r \in DOMAIN next.meta : next[r] = read[r]
    BY <1>3, <1>4, <1>5 DEF Listing
  <2>3. Aggregates(next.meta, read) = Aggregates(next.meta, next)
    BY <2>1, <2>2, SameAggregates
  <2>4. QED
    BY <1>0, <1>1, <1>4, <1>5, <1>6, <2>3 DEF AggregatesAgree
<1>7. CASE ~RuleSetDirect(c.op, c.files)
  <2>1. /\ DOMAIN c.files \cap RuleSet = {}
        /\ "meta" \in DOMAIN c.files =>
             "meta" \in DOMAIN c.expect /\ SameWay(c.expect.meta, c.files.meta)
    BY <1>2, <1>7 DEF Ready
  <2>2. SameWay(live.meta, next.meta)
    <3>1. CASE "meta" \in DOMAIN c.files
      <4>1. next.meta = c.files.meta /\ live.meta = c.expect.meta
        BY <1>0, <1>1, <2>1, <3>1
      <4>2. QED
        BY <2>1, <3>1, <4>1
    <3>2. CASE "meta" \notin DOMAIN c.files
      BY <1>0, <1>4, <3>2 DEF SameWay
    <3>3. QED
      BY <3>1, <3>2
  <2>3. \A r \in DOMAIN live.meta : live[r] = next[r]
    BY <1>0, <1>4, <2>1 DEF FInv, Listing
  <2>4. Aggregates(next.meta, next) = Aggregates(live.meta, live)
    BY <2>2, <2>3, SameAggregates
  <2>5. aggregate' = Aggregates(next.meta, next)
    BY <1>1, <1>7, <2>4 DEF FInv, AggregatesAgree
  <2>6. QED
    BY <1>0, <1>1, <1>4, <1>5, <2>5 DEF AggregatesAgree
<1>8. QED
  BY <1>6, <1>7

-----------------------------------------------------------------------------
(* The aggregates are right at first, and nothing is underway.             *)
LEMMA InitFresh ==
  ASSUME DirectIsPhone
  PROVE  Init => FInv
<1> SUFFICES ASSUME Init PROVE FInv
  OBVIOUS
<1>1. live \in AtStart /\ \A e \in Editor : step[e] = "idle"
  BY DEF Init
<1>2. /\ DOMAIN live = File /\ WellFormed(live.model) /\ WellFormedMeta(live.meta)
  BY <1>1, PolicyAssumption
<1>3. Direct \notin OutTags(live.model) \cup GroupNames(live.model)
  BY <1>1 DEF DirectIsPhone
<1>4. Plain(live.model)
  BY <1>2, <1>3, WellFormedPlain
<1>5. Listing(live.meta)
  BY <1>2 DEF WellFormedMeta, Listing
<1>6. QED
  BY <1>1, <1>2, <1>4, <1>5 DEF Init, FInv, AggregatesAgree, File

(* Every step keeps them right.                                            *)
LEMMA StepFresh ==
  ASSUME DirectIsPhone
  PROVE  IInv /\ FInv /\ [Next]_vars => FInv'
<1> SUFFICES ASSUME IInv, FInv, [Next]_vars PROVE FInv'
  OBVIOUS
<1>0. DOMAIN step = Editor /\ DOMAIN seen = Editor
  BY DEF IInv
<1>1. ASSUME NEW e \in Editor, Begin(e) PROVE FInv'
  <2>1. PICK op \in Menu[e] :
          /\ Early(op, live.model, live.direct)
          /\ seen' = [seen EXCEPT ![e] =
            [Blank EXCEPT !.op = op,
                          !.model = IF Pinned(op) THEN live.model ELSE None,
                          !.ruled = op.do = "del_rule" /\ Rule(live.model, op.dom),
                          !.at = IF Loose(op) THEN edits ELSE 0]]
    BY <1>1 DEF Begin
  <2>2. Asked(op)
    BY <2>1, BeginAsked
  <2>3. seen'[e].op = op
    BY <1>0, <2>1, BlankFields
  <2>4. step' = [step EXCEPT ![e] = "checked"] /\ UNCHANGED <<live, aggregate>>
    BY <1>1 DEF Begin
  <2>5. \A d \in Editor \ {e} : seen'[d] = seen[d] /\ step'[d] = step[d]
    BY <2>1, <2>4
  <2>6. step'[e] = "checked"
    BY <1>0, <2>4
  <2>7. QED
    BY <2>2, <2>3, <2>4, <2>5, <2>6 DEF FInv, AggregatesAgree
<1>2. ASSUME NEW e \in Editor, Snapshot(e) PROVE FInv'
  <2>1. seen' = [seen EXCEPT ![e] =
          [seen[e] EXCEPT !.files = [f \in Reads(seen[e].op) |-> live[f]]]]
    BY <1>2 DEF Snapshot
  <2>2. seen'[e].op = seen[e].op
    BY <1>0, <2>1, BlankFields DEF IInv
  <2>3. /\ step[e] = "checked" /\ step' = [step EXCEPT ![e] = "read"]
        /\ UNCHANGED <<live, aggregate>>
    BY <1>2 DEF Snapshot
  <2>4. \A d \in Editor \ {e} : seen'[d] = seen[d] /\ step'[d] = step[d]
    BY <2>1, <2>3
  <2>5. step'[e] = "read" /\ Snapped(seen'[e])
    BY <1>0, <1>2, <2>3, SnapshotSnapped
  <2>6. QED
    BY <2>2, <2>3, <2>4, <2>5 DEF FInv, AggregatesAgree
<1>3. ASSUME NEW e \in Editor, Stage(e) PROVE FInv'
  <2>1. /\ step[e] = "read" /\ step' = [step EXCEPT ![e] = "staged"]
        /\ UNCHANGED <<live, aggregate>>
    BY <1>3 DEF Stage
  <2>2. Ready(seen'[e]) /\ seen'[e].op = seen[e].op
    BY <1>3, StageReady
  <2>3. \A d \in Editor \ {e} : seen'[d] = seen[d] /\ step'[d] = step[d]
    <3>1. PICK c : seen' = [seen EXCEPT ![e] = c]
      BY <1>3 DEF Stage
    <3>2. QED
      BY <2>1, <3>1
  <2>4. step'[e] = "staged"
    BY <1>0, <2>1
  <2>5. QED
    BY <2>1, <2>2, <2>3, <2>4 DEF FInv, AggregatesAgree
<1>4. ASSUME NEW e \in Editor, Commit(e) PROVE FInv'
  <2>1. /\ step' = [step EXCEPT ![e] = "idle"]
        /\ seen' = [seen EXCEPT ![e] = Blank]
    BY <1>4 DEF Commit, Forget
  <2>2. \A d \in Editor \ {e} : seen'[d] = seen[d] /\ step'[d] = step[d]
    BY <2>1
  <2>3. step'[e] = "idle"
    BY <1>0, <2>1
  <2>4. /\ RuleSet \subseteq DOMAIN live'
        /\ Plain(live'.model) /\ Listing(live'.meta)
        /\ AggregatesAgree'
    BY <1>4, CommitAgrees
  <2>5. QED
    BY <2>2, <2>3, <2>4 DEF FInv
<1>5. ASSUME NEW e \in Editor, Refuse(e) PROVE FInv'
  <2>1. /\ step' = [step EXCEPT ![e] = "idle"] /\ seen' = [seen EXCEPT ![e] = Blank]
        /\ UNCHANGED <<live, aggregate>>
    BY <1>5 DEF Refuse, Forget
  <2>2. \A d \in Editor \ {e} : seen'[d] = seen[d] /\ step'[d] = step[d]
    BY <2>1
  <2>3. step'[e] = "idle"
    BY <1>0, <2>1
  <2>4. QED
    BY <2>1, <2>2, <2>3 DEF FInv, AggregatesAgree
<1>6. CASE UNCHANGED vars
  BY <1>6 DEF vars, FInv, AggregatesAgree, Snapped, Ready
<1>7. QED
  BY <1>1, <1>2, <1>3, <1>4, <1>5, <1>6 DEF Next

(* What MosDNS loads is always made of the rule sets, their downloads and  *)
(* their targets as they are, for any editors, requests and interleavings: *)
(* though only some edits derive it, and from source files they do not     *)
(* stage.  It needs DirectIsPhone, as the web lets a group be named direct.*)
THEOREM AggregatesAreCurrent ==
  ASSUME DirectIsPhone
  PROVE  Spec => []AggregatesAgree
<1>1. Init => IInv /\ FInv
  BY InitInv, InitFresh
<1>2. IInv /\ FInv /\ [Next]_vars => (IInv /\ FInv)'
  BY StepInv, StepFresh
<1>3. IInv /\ FInv => AggregatesAgree
  BY DEF FInv
<1>4. QED
  BY <1>1, <1>2, <1>3, PTL DEF Spec

(* So all that Mihomo and MosDNS load is what the files it is derived from *)
(* say now.                                                                *)
THEOREM DerivedIsCurrent ==
  ASSUME DirectIsPhone
  PROVE  Spec => []DerivedAgree
<1>1. Spec => []RenderingAgrees
  BY PolicyRendering
<1>2. Spec => []AggregatesAgree
  BY AggregatesAreCurrent
<1>3. RenderingAgrees /\ AggregatesAgree => DerivedAgree
  BY DEF DerivedAgree
<1>4. QED
  BY <1>1, <1>2, <1>3, PTL
=============================================================================
