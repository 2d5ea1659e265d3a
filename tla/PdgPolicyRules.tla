--------------------------- MODULE PdgPolicyRules ---------------------------
(***************************************************************************)
(* What the rules of the model say, and the files beside it: no ruled      *)
(* domain misses the gateway (RuledDomainsReachGateway), the rule sets of  *)
(* the model are those of rulesets.json (RuleSetsAgree), the domain test   *)
(* names the exit that Mihomo takes (DomainTestAgrees), an edit does what  *)
(* its request would have done alone (EditsAreAtomic), and what its handler*)
(* checked at first still holds then (ChecksStand), for every set of       *)
(* editors and requests.                                                   *)
(*                                                                         *)
(* Each edit is described by what it does to the set of the rules: which   *)
(* domains they may name afterwards, and where they send each rule set.    *)
(* That is enough, for no edit stages a file it has not read, or leaves one*)
(* unstaged that it would have to change, except where the derivation of   *)
(* the Mihomo configuration refuses what does not fit.                     *)
(***************************************************************************)
EXTENDS PdgPolicyProofs

-----------------------------------------------------------------------------
(* Lists, as the set of what is on them.                                   *)

(* What is on a filtered list.                                             *)
LEMMA OnThose ==
  ASSUME NEW s, IsList(s), NEW I \in SUBSET DOMAIN s
  PROVE  /\ IsList(Those(s, I))
         /\ ToSet(Those(s, I)) = {s[i] : i \in I}
<1>1. Len(s) \in Nat /\ DOMAIN s = 1..Len(s)
  BY ListIs
<1>2. I \in SUBSET (1..Len(s))
  BY <1>1
<1>3. PICK f \in [1..Cardinality(I) -> I] :
           /\ Those(s, I) = [k \in 1..Cardinality(I) |-> s[f[k]]]
           /\ \A i \in I : \E k \in 1..Cardinality(I) : f[k] = i
           /\ \A k, l \in 1..Cardinality(I) : k < l => f[k] < f[l]
  BY <1>1, <1>2, ThoseInOrder
<1>4. \A i \in I : \E k \in DOMAIN Those(s, I) : Those(s, I)[k] = s[i]
  BY <1>3
<1>5. {s[i] : i \in I} \subseteq ToSet(Those(s, I))
  BY <1>4 DEF ToSet
<1>6. /\ IsList(Those(s, I))
      /\ ToSet(Those(s, I)) \subseteq {s[i] : i \in I}
  BY ThoseIsList
<1>7. QED
  BY <1>5, <1>6

(* What is on a list made element by element.                              *)
LEMMA OnMap ==
  ASSUME NEW s, IsList(s), NEW t, t = [i \in DOMAIN s |-> t[i]]
  PROVE  IsList(t) /\ ToSet(t) = {t[i] : i \in DOMAIN s}
<1>1. IsList(t)
  BY MapIsList
<1>2. QED
  BY <1>1 DEF ToSet

(* What is on a list with one element more, and where all of it is.        *)
LEMMA OnInsert ==
  ASSUME NEW s, IsList(s), NEW k \in 1..(Len(s) + 1), NEW e
  PROVE  /\ IsList(InsertAt(s, k, e))
         /\ ToSet(InsertAt(s, k, e)) = ToSet(s) \cup {e}
<1> DEFINE S == ToSet(s) \cup {e}
           a == SubSeq(s, 1, k - 1)
           b == SubSeq(s, k, Len(s))
           t == (a \o <<e>>) \o b
<1>1. s \in Seq(S) /\ Len(s) \in Nat /\ DOMAIN s = 1..Len(s)
  BY ListIs DEF IsList
<1>2. /\ a \in Seq(S) /\ Len(a) = k - 1
      /\ \A i \in 1..(k - 1) : a[i] = s[i]
  BY <1>1
<1>3. /\ b \in Seq(S) /\ Len(b) = Len(s) - k + 1
      /\ \A i \in 1..(Len(s) - k + 1) : b[i] = s[k + i - 1]
  BY <1>1
<1>4. e \in S /\ <<e>> \in Seq(S) /\ Len(<<e>>) = 1 /\ <<e>>[1] = e
  OBVIOUS
<1> DEFINE c == a \o <<e>>
<1> HIDE DEF a, b, S
<1>5. /\ c \in Seq(S) /\ Len(c) = k
      /\ \A i \in 1..(k - 1) : c[i] = s[i]
      /\ c[k] = e
  BY <1>1, <1>2, <1>4
<1> HIDE DEF c
<1>6. /\ c \o b \in Seq(S) /\ Len(c \o b) = Len(s) + 1
      /\ \A i \in 1..k : (c \o b)[i] = c[i]
      /\ \A i \in 1..(Len(s) - k + 1) : (c \o b)[k + i] = b[i]
  BY <1>1, <1>3, <1>5
<1>7. t = c \o b
  BY DEF c
<1>8. InsertAt(s, k, e) = t
  BY DEF InsertAt, a, b
<1> HIDE DEF t
<1>9. /\ t \in Seq(S) /\ Len(t) = Len(s) + 1
      /\ \A i \in 1..(k - 1) : t[i] = s[i]
      /\ t[k] = e
      /\ \A i \in k..Len(s) : t[i + 1] = s[i]
  <2>1. \A i \in k..Len(s) : t[i + 1] = s[i]
    <3>1. TAKE i \in k..Len(s)
    <3>2. /\ i - k + 1 \in 1..(Len(s) - k + 1)
          /\ k + (i - k + 1) = i + 1 /\ k + (i - k + 1) - 1 = i
      BY <1>1
    <3>3. t[k + (i - k + 1)] = b[i - k + 1] /\ b[i - k + 1] = s[k + (i - k + 1) - 1]
      BY <3>2, <1>3, <1>6, <1>7
    <3>4. QED
      BY <3>2, <3>3
  <2>2. QED
    BY <1>1, <1>5, <1>6, <1>7, <2>1
<1>10. t \in [1..(Len(s) + 1) -> S]
  BY <1>9, SeqIs
<1>11. IsList(t)
  BY <1>1, <1>10, IsListIf
<1>12. ToSet(s) \cup {e} \subseteq ToSet(t)
  <2>1. \A i \in 1..Len(s) : s[i] \in ToSet(t)
    <3>1. TAKE i \in 1..Len(s)
    <3>2. CASE i < k
      <4>1. i \in DOMAIN t /\ t[i] = s[i]
        BY <1>1, <1>9, <1>10, <3>2
      <4>2. QED
        BY <4>1 DEF ToSet
    <3>3. CASE ~(i < k)
      <4>1. i + 1 \in DOMAIN t /\ t[i + 1] = s[i]
        BY <1>1, <1>9, <1>10, <3>3
      <4>2. QED
        BY <4>1 DEF ToSet
    <3>4. QED
      BY <3>2, <3>3
  <2>2. k \in DOMAIN t
    BY <1>1, <1>10
  <2>3. QED
    BY <1>1, <1>9, <2>1, <2>2 DEF ToSet
<1>13. ToSet(t) \subseteq S
  BY <1>10 DEF ToSet
<1>14. QED
  BY <1>8, <1>11, <1>12, <1>13 DEF S

(* What is on two lists together.                                          *)
LEMMA OnBoth ==
  ASSUME NEW s, IsList(s), NEW t, IsList(t)
  PROVE  ToSet(s \o t) = ToSet(s) \cup ToSet(t)
<1> DEFINE S == ToSet(s) \cup ToSet(t)
<1>1. s \in Seq(S) /\ t \in Seq(S)
  BY DEF IsList
<1>2. /\ Len(s) \in Nat /\ DOMAIN s = 1..Len(s) /\ Len(t) \in Nat /\ DOMAIN t = 1..Len(t)
  BY ListIs
<1> HIDE DEF S
<1>3. /\ s \o t \in Seq(S) /\ Len(s \o t) = Len(s) + Len(t)
      /\ \A i \in 1..Len(s) : (s \o t)[i] = s[i]
      /\ \A i \in 1..Len(t) : (s \o t)[Len(s) + i] = t[i]
  BY <1>1, <1>2
<1>4. DOMAIN (s \o t) = 1..(Len(s) + Len(t))
  BY <1>2, <1>3, SeqIs
<1>5. \A i \in 1..(Len(s) + Len(t)) : (s \o t)[i] \in S
  BY <1>3, <1>4, SeqIs
<1>6. ToSet(s \o t) \subseteq S
  BY <1>4, <1>5 DEF ToSet
<1>7. \A i \in DOMAIN s : s[i] \in ToSet(s \o t)
  BY <1>2, <1>3, <1>4 DEF ToSet
<1>8. \A i \in DOMAIN t : t[i] \in ToSet(s \o t)
  <2>1. TAKE i \in DOMAIN t
  <2>2. Len(s) + i \in 1..(Len(s) + Len(t)) /\ (s \o t)[Len(s) + i] = t[i]
    BY <1>2, <1>3
  <2>3. QED
    BY <1>4, <2>2 DEF ToSet
<1>9. QED
  BY <1>6, <1>7, <1>8 DEF S, ToSet

(* The first of some positions of a list.                                  *)
LEMMA FirstIs ==
  ASSUME NEW s, IsList(s), NEW I \in SUBSET DOMAIN s, I # {}
  PROVE  LET i == CHOOSE i \in I : \A j \in I : i <= j
         IN  i \in I /\ \A j \in I : i <= j
<1>1. I \in SUBSET Nat
  BY ListIs
<1>2. \E i \in I : \A j \in I : i <= j
  BY <1>1, Least
<1>3. QED
  BY <1>2

-----------------------------------------------------------------------------
(* What the rules say.                                                     *)

(* A rule as add_rule, add_ruleset, set_tg_exit and the template write it, *)
(* and as the edits keep it.                                               *)
Ruly(rule) ==
  /\ DOMAIN rule = DOMAIN RejectRule
  /\ rule.set \in RuleSet \cup {None}
  /\ rule.set # None => rule.domains = {} /\ ~rule.tg

RulesOk(m) ==
  /\ {"rules", "sets"} \subseteq DOMAIN m
  /\ IsList(m.rules)
  /\ \A x \in ToSet(m.rules) : Ruly(x)

(* The domains that have a rule, and where the rules send a rule set.      *)
Ruled(m) == UNION {x.domains : x \in ToSet(m.rules)}
Sent(m, r) == {x.out : x \in {y \in ToSet(m.rules) : y.set = r}}

LEMMA SentIs ==
  ASSUME NEW m, NEW r, NEW z
  PROVE  z \in Sent(m, r) <=> \E x \in ToSet(m.rules) : x.set = r /\ x.out = z
BY DEF Sent

(* n is m after an edit of rules for domains: those of ds have none, only  *)
(* those of new may have got one, and nothing has changed for a rule set.  *)
SameSets(m, n) ==
  /\ RulesOk(n)
  /\ n.sets = m.sets
  /\ \A r \in RuleSet : Sent(n, r) = Sent(m, r)
Keeps(m, n, ds, new) ==
  /\ SameSets(m, n)
  /\ Ruled(n) \subseteq (Ruled(m) \ ds) \cup new

(* The fields of a rule.                                                   *)
LEMMA RuleFields ==
  /\ DOMAIN RejectRule = {"reject", "tg", "set", "domains", "keyed", "out"}
  /\ \A ds, x : LET w == DomainRule(ds, x)
                IN  /\ DOMAIN w = DOMAIN RejectRule
                    /\ w.set = None /\ w.domains = ds /\ w.out = x /\ ~w.tg
<1>1. \A ds, x : LET w == DomainRule(ds, x)
                 IN  /\ DOMAIN w = {"reject", "tg", "set", "domains", "keyed", "out"}
                     /\ w.set = None /\ w.domains = ds /\ w.out = x /\ ~w.tg
  BY DEF DomainRule
<1>2. PICK w : w = DomainRule({}, None)
  OBVIOUS
<1>3. DOMAIN [w EXCEPT !.reject = TRUE, !.keyed = FALSE] = DOMAIN w
  OBVIOUS
<1>4. RejectRule = [w EXCEPT !.reject = TRUE, !.keyed = FALSE]
  BY <1>2 DEF RejectRule
<1>5. QED
  BY <1>1, <1>2, <1>3, <1>4

(* The rules that are written anew.                                        *)
LEMMA NewRules ==
  /\ \A ds, x : LET w == DomainRule(ds, x)
                IN  Ruly(w) /\ w.set = None /\ w.domains = ds /\ w.out = x
  /\ \A x : Ruly(TgRule(x)) /\ TgRule(x).set = None /\ TgRule(x).domains = {}
  /\ \A r \in RuleSet : \A x : LET w == SetRule(r, x)
                               IN Ruly(w) /\ w.set = r /\ w.domains = {} /\ w.out = x
<1>1. None \notin RuleSet
  BY PolicyAssumption
<1>2. ASSUME NEW ds, NEW x
      PROVE  LET w == DomainRule(ds, x)
             IN  Ruly(w) /\ w.set = None /\ w.domains = ds /\ w.out = x
  BY RuleFields DEF Ruly
<1>3. ASSUME NEW x PROVE Ruly(TgRule(x)) /\ TgRule(x).set = None /\ TgRule(x).domains = {}
  <2>1. PICK w : w = DomainRule({}, x)
    OBVIOUS
  <2>2. DOMAIN w = {"reject", "tg", "set", "domains", "keyed", "out"}
    BY <2>1, RuleFields
  <2>3. w.set = None /\ w.domains = {}
    BY <2>1, RuleFields
  <2>4. TgRule(x) = [w EXCEPT !.tg = TRUE, !.keyed = FALSE]
    BY <2>1 DEF TgRule
  <2>5. PICK v : v = [w EXCEPT !.tg = TRUE, !.keyed = FALSE]
    OBVIOUS
  <2>6. DOMAIN v = DOMAIN w /\ v.set = None /\ v.domains = {}
    BY <2>2, <2>3, <2>5
  <2>7. QED
    BY <2>2, <2>4, <2>5, <2>6, RuleFields DEF Ruly
<1>4. ASSUME NEW r \in RuleSet, NEW x
      PROVE  LET w == SetRule(r, x)
             IN Ruly(w) /\ w.set = r /\ w.domains = {} /\ w.out = x
  <2>1. PICK w : w = DomainRule({}, x)
    OBVIOUS
  <2>2. DOMAIN w = {"reject", "tg", "set", "domains", "keyed", "out"}
    BY <2>1, RuleFields
  <2>3. ~w.tg /\ w.domains = {} /\ w.out = x
    BY <2>1, RuleFields
  <2>4. SetRule(r, x) = [w EXCEPT !.set = r, !.keyed = FALSE]
    BY <2>1 DEF SetRule
  <2>5. PICK v : v = [w EXCEPT !.set = r, !.keyed = FALSE]
    OBVIOUS
  <2>6. DOMAIN v = DOMAIN w /\ v.set = r /\ v.domains = {} /\ ~v.tg /\ v.out = x
    BY <2>2, <2>3, <2>5
  <2>7. QED
    BY <2>2, <2>4, <2>5, <2>6, RuleFields DEF Ruly
<1>5. QED
  BY <1>2, <1>3, <1>4

(* Rule by rule.                                                           *)
LEMMA KeepsIf ==
  ASSUME NEW m, NEW n, NEW ds, NEW new, n.sets = m.sets,
         {"rules", "sets"} \subseteq DOMAIN n, IsList(n.rules),
         \A x \in ToSet(n.rules) : Ruly(x) /\ x.domains \subseteq (Ruled(m) \ ds) \cup new,
         \A x \in ToSet(n.rules) : x.set # None =>
           \E y \in ToSet(m.rules) : y.set = x.set /\ y.out = x.out,
         \A y \in ToSet(m.rules) : y.set # None =>
           \E x \in ToSet(n.rules) : y.set = x.set /\ y.out = x.out
  PROVE  Keeps(m, n, ds, new)
<1>1. RulesOk(n)
  BY DEF RulesOk
<1>2. Ruled(n) \subseteq (Ruled(m) \ ds) \cup new
  BY DEF Ruled
<1>3. ASSUME NEW r \in RuleSet PROVE Sent(n, r) = Sent(m, r)
  <2>1. r # None
    BY PolicyAssumption
  <2>2. Sent(n, r) \subseteq Sent(m, r)
    BY <2>1 DEF Sent
  <2>3. Sent(m, r) \subseteq Sent(n, r)
    BY <2>1 DEF Sent
  <2>4. QED
    BY <2>2, <2>3
<1>4. QED
  BY <1>1, <1>2, <1>3 DEF Keeps, SameSets

(* One edit after the other.                                               *)
LEMMA KeepsThen ==
  ASSUME NEW m, NEW n, NEW o, NEW ds, NEW new, NEW more,
         Keeps(m, n, ds, new), Keeps(n, o, {}, more)
  PROVE  Keeps(m, o, ds, new \cup more)
BY DEF Keeps, SameSets

(* Where a new rule goes.                                                  *)
LEMMA ForemostIs ==
  ASSUME NEW rules, IsList(rules)
  PROVE  Foremost(rules) \in 1..(Len(rules) + 1)
<1>1. rules \in Seq(ToSet(rules)) /\ Len(rules) \in Nat
  BY ListIs DEF IsList
<1>2. rules # <<>> => Len(rules) # 0
  BY <1>1
<1>3. QED
  BY <1>1, <1>2 DEF Foremost

(* A new rule.                                                             *)
LEMMA InsertRules ==
  ASSUME NEW m, RulesOk(m), NEW x, Ruly(x)
  PROVE  /\ DOMAIN Insert(m, x) = DOMAIN m /\ Insert(m, x).sets = m.sets
         /\ IsList(Insert(m, x).rules)
         /\ ToSet(Insert(m, x).rules) = ToSet(m.rules) \cup {x}
<1>1. {"rules", "sets"} \subseteq DOMAIN m /\ IsList(m.rules)
  BY DEF RulesOk
<1>2. Insert(m, x).rules = InsertAt(m.rules, Foremost(m.rules), x)
  BY <1>1 DEF Insert
<1>3. Foremost(m.rules) \in 1..(Len(m.rules) + 1)
  BY <1>1, ForemostIs
<1>4. /\ IsList(InsertAt(m.rules, Foremost(m.rules), x))
      /\ ToSet(InsertAt(m.rules, Foremost(m.rules), x)) = ToSet(m.rules) \cup {x}
  BY <1>1, <1>3, OnInsert
<1>5. DOMAIN Insert(m, x) = DOMAIN m /\ Insert(m, x).sets = m.sets
  BY <1>1 DEF Insert
<1>6. QED
  BY <1>2, <1>4, <1>5

(* A new rule without rule set.                                            *)
LEMMA InsertKeeps ==
  ASSUME NEW m, RulesOk(m), NEW x, Ruly(x), x.set = None
  PROVE  Keeps(m, Insert(m, x), {}, x.domains)
<1>1. PICK n : n = Insert(m, x)
  OBVIOUS
<1>2. /\ DOMAIN n = DOMAIN m /\ n.sets = m.sets /\ IsList(n.rules)
      /\ ToSet(n.rules) = ToSet(m.rules) \cup {x}
  BY <1>1, InsertRules
<1>3. {"rules", "sets"} \subseteq DOMAIN m /\ \A y \in ToSet(m.rules) : Ruly(y)
  BY DEF RulesOk
<1>4. \A y \in ToSet(m.rules) : y.domains \subseteq Ruled(m)
  BY DEF Ruled
<1>5. QED
  BY <1>1, <1>2, <1>3, <1>4, KeepsIf

(* Rules that are changed one by one.                                      *)
LEMMA MapKeeps ==
  ASSUME NEW m, RulesOk(m), NEW n, NEW ds, NEW new,
         n.sets = m.sets, {"rules", "sets"} \subseteq DOMAIN n,
         n.rules = [i \in DOMAIN m.rules |-> n.rules[i]],
         \A i \in DOMAIN m.rules :
           /\ Ruly(n.rules[i]) /\ n.rules[i].set = m.rules[i].set
           /\ n.rules[i].set # None => n.rules[i].out = m.rules[i].out
           /\ n.rules[i].domains \subseteq (Ruled(m) \ ds) \cup new
  PROVE  Keeps(m, n, ds, new)
<1>1. IsList(m.rules)
  BY DEF RulesOk
<1>2. IsList(n.rules) /\ ToSet(n.rules) = {n.rules[i] : i \in DOMAIN m.rules}
  BY <1>1, OnMap
<1>3. ToSet(m.rules) = {m.rules[i] : i \in DOMAIN m.rules}
  BY DEF ToSet
<1>4. \A x \in ToSet(n.rules) : Ruly(x) /\ x.domains \subseteq (Ruled(m) \ ds) \cup new
  BY <1>2
<1>5. \A x \in ToSet(n.rules) : x.set # None =>
        \E y \in ToSet(m.rules) : y.set = x.set /\ y.out = x.out
  BY <1>2, <1>3
<1>6. \A y \in ToSet(m.rules) : y.set # None =>
        \E x \in ToSet(n.rules) : y.set = x.set /\ y.out = x.out
  <2>1. \A i \in DOMAIN m.rules : m.rules[i].set # None =>
          n.rules[i].set = m.rules[i].set /\ n.rules[i].out = m.rules[i].out
    OBVIOUS
  <2>2. \A i \in DOMAIN m.rules : n.rules[i] \in ToSet(n.rules)
    BY <1>2
  <2>3. QED
    BY <1>3, <2>1, <2>2
<1>7. QED
  BY <1>2, <1>4, <1>5, <1>6, KeepsIf

(* Rules that are dropped.                                                 *)
LEMMA ThoseKeep ==
  ASSUME NEW m, RulesOk(m), NEW I \in SUBSET DOMAIN m.rules,
         \A i \in DOMAIN m.rules : m.rules[i].set # None => i \in I
  PROVE  Keeps(m, [m EXCEPT !.rules = Those(@, I)], {}, {})
<1> DEFINE n == [m EXCEPT !.rules = Those(@, I)]
<1>1. /\ {"rules", "sets"} \subseteq DOMAIN m /\ IsList(m.rules)
      /\ \A x \in ToSet(m.rules) : Ruly(x)
  BY DEF RulesOk
<1>2. IsList(Those(m.rules, I)) /\ ToSet(Those(m.rules, I)) = {m.rules[i] : i \in I}
  BY <1>1, OnThose
<1>3. n.sets = m.sets /\ DOMAIN n = DOMAIN m /\ n.rules = Those(m.rules, I)
  BY <1>1
<1> HIDE DEF n
<1>4. ToSet(m.rules) = {m.rules[i] : i \in DOMAIN m.rules}
  BY DEF ToSet
<1>5. \A x \in ToSet(m.rules) : x.domains \subseteq Ruled(m)
  BY DEF Ruled
<1>6. Keeps(m, n, {}, {})
  BY <1>1, <1>2, <1>3, <1>4, <1>5, KeepsIf
<1>7. QED
  BY <1>6 DEF n

(* A rule that gets a domain.                                              *)
LEMMA OneKeeps ==
  ASSUME NEW m, RulesOk(m), NEW i \in DOMAIN m.rules, m.rules[i].set = None,
         NEW w, Ruly(w), w.set = None, NEW new, w.domains \subseteq Ruled(m) \cup new,
         NEW n, n.sets = m.sets, {"rules", "sets"} \subseteq DOMAIN n,
         n.rules = [m.rules EXCEPT ![i] = w]
  PROVE  Keeps(m, n, {}, new)
<1>1. /\ {"rules", "sets"} \subseteq DOMAIN m /\ IsList(m.rules)
      /\ \A x \in ToSet(m.rules) : Ruly(x)
  BY DEF RulesOk
<1>2. m.rules = [j \in DOMAIN m.rules |-> m.rules[j]]
  BY <1>1, ListIs
<1>3. \A j \in DOMAIN m.rules : m.rules[j] \in ToSet(m.rules)
  BY DEF ToSet
<1>4. \A x \in ToSet(m.rules) : x.domains \subseteq Ruled(m)
  BY DEF Ruled
<1>5. n.rules = [j \in DOMAIN m.rules |-> IF j = i THEN w ELSE m.rules[j]]
  BY <1>2
<1>6. QED
  BY <1>1, <1>3, <1>4, <1>5, MapKeeps

-----------------------------------------------------------------------------
(* The edits of the rules.                                                 *)

(* A domain is added to one rule.                                          *)
LEMMA AddDomainKeeps ==
  ASSUME NEW m, RulesOk(m), NEW d, NEW x
  PROVE  Keeps(m, AddDomain(m, d, x), {}, {d})
<1> DEFINE At == {i \in DOMAIN m.rules : m.rules[i].out = x /\ m.rules[i].set = None}
<1>1. /\ {"rules", "sets"} \subseteq DOMAIN m /\ IsList(m.rules)
      /\ \A w \in ToSet(m.rules) : Ruly(w)
  BY DEF RulesOk
<1>2. CASE At = {}
  <2>1. AddDomain(m, d, x) = Insert(m, DomainRule({d}, x))
    BY <1>2, Zenon DEF AddDomain
  <2>2. PICK w : w = DomainRule({d}, x)
    OBVIOUS
  <2>3. Ruly(w) /\ w.set = None /\ w.domains = {d}
    BY <2>2, NewRules
  <2>4. QED
    BY <2>1, <2>2, <2>3, InsertKeeps, Zenon
<1>3. CASE At # {}
  <2>1. PICK i : i = CHOOSE k \in At : \A j \in At : k <= j
    OBVIOUS
  <2>2. i \in At
    BY <1>1, <1>3, <2>1, FirstIs, Zenon
  <2>3. AddDomain(m, d, x)
          = [m EXCEPT !.rules[i].domains = @ \cup {d}, !.rules[i].keyed = TRUE]
    BY <1>3, <2>1, Zenon DEF AddDomain
  <2>4. i \in DOMAIN m.rules /\ m.rules[i].set = None
    BY <2>2
  <2> HIDE DEF At
  <2>5. PICK u : u = m.rules[i]
    OBVIOUS
  <2>6. Ruly(u) /\ u.domains \subseteq Ruled(m) /\ u.set = None
    BY <1>1, <2>4, <2>5 DEF Ruled, ToSet
  <2>7. PICK w : w = [u EXCEPT !.domains = @ \cup {d}, !.keyed = TRUE]
    OBVIOUS
  <2>8. Ruly(w) /\ w.set = None /\ w.domains = u.domains \cup {d}
    BY <2>6, <2>7, RuleFields DEF Ruly
  <2>9. PICK n : n = [m EXCEPT !.rules[i].domains = @ \cup {d}, !.rules[i].keyed = TRUE]
    OBVIOUS
  <2>10. n = [m EXCEPT !.rules = [m.rules EXCEPT ![i] = w]]
    BY <1>1, <2>4, <2>5, <2>7, <2>9
  <2>11. n.sets = m.sets /\ DOMAIN n = DOMAIN m /\ n.rules = [m.rules EXCEPT ![i] = w]
    BY <1>1, <2>10
  <2>12. w.domains \subseteq Ruled(m) \cup {d} /\ {"rules", "sets"} \subseteq DOMAIN n
    BY <1>1, <2>6, <2>8, <2>11
  <2>13. Keeps(m, n, {}, {d})
    BY <2>4, <2>8, <2>11, <2>12, OneKeeps
  <2>14. QED
    BY <2>3, <2>9, <2>13
<1>4. QED
  BY <1>2, <1>3

(* Domains are dropped, and the rules that had no others.                  *)
LEMMA DropDomainsKeeps ==
  ASSUME NEW m, RulesOk(m), NEW ds
  PROVE  Keeps(m, DropDomains(m, ds), ds, {})
<1> DEFINE cut == [i \in DOMAIN m.rules |-> [m.rules[i] EXCEPT !.domains = @ \ ds]]
           I == {i \in DOMAIN cut : Kept(cut[i])}
           n == [m EXCEPT !.rules = cut]
<1>1. /\ {"rules", "sets"} \subseteq DOMAIN m /\ IsList(m.rules)
      /\ \A w \in ToSet(m.rules) : Ruly(w)
  BY DEF RulesOk
<1>2. \A i \in DOMAIN m.rules : Ruly(m.rules[i]) /\ m.rules[i].domains \subseteq Ruled(m)
  BY <1>1 DEF ToSet, Ruled
<1>3. ASSUME NEW i \in DOMAIN m.rules
      PROVE  /\ Ruly(cut[i]) /\ cut[i].set = m.rules[i].set /\ cut[i].out = m.rules[i].out
             /\ cut[i].domains = m.rules[i].domains \ ds
  <2>1. PICK u : u = m.rules[i]
    OBVIOUS
  <2>2. PICK w : w = [u EXCEPT !.domains = @ \ ds]
    OBVIOUS
  <2>3. Ruly(u)
    BY <1>2, <2>1
  <2>4. /\ Ruly(w) /\ w.set = u.set /\ w.out = u.out /\ w.domains = u.domains \ ds
    BY <2>2, <2>3, RuleFields DEF Ruly
  <2>5. cut[i] = w
    BY <2>1, <2>2
  <2>6. QED
    BY <2>1, <2>4, <2>5
<1>4. /\ n.rules = cut /\ n.sets = m.sets /\ DOMAIN n = DOMAIN m
      /\ DOMAIN cut = DOMAIN m.rules /\ cut = [i \in DOMAIN m.rules |-> cut[i]]
  BY <1>1
<1>5. DropDomains(m, ds) = [n EXCEPT !.rules = Those(@, I)]
  BY <1>1 DEF DropDomains
<1>6. I \in SUBSET DOMAIN cut /\ \A i \in DOMAIN cut : cut[i].set # None => i \in I
  BY DEF Kept
<1> HIDE DEF cut, n, I
<1>7. Keeps(m, n, ds, {})
  BY <1>1, <1>2, <1>3, <1>4, MapKeeps
<1>8. RulesOk(n)
  BY <1>7 DEF Keeps, SameSets
<1>9. Keeps(n, [n EXCEPT !.rules = Those(@, I)], {}, {})
  BY <1>4, <1>6, <1>8, ThoseKeep
<1>10. Keeps(m, DropDomains(m, ds), ds, {} \cup {})
  BY <1>5, <1>7, <1>9, KeepsThen
<1>11. QED
  BY <1>10

(* patch_rule moves a domain.                                              *)
LEMMA MoveDomainKeeps ==
  ASSUME NEW m, RulesOk(m), NEW d, NEW x
  PROVE  Keeps(m, MoveDomain(m, d, x), {d}, {d})
<1> DEFINE n == DropDomains(m, {d})
           At == {i \in DOMAIN n.rules :
                   n.rules[i].out = x /\ n.rules[i].set = None /\ n.rules[i].keyed}
<1>1. Keeps(m, n, {d}, {})
  BY DropDomainsKeeps
<1>2. RulesOk(n)
  BY <1>1 DEF Keeps, SameSets
<1>3. MoveDomain(m, d, x)
        = IF x = Direct THEN n
          ELSE IF At = {} THEN Insert(n, DomainRule({d}, x))
          ELSE LET i == CHOOSE i \in At : \A j \in At : i <= j
               IN  [n EXCEPT !.rules[i].domains = @ \cup {d}]
  BY DEF MoveDomain
<1> HIDE DEF n
<1>4. /\ {"rules", "sets"} \subseteq DOMAIN n /\ IsList(n.rules)
      /\ \A w \in ToSet(n.rules) : Ruly(w)
  BY <1>2 DEF RulesOk
<1>5. CASE x = Direct
  BY <1>1, <1>3, <1>5, Zenon DEF Keeps, SameSets
<1>6. CASE x # Direct /\ At = {}
  <2>1. PICK w : w = DomainRule({d}, x)
    OBVIOUS
  <2>2. Ruly(w) /\ w.set = None /\ w.domains = {d}
    BY <2>1, NewRules
  <2>3. Keeps(n, Insert(n, w), {}, {d})
    BY <1>2, <2>2, InsertKeeps
  <2>4. Keeps(m, Insert(n, w), {d}, {} \cup {d})
    BY <1>1, <2>3, KeepsThen
  <2>5. QED
    BY <1>3, <1>6, <2>1, <2>4, Zenon
<1>7. CASE x # Direct /\ At # {}
  <2>1. PICK i : i = CHOOSE k \in At : \A j \in At : k <= j
    OBVIOUS
  <2>2. i \in At
    BY <1>4, <1>7, <2>1, FirstIs, Zenon
  <2>3. MoveDomain(m, d, x) = [n EXCEPT !.rules[i].domains = @ \cup {d}]
    BY <1>3, <1>7, <2>1, Zenon
  <2>4. i \in DOMAIN n.rules /\ n.rules[i].set = None
    BY <2>2
  <2> HIDE DEF At
  <2>5. PICK u : u = n.rules[i]
    OBVIOUS
  <2>6. Ruly(u) /\ u.domains \subseteq Ruled(n) /\ u.set = None
    BY <1>4, <2>4, <2>5 DEF Ruled, ToSet
  <2>7. PICK w : w = [u EXCEPT !.domains = @ \cup {d}]
    OBVIOUS
  <2>8. Ruly(w) /\ w.set = None /\ w.domains = u.domains \cup {d}
    BY <2>6, <2>7, RuleFields DEF Ruly
  <2>9. PICK o : o = [n EXCEPT !.rules[i].domains = @ \cup {d}]
    OBVIOUS
  <2>10. o = [n EXCEPT !.rules = [n.rules EXCEPT ![i] = w]]
    BY <1>4, <2>4, <2>5, <2>7, <2>9
  <2>11. o.sets = n.sets /\ DOMAIN o = DOMAIN n /\ o.rules = [n.rules EXCEPT ![i] = w]
    BY <1>4, <2>10
  <2>12. Keeps(n, o, {}, {d})
    BY <1>2, <1>4, <2>4, <2>6, <2>8, <2>11, OneKeeps
  <2>13. Keeps(m, o, {d}, {} \cup {d})
    BY <1>1, <2>12, KeepsThen
  <2>14. QED
    BY <2>3, <2>9, <2>13
<1>8. QED
  BY <1>5, <1>6, <1>7

(* Rules for the same target become one.                                   *)
LEMMA MergeKeeps ==
  ASSUME NEW m, RulesOk(m)
  PROVE  Keeps(m, [m EXCEPT !.rules = MergeDomainRules(@)], {}, {})
<1> DEFINE rules == m.rules
           Same(i) == {j \in DOMAIN rules : /\ rules[j].set = None /\ rules[j].domains # {}
                                            /\ rules[j].out = rules[i].out}
           Mergeable(i) == i \in Same(i) /\ rules[i].out # None
           First(i) == \A j \in Same(i) : i <= j
           All(i) == UNION {rules[j].domains : j \in Same(i)}
           merged == [i \in DOMAIN rules |->
                       IF Mergeable(i) THEN [rules[i] EXCEPT !.domains = All(i)] ELSE rules[i]]
           I == {i \in DOMAIN rules : ~Mergeable(i) \/ First(i)}
           n == [m EXCEPT !.rules = merged]
<1>1. /\ {"rules", "sets"} \subseteq DOMAIN m /\ IsList(m.rules)
      /\ \A w \in ToSet(m.rules) : Ruly(w)
  BY DEF RulesOk
<1>2. \A i \in DOMAIN rules : Ruly(rules[i]) /\ rules[i].domains \subseteq Ruled(m)
  BY <1>1 DEF ToSet, Ruled
<1>3. \A i \in DOMAIN rules : All(i) \subseteq Ruled(m)
  BY <1>2
<1>4. \A i \in DOMAIN rules : Mergeable(i) => rules[i].set = None
  OBVIOUS
<1> HIDE DEF Mergeable, All, First
<1>5. ASSUME NEW i \in DOMAIN rules
      PROVE  /\ Ruly(merged[i]) /\ merged[i].set = rules[i].set
             /\ merged[i].out = rules[i].out
             /\ merged[i].domains \subseteq Ruled(m)
  <2>1. CASE ~Mergeable(i)
    BY <1>2, <2>1
  <2>2. CASE Mergeable(i)
    <3>1. PICK u : u = rules[i]
      OBVIOUS
    <3>2. PICK w : w = [u EXCEPT !.domains = All(i)]
      OBVIOUS
    <3>3. Ruly(u) /\ u.set = None
      BY <1>2, <1>4, <2>2, <3>1
    <3>4. Ruly(w) /\ w.set = None /\ w.out = u.out /\ w.domains = All(i)
      BY <3>2, <3>3, RuleFields DEF Ruly
    <3>5. merged[i] = w
      BY <2>2, <3>1, <3>2
    <3>6. QED
      BY <1>3, <3>1, <3>3, <3>4, <3>5
  <2>3. QED
    BY <2>1, <2>2
<1>6. /\ n.rules = merged /\ n.sets = m.sets /\ DOMAIN n = DOMAIN m
      /\ DOMAIN merged = DOMAIN m.rules /\ merged = [i \in DOMAIN m.rules |-> merged[i]]
  BY <1>1
<1>7. MergeDomainRules(rules) = Those(merged, I)
  BY DEF MergeDomainRules, Mergeable, First, All
<1>8. [m EXCEPT !.rules = MergeDomainRules(@)] = [n EXCEPT !.rules = Those(@, I)]
  <2> HIDE DEF merged, I
  <2>1. QED
    BY <1>1, <1>7
<1>9. I \in SUBSET DOMAIN merged /\ \A i \in DOMAIN merged : merged[i].set # None => i \in I
  BY <1>4, <1>5
<1> HIDE DEF merged, n, I
<1>10. Keeps(m, n, {}, {})
  BY <1>1, <1>5, <1>6, MapKeeps
<1>11. RulesOk(n)
  BY <1>10 DEF Keeps, SameSets
<1>12. Keeps(n, [n EXCEPT !.rules = Those(@, I)], {}, {})
  BY <1>6, <1>9, <1>11, ThoseKeep
<1>13. Keeps(m, [m EXCEPT !.rules = MergeDomainRules(@)], {}, {} \cup {})
  BY <1>8, <1>10, <1>12, KeepsThen
<1>14. QED
  BY <1>13

(* reassign_rule gives a rule without rule set another target.             *)
LEMMA ReassignKeeps ==
  ASSUME NEW m, RulesOk(m), NEW i \in DOMAIN m.rules, m.rules[i].set = None, NEW x
  PROVE  Keeps(m, Reassign(m, i, x), {}, {})
<1> DEFINE n == [m EXCEPT !.rules = [@ EXCEPT ![i].out = x]]
<1>1. /\ {"rules", "sets"} \subseteq DOMAIN m /\ IsList(m.rules)
      /\ \A w \in ToSet(m.rules) : Ruly(w)
  BY DEF RulesOk
<1>2. PICK u : u = m.rules[i]
  OBVIOUS
<1>3. Ruly(u) /\ u.domains \subseteq Ruled(m) /\ u.set = None
  BY <1>1, <1>2 DEF Ruled, ToSet
<1>4. PICK w : w = [u EXCEPT !.out = x]
  OBVIOUS
<1>5. Ruly(w) /\ w.set = None /\ w.domains = u.domains
  BY <1>3, <1>4, RuleFields DEF Ruly
<1>6. n = [m EXCEPT !.rules = [m.rules EXCEPT ![i] = w]]
  BY <1>1, <1>2, <1>4
<1>7. n.sets = m.sets /\ DOMAIN n = DOMAIN m /\ n.rules = [m.rules EXCEPT ![i] = w]
  BY <1>1, <1>6
<1>8. n.rules = [m.rules EXCEPT ![i].out = x]
  BY <1>1
<1>9. Reassign(m, i, x) = [n EXCEPT !.rules = MergeDomainRules(@)]
  BY <1>1, <1>8 DEF Reassign
<1> HIDE DEF n
<1>10. w.domains \subseteq Ruled(m) \cup {} /\ {"rules", "sets"} \subseteq DOMAIN n
  BY <1>1, <1>3, <1>5, <1>7
<1>11. Keeps(m, n, {}, {})
  BY <1>5, <1>7, <1>10, OneKeeps
<1>12. RulesOk(n)
  BY <1>11 DEF Keeps, SameSets
<1>13. Keeps(n, [n EXCEPT !.rules = MergeDomainRules(@)], {}, {})
  BY <1>12, MergeKeeps
<1>14. Keeps(m, Reassign(m, i, x), {}, {} \cup {})
  BY <1>9, <1>11, <1>13, KeepsThen
<1>15. QED
  BY <1>14

(* The rule for Telegram is replaced.                                      *)
LEMMA PinTelegramKeeps ==
  ASSUME NEW m, RulesOk(m), NEW x
  PROVE  Keeps(m, PinTelegram(m, x), {}, {})
<1> DEFINE I == {i \in DOMAIN m.rules : ~m.rules[i].tg}
           n == [m EXCEPT !.rules = Those(@, I)]
<1>1. /\ {"rules", "sets"} \subseteq DOMAIN m /\ \A w \in ToSet(m.rules) : Ruly(w)
  BY DEF RulesOk
<1>2. \A i \in DOMAIN m.rules : m.rules[i].set # None => i \in I
  BY <1>1 DEF ToSet, Ruly
<1>3. I \in SUBSET DOMAIN m.rules
  OBVIOUS
<1>4. PinTelegram(m, x) = IF x = None THEN n ELSE Insert(n, TgRule(x))
  BY <1>1 DEF PinTelegram
<1> HIDE DEF I
<1>5. Keeps(m, n, {}, {})
  BY <1>2, <1>3, ThoseKeep
<1> HIDE DEF n
<1>6. RulesOk(n)
  BY <1>5 DEF Keeps, SameSets
<1>7. PICK w : w = TgRule(x)
  OBVIOUS
<1>8. Ruly(w) /\ w.set = None /\ w.domains = {}
  BY <1>7, NewRules
<1>9. Keeps(n, Insert(n, w), {}, {})
  BY <1>6, <1>8, InsertKeeps
<1>10. Keeps(m, Insert(n, w), {}, {} \cup {})
  BY <1>5, <1>9, KeepsThen
<1>11. QED
  BY <1>4, <1>5, <1>7, <1>10

-----------------------------------------------------------------------------
(* The edits of the rule sets.                                             *)

(* n is m but for rule set r, which the rules now send to X.               *)
Resends(m, n, r, X) ==
  /\ RulesOk(n)
  /\ Ruled(n) \subseteq Ruled(m)
  /\ \A w \in ToSet(n.rules) : w \in ToSet(m.rules) \/ w.domains = {}
  /\ n.sets = IF X = {} THEN m.sets \ {r} ELSE m.sets \cup {r}
  /\ \A q \in RuleSet : Sent(n, q) = IF q = r THEN X ELSE Sent(m, q)

(* A rule set loses its rules.                                             *)
LEMMA DropSetResends ==
  ASSUME NEW m, RulesOk(m), NEW r \in RuleSet
  PROVE  /\ Resends(m, DropSet(m, r), r, {})
         /\ DOMAIN DropSet(m, r) = DOMAIN m
<1> DEFINE I == {i \in DOMAIN m.rules : m.rules[i].set # r}
           n == DropSet(m, r)
<1>1. /\ {"rules", "sets"} \subseteq DOMAIN m /\ IsList(m.rules)
      /\ \A x \in ToSet(m.rules) : Ruly(x)
  BY DEF RulesOk
<1>2. n.rules = Those(m.rules, I) /\ n.sets = m.sets \ {r} /\ DOMAIN n = DOMAIN m
  BY <1>1 DEF DropSet
<1>3. I \in SUBSET DOMAIN m.rules
  OBVIOUS
<1>4. IsList(n.rules) /\ ToSet(n.rules) = {m.rules[i] : i \in I}
  BY <1>1, <1>2, <1>3, OnThose
<1>5. ToSet(n.rules) = {x \in ToSet(m.rules) : x.set # r}
  BY <1>4 DEF ToSet
<1> HIDE DEF n, I
<1>6. RulesOk(n)
  BY <1>1, <1>2, <1>4, <1>5 DEF RulesOk
<1>7. Ruled(n) \subseteq Ruled(m)
  BY <1>5 DEF Ruled
<1>8. \A q \in RuleSet : Sent(n, q) = IF q = r THEN {} ELSE Sent(m, q)
  BY <1>5 DEF Sent
<1>9. QED
  BY <1>2, <1>5, <1>6, <1>7, <1>8 DEF Resends, n

(* It gets one, anywhere.                                                  *)
LEMMA SetRuleResends ==
  ASSUME NEW m, RulesOk(m), NEW r \in RuleSet, NEW x, NEW n,
         {"rules", "sets"} \subseteq DOMAIN n,
         IsList(n.rules), n.sets = DropSet(m, r).sets \cup {r},
         ToSet(n.rules) = ToSet(DropSet(m, r).rules) \cup {SetRule(r, x)}
  PROVE  Resends(m, n, r, {x})
<1> DEFINE o == DropSet(m, r)
<1>1. /\ RulesOk(o) /\ Ruled(o) \subseteq Ruled(m) /\ o.sets = m.sets \ {r}
      /\ \A w \in ToSet(o.rules) : w \in ToSet(m.rules) \/ w.domains = {}
      /\ \A q \in RuleSet : Sent(o, q) = IF q = r THEN {} ELSE Sent(m, q)
  BY DropSetResends DEF Resends
<1>2. PICK w : w = SetRule(r, x)
  OBVIOUS
<1>3. Ruly(w) /\ w.set = r /\ w.domains = {} /\ w.out = x
  BY <1>2, NewRules
<1>4. ToSet(n.rules) = ToSet(o.rules) \cup {w} /\ n.sets = m.sets \cup {r}
  BY <1>1, <1>2
<1> HIDE DEF o
<1>5. RulesOk(n)
  BY <1>1, <1>3, <1>4 DEF RulesOk
<1>6. Ruled(n) \subseteq Ruled(m)
  BY <1>1, <1>3, <1>4 DEF Ruled
<1>7. \A q \in RuleSet : Sent(n, q) = IF q = r THEN Sent(o, q) \cup {x} ELSE Sent(o, q)
  BY <1>3, <1>4 DEF Sent
<1>8. \A q \in RuleSet : Sent(n, q) = IF q = r THEN {x} ELSE Sent(m, q)
  BY <1>1, <1>7
<1>9. \A v \in ToSet(n.rules) : v \in ToSet(m.rules) \/ v.domains = {}
  BY <1>1, <1>3, <1>4
<1>10. QED
  BY <1>4, <1>5, <1>6, <1>8, <1>9 DEF Resends

(* add_ruleset.                                                            *)
LEMMA AddSetResends ==
  ASSUME NEW m, RulesOk(m), NEW r \in RuleSet, NEW x
  PROVE  Resends(m, AddSet(m, r, x), r, IF x = Direct THEN {} ELSE {x})
<1> DEFINE o == DropSet(m, r)
           n == [o EXCEPT !.sets = @ \cup {r}]
<1>1. RulesOk(o) /\ Resends(m, o, r, {})
  BY DropSetResends DEF Resends
<1>2. CASE x = Direct
  BY <1>1, <1>2 DEF AddSet
<1>3. CASE x # Direct
  <2>1. PICK w : w = SetRule(r, x)
    OBVIOUS
  <2>2. AddSet(m, r, x) = Insert(n, w)
    BY <1>3, <2>1 DEF AddSet
  <2>3. Ruly(w)
    BY <2>1, NewRules
  <2> HIDE DEF o
  <2>4. RulesOk(n) /\ n.rules = o.rules /\ n.sets = o.sets \cup {r}
    BY <1>1 DEF RulesOk
  <2> HIDE DEF n
  <2>5. /\ DOMAIN Insert(n, w) = DOMAIN n /\ Insert(n, w).sets = n.sets
        /\ IsList(Insert(n, w).rules)
        /\ ToSet(Insert(n, w).rules) = ToSet(n.rules) \cup {w}
    BY <2>3, <2>4, InsertRules
  <2>6. PICK z : z = Insert(n, w)
    OBVIOUS
  <2>7. /\ {"rules", "sets"} \subseteq DOMAIN z /\ IsList(z.rules)
        /\ z.sets = DropSet(m, r).sets \cup {r}
        /\ ToSet(z.rules) = ToSet(DropSet(m, r).rules) \cup {SetRule(r, x)}
    BY <2>1, <2>4, <2>5, <2>6 DEF o, RulesOk
  <2>8. Resends(m, z, r, {x})
    BY <2>7, SetRuleResends
  <2>9. QED
    BY <1>3, <2>2, <2>6, <2>8
<1>4. QED
  BY <1>2, <1>3

(* set_ruleset_target: at its old place, or at the end of what is left.    *)
LEMMA TargetSetResends ==
  ASSUME NEW m, RulesOk(m), NEW r \in RuleSet, NEW x
  PROVE  Resends(m, TargetSet(m, r, x), r, IF x = Direct THEN {} ELSE {x})
<1> DEFINE At == {i \in DOMAIN m.rules : m.rules[i].set = r}
           n == DropSet(m, r)
           at == IF At = {} THEN Foremost(m.rules) ELSE CHOOSE i \in At : \A j \in At : i <= j
           bounded == IF at > Len(n.rules) + 1 THEN Len(n.rules) + 1 ELSE at
           z == [n EXCEPT !.sets = @ \cup {r}, !.rules = InsertAt(@, bounded, SetRule(r, x))]
<1>1. RulesOk(n) /\ Resends(m, n, r, {})
  BY DropSetResends DEF Resends
<1>2. TargetSet(m, r, x) = IF x = Direct THEN n ELSE z
  BY DEF TargetSet
<1>3. IsList(m.rules) /\ IsList(n.rules) /\ {"rules", "sets"} \subseteq DOMAIN n
  BY <1>1 DEF RulesOk
<1>4. Len(m.rules) \in Nat /\ DOMAIN m.rules = 1..Len(m.rules) /\ Len(n.rules) \in Nat
  BY <1>3, ListIs
<1>5. at \in Nat /\ at >= 1
  <2>1. CASE At = {}
    BY <1>3, <1>4, <2>1, ForemostIs
  <2>2. CASE At # {}
    <3>1. At \in SUBSET DOMAIN m.rules
      OBVIOUS
    <3>2. at \in At
      <4> HIDE DEF At
      <4>1. QED
        BY <1>3, <2>2, <3>1, FirstIs
    <3> HIDE DEF At, at
    <3>3. QED
      BY <1>4, <3>1, <3>2
  <2>3. QED
    BY <2>1, <2>2
<1>6. bounded \in 1..(Len(n.rules) + 1)
  <2> HIDE DEF at, n
  <2>1. QED
    BY <1>4, <1>5
<1> HIDE DEF bounded, at, n
<1>7. PICK w : w = SetRule(r, x)
  OBVIOUS
<1>8. /\ IsList(InsertAt(n.rules, bounded, w))
      /\ ToSet(InsertAt(n.rules, bounded, w)) = ToSet(n.rules) \cup {w}
  BY <1>3, <1>6, OnInsert
<1>9. /\ z.rules = InsertAt(n.rules, bounded, w) /\ z.sets = n.sets \cup {r}
      /\ DOMAIN z = DOMAIN n
  BY <1>3, <1>7
<1> HIDE DEF z
<1>10. Resends(m, z, r, {x})
  <2>1. /\ {"rules", "sets"} \subseteq DOMAIN z /\ IsList(z.rules)
        /\ z.sets = DropSet(m, r).sets \cup {r}
        /\ ToSet(z.rules) = ToSet(DropSet(m, r).rules) \cup {SetRule(r, x)}
    BY <1>3, <1>7, <1>8, <1>9 DEF n
  <2>2. QED
    BY <2>1, SetRuleResends
<1>11. QED
  BY <1>1, <1>2, <1>10

-----------------------------------------------------------------------------
(* The edits of exits and groups.                                          *)

(* Where the rules at some positions send a rule set.                      *)
LEMMA SentAt ==
  ASSUME NEW n, NEW q, NEW D, ToSet(n.rules) = {n.rules[i] : i \in D},
         NEW At, At = {i \in D : n.rules[i].set = q}
  PROVE  Sent(n, q) = {n.rules[i].out : i \in At}
<1>1. \A z \in Sent(n, q) : \E v \in ToSet(n.rules) : v.set = q /\ v.out = z
  BY DEF Sent
<1>2. \A z \in Sent(n, q) : \E i \in At : z = n.rules[i].out
  BY <1>1
<1>3. \A i \in At : n.rules[i].out \in Sent(n, q)
  BY DEF Sent
<1>4. QED
  BY <1>2, <1>3

(* v is the rule u, with its target replaced if it is in S.                *)
Redirected(u, v, S, y) ==
  /\ Ruly(v) /\ v.set = u.set /\ v.domains = u.domains
  /\ v.out = IF u.out \in S THEN y ELSE u.out

(* n is m with other targets for the rules: y for those of S.              *)
Redirects(m, n, S, y) ==
  /\ RulesOk(n)
  /\ Ruled(n) = Ruled(m)
  /\ n.sets = m.sets
  /\ \A q \in RuleSet : Sent(n, q) = {IF x \in S THEN y ELSE x : x \in Sent(m, q)}
  /\ \A v \in ToSet(n.rules) : \E u \in ToSet(m.rules) : Redirected(u, v, S, y)

(* A rule that gets a target, or keeps it.                                 *)
LEMMA GetsTarget ==
  ASSUME NEW u, Ruly(u), NEW x, NEW S, NEW y, x = IF u.out \in S THEN y ELSE u.out
  PROVE  Redirected(u, [u EXCEPT !.out = x], S, y)
<1>1. PICK w : w = [u EXCEPT !.out = x]
  OBVIOUS
<1>2. Ruly(w) /\ w.set = u.set /\ w.domains = u.domains /\ w.out = x
  BY <1>1, RuleFields DEF Ruly
<1>3. QED
  BY <1>1, <1>2 DEF Redirected
LEMMA KeepsTarget ==
  ASSUME NEW u, Ruly(u), NEW S, NEW y,
         NEW v, v = IF u.out \in S THEN [u EXCEPT !.out = y] ELSE u
  PROVE  Redirected(u, v, S, y)
<1>1. CASE u.out \in S
  <2>1. y = IF u.out \in S THEN y ELSE u.out
    BY <1>1
  <2>2. Redirected(u, [u EXCEPT !.out = y], S, y)
    BY <2>1, GetsTarget
  <2>3. QED
    BY <1>1, <2>2
<1>2. CASE u.out \notin S
  BY <1>2 DEF Redirected
<1>3. QED
  BY <1>1, <1>2

(* Rule by rule.                                                           *)
LEMMA RedirectsIf ==
  ASSUME NEW m, RulesOk(m), NEW S, NEW y, NEW n
  PROVE  /\ n.sets = m.sets /\ {"rules", "sets"} \subseteq DOMAIN n
         /\ n.rules = [i \in DOMAIN m.rules |-> n.rules[i]]
         /\ \A i \in DOMAIN m.rules : Redirected(m.rules[i], n.rules[i], S, y)
         => Redirects(m, n, S, y)
<1>0. SUFFICES ASSUME n.sets = m.sets, {"rules", "sets"} \subseteq DOMAIN n,
               n.rules = [i \in DOMAIN m.rules |-> n.rules[i]],
               \A i \in DOMAIN m.rules : Redirected(m.rules[i], n.rules[i], S, y)
      PROVE  Redirects(m, n, S, y)
  OBVIOUS
<1>1. /\ IsList(m.rules) /\ \A x \in ToSet(m.rules) : Ruly(x)
  BY DEF RulesOk
<1>3. \A i \in DOMAIN m.rules :
        /\ Ruly(n.rules[i]) /\ n.rules[i].set = m.rules[i].set
        /\ n.rules[i].domains = m.rules[i].domains
        /\ n.rules[i].out = IF m.rules[i].out \in S THEN y ELSE m.rules[i].out
  BY <1>0 DEF Redirected
<1>4. IsList(n.rules) /\ ToSet(n.rules) = {n.rules[i] : i \in DOMAIN m.rules}
  BY <1>0, <1>1, OnMap
<1>5. ToSet(m.rules) = {m.rules[i] : i \in DOMAIN m.rules}
  BY DEF ToSet
<1>6. RulesOk(n)
  BY <1>0, <1>3, <1>4 DEF RulesOk
<1>7. Ruled(n) = Ruled(m)
  <2>1. Ruled(n) = UNION {n.rules[i].domains : i \in DOMAIN m.rules}
    BY <1>4 DEF Ruled
  <2>2. Ruled(m) = UNION {m.rules[i].domains : i \in DOMAIN m.rules}
    BY <1>5 DEF Ruled
  <2>3. QED
    BY <1>3, <2>1, <2>2
<1>8. ASSUME NEW q \in RuleSet
      PROVE  Sent(n, q) = {IF x \in S THEN y ELSE x : x \in Sent(m, q)}
  <2>0. PICK At : /\ At = {i \in DOMAIN m.rules : m.rules[i].set = q}
                  /\ At = {i \in DOMAIN m.rules : n.rules[i].set = q}
    BY <1>3
  <2>1. Sent(m, q) = {m.rules[i].out : i \in At}
    BY <1>5, <2>0, SentAt, SMTT(30)
  <2>2. Sent(n, q) = {n.rules[i].out : i \in At}
    BY <1>4, <2>0, SentAt
  <2>3. \A i \in At : n.rules[i].out = IF m.rules[i].out \in S THEN y ELSE m.rules[i].out
    BY <1>3, <2>0
  <2>4. Sent(n, q) = {IF m.rules[i].out \in S THEN y ELSE m.rules[i].out : i \in At}
    BY <2>2, <2>3
  <2>5. QED
    BY <2>1, <2>4
<1>9. QED
  BY <1>0, <1>4, <1>5, <1>6, <1>7, <1>8 DEF Redirects

(* The same rules.                                                         *)
LEMMA SameRules ==
  ASSUME NEW m, RulesOk(m), NEW n, n.rules = m.rules, n.sets = m.sets,
         {"rules", "sets"} \subseteq DOMAIN n
  PROVE  Keeps(m, n, {}, {})
BY DEF RulesOk, Keeps, SameSets, Ruled, Sent

(* A rename.                                                               *)
LEMMA RenameRedirects ==
  ASSUME NEW m, RulesOk(m), NEW old, NEW new
  PROVE  /\ Redirects(m, RenameReferences(m, old, new), {old}, new)
         /\ Redirects(m, Rename(m, old, new), {old}, new)
<1> DEFINE n == RenameReferences(m, old, new)
           o == Rename(m, old, new)
<1>1. /\ {"rules", "sets"} \subseteq DOMAIN m
      /\ \A i \in DOMAIN m.rules : Ruly(m.rules[i])
  BY DEF RulesOk, ToSet
<1>2. /\ DOMAIN n = DOMAIN m /\ n.sets = m.sets
      /\ n.rules = [i \in DOMAIN m.rules |-> [m.rules[i] EXCEPT !.out = Sub(old, new, @)]]
  BY <1>1 DEF RenameReferences
<1>3. DOMAIN o = DOMAIN n /\ o.sets = n.sets /\ o.rules = n.rules
  BY DEF Rename
<1> HIDE DEF n, o
<1>4. ASSUME NEW i \in DOMAIN m.rules PROVE Redirected(m.rules[i], n.rules[i], {old}, new)
  <2>1. PICK u : u = m.rules[i]
    OBVIOUS
  <2>2. n.rules[i] = [u EXCEPT !.out = Sub(old, new, u.out)]
    BY <1>2, <2>1
  <2>3. Ruly(u) /\ Sub(old, new, u.out) = IF u.out \in {old} THEN new ELSE u.out
    BY <1>1, <2>1 DEF Sub
  <2>4. QED
    BY <2>1, <2>2, <2>3, GetsTarget
<1>5. n.rules = [i \in DOMAIN m.rules |-> n.rules[i]]
  BY <1>2
<1>6. Redirects(m, n, {old}, new)
  BY <1>1, <1>2, <1>4, <1>5, RedirectsIf
<1>7. Redirects(m, o, {old}, new)
  <2>1. o.rules = [i \in DOMAIN m.rules |-> o.rules[i]]
    BY <1>3, <1>5
  <2>2. o.sets = m.sets /\ {"rules", "sets"} \subseteq DOMAIN o
    BY <1>1, <1>2, <1>3
  <2>3. \A i \in DOMAIN m.rules : Redirected(m.rules[i], o.rules[i], {old}, new)
    BY <1>3, <1>4
  <2>4. QED
    BY <2>1, <2>2, <2>3, RedirectsIf
<1>8. QED
  BY <1>6, <1>7 DEF n, o

(* What is deleted has no rules of its own.                                *)
LEMMA WithoutRules ==
  ASSUME NEW m, RulesOk(m), NEW S
  PROVE  /\ DOMAIN Without(m, S) = DOMAIN m
         /\ Without(m, S).rules = m.rules /\ Without(m, S).sets = m.sets
<1> DEFINE R == Cascade(m, S)
           left == Those(m.groups, {i \in DOMAIN m.groups : m.groups[i].name \notin R})
           outs == Those(m.outs, {i \in DOMAIN m.outs : m.outs[i].tag \notin S})
           groups == [i \in DOMAIN left |-> [left[i] EXCEPT !.proxies = @ \ R]]
<1>1. {"rules", "sets"} \subseteq DOMAIN m
  BY DEF RulesOk
<1>2. Without(m, S) = [m EXCEPT !.outs = outs, !.groups = groups]
  BY DEF Without
<1> HIDE DEF outs, groups
<1>3. QED
  BY <1>1, <1>2

(* The routes that lost their target.                                      *)
LEMMA RetargetRedirects ==
  ASSUME NEW m, RulesOk(m), NEW y
  PROVE  Redirects(m, Retarget(m, y), RuleTargets(m) \ Routable(m), y)
<1> DEFINE S == RuleTargets(m) \ Routable(m)
           n == Retarget(m, y)
<1>1. /\ {"rules", "sets"} \subseteq DOMAIN m
      /\ \A i \in DOMAIN m.rules : Ruly(m.rules[i])
  BY DEF RulesOk, ToSet
<1>2. /\ n.sets = m.sets /\ DOMAIN n = DOMAIN m
      /\ n.rules = [i \in DOMAIN m.rules |->
                     IF m.rules[i].out \in Routable(m) \cup {None} THEN m.rules[i]
                                              ELSE [m.rules[i] EXCEPT !.out = y]]
  BY <1>1 DEF Retarget
<1>3. \A i \in DOMAIN m.rules :
        m.rules[i].out \in S <=> m.rules[i].out \notin Routable(m) \cup {None}
  BY DEF RuleTargets
<1> HIDE DEF n, S
<1>4. ASSUME NEW i \in DOMAIN m.rules PROVE Redirected(m.rules[i], n.rules[i], S, y)
  <2>1. PICK u : u = m.rules[i]
    OBVIOUS
  <2>2. n.rules[i] = IF u.out \in S THEN [u EXCEPT !.out = y] ELSE u
    BY <1>2, <1>3, <2>1
  <2>3. Ruly(u)
    BY <1>1, <2>1
  <2>4. QED
    BY <2>1, <2>2, <2>3, KeepsTarget
<1>5. n.rules = [i \in DOMAIN m.rules |-> n.rules[i]]
  BY <1>2
<1>6. Redirects(m, n, S, y)
  BY <1>1, <1>2, <1>4, <1>5, RedirectsIf
<1>7. QED
  BY <1>6 DEF n, S

(* The web's deletion: every rule without a live target.                   *)
LEMMA DeleteOutboundRedirects ==
  ASSUME NEW m, RulesOk(m), "final" \in DOMAIN m, NEW tag,
         NEW n, n = DeleteOutbound(m, tag)
  PROVE  /\ Redirects(m, n, {m.rules[i].out : i \in DOMAIN m.rules} \ Routable(n), n.final)
         /\ Routable(n) = Routable(Without(m, {tag}))
<1> DEFINE w == Without(m, {tag})
           outs == Those(w.outs, {i \in DOMAIN w.outs : w.outs[i].type \in {"proxy", "direct"}})
           final == IF m.final \in Routable(w) THEN m.final ELSE outs[1].tag
           S == {m.rules[i].out : i \in DOMAIN m.rules} \ Routable(n)
<1>1. /\ {"rules", "sets"} \subseteq DOMAIN m
      /\ \A i \in DOMAIN m.rules : Ruly(m.rules[i])
  BY DEF RulesOk, ToSet
<1>2. DOMAIN w = DOMAIN m /\ w.rules = m.rules /\ w.sets = m.sets
  BY WithoutRules
<1>3. n = [w EXCEPT !.final = final,
                    !.rules = [i \in DOMAIN @ |->
                      IF @[i].out \in Routable(w) THEN @[i] ELSE [@[i] EXCEPT !.out = final]]]
  BY DEF DeleteOutbound
<1> HIDE DEF w, final
<1>4. /\ n.sets = m.sets /\ DOMAIN n = DOMAIN m
      /\ n.rules = [i \in DOMAIN m.rules |->
           IF m.rules[i].out \in Routable(w) THEN m.rules[i]
                                             ELSE [m.rules[i] EXCEPT !.out = final]]
      /\ n.final = final
  BY <1>1, <1>2, <1>3
<1>5. n.outs = w.outs /\ n.groups = w.groups
  BY <1>3
<1>6. Routable(n) = Routable(w)
  BY <1>5 DEF Routable, RoutableTags
<1>7. \A i \in DOMAIN m.rules : m.rules[i].out \in S <=> m.rules[i].out \notin Routable(w)
  BY <1>6
<1> HIDE DEF S
<1>8. ASSUME NEW i \in DOMAIN m.rules PROVE Redirected(m.rules[i], n.rules[i], S, final)
  <2>1. PICK u : u = m.rules[i]
    OBVIOUS
  <2>2. n.rules[i] = IF u.out \in S THEN [u EXCEPT !.out = final] ELSE u
    BY <1>4, <1>7, <2>1
  <2>3. Ruly(u)
    BY <1>1, <2>1
  <2>4. QED
    BY <2>1, <2>2, <2>3, KeepsTarget
<1>9. n.rules = [i \in DOMAIN m.rules |-> n.rules[i]]
  BY <1>4
<1>10. Redirects(m, n, S, final)
  BY <1>1, <1>4, <1>8, <1>9, RedirectsIf
<1>11. QED
  BY <1>4, <1>6, <1>10 DEF S, w

-----------------------------------------------------------------------------
(* What the requests do to the rules.                                      *)

(* The lists of MosDNS, and what the handlers read of them.                *)
ListOps == {"add_direct", "add_rule", "web_add_rule", "del_rule", "del_rules_bulk", "patch_rule"}

LEMMA ListsRead ==
  ASSUME NEW op
  PROVE  /\ op.do \in {"add_direct", "del_rule", "del_rules_bulk", "patch_rule"} =>
              Reads(op) = {"direct", "hijack"}
         /\ op.do \in {"add_rule", "web_add_rule"} => Reads(op) = {"hijack"}
         /\ op.do # "restore" => "model" \notin Reads(op)
<1>1. ASSUME op.do \in {"add_direct", "del_rule", "del_rules_bulk", "patch_rule"}
      PROVE  Reads(op) = {"direct", "hijack"}
  BY <1>1 DEF Reads, RuleSetOps
<1>2. ASSUME op.do \in {"add_rule", "web_add_rule"} PROVE Reads(op) = {"hijack"}
  BY <1>2 DEF Reads, RuleSetOps
<1>3. ASSUME op.do # "restore" PROVE "model" \notin Reads(op)
  <2>1. Reads(op) \in {{"direct", "hijack"}, {"hijack"}, {"meta"}, {}}
    BY <1>3, Zenon DEF Reads
  <2>2. QED
    BY <2>1
<1>4. QED
  BY <1>1, <1>2, <1>3

(* The edits of one of the other lists, or of the default.                 *)
LEMMA ListEdits ==
  ASSUME NEW op, NEW s, NEW m, RulesOk(m), NEW ruled,
         op.do \in {"reorder_exits", "add_exit", "replace_exit", "set_default_exit",
                    "add_group", "add_policy_group"},
         NEW files, files = Change(op, s, m, ruled)
  PROVE  \E n : /\ n.rules = m.rules /\ n.sets = m.sets /\ DOMAIN n = DOMAIN m
                /\ files = NoFiles \/ files = ModelOnly(n)
<1>1. files = NoFiles
        \/ (\E x : files = ModelOnly([m EXCEPT !.outs = x]))
        \/ (\E x : files = ModelOnly([m EXCEPT !.final = x]))
        \/ (\E x : files = ModelOnly([m EXCEPT !.groups = x]))
  <2>1. CASE op.do = "reorder_exits"
    <3>1. files = ReorderExits(op, m)
      BY <2>1, Zenon DEF Change
    <3>2. QED
      BY <3>1, Zenon DEF ReorderExits
  <2>2. CASE op.do = "add_exit"
    <3>1. files = AddExit(op, m)
      BY <2>2, Zenon DEF Change
    <3>2. QED
      BY <3>1, Zenon DEF AddExit
  <2>3. CASE op.do = "replace_exit"
    <3>1. files = ReplaceExit(op, m)
      BY <2>3, Zenon DEF Change
    <3>2. QED
      BY <3>1, Zenon DEF ReplaceExit
  <2>4. CASE op.do = "set_default_exit"
    <3>1. files = SetDefaultExit(op, m)
      BY <2>4, Zenon DEF Change
    <3>2. QED
      BY <3>1, Zenon DEF SetDefaultExit
  <2>5. CASE op.do = "add_group"
    <3>1. files = AddGroup(op, m)
      BY <2>5, Zenon DEF Change
    <3>2. QED
      BY <3>1, Zenon DEF AddGroup
  <2>6. CASE op.do = "add_policy_group"
    <3>1. files = AddPolicyGroup(op, m)
      BY <2>6, Zenon DEF Change
    <3>2. QED
      BY <3>1, Zenon DEF AddPolicyGroup
  <2>7. QED
    BY <2>1, <2>2, <2>3, <2>4, <2>5, <2>6
<1>2. {"rules", "sets"} \subseteq DOMAIN m
  BY DEF RulesOk
<1>3. \A x : LET n == [m EXCEPT !.outs = x]
             IN n.rules = m.rules /\ n.sets = m.sets /\ DOMAIN n = DOMAIN m
  BY <1>2
<1>4. \A x : LET n == [m EXCEPT !.final = x]
             IN n.rules = m.rules /\ n.sets = m.sets /\ DOMAIN n = DOMAIN m
  BY <1>2
<1>5. \A x : LET n == [m EXCEPT !.groups = x]
             IN n.rules = m.rules /\ n.sets = m.sets /\ DOMAIN n = DOMAIN m
  BY <1>2
<1>6. QED
  BY <1>1, <1>3, <1>4, <1>5, Zenon

(* The edits of rules for domains, but for the lists.                      *)
LEMMA KeepingChange ==
  ASSUME NEW op, NEW s, NEW m, RulesOk(m), NEW ruled,
         op.do \in ListOps \cup {"reassign_rule", "reorder_exits", "add_exit", "replace_exit",
           "set_default_exit", "set_tg_exit", "add_group", "add_policy_group"},
         op.do = "reassign_rule" => (op.idx \in DOMAIN m.rules => m.rules[op.idx].set = None),
         NEW files, files = Change(op, s, m, ruled)
  PROVE  /\ DOMAIN files \subseteq {"model", "direct", "hijack"}
         /\ op.do \notin ListOps => DOMAIN files \subseteq {"model"}
         /\ "model" \in DOMAIN files =>
              /\ SameSets(m, files.model)
              /\ op.do \notin ListOps => Ruled(files.model) \subseteq Ruled(m)
<1>0. {"rules", "sets"} \subseteq DOMAIN m
  BY DEF RulesOk
<1>1. \A x : /\ DOMAIN ModelOnly(x) = {"model"} /\ ModelOnly(x).model = x
             /\ \A g : /\ DOMAIN And(ModelOnly(x), g) = {"model"} \cup DOMAIN g
                       /\ And(ModelOnly(x), g).model = x
  BY ModelAnd
<1>2. /\ \A d, h : DOMAIN Both(d, h) = {"direct", "hijack"}
      /\ DOMAIN NoFiles = {}
  BY DEF Both, NoFiles
<1>3. ASSUME NEW n, n.rules = m.rules, n.sets = m.sets, DOMAIN n = DOMAIN m
      PROVE  SameSets(m, n) /\ Ruled(n) \subseteq Ruled(m)
  BY <1>0, <1>3, SameRules DEF Keeps
<1>4. CASE op.do = "add_direct"
  <2>1. files = AddDirectRule(op, s)
    BY <1>4, Zenon DEF Change
  <2>2. QED
    BY <1>2, <1>4, <2>1 DEF AddDirectRule, ListOps
<1>5. CASE op.do \in {"add_rule", "web_add_rule"}
  <2>1. files = AddRule(op, s, m)
    BY <1>5, Zenon DEF Change
  <2>2. PICK x : x = AddDomain(m, op.dom, op.to)
    OBVIOUS
  <2>3. PICK g : g = [f \in {"hijack"} |-> s.hijack \cup {op.dom}]
    OBVIOUS
  <2>4. files = And(ModelOnly(x), g)
    BY <2>1, <2>2, <2>3 DEF AddRule
  <2>5. SameSets(m, x)
    BY <2>2, AddDomainKeeps DEF Keeps
  <2>6. DOMAIN files = {"model", "hijack"} /\ files.model = x
    BY <1>1, <2>3, <2>4
  <2>7. QED
    BY <1>5, <2>5, <2>6 DEF ListOps
<1>6. CASE op.do \in {"del_rule", "del_rules_bulk"}
  <2>1. PICK ds : /\ op.do = "del_rule" => ds = {op.dom}
                  /\ op.do = "del_rules_bulk" => ds = op.doms
    BY <1>6
  <2>2. PICK x : x = DropDomains(m, ds)
    OBVIOUS
  <2>3. SameSets(m, x)
    BY <2>2, DropDomainsKeeps DEF Keeps
  <2>4. \/ \E d, h : files = And(ModelOnly(x), Both(d, h)) \/ files = Both(d, h)
        \/ files = NoFiles
    <3>1. CASE op.do = "del_rule"
      <4>1. files = DelRule(op, s, m, ruled)
        BY <3>1, Zenon DEF Change
      <4>2. x = DropDomains(m, {op.dom})
        BY <2>1, <2>2, <3>1
      <4>3. QED
        BY <4>1, <4>2, Zenon DEF DelRule
    <3>2. CASE op.do = "del_rules_bulk"
      <4>1. files = DelRulesBulk(op, s, m)
        BY <3>2, Zenon DEF Change
      <4>2. x = DropDomains(m, op.doms)
        BY <2>1, <2>2, <3>2
      <4>3. QED
        BY <4>1, <4>2, Zenon DEF DelRulesBulk
    <3>3. QED
      BY <1>6, <3>1, <3>2
  <2>5. /\ DOMAIN files \subseteq {"model", "direct", "hijack"}
        /\ "model" \in DOMAIN files => files.model = x
    <3>1. PICK d, h : \/ files = And(ModelOnly(x), Both(d, h))
                      \/ files = Both(d, h) \/ files = NoFiles
      BY <2>4, Zenon
    <3>2. PICK b : b = Both(d, h)
      OBVIOUS
    <3>3. DOMAIN b = {"direct", "hijack"}
      BY <1>2, <3>2
    <3>4. CASE files = And(ModelOnly(x), b)
      <4>1. DOMAIN files = {"model"} \cup DOMAIN b /\ files.model = x
        BY <1>1, <3>4, Zenon
      <4>2. QED
        BY <3>3, <4>1
    <3>5. CASE files = b \/ files = NoFiles
      BY <1>2, <3>3, <3>5
    <3>6. QED
      BY <3>1, <3>2, <3>4, <3>5
  <2>6. QED
    BY <1>6, <2>3, <2>5 DEF ListOps
<1>7. CASE op.do = "patch_rule"
  <2>1. files = PatchRule(op, s, m)
    BY <1>7, Zenon DEF Change
  <2>2. PICK x : x = MoveDomain(m, op.dom, op.to)
    OBVIOUS
  <2>3. SameSets(m, x)
    BY <2>2, MoveDomainKeeps DEF Keeps
  <2>4. files = NoFiles \/ \E d, h : files = And(ModelOnly(x), Both(d, h))
    BY <2>1, <2>2, Zenon DEF PatchRule
  <2>5. /\ DOMAIN files \subseteq {"model", "direct", "hijack"}
        /\ "model" \in DOMAIN files => files.model = x
    <3>1. PICK d, h : \/ files = And(ModelOnly(x), Both(d, h))
                      \/ files = Both(d, h) \/ files = NoFiles
      BY <2>4, Zenon
    <3>2. PICK b : b = Both(d, h)
      OBVIOUS
    <3>3. DOMAIN b = {"direct", "hijack"}
      BY <1>2, <3>2
    <3>4. CASE files = And(ModelOnly(x), b)
      <4>1. DOMAIN files = {"model"} \cup DOMAIN b /\ files.model = x
        BY <1>1, <3>4, Zenon
      <4>2. QED
        BY <3>3, <4>1
    <3>5. CASE files = b \/ files = NoFiles
      BY <1>2, <3>3, <3>5
    <3>6. QED
      BY <3>1, <3>2, <3>4, <3>5
  <2>6. QED
    BY <1>7, <2>3, <2>5 DEF ListOps
<1>8. CASE op.do = "reassign_rule"
  <2>1. files = ReassignRule(op, m)
    BY <1>8, Zenon DEF Change
  <2>2. CASE op.idx \notin DOMAIN m.rules
    BY <1>2, <2>1, <2>2 DEF ReassignRule
  <2>3. CASE op.idx \in DOMAIN m.rules
    <3>1. files = ModelOnly(Reassign(m, op.idx, op.to))
      BY <2>1, <2>3 DEF ReassignRule
    <3>2. /\ SameSets(m, Reassign(m, op.idx, op.to))
          /\ Ruled(Reassign(m, op.idx, op.to)) \subseteq Ruled(m)
      BY <1>8, <2>3, ReassignKeeps DEF Keeps
    <3>3. QED
      BY <1>1, <1>8, <3>1, <3>2
  <2>4. QED
    BY <2>2, <2>3
<1>9. CASE op.do = "set_tg_exit"
  <2>1. files = SetTgExit(op, m)
    BY <1>9, Zenon DEF Change
  <2>2. /\ SameSets(m, PinTelegram(m, op.to))
        /\ Ruled(PinTelegram(m, op.to)) \subseteq Ruled(m)
    BY PinTelegramKeeps DEF Keeps
  <2>3. QED
    BY <1>1, <2>1, <2>2 DEF SetTgExit
<1>10. CASE op.do \in {"reorder_exits", "add_exit", "replace_exit", "set_default_exit",
                       "add_group", "add_policy_group"}
  <2>1. PICK n : /\ n.rules = m.rules /\ n.sets = m.sets /\ DOMAIN n = DOMAIN m
                 /\ files = NoFiles \/ files = ModelOnly(n)
    BY <1>10, ListEdits
  <2>2. SameSets(m, n) /\ Ruled(n) \subseteq Ruled(m)
    BY <1>3, <2>1
  <2>3. QED
    BY <1>1, <1>2, <2>1, <2>2
<1>11. QED
  BY <1>4, <1>5, <1>6, <1>7, <1>8, <1>9, <1>10 DEF ListOps

-----------------------------------------------------------------------------
(* Targets, and what is left of them.                                      *)

(* The targets of a model are its outbounds of some types and its groups.  *)
LEMMA RoutableIs ==
  ASSUME NEW m, Plain(m)
  PROVE  Routable(m) = {m.outs[i].tag : i \in {j \in DOMAIN m.outs : m.outs[j].type \in RoutableType}}
                         \cup GroupNames(m)
<1> DEFINE I == {i \in DOMAIN m.outs : m.outs[i].type \in RoutableType}
           outs == Those(m.outs, I)
           a == [i \in DOMAIN outs |-> outs[i].tag]
           b == [i \in DOMAIN m.groups |-> m.groups[i].name]
<1>1. IsList(m.outs) /\ IsList(m.groups)
  BY DEF Plain
<1>2. IsList(outs) /\ ToSet(outs) = {m.outs[i] : i \in I}
  <2>1. I \in SUBSET DOMAIN m.outs
    OBVIOUS
  <2> HIDE DEF I
  <2>2. QED
    BY <1>1, <2>1, OnThose
<1>3. RoutableTags(m) = a \o b
  BY DEF RoutableTags
<1>4. IsList(a) /\ ToSet(a) = {a[i] : i \in DOMAIN outs}
  <2> HIDE DEF outs
  <2>1. a = [i \in DOMAIN outs |-> a[i]]
    OBVIOUS
  <2> HIDE DEF a
  <2>2. QED
    BY <1>2, <2>1, OnMap
<1>5. IsList(b) /\ ToSet(b) = {b[i] : i \in DOMAIN m.groups}
  <2>1. b = [i \in DOMAIN m.groups |-> b[i]]
    OBVIOUS
  <2> HIDE DEF b
  <2>2. QED
    BY <1>1, <2>1, OnMap
<1>6. ToSet(b) = GroupNames(m)
  BY <1>5 DEF GroupNames
<1>7. ToSet(a) = {m.outs[i].tag : i \in I}
  <2>1. ToSet(outs) = {outs[i] : i \in DOMAIN outs}
    BY DEF ToSet
  <2> HIDE DEF outs, I
  <2>2. \A i \in DOMAIN outs : a[i] = outs[i].tag
    OBVIOUS
  <2> HIDE DEF a
  <2>3. \A i \in DOMAIN outs : \E j \in I : outs[i] = m.outs[j]
    BY <1>2, <2>1
  <2>4. \A j \in I : \E i \in DOMAIN outs : outs[i] = m.outs[j]
    BY <1>2, <2>1
  <2>5. QED
    BY <1>4, <2>2, <2>3, <2>4
<1> HIDE DEF a, b, I
<1>8. ToSet(a \o b) = ToSet(a) \cup ToSet(b)
  BY <1>4, <1>5, OnBoth
<1>9. QED
  BY <1>3, <1>6, <1>7, <1>8 DEF Routable, I

(* So they all are names.                                                  *)
LEMMA RoutableIn ==
  ASSUME NEW m, Plain(m)
  PROVE  Routable(m) \subseteq OutTags(m) \cup GroupNames(m)
BY RoutableIs DEF OutTags

(* What a rename leaves behind is no target.                               *)
LEMMA RenamedGone ==
  ASSUME NEW m, Plain(m), NEW old, NEW new, new # Direct, new # old
  PROVE  /\ old \notin Routable(Rename(m, old, new))
         /\ old \notin GroupNames(RenameReferences(m, old, new))
         /\ RenameReferences(m, old, new).outs = m.outs
<1> DEFINE n == RenameReferences(m, old, new)
           o == Rename(m, old, new)
<1>1. {"outs", "groups", "final"} \subseteq DOMAIN m
  BY DEF Plain
<1>2. /\ n.outs = m.outs /\ DOMAIN n = DOMAIN m
      /\ n.groups = [i \in DOMAIN m.groups |->
           [m.groups[i] EXCEPT !.name = Sub(old, new, @),
                               !.proxies = {Sub(old, new, x) : x \in @}]]
  BY <1>1 DEF RenameReferences
<1>3. /\ o.groups = n.groups
      /\ o.outs = [i \in DOMAIN n.outs |-> [n.outs[i] EXCEPT !.tag = Sub(old, new, @)]]
  <2>1. o = [n EXCEPT !.outs = [i \in DOMAIN n.outs |->
                                 [n.outs[i] EXCEPT !.tag = Sub(old, new, @)]]]
    BY DEF Rename
  <2> HIDE DEF n, o
  <2>2. QED
    BY <1>1, <1>2, <2>1
<1>4. Plain(o) /\ Plain(n)
  BY RenamePlain
<1>5. \A x : Sub(old, new, x) # old
  BY DEF Sub
<1> HIDE DEF n, o
<1>6. /\ \A i \in DOMAIN m.groups : "name" \in DOMAIN m.groups[i]
      /\ \A i \in DOMAIN m.outs : "tag" \in DOMAIN m.outs[i]
  BY PlainIff DEF PlainGroup, PlainOut
<1>7. \A i \in DOMAIN n.groups : n.groups[i].name # old
  <2>1. TAKE i \in DOMAIN n.groups
  <2>2. PICK u : u = m.groups[i]
    OBVIOUS
  <2>3. PICK y : y = {Sub(old, new, x) : x \in u.proxies}
    OBVIOUS
  <2>4. n.groups[i] = [u EXCEPT !.name = Sub(old, new, u.name), !.proxies = y]
    BY <1>2, <2>2, <2>3
  <2>5. "name" \in DOMAIN u
    BY <1>2, <1>6, <2>2
  <2>6. n.groups[i].name = Sub(old, new, u.name)
    BY <2>4, <2>5
  <2>7. QED
    BY <1>5, <2>6
<1>8. \A i \in DOMAIN o.outs : o.outs[i].tag # old
  <2>1. TAKE i \in DOMAIN o.outs
  <2>2. PICK u : u = m.outs[i]
    OBVIOUS
  <2>3. o.outs[i] = [u EXCEPT !.tag = Sub(old, new, u.tag)]
    BY <1>2, <1>3, <2>2
  <2>4. "tag" \in DOMAIN u
    BY <1>2, <1>3, <1>6, <2>2
  <2>5. QED
    BY <1>5, <2>3, <2>4
<1>9. old \notin GroupNames(n) /\ old \notin GroupNames(o) /\ old \notin OutTags(o)
  BY <1>3, <1>7, <1>8 DEF GroupNames, OutTags
<1>10. QED
  BY <1>2, <1>4, <1>9, RoutableIn DEF n, o

(* What a deletion leaves: the targets it does not cascade to.             *)
LEMMA WithoutRoutable ==
  ASSUME NEW m, Plain(m), OutTags(m) \cap GroupNames(m) = {}, NEW S, NEW x \in Routable(m)
  PROVE  x \in Routable(Without(m, S)) <=> x \notin Cascade(m, S)
<1> DEFINE n == Without(m, S)
           R == Cascade(m, S)
           I == {i \in DOMAIN m.outs : m.outs[i].tag \notin S}
           J == {i \in DOMAIN m.groups : m.groups[i].name \notin R}
           left == Those(m.groups, J)
<1>1. /\ {"outs", "groups", "final"} \subseteq DOMAIN m
      /\ IsList(m.outs) /\ IsList(m.groups)
  BY DEF Plain
<1>2. I \in SUBSET DOMAIN m.outs /\ J \in SUBSET DOMAIN m.groups
  OBVIOUS
<1>3. /\ n.outs = Those(m.outs, I)
      /\ n.groups = [i \in DOMAIN left |-> [left[i] EXCEPT !.proxies = @ \ R]]
  <2>1. n = [m EXCEPT !.outs = Those(@, {i \in DOMAIN @ : @[i].tag \notin S}),
                      !.groups = [i \in DOMAIN left |-> [left[i] EXCEPT !.proxies = @ \ R]]]
    BY DEF Without
  <2> HIDE DEF n, left, R
  <2>2. QED
    BY <1>1, <2>1
<1>4. S \cap (S \cup GroupNames(m)) \subseteq R /\ R \subseteq S \cup GroupNames(m)
  BY DEF Cascade
<1>5. Plain(n)
  BY WithoutPlain
<1> HIDE DEF n, R
<1>6. /\ ToSet(n.outs) = {m.outs[i] : i \in I}
      /\ ToSet(left) = {m.groups[i] : i \in J} /\ IsList(left)
  <2> HIDE DEF I, J
  <2>1. QED
    BY <1>1, <1>2, <1>3, OnThose
<1>7. {n.outs[i].tag : i \in {j \in DOMAIN n.outs : n.outs[j].type \in RoutableType}}
        = {m.outs[i].tag : i \in {j \in I : m.outs[j].type \in RoutableType}}
  <2>1. \A i \in DOMAIN n.outs : \E j \in I : n.outs[i] = m.outs[j]
    BY <1>6 DEF ToSet
  <2>2. \A j \in I : \E i \in DOMAIN n.outs : n.outs[i] = m.outs[j]
    BY <1>6 DEF ToSet
  <2> HIDE DEF I
  <2>3. QED
    BY <2>1, <2>2
<1>8. GroupNames(n) = {m.groups[i].name : i \in J}
  <2>1. \A i \in DOMAIN left : \E j \in J : left[i] = m.groups[j]
    BY <1>6 DEF ToSet
  <2>2. \A j \in J : \E i \in DOMAIN left : left[i] = m.groups[j]
    BY <1>6 DEF ToSet
  <2>3. DOMAIN n.groups = DOMAIN left
    BY <1>3
  <2>4. ASSUME NEW i \in DOMAIN left PROVE n.groups[i].name = left[i].name
    <3>1. n.groups[i] = [left[i] EXCEPT !.proxies = @ \ R]
      BY <1>3
    <3>2. PICK u : u = left[i]
      OBVIOUS
    <3>3. PICK y : y = u.proxies \ R
      OBVIOUS
    <3>4. "name" \in DOMAIN u
      BY <2>1, <3>2, PlainIff DEF PlainGroup
    <3>5. n.groups[i] = [u EXCEPT !.proxies = y]
      BY <3>1, <3>2, <3>3
    <3>6. QED
      BY <3>2, <3>4, <3>5
  <2> HIDE DEF left, J
  <2>5. QED
    BY <2>1, <2>2, <2>3, <2>4 DEF GroupNames
<1>9. x \in GroupNames(m) => (x \in GroupNames(n) <=> x \notin R)
  BY <1>8 DEF GroupNames
<1>10. GroupNames(n) \subseteq GroupNames(m)
  BY <1>8 DEF GroupNames
<1>11. CASE x \in GroupNames(m)
  <2>1. x \notin OutTags(n)
    <3>1. x \notin OutTags(m)
      BY <1>11
    <3>2. OutTags(n) \subseteq OutTags(m)
      <4>1. \A i \in DOMAIN n.outs : \E j \in I : n.outs[i] = m.outs[j]
        BY <1>6 DEF ToSet
      <4>2. QED
        BY <4>1 DEF OutTags
    <3>3. QED
      BY <3>1, <3>2
  <2>2. x \in Routable(n) <=> x \in GroupNames(n)
    BY <1>5, <2>1, RoutableIs, RoutableIn
  <2>3. QED
    BY <1>9, <1>11, <2>2 DEF n, R
<1>12. CASE x \notin GroupNames(m)
  <2>1. \E i \in DOMAIN m.outs : m.outs[i].type \in RoutableType /\ m.outs[i].tag = x
    BY <1>12, RoutableIs
  <2>2. x \in Routable(n) <=> x \notin S
    BY <1>5, <1>7, <1>10, <1>12, <2>1, RoutableIs
  <2>3. x \in R <=> x \in S
    BY <1>4, <1>12
  <2>4. QED
    BY <2>2, <2>3 DEF n, R
<1>13. QED
  BY <1>11, <1>12

-----------------------------------------------------------------------------
(* The requests that redirect what named an exit or a group.               *)

RedirectOps == {"rename_exit", "set_direct_tag", "delete_exit", "web_delete_exit",
                "patch_group", "delete_group"}

(* The rules of m are redirected in n, and the rule sets of meta, or such  *)
(* of them as n can have, alike.                                           *)
Moves(m, n, meta, S, T, y) ==
  /\ Redirects(m, n, S, y)
  /\ \A x \in S \cap Routable(n) : x = y
  /\ \A x \in RuleTargets(m) \cap Routable(m) :
       x \in {meta[r].to : r \in DOMAIN meta} => (x \in S <=> x \in T)

Moved(files, meta, m) ==
  \E n, S, T, y : /\ files = And(ModelOnly(n), IfDirty(meta, MetaTo(meta, T, y)))
                  /\ Moves(m, n, meta, S, T, y)

LEMMA RenameMoved ==
  ASSUME NEW op, op.new # Direct, NEW s, NEW m, RulesOk(m), Plain(m)
  PROVE  Moved(RenameExit(op, s, m), s.meta, m)
<1> DEFINE n == Rename(m, op.tag, op.new)
<1>1. Redirects(m, n, {op.tag}, op.new)
  BY RenameRedirects
<1>2. \A x \in {op.tag} \cap Routable(n) : x = op.new
  BY RenamedGone
<1>3. Moves(m, n, s.meta, {op.tag}, {op.tag}, op.new)
  BY <1>1, <1>2 DEF Moves
<1>4. RenameExit(op, s, m)
        = And(ModelOnly(n), IfDirty(s.meta, MetaTo(s.meta, {op.tag}, op.new)))
  BY DEF RenameExit
<1> HIDE DEF n
<1>5. QED
  BY <1>3, <1>4 DEF Moved

(* A deletion of an exit or group by the bot, or of a group by the web.    *)
LEMMA RetargetMoves ==
  ASSUME NEW m, RulesOk(m), Plain(m), Valid(m), NEW tag, NEW y, NEW meta
  PROVE  Moves(m, Retarget(Without(m, {tag}), y), meta,
               RuleTargets(m) \ Routable(Without(m, {tag})), Cascade(m, {tag}), y)
<1> DEFINE w == Without(m, {tag})
           n == Retarget(w, y)
           S == RuleTargets(m) \ Routable(w)
<1>1. DOMAIN w = DOMAIN m /\ w.rules = m.rules /\ w.sets = m.sets
  BY WithoutRules
<1>2. Plain(w) /\ Plain(n)
  BY WithoutPlain, SameListsPlain, RuleEdits
<1>3. Routable(n) = Routable(w)
  BY <1>2, RuleEdits, SameTags
<1> HIDE DEF w
<1>4. RulesOk(w) /\ RuleTargets(w) = RuleTargets(m)
  BY <1>1 DEF RulesOk, RuleTargets
<1>5. Redirects(w, n, S, y)
  BY <1>4, RetargetRedirects
<1> HIDE DEF n
<1>6. Redirects(m, n, S, y)
  BY <1>1, <1>5, Zenon DEF Redirects, Ruled, Sent
<1>7. OutTags(m) \cap GroupNames(m) = {}
  BY DEF Valid, ValidNoTargets
<1>8. \A x \in Routable(m) : x \in Routable(w) <=> x \notin Cascade(m, {tag})
  BY <1>7, WithoutRoutable DEF w
<1>9. Moves(m, n, meta, S, Cascade(m, {tag}), y)
  BY <1>3, <1>6, <1>8 DEF Moves
<1>10. QED
  BY <1>9 DEF n, w

LEMMA DeleteMoved ==
  ASSUME NEW op, NEW s, NEW m, RulesOk(m), Plain(m), Valid(m)
  PROVE  Moved(DeleteExit(op, s, m), s.meta, m)
<1> DEFINE y == Fallback(m, {op.tag})
           n == Retarget(Without(m, {op.tag}), y)
           T == Cascade(m, {op.tag})
<1>1. Moves(m, n, s.meta, RuleTargets(m) \ Routable(Without(m, {op.tag})), T, y)
  BY RetargetMoves
<1>2. DeleteExit(op, s, m) = And(ModelOnly(n), IfDirty(s.meta, MetaTo(s.meta, T, y)))
  BY DEF DeleteExit
<1> HIDE DEF n, T, y
<1>3. QED
  BY <1>1, <1>2 DEF Moved

LEMMA DeleteGroupMoved ==
  ASSUME NEW op, NEW s, NEW m, RulesOk(m), Plain(m), Valid(m)
  PROVE  DeleteGroup(op, s, m) = NoFiles \/ Moved(DeleteGroup(op, s, m), s.meta, m)
<1> DEFINE all == RoutableTags(m)
           T == Cascade(m, {op.name})
           left == Those(all, {i \in DOMAIN all : all[i] \notin T})
           y == left[1]
           n == Retarget(Without(m, {op.name}), y)
<1>1. Moves(m, n, s.meta, RuleTargets(m) \ Routable(Without(m, {op.name})), T, y)
  BY RetargetMoves
<1>2. \/ DeleteGroup(op, s, m) = NoFiles
      \/ DeleteGroup(op, s, m) = And(ModelOnly(n), IfDirty(s.meta, MetaTo(s.meta, T, y)))
  BY DEF DeleteGroup
<1> HIDE DEF n, T, y
<1>3. QED
  BY <1>1, <1>2 DEF Moved

LEMMA WebDeleteMoved ==
  ASSUME NEW op, NEW s, NEW m, RulesOk(m), Plain(m)
  PROVE  WebDeleteExit(op, s, m) = NoFiles \/ Moved(WebDeleteExit(op, s, m), s.meta, m)
<1> DEFINE n == DeleteOutbound(m, op.tag)
           T == {s.meta[r].to : r \in DOMAIN s.meta} \ (Routable(n) \cup {Direct})
           S == {m.rules[i].out : i \in DOMAIN m.rules} \ Routable(n)
           y == n.final
<1>1. Redirects(m, n, S, y)
  BY DeleteOutboundRedirects DEF Plain
<1>2. \/ WebDeleteExit(op, s, m) = NoFiles
      \/ WebDeleteExit(op, s, m) = And(ModelOnly(n), IfDirty(s.meta, MetaTo(s.meta, T, y)))
  BY DEF WebDeleteExit
<1>3. Direct \notin Routable(m)
  BY PlainTargets
<1> HIDE DEF n, y
<1>4. Moves(m, n, s.meta, S, T, y)
  <2>1. \A x \in RuleTargets(m) : x \in S <=> x \notin Routable(n)
    BY DEF RuleTargets
  <2>2. QED
    BY <1>1, <1>3, <2>1 DEF Moves
<1> HIDE DEF T, S
<1>5. QED
  BY <1>2, <1>4 DEF Moved

(* Members and provider of a group do not matter to the rules, nor do they *)
(* bring back its old name.                                                *)
Patched(op, m) ==
  LET n == RenameReferences(m, op.name, op.new)
  IN  [n EXCEPT !.groups = [i \in DOMAIN @ |->
         IF @[i].name = op.new
         THEN [name |-> op.new, proxies |-> op.members, use |-> op.use]
         ELSE @[i]]]

LEMMA PatchMoved ==
  ASSUME NEW op, op.new # Direct, NEW s, NEW m, RulesOk(m), Plain(m), Valid(m),
         op.name \in GroupNames(m)
  PROVE  /\ PatchGroup(op, s, m) = NoFiles \/ Moved(PatchGroup(op, s, m), s.meta, m)
         /\ op.name # op.new => op.name \notin Routable(Patched(op, m))
<1> DEFINE n == RenameReferences(m, op.name, op.new)
           gs == [i \in DOMAIN n.groups |->
                    IF n.groups[i].name = op.new
                    THEN [name |-> op.new, proxies |-> op.members, use |-> op.use]
                    ELSE n.groups[i]]
           o == [n EXCEPT !.groups = gs]
<1>1. \/ PatchGroup(op, s, m) = NoFiles
      \/ PatchGroup(op, s, m)
           = And(ModelOnly(o), IfDirty(s.meta, MetaTo(s.meta, {op.name}, op.new)))
  BY DEF PatchGroup
<1>0. Patched(op, m) = o
  BY DEF Patched
<1>2. Redirects(m, n, {op.name}, op.new)
  BY RenameRedirects
<1>3. Plain(n)
  BY RenamePlain
<1>4. {"rules", "sets"} \subseteq DOMAIN n
  BY <1>2 DEF Redirects, RulesOk
<1>5. {"outs", "groups", "final"} \subseteq DOMAIN n
  BY <1>3 DEF Plain
<1>6. op.name # op.new => op.name \notin GroupNames(n)
  BY RenamedGone
<1>7. n.outs = m.outs
  <2>1. CASE op.new # op.name
    BY <2>1, RenamedGone
  <2>2. CASE op.new = op.name
    BY DEF RenameReferences, Plain
  <2>3. QED
    BY <2>1, <2>2
<1> HIDE DEF n
<1>8. /\ o.rules = n.rules /\ o.sets = n.sets /\ DOMAIN o = DOMAIN n
      /\ o.outs = n.outs /\ o.groups = gs
  <2> HIDE DEF gs
  <2>1. QED
    BY <1>4, <1>5
<1>9. Redirects(m, o, {op.name}, op.new)
  <2> HIDE DEF o
  <2>1. QED
    BY <1>2, <1>8, Zenon DEF Redirects, RulesOk, Ruled, Sent
<1>10. op.name # op.new => op.name \notin Routable(o)
  <2> SUFFICES ASSUME op.name # op.new PROVE op.name \notin Routable(o)
    OBVIOUS
  <2>1. \A i \in DOMAIN gs : gs[i].name # op.name
    BY <1>6 DEF GroupNames
  <2>2. Plain(o)
    <3>1. gs = [i \in DOMAIN n.groups |-> gs[i]]
      OBVIOUS
    <3>2. \A i \in DOMAIN n.groups : PlainGroup(gs[i])
      BY <1>3, PlainIff DEF PlainGroup
    <3> HIDE DEF gs
    <3>3. QED
      BY <1>3, <3>1, <3>2, GroupsPlain
  <2>3. op.name \notin GroupNames(o)
    <3> HIDE DEF o, gs
    <3>1. QED
      BY <1>8, <2>1 DEF GroupNames
  <2>4. op.name \notin OutTags(o)
    <3>1. op.name \notin OutTags(m)
      BY DEF Valid, ValidNoTargets
    <3> HIDE DEF o
    <3>2. QED
      BY <1>7, <1>8, <3>1 DEF OutTags
  <2> HIDE DEF o
  <2>5. QED
    BY <2>2, <2>3, <2>4, RoutableIn
<1> HIDE DEF o
<1>11. Moves(m, o, s.meta, {op.name}, {op.name}, op.new)
  BY <1>9, <1>10 DEF Moves
<1>12. QED
  BY <1>0, <1>1, <1>10, <1>11 DEF Moved

(* All of them.                                                            *)
LEMMA RedirectChange ==
  ASSUME NEW op, op.do \in RedirectOps, Asked(op),
         NEW s, NEW m, RulesOk(m), Plain(m), Valid(m),
         op.do = "patch_group" => op.name \in GroupNames(m), NEW ruled
  PROVE  Change(op, s, m, ruled) = NoFiles \/ Moved(Change(op, s, m, ruled), s.meta, m)
<1>1. CASE op.do \in {"rename_exit", "set_direct_tag"}
  <2>1. Change(op, s, m, ruled) = RenameExit(op, s, m)
    BY <1>1, Zenon DEF Change
  <2>2. op.new # Direct
    BY <1>1 DEF Asked
  <2>3. QED
    BY <2>1, <2>2, RenameMoved
<1>2. CASE op.do = "delete_exit"
  <2>1. Change(op, s, m, ruled) = DeleteExit(op, s, m)
    BY <1>2, Zenon DEF Change
  <2>2. QED
    BY <2>1, DeleteMoved
<1>3. CASE op.do = "web_delete_exit"
  <2>1. Change(op, s, m, ruled) = WebDeleteExit(op, s, m)
    BY <1>3, Zenon DEF Change
  <2>2. QED
    BY <2>1, WebDeleteMoved
<1>4. CASE op.do = "patch_group"
  <2>1. Change(op, s, m, ruled) = PatchGroup(op, s, m)
    BY <1>4, Zenon DEF Change
  <2>2. op.new # Direct
    BY <1>4 DEF Asked
  <2>3. QED
    BY <1>4, <2>1, <2>2, PatchMoved
<1>5. CASE op.do = "delete_group"
  <2>1. Change(op, s, m, ruled) = DeleteGroup(op, s, m)
    BY <1>5, Zenon DEF Change
  <2>2. QED
    BY <2>1, DeleteGroupMoved
<1>6. QED
  BY <1>1, <1>2, <1>3, <1>4, <1>5 DEF RedirectOps

-----------------------------------------------------------------------------
(* Files that fit together, and the edits that keep them so.               *)

(* RuledDomainsReachGateway and RuleSetsAgree, of any files.               *)
Reach(s) == Ruled(s.model) \subseteq s.hijack \cup s.direct
AgreeOn(s, r) ==
  /\ r \in DOMAIN s.meta <=> s[r] # Missing
  /\ Sent(s.model, r) = IF r \in Providers(s.meta) THEN {s.meta[r].to} ELSE {}
  /\ r \in s.model.sets <=> r \in Providers(s.meta)
Agree(s) == \A r \in RuleSet : AgreeOn(s, r)
Consistent(s) == RulesOk(s.model) /\ Reach(s) /\ Agree(s)

(* N is what the files L are after the edit.                               *)
Written(N, files, L) ==
  /\ DOMAIN N = DOMAIN files \cup DOMAIN L
  /\ \A f \in DOMAIN files : N[f] = files[f]
  /\ \A f \in DOMAIN L : f \notin DOMAIN files => N[f] = L[f]

LEMMA AndWrites ==
  ASSUME NEW files, NEW L
  PROVE  Written(And(files, L), files, L)
BY AndFiles DEF Written

(* Nothing is done to the rule sets.                                       *)
LEMMA SetsStand ==
  ASSUME NEW L, File \subseteq DOMAIN L, Consistent(L), NEW files,
         DOMAIN files \subseteq {"model", "direct", "hijack"},
         "model" \in DOMAIN files => SameSets(L.model, files.model),
         NEW N, Written(N, files, L)
  PROVE  RulesOk(N.model) /\ Agree(N)
<1>1. /\ N.meta = L.meta
      /\ \A r \in RuleSet : N[r] = L[r]
      /\ N.model = IF "model" \in DOMAIN files THEN files.model ELSE L.model
  BY NoRuleSetFiles DEF File, Written
<1>2. SameSets(L.model, N.model)
  BY <1>1 DEF Consistent, SameSets
<1>3. ASSUME NEW r \in RuleSet
      PROVE  AgreeOn(N, r)
  <2>1. AgreeOn(L, r)
    BY DEF Consistent, Agree
  <2>2. /\ Sent(N.model, r) = Sent(L.model, r) /\ N.model.sets = L.model.sets
        /\ N[r] = L[r]
    BY <1>1, <1>2 DEF SameSets
  <2>3. QED
    BY <1>1, <2>1, <2>2 DEF AgreeOn
<1>4. QED
  BY <1>2, <1>3 DEF Agree, SameSets

(* What the web's deletion and the like stage.                             *)
LEMMA DirtyIs ==
  ASSUME NEW n, NEW meta, NEW new, NEW files, files = And(ModelOnly(n), IfDirty(meta, new))
  PROVE  /\ "model" \in DOMAIN files /\ files.model = n
         /\ DOMAIN files \subseteq {"model", "meta"}
         /\ "meta" \in DOMAIN files => files.meta = new
         /\ "meta" \notin DOMAIN files => new = meta
<1>1. /\ DOMAIN IfDirty(meta, new) = IF new = meta THEN {} ELSE {"meta"}
      /\ new # meta => IfDirty(meta, new).meta = new
  BY DEF IfDirty, NoFiles
<1>2. PICK g : g = IfDirty(meta, new)
  OBVIOUS
<1>3. /\ DOMAIN g = IF new = meta THEN {} ELSE {"meta"}
      /\ new # meta => g.meta = new
  BY <1>1, <1>2
<1>4. files = And(ModelOnly(n), g)
  BY <1>2
<1>5. /\ DOMAIN files = {"model"} \cup DOMAIN g /\ files.model = n
      /\ "meta" \in DOMAIN g => files.meta = g.meta
  BY <1>4, ModelAnd
<1>6. QED
  BY <1>3, <1>5

(* Targets are replaced in the model and, if it names them, in             *)
(* rulesets.json; if the latter was read before another edit and needs no  *)
(* change, the derivation has found its targets of now.                    *)
LEMMA MovedStand ==
  ASSUME NEW L, File \subseteq DOMAIN L, Consistent(L), Listing(L.meta),
         ClosedFiles(L), Plain(L.model),
         NEW meta, NEW files, Moved(files, meta, L.model),
         "meta" \in DOMAIN files => meta = L.meta /\ SameWay(L.meta, files.meta),
         NEW N, Written(N, files, L), Derivable(N.model, N.meta)
  PROVE  RulesOk(N.model) /\ Reach(N) /\ Agree(N)
<1>1. PICK n, S, T, y : /\ files = And(ModelOnly(n), IfDirty(meta, MetaTo(meta, T, y)))
                        /\ Moves(L.model, n, meta, S, T, y)
  BY DEF Moved
<1>2. /\ "model" \in DOMAIN files /\ files.model = n
      /\ DOMAIN files \subseteq {"model", "meta"}
      /\ "meta" \in DOMAIN files => files.meta = MetaTo(meta, T, y)
  BY <1>1, DirtyIs
<1>3. /\ N.model = n /\ N.direct = L.direct /\ N.hijack = L.hijack
      /\ \A r \in RuleSet : N[r] = L[r]
      /\ "meta" \in DOMAIN files => N.meta = MetaTo(L.meta, T, y)
      /\ "meta" \notin DOMAIN files => N.meta = L.meta
  <2>1. /\ \A f \in DOMAIN files : N[f] = files[f]
        /\ \A f \in DOMAIN L : f \notin DOMAIN files => N[f] = L[f]
    BY DEF Written
  <2>2. \A f \in File : f \notin DOMAIN files => N[f] = L[f]
    BY <2>1
  <2>3. \A r \in RuleSet : r \in File /\ r \notin DOMAIN files
    BY <1>2, NoRuleSetFiles DEF File
  <2>4. {"direct", "hijack", "meta"} \subseteq File
    BY DEF File
  <2>5. "meta" \in DOMAIN files => N.meta = MetaTo(L.meta, T, y)
    BY <1>2, <2>1
  <2>6. QED
    BY <1>2, <2>1, <2>2, <2>3, <2>4, <2>5
<1>4. /\ RulesOk(n) /\ Ruled(n) = Ruled(L.model) /\ n.sets = L.model.sets
      /\ \A q \in RuleSet : Sent(n, q) = {IF x \in S THEN y ELSE x : x \in Sent(L.model, q)}
  BY <1>1 DEF Moves, Redirects
<1>5. SameWay(L.meta, N.meta)
  <2>1. CASE "meta" \in DOMAIN files
    BY <1>2, <1>3, <2>1
  <2>2. CASE "meta" \notin DOMAIN files
    BY <1>3, <2>2 DEF SameWay
  <2>3. QED
    BY <2>1, <2>2
<1>6. DOMAIN N.meta = DOMAIN L.meta /\ Providers(N.meta) = Providers(L.meta)
  BY <1>5 DEF SameWay, Providers
<1>7. ASSUME NEW r \in RuleSet
      PROVE  AgreeOn(N, r)
  <2>1. AgreeOn(L, r)
    BY DEF Consistent, Agree
  <2>2. CASE r \notin Providers(L.meta)
    <3>1. Sent(n, r) = {}
      BY <1>4, <2>1, <2>2 DEF AgreeOn
    <3>2. QED
      BY <1>3, <1>4, <1>6, <2>1, <2>2, <3>1 DEF AgreeOn
  <2>3. CASE r \in Providers(L.meta)
    <3> DEFINE x == L.meta[r].to
    <3>1. r \in DOMAIN L.meta /\ x # Direct
      BY <2>3 DEF Providers
    <3>2. Sent(L.model, r) = {x}
      BY <2>1, <2>3 DEF AgreeOn
    <3>3. x \in Routable(L.model)
      BY <3>1 DEF ClosedFiles
    <3>4. x \in RuleTargets(L.model)
      <4>1. x # None
        <5>1. None \notin OutTags(L.model) \cup GroupNames(L.model)
          BY DEF ClosedFiles, Valid, ValidNoTargets
        <5>2. Routable(L.model) \subseteq OutTags(L.model) \cup GroupNames(L.model)
          BY RoutableIn
        <5> HIDE DEF x
        <5>3. QED
          BY <3>3, <5>1, <5>2
      <4>2. \E w \in ToSet(L.model.rules) : w.out = x
        <5>1. x \in Sent(L.model, r)
          BY <3>2
        <5> HIDE DEF x
        <5>2. QED
          BY <5>1, SentIs
      <4> HIDE DEF x
      <4>3. QED
        BY <4>1, <4>2 DEF RuleTargets, ToSet
    <3>5. Sent(n, r) = {IF x \in S THEN y ELSE x}
      <4> HIDE DEF x
      <4>1. QED
        BY <1>4, <3>2
    <3>6. N.meta[r].to = IF x \in S THEN y ELSE x
      <4>1. CASE "meta" \in DOMAIN files
        <5>1. meta = L.meta
          BY <4>1
        <5>2. x \in S <=> x \in T
          <6>1. x \in {meta[q].to : q \in DOMAIN meta}
            BY <3>1, <5>1
          <6> HIDE DEF x
          <6>2. QED
            BY <1>1, <3>3, <3>4, <6>1 DEF Moves
        <5>3. "to" \in DOMAIN L.meta[r]
          BY <3>1 DEF Listing
        <5>4. N.meta[r] = IF x \in T THEN [L.meta[r] EXCEPT !.to = y] ELSE L.meta[r]
          BY <1>3, <3>1, <4>1 DEF MetaTo
        <5>5. N.meta[r].to = IF x \in T THEN y ELSE x
          BY <5>3, <5>4
        <5> HIDE DEF x
        <5>6. QED
          BY <5>2, <5>5
      <4>2. CASE "meta" \notin DOMAIN files
        <5>1. N.meta[r].to = x
          BY <1>3, <4>2
        <5>2. x \in Routable(n)
          BY <1>3, <1>6, <3>1, <5>1 DEF Derivable
        <5>3. x \in S => x = y
          <6> HIDE DEF x
          <6>1. QED
            BY <1>1, <5>2 DEF Moves
        <5> HIDE DEF x
        <5>4. QED
          BY <5>1, <5>3
      <4>3. QED
        BY <4>1, <4>2
    <3> HIDE DEF x
    <3>7. r \in Providers(N.meta)
      BY <1>6, <2>3
    <3>8. QED
      BY <1>3, <1>4, <1>6, <2>1, <2>3, <3>5, <3>6, <3>7 DEF AgreeOn
  <2>4. QED
    BY <2>2, <2>3
<1>8. Reach(N)
  BY <1>3, <1>4 DEF Consistent, Reach
<1>9. QED
  BY <1>3, <1>4, <1>7, <1>8 DEF Agree

(* One rule set is changed, in the model and in rulesets.json.             *)
LEMMA ResendStands ==
  ASSUME NEW L, Consistent(L), NEW r \in RuleSet, NEW N, NEW X,
         Resends(L.model, N.model, r, X), N.direct = L.direct, N.hijack = L.hijack,
         \A q \in RuleSet \ {r} :
           /\ N[q] = L[q]
           /\ q \in DOMAIN N.meta <=> q \in DOMAIN L.meta
           /\ q \in DOMAIN L.meta => N.meta[q].to = L.meta[q].to,
         r \in DOMAIN N.meta <=> N[r] # Missing,
         X = IF r \in Providers(N.meta) THEN {N.meta[r].to} ELSE {}
  PROVE  RulesOk(N.model) /\ Reach(N) /\ Agree(N)
<1>1. /\ RulesOk(N.model) /\ Ruled(N.model) \subseteq Ruled(L.model)
      /\ N.model.sets = IF X = {} THEN L.model.sets \ {r} ELSE L.model.sets \cup {r}
      /\ \A q \in RuleSet : Sent(N.model, q) = IF q = r THEN X ELSE Sent(L.model, q)
  BY DEF Resends
<1>2. Reach(N)
  BY <1>1 DEF Consistent, Reach
<1>3. AgreeOn(N, r)
  BY <1>1 DEF AgreeOn
<1>4. ASSUME NEW q \in RuleSet \ {r}
      PROVE  AgreeOn(N, q)
  <2>1. AgreeOn(L, q)
    BY DEF Consistent, Agree
  <2>2. q \in Providers(N.meta) <=> q \in Providers(L.meta)
    BY DEF Providers
  <2>3. q \in N.model.sets <=> q \in L.model.sets
    BY <1>1
  <2>4. Sent(N.model, q) = Sent(L.model, q)
    BY <1>1
  <2>5. q \in Providers(L.meta) => N.meta[q].to = L.meta[q].to
    BY DEF Providers
  <2>6. QED
    BY <2>1, <2>2, <2>3, <2>4, <2>5 DEF AgreeOn
<1>5. QED
  BY <1>1, <1>2, <1>3, <1>4 DEF Agree

(* Nothing is done to any rule set, or its source is a new download.       *)
LEMMA SameSetsStand ==
  ASSUME NEW L, Consistent(L), NEW N, SameSets(L.model, N.model), Reach(N),
         DOMAIN N.meta = DOMAIN L.meta,
         \A q \in DOMAIN L.meta : N.meta[q].to = L.meta[q].to,
         \A q \in RuleSet : N[q] = Missing <=> L[q] = Missing
  PROVE  RulesOk(N.model) /\ Reach(N) /\ Agree(N)
<1>1. ASSUME NEW q \in RuleSet
      PROVE  AgreeOn(N, q)
  <2>1. AgreeOn(L, q)
    BY DEF Consistent, Agree
  <2>2. q \in Providers(N.meta) <=> q \in Providers(L.meta)
    BY DEF Providers
  <2>3. N.model.sets = L.model.sets /\ Sent(N.model, q) = Sent(L.model, q)
    BY DEF SameSets
  <2>4. q \in Providers(L.meta) => N.meta[q].to = L.meta[q].to
    BY DEF Providers
  <2>5. QED
    BY <2>1, <2>2, <2>3, <2>4 DEF AgreeOn
<1>2. QED
  BY <1>1 DEF Agree, SameSets

(* Where an edit of one rule set leaves the other files.                   *)
LEMMA OneSetWritten ==
  ASSUME NEW L, File \subseteq DOMAIN L, NEW files, NEW N, Written(N, files, L),
         NEW r \in RuleSet, DOMAIN files \subseteq {"model", "meta", r}
  PROVE  /\ N.direct = L.direct /\ N.hijack = L.hijack
         /\ \A q \in RuleSet \ {r} : N[q] = L[q]
<1>1. \A f \in File : f \notin DOMAIN files => N[f] = L[f]
  BY DEF Written
<1>2. {"direct", "hijack"} \cup RuleSet \subseteq File
  BY DEF File
<1>3. \A f \in {"direct", "hijack"} \cup (RuleSet \ {r}) : f \notin DOMAIN files
  BY NoRuleSetFiles
<1>4. QED
  BY <1>1, <1>2, <1>3

LEMMA AddRuleSetStands ==
  ASSUME NEW L, File \subseteq DOMAIN L, Consistent(L), NEW op, op.set \in RuleSet,
         NEW s, s.meta = L.meta, NEW N, Written(N, AddRuleSet(op, s, L.model), L),
         \A r \in DOMAIN N.meta : N[r] # Missing
  PROVE  RulesOk(N.model) /\ Reach(N) /\ Agree(N)
<1> DEFINE r == op.set
           g == [f \in {"meta", r} |->
                   IF f = "meta" THEN [q \in DOMAIN s.meta \cup {r} |->
                                IF q = r THEN [to |-> op.to, label |-> FALSE] ELSE s.meta[q]]
                   ELSE op.got]
           files == And(ModelOnly(AddSet(L.model, r, op.to)), g)
           X == IF op.to = Direct THEN {} ELSE {op.to}
<1>1. Written(N, files, L)
  BY DEF AddRuleSet
<1>2. /\ DOMAIN files = {"model", "meta", r}
      /\ files.model = AddSet(L.model, r, op.to)
      /\ files.meta = [q \in DOMAIN s.meta \cup {r} |->
                         IF q = r THEN [to |-> op.to, label |-> FALSE] ELSE s.meta[q]]
  <2>1. /\ DOMAIN g = {"meta", r}
        /\ g.meta = [q \in DOMAIN s.meta \cup {r} |->
                       IF q = r THEN [to |-> op.to, label |-> FALSE] ELSE s.meta[q]]
    BY NoRuleSetFiles
  <2>2. "meta" \in DOMAIN g
    BY <2>1
  <2> HIDE DEF g
  <2>3. /\ DOMAIN files = {"model"} \cup DOMAIN g
        /\ files.model = AddSet(L.model, r, op.to)
        /\ files.meta = g.meta
    BY <2>2, ModelAnd
  <2>4. QED
    BY <2>1, <2>3
<1> HIDE DEF files, g
<1>3. /\ N.model = AddSet(L.model, r, op.to)
      /\ N.meta = [q \in DOMAIN L.meta \cup {r} |->
                     IF q = r THEN [to |-> op.to, label |-> FALSE] ELSE L.meta[q]]
  BY <1>1, <1>2 DEF Written
<1>4. Resends(L.model, N.model, r, X)
  BY <1>3, AddSetResends DEF Consistent
<1>5. /\ N.direct = L.direct /\ N.hijack = L.hijack
      /\ \A q \in RuleSet \ {r} : N[q] = L[q]
  BY <1>1, <1>2, OneSetWritten
<1>6. /\ DOMAIN N.meta = DOMAIN L.meta \cup {r}
      /\ N.meta[r].to = op.to
      /\ \A q \in DOMAIN L.meta : q # r => N.meta[q] = L.meta[q]
  BY <1>3
<1>7. X = IF r \in Providers(N.meta) THEN {N.meta[r].to} ELSE {}
  BY <1>6 DEF Providers
<1>8. r \in DOMAIN N.meta <=> N[r] # Missing
  BY <1>6
<1> HIDE DEF X, r
<1>9. r \in RuleSet
  BY DEF r
<1>10. QED
  BY <1>4, <1>5, <1>6, <1>7, <1>8, <1>9, ResendStands

LEMMA TargetRuleSetStands ==
  ASSUME NEW L, File \subseteq DOMAIN L, Consistent(L), Listing(L.meta), NEW op,
         NEW s, s.meta = L.meta, NEW N, Written(N, TargetRuleSet(op, s, L.model), L),
         TargetRuleSet(op, s, L.model) # NoFiles
  PROVE  RulesOk(N.model) /\ Reach(N) /\ Agree(N)
<1> DEFINE r == op.set
           g == [f \in {"meta"} |-> [s.meta EXCEPT ![r].to = op.to]]
           files == And(ModelOnly(TargetSet(L.model, r, op.to)), g)
           X == IF op.to = Direct THEN {} ELSE {op.to}
<1>1. Written(N, files, L) /\ r \in DOMAIN L.meta
  BY DEF TargetRuleSet
<1>2. r \in RuleSet /\ "to" \in DOMAIN L.meta[r]
  BY <1>1 DEF Listing
<1>3. /\ DOMAIN files = {"model", "meta"}
      /\ files.model = TargetSet(L.model, r, op.to)
      /\ files.meta = [s.meta EXCEPT ![r].to = op.to]
  <2>1. DOMAIN g = {"meta"} /\ g.meta = [s.meta EXCEPT ![r].to = op.to]
    OBVIOUS
  <2>2. "meta" \in DOMAIN g
    BY <2>1
  <2> HIDE DEF g
  <2>3. /\ DOMAIN files = {"model"} \cup DOMAIN g
        /\ files.model = TargetSet(L.model, r, op.to)
        /\ files.meta = g.meta
    BY <2>2, ModelAnd
  <2>4. QED
    BY <2>1, <2>3
<1> HIDE DEF files, g
<1>4. /\ N.model = TargetSet(L.model, r, op.to)
      /\ N.meta = [L.meta EXCEPT ![r].to = op.to]
  BY <1>1, <1>3 DEF Written
<1>5. Resends(L.model, N.model, r, X)
  BY <1>2, <1>4, TargetSetResends DEF Consistent
<1>6. /\ N.direct = L.direct /\ N.hijack = L.hijack
      /\ \A q \in RuleSet \ {r} : N[q] = L[q]
  BY <1>1, <1>2, <1>3, OneSetWritten
<1>7. /\ DOMAIN N.meta = DOMAIN L.meta
      /\ \A q \in DOMAIN L.meta : q # r => N.meta[q] = L.meta[q]
  BY <1>4
<1>8. N.meta[r].to = op.to
  <2>1. PICK u : u = L.meta[r]
    OBVIOUS
  <2>2. N.meta[r] = [u EXCEPT !.to = op.to]
    BY <1>1, <1>4, <2>1
  <2>3. QED
    BY <1>2, <2>1, <2>2
<1>9. N[r] = L[r]
  <2>1. r \notin {"model", "meta"} /\ r \in File
    BY <1>2, NoRuleSetFiles DEF File
  <2>2. QED
    BY <1>1, <1>3, <2>1 DEF Written
<1>10. AgreeOn(L, r)
  BY <1>2 DEF Consistent, Agree
<1>11. r \in DOMAIN N.meta <=> N[r] # Missing
  BY <1>7, <1>9, <1>10 DEF AgreeOn
<1>12. X = IF r \in Providers(N.meta) THEN {N.meta[r].to} ELSE {}
  BY <1>1, <1>7, <1>8 DEF Providers
<1> HIDE DEF X, r
<1>13. QED
  BY <1>2, <1>5, <1>6, <1>7, <1>11, <1>12, ResendStands

LEMMA DelRuleSetStands ==
  ASSUME NEW L, File \subseteq DOMAIN L, Consistent(L), NEW op, op.set \in RuleSet,
         NEW s, s.meta = L.meta, NEW N, Written(N, DelRuleSet(op, s, L.model), L)
  PROVE  RulesOk(N.model) /\ Reach(N) /\ Agree(N)
<1> DEFINE r == op.set
           g == [f \in {"meta", r} |->
                   IF f = "meta" THEN [q \in DOMAIN s.meta \ {r} |-> s.meta[q]] ELSE Missing]
           files == And(ModelOnly(DropSet(L.model, r)), g)
<1>1. Written(N, files, L)
  BY DEF DelRuleSet
<1>2. /\ DOMAIN files = {"model", "meta", r}
      /\ files.model = DropSet(L.model, r)
      /\ files.meta = [q \in DOMAIN s.meta \ {r} |-> s.meta[q]]
      /\ files[r] = Missing
  <2>1. /\ DOMAIN g = {"meta", r}
        /\ g.meta = [q \in DOMAIN s.meta \ {r} |-> s.meta[q]]
        /\ g[r] = Missing
    BY NoRuleSetFiles
  <2>2. "meta" \in DOMAIN g /\ r \in DOMAIN g /\ r # "model"
    BY <2>1, NoRuleSetFiles
  <2> HIDE DEF g
  <2>3. /\ DOMAIN files = {"model"} \cup DOMAIN g
        /\ files.model = DropSet(L.model, r)
        /\ files.meta = g.meta
    BY <2>2, ModelAnd
  <2>4. files[r] = g[r]
    BY <2>2 DEF And, ModelOnly
  <2>5. QED
    BY <2>1, <2>3, <2>4
<1> HIDE DEF files, g
<1>3. /\ N.model = DropSet(L.model, r)
      /\ N.meta = [q \in DOMAIN L.meta \ {r} |-> L.meta[q]]
      /\ N[r] = Missing
  BY <1>1, <1>2 DEF Written
<1>4. Resends(L.model, N.model, r, {})
  BY <1>3, DropSetResends DEF Consistent
<1>5. /\ N.direct = L.direct /\ N.hijack = L.hijack
      /\ \A q \in RuleSet \ {r} : N[q] = L[q]
  BY <1>1, <1>2, OneSetWritten
<1>6. /\ DOMAIN N.meta = DOMAIN L.meta \ {r}
      /\ \A q \in DOMAIN L.meta : q # r => N.meta[q] = L.meta[q]
  BY <1>3
<1>7. r \notin Providers(N.meta)
  BY <1>6 DEF Providers
<1>8. r \in DOMAIN N.meta <=> N[r] # Missing
  BY <1>3, <1>6
<1>9. r \in RuleSet
  OBVIOUS
<1> HIDE DEF r
<1>10. QED
  BY <1>4, <1>5, <1>6, <1>7, <1>8, <1>9, ResendStands

LEMMA RefreshStands ==
  ASSUME NEW L, File \subseteq DOMAIN L, Consistent(L), Listing(L.meta), NEW op,
         NEW s, s.meta = L.meta, NEW N, Written(N, RefreshRuleSets(op, s, L.model), L),
         RefreshRuleSets(op, s, L.model) # NoFiles,
         \A r \in DOMAIN N.meta : N[r] # Missing
  PROVE  RulesOk(N.model) /\ Reach(N) /\ Agree(N)
<1> DEFINE fresh == op.sets \cap DOMAIN s.meta
           g == [f \in fresh \cup {"meta"} |-> IF f = "meta" THEN s.meta ELSE op.got]
           files == And(ModelOnly(L.model), g)
<1>1. Written(N, files, L)
  BY DEF RefreshRuleSets
<1>2. fresh \subseteq RuleSet /\ fresh \subseteq DOMAIN L.meta
  BY DEF Listing
<1>3. /\ DOMAIN files = {"model", "meta"} \cup fresh
      /\ files.model = L.model /\ files.meta = L.meta
  <2>1. DOMAIN g = {"meta"} \cup fresh /\ g.meta = s.meta
    OBVIOUS
  <2>2. "meta" \in DOMAIN g
    BY <2>1
  <2> HIDE DEF g
  <2>3. /\ DOMAIN files = {"model"} \cup DOMAIN g
        /\ files.model = L.model
        /\ files.meta = g.meta
    BY <2>2, ModelAnd
  <2> HIDE DEF files, fresh
  <2>4. QED
    BY <2>1, <2>3
<1> HIDE DEF files, g, fresh
<1>4. /\ N.model = L.model /\ N.meta = L.meta
      /\ \A f \in File : f \notin DOMAIN files => N[f] = L[f]
  BY <1>1, <1>3 DEF Written
<1>5. N.direct = L.direct /\ N.hijack = L.hijack
  <2>1. {"direct", "hijack"} \subseteq File
    BY DEF File
  <2>2. "direct" \notin DOMAIN files /\ "hijack" \notin DOMAIN files
    BY <1>2, <1>3, NoRuleSetFiles
  <2>3. QED
    BY <1>4, <2>1, <2>2
<1>6. ASSUME NEW q \in RuleSet
      PROVE  N[q] = Missing <=> L[q] = Missing
  <2>1. CASE q \in fresh
    <3>1. N[q] # Missing
      BY <1>2, <1>4, <2>1
    <3>2. L[q] # Missing
      BY <1>2, <2>1 DEF Consistent, Agree, AgreeOn
    <3>3. QED
      BY <3>1, <3>2
  <2>2. CASE q \notin fresh
    <3>1. q \in File /\ q \notin DOMAIN files
      BY <1>3, <2>2, NoRuleSetFiles DEF File
    <3>2. QED
      BY <1>4, <3>1
  <2>3. QED
    BY <2>1, <2>2
<1>7. SameSets(L.model, N.model) /\ Reach(N)
  BY <1>4, <1>5 DEF SameSets, Consistent, Reach
<1>8. QED
  BY <1>4, <1>6, <1>7, SameSetsStand

LEMMA LabelStands ==
  ASSUME NEW L, File \subseteq DOMAIN L, Consistent(L), NEW op,
         NEW s, s.meta = L.meta, NEW N, Written(N, LabelRuleSet(op, s), L),
         LabelRuleSet(op, s) # NoFiles
  PROVE  RulesOk(N.model) /\ Reach(N) /\ Agree(N)
<1> DEFINE files == LabelRuleSet(op, s)
<1>1. DOMAIN files = {"meta"}
  BY DEF LabelRuleSet
<1>2. SameTargets(L.meta, files.meta)
  BY <1>1, LabelKeepsTargets
<1> HIDE DEF files
<1>3. Written(N, files, L)
  BY DEF files
<1>4. /\ N.meta = files.meta
      /\ \A f \in File \ {"meta"} : N[f] = L[f]
  BY <1>1, <1>3 DEF Written
<1>5. {"model", "direct", "hijack"} \cup RuleSet \subseteq File \ {"meta"}
  BY NoRuleSetFiles DEF File
<1>6. /\ N.model = L.model /\ N.direct = L.direct /\ N.hijack = L.hijack
      /\ \A q \in RuleSet : N[q] = L[q]
  BY <1>4, <1>5
<1>7. SameSets(L.model, N.model) /\ Reach(N)
  BY <1>6 DEF SameSets, Consistent, Reach
<1>8. /\ DOMAIN N.meta = DOMAIN L.meta
      /\ \A q \in DOMAIN L.meta : N.meta[q].to = L.meta[q].to
  BY <1>2, <1>4 DEF SameTargets
<1>9. QED
  BY <1>6, <1>7, <1>8, SameSetsStand

(* An archive has the files it was made of.                                *)
LEMMA ArchiveIs ==
  ASSUME NEW z, Listing(z.meta)
  PROVE  /\ {"model", "meta", "direct", "hijack"} \subseteq DOMAIN Archive(z)
         /\ Archive(z).model = z.model /\ Archive(z).meta = z.meta
         /\ Archive(z).direct = z.direct /\ Archive(z).hijack = z.hijack
         /\ \A r \in DOMAIN z.meta : Archive(z)[r] = z[r]
BY DEF Archive

(* What a restored archive with all its members leaves.                    *)
LEMMA RestoreWrites ==
  ASSUME NEW L, File \subseteq DOMAIN L, NEW op, NEW s,
         {"model", "meta", "direct", "hijack"} \subseteq DOMAIN op.data,
         DOMAIN op.data.meta \subseteq RuleSet, DOMAIN s.meta \subseteq RuleSet,
         NEW N, Written(N, Restore(op, s), L)
  PROVE  /\ N.model = RestoredModel(s, op.data)
         /\ N.meta = Rebound(s, op.data, op.data.meta)
         /\ N.direct = op.data.direct /\ N.hijack = op.data.hijack
         /\ \A r \in DOMAIN op.data.meta : N[r] = op.data[r]
         /\ \A r \in DOMAIN s.meta \ DOMAIN op.data.meta : N[r] = Missing
         /\ \A r \in RuleSet \ (DOMAIN s.meta \cup DOMAIN op.data.meta) : N[r] = L[r]
<1> DEFINE data == op.data
           x == RestoredModel(s, data)
           a == [f \in DOMAIN data \cap {"direct", "hijack"} |-> data[f]]
           b == [f \in {"meta"} |-> Rebound(s, data, data.meta)]
           p == RestorePlan(s, data)
           c == And(b, p)
           g == And(a, c)
           files == And(ModelOnly(x), g)
<1>1. Written(N, files, L)
  BY DEF Restore, RestoredFiles
<1>2. /\ DOMAIN a = {"direct", "hijack"}
      /\ a.direct = data.direct /\ a.hijack = data.hijack
  OBVIOUS
<1>3. DOMAIN b = {"meta"} /\ b.meta = Rebound(s, data, data.meta)
  OBVIOUS
<1>4. /\ DOMAIN p = DOMAIN s.meta \cup DOMAIN data.meta
      /\ \A r \in DOMAIN data.meta : p[r] = data[r]
      /\ \A r \in DOMAIN s.meta \ DOMAIN data.meta : p[r] = Missing
  BY DEF RestorePlan
<1>5. \A f \in {"model", "meta", "direct", "hijack"} : f \notin DOMAIN p
  BY <1>4, NoRuleSetFiles
<1> HIDE DEF a, b, p, x
<1>6. /\ DOMAIN c = {"meta"} \cup DOMAIN p /\ c.meta = b.meta
      /\ \A r \in DOMAIN p : c[r] = p[r]
  BY <1>3, <1>5 DEF And
<1> HIDE DEF c
<1>7. /\ DOMAIN g = {"direct", "hijack"} \cup DOMAIN c
      /\ g.direct = a.direct /\ g.hijack = a.hijack
      /\ \A r \in DOMAIN c : r \notin {"direct", "hijack"} => g[r] = c[r]
  BY <1>2 DEF And
<1> HIDE DEF g
<1>8. /\ DOMAIN files = {"model"} \cup DOMAIN g /\ files.model = x
      /\ \A r \in DOMAIN g : r # "model" => files[r] = g[r]
  BY DEF And, ModelOnly
<1> HIDE DEF files
<1>9. /\ \A f \in DOMAIN files : N[f] = files[f]
      /\ \A f \in File : f \notin DOMAIN files => N[f] = L[f]
  BY <1>1 DEF Written
<1>10. N.model = x /\ N.direct = data.direct /\ N.hijack = data.hijack
  BY <1>2, <1>7, <1>8, <1>9
<1>11. N.meta = b.meta
  BY <1>6, <1>7, <1>8, <1>9
<1>12. \A r \in DOMAIN p : N[r] = p[r]
  BY <1>5, <1>6, <1>7, <1>8, <1>9
<1>13. \A r \in RuleSet : r \notin DOMAIN p => N[r] = L[r]
  <2>1. TAKE r \in RuleSet
  <2>2. r \in File /\ r \notin {"model", "meta", "direct", "hijack"}
    BY NoRuleSetFiles DEF File
  <2>3. r \notin DOMAIN p => r \notin DOMAIN files
    BY <1>6, <1>7, <1>8, <2>2
  <2>4. QED
    BY <1>9, <2>2, <2>3
<1>14. QED
  BY <1>3, <1>4, <1>10, <1>11, <1>12, <1>13 DEF x

(* The archive fits together, and the name of its direct exit is replaced  *)
(* in the model and in rulesets.json.                                      *)
LEMMA RestoreStands ==
  ASSUME NEW L, File \subseteq DOMAIN L, Consistent(L), NEW z, Consistent(z),
         Listing(z.meta), NEW op, op.data = Archive(z), TheDirect(z.model) # Direct,
         NEW s, Listing(s.meta), s.meta = L.meta, TheDirect(s.model) # Direct,
         NEW N, Written(N, Restore(op, s), L)
  PROVE  RulesOk(N.model) /\ Reach(N) /\ Agree(N)
<1> DEFINE old == TheDirect(z.model)
           new == TheDirect(s.model)
<1>1. /\ {"model", "meta", "direct", "hijack"} \subseteq DOMAIN op.data
      /\ op.data.model = z.model /\ op.data.meta = z.meta
      /\ op.data.direct = z.direct /\ op.data.hijack = z.hijack
      /\ \A r \in DOMAIN z.meta : op.data[r] = z[r]
  BY ArchiveIs
<1>2. /\ DOMAIN op.data.meta \subseteq RuleSet /\ DOMAIN s.meta \subseteq RuleSet
      /\ \A r \in DOMAIN z.meta : "to" \in DOMAIN z.meta[r]
  BY <1>1 DEF Listing
<1>3. /\ N.model = Rename(z.model, old, new)
      /\ N.meta = MetaTo(z.meta, {old}, new)
      /\ N.direct = z.direct /\ N.hijack = z.hijack
      /\ \A r \in DOMAIN z.meta : N[r] = z[r]
      /\ \A r \in DOMAIN L.meta \ DOMAIN z.meta : N[r] = Missing
      /\ \A r \in RuleSet \ (DOMAIN L.meta \cup DOMAIN z.meta) : N[r] = L[r]
  <2> DEFINE data == op.data
  <2>1. /\ N.model = RestoredModel(s, data) /\ N.meta = Rebound(s, data, data.meta)
        /\ N.direct = data.direct /\ N.hijack = data.hijack
        /\ \A r \in DOMAIN data.meta : N[r] = data[r]
        /\ \A r \in DOMAIN s.meta \ DOMAIN data.meta : N[r] = Missing
        /\ \A r \in RuleSet \ (DOMAIN s.meta \cup DOMAIN data.meta) : N[r] = L[r]
    <3>1. {"model", "meta", "direct", "hijack"} \subseteq DOMAIN data
      BY <1>1
    <3>2. DOMAIN data.meta \subseteq RuleSet /\ DOMAIN s.meta \subseteq RuleSet
      BY <1>2
    <3>3. QED
      BY <3>1, <3>2, RestoreWrites
  <2>2. RestoredModel(s, data) = Rename(z.model, old, new)
    BY <1>1 DEF RestoredModel
  <2>3. Rebound(s, data, data.meta) = MetaTo(z.meta, {old}, new)
    BY <1>1 DEF Rebound
  <2>4. QED
    BY <1>1, <2>1, <2>2, <2>3
<1> HIDE DEF old, new
<1>4. old # Direct /\ new # Direct
  BY DEF old, new
<1>5. Redirects(z.model, N.model, {old}, new)
  BY <1>3, RenameRedirects DEF Consistent
<1>6. /\ RulesOk(N.model) /\ Ruled(N.model) = Ruled(z.model)
      /\ N.model.sets = z.model.sets
      /\ \A q \in RuleSet : Sent(N.model, q) = {IF x \in {old} THEN new ELSE x :
                                                  x \in Sent(z.model, q)}
  BY <1>5 DEF Redirects
<1>7. Reach(N)
  BY <1>3, <1>6 DEF Consistent, Reach
<1>8. /\ DOMAIN N.meta = DOMAIN z.meta
      /\ \A r \in DOMAIN z.meta :
           N.meta[r].to = IF z.meta[r].to = old THEN new ELSE z.meta[r].to
  <2>1. N.meta = [r \in DOMAIN z.meta |->
                    IF z.meta[r].to \in {old} THEN [z.meta[r] EXCEPT !.to = new]
                                              ELSE z.meta[r]]
    BY <1>3 DEF MetaTo
  <2>2. QED
    BY <1>2, <2>1
<1>9. Providers(N.meta) = Providers(z.meta)
  BY <1>4, <1>8 DEF Providers
<1>10. ASSUME NEW r \in RuleSet
       PROVE  AgreeOn(N, r)
  <2>1. AgreeOn(z, r) /\ AgreeOn(L, r)
    BY DEF Consistent, Agree
  <2>2. r \in DOMAIN N.meta <=> N[r] # Missing
    BY <1>3, <1>8, <2>1 DEF AgreeOn
  <2>3. r \in N.model.sets <=> r \in Providers(N.meta)
    BY <1>6, <1>9, <2>1 DEF AgreeOn
  <2>4. CASE r \notin Providers(z.meta)
    <3>1. Sent(N.model, r) = {}
      BY <1>6, <2>1, <2>4 DEF AgreeOn
    <3>2. QED
      BY <1>9, <2>2, <2>3, <2>4, <3>1 DEF AgreeOn
  <2>5. CASE r \in Providers(z.meta)
    <3>1. r \in DOMAIN z.meta
      BY <2>5 DEF Providers
    <3>2. Sent(z.model, r) = {z.meta[r].to}
      BY <2>1, <2>5 DEF AgreeOn
    <3>3. Sent(N.model, r) = {IF z.meta[r].to = old THEN new ELSE z.meta[r].to}
      BY <1>6, <3>2
    <3>4. Sent(N.model, r) = {N.meta[r].to}
      BY <1>8, <3>1, <3>3
    <3>5. QED
      BY <1>9, <2>2, <2>3, <2>5, <3>4 DEF AgreeOn
  <2>6. QED
    BY <2>4, <2>5
<1>11. QED
  BY <1>6, <1>7, <1>10 DEF Agree

-----------------------------------------------------------------------------
(* Edits of the lists that MosDNS loads.                                   *)

LEMMA BothIs ==
  \A d, h : /\ DOMAIN Both(d, h) = {"direct", "hijack"}
            /\ Both(d, h).direct = d /\ Both(d, h).hijack = h
BY DEF Both

LEMMA BothWritten ==
  ASSUME NEW L, File \subseteq DOMAIN L, NEW N, NEW d, NEW h
  PROVE  /\ Written(N, Both(d, h), L) =>
              N.model = L.model /\ N.direct = d /\ N.hijack = h
         /\ \A x : Written(N, And(ModelOnly(x), Both(d, h)), L) =>
              N.model = x /\ N.direct = d /\ N.hijack = h
<1>1. PICK g : g = Both(d, h)
  OBVIOUS
<1>2. DOMAIN g = {"direct", "hijack"} /\ g.direct = d /\ g.hijack = h
  BY <1>1, BothIs
<1>3. Written(N, g, L) => N.model = L.model /\ N.direct = d /\ N.hijack = h
  <2>1. "model" \in DOMAIN L
    BY DEF File
  <2>2. QED
    BY <1>2, <2>1 DEF Written
<1>4. ASSUME NEW x, Written(N, And(ModelOnly(x), g), L)
      PROVE  N.model = x /\ N.direct = d /\ N.hijack = h
  <2>1. PICK files : files = And(ModelOnly(x), g)
    OBVIOUS
  <2>2. Written(N, files, L)
    BY <1>4, <2>1
  <2>3. /\ DOMAIN files = {"model"} \cup DOMAIN g /\ files.model = x
        /\ files.direct = g.direct /\ files.hijack = g.hijack
    <3>1. DOMAIN ModelOnly(x) = {"model"} /\ ModelOnly(x).model = x
      BY DEF ModelOnly
    <3>2. files = [f \in DOMAIN ModelOnly(x) \cup DOMAIN g |->
                     IF f \in DOMAIN ModelOnly(x) THEN ModelOnly(x)[f] ELSE g[f]]
      BY <2>1 DEF And
    <3>3. QED
      BY <1>2, <3>1, <3>2
  <2>4. QED
    BY <1>2, <2>2, <2>3 DEF Written
<1>5. QED
  BY <1>1, <1>3, <1>4

LEMMA AddDirectReaches ==
  ASSUME NEW L, File \subseteq DOMAIN L, Consistent(L), NEW op,
         NEW s, s.direct = L.direct, s.hijack = L.hijack,
         NEW N, Written(N, AddDirectRule(op, s), L)
  PROVE  Reach(N)
<1>1. Written(N, Both(s.direct \cup {op.dom}, s.hijack \ {op.dom}), L)
  BY DEF AddDirectRule
<1>2. /\ N.model = L.model /\ N.direct = s.direct \cup {op.dom}
      /\ N.hijack = s.hijack \ {op.dom}
  BY <1>1, BothWritten
<1>3. QED
  BY <1>2 DEF Consistent, Reach

LEMMA AddRuleReaches ==
  ASSUME NEW L, File \subseteq DOMAIN L, Consistent(L), NEW op, NEW s, s.hijack = L.hijack,
         NEW N, Written(N, AddRule(op, s, L.model), L)
  PROVE  Reach(N)
<1> DEFINE g == [f \in {"hijack"} |-> s.hijack \cup {op.dom}]
           x == AddDomain(L.model, op.dom, op.to)
           files == And(ModelOnly(x), g)
<1>1. Written(N, files, L)
  BY DEF AddRule
<1>2. DOMAIN g = {"hijack"} /\ g.hijack = s.hijack \cup {op.dom}
  OBVIOUS
<1>3. Ruled(x) \subseteq Ruled(L.model) \cup {op.dom}
  BY AddDomainKeeps DEF Consistent, Keeps
<1> HIDE DEF g, x
<1>4. /\ DOMAIN files = {"model", "hijack"} /\ files.model = x /\ files.hijack = g.hijack
  BY <1>2 DEF And, ModelOnly
<1> HIDE DEF files
<1>5. N.model = x /\ N.hijack = L.hijack \cup {op.dom} /\ N.direct = L.direct
  BY <1>1, <1>2, <1>4 DEF Written, File
<1>6. QED
  BY <1>3, <1>5 DEF Consistent, Reach

(* Whether del_rule edits the model depends on what it found there first.  *)
LEMMA DelRuleReaches ==
  ASSUME NEW L, File \subseteq DOMAIN L, Consistent(L), NEW op,
         NEW s, s.direct = L.direct, s.hijack = L.hijack,
         NEW ruled, ruled <=> Rule(L.model, op.dom),
         NEW N, Written(N, DelRule(op, s, L.model, ruled), L),
         DelRule(op, s, L.model, ruled) # NoFiles
  PROVE  Reach(N)
<1> DEFINE d == s.direct \ {op.dom}
           h == s.hijack \ {op.dom}
           x == DropDomains(L.model, {op.dom})
<1>1. CASE ruled
  <2>1. DelRule(op, s, L.model, ruled) = And(ModelOnly(x), Both(d, h))
    BY <1>1 DEF DelRule
  <2>2. Ruled(x) \subseteq Ruled(L.model) \ {op.dom}
    BY DropDomainsKeeps DEF Consistent, Keeps
  <2> HIDE DEF d, h, x
  <2>3. N.model = x /\ N.direct = d /\ N.hijack = h
    <3>1. Written(N, And(ModelOnly(x), Both(d, h)), L)
      BY <2>1
    <3>2. QED
      BY <3>1, BothWritten
  <2>4. QED
    BY <2>2, <2>3 DEF Consistent, Reach, d, h
<1>2. CASE ~ruled
  <2>1. DelRule(op, s, L.model, ruled) = Both(d, h)
    BY <1>2 DEF DelRule
  <2>2. op.dom \notin Ruled(L.model)
    BY <1>2 DEF Rule, Ruled, ToSet
  <2> HIDE DEF d, h
  <2>3. N.model = L.model /\ N.direct = d /\ N.hijack = h
    BY <2>1, BothWritten
  <2>4. QED
    BY <2>2, <2>3 DEF Consistent, Reach, d, h
<1>3. QED
  BY <1>1, <1>2

LEMMA DelRulesBulkReaches ==
  ASSUME NEW L, File \subseteq DOMAIN L, Consistent(L), NEW op,
         NEW s, s.direct = L.direct, s.hijack = L.hijack,
         NEW N, Written(N, DelRulesBulk(op, s, L.model), L)
  PROVE  Reach(N)
<1> DEFINE d == s.direct \ op.doms
           h == s.hijack \ op.doms
           x == DropDomains(L.model, op.doms)
<1>1. DelRulesBulk(op, s, L.model) = And(ModelOnly(x), Both(d, h))
  BY DEF DelRulesBulk
<1>2. Ruled(x) \subseteq Ruled(L.model) \ op.doms
  BY DropDomainsKeeps DEF Consistent, Keeps
<1> HIDE DEF d, h, x
<1>3. N.model = x /\ N.direct = d /\ N.hijack = h
  <2>1. Written(N, And(ModelOnly(x), Both(d, h)), L)
    BY <1>1
  <2>2. QED
    BY <2>1, BothWritten
<1>4. QED
  BY <1>2, <1>3 DEF Consistent, Reach, d, h

LEMMA PatchRuleReaches ==
  ASSUME NEW L, File \subseteq DOMAIN L, Consistent(L), NEW op,
         NEW s, s.direct = L.direct, s.hijack = L.hijack,
         NEW N, Written(N, PatchRule(op, s, L.model), L),
         PatchRule(op, s, L.model) # NoFiles
  PROVE  Reach(N)
<1> DEFINE d == IF op.to = Direct THEN s.direct \cup {op.dom} ELSE s.direct \ {op.dom}
           h == IF op.to = Direct THEN s.hijack \ {op.dom} ELSE s.hijack \cup {op.dom}
           x == MoveDomain(L.model, op.dom, op.to)
<1>1. PatchRule(op, s, L.model) = And(ModelOnly(x), Both(d, h))
  BY DEF PatchRule
<1>2. Ruled(x) \subseteq Ruled(L.model) \cup {op.dom}
  BY MoveDomainKeeps DEF Consistent, Keeps
<1>3. L.direct \cup L.hijack \cup {op.dom} \subseteq d \cup h
  OBVIOUS
<1> HIDE DEF d, h, x
<1>4. N.model = x /\ N.direct = d /\ N.hijack = h
  <2>1. Written(N, And(ModelOnly(x), Both(d, h)), L)
    BY <1>1
  <2>2. QED
    BY <2>1, BothWritten
<1>5. QED
  BY <1>2, <1>3, <1>4 DEF Consistent, Reach

-----------------------------------------------------------------------------
(* Every edit keeps the files fitting together.                            *)

(* What the handler found in the model still is so when it is committed:   *)
(* for reassign_rule and del_rule, because nobody else has committed since;*)
(* for a group, because the commit is pinned to the model.                 *)
Settled(op, m, ruled) ==
  /\ op.do = "reassign_rule" => (op.idx \in DOMAIN m.rules => m.rules[op.idx].set = None)
  /\ op.do = "del_rule" => (ruled <=> Rule(m, op.dom))
  /\ op.do = "patch_group" => op.name \in GroupNames(m)

(* An archive was made by a gateway whose files fitted together.           *)
Archived(op) ==
  op.do = "restore" =>
    \E z : /\ Consistent(z) /\ Cardinality(DirectTags(z.model)) = 1
           /\ op.data = Archive(z)

(* What the commit checks of the files N that it is to leave.              *)
Passed(op, files, N) ==
  /\ "model" \in DOMAIN files => Derivable(N.model, N.meta)
  /\ RuleSetDirect(op, files) => \A r \in DOMAIN N.meta : N[r] # Missing

(* The candidate was computed of the files L, as far as it was computed of *)
(* files that it replaces.                                                 *)
ReadFrom(op, s, files, L) == \A f \in DOMAIN files \cap Reads(op) : s[f] = L[f]

LEMMA BothStaged ==
  ASSUME NEW d, NEW h, NEW x
  PROVE  /\ {"direct", "hijack"} \subseteq DOMAIN Both(d, h)
         /\ {"direct", "hijack"} \subseteq DOMAIN And(ModelOnly(x), Both(d, h))
BY BothIs, ModelAnd, ZenonT(60)

(* The domains' lists.                                                     *)
LEMMA ListsReach ==
  ASSUME NEW L, File \subseteq DOMAIN L, Consistent(L), NEW op, op.do \in ListOps,
         NEW ruled, Settled(op, L.model, ruled), NEW s,
         Change(op, s, L.model, ruled) # NoFiles,
         ReadFrom(op, s, Change(op, s, L.model, ruled), L),
         NEW N, Written(N, Change(op, s, L.model, ruled), L)
  PROVE  Reach(N)
<1> DEFINE files == Change(op, s, L.model, ruled)
<1>1. CASE op.do \in {"add_rule", "web_add_rule"}
  <2>1. files = AddRule(op, s, L.model)
    BY <1>1, Zenon DEF Change
  <2>2. "hijack" \in DOMAIN AddRule(op, s, L.model)
    BY DEF AddRule, And, ModelOnly
  <2>3. s.hijack = L.hijack
    BY <1>1, <2>1, <2>2, ListsRead DEF ReadFrom
  <2>4. QED
    BY <2>1, <2>3, AddRuleReaches
<1>2. ASSUME op.do \in {"add_direct", "del_rule", "del_rules_bulk", "patch_rule"},
             {"direct", "hijack"} \subseteq DOMAIN files
      PROVE  s.direct = L.direct /\ s.hijack = L.hijack
  <2>1. Reads(op) = {"direct", "hijack"}
    BY <1>2, ListsRead
  <2>2. \A f \in DOMAIN files \cap Reads(op) : s[f] = L[f]
    BY DEF ReadFrom
  <2> HIDE DEF files
  <2>3. QED
    BY <1>2, <2>1, <2>2
<1>3. CASE op.do = "add_direct"
  <2>1. files = AddDirectRule(op, s)
    BY <1>3, Zenon DEF Change
  <2>2. {"direct", "hijack"} \subseteq DOMAIN files
    BY <2>1, BothStaged, Zenon DEF AddDirectRule
  <2>3. s.direct = L.direct /\ s.hijack = L.hijack
    BY <1>2, <1>3, <2>2
  <2>4. QED
    BY <2>1, <2>3, AddDirectReaches
<1>4. CASE op.do = "del_rule"
  <2>1. files = DelRule(op, s, L.model, ruled)
    BY <1>4, Zenon DEF Change
  <2>2. {"direct", "hijack"} \subseteq DOMAIN files
    BY <2>1, BothStaged, SMTT(30) DEF DelRule
  <2>3. s.direct = L.direct /\ s.hijack = L.hijack
    BY <1>2, <1>4, <2>2
  <2>4. ruled <=> Rule(L.model, op.dom)
    BY <1>4 DEF Settled
  <2>5. QED
    BY <2>1, <2>3, <2>4, DelRuleReaches
<1>5. CASE op.do = "del_rules_bulk"
  <2>1. files = DelRulesBulk(op, s, L.model)
    BY <1>5, Zenon DEF Change
  <2>2. {"direct", "hijack"} \subseteq DOMAIN files
    BY <2>1, BothStaged, SMTT(30) DEF DelRulesBulk
  <2>3. s.direct = L.direct /\ s.hijack = L.hijack
    BY <1>2, <1>5, <2>2
  <2>4. QED
    BY <2>1, <2>3, DelRulesBulkReaches
<1>6. CASE op.do = "patch_rule"
  <2>1. files = PatchRule(op, s, L.model)
    BY <1>6, Zenon DEF Change
  <2>2. {"direct", "hijack"} \subseteq DOMAIN files
    <3>1. \E x, d, h : files = And(ModelOnly(x), Both(d, h))
      <4>1. PICK x : x = MoveDomain(L.model, op.dom, op.to)
        OBVIOUS
      <4>2. \/ files = And(ModelOnly(x), Both(s.direct \cup {op.dom}, s.hijack \ {op.dom}))
            \/ files = And(ModelOnly(x), Both(s.direct \ {op.dom}, s.hijack \cup {op.dom}))
        BY <2>1, <4>1 DEF PatchRule
      <4> HIDE DEF files
      <4>3. QED
        BY <4>2, Zenon
    <3> HIDE DEF files
    <3>2. PICK x, d, h : files = And(ModelOnly(x), Both(d, h))
      BY <3>1
    <3>3. QED
      BY <3>2, BothStaged, Zenon
  <2>3. s.direct = L.direct /\ s.hijack = L.hijack
    BY <1>2, <1>6, <2>2
  <2>4. QED
    BY <2>1, <2>3, PatchRuleReaches
<1>7. QED
  BY <1>1, <1>3, <1>4, <1>5, <1>6 DEF ListOps

(* All requests that leave the rule sets alone.                            *)
KeepingOps == ListOps \cup
  {"reassign_rule", "reorder_exits", "add_exit", "replace_exit",
   "set_default_exit", "set_tg_exit", "add_group", "add_policy_group"}

LEMMA KeepingStands ==
  ASSUME NEW L, File \subseteq DOMAIN L, Consistent(L), NEW op, op.do \in KeepingOps,
         NEW ruled, Settled(op, L.model, ruled), NEW s,
         Change(op, s, L.model, ruled) # NoFiles,
         ReadFrom(op, s, Change(op, s, L.model, ruled), L),
         NEW N, Written(N, Change(op, s, L.model, ruled), L)
  PROVE  RulesOk(N.model) /\ Reach(N) /\ Agree(N)
<1>1. PICK files : files = Change(op, s, L.model, ruled)
  OBVIOUS
<1>2. /\ DOMAIN files \subseteq {"model", "direct", "hijack"}
      /\ op.do \notin ListOps => DOMAIN files \subseteq {"model"}
      /\ "model" \in DOMAIN files =>
           /\ SameSets(L.model, files.model)
           /\ op.do \notin ListOps => Ruled(files.model) \subseteq Ruled(L.model)
  <2>1. RulesOk(L.model)
    BY DEF Consistent
  <2>2. op.do = "reassign_rule" =>
          (op.idx \in DOMAIN L.model.rules => L.model.rules[op.idx].set = None)
    BY DEF Settled
  <2>3. QED
    BY <1>1, <2>1, <2>2, KeepingChange DEF KeepingOps
<1>3. Written(N, files, L)
  BY <1>1
<1>4. RulesOk(N.model) /\ Agree(N)
  BY <1>2, <1>3, SetsStand
<1>5. CASE op.do \in ListOps
  BY <1>4, <1>5, ListsReach
<1>6. CASE op.do \notin ListOps
  <2>1. N.direct = L.direct /\ N.hijack = L.hijack
    BY <1>2, <1>3, <1>6 DEF Written, File
  <2>2. Ruled(N.model) \subseteq Ruled(L.model)
    <3>1. "model" \in File
      BY DEF File
    <3>2. N.model = IF "model" \in DOMAIN files THEN files.model ELSE L.model
      BY <1>3, <3>1 DEF Written
    <3>3. QED
      BY <1>2, <1>6, <3>2
  <2>3. QED
    BY <1>4, <2>1, <2>2 DEF Consistent, Reach
<1>7. QED
  BY <1>5, <1>6, <1>4

LEMMA RedirectStands ==
  ASSUME NEW L, File \subseteq DOMAIN L, Consistent(L), Listing(L.meta),
         ClosedFiles(L), Plain(L.model), NEW op, op.do \in RedirectOps, Asked(op),
         NEW ruled, Settled(op, L.model, ruled), NEW s, NEW files,
         files = Change(op, s, L.model, ruled), files # NoFiles,
         ReadFrom(op, s, files, L),
         "meta" \in DOMAIN files => SameWay(L.meta, files.meta),
         NEW N, Written(N, files, L), Passed(op, files, N)
  PROVE  RulesOk(N.model) /\ Reach(N) /\ Agree(N)
<1>1. Moved(files, s.meta, L.model)
  <2>1. RulesOk(L.model) /\ Valid(L.model)
    BY DEF Consistent, ClosedFiles
  <2>2. op.do = "patch_group" => op.name \in GroupNames(L.model)
    BY DEF Settled
  <2>3. QED
    BY <2>1, <2>2, RedirectChange
<1>2. "meta" \in Reads(op)
  BY ReadsMeta DEF RedirectOps
<1>3. "meta" \in DOMAIN files => s.meta = L.meta
  BY <1>2 DEF ReadFrom
<1>4. "model" \in DOMAIN files
  <2>1. PICK n, S, T, y : files = And(ModelOnly(n), IfDirty(s.meta, MetaTo(s.meta, T, y)))
    BY <1>1 DEF Moved
  <2>2. QED
    BY <2>1, DirtyIs
<1>5. Derivable(N.model, N.meta)
  BY <1>4 DEF Passed
<1>6. QED
  BY <1>1, <1>3, <1>5, MovedStand

(* The requests on one rule set, or on the downloads of some.              *)
LEMMA RuleSetsStand ==
  ASSUME NEW L, File \subseteq DOMAIN L, Consistent(L), Listing(L.meta),
         NEW op, op.do \in RuleSetOps, Asked(op), NEW ruled, NEW s, NEW files,
         files = Change(op, s, L.model, ruled), files # NoFiles,
         ReadFrom(op, s, files, L),
         NEW N, Written(N, files, L), Passed(op, files, N)
  PROVE  RulesOk(N.model) /\ Reach(N) /\ Agree(N)
<1>1. op.do \in {"add_ruleset", "del_ruleset"} => op.set \in RuleSet
  BY DEF Asked, WellFormedRequest
<1>2. "meta" \in Reads(op)
  BY ReadsMeta
<1>3. ASSUME "meta" \in DOMAIN files
      PROVE  s.meta = L.meta /\ \A r \in DOMAIN N.meta : N[r] # Missing
  <2>1. RuleSetDirect(op, files)
    BY <1>3 DEF RuleSetDirect
  <2>2. QED
    BY <1>2, <1>3, <2>1 DEF ReadFrom, Passed
<1>4. CASE op.do = "add_ruleset"
  <2>1. files = AddRuleSet(op, s, L.model)
    BY <1>4, Zenon DEF Change
  <2>2. "meta" \in DOMAIN files
    BY <2>1 DEF AddRuleSet, And
  <2>3. Written(N, AddRuleSet(op, s, L.model), L)
    BY <2>1
  <2>4. QED
    BY <1>1, <1>3, <1>4, <2>2, <2>3, AddRuleSetStands
<1>5. CASE op.do = "set_ruleset_target"
  <2>1. files = TargetRuleSet(op, s, L.model)
    BY <1>5, Zenon DEF Change
  <2>2. "meta" \in DOMAIN files
    BY <2>1 DEF TargetRuleSet, And
  <2>3. Written(N, TargetRuleSet(op, s, L.model), L) /\ TargetRuleSet(op, s, L.model) # NoFiles
    BY <2>1
  <2>4. QED
    BY <1>3, <2>2, <2>3, TargetRuleSetStands
<1>6. CASE op.do = "del_ruleset"
  <2>1. files = DelRuleSet(op, s, L.model)
    BY <1>6, Zenon DEF Change
  <2>2. "meta" \in DOMAIN files
    BY <2>1 DEF DelRuleSet, And
  <2>3. Written(N, DelRuleSet(op, s, L.model), L)
    BY <2>1
  <2>4. QED
    BY <1>1, <1>3, <1>6, <2>2, <2>3, DelRuleSetStands
<1>7. CASE op.do = "refresh_rulesets"
  <2>1. files = RefreshRuleSets(op, s, L.model)
    BY <1>7, Zenon DEF Change
  <2>2. "meta" \in DOMAIN files
    BY <2>1 DEF RefreshRuleSets, And
  <2>3. /\ Written(N, RefreshRuleSets(op, s, L.model), L)
        /\ RefreshRuleSets(op, s, L.model) # NoFiles
    BY <2>1
  <2>4. QED
    BY <1>3, <2>2, <2>3, RefreshStands
<1>8. QED
  BY <1>4, <1>5, <1>6, <1>7 DEF RuleSetOps

LEMMA RestoringStands ==
  ASSUME NEW L, File \subseteq DOMAIN L, Consistent(L), Listing(L.meta),
         ClosedFiles(L), Plain(L.model), NEW op, op.do = "restore", Asked(op), Archived(op),
         NEW ruled, NEW s, NEW files, files = Change(op, s, L.model, ruled),
         ReadFrom(op, s, files, L), NEW N, Written(N, files, L)
  PROVE  RulesOk(N.model) /\ Reach(N) /\ Agree(N)
<1>1. PICK z : /\ Consistent(z) /\ Cardinality(DirectTags(z.model)) = 1
               /\ op.data = Archive(z)
  BY DEF Archived
<1>2. files = Restore(op, s)
  BY Zenon DEF Change
<1>3. /\ "meta" \in DOMAIN op.data /\ "model" \in DOMAIN op.data
      /\ op.data.meta = z.meta /\ op.data.model = z.model
  BY <1>1 DEF Archive
<1>4. Listing(z.meta) /\ Plain(z.model)
  BY <1>3 DEF Asked, WellFormedRequest, WellFormedMeta, Listing
<1>5. "model" \in DOMAIN files /\ "meta" \in DOMAIN files
  BY <1>2, <1>3 DEF Restore, RestoredFiles, And, ModelOnly
<1>6. s.model = L.model /\ s.meta = L.meta
  <2>1. {"model", "meta"} \subseteq Reads(op)
    BY ReadsMeta
  <2>2. QED
    BY <1>5, <2>1 DEF ReadFrom
<1>7. ASSUME NEW m, Plain(m), Cardinality(DirectTags(m)) = 1
      PROVE  TheDirect(m) # Direct
  <2>1. DirectTags(m) # {}
    BY <1>7, FS_EmptySet
  <2>2. Direct \notin DirectTags(m)
    BY <1>7, PlainTargets
  <2>3. QED
    BY <2>1, <2>2 DEF TheDirect
<1>8. TheDirect(z.model) # Direct
  BY <1>1, <1>4, <1>7
<1>9. TheDirect(s.model) # Direct
  BY <1>6, <1>7 DEF ClosedFiles, Valid, ValidNoTargets
<1>10. Written(N, Restore(op, s), L)
  BY <1>2
<1>11. QED
  BY <1>1, <1>4, <1>6, <1>8, <1>9, <1>10, RestoreStands

LEMMA ChangeStands ==
  ASSUME NEW L, File \subseteq DOMAIN L, Consistent(L), Listing(L.meta),
         ClosedFiles(L), Plain(L.model), NEW op, Asked(op), Archived(op),
         NEW ruled, Settled(op, L.model, ruled), NEW s, NEW files,
         files = Change(op, s, L.model, ruled), files # NoFiles,
         ReadFrom(op, s, files, L),
         RuleSetDirect(op, files) \/ ("meta" \in DOMAIN files => SameWay(L.meta, files.meta)),
         NEW N, Written(N, files, L), Passed(op, files, N)
  PROVE  Consistent(N)
<1>1. op.do \in Requests
  BY DEF Asked, WellFormedRequest
<1>2. CASE op.do \in KeepingOps
  BY <1>2, KeepingStands DEF Consistent
<1>3. CASE op.do \in RedirectOps
  <2>1. ~RuleSetDirect(op, files)
    BY <1>3 DEF RuleSetDirect, RedirectOps, RuleSetOps
  <2>2. QED
    BY <1>3, <2>1, RedirectStands DEF Consistent
<1>4. CASE op.do \in RuleSetOps
  BY <1>4, RuleSetsStand DEF Consistent
<1>5. CASE op.do = "restore"
  BY <1>5, RestoringStands DEF Consistent
<1>6. CASE op.do = "set_ruleset_label"
  <2>1. files = LabelRuleSet(op, s)
    BY <1>6, Zenon DEF Change
  <2>2. "meta" \in DOMAIN files
    BY <2>1 DEF LabelRuleSet
  <2>3. s.meta = L.meta
    BY <1>6, <2>2, ReadsMeta DEF ReadFrom
  <2>4. Written(N, LabelRuleSet(op, s), L) /\ LabelRuleSet(op, s) # NoFiles
    BY <2>1
  <2>5. QED
    BY <2>3, <2>4, LabelStands DEF Consistent
<1>7. QED
  BY <1>1, <1>2, <1>3, <1>4, <1>5, <1>6
  DEF Requests, KeepingOps, ListOps, RedirectOps, RuleSetOps

-----------------------------------------------------------------------------
(* What an editor knows, from its first look to its commit.                *)

(* Its early answer, as long as nobody has committed since, or as long as  *)
(* it is pinned to the model it loaded.                                    *)
Knows(c, m, n) ==
  /\ Archived(c.op)
  /\ Loose(c.op) => c.at \in Nat /\ c.at <= n
  /\ c.op.do = "reassign_rule" /\ c.at = n =>
       (c.op.idx \in DOMAIN m.rules => m.rules[c.op.idx].set = None)
  /\ c.op.do = "del_rule" /\ c.at = n => (c.ruled <=> Rule(m, c.op.dom))

PinnedGroup(c) == c.op.do = "patch_group" => c.op.name \in GroupNames(c.model)

(* What it has staged is its change of some files and model, and those that*)
(* it replaces are what its commit expects to find.                        *)
Based(c) ==
  \E s, m :
    /\ c.files = Change(c.op, s, m, c.ruled) /\ c.files # NoFiles
    /\ DOMAIN c.files \subseteq DOMAIN c.expect
    /\ \A f \in DOMAIN c.files \cap Reads(c.op) : c.expect[f] = s[f]
    /\ "model" \in DOMAIN c.files /\ "model" \notin Reads(c.op) => c.expect.model = m
    /\ c.op.do = "patch_group" => c.op.name \in GroupNames(m)

(* The inductive invariant of this module, beside IInv and FInv.           *)
RInv ==
  /\ edits \in Nat
  /\ File \subseteq DOMAIN live
  /\ Consistent(live)
  /\ \A e \in Editor :
       /\ step[e] # "idle" => Knows(seen[e], live.model, edits)
       /\ step[e] \in {"checked", "read"} => PinnedGroup(seen[e])
       /\ step[e] = "staged" => Based(seen[e])

(* The hypotheses, beside DirectIsPhone.  Undisturbed: nobody commits      *)
(* between the first look and the commit of the requests that are Loose,   *)
(* whose early answer is not checked again.  FitAtStart: the files fit     *)
(* together at first, and so they did where an archive was made that       *)
(* passes the checks of a restore, which do not look that far.             *)
Undisturbed == "undisturbed" \in Discipline
FitAtStart ==
  /\ \A s \in AtStart : Consistent(s)
  /\ \A e \in Editor : \A op \in Menu[e] :
       op.do = "restore" /\ RestoreEarly(op) => Archived(op)

LEMMA BeginKnows ==
  ASSUME FitAtStart, RInv, IInv, NEW e \in Editor, Begin(e)
  PROVE  Knows(seen'[e], live.model, edits) /\ PinnedGroup(seen'[e])
<1>1. PICK op \in Menu[e] :
        /\ Early(op, live.model, live.direct)
        /\ seen' = [seen EXCEPT ![e] =
          [Blank EXCEPT !.op = op,
                        !.model = IF Pinned(op) THEN live.model ELSE None,
                        !.ruled = op.do = "del_rule" /\ Rule(live.model, op.dom),
                        !.at = IF Loose(op) THEN edits ELSE 0]]
  BY DEF Begin
<1> DEFINE c == seen'[e]
<1>2. /\ c.op = op /\ c.model = IF Pinned(op) THEN live.model ELSE None
      /\ c.ruled = (op.do = "del_rule" /\ Rule(live.model, op.dom))
      /\ c.at = IF Loose(op) THEN edits ELSE 0
  BY <1>1, BlankFields DEF IInv
<1> HIDE DEF c
<1>3. Archived(op)
  <2>1. op.do = "restore" => RestoreEarly(op)
    BY <1>1, Zenon DEF Early
  <2>2. QED
    BY <2>1 DEF FitAtStart, Archived
<1>4. op.do = "reassign_rule" =>
        (op.idx \in DOMAIN live.model.rules => live.model.rules[op.idx].set = None)
  <2>1. op.do = "reassign_rule" => ReassignRuleEarly(op, live.model)
    BY <1>1, Zenon DEF Early
  <2>2. QED
    BY <2>1 DEF ReassignRuleEarly
<1>5. op.do = "patch_group" => op.name \in GroupNames(live.model)
  <2>1. op.do = "patch_group" => PatchGroupEarly(op, live.model)
    BY <1>1, Zenon DEF Early
  <2>2. QED
    BY <2>1 DEF PatchGroupEarly
<1>6. op.do = "patch_group" => Pinned(op)
  BY DEF Pinned, PolicyGroupOps
<1>7. edits \in Nat
  BY DEF RInv
<1>8. op.do = "del_rule" => (c.ruled <=> Rule(live.model, op.dom))
  BY <1>2
<1>9. Loose(op) => c.at = edits
  BY <1>2
<1>10. QED
  BY <1>2, <1>3, <1>4, <1>5, <1>6, <1>7, <1>8, <1>9 DEF Knows, PinnedGroup, c

LEMMA StageBased ==
  ASSUME RInv, IInv, NEW e \in Editor, Stage(e)
  PROVE  /\ Based(seen'[e])
         /\ \A m, n : Knows(seen[e], m, n) => Knows(seen'[e], m, n)
<1> DEFINE c == seen[e]
           files == Change(c.op, c.files, live.model, c.ruled)
           held == DOMAIN files \cup Watched(c.op, files)
           expect == [f \in held |-> IF f \in Checked(c.op) THEN c.files[f] ELSE live[f]]
           d == seen'[e]
<1>1. /\ step[e] = "read" /\ DOMAIN files # {}
      /\ Pinned(c.op) => c.model = live.model
      /\ seen' = [seen EXCEPT ![e] = [c EXCEPT !.model = None, !.files = files,
                                                !.expect = expect]]
  BY DEF Stage
<1>2. /\ d.files = files /\ d.expect = expect /\ d.op = c.op
      /\ d.ruled = c.ruled /\ d.at = c.at
  <2> HIDE DEF files, expect
  <2>1. QED
    BY <1>1, BlankFields DEF IInv
<1> HIDE DEF d
<1>3. files # NoFiles
  <2> HIDE DEF files
  <2>1. QED
    BY <1>1 DEF NoFiles
<1>4. c.op.do = "patch_group" => c.op.name \in GroupNames(live.model)
  BY <1>1 DEF RInv, PinnedGroup, Pinned, PolicyGroupOps
<1>5. DOMAIN files \subseteq DOMAIN expect
  <2> HIDE DEF files
  <2>1. QED
    OBVIOUS
<1>6. \A f \in DOMAIN files :
        expect[f] = IF f \in Reads(c.op) THEN c.files[f] ELSE live[f]
  <2> HIDE DEF files
  <2>1. QED
    BY DEF Checked
<1> HIDE DEF expect
<1>7. /\ d.files = Change(d.op, c.files, live.model, d.ruled) /\ d.files # NoFiles
      /\ DOMAIN d.files \subseteq DOMAIN d.expect
      /\ \A f \in DOMAIN d.files \cap Reads(d.op) : d.expect[f] = c.files[f]
      /\ "model" \in DOMAIN d.files /\ "model" \notin Reads(d.op) =>
           d.expect.model = live.model
      /\ d.op.do = "patch_group" => d.op.name \in GroupNames(live.model)
  <2>1. d.files = Change(d.op, c.files, live.model, d.ruled)
    BY <1>2
  <2> HIDE DEF files
  <2>2. QED
    BY <1>2, <1>3, <1>4, <1>5, <1>6, <2>1
<1>8. Based(d)
  BY <1>7 DEF Based
<1>9. QED
  BY <1>2, <1>8 DEF Knows, d

(* The change computed of the model of then is that of the model of now,   *)
(* if it replaces that.                                                    *)
LEMMA SameChange ==
  ASSUME NEW op, op.do \in Requests, NEW s, NEW m, NEW n, NEW ruled,
         Change(op, s, m, ruled) # NoFiles,
         "model" \in DOMAIN Change(op, s, m, ruled) /\ op.do # "restore" => m = n
  PROVE  Change(op, s, m, ruled) = Change(op, s, n, ruled)
<1>1. CASE op.do = "add_direct"
  BY <1>1, Zenon DEF Change
<1>2. CASE op.do = "set_ruleset_label"
  BY <1>2, Zenon DEF Change
<1>3. CASE op.do = "restore"
  BY <1>3, Zenon DEF Change
<1>4. CASE op.do = "del_rule"
  <2>1. /\ Change(op, s, m, ruled) = DelRule(op, s, m, ruled)
        /\ Change(op, s, n, ruled) = DelRule(op, s, n, ruled)
    BY <1>4, Zenon DEF Change
  <2>2. CASE ruled
    <3>1. "model" \in DOMAIN DelRule(op, s, m, ruled)
      BY <2>2, WithModel, Zenon DEF DelRule
    <3>2. QED
      BY <1>4, <2>1, <3>1
  <2>3. CASE ~ruled
    BY <2>1, <2>3, Zenon DEF DelRule
  <2>4. QED
    BY <2>2, <2>3
<1>5. CASE op.do \notin {"add_direct", "del_rule", "set_ruleset_label", "restore"}
  <2>1. "model" \in DOMAIN Change(op, s, m, ruled)
    BY <1>5, ModelStaged
  <2>2. QED
    BY <1>5, <2>1
<1>6. QED
  BY <1>1, <1>2, <1>3, <1>4, <1>5

(* What a commit writes is the change of the model of now, computed of the *)
(* files of now as far as it replaces them.                                *)
LEMMA CommitMade ==
  ASSUME Undisturbed, FInv, RInv, NEW e \in Editor, Commit(e),
         NEW c, c = seen[e], NEW op, op = c.op
  PROVE  /\ Asked(op) /\ Settled(op, live.model, c.ruled) /\ Archived(op)
         /\ c.files # NoFiles
         /\ \E s : c.files = Change(op, s, live.model, c.ruled) /\ ReadFrom(op, s, c.files, live)
<1>1. /\ step[e] = "staged" /\ (Loose(op) => c.at = edits)
      /\ \A f \in DOMAIN c.expect : live[f] = c.expect[f]
  BY DEF Commit, Unchanged, Undisturbed
<1>2. Asked(op) /\ Based(c) /\ Knows(c, live.model, edits)
  BY <1>1 DEF FInv, RInv
<1>3. PICK s, m :
        /\ c.files = Change(op, s, m, c.ruled) /\ c.files # NoFiles
        /\ DOMAIN c.files \subseteq DOMAIN c.expect
        /\ \A f \in DOMAIN c.files \cap Reads(op) : c.expect[f] = s[f]
        /\ "model" \in DOMAIN c.files /\ "model" \notin Reads(op) => c.expect.model = m
        /\ op.do = "patch_group" => op.name \in GroupNames(m)
  BY <1>2 DEF Based
<1>4. "model" \in DOMAIN c.files /\ op.do # "restore" => m = live.model
  BY <1>1, <1>3, ListsRead
<1>5. op.do \in Requests
  BY <1>2 DEF Asked, WellFormedRequest
<1>6. c.files = Change(op, s, live.model, c.ruled)
  BY <1>3, <1>4, <1>5, SameChange
<1>7. ReadFrom(op, s, c.files, live)
  BY <1>1, <1>3 DEF ReadFrom
<1>8. op.do = "patch_group" => op.name \in GroupNames(live.model)
  <2>1. op.do = "patch_group" => "model" \in DOMAIN c.files
    BY <1>3, <1>5, ModelStaged
  <2>2. QED
    BY <1>3, <1>4, <2>1
<1>9. Settled(op, live.model, c.ruled) /\ Archived(op)
  <2>1. op.do \in {"reassign_rule", "del_rule"} => Loose(op)
    BY DEF Loose
  <2>2. QED
    BY <1>1, <1>2, <1>8, <2>1 DEF Settled, Knows
<1>10. QED
  BY <1>2, <1>3, <1>6, <1>7, <1>9

LEMMA CommitFits ==
  ASSUME Undisturbed, IInv, FInv, RInv, NEW e \in Editor, Commit(e), Listing(live'.meta)
  PROVE  Consistent(live') /\ File \subseteq DOMAIN live' /\ edits' = edits + 1
<1> DEFINE c == seen[e]
           op == c.op
           next == And(c.files, live)
           read == And(c.files, And(c.expect, live))
<1>1. /\ step[e] = "staged" /\ live' = next /\ edits' = edits + 1
      /\ \A f \in DOMAIN c.expect : live[f] = c.expect[f]
      /\ "model" \in DOMAIN c.files => Derivable(next.model, next.meta)
      /\ RuleSetDirect(op, c.files) => \A r \in DOMAIN next.meta : read[r] # Missing
  BY DEF Commit, Unchanged
<1>2. Written(next, c.files, live)
  BY AndWrites
<1>3. /\ Asked(op) /\ Settled(op, live.model, c.ruled) /\ Archived(op)
      /\ c.files # NoFiles
      /\ \E s : c.files = Change(op, s, live.model, c.ruled) /\ ReadFrom(op, s, c.files, live)
  <2> HIDE DEF c
  <2>1. c = seen[e]
    BY DEF c
  <2>2. QED
    BY <2>1, CommitMade
<1>4. \A r \in RuleSet : read[r] = next[r]
  <2>1. TAKE r \in RuleSet
  <2>2. r \in DOMAIN live
    BY DEF FInv
  <2>3. CASE r \in DOMAIN c.files
    BY <2>3 DEF And
  <2>4. CASE r \notin DOMAIN c.files
    <3>1. read[r] = And(c.expect, live)[r] /\ next[r] = live[r]
      BY <2>2, <2>4 DEF And
    <3>2. And(c.expect, live)[r] = live[r]
      BY <1>1, <2>2 DEF And
    <3>3. QED
      BY <3>1, <3>2
  <2>5. QED
    BY <2>3, <2>4
<1>5. Ready(c)
  BY <1>1 DEF FInv
<1> HIDE DEF next, read, op, c
<1>6. Passed(op, c.files, next)
  BY <1>1, <1>4 DEF Passed, Listing
<1>7. PICK s : c.files = Change(op, s, live.model, c.ruled) /\ ReadFrom(op, s, c.files, live)
  BY <1>3
<1>8. RuleSetDirect(op, c.files)
         \/ ("meta" \in DOMAIN c.files => SameWay(live.meta, c.files.meta))
  BY <1>1, <1>5 DEF Ready, op
<1>9. /\ File \subseteq DOMAIN live /\ Consistent(live) /\ Listing(live.meta)
      /\ ClosedFiles(live) /\ Plain(live.model)
  BY DEF RInv, FInv, IInv, Closed
<1>10. Consistent(next)
  BY <1>2, <1>3, <1>6, <1>7, <1>8, <1>9, ChangeStands
<1>11. File \subseteq DOMAIN next
  BY <1>2, <1>9 DEF Written
<1>12. QED
  BY <1>1, <1>10, <1>11

(* The configurations it may start from.                                   *)
LEMMA InitRules ==
  ASSUME FitAtStart
  PROVE  Init => RInv
<1> SUFFICES ASSUME Init PROVE RInv
  OBVIOUS
<1>1. live \in AtStart /\ edits = 0 /\ \A e \in Editor : step[e] = "idle"
  BY DEF Init
<1>2. DOMAIN live = File /\ Consistent(live)
  BY <1>1, PolicyAssumption DEF FitAtStart
<1>3. QED
  BY <1>1, <1>2 DEF RInv

LEMMA StepRules ==
  ASSUME Undisturbed, FitAtStart
  PROVE  IInv /\ FInv /\ RInv /\ FInv' /\ [Next]_vars => RInv'
<1> SUFFICES ASSUME IInv, FInv, RInv, FInv', [Next]_vars PROVE RInv'
  OBVIOUS
<1>0. DOMAIN step = Editor /\ DOMAIN seen = Editor /\ edits \in Nat
  BY DEF IInv, RInv
<1>1. ASSUME NEW e \in Editor, Begin(e) PROVE RInv'
  <2>1. Knows(seen'[e], live.model, edits) /\ PinnedGroup(seen'[e])
    BY <1>1, BeginKnows
  <2>2. step' = [step EXCEPT ![e] = "checked"] /\ UNCHANGED <<live, edits>>
    BY <1>1 DEF Begin
  <2>3. \A d \in Editor \ {e} : seen'[d] = seen[d] /\ step'[d] = step[d]
    <3>1. PICK c : seen' = [seen EXCEPT ![e] = c]
      BY <1>1 DEF Begin
    <3>2. QED
      BY <2>2, <3>1
  <2>4. step'[e] = "checked"
    BY <1>0, <2>2
  <2>5. QED
    BY <2>1, <2>2, <2>3, <2>4 DEF RInv
<1>2. ASSUME NEW e \in Editor, Snapshot(e) PROVE RInv'
  <2>1. seen' = [seen EXCEPT ![e] =
          [seen[e] EXCEPT !.files = [f \in Reads(seen[e].op) |-> live[f]]]]
    BY <1>2 DEF Snapshot
  <2>2. /\ seen'[e].op = seen[e].op /\ seen'[e].model = seen[e].model
        /\ seen'[e].ruled = seen[e].ruled /\ seen'[e].at = seen[e].at
    BY <1>0, <2>1, BlankFields DEF IInv
  <2>3. /\ step[e] = "checked" /\ step' = [step EXCEPT ![e] = "read"]
        /\ UNCHANGED <<live, edits>>
    BY <1>2 DEF Snapshot
  <2>4. \A d \in Editor \ {e} : seen'[d] = seen[d] /\ step'[d] = step[d]
    BY <2>1, <2>3
  <2>5. step'[e] = "read"
    BY <1>0, <2>3
  <2>6. Knows(seen[e], live.model, edits) /\ PinnedGroup(seen[e])
    BY <2>3 DEF RInv
  <2>7. Knows(seen'[e], live.model, edits) /\ PinnedGroup(seen'[e])
    BY <2>2, <2>6 DEF Knows, PinnedGroup
  <2>8. QED
    BY <2>3, <2>4, <2>5, <2>7 DEF RInv
<1>3. ASSUME NEW e \in Editor, Stage(e) PROVE RInv'
  <2>1. /\ step[e] = "read" /\ step' = [step EXCEPT ![e] = "staged"]
        /\ UNCHANGED <<live, edits>>
    BY <1>3 DEF Stage
  <2>2. /\ Based(seen'[e])
        /\ \A m, n : Knows(seen[e], m, n) => Knows(seen'[e], m, n)
    BY <1>3, StageBased
  <2>3. \A d \in Editor \ {e} : seen'[d] = seen[d] /\ step'[d] = step[d]
    <3>1. PICK c : seen' = [seen EXCEPT ![e] = c]
      BY <1>3 DEF Stage
    <3>2. QED
      BY <2>1, <3>1
  <2>4. step'[e] = "staged"
    BY <1>0, <2>1
  <2>5. Knows(seen'[e], live.model, edits)
    BY <2>1, <2>2 DEF RInv
  <2>6. QED
    BY <2>1, <2>2, <2>3, <2>4, <2>5 DEF RInv
<1>4. ASSUME NEW e \in Editor, Commit(e) PROVE RInv'
  <2>1. /\ step' = [step EXCEPT ![e] = "idle"]
        /\ seen' = [seen EXCEPT ![e] = Blank]
    BY <1>4 DEF Commit, Forget
  <2>2. \A d \in Editor \ {e} : seen'[d] = seen[d] /\ step'[d] = step[d]
    BY <2>1
  <2>3. step'[e] = "idle"
    BY <1>0, <2>1
  <2>4. Consistent(live') /\ File \subseteq DOMAIN live' /\ edits' = edits + 1
    <3>1. Listing(live'.meta)
      BY DEF FInv
    <3>2. QED
      BY <1>4, <3>1, CommitFits
  <2>5. ASSUME NEW d \in Editor \ {e}, step[d] # "idle"
        PROVE  Knows(seen[d], live'.model, edits')
    <3>1. Knows(seen[d], live.model, edits)
      BY <2>5 DEF RInv
    <3>2. seen[d].op.do \in {"reassign_rule", "del_rule"} => Loose(seen[d].op)
      BY DEF Loose
    <3>3. Loose(seen[d].op) => seen[d].at \in Nat /\ seen[d].at <= edits
      BY <3>1 DEF Knows
    <3>4. Loose(seen[d].op) => seen[d].at # edits' /\ seen[d].at <= edits'
      BY <1>0, <2>4, <3>3
    <3>5. QED
      BY <3>1, <3>2, <3>3, <3>4 DEF Knows
  <2>6. edits' \in Nat
    BY <1>0, <2>4
  <2>7. QED
    BY <2>2, <2>3, <2>4, <2>5, <2>6 DEF RInv
<1>5. ASSUME NEW e \in Editor, Refuse(e) PROVE RInv'
  <2>1. /\ step' = [step EXCEPT ![e] = "idle"] /\ seen' = [seen EXCEPT ![e] = Blank]
        /\ UNCHANGED <<live, edits>>
    BY <1>5 DEF Refuse, Forget
  <2>2. \A d \in Editor \ {e} : seen'[d] = seen[d] /\ step'[d] = step[d]
    BY <2>1
  <2>3. step'[e] = "idle"
    BY <1>0, <2>1
  <2>4. QED
    BY <2>1, <2>2, <2>3 DEF RInv
<1>6. CASE UNCHANGED vars
  BY <1>6 DEF vars, RInv
<1>7. QED
  BY <1>1, <1>2, <1>3, <1>4, <1>5, <1>6 DEF Next

(* The three together.                                                     *)
LEMMA RulesAlways ==
  ASSUME DirectIsPhone, Undisturbed, FitAtStart
  PROVE  Spec => [](IInv /\ FInv /\ RInv)
<1>1. Init => IInv /\ FInv /\ RInv
  BY InitInv, InitFresh, InitRules
<1>2. IInv /\ FInv /\ RInv /\ [Next]_vars => (IInv /\ FInv /\ RInv)'
  BY StepInv, StepFresh, StepRules
<1>3. QED
  BY <1>1, <1>2, PTL DEF Spec

-----------------------------------------------------------------------------
(* The theorems.                                                           *)

(* A domain that a rule names is always hijacked by MosDNS or was given to *)
(* the phone, for any editors, requests and interleavings: every edit of   *)
(* the rules stages the lists it has to, computed of those it replaces.    *)
THEOREM RuledDomainsReach ==
  ASSUME DirectIsPhone, Undisturbed, FitAtStart
  PROVE  Spec => []RuledDomainsReachGateway
<1>1. RInv => RuledDomainsReachGateway
  <2> SUFFICES ASSUME RInv, NEW i \in DOMAIN live.model.rules
               PROVE  live.model.rules[i].domains \subseteq live.hijack \cup live.direct
    BY DEF RuledDomainsReachGateway
  <2>1. Ruled(live.model) \subseteq live.hijack \cup live.direct
    BY DEF RInv, Consistent, Reach
  <2>2. live.model.rules[i].domains \subseteq Ruled(live.model)
    BY DEF Ruled, ToSet
  <2>3. QED
    BY <2>1, <2>2
<1>2. QED
  BY <1>1, RulesAlways, PTL

(* The model and rulesets.json always agree, and every rule set that is    *)
(* listed has its source: though they are two files, most edits stage one  *)
(* of them only, and a target is replaced in each on its own.              *)
THEOREM RuleSetsKept ==
  ASSUME DirectIsPhone, Undisturbed, FitAtStart
  PROVE  Spec => []RuleSetsAgree
<1>1. RInv => RuleSetsAgree
  <2> SUFFICES ASSUME RInv, NEW r \in RuleSet
               PROVE
      /\ r \in DOMAIN live.meta <=> live[r] # Missing
      /\ {live.model.rules[i].out : i \in {j \in DOMAIN live.model.rules :
                                             live.model.rules[j].set = r}}
           = IF r \in Providers(live.meta) THEN {live.meta[r].to} ELSE {}
      /\ r \in live.model.sets <=> r \in Providers(live.meta)
    BY DEF RuleSetsAgree
  <2>1. AgreeOn(live, r)
    BY DEF RInv, Consistent, Agree
  <2>2. Sent(live.model, r)
          = {live.model.rules[i].out : i \in {j \in DOMAIN live.model.rules :
                                                live.model.rules[j].set = r}}
    BY DEF Sent, ToSet
  <2>3. QED
    BY <2>1, <2>2 DEF AgreeOn
<1>2. QED
  BY <1>1, RulesAlways, PTL

-----------------------------------------------------------------------------
(* The domain test and the rendered rules.                                 *)

(* A rendered line is one that Runs looks at, for domain d.                *)
Matches(l, listed, d) ==
  \/ l.op = "DOMAIN" /\ d \in l.arg
  \/ l.op = "RULE-SET" /\ \E r \in l.arg : d \in listed[r]
  \/ l.op = "MATCH"

(* A rule is one that the domain test looks at.                            *)
Hits(rule, listed, d) ==
  \/ d \in rule.domains
  \/ rule.set # None /\ d \in listed[rule.set]

(* The first of both.                                                      *)
LEMMA RunsIs ==
  ASSUME NEW t, DOMAIN t \subseteq Nat, NEW listed, NEW d,
         NEW k \in DOMAIN t, Matches(t[k], listed, d),
         \A j \in DOMAIN t : j < k => ~Matches(t[j], listed, d)
  PROVE  Runs(t, listed, d) = t[k].to
<1> DEFINE At == {i \in DOMAIN t : Matches(t[i], listed, d)}
           i == CHOOSE i \in At : \A j \in At : i <= j
<1>1. Runs(t, listed, d) = t[i].to
  BY DEF Runs, Matches
<1>2. k \in At /\ \A j \in At : k <= j
  OBVIOUS
<1>3. At \subseteq Nat
  OBVIOUS
<1> HIDE DEF At
<1>4. i \in At /\ \A j \in At : i <= j
  BY <1>2
<1> HIDE DEF i
<1>5. i <= k /\ k <= i /\ i \in Nat /\ k \in Nat
  BY <1>2, <1>3, <1>4
<1>6. QED
  BY <1>1, <1>5

LEMMA RouteInfoIs ==
  ASSUME NEW m, IsList(m.rules), NEW listed, NEW d
  PROVE  \/ /\ \A i \in DOMAIN m.rules : ~Hits(m.rules[i], listed, d)
            /\ RouteInfo(m, listed, d) = m.final
         \/ \E i \in DOMAIN m.rules :
              /\ Hits(m.rules[i], listed, d)
              /\ \A j \in DOMAIN m.rules : j < i => ~Hits(m.rules[j], listed, d)
              /\ RouteInfo(m, listed, d) # None =>
                   /\ ~m.rules[i].reject /\ m.rules[i].out # None
                   /\ RouteInfo(m, listed, d) = m.rules[i].out
<1> DEFINE At == {i \in DOMAIN m.rules : Hits(m.rules[i], listed, d)}
           i == CHOOSE i \in At : \A j \in At : i <= j
<1>1. RouteInfo(m, listed, d)
        = IF At = {} THEN m.final
          ELSE IF m.rules[i].reject \/ m.rules[i].tg \/ m.rules[i].out = None THEN None
          ELSE m.rules[i].out
  BY DEF RouteInfo, Hits
<1>2. CASE At = {}
  BY <1>1, <1>2
<1>3. CASE At # {}
  <2>1. At \in SUBSET DOMAIN m.rules
    OBVIOUS
  <2> HIDE DEF At
  <2>2. i \in At /\ \A j \in At : i <= j
    BY <1>3, <2>1, FirstIs
  <2>3. DOMAIN m.rules \subseteq Nat
    BY ListIs
  <2> HIDE DEF i
  <2>4. \A j \in DOMAIN m.rules : j < i => j \notin At
    BY <2>1, <2>2, <2>3
  <2>5. QED
    BY <1>1, <1>3, <2>2, <2>4 DEF At
<1>4. QED
  BY <1>2, <1>3

(* A body of rules with one line woven in after its first `lead' ones, and  *)
(* one at its end.                                                         *)
Woven(b, lead, u, v) ==
  SubSeq(b, 1, lead) \o <<u>> \o SubSeq(b, lead + 1, Len(b)) \o <<v>>

(* The lines around the rendered rules.                                    *)
LEMMA Lines ==
  ASSUME NEW b, IsList(b), NEW lead \in {0, 1}, lead <= Len(b), NEW u, NEW v
  PROVE  LET t == Woven(b, lead, u, v)
         IN  /\ DOMAIN t = 1..(Len(b) + 2)
             /\ t[lead + 1] = u /\ t[Len(b) + 2] = v
             /\ \A k \in 1..lead : t[k] = b[k]
             /\ \A k \in (lead + 1)..Len(b) : t[k + 1] = b[k]
<1> DEFINE E == ToSet(b) \cup {u, v}
           p == SubSeq(b, 1, lead)
           q == SubSeq(b, lead + 1, Len(b))
           t == p \o <<u>> \o q \o <<v>>
<1>1. Len(b) \in Nat /\ lead \in Nat
  BY ListIs
<1>2. b \in Seq(E)
  <2>1. b \in [1..Len(b) -> ToSet(b)]
    BY SeqIs DEF IsList
  <2>2. b \in [1..Len(b) -> E]
    BY <2>1
  <2> HIDE DEF E
  <2>3. QED
    BY <1>1, <2>2
<1>3. u \in E /\ v \in E
  OBVIOUS
<1> HIDE DEF E
<1>4. /\ p \in Seq(E) /\ Len(p) = lead /\ \A k \in 1..lead : p[k] = b[k]
  BY <1>1, <1>2
<1>5. /\ q \in Seq(E) /\ Len(q) = Len(b) - lead
      /\ \A k \in 1..(Len(b) - lead) : q[k] = b[lead + k]
  BY <1>1, <1>2
<1> HIDE DEF p, q
<1>6. PICK x : x = p \o <<u>>
  OBVIOUS
<1>7. /\ x \in Seq(E) /\ Len(x) = lead + 1 /\ x[lead + 1] = u
      /\ \A k \in 1..lead : x[k] = p[k]
  BY <1>1, <1>3, <1>4, <1>6
<1>8. PICK y : y = x \o q
  OBVIOUS
<1>9. /\ y \in Seq(E) /\ Len(y) = Len(b) + 1
      /\ \A k \in 1..(lead + 1) : y[k] = x[k]
      /\ \A k \in 1..(Len(b) - lead) : y[lead + 1 + k] = q[k]
  <2>1. Len(x) = lead + 1 /\ Len(q) = Len(b) - lead /\ x \in Seq(E) /\ q \in Seq(E)
    BY <1>5, <1>7
  <2>2. y \in Seq(E) /\ Len(y) = Len(b) + 1
    BY <1>1, <1>8, <2>1
  <2>3. \A k \in 1..(lead + 1) : y[k] = x[k]
    BY <1>1, <1>8, <2>1
  <2>4. ASSUME NEW k \in 1..(Len(b) - lead)
        PROVE  y[lead + 1 + k] = q[k]
    <3>1. y[Len(x) + k] = q[k]
      <4>1. k \in 1..Len(q)
        BY <2>1
      <4>2. QED
        BY <1>8, <2>1, <4>1
    <3>2. QED
      BY <2>1, <3>1
  <2>5. QED
    BY <2>2, <2>3, <2>4
<1>10. PICK z : z = y \o <<v>>
  OBVIOUS
<1>11. /\ z \in Seq(E) /\ Len(z) = Len(b) + 2 /\ z[Len(b) + 2] = v
       /\ \A k \in 1..(Len(b) + 1) : z[k] = y[k]
  BY <1>1, <1>3, <1>9, <1>10
<1>12. t = z
  BY <1>6, <1>8, <1>10
<1>13. z[lead + 1] = u /\ \A k \in 1..lead : z[k] = b[k]
  BY <1>1, <1>4, <1>7, <1>9, <1>11
<1>14. ASSUME NEW k \in (lead + 1)..Len(b) PROVE z[k + 1] = b[k]
  <2>1. k - lead \in 1..(Len(b) - lead)
    BY <1>1
  <2>2. y[lead + 1 + (k - lead)] = q[k - lead] /\ q[k - lead] = b[lead + (k - lead)]
    BY <1>5, <1>9, <2>1
  <2>3. lead + 1 + (k - lead) = k + 1 /\ lead + (k - lead) = k
    BY <1>1
  <2>4. k + 1 \in 1..(Len(b) + 1)
    BY <1>1
  <2>5. QED
    BY <1>11, <2>2, <2>3, <2>4
<1>15. DOMAIN z = 1..(Len(b) + 2)
  BY <1>11
<1>16. Woven(b, lead, u, v) = z
  BY <1>12 DEF Woven, p, q
<1> HIDE DEF t
<1>17. QED
  BY <1>11, <1>13, <1>14, <1>15, <1>16

(* The line of a rule, if it is rendered.                                  *)
LineOf(m, r) ==
  CASE r.reject -> [op |-> "IP-CIDR", arg |-> {}, to |-> "REJECT"]
    [] ~r.reject /\ r.set # None ->
         [op |-> "RULE-SET", arg |-> {r.set}, to |-> MapTarget(m, r.out)]
    [] OTHER -> [op |-> "DOMAIN", arg |-> r.domains, to |-> MapTarget(m, r.out)]
Goes(r, P) ==
  \/ r.reject
  \/ /\ r.out # None
     /\ IF r.set # None THEN r.set \in P ELSE r.domains # {}

Body(m, P) ==
  Those([i \in DOMAIN m.rules |-> LineOf(m, m.rules[i])],
        {i \in DOMAIN m.rules : Goes(m.rules[i], P)})
LeadOf(b) == IF b # <<>> /\ b[1].op = "IP-CIDR" THEN 1 ELSE 0
InLine(m) == [op |-> "IN-NAME", arg |-> {}, to |-> MapTarget(m, TelegramExit(m))]
LastLine(m) == [op |-> "MATCH", arg |-> {}, to |-> MapTarget(m, m.final)]

LEMMA RenderedIs ==
  ASSUME NEW m, NEW P, NEW b, b = Body(m, P)
  PROVE  Rendered(m, P) = SubSeq(b, 1, LeadOf(b)) \o <<InLine(m)>>
                            \o SubSeq(b, LeadOf(b) + 1, Len(b)) \o <<LastLine(m)>>
BY DEF Rendered, Body, LineOf, Goes, LeadOf, InLine, LastLine

(* A line matches what its rule names, and nothing else.                   *)
LEMMA LineMatches ==
  ASSUME NEW m, NEW r, Ruly(r), NEW listed, NEW d
  PROVE  /\ Matches(LineOf(m, r), listed, d) => Hits(r, listed, d)
         /\ Hits(r, listed, d) /\ ~r.reject =>
              Matches(LineOf(m, r), listed, d) /\ LineOf(m, r).to = MapTarget(m, r.out)
<1>1. r.set # None => r.domains = {}
  BY DEF Ruly
<1>2. CASE r.reject
  <2>1. LineOf(m, r) = [op |-> "IP-CIDR", arg |-> {}, to |-> "REJECT"]
    BY <1>2 DEF LineOf
  <2>2. QED
    BY <1>2, <2>1 DEF Matches
<1>3. CASE ~r.reject /\ r.set # None
  <2>1. LineOf(m, r) = [op |-> "RULE-SET", arg |-> {r.set}, to |-> MapTarget(m, r.out)]
    BY <1>3 DEF LineOf
  <2>2. QED
    BY <1>1, <1>3, <2>1 DEF Matches, Hits
<1>4. CASE ~r.reject /\ ~(r.set # None)
  <2>1. LineOf(m, r) = [op |-> "DOMAIN", arg |-> r.domains, to |-> MapTarget(m, r.out)]
    BY <1>4 DEF LineOf
  <2>2. QED
    BY <1>4, <2>1 DEF Matches, Hits
<1>5. QED
  BY <1>2, <1>3, <1>4

(* If the renderer drops no rule set's rule, the domain test is right      *)
(* whenever it names a target.                                             *)
LEMMA TestIsRight ==
  ASSUME NEW m, RulesOk(m), NEW P,
         \A x \in ToSet(m.rules) : x.set # None => x.set \in P,
         NEW listed, NEW d, RouteInfo(m, listed, d) # None
  PROVE  Runs(Rendered(m, P), listed, d) = MapTarget(m, RouteInfo(m, listed, d))
<1> DEFINE L == [i \in DOMAIN m.rules |-> LineOf(m, m.rules[i])]
           I == {i \in DOMAIN m.rules : Goes(m.rules[i], P)}
<1>1. /\ IsList(m.rules) /\ Len(m.rules) \in Nat /\ DOMAIN m.rules = 1..Len(m.rules)
      /\ \A i \in DOMAIN m.rules : Ruly(m.rules[i])
  BY ListIs DEF RulesOk, ToSet
<1>2. I \in SUBSET (1..Len(m.rules))
  BY <1>1
<1>3. PICK b : b = Body(m, P)
  OBVIOUS
<1>4. b = Those(L, I)
  BY <1>3 DEF Body
<1>5. /\ Cardinality(I) \in Nat
      /\ \E f \in [1..Cardinality(I) -> I] :
           /\ b = [k \in 1..Cardinality(I) |-> L[f[k]]]
           /\ \A i \in I : \E k \in 1..Cardinality(I) : f[k] = i
           /\ \A k, l \in 1..Cardinality(I) : k < l => f[k] < f[l]
  <2> HIDE DEF L, I
  <2>1. Cardinality(I) \in Nat
    BY <1>1, <1>2, CountFacts
  <2>2. QED
    BY <1>1, <1>2, <1>4, <2>1, ThoseInOrder
<1>6. PICK n : n = Cardinality(I)
  OBVIOUS
<1>7. PICK f \in [1..n -> I] :
           /\ b = [k \in 1..n |-> L[f[k]]]
           /\ \A i \in I : \E k \in 1..n : f[k] = i
           /\ \A k, l \in 1..n : k < l => f[k] < f[l]
  BY <1>5, <1>6
<1>8. n \in Nat
  BY <1>5, <1>6
<1>9. \A k \in 1..n : /\ f[k] \in DOMAIN m.rules /\ Goes(m.rules[f[k]], P)
                      /\ b[k] = LineOf(m, m.rules[f[k]])
  <2>1. TAKE k \in 1..n
  <2>2. f[k] \in I
    BY <1>7
  <2>3. b[k] = L[f[k]]
    <3> HIDE DEF L
    <3>1. QED
      BY <1>7
  <2>4. QED
    BY <2>2, <2>3
<1>10. IsList(b) /\ Len(b) = n
  <2>1. b = [k \in 1..n |-> b[k]]
    <3> HIDE DEF L
    <3>1. QED
      BY <1>7
  <2>2. QED
    BY <1>8, <2>1, IsListIf
<1>11. PICK lead : lead = LeadOf(b)
  OBVIOUS
<1>12. lead \in {0, 1} /\ lead <= n
  <2>1. n = 0 => b = <<>>
    BY <1>8, <1>10
  <2>2. QED
    BY <1>8, <1>11, <2>1 DEF LeadOf
<1> DEFINE u == InLine(m)
           v == LastLine(m)
<1> HIDE DEF L, I
<1>13. PICK t : t = Woven(b, lead, u, v) /\ Rendered(m, P) = t
  BY <1>3, <1>11, RenderedIs DEF Woven
<1>14. /\ DOMAIN t = 1..(n + 2) /\ t[lead + 1] = u /\ t[n + 2] = v
       /\ \A k \in 1..lead : t[k] = b[k]
       /\ \A k \in (lead + 1)..n : t[k + 1] = b[k]
  <2> HIDE DEF u, v
  <2>1. QED
    BY <1>10, <1>12, <1>13, Lines
<1>15. ~Matches(u, listed, d) /\ Matches(v, listed, d) /\ v.to = MapTarget(m, m.final)
  BY DEF Matches, InLine, LastLine
<1> HIDE DEF u, v
<1>16. ASSUME NEW j \in DOMAIN t, Matches(t[j], listed, d), j # n + 2
       PROVE  \E k \in 1..n : /\ Hits(m.rules[f[k]], listed, d)
                              /\ j = IF k <= lead THEN k ELSE k + 1
  <2>1. j # lead + 1
    BY <1>14, <1>15, <1>16
  <2>2. CASE j \in 1..lead
    <3>1. j \in 1..n /\ t[j] = b[j]
      BY <1>8, <1>12, <1>14, <2>2
    <3>2. Hits(m.rules[f[j]], listed, d)
      BY <1>1, <1>9, <1>16, <3>1, LineMatches
    <3>3. QED
      BY <1>12, <2>2, <3>1, <3>2
  <2>3. CASE j \in (lead + 2)..(n + 1)
    <3>1. PICK k \in (lead + 1)..n : j = k + 1
      <4>1. j - 1 \in (lead + 1)..n /\ j = (j - 1) + 1
        BY <1>8, <1>12, <2>3
      <4>2. QED
        BY <4>1
    <3>2. k \in 1..n /\ t[j] = b[k]
      BY <1>8, <1>12, <1>14, <3>1
    <3>3. Hits(m.rules[f[k]], listed, d)
      BY <1>1, <1>9, <1>16, <3>2, LineMatches
    <3>4. QED
      BY <1>12, <3>1, <3>2, <3>3
  <2>4. QED
    BY <1>8, <1>12, <1>14, <1>16, <2>1, <2>2, <2>3
<1>17. DOMAIN t \subseteq Nat
  BY <1>8, <1>14
<1>18. CASE /\ \A i \in DOMAIN m.rules : ~Hits(m.rules[i], listed, d)
            /\ RouteInfo(m, listed, d) = m.final
  <2>1. n + 2 \in DOMAIN t /\ Matches(t[n + 2], listed, d)
    BY <1>8, <1>14, <1>15
  <2>2. \A j \in DOMAIN t : j < n + 2 => ~Matches(t[j], listed, d)
    BY <1>8, <1>9, <1>14, <1>16, <1>18
  <2>3. Runs(t, listed, d) = t[n + 2].to
    BY <1>17, <2>1, <2>2, RunsIs
  <2>4. QED
    BY <1>13, <1>14, <1>15, <1>18, <2>3
<1>19. ASSUME NEW i \in DOMAIN m.rules, Hits(m.rules[i], listed, d),
              \A j \in DOMAIN m.rules : j < i => ~Hits(m.rules[j], listed, d),
              ~m.rules[i].reject, m.rules[i].out # None,
              RouteInfo(m, listed, d) = m.rules[i].out
       PROVE  Runs(t, listed, d) = MapTarget(m, RouteInfo(m, listed, d))
  <2>1. i \in I
    <3>1. Goes(m.rules[i], P)
      BY <1>19 DEF Goes, Hits, ToSet
    <3>2. QED
      BY <3>1 DEF I
  <2>2. PICK k \in 1..n : f[k] = i
    BY <1>7, <2>1
  <2>3. Matches(b[k], listed, d) /\ b[k].to = MapTarget(m, m.rules[i].out)
    BY <1>1, <1>9, <1>19, <2>2, LineMatches
  <2>4. PICK p : p = IF k <= lead THEN k ELSE k + 1
    OBVIOUS
  <2>5. p \in DOMAIN t /\ t[p] = b[k]
    BY <1>8, <1>12, <1>14, <2>4
  <2>6. ASSUME NEW j \in DOMAIN t, j < p, Matches(t[j], listed, d)
        PROVE  FALSE
    <3>1. j # n + 2
      BY <1>8, <1>14, <2>5, <2>6
    <3>2. PICK l \in 1..n : /\ Hits(m.rules[f[l]], listed, d)
                            /\ j = IF l <= lead THEN l ELSE l + 1
      BY <1>16, <2>6, <3>1
    <3>3. l < k
      BY <1>8, <1>12, <2>4, <2>6, <3>2
    <3>4. f[l] < i /\ f[l] \in DOMAIN m.rules
      BY <1>7, <1>9, <2>2, <3>3
    <3>5. QED
      BY <1>19, <3>2, <3>4
  <2>7. Runs(t, listed, d) = t[p].to
    BY <1>17, <2>3, <2>5, <2>6, RunsIs
  <2>8. QED
    BY <1>19, <2>3, <2>5, <2>7
<1>20. QED
  BY <1>1, <1>13, <1>18, <1>19, RouteInfoIs

(* Where the bot's domain test names an exit, Mihomo goes there, for any   *)
(* editors, requests and interleavings and any rule sets: it reads the     *)
(* model, and Mihomo has the rules rendered from it some commits ago.      *)
THEOREM DomainTestRight ==
  ASSUME DirectIsPhone, Undisturbed, FitAtStart
  PROVE  Spec => []DomainTestAgrees
<1>1. IInv /\ RInv => DomainTestAgrees
  <2> SUFFICES ASSUME IInv, RInv, NEW d, RouteInfo(live.model, Listed, d) # None
               PROVE  Runs(mihomo, Listed, d)
                        = MapTarget(live.model, RouteInfo(live.model, Listed, d))
    BY DEF DomainTestAgrees
  <2>1. mihomo = Rendered(live.model, Providers(live.meta))
    BY DEF IInv, RenderingAgrees
  <2>2. RulesOk(live.model) /\ Agree(live)
    BY DEF RInv, Consistent
  <2>3. ASSUME NEW x \in ToSet(live.model.rules), x.set # None
        PROVE  x.set \in Providers(live.meta)
    <3>1. x.set \in RuleSet
      BY <2>2, <2>3 DEF RulesOk, Ruly
    <3>2. x.out \in Sent(live.model, x.set)
      BY SentIs
    <3>3. QED
      BY <2>2, <3>1, <3>2 DEF Agree, AgreeOn
  <2>4. QED
    BY <2>1, <2>2, <2>3, TestIsRight
<1>2. QED
  BY <1>1, RulesAlways, PTL

-----------------------------------------------------------------------------
(* A commit is what its request would have done alone.                     *)

(* rulesets.json is a table with two columns.                              *)
IsTable(meta) == meta = [r \in DOMAIN meta |-> [to |-> meta[r].to, label |-> meta[r].label]]

(* A target that is replaced by itself is not replaced.                    *)
LEMMA Unmoved ==
  ASSUME NEW meta, IsTable(meta), NEW T, NEW y,
         \A r \in DOMAIN meta : meta[r].to \in T => meta[r].to = y
  PROVE  MetaTo(meta, T, y) = meta
<1>1. \A r \in DOMAIN meta : meta[r] = [to |-> meta[r].to, label |-> meta[r].label]
  BY DEF IsTable
<1>2. \A r \in DOMAIN meta : meta[r].to \in T => [meta[r] EXCEPT !.to = y] = meta[r]
  BY <1>1
<1>3. meta = [r \in DOMAIN meta |-> meta[r]]
  <2>1. \A r \in DOMAIN meta :
          [to |-> meta[r].to, label |-> meta[r].label] = meta[r]
    BY <1>1
  <2>2. [r \in DOMAIN meta |-> [to |-> meta[r].to, label |-> meta[r].label]]
          = [r \in DOMAIN meta |-> meta[r]]
    BY <2>1
  <2>3. QED
    BY <2>2 DEF IsTable
<1>4. MetaTo(meta, T, y) = [r \in DOMAIN meta |-> meta[r]]
  BY <1>2 DEF MetaTo
<1>5. QED
  BY <1>3, <1>4

(* n is the model of m after the redirection, of whatever rulesets.json    *)
(* the targets there are replaced; none is that the model n still has.     *)
Replaces(op, m, ruled, n, y) ==
  \A meta : \E T :
    /\ \A t : t.meta = meta =>
         Change(op, t, m, ruled) = And(ModelOnly(n), IfDirty(meta, MetaTo(meta, T, y)))
    /\ \A x \in T : x \in (Routable(n) \cap Routable(m)) \cup {Direct} => x = y

LEMMA RenameReplaces ==
  ASSUME NEW op, op.do \in {"rename_exit", "set_direct_tag"}, Asked(op),
         NEW m, Plain(m), NEW ruled
  PROVE  \E n, y : Replaces(op, m, ruled, n, y)
<1> DEFINE n == Rename(m, op.tag, op.new)
           T == {op.tag}
<1>1. \A t : Change(op, t, m, ruled) = RenameExit(op, t, m)
  BY Zenon DEF Change
<1>2. \A t : RenameExit(op, t, m)
               = And(ModelOnly(n), IfDirty(t.meta, MetaTo(t.meta, T, op.new)))
  BY DEF RenameExit
<1>3. op.tag # Direct /\ op.new # Direct
  BY DEF Asked
<1>4. op.tag # op.new => op.tag \notin Routable(n)
  BY <1>3, RenamedGone
<1> HIDE DEF n
<1>5. \A x \in T : x \in (Routable(n) \cap Routable(m)) \cup {Direct} => x = op.new
  BY <1>3, <1>4
<1>6. Replaces(op, m, ruled, n, op.new)
  BY <1>1, <1>2, <1>5 DEF Replaces
<1>7. QED
  BY <1>6

(* A deletion by the bot, or of a group by the web.                        *)
LEMMA RetargetGone ==
  ASSUME NEW m, Plain(m), Valid(m), NEW tag, tag # Direct, NEW y,
         NEW x \in Cascade(m, {tag})
  PROVE  x \notin (Routable(Retarget(Without(m, {tag}), y)) \cap Routable(m)) \cup {Direct}
<1> DEFINE w == Without(m, {tag})
           n == Retarget(w, y)
<1>1. Plain(w) /\ Plain(n)
  BY WithoutPlain, SameListsPlain, RuleEdits
<1>2. Routable(n) = Routable(w)
  BY <1>1, RuleEdits, SameTags
<1>3. x \in Routable(m) => x \notin Routable(w)
  BY WithoutRoutable DEF Valid, ValidNoTargets
<1>4. x # Direct
  BY CascadeIs
<1> HIDE DEF n, w
<1>5. x \notin (Routable(n) \cap Routable(m)) \cup {Direct}
  BY <1>2, <1>3, <1>4
<1>6. QED
  BY <1>5 DEF n, w

LEMMA DeleteReplaces ==
  ASSUME NEW op, op.do = "delete_exit", Asked(op), NEW m, Plain(m), Valid(m), NEW ruled
  PROVE  \E n, y : Replaces(op, m, ruled, n, y)
<1> DEFINE y == Fallback(m, {op.tag})
           n == Retarget(Without(m, {op.tag}), y)
           T == Cascade(m, {op.tag})
<1>1. \A t : Change(op, t, m, ruled) = DeleteExit(op, t, m)
  BY Zenon DEF Change
<1>2. \A t : DeleteExit(op, t, m) = And(ModelOnly(n), IfDirty(t.meta, MetaTo(t.meta, T, y)))
  BY DEF DeleteExit
<1>3. op.tag # Direct
  BY DEF Asked
<1>4. \A x \in T : x \notin (Routable(n) \cap Routable(m)) \cup {Direct}
  BY <1>3, RetargetGone
<1> HIDE DEF n, y, T
<1>5. Replaces(op, m, ruled, n, y)
  BY <1>1, <1>2, <1>4 DEF Replaces
<1>6. QED
  BY <1>5

LEMMA DeleteGroupReplaces ==
  ASSUME NEW op, op.do = "delete_group", Asked(op), NEW m, Plain(m), Valid(m), NEW ruled,
         NEW s, Change(op, s, m, ruled) # NoFiles
  PROVE  \E n, y : Replaces(op, m, ruled, n, y)
<1> DEFINE all == RoutableTags(m)
           T == Cascade(m, {op.name})
           left == Those(all, {i \in DOMAIN all : all[i] \notin T})
           y == left[1]
           n == Retarget(Without(m, {op.name}), y)
<1>1. \A t : Change(op, t, m, ruled) = DeleteGroup(op, t, m)
  BY Zenon DEF Change
<1>2. \A t : DeleteGroup(op, t, m)
               = IF left = <<>> THEN NoFiles
                 ELSE And(ModelOnly(n), IfDirty(t.meta, MetaTo(t.meta, T, y)))
  BY DEF DeleteGroup
<1>3. op.name # Direct
  BY DEF Asked
<1>4. \A x \in T : x \notin (Routable(n) \cap Routable(m)) \cup {Direct}
  BY <1>3, RetargetGone
<1> HIDE DEF n, y, T, left
<1>5. left # <<>>
  BY <1>1, <1>2
<1>6. Replaces(op, m, ruled, n, y)
  BY <1>1, <1>2, <1>4, <1>5 DEF Replaces
<1>7. QED
  BY <1>6

LEMMA WebDeleteReplaces ==
  ASSUME NEW op, op.do = "web_delete_exit", NEW m, NEW ruled,
         NEW s, Change(op, s, m, ruled) # NoFiles
  PROVE  \E n, y : Replaces(op, m, ruled, n, y)
<1> DEFINE n == DeleteOutbound(m, op.tag)
           y == n.final
           T(meta) == {meta[r].to : r \in DOMAIN meta} \ (Routable(n) \cup {Direct})
<1>1. \A t : Change(op, t, m, ruled) = WebDeleteExit(op, t, m)
  BY Zenon DEF Change
<1>2. \A t : WebDeleteExit(op, t, m)
               = IF op.tag \notin Proxies(m) THEN NoFiles
                 ELSE And(ModelOnly(n), IfDirty(t.meta, MetaTo(t.meta, T(t.meta), y)))
  BY DEF WebDeleteExit
<1>3. op.tag \in Proxies(m)
  BY <1>1, <1>2
<1> HIDE DEF n, y
<1>4. \A meta : \A x \in T(meta) : x \notin (Routable(n) \cap Routable(m)) \cup {Direct}
  OBVIOUS
<1> HIDE DEF T
<1>5. Replaces(op, m, ruled, n, y)
  BY <1>1, <1>2, <1>3, <1>4 DEF Replaces
<1>6. QED
  BY <1>5

LEMMA PatchReplaces ==
  ASSUME NEW op, op.do = "patch_group", Asked(op), NEW m, RulesOk(m), Plain(m), Valid(m),
         op.name \in GroupNames(m), NEW ruled, NEW s, Change(op, s, m, ruled) # NoFiles
  PROVE  \E n, y : Replaces(op, m, ruled, n, y)
<1> DEFINE n == Patched(op, m)
           T == {op.name}
           Taken == op.new # op.name /\ op.new \in OutTags(m) \cup GroupNames(m) \cup Reserved
<1>1. \A t : Change(op, t, m, ruled) = PatchGroup(op, t, m)
  BY Zenon DEF Change
<1>2. \A t : PatchGroup(op, t, m)
               = IF Taken THEN NoFiles
                 ELSE And(ModelOnly(n), IfDirty(t.meta, MetaTo(t.meta, T, op.new)))
  BY DEF PatchGroup, Patched
<1>3. op.name # Direct /\ op.new # Direct
  BY DEF Asked
<1>4. op.name # op.new => op.name \notin Routable(n)
  BY <1>3, PatchMoved
<1> HIDE DEF n, Taken
<1>5. ~Taken
  BY <1>1, <1>2
<1>6. \A x \in T : x \in (Routable(n) \cap Routable(m)) \cup {Direct} => x = op.new
  BY <1>3, <1>4
<1>7. Replaces(op, m, ruled, n, op.new)
  BY <1>1, <1>2, <1>5, <1>6 DEF Replaces
<1>8. QED
  BY <1>7

(* So a redirection that left rulesets.json alone would do so now, for the *)
(* derivation has found every target of now in the new model.              *)
LEMMA RedirectAgain ==
  ASSUME NEW op, op.do \in RedirectOps, Asked(op), NEW L, {"model", "meta"} \subseteq DOMAIN L,
         RulesOk(L.model), Plain(L.model), ClosedFiles(L), IsTable(L.meta), NEW ruled,
         op.do = "patch_group" => op.name \in GroupNames(L.model),
         NEW s, NEW files, files = Change(op, s, L.model, ruled), files # NoFiles,
         "meta" \in DOMAIN files => s.meta = L.meta,
         NEW N, Written(N, files, L), Derivable(N.model, N.meta)
  PROVE  Written(N, Change(op, L, L.model, ruled), L)
<1> DEFINE m == L.model
<1>1. PICK n, y : Replaces(op, m, ruled, n, y)
  <2>1. Valid(m)
    BY DEF ClosedFiles
  <2>2. QED
    BY <2>1, RenameReplaces, DeleteReplaces, WebDeleteReplaces, PatchReplaces,
       DeleteGroupReplaces DEF RedirectOps
<1>2. PICK S : files = And(ModelOnly(n), IfDirty(s.meta, MetaTo(s.meta, S, y)))
  BY <1>1 DEF Replaces
<1>3. PICK T :
        /\ \A t : t.meta = L.meta =>
             Change(op, t, m, ruled) = And(ModelOnly(n), IfDirty(L.meta, MetaTo(L.meta, T, y)))
        /\ \A x \in T : x \in (Routable(n) \cap Routable(m)) \cup {Direct} => x = y
  BY <1>1 DEF Replaces
<1>4. CASE "meta" \in DOMAIN files
  <2>1. s.meta = L.meta
    BY <1>4
  <2>2. Change(op, L, m, ruled) = files
    BY <1>3, <2>1
  <2>3. QED
    BY <2>2
<1>5. CASE "meta" \notin DOMAIN files
  <2>1. N.model = n /\ N.meta = L.meta
    BY <1>2, <1>5, DirtyIs DEF Written
  <2>2. \A r \in DOMAIN L.meta : L.meta[r].to \in (Routable(n) \cap Routable(m)) \cup {Direct}
    BY <2>1 DEF Derivable, ClosedFiles
  <2>3. MetaTo(L.meta, T, y) = L.meta
    BY <1>3, <2>2, Unmoved
  <2>4. QED
    BY <1>2, <1>3, <1>5, <2>3, DirtyIs DEF Written
<1>6. QED
  BY <1>4, <1>5


(* The other edits replace every file they are computed of.                *)
LEMMA ListsAgain ==
  ASSUME NEW L, NEW op, op.do \in ListOps, NEW ruled, NEW s, NEW files,
         files = Change(op, s, L.model, ruled), files # NoFiles, ReadFrom(op, s, files, L)
  PROVE  Change(op, L, L.model, ruled) = files
<1>1. CASE op.do \in {"add_rule", "web_add_rule"}
  <2>1. \A t : Change(op, t, L.model, ruled) = AddRule(op, t, L.model)
    BY <1>1, Zenon DEF Change
  <2>2. "hijack" \in DOMAIN AddRule(op, s, L.model)
    BY DEF AddRule, And, ModelOnly
  <2>3. s.hijack = L.hijack
    BY <1>1, <2>1, <2>2, ListsRead DEF ReadFrom
  <2>4. QED
    BY <2>1, <2>3, Zenon DEF AddRule
<1>2. ASSUME op.do \in {"add_direct", "del_rule", "del_rules_bulk", "patch_rule"},
             {"direct", "hijack"} \subseteq DOMAIN files
      PROVE  s.direct = L.direct /\ s.hijack = L.hijack
  <2>1. Reads(op) = {"direct", "hijack"}
    BY <1>2, ListsRead
  <2>2. QED
    BY <1>2, <2>1 DEF ReadFrom
<1>3. CASE op.do = "add_direct"
  <2>1. \A t : Change(op, t, L.model, ruled) = AddDirectRule(op, t)
    BY <1>3, Zenon DEF Change
  <2>0. files = AddDirectRule(op, s)
    BY <2>1
  <2>2. {"direct", "hijack"} \subseteq DOMAIN files
    BY <2>0, BothStaged, Zenon DEF AddDirectRule
  <2>3. s.direct = L.direct /\ s.hijack = L.hijack
    BY <1>2, <1>3, <2>2
  <2>4. QED
    BY <2>1, <2>3, Zenon DEF AddDirectRule
<1>4. CASE op.do = "del_rule"
  <2>1. \A t : Change(op, t, L.model, ruled) = DelRule(op, t, L.model, ruled)
    BY <1>4, Zenon DEF Change
  <2>0. files = DelRule(op, s, L.model, ruled)
    BY <2>1
  <2>2. {"direct", "hijack"} \subseteq DOMAIN files
    BY <2>0, BothStaged, SMTT(30) DEF DelRule
  <2>3. s.direct = L.direct /\ s.hijack = L.hijack
    BY <1>2, <1>4, <2>2
  <2>4. QED
    BY <2>1, <2>3, Zenon DEF DelRule
<1>5. CASE op.do = "del_rules_bulk"
  <2>1. \A t : Change(op, t, L.model, ruled) = DelRulesBulk(op, t, L.model)
    BY <1>5, Zenon DEF Change
  <2>0. files = DelRulesBulk(op, s, L.model)
    BY <2>1
  <2>2. {"direct", "hijack"} \subseteq DOMAIN files
    BY <2>0, BothStaged, SMTT(30) DEF DelRulesBulk
  <2>3. s.direct = L.direct /\ s.hijack = L.hijack
    BY <1>2, <1>5, <2>2
  <2>4. QED
    BY <2>1, <2>3, Zenon DEF DelRulesBulk
<1>6. CASE op.do = "patch_rule"
  <2>1. \A t : Change(op, t, L.model, ruled) = PatchRule(op, t, L.model)
    BY <1>6, Zenon DEF Change
  <2>2. \E x, d, h : files = And(ModelOnly(x), Both(d, h))
    <3>1. PICK x : x = MoveDomain(L.model, op.dom, op.to)
      OBVIOUS
    <3>2. \/ files = And(ModelOnly(x), Both(s.direct \cup {op.dom}, s.hijack \ {op.dom}))
          \/ files = And(ModelOnly(x), Both(s.direct \ {op.dom}, s.hijack \cup {op.dom}))
      BY <2>1, <3>1 DEF PatchRule
    <3>3. QED
      BY <3>2, Zenon
  <2>3. PICK x, d, h : files = And(ModelOnly(x), Both(d, h))
    BY <2>2
  <2>4. {"direct", "hijack"} \subseteq DOMAIN files
    BY <2>3, BothStaged, Zenon
  <2>5. s.direct = L.direct /\ s.hijack = L.hijack
    BY <1>2, <1>6, <2>4
  <2>6. PatchRule(op, s, L.model) = PatchRule(op, L, L.model)
    BY <2>5, Zenon DEF PatchRule
  <2>7. QED
    BY <2>1, <2>6
<1>7. QED
  BY <1>1, <1>3, <1>4, <1>5, <1>6 DEF ListOps

LEMMA RuleSetsAgain ==
  ASSUME NEW L, NEW op, op.do \in RuleSetOps, NEW ruled, NEW s, NEW files,
         files = Change(op, s, L.model, ruled), files # NoFiles, ReadFrom(op, s, files, L)
  PROVE  Change(op, L, L.model, ruled) = files /\ s.meta = L.meta
<1>1. "meta" \in DOMAIN files => s.meta = L.meta
  BY ReadsMeta DEF ReadFrom
<1>2. CASE op.do = "add_ruleset"
  <2>1. \A t : Change(op, t, L.model, ruled) = AddRuleSet(op, t, L.model)
    BY <1>2, Zenon DEF Change
  <2>2. "meta" \in DOMAIN AddRuleSet(op, s, L.model)
    BY DEF AddRuleSet, And
  <2>3. s.meta = L.meta
    BY <1>1, <2>1, <2>2
  <2>4. QED
    BY <2>1, <2>3, Zenon DEF AddRuleSet
<1>3. CASE op.do = "set_ruleset_target"
  <2>1. \A t : Change(op, t, L.model, ruled) = TargetRuleSet(op, t, L.model)
    BY <1>3, Zenon DEF Change
  <2>0. files = TargetRuleSet(op, s, L.model)
    BY <2>1
  <2>2. "meta" \in DOMAIN files
    BY <2>0 DEF TargetRuleSet, And
  <2>3. s.meta = L.meta
    BY <1>1, <2>2
  <2>4. QED
    BY <2>1, <2>3, Zenon DEF TargetRuleSet
<1>4. CASE op.do = "del_ruleset"
  <2>1. \A t : Change(op, t, L.model, ruled) = DelRuleSet(op, t, L.model)
    BY <1>4, Zenon DEF Change
  <2>2. "meta" \in DOMAIN DelRuleSet(op, s, L.model)
    BY DEF DelRuleSet, And
  <2>3. s.meta = L.meta
    BY <1>1, <2>1, <2>2
  <2>4. QED
    BY <2>1, <2>3, Zenon DEF DelRuleSet
<1>5. CASE op.do = "refresh_rulesets"
  <2>1. \A t : Change(op, t, L.model, ruled) = RefreshRuleSets(op, t, L.model)
    BY <1>5, Zenon DEF Change
  <2>0. files = RefreshRuleSets(op, s, L.model)
    BY <2>1
  <2>2. "meta" \in DOMAIN files
    BY <2>0 DEF RefreshRuleSets, And
  <2>3. s.meta = L.meta
    BY <1>1, <2>2
  <2>4. QED
    BY <2>1, <2>3, Zenon DEF RefreshRuleSets
<1>6. QED
  BY <1>2, <1>3, <1>4, <1>5 DEF RuleSetOps

(* An archive as a gateway makes it has all files.                         *)
LEMMA RestoreAgain ==
  ASSUME NEW L, NEW op, op.do = "restore", Archived(op), NEW ruled, NEW s, NEW files,
         files = Change(op, s, L.model, ruled), ReadFrom(op, s, files, L)
  PROVE  /\ Change(op, L, L.model, ruled) = files
         /\ "meta" \in DOMAIN op.data
<1>1. \A t : Change(op, t, L.model, ruled) = Restore(op, t)
  BY Zenon DEF Change
<1>2. "meta" \in DOMAIN op.data
  BY DEF Archived, Archive
<1>0. files = Restore(op, s)
  BY <1>1
<1>3. "model" \in DOMAIN files /\ "meta" \in DOMAIN files
  BY <1>0, <1>2 DEF Restore, RestoredFiles, And, ModelOnly
<1>4. s.model = L.model /\ s.meta = L.meta
  <2>1. {"model", "meta"} \subseteq Reads(op)
    BY ReadsMeta
  <2>2. QED
    BY <1>3, <2>1 DEF ReadFrom
<1>5. Restore(op, s) = Restore(op, L)
  BY <1>4, Zenon DEF Restore, RestoredFiles, RestoredModel, Rebound, RestorePlan
<1>6. QED
  BY <1>1, <1>2, <1>5

LEMMA PlainAgain ==
  ASSUME NEW L, NEW op, op.do \in Requests \ RedirectOps, Archived(op), NEW ruled,
         NEW s, NEW files, files = Change(op, s, L.model, ruled), files # NoFiles,
         ReadFrom(op, s, files, L)
  PROVE  Change(op, L, L.model, ruled) = files
<1>1. CASE op.do \in ListOps
  BY <1>1, ListsAgain
<1>2. CASE op.do \in RuleSetOps
  BY <1>2, RuleSetsAgain
<1>3. CASE op.do = "restore"
  BY <1>3, RestoreAgain
<1>4. CASE op.do = "set_ruleset_label"
  <2>1. \A t : Change(op, t, L.model, ruled) = LabelRuleSet(op, t)
    BY <1>4, Zenon DEF Change
  <2>2. "meta" \in DOMAIN files
    BY <2>1 DEF LabelRuleSet
  <2>3. s.meta = L.meta
    BY <1>4, <2>2, ReadsMeta DEF ReadFrom
  <2>4. QED
    BY <2>1, <2>3, Zenon DEF LabelRuleSet
<1>5. CASE op.do = "reassign_rule"
  BY <1>5, Zenon DEF Change
<1>6. CASE op.do = "reorder_exits"
  BY <1>6, Zenon DEF Change
<1>7. CASE op.do = "add_exit"
  BY <1>7, Zenon DEF Change
<1>8. CASE op.do = "replace_exit"
  BY <1>8, Zenon DEF Change
<1>9. CASE op.do = "set_default_exit"
  BY <1>9, Zenon DEF Change
<1>10. CASE op.do = "set_tg_exit"
  BY <1>10, Zenon DEF Change
<1>11. CASE op.do = "add_group"
  BY <1>11, Zenon DEF Change
<1>12. CASE op.do = "add_policy_group"
  BY <1>12, Zenon DEF Change
<1>13. QED
  BY <1>1, <1>2, <1>3, <1>4, <1>5, <1>6, <1>7, <1>8, <1>9, <1>10, <1>11, <1>12
  DEF Requests, RedirectOps, ListOps, RuleSetOps

-----------------------------------------------------------------------------
(* rulesets.json stays a table.                                            *)

LEMMA TableIf ==
  ASSUME NEW meta, meta = [r \in DOMAIN meta |-> meta[r]],
         \A r \in DOMAIN meta : meta[r] = [to |-> meta[r].to, label |-> meta[r].label]
  PROVE  IsTable(meta)
<1>1. [r \in DOMAIN meta |-> meta[r]]
        = [r \in DOMAIN meta |-> [to |-> meta[r].to, label |-> meta[r].label]]
  OBVIOUS
<1>2. QED
  BY <1>1 DEF IsTable

LEMMA TableRows ==
  ASSUME NEW meta, IsTable(meta)
  PROVE  \A r \in DOMAIN meta : meta[r] = [to |-> meta[r].to, label |-> meta[r].label]
BY DEF IsTable

LEMMA RowTo ==
  \A t, l, y : [[to |-> t, label |-> l] EXCEPT !.to = y] = [to |-> y, label |-> l]
OBVIOUS

LEMMA MoveTable ==
  ASSUME NEW meta, IsTable(meta), NEW T, NEW y
  PROVE  IsTable(MetaTo(meta, T, y))
<1>1. PICK new : new = MetaTo(meta, T, y)
  OBVIOUS
<1>2. new = [r \in DOMAIN meta |->
               IF meta[r].to \in T THEN [meta[r] EXCEPT !.to = y] ELSE meta[r]]
  BY <1>1 DEF MetaTo
<1>3. \A r \in DOMAIN meta :
        /\ meta[r] = [to |-> meta[r].to, label |-> meta[r].label]
        /\ [meta[r] EXCEPT !.to = y] = [to |-> y, label |-> meta[r].label]
  BY TableRows
<1>4. DOMAIN new = DOMAIN meta /\ new = [r \in DOMAIN new |-> new[r]]
  BY <1>2
<1>5. \A r \in DOMAIN new : new[r] = [to |-> new[r].to, label |-> new[r].label]
  BY <1>2, <1>3, <1>4
<1>6. QED
  BY <1>1, <1>4, <1>5, TableIf

LEMMA RuleSetTables ==
  ASSUME NEW L, IsTable(L.meta), NEW op, op.do \in RuleSetOps, NEW ruled, NEW files,
         files = Change(op, L, L.model, ruled), files # NoFiles
  PROVE  IsTable(files.meta)
<1> DEFINE meta == L.meta
<1>0. \A r \in DOMAIN meta : meta[r] = [to |-> meta[r].to, label |-> meta[r].label]
  BY TableRows
<1>1. CASE op.do = "add_ruleset"
  <2>1. files = AddRuleSet(op, L, L.model)
    BY <1>1, Zenon DEF Change
  <2>2. files.meta = [r \in DOMAIN meta \cup {op.set} |->
                        IF r = op.set THEN [to |-> op.to, label |-> FALSE] ELSE meta[r]]
    BY <2>1 DEF AddRuleSet, And, ModelOnly
  <2>3. PICK new : new = files.meta
    OBVIOUS
  <2>4. new = [r \in DOMAIN new |-> new[r]]
    BY <2>2, <2>3
  <2>5. \A r \in DOMAIN new : new[r] = [to |-> new[r].to, label |-> new[r].label]
    BY <1>0, <2>2, <2>3, Zenon
  <2>6. QED
    BY <2>3, <2>4, <2>5, TableIf
<1>2. CASE op.do = "set_ruleset_target"
  <2>1. files = TargetRuleSet(op, L, L.model)
    BY <1>2, Zenon DEF Change
  <2>2. files.meta = [meta EXCEPT ![op.set].to = op.to]
    BY <2>1 DEF TargetRuleSet, And, ModelOnly
  <2>3. PICK new : new = files.meta
    OBVIOUS
  <2>4. DOMAIN new = DOMAIN meta /\ new = [r \in DOMAIN new |-> new[r]]
    BY <2>2, <2>3
  <2>5. \A r \in DOMAIN new : new[r] = IF r = op.set THEN [meta[r] EXCEPT !.to = op.to]
                                                     ELSE meta[r]
    BY <2>2, <2>3
  <2>6. \A r \in DOMAIN meta : [meta[r] EXCEPT !.to = op.to]
                                 = [to |-> op.to, label |-> meta[r].label]
    <3> HIDE DEF meta
    <3>1. TAKE r \in DOMAIN meta
    <3>2. PICK t, l : t = meta[r].to /\ l = meta[r].label
      OBVIOUS
    <3>3. meta[r] = [to |-> t, label |-> l]
      BY <1>0, <3>2
    <3>4. QED
      BY <3>2, <3>3, RowTo
  <2>7. \A r \in DOMAIN new : new[r] = [to |-> new[r].to, label |-> new[r].label]
    BY <1>0, <2>4, <2>5, <2>6
  <2>8. QED
    BY <2>3, <2>4, <2>7, TableIf
<1>3. CASE op.do = "del_ruleset"
  <2>1. files = DelRuleSet(op, L, L.model)
    BY <1>3, Zenon DEF Change
  <2>2. files.meta = [r \in DOMAIN meta \ {op.set} |-> meta[r]]
    BY <2>1 DEF DelRuleSet, And, ModelOnly
  <2>3. PICK new : new = files.meta
    OBVIOUS
  <2>4. new = [r \in DOMAIN new |-> new[r]]
    BY <2>2, <2>3
  <2>5. \A r \in DOMAIN new : new[r] = [to |-> new[r].to, label |-> new[r].label]
    BY <1>0, <2>2, <2>3
  <2>6. QED
    BY <2>3, <2>4, <2>5, TableIf
<1>4. CASE op.do = "refresh_rulesets"
  <2>1. files = RefreshRuleSets(op, L, L.model)
    BY <1>4, Zenon DEF Change
  <2>2. files.meta = meta
    BY <2>1 DEF RefreshRuleSets, And, ModelOnly
  <2>3. QED
    BY <2>2
<1>5. QED
  BY <1>1, <1>2, <1>3, <1>4 DEF RuleSetOps

LEMMA RestoreTable ==
  ASSUME NEW L, NEW op, op.do = "restore", Asked(op), "meta" \in DOMAIN op.data,
         NEW ruled, NEW files, files = Change(op, L, L.model, ruled)
  PROVE  IsTable(files.meta)
<1> DEFINE meta == Rebound(L, op.data, op.data.meta)
           a == [f \in DOMAIN op.data \cap {"direct", "hijack"} |-> op.data[f]]
           b == [f \in {"meta"} |-> meta]
           p == RestorePlan(L, op.data)
           x == RestoredModel(L, op.data)
<1>1. files = And(ModelOnly(x), And(a, And(b, p)))
  <2>1. files = Restore(op, L)
    BY Zenon DEF Change
  <2>2. QED
    BY <2>1 DEF Restore, RestoredFiles
<1>2. "meta" \notin DOMAIN a /\ "meta" \in DOMAIN b /\ b.meta = meta
  OBVIOUS
<1> HIDE DEF a, b, p, x, meta
<1>3. PICK c, g : c = And(b, p) /\ g = And(a, c)
  OBVIOUS
<1>4. "meta" \in DOMAIN c /\ c.meta = meta
  BY <1>2, <1>3 DEF And
<1>5. "meta" \in DOMAIN g /\ g.meta = meta
  BY <1>2, <1>3, <1>4 DEF And
<1>6. files = And(ModelOnly(x), g)
  BY <1>1, <1>3
<1>7. files.meta = meta
  <2>1. And(ModelOnly(x), g).meta = g.meta
    BY <1>5 DEF And, ModelOnly
  <2>2. QED
    BY <1>5, <1>6, <2>1, Zenon
<1>8. IsTable(op.data.meta)
  BY DEF Asked, WellFormedRequest, WellFormedMeta, IsTable
<1>9. QED
  BY <1>7, <1>8, MoveTable DEF meta, Rebound

(* Whatever is asked.                                                      *)
LEMMA ChangeTable ==
  ASSUME NEW L, IsTable(L.meta), RulesOk(L.model), Plain(L.model), Valid(L.model),
         NEW op, Asked(op), Archived(op), NEW ruled, Settled(op, L.model, ruled),
         NEW files, files = Change(op, L, L.model, ruled), "meta" \in DOMAIN files
  PROVE  IsTable(files.meta)
<1>0. op.do \in Requests /\ files # NoFiles
  BY DEF Asked, WellFormedRequest, NoFiles
<1>1. CASE op.do \in KeepingOps
  <2>1. DOMAIN files \subseteq {"model", "direct", "hijack"}
    BY <1>1, KeepingChange DEF KeepingOps, Settled
  <2>2. QED
    BY <2>1
<1>2. CASE op.do \in RedirectOps
  <2>1. PICK n, y : Replaces(op, L.model, ruled, n, y)
    BY <1>0, <1>2, RenameReplaces, DeleteReplaces, WebDeleteReplaces, PatchReplaces,
       DeleteGroupReplaces DEF RedirectOps, Settled
  <2>2. PICK T : files = And(ModelOnly(n), IfDirty(L.meta, MetaTo(L.meta, T, y)))
    BY <2>1 DEF Replaces
  <2>3. files.meta = MetaTo(L.meta, T, y)
    BY <2>2, DirtyIs
  <2>4. QED
    BY <2>3, MoveTable
<1>3. CASE op.do \in RuleSetOps
  BY <1>0, <1>3, RuleSetTables
<1>4. CASE op.do = "restore"
  <2>1. "meta" \in DOMAIN op.data
    BY <1>4 DEF Archived, Archive
  <2>2. QED
    BY <1>4, <2>1, RestoreTable
<1>5. CASE op.do = "set_ruleset_label"
  <2>1. files = LabelRuleSet(op, L)
    BY <1>5, Zenon DEF Change
  <2>2. files.meta = [L.meta EXCEPT ![op.set] = [to |-> @.to, label |-> TRUE]]
    BY <2>1, <1>0 DEF LabelRuleSet
  <2>3. PICK new : new = files.meta
    OBVIOUS
  <2>4. DOMAIN new = DOMAIN L.meta /\ new = [r \in DOMAIN new |-> new[r]]
    BY <2>2, <2>3
  <2>5. \A r \in DOMAIN new :
          new[r] = IF r = op.set THEN [to |-> L.meta[r].to, label |-> TRUE] ELSE L.meta[r]
    BY <2>2, <2>3
  <2>6. \A r \in DOMAIN new : new[r] = [to |-> new[r].to, label |-> new[r].label]
    <3>1. TAKE r \in DOMAIN new
    <3>2. L.meta[r] = [to |-> L.meta[r].to, label |-> L.meta[r].label]
      BY <2>4, TableRows
    <3>3. PICK t, l : L.meta[r] = [to |-> t, label |-> l] /\ t = L.meta[r].to
      BY <3>2
    <3>4. \/ new[r] = [to |-> t, label |-> TRUE]
          \/ new[r] = [to |-> t, label |-> l]
      BY <2>5, <3>3
    <3>5. QED
      BY <3>4
  <2>7. QED
    BY <2>3, <2>4, <2>6, TableIf
<1>6. QED
  BY <1>0, <1>1, <1>2, <1>3, <1>4, <1>5
  DEF Requests, KeepingOps, ListOps, RedirectOps, RuleSetOps

-----------------------------------------------------------------------------
(* A commit does what its request would do now.                            *)

(* The inductive invariant, beside the others.                             *)
TInv == IsTable(live.meta)

LEMMA CommitAgain ==
  ASSUME Undisturbed, IInv, FInv, RInv, TInv, NEW e \in Editor, Commit(e),
         NEW c, c = seen[e], NEW op, op = c.op
  PROVE  /\ Written(live', Change(op, live, live.model, c.ruled), live)
         /\ IsTable(live'.meta)
<1> DEFINE next == And(c.files, live)
           now == Change(op, live, live.model, c.ruled)
<1>1. /\ step[e] = "staged" /\ live' = next
      /\ "model" \in DOMAIN c.files => Derivable(next.model, next.meta)
  BY DEF Commit
<1>2. Written(next, c.files, live)
  BY AndWrites
<1>3. /\ Asked(op) /\ Settled(op, live.model, c.ruled) /\ Archived(op)
      /\ c.files # NoFiles
      /\ \E s : c.files = Change(op, s, live.model, c.ruled) /\ ReadFrom(op, s, c.files, live)
  BY CommitMade
<1>4. PICK s : c.files = Change(op, s, live.model, c.ruled) /\ ReadFrom(op, s, c.files, live)
  BY <1>3
<1>5. /\ File \subseteq DOMAIN live /\ RulesOk(live.model) /\ Plain(live.model)
      /\ ClosedFiles(live) /\ Valid(live.model) /\ IsTable(live.meta)
  BY DEF RInv, FInv, IInv, TInv, Closed, ClosedFiles, Consistent
<1> HIDE DEF next
<1>6. op.do \in Requests
  BY <1>3 DEF Asked, WellFormedRequest
<1>7. Written(next, now, live)
  <2>1. CASE op.do \in RedirectOps
    <3>1. "meta" \in DOMAIN c.files => s.meta = live.meta
      <4>1. "meta" \in Reads(op)
        BY <2>1, ReadsMeta DEF RedirectOps
      <4>2. QED
        BY <1>4, <4>1 DEF ReadFrom
    <3>2. "model" \in DOMAIN c.files
      BY <1>3, <1>4, <1>6, <2>1, ModelStaged DEF RedirectOps
    <3>3. {"model", "meta"} \subseteq DOMAIN live
      BY <1>5 DEF File
    <3>4. QED
      BY <1>1, <1>2, <1>3, <1>4, <1>5, <2>1, <3>1, <3>2, <3>3, RedirectAgain DEF Settled
  <2>2. CASE op.do \notin RedirectOps
    <3>1. now = c.files
      BY <1>3, <1>4, <1>6, <2>2, PlainAgain
    <3>2. QED
      BY <1>2, <3>1
  <2>3. QED
    BY <2>1, <2>2
<1>8. IsTable(next.meta)
  <2>1. "meta" \in DOMAIN live
    BY <1>5 DEF File
  <2>2. "meta" \in DOMAIN now => IsTable(now.meta)
    BY <1>3, <1>5, ChangeTable
  <2> HIDE DEF now
  <2>3. QED
    BY <1>5, <1>7, <2>1, <2>2 DEF Written
<1>9. QED
  BY <1>1, <1>7, <1>8

(* Only del_rule looks at what it found at first.                          *)
LEMMA RuledOnly ==
  ASSUME NEW op, op.do \in Requests, op.do # "del_rule", NEW L, NEW m, NEW x, NEW y
  PROVE  Change(op, L, m, x) = Change(op, L, m, y)
BY Zenon DEF Change

LEMMA AndOnly ==
  ASSUME NEW f, NEW L, NEW N, Written(N, f, L), N = [x \in DOMAIN N |-> N[x]]
  PROVE  N = And(f, L)
<1>1. DOMAIN N = DOMAIN f \cup DOMAIN L
  BY DEF Written
<1>2. \A x \in DOMAIN N : N[x] = IF x \in DOMAIN f THEN f[x] ELSE L[x]
  BY <1>1 DEF Written
<1>3. [x \in DOMAIN N |-> N[x]]
        = [x \in DOMAIN f \cup DOMAIN L |-> IF x \in DOMAIN f THEN f[x] ELSE L[x]]
  BY <1>1, <1>2
<1>4. QED
  BY <1>3 DEF And

LEMMA CommitAtomic ==
  ASSUME Undisturbed, IInv, FInv, RInv, TInv, NEW e \in Editor, Commit(e)
  PROVE  EditIsAtomic(e)
<1>1. PICK c, op : c = seen[e] /\ op = c.op
  OBVIOUS
<1>2. Written(live', Change(op, live, live.model, c.ruled), live)
  BY <1>1, CommitAgain
<1>3. Asked(op) /\ Settled(op, live.model, c.ruled)
  BY <1>1, CommitMade
<1> DEFINE ruled == op.do = "del_rule" /\ Rule(live.model, op.dom)
<1>4. Change(op, live, live.model, c.ruled) = Change(op, live, live.model, ruled)
  <2>1. op.do \in Requests
    BY <1>3 DEF Asked, WellFormedRequest
  <2>2. CASE op.do # "del_rule"
    BY <2>1, <2>2, RuledOnly
  <2>3. CASE op.do = "del_rule"
    <3>1. \A x : Change(op, live, live.model, x) = DelRule(op, live, live.model, x)
      BY <2>3, Zenon DEF Change
    <3>2. c.ruled <=> ruled
      BY <1>3, <2>3 DEF Settled
    <3> HIDE DEF ruled
    <3>3. DelRule(op, live, live.model, c.ruled) = DelRule(op, live, live.model, ruled)
      BY <3>2 DEF DelRule
    <3>4. QED
      BY <3>1, <3>3
  <2>4. QED
    BY <2>2, <2>3
<1> HIDE DEF ruled
<1>5. live' = [x \in DOMAIN live' |-> live'[x]]
  <2>1. live' = And(c.files, live)
    BY <1>1 DEF Commit
  <2>2. PICK N : N = And(c.files, live)
    OBVIOUS
  <2>3. N = [x \in DOMAIN N |-> N[x]]
    BY <2>2 DEF And
  <2>4. QED
    BY <2>1, <2>2, <2>3
<1>6. live' = And(Change(op, live, live.model, ruled), live)
  BY <1>2, <1>4, <1>5, AndOnly
<1>7. QED
  BY <1>1, <1>6 DEF EditIsAtomic, ruled

LEMMA TablesAlways ==
  ASSUME DirectIsPhone, Undisturbed, FitAtStart
  PROVE  Spec => [](IInv /\ FInv /\ RInv /\ TInv)
<1>1. Init => TInv
  BY PolicyAssumption DEF Init, TInv, WellFormedMeta, IsTable
<1>2. IInv /\ FInv /\ RInv /\ TInv /\ [Next]_vars => TInv'
  <2> SUFFICES ASSUME IInv, FInv, RInv, TInv, [Next]_vars PROVE TInv'
    OBVIOUS
  <2>1. ASSUME NEW e \in Editor, Begin(e) \/ Snapshot(e) \/ Stage(e) \/ Refuse(e)
        PROVE  TInv'
    BY <2>1 DEF TInv, Begin, Snapshot, Stage, Refuse
  <2>2. ASSUME NEW e \in Editor, Commit(e) PROVE TInv'
    BY <2>2, CommitAgain DEF TInv
  <2>3. CASE UNCHANGED vars
    BY <2>3 DEF vars, TInv
  <2>4. QED
    BY <2>1, <2>2, <2>3 DEF Next
<1>3. QED
  BY <1>1, <1>2, RulesAlways, PTL DEF Spec

(* No update is lost and nothing that was read too early counts, for any   *)
(* editors, requests and interleavings: what a commit leaves is what its   *)
(* request would have made, in one step, of the files as they were, though *)
(* its candidate was computed of snapshots and the commit checks only what *)
(* it is to replace.  A target of rulesets.json that the candidate did not *)
(* see yet is one that the derivation refuses.                             *)
THEOREM CommitsAreAtomic ==
  ASSUME DirectIsPhone, Undisturbed, FitAtStart
  PROVE  Spec => EditsAreAtomic
<1>1. IInv /\ FInv /\ RInv /\ TInv /\ [Next]_vars
        => \A e \in Editor : Commits(e) => EditIsAtomic(e)
  <2> SUFFICES ASSUME IInv, FInv, RInv, TInv, [Next]_vars, NEW e \in Editor, Commits(e)
               PROVE  EditIsAtomic(e)
    OBVIOUS
  <2>1. step[e] = "staged" /\ edits' # edits /\ step'[e] = "idle"
    BY Zenon DEF Commits
  <2>2. PICK d \in Editor : Commit(d)
    BY <2>1, Zenon DEF Next, vars, Begin, Snapshot, Stage, Refuse
  <2>3. d = e
    <3>1. step' = [step EXCEPT ![d] = "idle"]
      BY <2>2 DEF Commit
    <3>2. QED
      BY <2>1, <3>1
  <2>4. QED
    BY <2>2, <2>3, CommitAtomic
<1>2. IInv /\ FInv /\ RInv /\ TInv /\ [Next]_vars
        => [\A e \in Editor : Commits(e) => EditIsAtomic(e)]_vars
  BY <1>1
<1>3. QED
  BY <1>2, TablesAlways, PTL DEF Spec, EditsAreAtomic

-----------------------------------------------------------------------------
(* A rule that names domains has a target.                                 *)
Targeted(m) == \A x \in ToSet(m.rules) : x.domains # {} => x.out # None

(* Rule by rule.                                                           *)
LEMMA TargetedMap ==
  ASSUME NEW m, RulesOk(m), NEW n, n.rules = [i \in DOMAIN m.rules |-> n.rules[i]],
         \A i \in DOMAIN m.rules : n.rules[i].domains # {} => n.rules[i].out # None
  PROVE  Targeted(n)
<1>1. ToSet(n.rules) = {n.rules[i] : i \in DOMAIN m.rules}
  BY OnMap DEF RulesOk
<1>2. QED
  BY <1>1 DEF Targeted

LEMMA TargetedAt ==
  ASSUME NEW m, RulesOk(m)
  PROVE  /\ Targeted(m) => \A i \in DOMAIN m.rules :
                             m.rules[i].domains # {} => m.rules[i].out # None
         /\ \A i \in DOMAIN m.rules : Ruly(m.rules[i])
BY DEF RulesOk, Targeted, ToSet

(* Rules dropped, one inserted, one replaced.                              *)
LEMMA TargetedThose ==
  ASSUME NEW m, RulesOk(m), Targeted(m), NEW I \in SUBSET DOMAIN m.rules,
         NEW n, n.rules = Those(m.rules, I)
  PROVE  Targeted(n)
<1>1. ToSet(n.rules) = {m.rules[i] : i \in I}
  BY OnThose DEF RulesOk
<1>2. QED
  BY <1>1, TargetedAt DEF Targeted

LEMMA TargetedInsert ==
  ASSUME NEW m, RulesOk(m), Targeted(m), NEW x, Ruly(x), x.domains # {} => x.out # None
  PROVE  Targeted(Insert(m, x))
BY InsertRules DEF Targeted

LEMMA TargetedOne ==
  ASSUME NEW m, RulesOk(m), Targeted(m), NEW i \in DOMAIN m.rules,
         NEW w, w.domains # {} => w.out # None,
         NEW n, n.rules = [m.rules EXCEPT ![i] = w]
  PROVE  Targeted(n)
<1>1. m.rules = [j \in DOMAIN m.rules |-> m.rules[j]]
  BY ListIs DEF RulesOk
<1>2. n.rules = [j \in DOMAIN m.rules |-> IF j = i THEN w ELSE m.rules[j]]
  BY <1>1
<1>3. \A j \in DOMAIN m.rules : n.rules[j].domains # {} => n.rules[j].out # None
  BY <1>2, TargetedAt
<1>4. QED
  BY <1>2, <1>3, TargetedMap

(* A domain more for a rule with a target.                                 *)
LEMMA TargetedDomain ==
  ASSUME NEW m, RulesOk(m), Targeted(m), NEW i \in DOMAIN m.rules, m.rules[i].out # None,
         NEW d, NEW p,
         \/ p = [m EXCEPT !.rules[i].domains = @ \cup {d}, !.rules[i].keyed = TRUE]
         \/ p = [m EXCEPT !.rules[i].domains = @ \cup {d}]
  PROVE  Targeted(p)
<1>1. {"rules", "sets"} \subseteq DOMAIN m
  BY DEF RulesOk
<1>2. PICK u : u = m.rules[i]
  OBVIOUS
<1>3. Ruly(u)
  BY <1>2, TargetedAt
<1>4. PICK v, w : /\ v = [u EXCEPT !.domains = @ \cup {d}, !.keyed = TRUE]
                  /\ w = [u EXCEPT !.domains = @ \cup {d}]
  OBVIOUS
<1>5. v.out # None /\ w.out # None
  BY <1>2, <1>3, <1>4, RuleFields DEF Ruly
<1>6. PICK n, o :
        /\ n = [m EXCEPT !.rules[i].domains = @ \cup {d}, !.rules[i].keyed = TRUE]
        /\ o = [m EXCEPT !.rules[i].domains = @ \cup {d}]
  OBVIOUS
<1>7. n = [m EXCEPT !.rules = [m.rules EXCEPT ![i] = v]]
  BY <1>1, <1>2, <1>4, <1>6
<1>8. o = [m EXCEPT !.rules = [m.rules EXCEPT ![i] = w]]
  BY <1>1, <1>2, <1>4, <1>6
<1>9. n.rules = [m.rules EXCEPT ![i] = v] /\ o.rules = [m.rules EXCEPT ![i] = w]
  BY <1>1, <1>7, <1>8
<1>10. Targeted(n) /\ Targeted(o)
  BY <1>5, <1>9, TargetedOne
<1>11. QED
  BY <1>6, <1>10, Zenon

(* The edits of rules for domains.                                         *)
LEMMA AddDomainTargeted ==
  ASSUME NEW m, RulesOk(m), Targeted(m), NEW d, NEW x, x # None
  PROVE  Targeted(AddDomain(m, d, x))
<1> DEFINE At == {i \in DOMAIN m.rules : m.rules[i].out = x /\ m.rules[i].set = None}
<1>1. CASE At = {}
  <2>1. AddDomain(m, d, x) = Insert(m, DomainRule({d}, x))
    BY <1>1, Zenon DEF AddDomain
  <2>2. PICK w : w = DomainRule({d}, x)
    OBVIOUS
  <2>3. Ruly(w) /\ w.out = x
    BY <2>2, NewRules
  <2>4. QED
    BY <2>1, <2>2, <2>3, TargetedInsert, Zenon
<1>2. CASE At # {}
  <2>1. PICK i : i = CHOOSE k \in At : \A j \in At : k <= j
    OBVIOUS
  <2>2. i \in At
    <3>1. IsList(m.rules) /\ At \in SUBSET DOMAIN m.rules
      BY Zenon DEF RulesOk
    <3> HIDE DEF At
    <3>2. QED
      BY <1>2, <2>1, <3>1, FirstIs
  <2>3. AddDomain(m, d, x)
          = [m EXCEPT !.rules[i].domains = @ \cup {d}, !.rules[i].keyed = TRUE]
    BY <1>2, <2>1, Zenon DEF AddDomain
  <2>4. i \in DOMAIN m.rules /\ m.rules[i].out # None
    BY <2>2
  <2>5. PICK p : p = AddDomain(m, d, x)
    OBVIOUS
  <2>6. p = [m EXCEPT !.rules[i].domains = @ \cup {d}, !.rules[i].keyed = TRUE]
    BY <2>3, <2>5
  <2> HIDE DEF At
  <2>7. Targeted(p)
    BY <2>4, <2>6, TargetedDomain
  <2>8. QED
    BY <2>5, <2>7
<1>3. QED
  BY <1>1, <1>2

LEMMA DropDomainsTargeted ==
  ASSUME NEW m, RulesOk(m), Targeted(m), NEW ds
  PROVE  Targeted(DropDomains(m, ds))
<1> DEFINE cut == [i \in DOMAIN m.rules |-> [m.rules[i] EXCEPT !.domains = @ \ ds]]
           I == {i \in DOMAIN cut : Kept(cut[i])}
           n == [m EXCEPT !.rules = cut]
           o == DropDomains(m, ds)
<1>1. {"rules", "sets"} \subseteq DOMAIN m
  BY DEF RulesOk
<1>2. ASSUME NEW i \in DOMAIN m.rules
      PROVE  Ruly(cut[i]) /\ (cut[i].domains # {} => cut[i].out # None)
  <2>1. PICK u : u = m.rules[i]
    OBVIOUS
  <2>2. PICK w : w = [u EXCEPT !.domains = @ \ ds]
    OBVIOUS
  <2>3. Ruly(u) /\ (u.domains # {} => u.out # None)
    BY <2>1, TargetedAt
  <2>4. Ruly(w) /\ w.out = u.out /\ w.domains = u.domains \ ds
    BY <2>2, <2>3, RuleFields DEF Ruly
  <2>5. cut[i] = w
    BY <2>1, <2>2
  <2>6. QED
    BY <2>3, <2>4, <2>5
<1>3. /\ n.rules = cut /\ n.sets = m.sets /\ DOMAIN n = DOMAIN m
      /\ DOMAIN cut = DOMAIN m.rules /\ cut = [i \in DOMAIN m.rules |-> cut[i]]
  BY <1>1
<1>4. o.rules = Those(cut, I)
  BY <1>1 DEF DropDomains
<1>5. I \in SUBSET DOMAIN cut
  OBVIOUS
<1> HIDE DEF cut, n, I, o
<1>6. Targeted(n)
  BY <1>2, <1>3, TargetedMap
<1>7. RulesOk(n)
  <2>1. IsList(n.rules) /\ ToSet(n.rules) = {cut[i] : i \in DOMAIN m.rules}
    BY <1>3, OnMap DEF RulesOk
  <2>2. QED
    BY <1>1, <1>2, <1>3, <2>1 DEF RulesOk
<1>8. Targeted(o)
  BY <1>3, <1>4, <1>5, <1>6, <1>7, TargetedThose, Zenon
<1>9. QED
  BY <1>8 DEF o

LEMMA MoveDomainTargeted ==
  ASSUME NEW m, RulesOk(m), Targeted(m), NEW d, NEW x, x # None \/ x = Direct
  PROVE  Targeted(MoveDomain(m, d, x))
<1> DEFINE n == DropDomains(m, {d})
           At == {i \in DOMAIN n.rules :
                   n.rules[i].out = x /\ n.rules[i].set = None /\ n.rules[i].keyed}
<1>1. RulesOk(n) /\ Targeted(n)
  BY DropDomainsKeeps, DropDomainsTargeted DEF Keeps, SameSets
<1>2. MoveDomain(m, d, x)
        = IF x = Direct THEN n
          ELSE IF At = {} THEN Insert(n, DomainRule({d}, x))
          ELSE LET i == CHOOSE i \in At : \A j \in At : i <= j
               IN  [n EXCEPT !.rules[i].domains = @ \cup {d}]
  BY Zenon DEF MoveDomain
<1> HIDE DEF n
<1>3. CASE x # Direct /\ At = {}
  <2>1. PICK w : w = DomainRule({d}, x)
    OBVIOUS
  <2>2. Ruly(w) /\ w.out = x
    BY <2>1, NewRules
  <2>3. QED
    BY <1>1, <1>2, <1>3, <2>1, <2>2, TargetedInsert, Zenon
<1>4. CASE x # Direct /\ At # {}
  <2>1. PICK i : i = CHOOSE k \in At : \A j \in At : k <= j
    OBVIOUS
  <2>2. i \in At
    <3>1. IsList(n.rules) /\ At \in SUBSET DOMAIN n.rules
      BY <1>1, Zenon DEF RulesOk
    <3> HIDE DEF At
    <3>2. QED
      BY <1>4, <2>1, <3>1, FirstIs
  <2>3. MoveDomain(m, d, x) = [n EXCEPT !.rules[i].domains = @ \cup {d}]
    BY <1>2, <1>4, <2>1, Zenon
  <2>4. i \in DOMAIN n.rules /\ n.rules[i].out # None
    BY <1>4, <2>2
  <2>5. PICK p : p = MoveDomain(m, d, x)
    OBVIOUS
  <2>6. p = [n EXCEPT !.rules[i].domains = @ \cup {d}]
    BY <2>3, <2>5
  <2> HIDE DEF At
  <2>7. Targeted(p)
    BY <1>1, <2>4, <2>6, TargetedDomain
  <2>8. QED
    BY <2>5, <2>7
<1>5. QED
  BY <1>1, <1>2, <1>3, <1>4, Zenon

(* Rules for the same target become one; one that is reassigned has one.   *)
LEMMA MergeTargeted ==
  ASSUME NEW m, RulesOk(m), Targeted(m), NEW o,
         o = [m EXCEPT !.rules = MergeDomainRules(@)]
  PROVE  Targeted(o)
<1> DEFINE rules == m.rules
           Same(i) == {j \in DOMAIN rules : /\ rules[j].set = None /\ rules[j].domains # {}
                                            /\ rules[j].out = rules[i].out}
           Mergeable(i) == i \in Same(i) /\ rules[i].out # None
           First(i) == \A j \in Same(i) : i <= j
           All(i) == UNION {rules[j].domains : j \in Same(i)}
           merged == [i \in DOMAIN rules |->
                       IF Mergeable(i) THEN [rules[i] EXCEPT !.domains = All(i)] ELSE rules[i]]
           I == {i \in DOMAIN rules : ~Mergeable(i) \/ First(i)}
           n == [m EXCEPT !.rules = merged]
<1>1. {"rules", "sets"} \subseteq DOMAIN m
  BY DEF RulesOk
<1>2. \A i \in DOMAIN rules :
        Ruly(rules[i]) /\ (rules[i].domains # {} => rules[i].out # None)
  BY TargetedAt
<1>3. \A i \in DOMAIN rules : Mergeable(i) => rules[i].set = None /\ rules[i].out # None
  OBVIOUS
<1> HIDE DEF Mergeable, All, First
<1>4. ASSUME NEW i \in DOMAIN rules
      PROVE  Ruly(merged[i]) /\ (merged[i].domains # {} => merged[i].out # None)
  <2>1. CASE ~Mergeable(i)
    BY <1>2, <2>1
  <2>2. CASE Mergeable(i)
    <3>1. PICK u : u = rules[i]
      OBVIOUS
    <3>2. PICK w : w = [u EXCEPT !.domains = All(i)]
      OBVIOUS
    <3>3. Ruly(u) /\ u.set = None /\ u.out # None
      BY <1>2, <1>3, <2>2, <3>1
    <3>4. Ruly(w) /\ w.out # None
      BY <3>2, <3>3, RuleFields DEF Ruly
    <3>5. merged[i] = w
      BY <2>2, <3>1, <3>2
    <3>6. QED
      BY <3>4, <3>5
  <2>3. QED
    BY <2>1, <2>2
<1>5. /\ n.rules = merged /\ n.sets = m.sets /\ DOMAIN n = DOMAIN m
      /\ DOMAIN merged = DOMAIN m.rules /\ merged = [i \in DOMAIN m.rules |-> merged[i]]
  BY <1>1
<1>6. MergeDomainRules(rules) = Those(merged, I)
  BY DEF MergeDomainRules, Mergeable, First, All
<1>7. I \in SUBSET DOMAIN merged
  OBVIOUS
<1> HIDE DEF merged, n, I
<1>8. Targeted(n)
  BY <1>4, <1>5, TargetedMap
<1>9. RulesOk(n)
  <2>1. IsList(n.rules) /\ ToSet(n.rules) = {merged[i] : i \in DOMAIN m.rules}
    BY <1>5, OnMap DEF RulesOk
  <2>2. QED
    BY <1>1, <1>4, <1>5, <2>1 DEF RulesOk
<1>10. o.rules = Those(n.rules, I)
  BY <1>1, <1>5, <1>6
<1>11. QED
  BY <1>5, <1>7, <1>8, <1>9, <1>10, TargetedThose

LEMMA ReassignTargeted ==
  ASSUME NEW m, RulesOk(m), Targeted(m), NEW i \in DOMAIN m.rules, m.rules[i].set = None,
         NEW x, x # None
  PROVE  Targeted(Reassign(m, i, x))
<1>1. /\ {"rules", "sets"} \subseteq DOMAIN m /\ Ruly(m.rules[i])
      /\ m.rules[i].domains \subseteq Ruled(m)
  BY TargetedAt DEF RulesOk, Ruled, ToSet
<1>2. PICK u, w : u = m.rules[i] /\ w = [u EXCEPT !.out = x]
  OBVIOUS
<1>3. Ruly(w) /\ w.set = None /\ w.out = x /\ w.domains \subseteq Ruled(m) \cup {}
  BY <1>1, <1>2, RuleFields DEF Ruly
<1>4. PICK n : n = [m EXCEPT !.rules = [@ EXCEPT ![i].out = x]]
  OBVIOUS
<1>5. n = [m EXCEPT !.rules = [m.rules EXCEPT ![i] = w]]
  BY <1>1, <1>2, <1>4
<1>6. n.sets = m.sets /\ DOMAIN n = DOMAIN m /\ n.rules = [m.rules EXCEPT ![i] = w]
  BY <1>1, <1>5
<1>7. Targeted(n)
  BY <1>3, <1>6, TargetedOne
<1>8. {"rules", "sets"} \subseteq DOMAIN n
  BY <1>1, <1>6
<1>9. Keeps(m, n, {}, {})
  BY <1>3, <1>6, <1>8, OneKeeps
<1>10. RulesOk(n)
  BY <1>9 DEF Keeps, SameSets
<1>11. PICK o : o = [n EXCEPT !.rules = MergeDomainRules(@)]
  OBVIOUS
<1>12. Reassign(m, i, x) = o
  <2>1. n.rules = [m.rules EXCEPT ![i].out = x]
    BY <1>1, <1>4
  <2>2. QED
    BY <1>1, <1>4, <1>11, <2>1 DEF Reassign
<1>13. QED
  BY <1>7, <1>10, <1>11, <1>12, MergeTargeted

(* The rule for Telegram lists no domains.                                 *)
LEMMA PinTelegramTargeted ==
  ASSUME NEW m, RulesOk(m), Targeted(m), NEW x
  PROVE  Targeted(PinTelegram(m, x))
<1> DEFINE I == {i \in DOMAIN m.rules : ~m.rules[i].tg}
<1>1. {"rules", "sets"} \subseteq DOMAIN m /\ \A w \in ToSet(m.rules) : Ruly(w)
  BY DEF RulesOk
<1>2. I \in SUBSET DOMAIN m.rules
  OBVIOUS
<1>3. PICK n : n = [m EXCEPT !.rules = Those(@, I)]
  OBVIOUS
<1>4. PinTelegram(m, x) = IF x = None THEN n ELSE Insert(n, TgRule(x))
  BY <1>1, <1>3 DEF PinTelegram
<1>5. n.rules = Those(m.rules, I) /\ DOMAIN n = DOMAIN m
  BY <1>1, <1>3
<1> HIDE DEF I
<1>6. Targeted(n)
  BY <1>2, <1>5, TargetedThose
<1>7. RulesOk(n)
  <2>1. IsList(n.rules) /\ ToSet(n.rules) = {m.rules[i] : i \in I}
    BY <1>2, <1>5, OnThose DEF RulesOk
  <2>2. ToSet(n.rules) \subseteq ToSet(m.rules)
    BY <1>2, <2>1 DEF ToSet
  <2>3. QED
    BY <1>1, <1>5, <2>1, <2>2 DEF RulesOk
<1>8. PICK w : w = TgRule(x)
  OBVIOUS
<1>9. Ruly(w) /\ w.domains = {}
  BY <1>8, NewRules
<1>10. Targeted(Insert(n, w))
  BY <1>6, <1>7, <1>9, TargetedInsert
<1>11. QED
  BY <1>4, <1>6, <1>8, <1>10

(* Neither does a rule for a rule set.                                     *)
LEMMA SetsTargeted ==
  ASSUME NEW m, RulesOk(m), Targeted(m), NEW r \in RuleSet, NEW x
  PROVE  Targeted(DropSet(m, r)) /\ Targeted(AddSet(m, r, x)) /\ Targeted(TargetSet(m, r, x))
<1>1. \A n, X : Resends(m, n, r, X) => Targeted(n)
  BY DEF Resends, Targeted
<1>2. QED
  BY <1>1, DropSetResends, AddSetResends, TargetSetResends

(* A target is replaced by one.                                            *)
LEMMA RedirectsTargeted ==
  ASSUME NEW m, Targeted(m), NEW n, NEW S, NEW y, Redirects(m, n, S, y),
         y # None \/ S \cap RuleTargets(m) = {}
  PROVE  Targeted(n)
<1> SUFFICES ASSUME NEW v \in ToSet(n.rules), v.domains # {} PROVE v.out # None
  BY DEF Targeted
<1>1. PICK u \in ToSet(m.rules) : Redirected(u, v, S, y)
  BY DEF Redirects
<1>2. u.domains # {} /\ u.out # None /\ (v.out = IF u.out \in S THEN y ELSE u.out)
  BY <1>1 DEF Redirected, Targeted
<1>3. u.out \in RuleTargets(m)
  BY <1>2 DEF RuleTargets, ToSet
<1>4. QED
  BY <1>2, <1>3
(* What is renamed then has the new name.                                  *)
LEMMA RenamedIs ==
  ASSUME NEW m, Plain(m), NEW old, NEW new
  PROVE  /\ old \in OutTags(m) \cup GroupNames(m) =>
              new \in OutTags(Rename(m, old, new)) \cup GroupNames(Rename(m, old, new))
         /\ \A i \in DOMAIN m.groups : m.groups[i].name = old =>
              /\ i \in DOMAIN RenameReferences(m, old, new).groups
              /\ RenameReferences(m, old, new).groups[i].name = new
<1> DEFINE n == RenameReferences(m, old, new)
           o == Rename(m, old, new)
<1>1. {"outs", "groups", "final"} \subseteq DOMAIN m
  BY DEF Plain
<1>2. /\ n.outs = m.outs /\ DOMAIN n = DOMAIN m
      /\ n.groups = [i \in DOMAIN m.groups |->
           [m.groups[i] EXCEPT !.name = Sub(old, new, @),
                               !.proxies = {Sub(old, new, x) : x \in @}]]
  BY <1>1 DEF RenameReferences
<1>3. /\ o.groups = n.groups
      /\ o.outs = [i \in DOMAIN n.outs |-> [n.outs[i] EXCEPT !.tag = Sub(old, new, @)]]
  <2>1. o = [n EXCEPT !.outs = [i \in DOMAIN n.outs |->
                                 [n.outs[i] EXCEPT !.tag = Sub(old, new, @)]]]
    BY DEF Rename
  <2> HIDE DEF n, o
  <2>2. QED
    BY <1>1, <1>2, <2>1
<1>4. Sub(old, new, old) = new
  BY DEF Sub
<1> HIDE DEF n, o
<1>5. /\ \A i \in DOMAIN m.groups : "name" \in DOMAIN m.groups[i]
      /\ \A i \in DOMAIN m.outs : "tag" \in DOMAIN m.outs[i]
  BY PlainIff DEF PlainGroup, PlainOut
<1>6. ASSUME NEW i \in DOMAIN m.groups, m.groups[i].name = old
      PROVE  i \in DOMAIN n.groups /\ n.groups[i].name = new
  <2>1. PICK u : u = m.groups[i]
    OBVIOUS
  <2>2. PICK y : y = {Sub(old, new, x) : x \in u.proxies}
    OBVIOUS
  <2>3. n.groups[i] = [u EXCEPT !.name = Sub(old, new, u.name), !.proxies = y]
    BY <1>2, <2>1, <2>2
  <2>4. "name" \in DOMAIN u /\ u.name = old
    BY <1>5, <1>6, <2>1
  <2>5. n.groups[i].name = Sub(old, new, u.name)
    BY <2>3, <2>4
  <2>6. QED
    BY <1>2, <1>4, <2>4, <2>5
<1>7. ASSUME NEW i \in DOMAIN m.outs, m.outs[i].tag = old
      PROVE  i \in DOMAIN o.outs /\ o.outs[i].tag = new
  <2>1. PICK u : u = m.outs[i]
    OBVIOUS
  <2>2. o.outs[i] = [u EXCEPT !.tag = Sub(old, new, u.tag)]
    BY <1>2, <1>3, <2>1
  <2>3. "tag" \in DOMAIN u /\ u.tag = old
    BY <1>5, <1>7, <2>1
  <2>4. QED
    BY <1>2, <1>3, <1>4, <2>2, <2>3
<1>8. old \in GroupNames(m) => new \in GroupNames(o)
  BY <1>3, <1>6 DEF GroupNames
<1>9. old \in OutTags(m) => new \in OutTags(o)
  BY <1>7 DEF OutTags
<1>10. QED
  BY <1>6, <1>8, <1>9 DEF n, o

(* None is no name.                                                        *)
LEMMA Named ==
  ASSUME NEW m, Plain(m), Valid(m)
  PROVE  /\ None \notin OutTags(m) \cup GroupNames(m) \cup Routable(m)
         /\ RuleTargets(m) \subseteq OutTags(m) \cup GroupNames(m)
         /\ OutTags(m) \cap GroupNames(m) = {}
         /\ m.final # None
<1>1. None \notin OutTags(m) \cup GroupNames(m) /\ OutTags(m) \cap GroupNames(m) = {}
  BY DEF Valid, ValidNoTargets
<1>2. m.final \in Routable(m) /\ RuleTargets(m) \subseteq Routable(m)
  BY DEF Valid
<1>3. QED
  BY <1>1, <1>2, RoutableIn

(* The requests that redirect: to a name, as the result is valid.          *)
LEMMA RenameTargeted ==
  ASSUME NEW m, RulesOk(m), Plain(m), Targeted(m), RuleTargets(m) \subseteq Routable(m),
         NEW old, NEW new, NEW n, n = Rename(m, old, new), Valid(n)
  PROVE  Targeted(n)
<1>1. Redirects(m, n, {old}, new)
  BY RenameRedirects
<1>2. CASE old \in RuleTargets(m)
  <2>1. old \in OutTags(m) \cup GroupNames(m)
    BY <1>2, RoutableIn
  <2>2. new \in OutTags(n) \cup GroupNames(n)
    BY <2>1, RenamedIs
  <2>3. new # None
    BY <2>2 DEF Valid, ValidNoTargets
  <2>4. QED
    BY <1>1, <2>3, RedirectsTargeted
<1>3. CASE old \notin RuleTargets(m)
  BY <1>1, <1>3, RedirectsTargeted
<1>4. QED
  BY <1>2, <1>3

LEMMA RetargetTargeted ==
  ASSUME NEW m, RulesOk(m), Plain(m), Valid(m), Targeted(m), NEW tag, NEW y, y # None
  PROVE  Targeted(Retarget(Without(m, {tag}), y))
<1>1. PICK n, S : n = Retarget(Without(m, {tag}), y) /\ Redirects(m, n, S, y)
  BY RetargetMoves DEF Moves
<1>2. QED
  BY <1>1, RedirectsTargeted

LEMMA PatchTargeted ==
  ASSUME NEW m, RulesOk(m), Plain(m), Valid(m), Targeted(m), NEW op,
         op.name \in GroupNames(m), Valid(Patched(op, m))
  PROVE  Targeted(Patched(op, m))
<1> DEFINE n == RenameReferences(m, op.name, op.new)
           gs == [i \in DOMAIN n.groups |->
                    IF n.groups[i].name = op.new
                    THEN [name |-> op.new, proxies |-> op.members, use |-> op.use]
                    ELSE n.groups[i]]
           o == [n EXCEPT !.groups = gs]
<1>1. Patched(op, m) = o
  BY DEF Patched
<1>2. Redirects(m, n, {op.name}, op.new)
  BY RenameRedirects
<1>3. DOMAIN n = DOMAIN m /\ {"rules", "groups"} \subseteq DOMAIN m
  BY DEF RenameReferences, Plain, RulesOk
<1>4. PICK i \in DOMAIN m.groups : m.groups[i].name = op.name
  BY DEF GroupNames
<1>5. i \in DOMAIN n.groups /\ n.groups[i].name = op.new
  BY <1>4, RenamedIs
<1> HIDE DEF n
<1>6. i \in DOMAIN gs /\ gs[i].name = op.new
  BY <1>5
<1> HIDE DEF gs
<1>7. o.groups = gs /\ o.rules = n.rules
  BY <1>3
<1> HIDE DEF o
<1>8. op.new \in GroupNames(o)
  BY <1>6, <1>7 DEF GroupNames
<1>9. op.new # None
  BY <1>1, <1>8 DEF Valid, ValidNoTargets
<1>10. Targeted(n)
  BY <1>2, <1>9, RedirectsTargeted
<1>11. Targeted(o)
  BY <1>7, <1>10 DEF Targeted
<1>12. QED
  BY <1>1, <1>11
(* Which model a change stages.                                            *)
LEMMA StagesModel ==
  ASSUME NEW files, NEW x,
         \/ "model" \notin DOMAIN files
         \/ files = ModelOnly(x)
         \/ \E g : files = And(ModelOnly(x), g)
  PROVE  "model" \in DOMAIN files => files.model = x
<1>1. CASE files = ModelOnly(x)
  BY <1>1, ModelAnd
<1>2. CASE \E g : files = And(ModelOnly(x), g)
  BY <1>2, ModelAnd
<1>3. QED
  BY <1>1, <1>2

LEMMA NoModel ==
  /\ "model" \notin DOMAIN NoFiles
  /\ \A d, h : "model" \notin DOMAIN Both(d, h)
BY DEF NoFiles, Both

LEMMA RedirectTargeted ==
  ASSUME NEW op, op.do \in RedirectOps, NEW s, NEW ruled,
         NEW m, RulesOk(m), Plain(m), Valid(m), Targeted(m),
         op.do = "patch_group" => op.name \in GroupNames(m),
         NEW files, files = Change(op, s, m, ruled), "model" \in DOMAIN files,
         Valid(files.model)
  PROVE  Targeted(files.model)
<1>0. RuleTargets(m) \subseteq Routable(m)
  BY DEF Valid
<1>1. CASE op.do \in {"rename_exit", "set_direct_tag"}
  <2>1. files = RenameExit(op, s, m)
    BY <1>1, Zenon DEF Change
  <2>2. PICK n : n = Rename(m, op.tag, op.new)
    OBVIOUS
  <2>3. files.model = n
    BY <2>1, <2>2, StagesModel, Zenon DEF RenameExit
  <2>4. QED
    BY <1>0, <2>2, <2>3, RenameTargeted
<1>2. CASE op.do = "delete_exit"
  <2>1. files = DeleteExit(op, s, m)
    BY <1>2, Zenon DEF Change
  <2>2. PICK y : y = Fallback(m, {op.tag})
    OBVIOUS
  <2>3. PICK w : w = Without(m, {op.tag})
    OBVIOUS
  <2>4. files.model = Retarget(w, y)
    BY <2>1, <2>2, <2>3, StagesModel, Zenon DEF DeleteExit
  <2>5. Plain(w)
    BY <2>3, WithoutPlain
  <2>6. SameLists(w, Retarget(w, y))
    BY <2>5, RuleEdits
  <2>7. Routable(files.model) = Routable(w) /\ Plain(files.model)
    BY <2>4, <2>5, <2>6, SameTags, SameListsPlain
  <2>8. Routable(w) # {} /\ None \notin Routable(w)
    BY <2>7, Named DEF Valid
  <2>9. IsList(RoutableTags(w)) /\ ToSet(RoutableTags(w)) = Routable(w)
    BY <2>5, PlainTargets DEF Routable
  <2>10. y = RoutableTags(w)[1] /\ 1 \in DOMAIN RoutableTags(w)
    BY <2>2, <2>3, <2>8, <2>9, HeadIs DEF Fallback
  <2>11. y \in Routable(w)
    BY <2>9, <2>10 DEF ToSet
  <2>12. QED
    BY <2>3, <2>4, <2>8, <2>11, RetargetTargeted
<1>3. CASE op.do = "web_delete_exit"
  <2>1. files = WebDeleteExit(op, s, m)
    BY <1>3, Zenon DEF Change
  <2>2. PICK n : n = DeleteOutbound(m, op.tag)
    OBVIOUS
  <2>3. files.model = n
    BY <2>1, <2>2, StagesModel, NoModel, Zenon DEF WebDeleteExit
  <2>4. Plain(n)
    BY <2>2, DeleteOutboundPlain
  <2>5. n.final # None
    BY <2>3, <2>4, Named
  <2>6. PICK S : Redirects(m, n, S, n.final)
    BY <2>2, DeleteOutboundRedirects DEF Plain
  <2>7. QED
    BY <2>3, <2>5, <2>6, RedirectsTargeted
<1>4. CASE op.do = "patch_group"
  <2>1. files = PatchGroup(op, s, m)
    BY <1>4, Zenon DEF Change
  <2>2. \/ files = NoFiles
        \/ \E g : files = And(ModelOnly(Patched(op, m)), g)
    BY <2>1, Zenon DEF PatchGroup, Patched
  <2>3. files.model = Patched(op, m)
    BY <2>2, StagesModel, NoModel
  <2>4. QED
    BY <1>4, <2>3, PatchTargeted
<1>5. CASE op.do = "delete_group"
  <2> DEFINE all == RoutableTags(m)
             I == {i \in DOMAIN all : all[i] \notin Cascade(m, {op.name})}
             left == Those(all, I)
             n == Retarget(Without(m, {op.name}), left[1])
  <2>1. files = DeleteGroup(op, s, m)
    BY <1>5, Zenon DEF Change
  <2>2. \/ files = NoFiles
        \/ left # <<>> /\ \E g : files = And(ModelOnly(n), g)
    BY <2>1 DEF DeleteGroup
  <2>3. left # <<>> /\ files.model = n
    <3> HIDE DEF n, left
    <3>1. QED
      BY <2>2, StagesModel, NoModel
  <2>4. IsList(all) /\ ToSet(all) = Routable(m)
    BY PlainTargets DEF Routable
  <2>5. I \in SUBSET DOMAIN all
    OBVIOUS
  <2> HIDE DEF all, I
  <2>6. IsList(left) /\ ToSet(left) = {all[i] : i \in I}
    BY <2>4, <2>5, OnThose
  <2>7. ToSet(left) \subseteq Routable(m)
    BY <2>4, <2>5, <2>6 DEF ToSet
  <2> HIDE DEF left
  <2>8. 1 \in DOMAIN left
    BY <2>3, <2>6 DEF IsList
  <2>9. left[1] \in Routable(m)
    BY <2>7, <2>8 DEF ToSet
  <2>10. left[1] # None
    BY <2>9, Named
  <2>11. QED
    BY <2>3, <2>10, RetargetTargeted
<1>6. QED
  BY <1>1, <1>2, <1>3, <1>4, <1>5 DEF RedirectOps
(* What the early answer says of the targets of two requests, for good.    *)
ToSome(op) ==
  op.do \in {"add_rule", "web_add_rule", "reassign_rule"} => op.to # None

LEMMA KeepingTargeted ==
  ASSUME NEW op, op.do \in KeepingOps, ToSome(op), NEW s, NEW ruled,
         NEW m, RulesOk(m), Plain(m), Valid(m), Targeted(m), Settled(op, m, ruled),
         NEW files, files = Change(op, s, m, ruled), "model" \in DOMAIN files
  PROVE  Targeted(files.model)
<1>1. CASE op.do = "add_direct"
  <2>1. files = AddDirectRule(op, s)
    BY <1>1, Zenon DEF Change
  <2>2. QED
    BY <2>1, NoModel, Zenon DEF AddDirectRule
<1>2. CASE op.do \in {"add_rule", "web_add_rule"}
  <2>1. files = AddRule(op, s, m)
    BY <1>2, Zenon DEF Change
  <2>2. files.model = AddDomain(m, op.dom, op.to)
    BY <2>1, StagesModel, Zenon DEF AddRule
  <2>3. op.to # None
    BY <1>2 DEF ToSome
  <2>4. QED
    BY <2>2, <2>3, AddDomainTargeted
<1>3. CASE op.do = "del_rule"
  <2>1. files = DelRule(op, s, m, ruled)
    BY <1>3, Zenon DEF Change
  <2>2. files.model = DropDomains(m, {op.dom})
    BY <2>1, StagesModel, NoModel, Zenon DEF DelRule
  <2>3. QED
    BY <2>2, DropDomainsTargeted
<1>4. CASE op.do = "del_rules_bulk"
  <2>1. files = DelRulesBulk(op, s, m)
    BY <1>4, Zenon DEF Change
  <2>2. files.model = DropDomains(m, op.doms)
    BY <2>1, StagesModel, Zenon DEF DelRulesBulk
  <2>3. QED
    BY <2>2, DropDomainsTargeted
<1>5. CASE op.do = "patch_rule"
  <2>1. files = PatchRule(op, s, m)
    BY <1>5, Zenon DEF Change
  <2>2. op.to \in Routable(m) \cup {Direct} /\ files.model = MoveDomain(m, op.dom, op.to)
    BY <2>1, StagesModel, NoModel, Zenon DEF PatchRule
  <2>3. op.to # None \/ op.to = Direct
    BY <2>2, Named
  <2>4. QED
    BY <2>2, <2>3, MoveDomainTargeted
<1>6. CASE op.do = "reassign_rule"
  <2>1. files = ReassignRule(op, m)
    BY <1>6, Zenon DEF Change
  <2>2. op.idx \in DOMAIN m.rules /\ files.model = Reassign(m, op.idx, op.to)
    BY <2>1, StagesModel, NoModel, Zenon DEF ReassignRule
  <2>3. op.to # None /\ m.rules[op.idx].set = None
    BY <1>6, <2>2 DEF ToSome, Settled
  <2>4. QED
    BY <2>2, <2>3, ReassignTargeted
<1>7. CASE op.do = "set_tg_exit"
  <2>1. files = SetTgExit(op, m)
    BY <1>7, Zenon DEF Change
  <2>2. files.model = PinTelegram(m, op.to)
    BY <2>1, StagesModel, Zenon DEF SetTgExit
  <2>3. QED
    BY <2>2, PinTelegramTargeted
<1>8. CASE op.do \in {"reorder_exits", "add_exit", "replace_exit", "set_default_exit",
                      "add_group", "add_policy_group"}
  <2>1. PICK n : /\ n.rules = m.rules
                 /\ files = NoFiles \/ files = ModelOnly(n)
    BY <1>8, ListEdits
  <2>2. files.model.rules = m.rules
    BY <2>1, ModelAnd, NoModel
  <2>3. QED
    BY <2>2 DEF Targeted
<1>9. QED
  BY <1>1, <1>2, <1>3, <1>4, <1>5, <1>6, <1>7, <1>8 DEF KeepingOps, ListOps

LEMMA RuleSetTargeted ==
  ASSUME NEW op, op.do \in RuleSetOps, Asked(op), NEW s, NEW ruled,
         NEW m, RulesOk(m), Targeted(m),
         op.do = "set_ruleset_target" => DOMAIN s.meta \subseteq RuleSet,
         NEW files, files = Change(op, s, m, ruled), "model" \in DOMAIN files
  PROVE  Targeted(files.model)
<1>1. CASE op.do = "add_ruleset"
  <2>1. files = AddRuleSet(op, s, m)
    BY <1>1, Zenon DEF Change
  <2>2. files.model = AddSet(m, op.set, op.to)
    BY <2>1, StagesModel, Zenon DEF AddRuleSet
  <2>3. op.set \in RuleSet
    BY <1>1 DEF Asked, WellFormedRequest
  <2>4. QED
    BY <2>2, <2>3, SetsTargeted
<1>2. CASE op.do = "set_ruleset_target"
  <2>1. files = TargetRuleSet(op, s, m)
    BY <1>2, Zenon DEF Change
  <2>2. op.set \in DOMAIN s.meta /\ files.model = TargetSet(m, op.set, op.to)
    BY <2>1, StagesModel, NoModel, Zenon DEF TargetRuleSet
  <2>3. QED
    BY <1>2, <2>2, SetsTargeted
<1>3. CASE op.do = "del_ruleset"
  <2>1. files = DelRuleSet(op, s, m)
    BY <1>3, Zenon DEF Change
  <2>2. files.model = DropSet(m, op.set)
    BY <2>1, StagesModel, Zenon DEF DelRuleSet
  <2>3. op.set \in RuleSet
    BY <1>3 DEF Asked, WellFormedRequest
  <2>4. QED
    BY <2>2, <2>3, SetsTargeted
<1>4. CASE op.do = "refresh_rulesets"
  <2>1. files = RefreshRuleSets(op, s, m)
    BY <1>4, Zenon DEF Change
  <2>2. files.model = m
    BY <2>1, StagesModel, NoModel, Zenon DEF RefreshRuleSets
  <2>3. QED
    BY <2>2
<1>5. QED
  BY <1>1, <1>2, <1>3, <1>4 DEF RuleSetOps

(* An archive's rules have targets, too.                                   *)
LEMMA RestoreTargeted ==
  ASSUME NEW op, op.do = "restore", Archived(op), Targeted(op.data.model), NEW ruled,
         NEW s, NEW m, Valid(s.model),
         NEW files, files = Change(op, s, m, ruled), "model" \in DOMAIN files
  PROVE  Targeted(files.model)
<1>1. files = Restore(op, s)
  BY Zenon DEF Change
<1>2. files.model = RestoredModel(s, op.data)
  BY <1>1, StagesModel, Zenon DEF Restore
<1>3. PICK z : Consistent(z) /\ op.data = Archive(z)
  BY DEF Archived
<1>4. RulesOk(op.data.model)
  <2>1. op.data.model = z.model
    BY <1>3 DEF Archive
  <2>2. QED
    BY <1>3, <2>1 DEF Consistent
<1>5. TheDirect(s.model) \in OutTags(s.model)
  <2>1. DirectTags(s.model) # {}
    <3>1. Cardinality(DirectTags(s.model)) = 1
      BY DEF Valid, ValidNoTargets
    <3>2. QED
      BY <3>1, FS_EmptySet
  <2>2. DirectTags(s.model) \subseteq OutTags(s.model)
    BY DEF DirectTags, OutTags
  <2>3. QED
    BY <2>1, <2>2 DEF TheDirect
<1>6. TheDirect(s.model) # None
  BY <1>5 DEF Valid, ValidNoTargets
<1>7. QED
  BY <1>2, <1>4, <1>6, RenameRedirects, RedirectsTargeted DEF RestoredModel
(* All of them.                                                            *)
LEMMA ChangeTargeted ==
  ASSUME NEW op, Asked(op), ToSome(op), Archived(op),
         op.do = "restore" => Targeted(op.data.model),
         NEW m, RulesOk(m), Plain(m), Valid(m), Targeted(m), NEW ruled, Settled(op, m, ruled),
         NEW s, op.do = "restore" => Valid(s.model),
         op.do = "set_ruleset_target" => DOMAIN s.meta \subseteq RuleSet,
         NEW files, files = Change(op, s, m, ruled), "model" \in DOMAIN files,
         Valid(files.model)
  PROVE  Targeted(files.model)
<1>1. op.do \in Requests
  BY DEF Asked, WellFormedRequest
<1>2. CASE op.do \in KeepingOps
  BY <1>2, KeepingTargeted
<1>3. CASE op.do \in RedirectOps
  BY <1>3, RedirectTargeted DEF Settled
<1>4. CASE op.do \in RuleSetOps
  BY <1>4, RuleSetTargeted
<1>5. CASE op.do = "restore"
  BY <1>5, RestoreTargeted
<1>6. CASE op.do = "set_ruleset_label"
  <2>1. files = LabelRuleSet(op, s)
    BY <1>6, Zenon DEF Change
  <2>2. "model" \notin DOMAIN files
    BY <2>1, NoModel DEF LabelRuleSet
  <2>3. QED
    BY <2>2
<1>7. QED
  BY <1>1, <1>2, <1>3, <1>4, <1>5, <1>6
  DEF Requests, KeepingOps, ListOps, RedirectOps, RuleSetOps

-----------------------------------------------------------------------------
(* The early answers.                                                      *)

(* What stays true of a request whatever is committed; what does as long as*)
(* nothing is; and what a pinned one knows of the model it loaded.         *)
Vouched(c, m, direct, n) ==
  /\ ToSome(c.op)
  /\ c.op.do = "add_group" =>
       c.op.name \notin Reserved \cup {Direct} /\ Cardinality(c.op.members) >= 2
  /\ c.op.do = "restore" => Targeted(c.op.data.model)
  /\ Loose(c.op) /\ c.at = n => Early(c.op, m, direct)
Answered(op, m) == \A direct : Early(op, m, direct)

(* The inductive invariant of this section, beside the others.             *)
CInv ==
  /\ Targeted(live.model)
  /\ \A e \in Editor :
       /\ step[e] # "idle" => Vouched(seen[e], live.model, live.direct, edits)
       /\ step[e] \in {"checked", "read"} /\ Pinned(seen[e].op) =>
            Answered(seen[e].op, seen[e].model)
       /\ step[e] = "staged" /\ Pinned(seen[e].op) =>
            /\ "model" \in DOMAIN seen[e].expect
            /\ Answered(seen[e].op, seen[e].expect.model)

(* Where a rule names domains there is a target: at the start, and in the  *)
(* archives.                                                               *)
TargetsAtStart ==
  /\ \A s \in AtStart : Targeted(s.model)
  /\ \A e \in Editor : \A op \in Menu[e] :
       op.do = "restore" /\ RestoreEarly(op) => Targeted(op.data.model)

(* A pinned request looks at the model only.                               *)
LEMMA PinnedAnswer ==
  ASSUME NEW op, Pinned(op), NEW m, NEW direct, Early(op, m, direct)
  PROVE  Answered(op, m)
<1> SUFFICES ASSUME NEW d PROVE Early(op, m, d)
  BY DEF Answered
<1>1. CASE op.do = "rename_exit"
  BY <1>1, Zenon DEF Early
<1>2. CASE op.do = "set_direct_tag"
  BY <1>2, Zenon DEF Early
<1>3. CASE op.do = "delete_exit"
  BY <1>3, Zenon DEF Early
<1>4. CASE op.do = "add_policy_group"
  BY <1>4, Zenon DEF Early
<1>5. CASE op.do = "patch_group"
  BY <1>5, Zenon DEF Early
<1>6. CASE op.do = "delete_group"
  BY <1>6, Zenon DEF Early
<1>7. QED
  BY <1>1, <1>2, <1>3, <1>4, <1>5, <1>6 DEF Pinned, PolicyGroupOps

LEMMA BeginVouched ==
  ASSUME TargetsAtStart, IInv, FInv, RInv, CInv, NEW e \in Editor, Begin(e)
  PROVE  /\ Vouched(seen'[e], live.model, live.direct, edits)
         /\ Pinned(seen'[e].op) => Answered(seen'[e].op, seen'[e].model)
<1>1. PICK op \in Menu[e] :
        /\ Early(op, live.model, live.direct)
        /\ seen' = [seen EXCEPT ![e] =
          [Blank EXCEPT !.op = op,
                        !.model = IF Pinned(op) THEN live.model ELSE None,
                        !.ruled = op.do = "del_rule" /\ Rule(live.model, op.dom),
                        !.at = IF Loose(op) THEN edits ELSE 0]]
  BY DEF Begin
<1> DEFINE c == seen'[e]
<1>2. c.op = op /\ c.model = IF Pinned(op) THEN live.model ELSE None
  BY <1>1, BlankFields DEF IInv
<1> HIDE DEF c
<1>3. None \notin Routable(live.model)
  BY Named DEF IInv, FInv, Closed, ClosedFiles
<1>4. op.do \in {"add_rule", "web_add_rule"} => op.to # None
  <2> SUFFICES ASSUME op.do \in {"add_rule", "web_add_rule"} PROVE op.to # None
    OBVIOUS
  <2>1. AddRuleEarly(op, live.model, live.direct)
    BY <1>1, Zenon DEF Early
  <2>2. QED
    BY <1>3, <2>1 DEF AddRuleEarly
<1>5. op.do = "reassign_rule" => op.to # None
  <2> SUFFICES ASSUME op.do = "reassign_rule" PROVE op.to # None
    OBVIOUS
  <2>1. ReassignRuleEarly(op, live.model)
    BY <1>1, Zenon DEF Early
  <2>2. QED
    BY <1>3, <2>1 DEF ReassignRuleEarly
<1>6. op.do = "add_group" =>
        op.name \notin Reserved \cup {Direct} /\ Cardinality(op.members) >= 2
  <2> SUFFICES ASSUME op.do = "add_group"
      PROVE  op.name \notin Reserved \cup {Direct} /\ Cardinality(op.members) >= 2
    OBVIOUS
  <2>1. AddGroupEarly(op, live.model)
    BY <1>1, Zenon DEF Early
  <2>2. QED
    BY <2>1 DEF AddGroupEarly
<1>7. op.do = "restore" => Targeted(op.data.model)
  <2>1. op.do = "restore" => RestoreEarly(op)
    BY <1>1, Zenon DEF Early
  <2>2. QED
    BY <2>1 DEF TargetsAtStart
<1>8. Pinned(op) => Answered(op, live.model)
  BY <1>1, PinnedAnswer
<1>9. ToSome(op)
  BY <1>4, <1>5 DEF ToSome
<1>10. QED
  BY <1>1, <1>2, <1>6, <1>7, <1>8, <1>9 DEF Vouched, c

LEMMA StageVouched ==
  ASSUME IInv, FInv, RInv, CInv, NEW e \in Editor, Stage(e)
  PROVE  /\ Vouched(seen'[e], live.model, live.direct, edits)
         /\ Pinned(seen'[e].op) => /\ "model" \in DOMAIN seen'[e].expect
                                   /\ Answered(seen'[e].op, seen'[e].expect.model)
<1> DEFINE c == seen[e]
           files == Change(c.op, c.files, live.model, c.ruled)
           held == DOMAIN files \cup Watched(c.op, files)
           expect == [f \in held |-> IF f \in Checked(c.op) THEN c.files[f] ELSE live[f]]
           d == seen'[e]
<1>1. /\ step[e] = "read" /\ DOMAIN files # {}
      /\ Pinned(c.op) => c.model = live.model
      /\ seen' = [seen EXCEPT ![e] = [c EXCEPT !.model = None, !.files = files,
                                                !.expect = expect]]
  BY DEF Stage
<1>2. d.expect = expect /\ d.op = c.op /\ d.at = c.at
  <2> HIDE DEF files, expect
  <2>1. QED
    BY <1>1, BlankFields DEF IInv
<1> HIDE DEF d
<1>3. Vouched(c, live.model, live.direct, edits)
  BY <1>1 DEF CInv
<1>4. Vouched(d, live.model, live.direct, edits)
  BY <1>2, <1>3 DEF Vouched
<1>5. ASSUME Pinned(c.op)
      PROVE  "model" \in DOMAIN expect /\ expect.model = live.model
  <2>1. /\ c.op.do \notin {"add_direct", "del_rule", "set_ruleset_label", "restore"}
        /\ c.op.do \in Requests
    BY <1>1, <1>5 DEF Pinned, PolicyGroupOps, IInv
  <2>2. files # NoFiles
    <3> HIDE DEF files
    <3>1. QED
      BY <1>1 DEF NoFiles
  <2>3. "model" \in DOMAIN files
    BY <2>1, <2>2, ModelStaged
  <2>4. "model" \notin Checked(c.op)
    BY <2>1, ListsRead DEF Checked
  <2> HIDE DEF files
  <2>5. QED
    BY <2>3, <2>4
<1>6. Pinned(c.op) => Answered(c.op, live.model)
  BY <1>1 DEF CInv
<1> HIDE DEF c, expect
<1>7. QED
  BY <1>2, <1>4, <1>5, <1>6 DEF d

(* What a commit leaves.                                                   *)
LEMMA CommitTargeted ==
  ASSUME Undisturbed, IInv, FInv, RInv, CInv, NEW e \in Editor, Commit(e)
  PROVE  Targeted(live'.model)
<1>1. PICK c, op : c = seen[e] /\ op = c.op
  OBVIOUS
<1>2. /\ step[e] = "staged" /\ live' = And(c.files, live)
  BY <1>1 DEF Commit
<1>3. /\ Asked(op) /\ Settled(op, live.model, c.ruled) /\ Archived(op)
      /\ \E s : c.files = Change(op, s, live.model, c.ruled) /\ ReadFrom(op, s, c.files, live)
  BY <1>1, CommitMade
<1>4. PICK s : c.files = Change(op, s, live.model, c.ruled) /\ ReadFrom(op, s, c.files, live)
  BY <1>3
<1>5. /\ "model" \in DOMAIN live /\ RulesOk(live.model) /\ Plain(live.model)
      /\ Valid(live.model) /\ Targeted(live.model) /\ Listing(live.meta)
  BY DEF RInv, FInv, IInv, CInv, Closed, ClosedFiles, Consistent
<1>6. "model" \in DOMAIN c.files => Valid(c.files.model)
  BY <1>1, <1>2 DEF IInv, Sound
<1>7. ToSome(op) /\ (op.do = "restore" => Targeted(op.data.model))
  BY <1>1, <1>2 DEF CInv, Vouched
<1> DEFINE next == And(c.files, live)
<1>8. Written(next, c.files, live)
  BY AndWrites
<1>9. live' = next
  BY <1>2
<1> HIDE DEF next
<1>10. CASE "model" \notin DOMAIN c.files
  BY <1>5, <1>10, <1>9, <1>8 DEF Written
<1>11. CASE "model" \in DOMAIN c.files
  <2>1. op.do = "restore" => Valid(s.model)
    BY <1>4, <1>5, <1>11, ReadsMeta DEF ReadFrom
  <2>2. op.do = "set_ruleset_target" => DOMAIN s.meta \subseteq RuleSet
    <3> SUFFICES ASSUME op.do = "set_ruleset_target" PROVE s.meta = live.meta
      BY <1>5 DEF Listing
    <3>1. c.files = TargetRuleSet(op, s, live.model)
      BY <1>4, Zenon DEF Change
    <3>2. "meta" \in DOMAIN c.files
      <4>1. TargetRuleSet(op, s, live.model) # NoFiles
        BY <1>11, <3>1, NoModel
      <4>2. PICK x, g : c.files = And(x, g) /\ "meta" \in DOMAIN g
        <5>1. \E x, y : c.files = And(x, [f \in {"meta"} |-> y])
          BY <3>1, <4>1, Zenon DEF TargetRuleSet
        <5>2. \A y : "meta" \in DOMAIN [f \in {"meta"} |-> y]
          OBVIOUS
        <5>3. QED
          BY <5>1, <5>2, Zenon
      <4>3. DOMAIN And(x, g) = DOMAIN x \cup DOMAIN g
        BY AndFiles
      <4>4. QED
        BY <4>2, <4>3
    <3>3. QED
      BY <1>4, <3>2, ReadsMeta DEF ReadFrom, RuleSetOps
  <2>3. Targeted(c.files.model)
    BY <1>3, <1>4, <1>5, <1>6, <1>7, <1>11, <2>1, <2>2, ChangeTargeted
  <2>4. QED
    BY <1>11, <1>9, <1>8, <2>3 DEF Written
<1>12. QED
  BY <1>10, <1>11

LEMMA InitC ==
  ASSUME TargetsAtStart
  PROVE  Init => CInv
BY DEF Init, CInv, TargetsAtStart

LEMMA StepC ==
  ASSUME Undisturbed, TargetsAtStart
  PROVE  IInv /\ FInv /\ RInv /\ CInv /\ [Next]_vars => CInv'
<1> SUFFICES ASSUME IInv, FInv, RInv, CInv, [Next]_vars PROVE CInv'
  OBVIOUS
<1>0. DOMAIN step = Editor /\ DOMAIN seen = Editor /\ edits \in Nat
  BY DEF IInv, RInv
<1>1. ASSUME NEW e \in Editor, Begin(e) PROVE CInv'
  <2>1. /\ Vouched(seen'[e], live.model, live.direct, edits)
        /\ Pinned(seen'[e].op) => Answered(seen'[e].op, seen'[e].model)
    BY <1>1, BeginVouched
  <2>2. step' = [step EXCEPT ![e] = "checked"] /\ UNCHANGED <<live, edits>>
    BY <1>1 DEF Begin
  <2>3. \A d \in Editor \ {e} : seen'[d] = seen[d] /\ step'[d] = step[d]
    <3>1. PICK c : seen' = [seen EXCEPT ![e] = c]
      BY <1>1 DEF Begin
    <3>2. QED
      BY <2>2, <3>1
  <2>4. step'[e] = "checked"
    BY <1>0, <2>2
  <2>5. QED
    BY <2>1, <2>2, <2>3, <2>4 DEF CInv
<1>2. ASSUME NEW e \in Editor, Snapshot(e) PROVE CInv'
  <2>1. seen' = [seen EXCEPT ![e] =
          [seen[e] EXCEPT !.files = [f \in Reads(seen[e].op) |-> live[f]]]]
    BY <1>2 DEF Snapshot
  <2>2. /\ seen'[e].op = seen[e].op /\ seen'[e].model = seen[e].model
        /\ seen'[e].at = seen[e].at
    BY <1>0, <2>1, BlankFields DEF IInv
  <2>3. /\ step[e] = "checked" /\ step' = [step EXCEPT ![e] = "read"]
        /\ UNCHANGED <<live, edits>>
    BY <1>2 DEF Snapshot
  <2>4. \A d \in Editor \ {e} : seen'[d] = seen[d] /\ step'[d] = step[d]
    BY <2>1, <2>3
  <2>5. step'[e] = "read"
    BY <1>0, <2>3
  <2>6. /\ Vouched(seen[e], live.model, live.direct, edits)
        /\ Pinned(seen[e].op) => Answered(seen[e].op, seen[e].model)
    BY <2>3 DEF CInv
  <2>7. Vouched(seen'[e], live.model, live.direct, edits)
    BY <2>2, <2>6 DEF Vouched
  <2>8. QED
    BY <2>2, <2>3, <2>4, <2>5, <2>6, <2>7 DEF CInv
<1>3. ASSUME NEW e \in Editor, Stage(e) PROVE CInv'
  <2>1. /\ step[e] = "read" /\ step' = [step EXCEPT ![e] = "staged"]
        /\ UNCHANGED <<live, edits>>
    BY <1>3 DEF Stage
  <2>2. /\ Vouched(seen'[e], live.model, live.direct, edits)
        /\ Pinned(seen'[e].op) => /\ "model" \in DOMAIN seen'[e].expect
                                  /\ Answered(seen'[e].op, seen'[e].expect.model)
    BY <1>3, StageVouched
  <2>3. \A d \in Editor \ {e} : seen'[d] = seen[d] /\ step'[d] = step[d]
    <3>1. PICK c : seen' = [seen EXCEPT ![e] = c]
      BY <1>3 DEF Stage
    <3>2. QED
      BY <2>1, <3>1
  <2>4. step'[e] = "staged"
    BY <1>0, <2>1
  <2>5. QED
    BY <2>1, <2>2, <2>3, <2>4 DEF CInv
<1>4. ASSUME NEW e \in Editor, Commit(e) PROVE CInv'
  <2>1. /\ step' = [step EXCEPT ![e] = "idle"] /\ edits' = edits + 1
        /\ seen' = [seen EXCEPT ![e] = Blank]
    BY <1>4 DEF Commit, Forget
  <2>2. \A d \in Editor \ {e} : seen'[d] = seen[d] /\ step'[d] = step[d]
    BY <2>1
  <2>3. step'[e] = "idle"
    BY <1>0, <2>1
  <2>4. Targeted(live'.model)
    BY <1>4, CommitTargeted
  <2>5. ASSUME NEW d \in Editor \ {e}, step[d] # "idle"
        PROVE  Vouched(seen[d], live'.model, live'.direct, edits')
    <3>1. Vouched(seen[d], live.model, live.direct, edits)
      BY <2>5 DEF CInv
    <3>2. Loose(seen[d].op) => seen[d].at \in Nat /\ seen[d].at <= edits
      BY <2>5 DEF RInv, Knows
    <3>3. Loose(seen[d].op) => seen[d].at # edits'
      BY <1>0, <2>1, <3>2
    <3>4. QED
      BY <3>1, <3>3 DEF Vouched
  <2>6. QED
    BY <2>2, <2>3, <2>4, <2>5 DEF CInv
<1>5. ASSUME NEW e \in Editor, Refuse(e) PROVE CInv'
  <2>1. /\ step' = [step EXCEPT ![e] = "idle"] /\ seen' = [seen EXCEPT ![e] = Blank]
        /\ UNCHANGED <<live, edits>>
    BY <1>5 DEF Refuse, Forget
  <2>2. \A d \in Editor \ {e} : seen'[d] = seen[d] /\ step'[d] = step[d]
    BY <2>1
  <2>3. step'[e] = "idle"
    BY <1>0, <2>1
  <2>4. QED
    BY <2>1, <2>2, <2>3 DEF CInv
<1>6. CASE UNCHANGED vars
  BY <1>6 DEF vars, CInv
<1>7. QED
  BY <1>1, <1>2, <1>3, <1>4, <1>5, <1>6 DEF Next

(* A target that a valid model's new rule names is one.                    *)
LEMMA InsertedTarget ==
  ASSUME NEW m, RulesOk(m), NEW w, Ruly(w), w.out # None, NEW n, n = Insert(m, w), Valid(n)
  PROVE  w.out \in Routable(n)
<1>1. w \in ToSet(n.rules)
  BY InsertRules
<1>2. w.out \in RuleTargets(n)
  BY <1>1 DEF RuleTargets, ToSet
<1>3. QED
  BY <1>2 DEF Valid

(* add_rule.                                                               *)
LEMMA AddDomainStands ==
  ASSUME NEW m, RulesOk(m), Plain(m), Valid(m), NEW d, NEW x, x # None,
         NEW n, n = AddDomain(m, d, x), Valid(n)
  PROVE  x \in Routable(m)
<1> DEFINE At == {i \in DOMAIN m.rules : m.rules[i].out = x /\ m.rules[i].set = None}
<1>1. CASE At = {}
  <2>1. n = Insert(m, DomainRule({d}, x))
    BY <1>1, Zenon DEF AddDomain
  <2>2. PICK w : w = DomainRule({d}, x)
    OBVIOUS
  <2>3. Ruly(w) /\ w.out = x
    BY <2>2, NewRules
  <2>4. x \in Routable(n)
    BY <2>1, <2>2, <2>3, InsertedTarget
  <2>5. SameLists(m, n)
    BY RuleEdits
  <2>6. QED
    BY <2>4, <2>5, SameTags, Zenon
<1>2. CASE At # {}
  <2>1. x \in RuleTargets(m)
    BY <1>2 DEF RuleTargets
  <2>2. QED
    BY <2>1 DEF Valid
<1>3. QED
  BY <1>1, <1>2

(* set_tg_exit.                                                            *)
LEMMA PinStands ==
  ASSUME NEW m, RulesOk(m), Plain(m), NEW x, x # None,
         NEW n, n = PinTelegram(m, x), Valid(n)
  PROVE  x \in Routable(m)
<1> DEFINE I == {i \in DOMAIN m.rules : ~m.rules[i].tg}
<1>1. {"rules", "sets"} \subseteq DOMAIN m /\ \A w \in ToSet(m.rules) : Ruly(w)
  BY DEF RulesOk
<1>2. I \in SUBSET DOMAIN m.rules
  OBVIOUS
<1>3. PICK o : o = [m EXCEPT !.rules = Those(@, I)]
  OBVIOUS
<1>4. n = Insert(o, TgRule(x))
  BY <1>1, <1>3 DEF PinTelegram
<1>5. o.rules = Those(m.rules, I) /\ DOMAIN o = DOMAIN m
  BY <1>1, <1>3
<1> HIDE DEF I
<1>6. RulesOk(o)
  <2>1. IsList(o.rules) /\ ToSet(o.rules) = {m.rules[i] : i \in I}
    BY <1>2, <1>5, OnThose DEF RulesOk
  <2>2. ToSet(o.rules) \subseteq ToSet(m.rules)
    BY <1>2, <2>1 DEF ToSet
  <2>3. QED
    BY <1>1, <1>5, <2>1, <2>2 DEF RulesOk
<1>7. PICK w : w = TgRule(x)
  OBVIOUS
<1>8. Ruly(w)
  BY <1>7, NewRules
<1>9. w.out = x
  <2>1. PICK u : u = DomainRule({}, x)
    OBVIOUS
  <2>2. DOMAIN u = {"reject", "tg", "set", "domains", "keyed", "out"} /\ u.out = x
    BY <2>1, RuleFields
  <2>3. w = [u EXCEPT !.tg = TRUE, !.keyed = FALSE]
    BY <1>7, <2>1 DEF TgRule
  <2>4. QED
    BY <2>2, <2>3
<1>10. x \in Routable(n)
  BY <1>4, <1>6, <1>7, <1>8, <1>9, InsertedTarget
<1>11. SameLists(m, n)
  BY RuleEdits
<1>12. QED
  BY <1>10, <1>11, SameTags

(* patch_rule: a rule that names a domain is one the web lists.            *)
LEMMA RuleListed ==
  ASSUME NEW m, RulesOk(m), Targeted(m), NEW d, Rule(m, d), NEW direct
  PROVE  d \in Items(m, direct)
<1>1. PICK i \in DOMAIN m.rules : d \in m.rules[i].domains
  BY DEF Rule
<1>2. m.rules[i] \in ToSet(m.rules)
  BY DEF ToSet
<1>3. m.rules[i].set = None /\ m.rules[i].out # None
  BY <1>1, <1>2 DEF RulesOk, Ruly, Targeted
<1>4. QED
  BY <1>1, <1>3 DEF Items

LEMMA OneModel ==
  ASSUME NEW x, NEW y, ModelOnly(x) = ModelOnly(y)
  PROVE  x = y
<1>1. ModelOnly(x).model = x /\ ModelOnly(y).model = y
  BY ModelAnd
<1>2. QED
  BY <1>1

(* add_group: the model would be refused if a member were no target, or the*)
(* group itself.                                                           *)
LEMMA AddGroupStands ==
  ASSUME NEW op, NEW m, Plain(m), NEW n, AddGroup(op, m) = ModelOnly(n), Plain(n), Valid(n)
  PROVE  op.name \notin OutTags(m) /\ op.members \subseteq Routable(m) \ {op.name}
<1>1. /\ {"outs", "groups", "final"} \subseteq DOMAIN m /\ IsList(m.groups)
      /\ \A i \in DOMAIN m.groups : PlainGroup(m.groups[i])
  BY PlainIff
<1>2. /\ n.outs = m.outs
      /\ \A j \in DOMAIN n.groups : n.groups[j].name \in GroupNames(m) \cup {op.name}
      /\ \E j \in DOMAIN n.groups : n.groups[j].name = op.name
                                    /\ n.groups[j].proxies = op.members
  <2>1. CASE op.name \in GroupNames(m)
    <3> DEFINE gs == [i \in DOMAIN m.groups |->
              IF m.groups[i].name = op.name THEN [m.groups[i] EXCEPT !.proxies = op.members]
                                            ELSE m.groups[i]]
    <3>1. AddGroup(op, m) = ModelOnly([m EXCEPT !.groups = gs])
      BY <2>1 DEF AddGroup
    <3> HIDE DEF gs
    <3>2. n = [m EXCEPT !.groups = gs]
      BY <3>1, OneModel
    <3>3. n.outs = m.outs /\ n.groups = gs
      BY <1>1, <3>2
    <3>4. \A j \in DOMAIN gs : gs[j].name = m.groups[j].name
      BY <1>1 DEF gs, PlainGroup
    <3>5. DOMAIN gs = DOMAIN m.groups
      BY DEF gs
    <3>6. PICK j \in DOMAIN m.groups : m.groups[j].name = op.name
      BY <2>1 DEF GroupNames
    <3>7. gs[j].proxies = op.members
      BY <1>1, <3>6 DEF gs, PlainGroup
    <3>8. QED
      BY <3>3, <3>4, <3>5, <3>6, <3>7 DEF GroupNames
  <2>2. CASE op.name \notin GroupNames(m)
    <3> DEFINE x == [name |-> op.name, proxies |-> op.members, use |-> FALSE]
               gs == Append(m.groups, x)
    <3>1. AddGroup(op, m) = ModelOnly([m EXCEPT !.groups = gs])
      BY <2>2 DEF AddGroup
    <3>2. x.name = op.name /\ x.proxies = op.members
      OBVIOUS
    <3>3. Len(m.groups) \in Nat /\ DOMAIN m.groups = 1..Len(m.groups)
      BY <1>1, ListIs
    <3>4. m.groups \in Seq(ToSet(m.groups) \cup {x})
      BY <1>1 DEF IsList
    <3> HIDE DEF x
    <3>5. /\ DOMAIN gs = 1..(Len(m.groups) + 1)
          /\ \A j \in DOMAIN m.groups : gs[j] = m.groups[j]
          /\ gs[Len(m.groups) + 1] = x
      BY <3>3, <3>4
    <3> HIDE DEF gs
    <3>6. n = [m EXCEPT !.groups = gs]
      BY <3>1, OneModel
    <3>7. n.outs = m.outs /\ n.groups = gs
      BY <1>1, <3>6
    <3>8. \A j \in DOMAIN gs : j \in DOMAIN m.groups \/ j = Len(m.groups) + 1
      BY <3>3, <3>5
    <3>9. QED
      BY <3>2, <3>3, <3>5, <3>7, <3>8 DEF GroupNames
  <2>3. QED
    BY <2>1, <2>2
<1>3. PICK j \in DOMAIN n.groups : n.groups[j].name = op.name /\ n.groups[j].proxies = op.members
  BY <1>2
<1>4. op.name \notin OutTags(m)
  <2>1. op.name \in GroupNames(n) /\ OutTags(n) = OutTags(m)
    BY <1>2, <1>3 DEF GroupNames, OutTags
  <2>2. QED
    BY <2>1 DEF Valid, ValidNoTargets
<1>5. op.members \subseteq Routable(n)
  BY <1>3 DEF Valid
<1>6. Routable(n) \subseteq Routable(m) \cup {op.name}
  <2>1. GroupNames(n) \subseteq GroupNames(m) \cup {op.name}
    BY <1>2 DEF GroupNames
  <2>2. QED
    BY <1>2, <2>1, RoutableIs
<1>7. op.name \notin op.members
  <2>1. Acyclic(n.groups)
    BY DEF Valid, ValidNoTargets
  <2>2. {j} \in (SUBSET DOMAIN n.groups) \ {{}}
    OBVIOUS
  <2>3. \E i \in {j} : n.groups[i].proxies \cap {n.groups[k].name : k \in {j}} = {}
    BY <2>1, <2>2 DEF Acyclic
  <2>4. QED
    BY <1>3, <2>3
<1>8. QED
  BY <1>4, <1>5, <1>6, <1>7

(* add_ruleset: the derivation would refuse it.                            *)
LEMMA AddRuleSetChecked ==
  ASSUME NEW op, NEW s, NEW L, Plain(L.model), NEW files, files = AddRuleSet(op, s, L.model),
         NEW N, Written(N, files, L), Derivable(N.model, N.meta)
  PROVE  AddRuleSetEarly(op, L.model)
<1> DEFINE new == [to |-> op.to, label |-> FALSE]
           listed == [r \in DOMAIN s.meta \cup {op.set} |->
                        IF r = op.set THEN new ELSE s.meta[r]]
           g == [f \in {"meta", op.set} |-> IF f = "meta" THEN listed ELSE op.got]
           n == AddSet(L.model, op.set, op.to)
<1>1. files = And(ModelOnly(n), g)
  BY DEF AddRuleSet
<1>2. "meta" \in DOMAIN g /\ g.meta = listed
  OBVIOUS
<1>3. op.set \in DOMAIN listed /\ listed[op.set].to = op.to
  OBVIOUS
<1>4. SameLists(L.model, n)
  BY RuleEdits
<1> HIDE DEF listed, g, n
<1>5. {"model", "meta"} \subseteq DOMAIN files /\ files.model = n /\ files.meta = listed
  <2>1. /\ DOMAIN And(ModelOnly(n), g) = {"model"} \cup DOMAIN g
        /\ And(ModelOnly(n), g).model = n
        /\ "meta" \in DOMAIN g => And(ModelOnly(n), g).meta = g.meta
    BY ModelAnd
  <2>2. QED
    BY <1>1, <1>2, <2>1
<1>6. N.model = n /\ N.meta = listed
  BY <1>5 DEF Written
<1>7. /\ Routable(n) = Routable(L.model) /\ OutTags(n) = OutTags(L.model)
      /\ GroupNames(n) = GroupNames(L.model)
  BY <1>4, SameTags DEF SameLists, OutTags, GroupNames
<1>8. QED
  BY <1>3, <1>6, <1>7 DEF Derivable, AddRuleSetEarly

(* What a commit checks, or was computed of, answers for the handler.      *)
LEMMA ChangeAnswers ==
  ASSUME NEW op, op.do \in Requests, NEW L, NEW s, NEW ruled,
         RulesOk(L.model), Plain(L.model), Valid(L.model), Targeted(L.model),
         NEW files, files = Change(op, s, L.model, ruled), files # NoFiles,
         ReadFrom(op, s, files, L),
         "model" \in DOMAIN files => Plain(files.model) /\ Valid(files.model),
         NEW N, Written(N, files, L), "model" \in DOMAIN files => Derivable(N.model, N.meta),
         ToSome(op), op.do = "restore" => RestoreEarly(op),
         op.do = "add_group" =>
           op.name \notin Reserved \cup {Direct} /\ Cardinality(op.members) >= 2,
         ~Pinned(op), ~Loose(op)
  PROVE  StillHolds(op, L.model, L.direct)
<1> DEFINE m == L.model
<1>1. CASE op.do = "add_rule"
  <2>1. files = AddRule(op, s, m)
    BY <1>1, Zenon DEF Change
  <2>2. "model" \in DOMAIN files /\ files.model = AddDomain(m, op.dom, op.to)
    BY <2>1, WithModel, StagesModel, Zenon DEF AddRule
  <2>3. op.to \in Routable(m)
    BY <1>1, <2>2, AddDomainStands DEF ToSome
  <2>4. AddRuleEarly(op, m, L.direct)
    BY <1>1, <2>3 DEF AddRuleEarly
  <2>5. QED
    BY <1>1, <2>4, Zenon DEF StillHolds, Early
<1>2. CASE op.do = "patch_rule"
  <2>1. files = PatchRule(op, s, m)
    BY <1>2, Zenon DEF Change
  <2>2. Rule(m, op.dom) \/ op.dom \in s.direct
    BY <2>1, Zenon DEF PatchRule
  <2>3. "direct" \in DOMAIN files
    <3>1. \E x, d, h : files = And(ModelOnly(x), Both(d, h))
      BY <2>1, Zenon DEF PatchRule
    <3>2. QED
      BY <3>1, BothStaged
  <2>4. s.direct = L.direct
    BY <1>2, <2>3, ListsRead DEF ReadFrom
  <2>5. op.dom \in Items(m, L.direct)
    BY <2>2, <2>4, RuleListed DEF Items
  <2>6. QED
    BY <1>2, <2>5, Zenon DEF StillHolds, Early, PatchRuleEarly
<1>3. CASE op.do \in {"web_delete_exit", "add_exit", "replace_exit", "set_ruleset_target"}
  <2>1. CASE op.do = "web_delete_exit"
    <3>1. files = WebDeleteExit(op, s, m)
      BY <2>1, Zenon DEF Change
    <3>2. WebDeleteExitEarly(op, m)
      BY <3>1, Zenon DEF WebDeleteExit, WebDeleteExitEarly
    <3>3. QED
      BY <2>1, <3>2, Zenon DEF StillHolds, Early
  <2>2. CASE op.do = "add_exit"
    <3>1. files = AddExit(op, m)
      BY <2>2, Zenon DEF Change
    <3>2. AddExitEarly(op, m)
      BY <3>1, Zenon DEF AddExit, AddExitEarly
    <3>3. QED
      BY <2>2, <3>2, Zenon DEF StillHolds, Early
  <2>3. CASE op.do = "replace_exit"
    <3>1. files = ReplaceExit(op, m)
      BY <2>3, Zenon DEF Change
    <3>2. ReplaceExitEarly(op, m)
      BY <3>1, Zenon DEF ReplaceExit, ReplaceExitEarly
    <3>3. QED
      BY <2>3, <3>2, Zenon DEF StillHolds, Early
  <2>4. CASE op.do = "set_ruleset_target"
    <3>1. files = TargetRuleSet(op, s, m)
      BY <2>4, Zenon DEF Change
    <3>2. TargetRuleSetEarly(op, m)
      BY <3>1, Zenon DEF TargetRuleSet, TargetRuleSetEarly
    <3>3. QED
      BY <2>4, <3>2, Zenon DEF StillHolds, Early
  <2>5. QED
    BY <1>3, <2>1, <2>2, <2>3, <2>4
<1>4. CASE op.do = "set_tg_exit"
  <2>1. files = SetTgExit(op, m)
    BY <1>4, Zenon DEF Change
  <2>2. "model" \in DOMAIN files /\ files.model = PinTelegram(m, op.to)
    BY <2>1, SmallFiles, StagesModel, Zenon DEF SetTgExit
  <2>3. op.to = None \/ op.to \in Routable(m)
    BY <2>2, PinStands
  <2>4. SetTgExitEarly(op, m)
    BY <2>3 DEF SetTgExitEarly
  <2>5. QED
    BY <1>4, <2>4, Zenon DEF StillHolds, Early
<1>5. CASE op.do = "add_group"
  <2>1. files = AddGroup(op, m)
    BY <1>5, Zenon DEF Change
  <2>2. PICK n : files = ModelOnly(n)
    BY <2>1, Zenon DEF AddGroup
  <2>3. Plain(n) /\ Valid(n)
    BY <2>2, ModelAnd
  <2>4. op.name \notin OutTags(m) /\ op.members \subseteq Routable(m) \ {op.name}
    BY <2>1, <2>2, <2>3, AddGroupStands
  <2>5. QED
    BY <1>5, <2>4 DEF StillHolds
<1>6. CASE op.do = "add_ruleset"
  <2>1. files = AddRuleSet(op, s, m)
    BY <1>6, Zenon DEF Change
  <2>2. "model" \in DOMAIN files
    BY <2>1, WithModel, Zenon DEF AddRuleSet
  <2>3. AddRuleSetEarly(op, m)
    BY <2>1, <2>2, AddRuleSetChecked
  <2>4. QED
    BY <1>6, <2>3, Zenon DEF StillHolds, Early
<1>7. CASE op.do = "restore"
  BY <1>7, Zenon DEF StillHolds, Early
<1>8. CASE op.do \in {"add_direct", "del_rules_bulk", "set_default_exit", "set_ruleset_label",
                      "del_ruleset", "refresh_rulesets"}
  BY <1>8, Zenon DEF StillHolds, Early
<1>9. op.do \in {"add_direct", "add_rule", "del_rules_bulk", "patch_rule", "web_delete_exit",
                 "add_exit", "replace_exit", "set_default_exit", "set_tg_exit", "add_group",
                 "add_ruleset", "set_ruleset_target", "set_ruleset_label", "del_ruleset",
                 "refresh_rulesets", "restore"}
  BY DEF Requests, Pinned, PolicyGroupOps, Loose
<1>10. QED
  BY <1>1, <1>2, <1>3, <1>4, <1>5, <1>6, <1>7, <1>8, <1>9

(* At a commit: nobody has committed since a request that is Loose began,  *)
(* the model is still the one a pinned request was answered from, and all  *)
(* else was looked at again.                                               *)
LEMMA CommitStands ==
  ASSUME Undisturbed, IInv, FInv, RInv, CInv, NEW e \in Editor, Commit(e)
  PROVE  StillHolds(seen[e].op, live.model, live.direct)
<1>1. PICK c, op : c = seen[e] /\ op = c.op
  OBVIOUS
<1> DEFINE next == And(c.files, live)
<1>2. /\ step[e] = "staged" /\ (Loose(op) => c.at = edits)
      /\ \A f \in DOMAIN c.expect : live[f] = c.expect[f]
      /\ "model" \in DOMAIN c.files => Derivable(next.model, next.meta)
  BY <1>1 DEF Commit, Unchanged, Undisturbed
<1>3. Vouched(c, live.model, live.direct, edits)
  BY <1>1, <1>2 DEF CInv
<1>4. /\ Asked(op) /\ c.files # NoFiles
      /\ \E s : c.files = Change(op, s, live.model, c.ruled) /\ ReadFrom(op, s, c.files, live)
  BY <1>1, CommitMade
<1>5. CASE Loose(op)
  <2>1. Early(op, live.model, live.direct)
    BY <1>1, <1>2, <1>3, <1>5 DEF Vouched
  <2>2. op.do # "add_group"
    BY <1>5 DEF Loose
  <2>3. QED
    BY <1>1, <2>1, <2>2 DEF StillHolds
<1>6. CASE Pinned(op)
  <2>1. "model" \in DOMAIN c.expect /\ Answered(op, c.expect.model)
    BY <1>1, <1>2, <1>6 DEF CInv
  <2>2. Early(op, live.model, live.direct)
    BY <1>2, <2>1 DEF Answered
  <2>3. op.do # "add_group"
    BY <1>6 DEF Pinned, PolicyGroupOps
  <2>4. QED
    BY <1>1, <2>2, <2>3 DEF StillHolds
<1>7. CASE ~Loose(op) /\ ~Pinned(op)
  <2>1. PICK s : /\ c.files = Change(op, s, live.model, c.ruled)
                 /\ ReadFrom(op, s, c.files, live)
    BY <1>4
  <2>2. /\ RulesOk(live.model) /\ Plain(live.model) /\ Valid(live.model)
        /\ Targeted(live.model)
    BY DEF RInv, FInv, IInv, CInv, Closed, ClosedFiles, Consistent
  <2>3. "model" \in DOMAIN c.files => Plain(c.files.model) /\ Valid(c.files.model)
    BY <1>1, <1>2 DEF FInv, Ready, IInv, Sound
  <2>4. Written(next, c.files, live)
    BY AndWrites
  <2>5. /\ op.do \in Requests
        /\ op.do = "restore" => RestoreEarly(op)
    BY <1>4 DEF Asked, WellFormedRequest
  <2>6. /\ ToSome(op)
        /\ op.do = "add_group" =>
             op.name \notin Reserved \cup {Direct} /\ Cardinality(op.members) >= 2
    BY <1>1, <1>3 DEF Vouched
  <2> HIDE DEF next
  <2>7. StillHolds(op, live.model, live.direct)
    BY <1>2, <1>4, <1>7, <2>1, <2>2, <2>3, <2>4, <2>5, <2>6, ChangeAnswers
  <2>8. QED
    BY <1>1, <2>7
<1>8. QED
  BY <1>5, <1>6, <1>7

(* What a handler checked before anything else still holds when its edit   *)
(* is committed, for any editors, requests and interleavings: whatever the *)
(* others committed since, the transaction looks again at what the handler *)
(* looked at, refuses what it was to exclude, or is pinned to the model it *)
(* was answered from; only for the requests that are Loose does it take    *)
(* that nobody has committed since.                                        *)
THEOREM ChecksAlwaysStand ==
  ASSUME DirectIsPhone, Undisturbed, FitAtStart, TargetsAtStart
  PROVE  Spec => ChecksStand
<1>1. IInv /\ FInv /\ RInv /\ CInv /\ [Next]_vars => CInv'
  BY StepC
<1>2. Init => CInv
  BY InitC
<1>3. IInv /\ FInv /\ RInv /\ CInv /\ [Next]_vars
        => [\A e \in Editor : Commits(e) =>
              StillHolds(seen[e].op, live.model, live.direct)]_vars
  <2> SUFFICES ASSUME IInv, FInv, RInv, CInv, [Next]_vars, NEW e \in Editor, Commits(e)
               PROVE  StillHolds(seen[e].op, live.model, live.direct)
    OBVIOUS
  <2>1. step[e] = "staged" /\ edits' # edits /\ step'[e] = "idle"
    BY Zenon DEF Commits
  <2>2. PICK d \in Editor : Commit(d)
    BY <2>1, Zenon DEF Next, vars, Begin, Snapshot, Stage, Refuse
  <2>3. d = e
    <3>1. step' = [step EXCEPT ![d] = "idle"]
      BY <2>2 DEF Commit
    <3>2. QED
      BY <2>1, <3>1
  <2>4. QED
    BY <2>2, <2>3, CommitStands
<1>4. QED
  BY <1>1, <1>2, <1>3, RulesAlways, PTL DEF Spec, ChecksStand
=============================================================================
