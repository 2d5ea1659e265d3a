------------------------------- MODULE PdgTx -------------------------------
(***************************************************************************)
(* The configuration transaction core, deploy/bot/pdgtx.py.                *)
(*                                                                         *)
(* A transaction stages new contents for some target files (remembering    *)
(* what it read), then, under one non-blocking machine-wide lock, checks   *)
(* its preconditions, saves a before-image, replaces the files one by one, *)
(* acts on services, observes them, and commits or rolls back.  Its state  *)
(* is persisted in meta.json before every phase, so that a crash leaves    *)
(* something `pdg tx recover` can undo.                                    *)
(*                                                                         *)
(* Each process of Proc runs one command at a time: a Python caller or a   *)
(* shell script driving a transaction, `pdg tx recover` or `pdg tx abort`. *)
(* A step is what happens between two writes another process, a crash or   *)
(* an outside editor could come between.  Any write may raise; atomic_write *)
(* may raise before or after the rename, so a raising step leaves either   *)
(* the old or the new content.                                             *)
(***************************************************************************)
EXTENDS Naturals, FiniteSets

CONSTANTS
  Tx,           \* transaction ids; the order of ids is the order of creation
  Target,       \* the whitelisted files, numbered in the order of their names
  Unit,         \* the systemd units the targets and actions involve
  Content,      \* the contents a file can have
  Absent,       \* "the file does not exist"
  Proc,         \* the processes that run commands
  NoProc,       \* nobody holds the lock
  NoTx,         \* a process that works on no transaction
  Goal,         \* what each transaction was assembled to do, see Goals
  Origin,       \* how it is driven: "api" (Python object) or "cli" (pdg tx ...)
  UnitOf,       \* the units whose service a target concerns (_TARGET_SVC)
  Probed,       \* units with a DNS/port probe in health_snapshot
  TxKeep,       \* TX_KEEP: finished directories the garbage collection keeps
  Outside,      \* targets some editor writes without taking the lock
  Flaky,        \* units that may change state on their own
  Commands,     \* which of "apply", "recover", "abort" operators run by hand
  Discipline,   \* rules the operators follow: a subset of {"solo", "fresh"}
  LiveAtStart,  \* the initial configurations
  RunningAtStart \* the initial service levels

Value == Content \cup {Absent}

Verb == {"none", "restart", "start", "stop"}

(* A partial function from S to T.                                         *)
Partial(S, T) == UNION {[D -> T] : D \in SUBSET S}

(* data: the staged contents (Absent deletes the file); derived: the       *)
(* targets a deriver renders inside commit; watch: the read-only           *)
(* dependencies; act: the service actions; guard: the service states       *)
(* required before anything is touched.                                    *)
Goals == [mode : {"normal", "repair"},
          data : Partial(Target, Value),
          derived : SUBSET Target,
          watch : SUBSET Target,
          act : [Unit -> Verb],
          guard : Partial(Unit, {"active", "inactive"})]

(* A unit is stopped, crashed, running with its probes unanswered, or fine. *)
Level == {"inactive", "failed", "deaf", "ok"}

ASSUME ConstantsAssumption ==
  /\ Tx \subseteq Nat
  /\ Target \subseteq Nat
  /\ TxKeep \in Nat
  /\ NoProc \notin Proc
  /\ NoTx \notin Tx
  /\ Absent \notin Content
  /\ Goal \in [Tx -> Goals]
  /\ Origin \in [Tx -> {"api", "cli"}]
  /\ UnitOf \in [Target -> SUBSET Unit]
  /\ Probed \subseteq Unit
  /\ Outside \subseteq Target
  /\ Flaky \subseteq Unit
  /\ Discipline \subseteq {"solo", "fresh"}
  /\ LiveAtStart \subseteq [Target -> Value]
  /\ RunningAtStart \subseteq [Unit -> Level]

(* action_conflicts refuses contradictory verbs on a unit, hence one verb   *)
(* per unit; a derived target is staged, a watched one is not.             *)
ASSUME GoalAssumption ==
  \A t \in Tx : /\ Goal[t].derived \subseteq DOMAIN Goal[t].data
                /\ Goal[t].watch \cap DOMAIN Goal[t].data = {}

VARIABLES
  live,      \* the target files on disk
  rt,        \* the level of each unit
  lock,      \* the holder of the lock file
  meta,      \* the state in each transaction's meta.json
  expect,    \* what each target or watched file must still contain
  image,     \* the before-image: old contents and the units that were active
  material,  \* which of candidate/ and before/ (with its index) exist
  drift,     \* ghost: targets edited from outside since t's precondition check
  pc,        \* where each process is
  cur,       \* the transaction it works on
  mem        \* the rest of its memory, see Blank

vars == <<live, rt, lock, meta, expect, image, material, drift, pc, cur, mem>>

disk == <<meta, expect, image, material, drift>>

-----------------------------------------------------------------------------
(* The state machine of a transaction (pdgtx.py, _ALLOWED and its neighbours). *)

Unstarted == {"PREPARING", "VALIDATED"}
GcTerminal == {"COMMITTED", "ROLLED_BACK", "ABORTED"}
NeedsRecovery == {"APPLYING", "OBSERVING", "ROLLING_BACK", "ROLLBACK_FAILED"}

(* "none": not created yet; "gone": its directory was garbage collected.   *)
States == Unstarted \cup GcTerminal \cup NeedsRecovery \cup {"none", "gone"}

Allowed == [s \in States |->
  CASE s = "PREPARING"    -> {"VALIDATED", "ABORTED"}
    [] s = "VALIDATED"    -> {"APPLYING", "ABORTED"}
    [] s = "APPLYING"     -> {"OBSERVING", "ROLLING_BACK"}
    [] s = "OBSERVING"    -> {"COMMITTED", "ROLLING_BACK"}
    [] s = "ROLLING_BACK" -> {"ROLLED_BACK", "ROLLBACK_FAILED"}
    [] OTHER              -> {}]

-----------------------------------------------------------------------------
(* Helpers.                                                                *)

EmptyFcn == [x \in {} |-> {}]

(* f with x mapped to v, whether or not x was in its domain.               *)
With(f, x, v) == [y \in DOMAIN f \cup {x} |-> IF y = x THEN v ELSE f[y]]

First(n, S) == n \in S /\ \A m \in S : n <= m

Staged(t) == DOMAIN expect[t] \cap DOMAIN Goal[t].data

Acting(t) == {u \in Unit : Goal[t].act[u] # "none"}

Services(t) ==
  (UNION {UnitOf[n] : n \in Staged(t)}) \cup Acting(t) \cup DOMAIN Goal[t].guard

(* Units with an explicit start or stop leave the baseline's active gate.  *)
Relaxed(t) == {u \in Unit : Goal[t].act[u] \in {"start", "stop"}}

Active(level) == level \in {"deaf", "ok"}

(* health_snapshot: the units of the transaction that are active, and those *)
(* whose probes answer.                                                    *)
GoodSvc(t) == {u \in Services(t) \ Relaxed(t) : Active(rt[u])}
GoodProbe(t) == {u \in Services(t) \cap Probed : rt[u] = "ok"}

BadBaseline(t) ==
  \/ GoodSvc(t) # Services(t) \ Relaxed(t)
  \/ GoodProbe(t) # Services(t) \cap Probed

NoBase == [svc |-> {}, probe |-> {}]

Blank == [seen |-> EmptyFcn,   \* read_for_update: contents read while assembling
          existed |-> {},      \* deletions whose file existed when staged/loaded
          todo |-> {},         \* targets still to write or restore
          acts |-> {},         \* units still to act on or restore
          base |-> NoBase,     \* the health baseline
          failed |-> FALSE,    \* some item was not restored
          force |-> FALSE,     \* recover --force
          late |-> {}]         \* ghost: targets edited since recover's preflight

Go(p, l) == pc' = [pc EXCEPT ![p] = l]

ReleaseForgotten(p) == UNCHANGED lock
Release(p) == lock' = IF lock = p THEN NoProc ELSE lock

(* The process ends (returns, exits or dies) and leaves nothing in memory. *)
End(p) ==
  /\ Go(p, "idle")
  /\ cur' = [cur EXCEPT ![p] = NoTx]
  /\ mem' = [mem EXCEPT ![p] = Blank]

(* The operators' rule that one process at a time handles a transaction.   *)
Solo(p, t) == "solo" \in Discipline => \A q \in Proc \ {p} : cur[q] # t

-----------------------------------------------------------------------------
Init ==
  /\ live \in LiveAtStart
  /\ rt \in RunningAtStart
  /\ lock = NoProc
  /\ meta = [t \in Tx |-> "none"]
  /\ expect = [t \in Tx |-> EmptyFcn]
  /\ image = [t \in Tx |-> [files |-> EmptyFcn, active |-> {}]]
  /\ material = [t \in Tx |-> {}]
  /\ drift = [t \in Tx |-> {}]
  /\ pc = [p \in Proc |-> "idle"]
  /\ cur = [p \in Proc |-> NoTx]
  /\ mem = [p \in Proc |-> Blank]

-----------------------------------------------------------------------------
(* Assembling a transaction, without the lock.                             *)

New(p, t) ==
  /\ pc[p] = "idle" /\ meta[t] = "none"
  /\ \A x \in Tx : x < t => meta[x] # "none"
  /\ meta' = [meta EXCEPT ![t] = "PREPARING"]
  /\ material' = [material EXCEPT ![t] = {"candidate"}]
  /\ Go(p, "prep")
  /\ cur' = [cur EXCEPT ![p] = t]
  /\ UNCHANGED <<live, rt, lock, expect, image, drift, mem>>

(* What the caller still has to stage or watch; callers do it in one order. *)
Unprepared(t) ==
  ((DOMAIN Goal[t].data \ Goal[t].derived) \cup Goal[t].watch) \ DOMAIN expect[t]

ReadForUpdate(p, n) ==
  LET t == cur[p] IN
  /\ pc[p] = "prep" /\ First(n, Unprepared(t)) /\ n \notin DOMAIN mem[p].seen
  /\ mem' = [mem EXCEPT ![p].seen = With(@, n, live[n])]
  /\ UNCHANGED <<live, rt, lock, disk, pc, cur>>

(* The deletions among S whose file exists.                                *)
DeletableNone(t, S) == {}
Deletable(t, S) ==
  {n \in S \cap DOMAIN Goal[t].data : Goal[t].data[n] = Absent /\ live[n] # Absent}

(* Tx.stage, and Tx.watch for a read-only dependency: remember what the    *)
(* candidate was computed from, and whether a file to delete exists.       *)
Stage(p, n) ==
  LET t == cur[p]
      basis == IF n \in DOMAIN mem[p].seen THEN mem[p].seen[n] ELSE live[n]
  IN
  /\ pc[p] = "prep" /\ First(n, Unprepared(t))
  /\ expect' = [expect EXCEPT ![t] = With(@, n, basis)]
  /\ mem' = [mem EXCEPT ![p].existed = @ \cup Deletable(t, {n}),
                        ![p].seen = [m \in DOMAIN @ \ {n} |-> @[m]]]
  /\ UNCHANGED <<live, rt, lock, meta, image, material, drift, pc, cur>>

(* _cli_apply rebuilds the transaction from its directory.  A transaction  *)
(* of the Python API has nothing staged on disk, so commit refuses it       *)
(* whatever the lock says.                                                 *)
Rebuild(p, t) ==
  /\ meta[t] \notin {"none", "gone"}
  /\ (\E n \in Staged(t) : Goal[t].data[n] # Absent) => "candidate" \in material[t]
  /\ cur' = [cur EXCEPT ![p] = t]
  /\ IF Origin[t] = "api"
       THEN Go(p, "refused") /\ UNCHANGED mem
       ELSE /\ Go(p, "loaded")
            /\ mem' = [mem EXCEPT ![p] =
                 [Blank EXCEPT !.existed = Deletable(t, Staged(t))]]
  /\ UNCHANGED <<live, rt, lock, disk>>

(* `pdg tx apply` run by hand: it does not look at the recorded state.     *)
ApplyByHand(p, t) ==
  /\ pc[p] = "idle" /\ "apply" \in Commands
  /\ Solo(p, t)
  /\ "fresh" \in Discipline => meta[t] = "PREPARING"
  /\ Rebuild(p, t)

(* The shell script that staged everything runs `pdg tx apply`.            *)
ApplyStaged(p) ==
  /\ pc[p] = "prep" /\ Origin[cur[p]] = "cli" /\ Unprepared(cur[p]) = {}
  /\ Rebuild(p, cur[p])

(* _abort and abort_unstarted, both outside the lock: write ABORTED, then  *)
(* remove the candidate and before directories as far as possible.  If the *)
(* write raises nothing is removed.                                        *)
AbortOwn(p) ==
  LET t == cur[p] IN
  /\ pc[p] \in {"prep", "refused"}
  /\ pc[p] = "prep" => Origin[t] = "api"
  /\ \/ /\ meta' = [meta EXCEPT ![t] = "ABORTED"]
        /\ \E left \in SUBSET material[t] : material' = [material EXCEPT ![t] = left]
     \/ UNCHANGED <<meta, material>>
  /\ End(p)
  /\ UNCHANGED <<live, rt, lock, expect, image, drift>>

-----------------------------------------------------------------------------
(* commit, up to the point where production is touched.                    *)

(* The lock file is busy or unusable, or the lock is ours.                 *)
CommitLock(p) ==
  /\ \/ pc[p] = "loaded"
     \/ pc[p] = "prep" /\ Origin[cur[p]] = "api" /\ Unprepared(cur[p]) = {}
  /\ \/ lock = NoProc /\ lock' = p /\ Go(p, "admit")
     \/ UNCHANGED lock /\ Go(p, "refused")
  /\ UNCHANGED <<live, rt, disk, cur, mem>>

PendingApplyingOnly(t) == \E x \in Tx \ {t} : meta[x] \in {"APPLYING", "ROLLING_BACK"}
Pending(t) == \E x \in Tx \ {t} : meta[x] \in NeedsRecovery

(* Steps 0 and 1 of _commit_locked: no other transaction waits to be       *)
(* recovered; the derivers stage their targets, which no caller has read.  *)
Admit(p) ==
  LET t == cur[p]
      basis == [n \in DOMAIN expect[t] \cup Goal[t].derived |->
                  IF n \in DOMAIN expect[t] THEN expect[t][n] ELSE live[n]]
  IN
  /\ pc[p] = "admit"
  /\ ~Pending(t)
  /\ expect' = [expect EXCEPT ![t] = basis]
  /\ Go(p, "baseline")
  /\ UNCHANGED <<live, rt, lock, meta, image, material, drift, cur, mem>>

GuardsHold(t) == \A u \in DOMAIN Goal[t].guard :
  IF Goal[t].guard[u] = "active" THEN Active(rt[u]) ELSE rt[u] = "inactive"

(* Step 2: there is something to do, the service guards hold, and a normal *)
(* transaction starts from a healthy baseline.                             *)
Baseline(p) ==
  LET t == cur[p] IN
  /\ pc[p] = "baseline"
  /\ Staged(t) # {} \/ Acting(t) # {}
  /\ GuardsHold(t)
  /\ Goal[t].mode = "normal" => ~BadBaseline(t)
  /\ mem' = [mem EXCEPT ![p].base = [svc |-> GoodSvc(t), probe |-> GoodProbe(t)]]
  /\ Go(p, "check")
  /\ UNCHANGED <<live, rt, lock, disk, cur>>

UnchangedWatchesOnly(t) ==
  \A n \in DOMAIN expect[t] \cap Goal[t].watch : live[n] = expect[t][n]
Unchanged(t) == \A n \in DOMAIN expect[t] : live[n] = expect[t][n]

(* Steps 3-4: every target and every watched file is what the candidate was *)
(* computed from, and the validators accept the candidates.                *)
Validate(p) ==
  LET t == cur[p] IN
  /\ pc[p] = "check"
  /\ Unchanged(t)
  /\ meta' = [meta EXCEPT ![t] = "VALIDATED"]
  /\ drift' = [drift EXCEPT ![t] = {}]
  /\ Go(p, "image")
  /\ UNCHANGED <<live, rt, lock, expect, image, material, cur, mem>>

Locked == {"admit", "baseline", "check", "image"}

(* A validator's verdict is saved together with the state in memory.       *)
SavedByCheck(p) == IF pc[p] = "check" THEN {"PREPARING"} ELSE {}

(* TxRefused before APPLYING (a precondition, a validator, a service that  *)
(* cannot be queried): the lock is released, then _abort runs.             *)
Refuse(p) ==
  LET t == cur[p] IN
  /\ pc[p] \in Locked
  /\ \E s \in {meta[t]} \cup SavedByCheck(p) : meta' = [meta EXCEPT ![t] = s]
  /\ Release(p)
  /\ Go(p, "refused")
  /\ UNCHANGED <<live, rt, expect, image, material, drift, cur, mem>>

(* Any other exception leaves commit: a Python caller still runs           *)
(* abort_unstarted on its way out, a `pdg tx apply` process just dies.     *)
Escape(p) ==
  LET t == cur[p]
      saved == IF pc[p] = "check" THEN {"VALIDATED"} ELSE {}
  IN
  /\ pc[p] \in Locked
  /\ \E s \in {meta[t]} \cup SavedByCheck(p) \cup saved :
       meta' = [meta EXCEPT ![t] = s]
  /\ Release(p)
  /\ IF Origin[t] = "api"
       THEN Go(p, "refused") /\ UNCHANGED <<cur, mem>>
       ELSE End(p)
  /\ UNCHANGED <<live, rt, expect, image, material, drift>>

SaveBefore(p) ==
  LET t == cur[p] IN
  /\ pc[p] = "image"
  /\ image' = [image EXCEPT ![t] = [files |-> [n \in Staged(t) |-> live[n]],
                                    active |-> {u \in Services(t) : Active(rt[u])}]]
  /\ material' = [material EXCEPT ![t] = @ \cup {"before"}]
  /\ Go(p, "start")
  /\ UNCHANGED <<live, rt, lock, meta, expect, drift, cur, mem>>

(* A write of meta.json that raised: the caller sees an exception, and the *)
(* lock is released on the way out.                                        *)
MetaWriteRaises(p, s) ==
  /\ meta' \in {meta, [meta EXCEPT ![cur[p]] = s]}
  /\ Release(p)
  /\ End(p)

StartApplying(p) ==
  LET t == cur[p] IN
  /\ pc[p] = "start"
  /\ \/ /\ meta' = [meta EXCEPT ![t] = "APPLYING"]
        /\ mem' = [mem EXCEPT ![p].todo = Staged(t), ![p].acts = Acting(t)]
        /\ Go(p, "apply")
        /\ UNCHANGED <<lock, cur>>
     \/ MetaWriteRaises(p, "APPLYING")
  /\ UNCHANGED <<live, rt, expect, image, material, drift>>

-----------------------------------------------------------------------------
(* Touching production.                                                    *)

(* _apply_one: replace the file, or unlink it if it existed when staged.   *)
Written(p, n) ==
  IF Goal[cur[p]].data[n] = Absent /\ n \notin mem[p].existed
    THEN live[n] ELSE Goal[cur[p]].data[n]

(* Unlinking a file that has meanwhile disappeared raises.                 *)
CanWrite(p, n) ==
  ~(Goal[cur[p]].data[n] = Absent /\ n \in mem[p].existed /\ live[n] = Absent)

ApplyTarget(p) ==
  /\ pc[p] = "apply"
  /\ \E n \in mem[p].todo :
       /\ First(n, mem[p].todo)
       /\ \/ /\ CanWrite(p, n)
             /\ live' = [live EXCEPT ![n] = Written(p, n)]
             /\ mem' = [mem EXCEPT ![p].todo = @ \ {n}]
             /\ UNCHANGED pc
          \/ /\ live' \in {live, [live EXCEPT ![n] = Written(p, n)]}
             /\ Go(p, "rollback")
             /\ UNCHANGED mem
  /\ UNCHANGED <<rt, lock, disk, cur>>

(* The levels a systemctl verb can leave a unit in.                        *)
Levels(u) == IF u \in Probed THEN Level ELSE Level \ {"deaf"}

After(verb, u) ==
  CASE verb = "start" /\ Active(rt[u]) -> {rt[u]}
    [] verb = "stop" -> IF Active(rt[u]) THEN {"inactive", "failed"} ELSE {rt[u]}
    [] OTHER -> Levels(u) \ {"inactive"}

DoAction(p) ==
  /\ pc[p] = "apply" /\ mem[p].todo = {}
  /\ \E u \in mem[p].acts :
       \E l \in After(Goal[cur[p]].act[u], u) \cup {rt[u]} :
         /\ rt' = [rt EXCEPT ![u] = l]
         /\ \/ /\ l \in After(Goal[cur[p]].act[u], u)
               /\ mem' = [mem EXCEPT ![p].acts = @ \ {u}]
               /\ UNCHANGED pc
            \/ Go(p, "rollback") /\ UNCHANGED mem
  /\ UNCHANGED <<live, lock, disk, cur>>

StartObserving(p) ==
  LET t == cur[p] IN
  /\ pc[p] = "apply" /\ mem[p].todo = {} /\ mem[p].acts = {}
  /\ \/ meta' = [meta EXCEPT ![t] = "OBSERVING"] /\ Go(p, "observe")
     \/ meta' \in {meta, [meta EXCEPT ![t] = "OBSERVING"]} /\ Go(p, "rollback")
  /\ UNCHANGED <<live, rt, lock, expect, image, material, drift, cur, mem>>

(* The units whose explicit action did not reach its goal, and those that  *)
(* ran in the baseline and no longer do.                                   *)
Missed(p) ==
  {u \in Services(cur[p]) :
     CASE Goal[cur[p]].act[u] = "stop" -> rt[u] # "inactive"
       [] Goal[cur[p]].act[u] \in {"start", "restart"} -> ~Active(rt[u])
       [] OTHER -> u \in mem[p].base.svc /\ ~Active(rt[u])}

(* These, and the gates that were good in the baseline and no longer are.  *)
RegressedLenient(p) ==
  IF Goal[cur[p]].mode = "repair" THEN Missed(p)
  ELSE Missed(p) \cup (mem[p].base.probe \ GoodProbe(cur[p]))
Regressed(p) ==
  Missed(p) \cup (mem[p].base.svc \ GoodSvc(cur[p]))
            \cup (mem[p].base.probe \ GoodProbe(cur[p]))

Observe(p) ==
  /\ pc[p] = "observe"
  /\ \/ Regressed(p) = {} /\ Go(p, "commit")
     \/ Go(p, "rollback")
  /\ UNCHANGED <<live, rt, lock, disk, cur, mem>>

MarkCommitted(p) ==
  LET t == cur[p] IN
  /\ pc[p] = "commit"
  /\ \/ /\ meta' = [meta EXCEPT ![t] = "COMMITTED"]
        /\ Go(p, "finish")
        /\ UNCHANGED <<lock, cur, mem>>
     \/ MetaWriteRaises(p, "COMMITTED")
  /\ UNCHANGED <<live, rt, expect, image, material, drift>>

(* The same over TERMINAL, which has ROLLBACK_FAILED.                       *)
DoomedTerminal == {x \in Tx :
  /\ meta[x] \in GcTerminal \cup {"ROLLBACK_FAILED"}
  /\ Cardinality({y \in Tx : y > x /\ meta[y] \in GcTerminal}) >= TxKeep}

(* _gc: the newest TxKeep finished directories stay, older finished ones go. *)
Doomed == {x \in Tx :
  /\ meta[x] \in GcTerminal
  /\ Cardinality({y \in Tx : y > x /\ meta[y] \in GcTerminal}) >= TxKeep}

(* Which of t's materials may be left: _cleanup_materials only touches     *)
(* finished transactions, and either directory may resist.                 *)
LeftoversOfAny(t) == SUBSET material[t]
Leftovers(t) ==
  IF meta[t] \in GcTerminal THEN SUBSET material[t] ELSE {material[t]}

(* Remove the materials, collect old directories, release the lock.        *)
Finish(p) ==
  LET t == cur[p] IN
  /\ pc[p] = "finish"
  /\ \E left \in Leftovers(t), lost \in SUBSET Doomed :
       /\ meta' = [x \in Tx |-> IF x \in lost THEN "gone" ELSE meta[x]]
       /\ material' = [x \in Tx |-> IF x \in lost THEN {}
                                     ELSE IF x = t THEN left ELSE material[x]]
  /\ Release(p)
  /\ End(p)
  /\ UNCHANGED <<live, rt, expect, image, drift>>

-----------------------------------------------------------------------------
(* Rolling back in the process that failed.                                *)

StartRollback(p) ==
  LET t == cur[p] IN
  /\ pc[p] = "rollback"
  /\ \/ /\ meta' = [meta EXCEPT ![t] = "ROLLING_BACK"]
        /\ mem' = [mem EXCEPT ![p].todo = Staged(t), ![p].acts = Services(t)]
        /\ Go(p, "restore")
        /\ UNCHANGED <<lock, cur>>
     \/ MetaWriteRaises(p, "ROLLING_BACK")
  /\ UNCHANGED <<live, rt, expect, image, material, drift>>

(* An old content is read from before/; a created file is unlinked.        *)
HasOld(t, n) == image[t].files[n] = Absent \/ "before" \in material[t]

Old(t, n) == [live EXCEPT ![n] = image[t].files[n]]

(* Put one old file back.  A failure is noted and the loop goes on.        *)
RestoreTarget(p) ==
  LET t == cur[p] IN
  /\ pc[p] = "restore"
  /\ \E n \in mem[p].todo :
       /\ First(n, mem[p].todo)
       /\ \/ /\ HasOld(t, n)
             /\ live' = Old(t, n)
             /\ mem' = [mem EXCEPT ![p].todo = @ \ {n}]
          \/ /\ live' \in {live} \cup (IF HasOld(t, n) THEN {Old(t, n)} ELSE {})
             /\ mem' = [mem EXCEPT ![p].todo = @ \ {n}, ![p].failed = TRUE]
  /\ UNCHANGED <<rt, lock, disk, pc, cur>>

(* What was active must be active again, what was not must be inactive.    *)
RestoredUnverified(was, level) == TRUE
Restored(was, level) == IF was THEN Active(level) ELSE level = "inactive"

(* _restore_runtime for one unit: restart what was active, stop what was   *)
(* not, and verify the result.                                             *)
RestoreUnit(p) ==
  LET t == cur[p] IN
  /\ pc[p] \in {"restore", "undo"} /\ mem[p].todo = {}
  /\ \E u \in mem[p].acts :
       LET was == u \in image[t].active IN
       \E l \in After(IF was THEN "restart" ELSE "stop", u) \cup {rt[u]},
          bad \in BOOLEAN :
         /\ ~bad => /\ l \in After(IF was THEN "restart" ELSE "stop", u)
                    /\ Restored(was, l)
         /\ rt' = [rt EXCEPT ![u] = l]
         /\ mem' = [mem EXCEPT ![p].acts = @ \ {u}, ![p].failed = @ \/ bad]
  /\ UNCHANGED <<live, lock, disk, pc, cur>>

NotRestored(t) == {n \in Staged(t) : live[n] # image[t].files[n]}

(* Verify the files and record the outcome.                                *)
MarkRolledBack(p) ==
  LET t == cur[p]
      verdict == IF mem[p].failed \/ NotRestored(t) # {}
                   THEN "ROLLBACK_FAILED" ELSE "ROLLED_BACK"
  IN
  /\ pc[p] = "restore" /\ mem[p].todo = {} /\ mem[p].acts = {}
  /\ \/ /\ verdict = "ROLLED_BACK"
        /\ meta' = [meta EXCEPT ![t] = verdict]
        /\ Go(p, "finish")
        /\ UNCHANGED <<lock, cur, mem>>
     \/ /\ verdict = "ROLLBACK_FAILED"
        /\ meta' = [meta EXCEPT ![t] = verdict]
        /\ Release(p)
        /\ End(p)
     \/ MetaWriteRaises(p, verdict)
  /\ UNCHANGED <<live, rt, expect, image, material, drift>>

-----------------------------------------------------------------------------
(* `pdg tx recover`.                                                       *)

(* meta.json and before/index.json are read before the lock is taken.      *)
ReadForRecover(p, t, force) ==
  /\ pc[p] = "idle" /\ "recover" \in Commands
  /\ Solo(p, t)
  /\ meta[t] \in NeedsRecovery
  /\ "before" \in material[t]
  /\ Go(p, "recover")
  /\ cur' = [cur EXCEPT ![p] = t]
  /\ mem' = [mem EXCEPT ![p].force = force]
  /\ UNCHANGED <<live, rt, lock, disk>>

RecoverLockLingers(p) ==
  /\ pc[p] = "recover"
  /\ \/ lock = NoProc /\ lock' = p /\ Go(p, "preflight") /\ UNCHANGED <<cur, mem>>
     \/ lock # NoProc /\ UNCHANGED <<lock, cur, mem>> /\ Go(p, "idle")
  /\ UNCHANGED <<live, rt, disk>>

(* A busy lock is an exception, and the command ends.                      *)
RecoverLock(p) ==
  /\ pc[p] = "recover"
  /\ \/ lock = NoProc /\ lock' = p /\ Go(p, "preflight") /\ UNCHANGED <<cur, mem>>
     \/ lock # NoProc /\ UNCHANGED lock /\ End(p)
  /\ UNCHANGED <<live, rt, disk>>

(* Targets whose content is neither the old one nor the transaction's own. *)
ConflictsIgnored(t) == {}
Conflicts(t) == {n \in NotRestored(t) : live[n] # Goal[t].data[n]}

(* Nothing is changed unless the whole plan is feasible.                   *)
Preflight(p) ==
  LET t == cur[p] IN
  /\ pc[p] = "preflight"
  /\ \/ /\ mem[p].force \/ Conflicts(t) = {}
        /\ \A n \in NotRestored(t) : HasOld(t, n)
        /\ mem' = [mem EXCEPT ![p].todo = NotRestored(t), ![p].acts = Services(t)]
        /\ Go(p, "undo")
        /\ UNCHANGED <<lock, cur>>
     \/ Release(p) /\ End(p)
  /\ UNCHANGED <<live, rt, disk>>

UndoTarget(p) ==
  LET t == cur[p] IN
  /\ pc[p] = "undo"
  /\ \E n \in mem[p].todo :
       /\ First(n, mem[p].todo)
       /\ \/ /\ live' = Old(t, n)
             /\ mem' = [mem EXCEPT ![p].todo = @ \ {n}]
          \/ /\ live' \in {live, Old(t, n)}
             /\ mem' = [mem EXCEPT ![p].todo = @ \ {n}, ![p].failed = TRUE]
  /\ UNCHANGED <<rt, lock, disk, pc, cur>>

RecoveryAssumed(p) == "ROLLED_BACK"
RecoveryVerdict(p) == IF mem[p].failed THEN "ROLLBACK_FAILED" ELSE "ROLLED_BACK"

MarkRecovered(p) ==
  LET t == cur[p]
      verdict == RecoveryVerdict(p)
  IN
  /\ pc[p] = "undo" /\ mem[p].todo = {} /\ mem[p].acts = {}
  /\ \/ /\ meta' = [meta EXCEPT ![t] = verdict]
        /\ Go(p, "finish")
        /\ UNCHANGED <<lock, cur, mem>>
     \/ MetaWriteRaises(p, verdict)
  /\ UNCHANGED <<live, rt, expect, image, material, drift>>

-----------------------------------------------------------------------------
(* `pdg tx abort`: no lock; the state is read, then overwritten.           *)

ReadForAbort(p, t) ==
  /\ pc[p] = "idle" /\ "abort" \in Commands
  /\ Solo(p, t)
  /\ meta[t] \in Unstarted
  /\ Go(p, "abort")
  /\ cur' = [cur EXCEPT ![p] = t]
  /\ UNCHANGED <<live, rt, lock, disk, mem>>

WriteAbort(p) ==
  LET t == cur[p] IN
  /\ pc[p] = "abort"
  /\ meta' = [meta EXCEPT ![t] = "ABORTED"]
  /\ \E left \in SUBSET material[t] : material' = [material EXCEPT ![t] = left]
  /\ End(p)
  /\ UNCHANGED <<live, rt, lock, expect, image, drift>>

-----------------------------------------------------------------------------
(* The environment.                                                        *)

(* SIGKILL, power loss: memory is lost and the kernel releases the lock.   *)
Crash(p) ==
  /\ pc[p] # "idle"
  /\ Release(p)
  /\ End(p)
  /\ UNCHANGED <<live, rt, disk>>

(* Somebody edits a target without taking the lock.                        *)
Edit(n, v) ==
  /\ live[n] # v
  /\ live' = [live EXCEPT ![n] = v]
  /\ drift' = [t \in Tx |-> IF meta[t] \in NeedsRecovery \cup {"VALIDATED"}
                              THEN drift[t] \cup {n} ELSE drift[t]]
  /\ mem' = [p \in Proc |-> IF pc[p] = "undo"
                              THEN [mem[p] EXCEPT !.late = @ \cup {n}] ELSE mem[p]]
  /\ UNCHANGED <<rt, lock, meta, expect, image, material, pc, cur>>

Flap(u) ==
  /\ \E l \in Levels(u) \ {rt[u]} : rt' = [rt EXCEPT ![u] = l]
  /\ UNCHANGED <<live, lock, disk, pc, cur, mem>>

-----------------------------------------------------------------------------
(* What a process does once it has begun, and the commands that begin.     *)
Step(p) ==
  \/ \E n \in Target : ReadForUpdate(p, n) \/ Stage(p, n)
  \/ ApplyStaged(p) \/ AbortOwn(p) \/ CommitLock(p) \/ Admit(p)
  \/ Baseline(p) \/ Validate(p) \/ Refuse(p) \/ Escape(p)
  \/ SaveBefore(p) \/ StartApplying(p) \/ ApplyTarget(p)
  \/ DoAction(p) \/ StartObserving(p) \/ Observe(p) \/ MarkCommitted(p)
  \/ Finish(p) \/ StartRollback(p) \/ RestoreTarget(p) \/ RestoreUnit(p)
  \/ MarkRolledBack(p) \/ RecoverLock(p) \/ Preflight(p) \/ UndoTarget(p)
  \/ MarkRecovered(p) \/ WriteAbort(p)

Begin(p) ==
  \E t \in Tx :
    \/ New(p, t) \/ ApplyByHand(p, t) \/ ReadForAbort(p, t)
    \/ \E force \in BOOLEAN : ReadForRecover(p, t, force)

Environment ==
  \/ \E p \in Proc : Crash(p)
  \/ \E n \in Outside, v \in Value : Edit(n, v)
  \/ \E u \in Flaky : Flap(u)

Next == (\E p \in Proc : Begin(p) \/ Step(p)) \/ Environment

Spec == Init /\ [][Next]_vars

(* Every call a begun command makes returns: subprocesses run with a       *)
(* timeout, polling loops are bounded, the lock is never waited for.       *)
Fairness == \A p \in Proc : WF_vars(Step(p))

FairSpec == Spec /\ Fairness

-----------------------------------------------------------------------------
(* Properties.                                                             *)

Places == {"idle", "prep", "loaded", "refused", "admit", "baseline", "check",
           "image", "start", "apply", "observe", "commit", "finish", "rollback",
           "restore", "recover", "preflight", "undo", "abort"}

Memory == [seen : Partial(Target, Value), existed : SUBSET Target,
           todo : SUBSET Target, acts : SUBSET Unit,
           base : [svc : SUBSET Unit, probe : SUBSET Unit],
           failed : BOOLEAN, force : BOOLEAN, late : SUBSET Target]

(* Every variable has its type, and a process that is not idle works on a  *)
(* transaction.                                                            *)
TypeOK ==
  /\ live \in [Target -> Value]
  /\ rt \in [Unit -> Level]
  /\ lock \in Proc \cup {NoProc}
  /\ meta \in [Tx -> States]
  /\ expect \in [Tx -> Partial(Target, Value)]
  /\ image \in [Tx -> [files : Partial(Target, Value), active : SUBSET Unit]]
  /\ material \in [Tx -> SUBSET {"candidate", "before"}]
  /\ drift \in [Tx -> SUBSET Target]
  /\ pc \in [Proc -> Places]
  /\ cur \in [Proc -> Tx \cup {NoTx}]
  /\ mem \in [Proc -> Memory]
  /\ \A p \in Proc : pc[p] = "idle" <=> cur[p] = NoTx

(* At most one transaction has touched production without being settled:   *)
(* pending_recovery, read under the lock, keeps every other one out, also  *)
(* after crashes, failed rollbacks and recoveries.                         *)
SingleInFlight ==
  \A s, t \in Tx : meta[s] \in NeedsRecovery /\ meta[t] \in NeedsRecovery => s = t

(* Whenever meta.json says that a transaction needs recovery, its          *)
(* before-image is on disk and covers what it staged, and each target that *)
(* nobody edited from outside holds its old content or the transaction's   *)
(* own: `pdg tx recover` can undo it without --force.                      *)
Recoverable ==
  \A t \in Tx : meta[t] \in NeedsRecovery =>
    /\ "before" \in material[t]
    /\ DOMAIN image[t].files = Staged(t)
    /\ \A n \in Staged(t) \ drift[t] : live[n] \in {image[t].files[n], Goal[t].data[n]}

Successors(s) ==
  CASE s = "none" -> {"PREPARING"}
    [] s \in NeedsRecovery -> Allowed[s] \cup {"ROLLED_BACK", "ROLLBACK_FAILED"}
    [] s \in GcTerminal -> {"gone"}
    [] OTHER -> Allowed[s]

(* The recorded state only moves along _ALLOWED; recover may settle a       *)
(* transaction that needs it, and only finished ones are collected.  In    *)
(* particular nothing rewrites a final state, and nothing becomes ABORTED  *)
(* after production was touched.                                           *)
LegalStep ==
  \A t \in Tx : meta'[t] = meta[t] \/ meta'[t] \in Successors(meta[t])
LegalTransitions == [][LegalStep]_vars

(* A transaction that writes its targets replaces exactly what its         *)
(* candidate was computed from, unless somebody edited the file without    *)
(* the lock after the check: no update of another transaction is lost.     *)
NoLostUpdate ==
  [][\A p \in Proc : pc[p] = "apply" =>
       \A n \in mem[p].todo \ drift[cur[p]] :
         live'[n] # live[n] => live[n] = expect[cur[p]][n]]_vars

(* recover without --force overwrites only what the transaction itself     *)
(* wrote: an operator's edit that its preflight could see is kept.         *)
RecoverKeepsEdits ==
  [][\A p \in Proc : pc[p] = "undo" /\ ~mem[p].force =>
       \A n \in mem[p].todo \ mem[p].late :
         live'[n] # live[n] => live[n] = Goal[cur[p]].data[n]]_vars

Becomes(t, s) == meta[t] # s /\ meta'[t] = s

(* When a transaction is recorded as COMMITTED every target it staged, and  *)
(* nobody edited since its check, has the staged content.                  *)
CommittedAsPlanned ==
  [][\A t \in Tx : Becomes(t, "COMMITTED") =>
       \A n \in Staged(t) \ drift[t] : live[n] = Goal[t].data[n]]_vars

(* When a transaction is recorded as ROLLED_BACK, by its own process or by  *)
(* recover, its targets have their old contents and its units run exactly  *)
(* if they ran before.                                                     *)
RolledBackRestores ==
  [][\A t \in Tx : Becomes(t, "ROLLED_BACK") =>
       /\ \A n \in Staged(t) \ drift[t] : live[n] = image[t].files[n]
       /\ \A u \in Services(t) \ Flaky :
            Active(rt[u]) <=> u \in image[t].active]_vars

(* A commit, also of a repair transaction, is recorded only if each gate   *)
(* that was good in the baseline is good, and each unit with an explicit   *)
(* action is in the state the action asks for.                             *)
CommittedHealthy ==
  [][\A p \in Proc : pc[p] = "commit" /\ Becomes(cur[p], "COMMITTED") =>
       \A u \in Unit \ Flaky :
         /\ u \in mem[p].base.svc => Active(rt[u])
         /\ u \in mem[p].base.probe => rt[u] = "ok"
         /\ Goal[cur[p]].act[u] \in {"start", "restart"} => Active(rt[u])
         /\ Goal[cur[p]].act[u] = "stop" => rt[u] = "inactive"]_vars

(* A finished transaction stays what it was recorded as ("the matter is    *)
(* settled", GC_TERMINAL), until its directory is collected.               *)
FinalIsFinal ==
  [][\A t \in Tx : meta[t] \in GcTerminal => meta'[t] \in {meta[t], "gone"}]_vars

(* ABORTED means "ended before production was touched": a transaction that *)
(* left a target changed is never recorded as ABORTED.                     *)
AbortedTouchedNothing ==
  [][\A t \in Tx : Becomes(t, "ABORTED") /\ meta[t] \in NeedsRecovery =>
       NotRestored(t) \subseteq drift[t]]_vars

(* Whoever takes the lock gives it back: commit, rollback and recover end. *)
LockIsFreed == \A p \in Proc : []<>(lock # p)

-----------------------------------------------------------------------------
(* The promise of AtomicConfig.  An unsettled transaction's targets count  *)
(* with their before-image; without outside edits the rest is on disk.     *)
Logical == [n \in Target |->
  IF \E t \in Tx : meta[t] \in NeedsRecovery /\ n \in DOMAIN image[t].files
    THEN LET t == CHOOSE x \in Tx : /\ meta[x] \in NeedsRecovery
                                    /\ n \in DOMAIN image[x].files
         IN image[t].files[n]
    ELSE live[n]]

Status == [t \in Tx |->
  CASE meta[t] = "none" -> "none"
    [] meta[t] \in Unstarted \cup NeedsRecovery -> "open"
    [] OTHER -> "closed"]

Promise == INSTANCE AtomicConfig WITH
  conf <- Logical, status <- Status, basis <- expect,
  Writes <- [t \in Tx |-> Goal[t].data]

(* Every step of the core, crashes, failed rollbacks and recoveries        *)
(* included, is one of the promise or changes nothing it talks about: a    *)
(* configuration change is all or nothing, and based on what was read.     *)
AtomicChange == Promise!Spec
=============================================================================
