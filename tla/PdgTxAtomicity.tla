--------------------------- MODULE PdgTxAtomicity ---------------------------
(***************************************************************************)
(* What PdgTx promises about contents and services, for every value of its *)
(* constants: no update is lost, recover keeps edits, a commit does what   *)
(* was planned, a rollback restores, and the core implements AtomicConfig. *)
(***************************************************************************)
EXTENDS PdgTxProofs

(* Between the precondition check and the commit, a file that nobody edited *)
(* has what the candidate was computed from until it is written; what is   *)
(* only watched keeps it all the time, and the before-image has it too.    *)
BasisAt(p) ==
  LET t == cur[p] IN
  /\ pc[p] \in {"image", "start"} =>
       \A n \in DOMAIN expect[t] \ drift[t] : live[n] = expect[t][n]
  /\ pc[p] = "apply" =>
       \A n \in DOMAIN expect[t] \ drift[t] :
         n \in mem[p].todo \/ n \notin Staged(t) => live[n] = expect[t][n]
  /\ pc[p] \in {"observe", "commit"} =>
       \A n \in DOMAIN expect[t] \ drift[t] :
         n \notin Staged(t) => live[n] = expect[t][n]
  /\ pc[p] \in {"start", "apply", "observe", "commit"} =>
       \A n \in Staged(t) \ drift[t] : image[t].files[n] = expect[t][n]

(* What recover has looked at or put back.                                 *)
UndoneAt(p) ==
  LET t == cur[p] IN
  pc[p] = "undo" =>
    /\ ~mem[p].failed =>
         \A n \in (Staged(t) \ mem[p].todo) \ drift[t] : live[n] = image[t].files[n]
    /\ ~mem[p].force =>
         \A n \in mem[p].todo \ mem[p].late : live[n] = Goal[t].data[n]

(* What is known of the units: those a rollback or recover has dealt with, *)
(* and all of them once the observation has passed.                        *)
UnitsAt(p) ==
  LET t == cur[p] IN
  /\ pc[p] \in {"restore", "undo"} /\ ~mem[p].failed =>
       \A u \in (Services(t) \ mem[p].acts) \ Flaky :
         Restored(u \in image[t].active, rt[u])
  /\ pc[p] = "commit" => \A u \in Unit \ Flaky :
       /\ u \in mem[p].base.svc => Active(rt[u])
       /\ u \in mem[p].base.probe => rt[u] = "ok"
       /\ Goal[t].act[u] \in {"start", "restart"} => Active(rt[u])
       /\ Goal[t].act[u] = "stop" => rt[u] = "inactive"

Knowledge == \A p \in Proc : BasisAt(p) /\ UndoneAt(p) /\ UnitsAt(p)

-----------------------------------------------------------------------------
(* Deletions.                                                              *)
Deletes(t, n) == n \in DOMAIN Goal[t].data /\ Goal[t].data[n] = Absent

(* A file that a transaction deletes was there at the start, and is deleted *)
(* by no other transaction, deriver or editor.                             *)
DeletedOnce ==
  \A t \in Tx, n \in Target : Deletes(t, n) =>
    /\ n \notin Goal[t].derived /\ n \notin Outside
    /\ \A f \in LiveAtStart : f[n] # Absent
    /\ \A s \in Tx \ {t} : ~Deletes(s, n)

(* Until its deleter touches production the file exists, now and in every  *)
(* before-image; and who will delete it knows.                             *)
StillThere ==
  \A t \in Tx, n \in Target : Deletes(t, n) /\ meta[t] \in Unstarted \cup {"none"} =>
    /\ live[n] # Absent
    /\ \A s \in Tx : n \in DOMAIN image[s].files => image[s].files[n] # Absent

DeleterKnows(p) ==
  pc[p] \in {"prep", "loaded", "start", "apply"} \cup Locked =>
    \A n \in Staged(cur[p]) : Deletes(cur[p], n) => n \in mem[p].existed

Unread == \A t \in Tx : meta[t] = "none" => DOMAIN expect[t] = {}

Deletions == Unread /\ StillThere /\ \A p \in Proc : DeleterKnows(p)

(* What is written has the planned content.                                *)
WrittenAt(p) ==
  LET t == cur[p] IN
  pc[p] \in {"apply", "observe", "commit"} =>
    \A n \in Staged(t) \ drift[t] :
      pc[p] # "apply" \/ n \notin mem[p].todo => live[n] = Goal[t].data[n]

Planned == \A p \in Proc : WrittenAt(p)

-----------------------------------------------------------------------------
(* A step of one process.                                                  *)

(* It leaves alone what another process remembers and what belongs to the  *)
(* other's transaction, and the targets and units if the other has the lock. *)
LEMMA Bystander ==
  ASSUME TypeInv, NEW p \in Proc, NEW q \in Proc, q # p, Begin(p) \/ Step(p)
  PROVE  /\ pc'[q] = pc[q] /\ cur'[q] = cur[q] /\ mem'[q] = mem[q]
         /\ pc[q] # "idle" => /\ expect'[cur[q]] = expect[cur[q]]
                             /\ image'[cur[q]] = image[cur[q]]
                             /\ drift'[cur[q]] = drift[cur[q]]
         /\ pc[q] \in Critical => live' = live /\ rt' = rt
<1> DEFINE Kept == /\ pc'[q] = pc[q] /\ cur'[q] = cur[q] /\ mem'[q] = mem[q]
                   /\ pc[q] # "idle" => /\ expect'[cur[q]] = expect[cur[q]]
                                       /\ image'[cur[q]] = image[cur[q]]
                                       /\ drift'[cur[q]] = drift[cur[q]]
                   /\ pc[q] \in Critical => live' = live /\ rt' = rt
<1> SUFFICES Kept
  OBVIOUS
<1>0. /\ pc \in [Proc -> Places] /\ cur \in [Proc -> Tx \cup {NoTx}]
      /\ mem \in [Proc -> Memory]
      /\ DOMAIN expect = Tx /\ DOMAIN image = Tx /\ DOMAIN drift = Tx
  BY DEF TypeInv, IInv, ControlType, DataType
<1>1. pc[q] # "idle" => cur[q] \in Tx /\ cur[q] # cur[p]
  BY DEF TypeInv, IInv, ControlType, OneHandPerTx
<1>2. pc[q] \in Critical => pc[p] \notin Critical
  BY DEF TypeInv, IInv, HolderIsCritical
<1> USE DEF disk, Go, End, Critical, Locked
<1>3. ASSUME NEW t \in Tx, New(p, t) \/ ApplyByHand(p, t) \/ ReadForAbort(p, t)
      PROVE  Kept
  BY <1>0, <1>1, <1>2, <1>3 DEF New, ApplyByHand, Rebuild, ReadForAbort
<1>4. ASSUME NEW t \in Tx, NEW force \in BOOLEAN, ReadForRecover(p, t, force)
      PROVE  Kept
  BY <1>0, <1>1, <1>2, <1>4 DEF ReadForRecover
<1>5. ASSUME NEW n \in Target, ReadForUpdate(p, n) \/ Stage(p, n)
      PROVE  Kept
  BY <1>0, <1>1, <1>2, <1>5 DEF ReadForUpdate, Stage
<1>6. CASE ApplyStaged(p)
  BY <1>0, <1>1, <1>2, <1>6 DEF ApplyStaged, Rebuild
<1>7. CASE AbortOwn(p)
  BY <1>0, <1>1, <1>2, <1>7 DEF AbortOwn
<1>8. CASE CommitLock(p)
  BY <1>0, <1>1, <1>2, <1>8 DEF CommitLock
<1>9. CASE Admit(p)
  BY <1>0, <1>1, <1>2, <1>9 DEF Admit
<1>10. CASE Baseline(p)
  BY <1>0, <1>1, <1>2, <1>10 DEF Baseline
<1>11. CASE Validate(p)
  BY <1>0, <1>1, <1>2, <1>11 DEF Validate
<1>12. CASE Refuse(p)
  BY <1>0, <1>1, <1>2, <1>12 DEF Refuse
<1>13. CASE Escape(p)
  BY <1>0, <1>1, <1>2, <1>13 DEF Escape
<1>14. CASE SaveBefore(p)
  BY <1>0, <1>1, <1>2, <1>14 DEF SaveBefore
<1>15. CASE StartApplying(p)
  BY <1>0, <1>1, <1>2, <1>15 DEF StartApplying, MetaWriteRaises
<1>16. CASE ApplyTarget(p)
  BY <1>0, <1>1, <1>2, <1>16 DEF ApplyTarget
<1>17. CASE DoAction(p)
  BY <1>0, <1>1, <1>2, <1>17 DEF DoAction
<1>18. CASE StartObserving(p)
  BY <1>0, <1>1, <1>2, <1>18 DEF StartObserving
<1>19. CASE Observe(p)
  BY <1>0, <1>1, <1>2, <1>19 DEF Observe
<1>20. CASE MarkCommitted(p)
  BY <1>0, <1>1, <1>2, <1>20 DEF MarkCommitted, MetaWriteRaises
<1>21. CASE Finish(p)
  BY <1>0, <1>1, <1>2, <1>21 DEF Finish
<1>22. CASE StartRollback(p)
  BY <1>0, <1>1, <1>2, <1>22 DEF StartRollback, MetaWriteRaises
<1>23. CASE RestoreTarget(p)
  BY <1>0, <1>1, <1>2, <1>23 DEF RestoreTarget
<1>24. CASE RestoreUnit(p)
  BY <1>0, <1>1, <1>2, <1>24 DEF RestoreUnit
<1>25. CASE MarkRolledBack(p)
  BY <1>0, <1>1, <1>2, <1>25 DEF MarkRolledBack, MetaWriteRaises
<1>26. CASE RecoverLock(p)
  BY <1>0, <1>1, <1>2, <1>26 DEF RecoverLock
<1>27. CASE Preflight(p)
  BY <1>0, <1>1, <1>2, <1>27 DEF Preflight
<1>28. CASE UndoTarget(p)
  BY <1>0, <1>1, <1>2, <1>28 DEF UndoTarget
<1>29. CASE MarkRecovered(p)
  BY <1>0, <1>1, <1>2, <1>29 DEF MarkRecovered, MetaWriteRaises
<1>30. CASE WriteAbort(p)
  BY <1>0, <1>1, <1>2, <1>30 DEF WriteAbort
<1> HIDE DEF Kept
<1> QED
  BY <1>3, <1>4, <1>5, <1>6, <1>7, <1>8, <1>9, <1>10, <1>11, <1>12, <1>13, <1>14, <1>15,
     <1>16, <1>17, <1>18, <1>19, <1>20, <1>21, <1>22, <1>23, <1>24, <1>25, <1>26, <1>27,
     <1>28, <1>29, <1>30 DEF Begin, Step

(* Where a process arrives, and by which step.                             *)
LEMMA Arrivals ==
  ASSUME IInv, NEW p \in Proc, Begin(p) \/ Step(p)
  PROVE  /\ pc'[p] = "prep" => \/ \E t \in Tx : New(p, t)
                               \/ \E n \in Target : ReadForUpdate(p, n) \/ Stage(p, n)
         /\ pc'[p] = "loaded" => ApplyStaged(p) \/ \E t \in Tx : ApplyByHand(p, t)
         /\ pc'[p] = "admit" => CommitLock(p)
         /\ pc'[p] = "baseline" => Admit(p)
         /\ pc'[p] = "check" => Baseline(p)
         /\ pc'[p] = "image" => Validate(p)
         /\ pc'[p] = "start" => SaveBefore(p)
         /\ pc'[p] = "apply" => StartApplying(p) \/ ApplyTarget(p) \/ DoAction(p)
         /\ pc'[p] = "observe" => StartObserving(p)
         /\ pc'[p] = "commit" => Observe(p)
         /\ pc'[p] = "restore" => StartRollback(p) \/ RestoreTarget(p) \/ RestoreUnit(p)
         /\ pc'[p] = "undo" => Preflight(p) \/ UndoTarget(p) \/ RestoreUnit(p)
<1>0. pc \in [Proc -> Places]
  BY DEF IInv, ControlType
<1> USE DEF disk, Go, End
<1>1. ASSUME NEW t \in Tx, New(p, t)
      PROVE  pc'[p] = "prep"
  BY <1>0, <1>1 DEF New
<1>2. ASSUME NEW t \in Tx, ApplyByHand(p, t)
      PROVE  pc'[p] \in {"loaded", "refused"}
  BY <1>0, <1>2 DEF ApplyByHand, Rebuild
<1>3. ASSUME NEW t \in Tx, ReadForAbort(p, t)
      PROVE  pc'[p] = "abort"
  BY <1>0, <1>3 DEF ReadForAbort
<1>4. ASSUME NEW t \in Tx, NEW force \in BOOLEAN, ReadForRecover(p, t, force)
      PROVE  pc'[p] = "recover"
  BY <1>0, <1>4 DEF ReadForRecover
<1>5. ASSUME NEW n \in Target, ReadForUpdate(p, n) \/ Stage(p, n)
      PROVE  pc'[p] = "prep"
  BY <1>0, <1>5 DEF ReadForUpdate, Stage
<1>6. ApplyStaged(p) => pc'[p] \in {"loaded", "refused"}
  BY <1>0 DEF ApplyStaged, Rebuild
<1>7. AbortOwn(p) => pc'[p] = "idle"
  BY <1>0 DEF AbortOwn
<1>8. CommitLock(p) => pc'[p] \in {"admit", "refused"}
  BY <1>0 DEF CommitLock
<1>9. Admit(p) => pc'[p] = "baseline"
  BY <1>0 DEF Admit
<1>10. Baseline(p) => pc'[p] = "check"
  BY <1>0 DEF Baseline
<1>11. Validate(p) => pc'[p] = "image"
  BY <1>0 DEF Validate
<1>12. Refuse(p) => pc'[p] = "refused"
  BY <1>0 DEF Refuse
<1>13. Escape(p) => pc'[p] \in {"refused", "idle"}
  BY <1>0 DEF Escape
<1>14. SaveBefore(p) => pc'[p] = "start"
  BY <1>0 DEF SaveBefore
<1>15. StartApplying(p) => pc'[p] \in {"apply", "idle"}
  BY <1>0 DEF StartApplying, MetaWriteRaises
<1>16. ApplyTarget(p) => pc'[p] \in {"apply", "rollback"}
  BY <1>0 DEF ApplyTarget
<1>17. DoAction(p) => pc'[p] \in {"apply", "rollback"}
  BY <1>0 DEF DoAction
<1>18. StartObserving(p) => pc'[p] \in {"observe", "rollback"}
  BY <1>0 DEF StartObserving
<1>19. Observe(p) => pc'[p] \in {"commit", "rollback"}
  BY <1>0 DEF Observe
<1>20. MarkCommitted(p) => pc'[p] \in {"finish", "idle"}
  BY <1>0 DEF MarkCommitted, MetaWriteRaises
<1>21. Finish(p) => pc'[p] = "idle"
  BY <1>0 DEF Finish
<1>22. StartRollback(p) => pc'[p] \in {"restore", "idle"}
  BY <1>0 DEF StartRollback, MetaWriteRaises
<1>23. RestoreTarget(p) => pc'[p] = "restore"
  BY <1>0 DEF RestoreTarget
<1>24. RestoreUnit(p) => pc'[p] \in {"restore", "undo"}
  BY <1>0 DEF RestoreUnit
<1>25. MarkRolledBack(p) => pc'[p] \in {"finish", "idle"}
  BY <1>0 DEF MarkRolledBack, MetaWriteRaises
<1>26. RecoverLock(p) => pc'[p] \in {"preflight", "idle"}
  BY <1>0 DEF RecoverLock
<1>27. Preflight(p) => pc'[p] \in {"undo", "idle"}
  BY <1>0 DEF Preflight
<1>28. UndoTarget(p) => pc'[p] = "undo"
  BY <1>0 DEF UndoTarget
<1>29. MarkRecovered(p) => pc'[p] \in {"finish", "idle"}
  BY <1>0 DEF MarkRecovered, MetaWriteRaises
<1>30. WriteAbort(p) => pc'[p] = "idle"
  BY <1>0 DEF WriteAbort
<1> HIDE DEF disk, Go, End
<1> QED
  BY <1>1, <1>2, <1>3, <1>4, <1>5, <1>6, <1>7, <1>8, <1>9, <1>10, <1>11,
     <1>12, <1>13, <1>14, <1>15, <1>16, <1>17, <1>18, <1>19, <1>20, <1>21,
     <1>22, <1>23, <1>24, <1>25, <1>26, <1>27, <1>28, <1>29, <1>30 DEF Begin, Step

-----------------------------------------------------------------------------
(* The files a candidate was computed from stay what they are while the     *)
(* transaction has the lock, except for its own writes.                    *)
LEMMA StepBasis ==
  ASSUME TypeInv, Undoable, Knowledge, [Next]_vars, NEW q \in Proc
  PROVE  BasisAt(q)'
<1> USE DEF disk, Go, End, Critical, Locked, Staged
<1>0. /\ pc \in [Proc -> Places] /\ cur \in [Proc -> Tx \cup {NoTx}]
      /\ live \in [Target -> Value] /\ mem \in [Proc -> Memory]
      /\ DOMAIN expect = Tx /\ DOMAIN image = Tx
      /\ drift \in [Tx -> SUBSET Target]
      /\ pc[q] # "idle" => cur[q] \in Tx
  BY DEF TypeInv, IInv, ControlType, DataType
<1>1. BasisAt(q)
  BY DEF Knowledge
<1>2. ASSUME NEW p \in Proc, p # q, Begin(p) \/ Step(p)
      PROVE  BasisAt(q)'
  BY <1>1, <1>2, Bystander DEF BasisAt
<1>3. ASSUME Begin(q) \/ Step(q)
      PROVE  BasisAt(q)'
  <2>1. CASE Validate(q)
    BY <1>0, <2>1 DEF Validate, Unchanged, BasisAt
  <2>2. CASE SaveBefore(q)
    BY <1>0, <1>1, <2>2 DEF SaveBefore, BasisAt
  <2>3. CASE StartApplying(q)
    BY <1>0, <1>1, <2>3 DEF StartApplying, MetaWriteRaises, BasisAt, Memory
  <2>4. CASE ApplyTarget(q)
    <3>1. DOMAIN expect[cur[q]] \subseteq Target
      <4>1. expect[cur[q]] \in Partial(Target, Value)
        BY <1>0, <2>4 DEF ApplyTarget, TypeInv, DataType
      <4> QED
        BY <4>1, PartialIsFunction
    <3>2. mem[q].todo \subseteq Staged(cur[q])
      BY <2>4 DEF ApplyTarget, TypeInv, Coverage
    <3>3. CASE pc' = pc
      <4>1. PICK n \in mem[q].todo :
              /\ live' = [live EXCEPT ![n] = Written(q, n)]
              /\ mem' = [mem EXCEPT ![q].todo = @ \ {n}]
        BY <1>0, <2>4, <3>3 DEF ApplyTarget
      <4>2. mem'[q].todo = mem[q].todo \ {n}
        BY <1>0, <4>1 DEF Memory
      <4>3. \A m \in Target \ {n} : live'[m] = live[m]
        BY <1>0, <4>1
      <4> QED
        BY <1>0, <1>1, <2>4, <3>1, <3>2, <4>1, <4>2, <4>3 DEF ApplyTarget, BasisAt
    <3>4. CASE pc' # pc
      BY <1>0, <2>4, <3>4 DEF ApplyTarget, BasisAt
    <3> QED
      BY <3>3, <3>4
  <2>5. CASE DoAction(q)
    BY <1>0, <1>1, <2>5, SMTT(30) DEF DoAction, BasisAt, Memory
  <2>6. CASE StartObserving(q)
    BY <1>0, <1>1, <2>6 DEF StartObserving, BasisAt
  <2>7. CASE Observe(q)
    BY <1>0, <1>1, <2>7 DEF Observe, BasisAt
  <2>8. CASE pc'[q] \notin {"image", "start", "apply", "observe", "commit"}
    BY <2>8 DEF BasisAt
  <2> QED
    BY <1>3, <2>1, <2>2, <2>3, <2>4, <2>5, <2>6, <2>7, <2>8, Arrivals DEF TypeInv
<1>4. ASSUME NEW p \in Proc, Crash(p)
      PROVE  BasisAt(q)'
  BY <1>0, <1>1, <1>4 DEF Crash, BasisAt
<1>5. ASSUME NEW n \in Outside, NEW v \in Value, Edit(n, v)
      PROVE  BasisAt(q)'
  <2>1. pc[q] \in {"image", "start", "apply", "observe", "commit"} =>
          meta[cur[q]] \in NeedsRecovery \cup {"VALIDATED"}
    BY DEF TypeInv, IInv, RecordAgrees, AgreesAt, NeedsRecovery
  <2> QED
    BY <1>0, <1>1, <1>5, <2>1 DEF Edit, BasisAt, Memory
<1>6. ASSUME NEW u \in Flaky, Flap(u)
      PROVE  BasisAt(q)'
  BY <1>1, <1>6 DEF Flap, BasisAt
<1>7. CASE UNCHANGED vars
  BY <1>1, <1>7 DEF vars, BasisAt
<1> QED
  BY <1>2, <1>3, <1>4, <1>5, <1>6, <1>7 DEF Next, Environment

(* What recover has found or put back stays so until it ends.              *)
LEMMA StepUndone ==
  ASSUME TypeInv, Knowledge, [Next]_vars, NEW q \in Proc
  PROVE  UndoneAt(q)'
<1> USE DEF disk, Go, End, Critical, Locked, Staged
<1>0. /\ pc \in [Proc -> Places] /\ cur \in [Proc -> Tx \cup {NoTx}]
      /\ live \in [Target -> Value] /\ mem \in [Proc -> Memory]
      /\ drift \in [Tx -> SUBSET Target]
      /\ pc[q] # "idle" => cur[q] \in Tx
  BY DEF TypeInv, IInv, ControlType, DataType
<1>1. UndoneAt(q)
  BY DEF Knowledge
<1>2. ASSUME NEW p \in Proc, p # q, Begin(p) \/ Step(p)
      PROVE  UndoneAt(q)'
  BY <1>1, <1>2, Bystander DEF UndoneAt
<1>3. ASSUME Begin(q) \/ Step(q)
      PROVE  UndoneAt(q)'
  <2>1. CASE Preflight(q)
    <3>1. CASE pc'[q] = "undo"
      <4>1. /\ mem'[q].todo = NotRestored(cur[q])
            /\ mem'[q].force = mem[q].force
            /\ mem[q].force \/ Conflicts(cur[q]) = {}
        BY <1>0, <2>1, <3>1 DEF Preflight, Memory
      <4> QED
        BY <1>0, <2>1, <3>1, <4>1 DEF Preflight, NotRestored, Conflicts, UndoneAt
    <3>2. CASE pc'[q] # "undo"
      BY <3>2 DEF UndoneAt
    <3> QED
      BY <3>1, <3>2
  <2>2. CASE UndoTarget(q)
    <3>1. mem[q].todo \subseteq Staged(cur[q]) /\ Staged(cur[q]) \subseteq Target
      BY <1>0, <2>2, DerivedSets DEF UndoTarget, TypeInv, Coverage
    <3>2. PICK n \in mem[q].todo :
            /\ \/ /\ mem' = [mem EXCEPT ![q].todo = @ \ {n}]
                  /\ live' = Old(cur[q], n)
               \/ mem' = [mem EXCEPT ![q].todo = @ \ {n}, ![q].failed = TRUE]
            /\ live' \in {live, Old(cur[q], n)}
      BY <2>2 DEF UndoTarget
    <3>3. /\ mem'[q].todo = mem[q].todo \ {n}
          /\ mem'[q].failed \/ (live' = Old(cur[q], n) /\ mem'[q].failed = mem[q].failed)
          /\ mem'[q].force = mem[q].force /\ mem'[q].late = mem[q].late
      BY <1>0, <3>2 DEF Memory
    <3>4. /\ \A m \in Target \ {n} : live'[m] = live[m]
          /\ live' = Old(cur[q], n) => live'[n] = image[cur[q]].files[n]
      BY <1>0, <3>1, <3>2 DEF Old
    <3> QED
      BY <1>0, <1>1, <2>2, <3>1, <3>3, <3>4 DEF UndoTarget, UndoneAt
  <2>3. CASE RestoreUnit(q)
    <3>1. \E u \in mem[q].acts, bad \in BOOLEAN :
            mem' = [mem EXCEPT ![q].acts = @ \ {u}, ![q].failed = @ \/ bad]
      BY <2>3 DEF RestoreUnit
    <3>2. /\ mem'[q].todo = mem[q].todo /\ mem'[q].failed \in {TRUE, mem[q].failed}
          /\ mem'[q].force = mem[q].force /\ mem'[q].late = mem[q].late
      BY <1>0, <3>1, ZenonT(60) DEF Memory
    <3>3. UNCHANGED <<live, disk, pc, cur>>
      BY <2>3 DEF RestoreUnit
    <3> QED
      BY <1>0, <1>1, <3>2, <3>3 DEF UndoneAt
  <2>4. CASE pc'[q] # "undo"
    BY <2>4 DEF UndoneAt
  <2> QED
    BY <1>3, <2>1, <2>2, <2>3, <2>4, Arrivals DEF TypeInv
<1>4. ASSUME NEW p \in Proc, Crash(p)
      PROVE  UndoneAt(q)'
  BY <1>0, <1>1, <1>4 DEF Crash, UndoneAt
<1>5. ASSUME NEW n \in Outside, NEW v \in Value, Edit(n, v)
      PROVE  UndoneAt(q)'
  <2>1. pc[q] = "undo" => meta[cur[q]] \in NeedsRecovery
    BY DEF TypeInv, IInv, RecordAgrees, AgreesAt
  <2>2. /\ mem'[q].todo = mem[q].todo /\ mem'[q].failed = mem[q].failed
        /\ mem'[q].force = mem[q].force
        /\ pc[q] = "undo" => mem'[q].late = mem[q].late \cup {n}
    BY <1>0, <1>5 DEF Edit, Memory
  <2> QED
    BY <1>0, <1>1, <1>5, <2>1, <2>2 DEF Edit, UndoneAt
<1>6. ASSUME NEW u \in Flaky, Flap(u)
      PROVE  UndoneAt(q)'
  BY <1>1, <1>6 DEF Flap, UndoneAt
<1>7. CASE UNCHANGED vars
  BY <1>1, <1>7 DEF vars, UndoneAt
<1> QED
  BY <1>2, <1>3, <1>4, <1>5, <1>6, <1>7 DEF Next, Environment

(* A unit stays where a rollback, a recovery or an observation found it,    *)
(* unless it changes by itself.                                            *)
LEMMA StepUnits ==
  ASSUME TypeInv, Knowledge, [Next]_vars, NEW q \in Proc
  PROVE  UnitsAt(q)'
<1> USE DEF disk, Go, End, Critical, Locked, Staged, Services
<1>0. /\ pc \in [Proc -> Places] /\ cur \in [Proc -> Tx \cup {NoTx}]
      /\ rt \in [Unit -> Level] /\ mem \in [Proc -> Memory]
      /\ pc[q] # "idle" => cur[q] \in Tx
  BY DEF TypeInv, IInv, ControlType, DataType
<1>1. UnitsAt(q)
  BY DEF Knowledge
<1>2. ASSUME NEW p \in Proc, p # q, Begin(p) \/ Step(p)
      PROVE  UnitsAt(q)'
  BY <1>1, <1>2, Bystander DEF UnitsAt, Acting
<1>3. ASSUME Begin(q) \/ Step(q)
      PROVE  UnitsAt(q)'
  <2>1. CASE StartRollback(q)
    BY <1>0, <2>1 DEF StartRollback, MetaWriteRaises, UnitsAt, Memory, Acting
  <2>2. CASE RestoreTarget(q)
    BY <1>0, <1>1, <2>2 DEF RestoreTarget, UnitsAt, Memory, Acting
  <2>3. CASE RestoreUnit(q)
    <3>0. PICK u \in mem[q].acts, bad \in BOOLEAN : \E l :
            /\ ~bad => Restored(u \in image[cur[q]].active, l)
            /\ rt' = [rt EXCEPT ![u] = l]
            /\ mem' = [mem EXCEPT ![q].acts = @ \ {u}, ![q].failed = @ \/ bad]
      BY <2>3 DEF RestoreUnit
    <3>1. PICK l :
            /\ ~bad => Restored(u \in image[cur[q]].active, l)
            /\ rt' = [rt EXCEPT ![u] = l]
            /\ mem' = [mem EXCEPT ![q].acts = @ \ {u}, ![q].failed = @ \/ bad]
      BY <3>0
    <3>2. /\ mem'[q].acts = mem[q].acts \ {u}
          /\ ~mem'[q].failed => ~mem[q].failed /\ ~bad
          /\ mem'[q].base = mem[q].base
      BY <1>0, <3>1 DEF Memory
    <3>3. UNCHANGED <<disk, pc, cur>>
      BY <2>3 DEF RestoreUnit
    <3>4. \A w \in Unit : rt'[w] = IF w = u THEN l ELSE rt[w]
      BY <1>0, <3>1
    <3>5. Services(cur[q]) \subseteq Unit
      BY <1>0, <2>3, DerivedSets DEF RestoreUnit
    <3>6. pc[q] \in {"restore", "undo"}
      BY <2>3 DEF RestoreUnit
    <3> HIDE DEF Services
    <3>7. Services(cur[q])' = Services(cur[q])
      BY <3>3 DEF Services, Acting
    <3> QED
      BY <1>0, <1>1, <3>1, <3>2, <3>3, <3>4, <3>5, <3>6, <3>7 DEF UnitsAt
  <2>4. CASE Preflight(q)
    BY <1>0, <2>4 DEF Preflight, UnitsAt, Memory, Acting
  <2>5. CASE UndoTarget(q)
    BY <1>0, <1>1, <2>5 DEF UndoTarget, UnitsAt, Memory, Acting
  <2>6. CASE Observe(q)
    <3>1. CASE pc'[q] = "commit"
      <4>1. Regressed(q) = {} /\ UNCHANGED <<rt, disk, cur, mem>>
        BY <1>0, <2>6, <3>1 DEF Observe
      <4>2. /\ mem[q].base.svc \subseteq GoodSvc(cur[q])
            /\ mem[q].base.probe \subseteq GoodProbe(cur[q])
            /\ Missed(q) = {}
        BY <4>1 DEF Regressed
      <4>3. \A u \in Unit : Goal[cur[q]].act[u] # "none" => u \in Services(cur[q])
        BY DEF Acting
      <4>4. \A u \in Unit :
              /\ Goal[cur[q]].act[u] \in {"start", "restart"} => Active(rt[u])
              /\ Goal[cur[q]].act[u] = "stop" => rt[u] = "inactive"
        BY <4>2, <4>3 DEF Missed
      <4> QED
        BY <3>1, <4>1, <4>2, <4>4 DEF UnitsAt, GoodSvc, GoodProbe
    <3>2. CASE pc'[q] # "commit"
      BY <1>0, <2>6, <3>2 DEF Observe, UnitsAt
    <3> QED
      BY <3>1, <3>2
  <2>7. CASE pc'[q] \notin {"restore", "undo", "commit"}
    BY <2>7 DEF UnitsAt
  <2> QED
    BY <1>3, <2>1, <2>2, <2>3, <2>4, <2>5, <2>6, <2>7, Arrivals DEF TypeInv
<1>4. ASSUME NEW p \in Proc, Crash(p)
      PROVE  UnitsAt(q)'
  BY <1>0, <1>1, <1>4 DEF Crash, UnitsAt, Acting
<1>5. ASSUME NEW n \in Outside, NEW v \in Value, Edit(n, v)
      PROVE  UnitsAt(q)'
  <2>1. /\ mem'[q].acts = mem[q].acts /\ mem'[q].failed = mem[q].failed
        /\ mem'[q].base = mem[q].base
    BY <1>0, <1>5 DEF Edit, Memory
  <2> QED
    BY <1>1, <1>5, <2>1 DEF Edit, UnitsAt, Acting
<1>6. ASSUME NEW u \in Flaky, Flap(u)
      PROVE  UnitsAt(q)'
  BY <1>0, <1>1, <1>6 DEF Flap, UnitsAt, Acting
<1>7. CASE UNCHANGED vars
  BY <1>1, <1>7 DEF vars, UnitsAt, Acting
<1> QED
  BY <1>2, <1>3, <1>4, <1>5, <1>6, <1>7 DEF Next, Environment

-----------------------------------------------------------------------------
(* Who writes targets, before-images and expectations.                     *)
Writers ==
  /\ live' # live => \/ \E p \in Proc : ApplyTarget(p) \/ RestoreTarget(p) \/ UndoTarget(p)
                     \/ \E n \in Outside, v \in Value : Edit(n, v)
  /\ image' # image => \E p \in Proc : SaveBefore(p)
  /\ expect' # expect => \E p \in Proc : Admit(p) \/ \E n \in Target : Stage(p, n)

(* Who writes the files, the records, the images and the expectations.     *)
LEMMA WhoWrites == [Next]_vars => Writers
<1> SUFFICES ASSUME [Next]_vars
             PROVE  Writers
  OBVIOUS
<1> DEFINE Same == live' = live /\ image' = image /\ expect' = expect
<1> USE DEF disk
<1>1. ASSUME NEW p \in Proc, Begin(p)
      PROVE  Same
  BY <1>1 DEF Begin, New, ApplyByHand, Rebuild, ReadForAbort, ReadForRecover
<1>2. ASSUME NEW p \in Proc, Step(p)
      PROVE  \/ Same
             \/ live' = live /\ image' = image /\ (Admit(p) \/ \E n \in Target : Stage(p, n))
             \/ live' = live /\ expect' = expect /\ SaveBefore(p)
             \/ /\ image' = image /\ expect' = expect
                /\ ApplyTarget(p) \/ RestoreTarget(p) \/ UndoTarget(p)
  <2>1. ASSUME NEW n \in Target, ReadForUpdate(p, n)
        PROVE  Same
    BY <2>1 DEF ReadForUpdate
  <2>2. ASSUME NEW n \in Target, Stage(p, n)
        PROVE  live' = live /\ image' = image
    BY <2>2 DEF Stage
  <2>3. Admit(p) => live' = live /\ image' = image
    BY DEF Admit
  <2>4. SaveBefore(p) => live' = live /\ expect' = expect
    BY DEF SaveBefore
  <2>5. ApplyTarget(p) => image' = image /\ expect' = expect
    BY DEF ApplyTarget
  <2>6. RestoreTarget(p) => image' = image /\ expect' = expect
    BY DEF RestoreTarget
  <2>7. UndoTarget(p) => image' = image /\ expect' = expect
    BY DEF UndoTarget
  <2>8. CASE ApplyStaged(p) \/ AbortOwn(p) \/ CommitLock(p) \/ Baseline(p)
    <3>1. Same
      BY <2>8 DEF ApplyStaged, AbortOwn, CommitLock, Baseline, Rebuild
    <3> QED
      BY <3>1
  <2>9. CASE Validate(p) \/ Refuse(p) \/ Escape(p) \/ StartApplying(p)
    <3>1. Same
      BY <2>9 DEF Validate, Refuse, Escape, StartApplying
    <3> QED
      BY <3>1
  <2>10. CASE DoAction(p) \/ StartObserving(p) \/ Observe(p) \/ MarkCommitted(p)
    <3>1. Same
      BY <2>10 DEF DoAction, StartObserving, Observe, MarkCommitted
    <3> QED
      BY <3>1
  <2>11. CASE Finish(p) \/ StartRollback(p) \/ RestoreUnit(p) \/ MarkRolledBack(p)
    <3>1. Same
      BY <2>11 DEF Finish, StartRollback, RestoreUnit, MarkRolledBack
    <3> QED
      BY <3>1
  <2>12. CASE RecoverLock(p) \/ Preflight(p) \/ MarkRecovered(p) \/ WriteAbort(p)
    <3>1. Same
      BY <2>12 DEF RecoverLock, Preflight, MarkRecovered, WriteAbort
    <3> QED
      BY <3>1
  <2> HIDE DEF Same, disk
  <2> QED
    BY <1>2, <2>1, <2>2, <2>3, <2>4, <2>5, <2>6, <2>7, <2>8, <2>9, <2>10, <2>11, <2>12
       DEF Step
<1>3. ASSUME NEW p \in Proc, Crash(p)
      PROVE  Same
  BY <1>3 DEF Crash
<1>4. ASSUME NEW n \in Outside, NEW v \in Value, Edit(n, v)
      PROVE  image' = image /\ expect' = expect
  BY <1>4 DEF Edit
<1>5. ASSUME NEW u \in Flaky, Flap(u)
      PROVE  Same
  BY <1>5 DEF Flap
<1>6. CASE UNCHANGED vars
  BY <1>6 DEF vars, Writers
<1> QED
  BY <1>1, <1>2, <1>3, <1>4, <1>5, <1>6 DEF Next, Environment, Writers

-----------------------------------------------------------------------------
(* No record returns to a state before production was touched.             *)
LEMMA NeverBack ==
  ASSUME IInv, LegalStep, NEW t \in Tx
  PROVE  /\ meta'[t] = "none" => meta[t] = "none"
         /\ meta'[t] \in Unstarted \cup {"none"} => meta[t] \in Unstarted \cup {"none"}
BY DEF IInv, ControlType, LegalStep, Successors, Allowed, States, Unstarted,
       GcTerminal, NeedsRecovery

(* Only a transaction that exists gets a basis.                            *)
LEMMA StepUnread ==
  ASSUME TypeInv, Unread, [Next]_vars
  PROVE  Unread'
<1>1. LegalStep
  BY StepLegal DEF TypeInv
<1>2. SUFFICES ASSUME NEW t \in Tx, meta'[t] = "none"
               PROVE  DOMAIN expect'[t] = {}
  BY DEF Unread
<1>3. meta[t] = "none" /\ DOMAIN expect[t] = {}
  BY <1>1, <1>2, NeverBack DEF TypeInv, Unread
<1>4. ASSUME NEW p \in Proc, Admit(p) \/ \E n \in Target : Stage(p, n)
      PROVE  expect'[t] = expect[t]
  <2>1. meta[cur[p]] = "PREPARING" /\ \E v : expect' = [expect EXCEPT ![cur[p]] = v]
    BY <1>4 DEF Admit, Stage, TypeInv, IInv, RecordAgrees, AgreesAt
  <2> QED
    BY <1>3, <2>1 DEF TypeInv, DataType
<1> QED
  BY <1>3, <1>4, WhoWrites DEF Writers

(* A file that is deleted once is there until its deleter applies it: the   *)
(* others write contents, and put back contents.                           *)
LEMMA StepStillThere ==
  ASSUME DeletedOnce, TypeInv, StillThere, [Next]_vars
  PROVE  StillThere'
<1>1. LegalStep
  BY StepLegal DEF TypeInv
<1>2. SUFFICES ASSUME NEW t \in Tx, NEW n \in Target, Deletes(t, n),
                      meta'[t] \in Unstarted \cup {"none"}
               PROVE  /\ live'[n] # Absent
                      /\ \A s \in Tx : n \in DOMAIN image'[s].files =>
                                         image'[s].files[n] # Absent
  BY DEF StillThere
<1>3. /\ meta[t] \in Unstarted \cup {"none"}
      /\ live[n] # Absent
      /\ \A s \in Tx : n \in DOMAIN image[s].files => image[s].files[n] # Absent
  BY <1>1, <1>2, NeverBack DEF TypeInv, StillThere
<1>4. live \in [Target -> Value] /\ DOMAIN image = Tx
  BY DEF TypeInv, DataType
<1>5. ASSUME NEW p \in Proc, ApplyTarget(p)
      PROVE  live'[n] # Absent
  <2>1. cur[p] \in Tx /\ meta[cur[p]] = "APPLYING"
    BY <1>5 DEF ApplyTarget, TypeInv, IInv, ControlType, RecordAgrees, AgreesAt
  <2>2. PICK m \in mem[p].todo :
          live' = live \/ live' = [live EXCEPT ![m] = Written(p, m)]
    BY <1>5 DEF ApplyTarget
  <2>3. m \in DOMAIN Goal[cur[p]].data
    BY <1>5, <2>2 DEF ApplyTarget, TypeInv, Coverage, Staged
  <2>4. cur[p] # t
    BY <1>3, <2>1 DEF Unstarted
  <2>5. m = n => Goal[cur[p]].data[m] # Absent
    BY <1>2, <2>1, <2>3, <2>4 DEF DeletedOnce, Deletes
  <2> QED
    BY <1>3, <1>4, <2>2, <2>5 DEF Written
<1>6. ASSUME NEW p \in Proc, RestoreTarget(p) \/ UndoTarget(p)
      PROVE  live'[n] # Absent
  <2>1. PICK m \in mem[p].todo : live' = live \/ live' = Old(cur[p], m)
    BY <1>6 DEF RestoreTarget, UndoTarget
  <2>2. cur[p] \in Tx /\ m \in DOMAIN image[cur[p]].files
    BY <1>6, <2>1 DEF RestoreTarget, UndoTarget, TypeInv, Coverage, IInv, ControlType,
                      RecordAgrees, AgreesAt, NeedsRecovery
  <2> QED
    BY <1>3, <1>4, <2>1, <2>2 DEF Old
<1>7. ASSUME NEW m \in Outside, NEW v \in Value, Edit(m, v)
      PROVE  live'[n] # Absent
  <2>1. n # m
    BY <1>2 DEF DeletedOnce
  <2> QED
    BY <1>3, <1>4, <1>7, <2>1 DEF Edit
<1>8. ASSUME NEW p \in Proc, SaveBefore(p), NEW s \in Tx, n \in DOMAIN image'[s].files
      PROVE  image'[s].files[n] # Absent
  BY <1>3, <1>4, <1>8 DEF SaveBefore
<1> QED
  BY <1>3, <1>5, <1>6, <1>7, <1>8, WhoWrites DEF Writers

(* So a process that stages or reloads a deletion sees that the file exists. *)
LEMMA StepDeleterKnows ==
  ASSUME Disciplined, DeletedOnce, TypeInv, Deletions, [Next]_vars, NEW q \in Proc
  PROVE  DeleterKnows(q)'
<1> USE DEF disk, Go, End, Locked
<1>0. /\ pc \in [Proc -> Places] /\ cur \in [Proc -> Tx \cup {NoTx}]
      /\ mem \in [Proc -> Memory] /\ DOMAIN expect = Tx
      /\ pc[q] # "idle" => cur[q] \in Tx
  BY DEF TypeInv, IInv, ControlType, DataType
<1>1. DeleterKnows(q)
  BY DEF Deletions
<1>2. ASSUME NEW p \in Proc, p # q, Begin(p) \/ Step(p)
      PROVE  DeleterKnows(q)'
  BY <1>1, <1>2, Bystander DEF DeleterKnows, Staged
<1>3. ASSUME Begin(q) \/ Step(q)
      PROVE  DeleterKnows(q)'
  <2>1. ASSUME NEW t \in Tx, New(q, t)
        PROVE  DeleterKnows(q)'
    BY <1>0, <2>1 DEF New, DeleterKnows, Staged, Deletions, Unread
  <2>2. ASSUME NEW n \in Target, ReadForUpdate(q, n)
        PROVE  DeleterKnows(q)'
    BY <1>0, <1>1, <2>2 DEF ReadForUpdate, DeleterKnows, Staged, Memory
  <2>3. ASSUME NEW n \in Target, Stage(q, n)
        PROVE  DeleterKnows(q)'
    <3>1. cur[q] \in Tx /\ meta[cur[q]] = "PREPARING"
      BY <1>0, <2>3 DEF Stage, TypeInv, IInv, RecordAgrees, AgreesAt
    <3>2. mem'[q].existed = mem[q].existed \cup Deletable(cur[q], {n})
      BY <1>0, <2>3 DEF Stage, Memory
    <3>3. Staged(cur[q])' \subseteq Staged(cur[q]) \cup ({n} \cap DOMAIN Goal[cur[q]].data)
      BY <1>0, <2>3, <3>1 DEF Stage, Staged, With
    <3>4. Deletes(cur[q], n) => live[n] # Absent
      BY <3>1 DEF Deletions, StillThere, Unstarted
    <3>5. Deletes(cur[q], n) => n \in Deletable(cur[q], {n})
      BY <3>4 DEF Deletable, Deletes
    <3> QED
      BY <1>0, <1>1, <2>3, <3>2, <3>3, <3>5 DEF Stage, DeleterKnows
  <2>4. ASSUME NEW t \in Tx, Rebuild(q, t), meta[t] = "PREPARING"
        PROVE  DeleterKnows(q)'
    <3>1. \A n \in Staged(t) : Deletes(t, n) => n \in Deletable(t, Staged(t))
      <4>1. Staged(t) \subseteq Target
        BY DerivedSets
      <4>2. \A n \in Staged(t) : Deletes(t, n) => live[n] # Absent
        BY <2>4, <4>1 DEF Deletions, StillThere, Unstarted
      <4> QED
        BY <4>2 DEF Deletable, Deletes
    <3>2. pc'[q] = "refused" \/ mem'[q].existed = Deletable(t, Staged(t))
      BY <1>0, <2>4 DEF Rebuild, Blank
    <3>3. cur'[q] = t /\ pc'[q] \in {"refused", "loaded"} /\ expect' = expect
      BY <1>0, <2>4 DEF Rebuild
    <3> QED
      BY <3>1, <3>2, <3>3 DEF DeleterKnows, Staged
  <2>5. CASE ApplyStaged(q)
    BY <1>0, <2>4, <2>5 DEF ApplyStaged, TypeInv, IInv, RecordAgrees, AgreesAt
  <2>6. ASSUME NEW t \in Tx, ApplyByHand(q, t)
        PROVE  DeleterKnows(q)'
    BY <2>4, <2>6 DEF ApplyByHand, Disciplined
  <2>7. CASE CommitLock(q)
    BY <1>0, <1>1, <2>7 DEF CommitLock, DeleterKnows, Staged
  <2>8. CASE Admit(q)
    <3>1. cur[q] \in Tx /\ cur' = cur /\ mem' = mem
      BY <1>0, <2>8 DEF Admit
    <3>2. Staged(cur[q])' \subseteq Staged(cur[q]) \cup Goal[cur[q]].derived
      BY <1>0, <2>8, <3>1 DEF Admit, Staged
    <3>3. \A n \in Goal[cur[q]].derived : ~Deletes(cur[q], n)
      BY <3>1, GoalTypes DEF DeletedOnce
    <3> QED
      BY <1>1, <2>8, <3>1, <3>2, <3>3 DEF Admit, DeleterKnows
  <2>9. CASE Baseline(q)
    BY <1>0, <1>1, <2>9 DEF Baseline, DeleterKnows, Staged, Memory
  <2>10. CASE Validate(q) \/ SaveBefore(q)
    BY <1>0, <1>1, <2>10 DEF Validate, SaveBefore, DeleterKnows, Staged
  <2>11. CASE StartApplying(q)
    <3>1. ASSUME pc'[q] # "idle"
          PROVE  mem'[q].existed = mem[q].existed /\ cur' = cur
      <4>1. /\ mem' = [mem EXCEPT ![q].todo = Staged(cur[q]), ![q].acts = Acting(cur[q])]
            /\ cur' = cur
        BY <1>0, <2>11, <3>1 DEF StartApplying, MetaWriteRaises
      <4> QED
        BY <1>0, <4>1 DEF Memory
    <3> QED
      BY <1>1, <2>11, <3>1 DEF StartApplying, DeleterKnows, Staged
  <2>12. CASE ApplyTarget(q) \/ DoAction(q)
    <3>1. mem'[q].existed = mem[q].existed
      BY <1>0, <2>12 DEF ApplyTarget, DoAction, Memory
    <3> QED
      BY <1>0, <1>1, <2>12, <3>1 DEF ApplyTarget, DoAction, DeleterKnows, Staged
  <2>13. CASE pc'[q] \notin {"prep", "loaded", "start", "apply"} \cup Locked
    BY <2>13 DEF DeleterKnows
  <2> HIDE DEF disk, Go, End
  <2> QED
    BY <1>3, <2>1, <2>2, <2>3, <2>5, <2>6, <2>7, <2>8, <2>9, <2>10, <2>11, <2>12,
       <2>13, Arrivals
       DEF TypeInv
<1>4. ASSUME NEW p \in Proc, Crash(p)
      PROVE  DeleterKnows(q)'
  BY <1>0, <1>1, <1>4 DEF Crash, DeleterKnows, Staged
<1>5. ASSUME NEW n \in Outside, NEW v \in Value, Edit(n, v)
      PROVE  DeleterKnows(q)'
  <2>1. mem'[q].existed = mem[q].existed
    BY <1>0, <1>5 DEF Edit, Memory
  <2> QED
    BY <1>1, <1>5, <2>1 DEF Edit, DeleterKnows, Staged
<1>6. ASSUME NEW u \in Flaky, Flap(u)
      PROVE  DeleterKnows(q)'
  BY <1>1, <1>6 DEF Flap, DeleterKnows, Staged
<1>7. CASE UNCHANGED vars
  BY <1>1, <1>7 DEF vars, DeleterKnows, Staged
<1> QED
  BY <1>2, <1>3, <1>4, <1>5, <1>6, <1>7 DEF Next, Environment

(* Every write has its effect: a deletion that finds the file unlinks it.   *)
LEMMA StepWritten ==
  ASSUME TypeInv, Knowledge, Deletions, Planned, [Next]_vars, NEW q \in Proc
  PROVE  WrittenAt(q)'
<1> USE DEF disk, Go, End, Critical, Locked, Staged
<1>0. /\ pc \in [Proc -> Places] /\ cur \in [Proc -> Tx \cup {NoTx}]
      /\ live \in [Target -> Value] /\ mem \in [Proc -> Memory]
      /\ drift \in [Tx -> SUBSET Target]
      /\ pc[q] # "idle" => cur[q] \in Tx
  BY DEF TypeInv, IInv, ControlType, DataType
<1>1. WrittenAt(q)
  BY DEF Planned
<1>2. ASSUME NEW p \in Proc, p # q, Begin(p) \/ Step(p)
      PROVE  WrittenAt(q)'
  BY <1>1, <1>2, Bystander DEF WrittenAt
<1>3. ASSUME Begin(q) \/ Step(q)
      PROVE  WrittenAt(q)'
  <2>1. CASE StartApplying(q)
    BY <1>0, <2>1 DEF StartApplying, MetaWriteRaises, WrittenAt, Memory
  <2>2. CASE ApplyTarget(q)
    <3>1. mem[q].todo \subseteq Staged(cur[q]) /\ Staged(cur[q]) \subseteq Target
      BY <1>0, <2>2, DerivedSets DEF ApplyTarget, TypeInv, Coverage
    <3>2. CASE pc' = pc
      <4>1. PICK n \in mem[q].todo :
              /\ live' = [live EXCEPT ![n] = Written(q, n)]
              /\ mem' = [mem EXCEPT ![q].todo = @ \ {n}]
        BY <1>0, <2>2, <3>2 DEF ApplyTarget
      <4>2. Written(q, n) = Goal[cur[q]].data[n]
        <5>1. Deletes(cur[q], n) => n \in mem[q].existed
          BY <2>2, <3>1 DEF ApplyTarget, Deletions, DeleterKnows
        <5> QED
          BY <3>1, <5>1 DEF Written, Deletes
      <4>3. mem'[q].todo = mem[q].todo \ {n}
        BY <1>0, <4>1 DEF Memory
      <4>4. \A m \in Target : live'[m] = IF m = n THEN Goal[cur[q]].data[n] ELSE live[m]
        BY <1>0, <4>1, <4>2
      <4> QED
        BY <1>1, <2>2, <3>1, <3>2, <4>3, <4>4 DEF ApplyTarget, WrittenAt
    <3>3. CASE pc' # pc
      BY <1>0, <2>2, <3>3 DEF ApplyTarget, WrittenAt
    <3> QED
      BY <3>2, <3>3
  <2>3. CASE DoAction(q)
    BY <1>0, <1>1, <2>3 DEF DoAction, WrittenAt, Memory
  <2>4. CASE StartObserving(q)
    BY <1>0, <1>1, <2>4 DEF StartObserving, WrittenAt
  <2>5. CASE Observe(q)
    BY <1>0, <1>1, <2>5 DEF Observe, WrittenAt
  <2>6. CASE pc'[q] \notin {"apply", "observe", "commit"}
    BY <2>6 DEF WrittenAt
  <2> QED
    BY <1>3, <2>1, <2>2, <2>3, <2>4, <2>5, <2>6, Arrivals DEF TypeInv
<1>4. ASSUME NEW p \in Proc, Crash(p)
      PROVE  WrittenAt(q)'
  BY <1>0, <1>1, <1>4 DEF Crash, WrittenAt
<1>5. ASSUME NEW n \in Outside, NEW v \in Value, Edit(n, v)
      PROVE  WrittenAt(q)'
  <2>1. pc[q] \in {"apply", "observe", "commit"} => meta[cur[q]] \in NeedsRecovery
    BY DEF TypeInv, IInv, RecordAgrees, AgreesAt, NeedsRecovery
  <2> QED
    BY <1>0, <1>1, <1>5, <2>1 DEF Edit, WrittenAt, Memory
<1>6. ASSUME NEW u \in Flaky, Flap(u)
      PROVE  WrittenAt(q)'
  BY <1>1, <1>6 DEF Flap, WrittenAt
<1>7. CASE UNCHANGED vars
  BY <1>1, <1>7 DEF vars, WrittenAt
<1> QED
  BY <1>2, <1>3, <1>4, <1>5, <1>6, <1>7 DEF Next, Environment

-----------------------------------------------------------------------------
(* The inductive invariants: with what is known of contents and units, and, *)
(* where files are deleted once, with the effect of the writes.            *)
KnowledgeInv == RecoveryInv /\ Knowledge
PlannedInv == KnowledgeInv /\ Deletions /\ Planned

(* At the start no process knows anything.                                 *)
LEMMA InitKnowledgeInv == Init => KnowledgeInv
<1> SUFFICES ASSUME Init
             PROVE  KnowledgeInv
  OBVIOUS
<1>1. RecoveryInv
  BY InitTypeInv DEF Init, RecoveryInv, Undoable, NeedsRecovery
<1>2. Knowledge
  BY DEF Init, Knowledge, BasisAt, UndoneAt, UnitsAt
<1> QED
  BY <1>1, <1>2 DEF KnowledgeInv

(* Every step keeps it.                                                    *)
LEMMA StepKnowledgeInv == Disciplined /\ KnowledgeInv /\ [Next]_vars => KnowledgeInv'
<1> SUFFICES ASSUME Disciplined, KnowledgeInv, [Next]_vars
             PROVE  KnowledgeInv'
  OBVIOUS
<1>1. RecoveryInv'
  BY StepTypeInv, StepUndoable DEF KnowledgeInv, RecoveryInv
<1>2. Knowledge'
  BY StepBasis, StepUndone, StepUnits DEF KnowledgeInv, RecoveryInv, Knowledge
<1> QED
  BY <1>1, <1>2 DEF KnowledgeInv

(* And every file that will be deleted exists.                             *)
LEMMA InitPlannedInv == DeletedOnce /\ Init => PlannedInv
<1> SUFFICES ASSUME DeletedOnce, Init
             PROVE  PlannedInv
  OBVIOUS
<1>1. KnowledgeInv
  BY InitKnowledgeInv
<1>2. Deletions
  BY DEF Init, Deletions, Unread, StillThere, DeleterKnows, DeletedOnce, EmptyFcn, Locked
<1>3. Planned
  BY DEF Init, Planned, WrittenAt
<1> QED
  BY <1>1, <1>2, <1>3 DEF PlannedInv

(* And every step keeps it.                                                *)
LEMMA StepPlannedInv ==
  Disciplined /\ DeletedOnce /\ PlannedInv /\ [Next]_vars => PlannedInv'
<1> SUFFICES ASSUME Disciplined, DeletedOnce, PlannedInv, [Next]_vars
             PROVE  PlannedInv'
  OBVIOUS
<1>1. KnowledgeInv'
  BY StepKnowledgeInv DEF PlannedInv
<1>2. TypeInv /\ Knowledge
  BY DEF PlannedInv, KnowledgeInv, RecoveryInv
<1>3. Deletions'
  BY <1>2, StepUnread, StepStillThere, StepDeleterKnows DEF PlannedInv, Deletions
<1>4. Planned'
  BY <1>2, StepWritten DEF PlannedInv, Planned
<1> QED
  BY <1>1, <1>3, <1>4 DEF PlannedInv

-----------------------------------------------------------------------------
(* Who records an outcome.                                                 *)
LEMMA WhoSettles ==
  ASSUME IInv, [Next]_vars, NEW t \in Tx
  PROVE  /\ Becomes(t, "COMMITTED") => \E p \in Proc : cur[p] = t /\ MarkCommitted(p)
         /\ Becomes(t, "ROLLED_BACK") => \E p \in Proc :
              /\ cur[p] = t
              /\ \/ /\ MarkRolledBack(p)
                    /\ ~mem[p].failed /\ NotRestored(t) = {}
                 \/ MarkRecovered(p) /\ ~mem[p].failed
<1> DEFINE Settles == /\ meta[t] # meta'[t]
                      /\ meta'[t] \in {"COMMITTED", "ROLLED_BACK"}
<1> USE DEF Becomes, disk, IInv, ControlType
<1>1. ASSUME NEW p \in Proc, Begin(p)
      PROVE  ~Settles
  BY <1>1 DEF Begin, New, ApplyByHand, Rebuild, ReadForAbort, ReadForRecover
<1>2. ASSUME NEW p \in Proc, AbortOwn(p) \/ WriteAbort(p)
      PROVE  ~Settles
  BY <1>2 DEF AbortOwn, WriteAbort
<1>3. ASSUME NEW p \in Proc, Refuse(p) \/ Escape(p)
      PROVE  ~Settles
  BY <1>3 DEF Refuse, Escape, SavedByCheck
<1>4. ASSUME NEW p \in Proc, StartApplying(p) \/ StartRollback(p)
      PROVE  ~Settles
  BY <1>4 DEF StartApplying, StartRollback, MetaWriteRaises
<1>5. ASSUME NEW p \in Proc, StartObserving(p) \/ Validate(p) \/ Finish(p)
      PROVE  ~Settles
  BY <1>5 DEF StartObserving, Validate, Finish
<1>6. ASSUME NEW p \in Proc, ApplyStaged(p) \/ CommitLock(p) \/ Admit(p) \/ Baseline(p)
      PROVE  ~Settles
  BY <1>6 DEF ApplyStaged, Rebuild, CommitLock, Admit, Baseline
<1>7. ASSUME NEW p \in Proc, SaveBefore(p) \/ ApplyTarget(p) \/ DoAction(p) \/ Observe(p)
      PROVE  ~Settles
  BY <1>7 DEF SaveBefore, ApplyTarget, DoAction, Observe
<1>8. ASSUME NEW p \in Proc, RestoreTarget(p) \/ RestoreUnit(p) \/ RecoverLock(p)
      PROVE  ~Settles
  BY <1>8 DEF RestoreTarget, RestoreUnit, RecoverLock
<1>9. ASSUME NEW p \in Proc, Preflight(p) \/ UndoTarget(p)
      PROVE  ~Settles
  BY <1>9 DEF Preflight, UndoTarget
<1>10. ASSUME NEW p \in Proc, NEW n \in Target, ReadForUpdate(p, n) \/ Stage(p, n)
      PROVE  ~Settles
  BY <1>10 DEF ReadForUpdate, Stage
<1>11. ASSUME NEW p \in Proc, MarkCommitted(p), Settles
      PROVE  cur[p] = t /\ meta'[t] = "COMMITTED"
  BY <1>11 DEF MarkCommitted, MetaWriteRaises
<1>12. ASSUME NEW p \in Proc, MarkRolledBack(p), Settles
      PROVE  /\ cur[p] = t /\ meta'[t] = "ROLLED_BACK"
             /\ ~mem[p].failed /\ NotRestored(t) = {}
  BY <1>12 DEF MarkRolledBack, MetaWriteRaises
<1>13. ASSUME NEW p \in Proc, MarkRecovered(p), Settles
      PROVE  cur[p] = t /\ meta'[t] = "ROLLED_BACK" /\ ~mem[p].failed
  BY <1>13 DEF MarkRecovered, MetaWriteRaises, RecoveryVerdict
<1>14. CASE Environment \/ UNCHANGED vars
  BY <1>14 DEF Environment, Crash, Edit, Flap, vars
<1> QED
  BY <1>1, <1>2, <1>3, <1>4, <1>5, <1>6, <1>7, <1>8, <1>9, <1>10, <1>11, <1>12, <1>13, <1>14
     DEF Next, Step

-----------------------------------------------------------------------------
(* No update is lost: what a transaction overwrites is what its candidate   *)
(* was computed from, whatever the others read, wrote and rolled back      *)
(* since, unless an editor without the lock came after the check.          *)
THEOREM NoUpdateIsLost ==
  ASSUME Disciplined
  PROVE  Spec => NoLostUpdate
<1>1. Init => KnowledgeInv
  BY InitKnowledgeInv
<1>2. KnowledgeInv /\ [Next]_vars => KnowledgeInv'
  BY StepKnowledgeInv
<1> DEFINE Kept == \A p \in Proc : pc[p] = "apply" =>
             \A n \in mem[p].todo \ drift[cur[p]] :
               live'[n] # live[n] => live[n] = expect[cur[p]][n]
<1>3. KnowledgeInv => Kept
  BY DEF KnowledgeInv, RecoveryInv, TypeInv, Coverage, Knowledge, BasisAt, Staged
<1> QED
  BY <1>1, <1>2, <1>3, PTL DEF Spec, NoLostUpdate

(* recover without --force overwrites only what the transaction wrote, even *)
(* if an earlier rollback or recover failed half way.                      *)
THEOREM EditsAreKept ==
  ASSUME Disciplined
  PROVE  Spec => RecoverKeepsEdits
<1>1. Init => KnowledgeInv
  BY InitKnowledgeInv
<1>2. KnowledgeInv /\ [Next]_vars => KnowledgeInv'
  BY StepKnowledgeInv
<1> DEFINE Kept == \A p \in Proc : pc[p] = "undo" /\ ~mem[p].force =>
             \A n \in mem[p].todo \ mem[p].late :
               live'[n] # live[n] => live[n] = Goal[cur[p]].data[n]
<1>3. KnowledgeInv => Kept
  BY DEF KnowledgeInv, Knowledge, UndoneAt
<1> QED
  BY <1>1, <1>2, <1>3, PTL DEF Spec, RecoverKeepsEdits

(* ROLLED_BACK means that files and services are as before, whoever        *)
(* recorded it and however many attempts failed.                           *)
THEOREM RollbackRestores ==
  ASSUME Disciplined
  PROVE  Spec => RolledBackRestores
<1>1. Init => KnowledgeInv
  BY InitKnowledgeInv
<1>2. KnowledgeInv /\ [Next]_vars => KnowledgeInv'
  BY StepKnowledgeInv
<1> DEFINE Right == \A t \in Tx : Becomes(t, "ROLLED_BACK") =>
             /\ \A n \in Staged(t) \ drift[t] : live[n] = image[t].files[n]
             /\ \A u \in Services(t) \ Flaky :
                  Active(rt[u]) <=> u \in image[t].active
<1>3. KnowledgeInv /\ [Next]_vars => Right
  <2> SUFFICES ASSUME KnowledgeInv, [Next]_vars, NEW t \in Tx, Becomes(t, "ROLLED_BACK")
               PROVE  /\ \A n \in Staged(t) \ drift[t] : live[n] = image[t].files[n]
                      /\ \A u \in Services(t) \ Flaky :
                           Active(rt[u]) <=> u \in image[t].active
    OBVIOUS
  <2>1. PICK p \in Proc :
          /\ cur[p] = t /\ ~mem[p].failed
          /\ \/ MarkRolledBack(p) /\ NotRestored(t) = {}
             \/ MarkRecovered(p)
    BY WhoSettles DEF KnowledgeInv, RecoveryInv, TypeInv
  <2>2. UndoneAt(p) /\ UnitsAt(p)
    BY DEF KnowledgeInv, Knowledge
  <2>3. pc[p] \in {"restore", "undo"} /\ mem[p].todo = {} /\ mem[p].acts = {}
    BY <2>1 DEF MarkRolledBack, MarkRecovered
  <2>4. \A n \in Staged(t) \ drift[t] : live[n] = image[t].files[n]
    BY <2>1, <2>2, <2>3 DEF MarkRolledBack, MarkRecovered, NotRestored, UndoneAt
  <2>5. \A u \in Services(t) \ Flaky : Restored(u \in image[t].active, rt[u])
    BY <2>1, <2>2, <2>3 DEF UnitsAt
  <2> QED
    BY <2>4, <2>5 DEF Restored, Active
<1> QED
  BY <1>1, <1>2, <1>3, PTL DEF Spec, RolledBackRestores

(* COMMITTED means that the gates of the baseline and the goals of the      *)
(* actions hold, except for units that change by themselves.               *)
THEOREM CommitIsHealthy ==
  ASSUME Disciplined
  PROVE  Spec => CommittedHealthy
<1>1. Init => KnowledgeInv
  BY InitKnowledgeInv
<1>2. KnowledgeInv /\ [Next]_vars => KnowledgeInv'
  BY StepKnowledgeInv
<1> DEFINE Right == \A p \in Proc : pc[p] = "commit" /\ Becomes(cur[p], "COMMITTED") =>
             \A u \in Unit \ Flaky :
               /\ u \in mem[p].base.svc => Active(rt[u])
               /\ u \in mem[p].base.probe => rt[u] = "ok"
               /\ Goal[cur[p]].act[u] \in {"start", "restart"} => Active(rt[u])
               /\ Goal[cur[p]].act[u] = "stop" => rt[u] = "inactive"
<1>3. KnowledgeInv => Right
  BY DEF KnowledgeInv, Knowledge, UnitsAt
<1> QED
  BY <1>1, <1>2, <1>3, PTL DEF Spec, CommittedHealthy

(* COMMITTED means that everything was written, deletions included, if no  *)
(* file is deleted twice.                                                  *)
THEOREM CommitIsAsPlanned ==
  ASSUME Disciplined, DeletedOnce
  PROVE  Spec => CommittedAsPlanned
<1>1. Init => PlannedInv
  BY InitPlannedInv
<1>2. PlannedInv /\ [Next]_vars => PlannedInv'
  BY StepPlannedInv
<1> DEFINE Right == \A t \in Tx : Becomes(t, "COMMITTED") =>
             \A n \in Staged(t) \ drift[t] : live[n] = Goal[t].data[n]
<1>3. PlannedInv /\ [Next]_vars => Right
  <2> SUFFICES ASSUME PlannedInv, [Next]_vars, NEW t \in Tx, Becomes(t, "COMMITTED")
               PROVE  \A n \in Staged(t) \ drift[t] : live[n] = Goal[t].data[n]
    OBVIOUS
  <2>1. PICK p \in Proc : cur[p] = t /\ pc[p] = "commit"
    BY WhoSettles DEF PlannedInv, KnowledgeInv, RecoveryInv, TypeInv, MarkCommitted
  <2> QED
    BY <2>1 DEF PlannedInv, Planned, WrittenAt
<1> QED
  BY <1>1, <1>2, <1>3, PTL DEF Spec, CommittedAsPlanned

-----------------------------------------------------------------------------
(* The refinement: each change of the configuration is atomic.             *)

(* If nothing is unsettled the configuration in force is on disk ...        *)
QuietView ==
  (\A t \in Tx : meta[t] \notin NeedsRecovery) => Logical = [n \in Target |-> live[n]]

(* ... and otherwise the one before-image stands for what it covers.       *)
UnsettledView ==
  SingleInFlight =>
    \A t \in Tx : meta[t] \in NeedsRecovery =>
      Logical = [n \in Target |-> IF n \in DOMAIN image[t].files
                                    THEN image[t].files[n] ELSE live[n]]

(* The choice in Logical is among at most one.                             *)
LEMMA Views == QuietView /\ UnsettledView
<1>0. QuietView
  BY DEF QuietView, Logical
<1> SUFFICES ASSUME SingleInFlight, NEW t \in Tx, meta[t] \in NeedsRecovery
             PROVE  Logical = [n \in Target |-> IF n \in DOMAIN image[t].files
                                                  THEN image[t].files[n] ELSE live[n]]
  BY <1>0 DEF UnsettledView
<1>1. ASSUME NEW n \in Target, n \in DOMAIN image[t].files
      PROVE  Logical[n] = image[t].files[n]
  <2>1. \A x \in Tx : meta[x] \in NeedsRecovery /\ n \in DOMAIN image[x].files <=> x = t
    BY <1>1 DEF SingleInFlight
  <2>2. (CHOOSE x \in Tx : meta[x] \in NeedsRecovery /\ n \in DOMAIN image[x].files) = t
    BY <2>1
  <2> QED
    BY <1>1, <2>2 DEF Logical
<1>2. ASSUME NEW n \in Target, n \notin DOMAIN image[t].files
      PROVE  Logical[n] = live[n]
  BY <1>2 DEF Logical, SingleInFlight
<1> QED
  BY <1>1, <1>2 DEF Logical

(* A step that touches neither the set of unsettled transactions nor what  *)
(* production shows under them leaves the configuration in force alone.    *)
LEMMA SameView ==
  ASSUME SingleInFlight,
         \A t \in Tx : meta'[t] \in NeedsRecovery <=> meta[t] \in NeedsRecovery,
         \A t \in Tx : meta[t] \in NeedsRecovery => image'[t] = image[t],
         \A n \in Target :
           \/ live'[n] = live[n]
           \/ \E t \in Tx : meta[t] \in NeedsRecovery /\ n \in DOMAIN image[t].files
  PROVE  Logical' = Logical
<1>0. (QuietView /\ UnsettledView)'
  BY Views, PTL
<1>1. SingleInFlight'
  BY DEF SingleInFlight
<1>2. CASE \A t \in Tx : meta[t] \notin NeedsRecovery
  <2>1. \A t \in Tx : meta'[t] \notin NeedsRecovery
    BY <1>2
  <2>2. Logical' = [n \in Target |-> live'[n]]
    BY <1>0, <2>1 DEF QuietView
  <2>3. Logical = [n \in Target |-> live[n]]
    BY <1>2, Views DEF QuietView
  <2>4. \A n \in Target : live'[n] = live[n]
    BY <1>2
  <2> QED
    BY <2>2, <2>3, <2>4
<1>3. ASSUME NEW t \in Tx, meta[t] \in NeedsRecovery
      PROVE  Logical' = Logical
  <2>1. Logical' = [n \in Target |-> IF n \in DOMAIN image'[t].files
                                       THEN image'[t].files[n] ELSE live'[n]]
    BY <1>0, <1>1, <1>3 DEF UnsettledView
  <2>2. Logical = [n \in Target |-> IF n \in DOMAIN image[t].files
                                      THEN image[t].files[n] ELSE live[n]]
    BY <1>3, Views DEF UnsettledView
  <2>3. \A n \in Target : n \notin DOMAIN image[t].files => live'[n] = live[n]
    BY <1>3 DEF SingleInFlight
  <2> QED
    BY <1>3, <2>1, <2>2, <2>3
<1> QED
  BY <1>2, <1>3

(* What each recorded state means to the promise.                          *)
LEMMA StatusRows ==
  \A t \in Tx : /\ meta[t] = "none" => Status[t] = "none"
                /\ meta[t] \in Unstarted \cup NeedsRecovery => Status[t] = "open"
                /\ meta[t] \in GcTerminal \cup {"gone"} => Status[t] = "closed"
BY DEF Status, Unstarted, NeedsRecovery, GcTerminal

(* The moves of a record that mean nothing to the promise.                 *)
Inner(s, r) ==
  \/ s = r
  \/ s \in Unstarted \cup NeedsRecovery /\ r \in Unstarted \cup NeedsRecovery
  \/ s \in GcTerminal /\ r = "gone"

(* Such moves leave the status as it is.                                   *)
LEMMA SameStatus ==
  ASSUME \A t \in Tx : Inner(meta[t], meta'[t])
  PROVE  Status' = Status
<1>1. ASSUME NEW t \in Tx
      PROVE  Status'[t] = Status[t]
  <2>1. Inner(meta[t], meta'[t])
    OBVIOUS
  <2>2. /\ meta[t] = "none" <=> meta'[t] = "none"
        /\ meta[t] \in Unstarted \cup NeedsRecovery
             <=> meta'[t] \in Unstarted \cup NeedsRecovery
    BY <2>1 DEF Inner, Unstarted, NeedsRecovery, GcTerminal
  <2> QED
    BY <2>2 DEF Status
<1> QED
  BY <1>1 DEF Status

(* A write of one record.                                                  *)
LEMMA OneStatus ==
  ASSUME meta \in [Tx -> States], NEW t \in Tx, NEW s, meta' = [meta EXCEPT ![t] = s]
  PROVE  /\ s = "PREPARING" => Status' = [Status EXCEPT ![t] = "open"]
         /\ s \in GcTerminal => Status' = [Status EXCEPT ![t] = "closed"]
<1>1. \A x \in Tx \ {t} : Status'[x] = Status[x]
  BY DEF Status
<1>2. meta'[t] = s
  OBVIOUS
<1>3. (s = "PREPARING" => Status'[t] = "open") /\ (s \in GcTerminal => Status'[t] = "closed")
  BY <1>2 DEF Status, Unstarted, NeedsRecovery, GcTerminal
<1> QED
  BY <1>1, <1>3, ZenonT(60) DEF Status

(* The initial states are initial states of the promise.                   *)
LEMMA InitPromise == Init => Promise!Init
<1> SUFFICES ASSUME Init PROVE Promise!Init
  OBVIOUS
<1>1. Logical = [n \in Target |-> live[n]]
  BY Views DEF QuietView, Init, NeedsRecovery
<1>2. Logical \in [Target -> Value]
  BY <1>1, ConstantsAssumption DEF Init
<1>3. Status = [t \in Tx |-> "none"]
  <2>1. \A t \in Tx : meta[t] = "none"
    BY DEF Init
  <2>2. \A t \in Tx : Status[t] = "none"
    BY <2>1, StatusRows
  <2> QED
    BY <2>2 DEF Status
<1>4. expect = [t \in Tx |-> [n \in {} |-> Logical[n]]]
  BY DEF Init, EmptyFcn
<1> QED
  BY <1>2, <1>3, <1>4 DEF Promise!Init


(* Who opens a transaction, cancels it and starts to apply it.             *)
LEMMA WhoMoves ==
  ASSUME IInv, [Next]_vars, NEW t \in Tx
  PROVE  /\ Becomes(t, "ABORTED") => \E p \in Proc :
              cur[p] = t /\ (AbortOwn(p) \/ WriteAbort(p))
         /\ Becomes(t, "APPLYING") => \E p \in Proc : cur[p] = t /\ StartApplying(p)
         /\ meta[t] = "none" /\ meta'[t] # "none" => \E p \in Proc : New(p, t)
<1> DEFINE Moves == /\ meta[t] # meta'[t]
                    /\ meta[t] = "none" \/ meta'[t] \in {"ABORTED", "APPLYING"}
<1> USE DEF Becomes, disk, IInv, ControlType
<1>1. ASSUME NEW p \in Proc, NEW x \in Tx, New(p, x), Moves
      PROVE  x = t /\ meta'[t] = "PREPARING"
  BY <1>1 DEF New
<1>2. ASSUME NEW p \in Proc, NEW x \in Tx,
             \/ ApplyByHand(p, x) \/ ReadForAbort(p, x)
             \/ \E force \in BOOLEAN : ReadForRecover(p, x, force)
      PROVE  ~Moves
  BY <1>2 DEF ApplyByHand, Rebuild, ReadForAbort, ReadForRecover
<1>3. ASSUME NEW p \in Proc, pc[p] # "idle", cur[p] = t
      PROVE  meta[t] # "none"
  BY <1>3 DEF RecordAgrees, AgreesAt, Places, Unstarted, NeedsRecovery, GcTerminal
<1>4. ASSUME NEW p \in Proc, Refuse(p) \/ Escape(p)
      PROVE  ~Moves
  BY <1>3, <1>4 DEF Refuse, Escape, SavedByCheck, Locked
<1>5. ASSUME NEW p \in Proc, Moves,
             StartRollback(p) \/ StartObserving(p) \/ Validate(p) \/ Finish(p)
      PROVE  FALSE
  BY <1>3, <1>5 DEF StartRollback, MetaWriteRaises, StartObserving, Validate, Finish,
     Doomed, GcTerminal
<1>6. ASSUME NEW p \in Proc, Moves,
             MarkCommitted(p) \/ MarkRolledBack(p) \/ MarkRecovered(p)
      PROVE  FALSE
  BY <1>3, <1>6 DEF MarkCommitted, MarkRolledBack, MarkRecovered, MetaWriteRaises,
     RecoveryVerdict
<1>7. ASSUME NEW p \in Proc, NEW n \in Target, ReadForUpdate(p, n) \/ Stage(p, n)
      PROVE  ~Moves
  BY <1>7 DEF ReadForUpdate, Stage
<1>8. ASSUME NEW p \in Proc, ApplyStaged(p) \/ CommitLock(p) \/ Admit(p) \/ Baseline(p)
      PROVE  ~Moves
  BY <1>8 DEF ApplyStaged, Rebuild, CommitLock, Admit, Baseline
<1>9. ASSUME NEW p \in Proc, SaveBefore(p) \/ ApplyTarget(p) \/ DoAction(p) \/ Observe(p)
      PROVE  ~Moves
  BY <1>9 DEF SaveBefore, ApplyTarget, DoAction, Observe
<1>10. ASSUME NEW p \in Proc, RestoreTarget(p) \/ RestoreUnit(p) \/ RecoverLock(p)
      PROVE  ~Moves
  BY <1>10 DEF RestoreTarget, RestoreUnit, RecoverLock
<1>11. ASSUME NEW p \in Proc, Preflight(p) \/ UndoTarget(p)
      PROVE  ~Moves
  BY <1>11 DEF Preflight, UndoTarget
<1>12. ASSUME NEW p \in Proc, AbortOwn(p) \/ WriteAbort(p), Moves
      PROVE  cur[p] = t /\ meta'[t] = "ABORTED" /\ meta[t] # "none"
  BY <1>3, <1>12 DEF AbortOwn, WriteAbort
<1>13. ASSUME NEW p \in Proc, StartApplying(p), Moves
      PROVE  cur[p] = t /\ meta'[t] = "APPLYING" /\ meta[t] # "none"
  BY <1>3, <1>13 DEF StartApplying, MetaWriteRaises
<1>14. CASE Environment \/ UNCHANGED vars
  BY <1>14 DEF Environment, Crash, Edit, Flap, vars
<1> QED
  BY <1>1, <1>2, <1>4, <1>5, <1>6, <1>7, <1>8, <1>9, <1>10, <1>11, <1>12,
     <1>13, <1>14 DEF Next, Begin, Step

-----------------------------------------------------------------------------
(* Without outside editors nothing drifts.                                 *)
NoDrift == drift = [t \in Tx |-> {}]

(* Only an edit from outside makes a target drift.                         *)
LEMMA StepNoDrift == Outside = {} /\ NoDrift /\ [Next]_vars => NoDrift'
<1> SUFFICES ASSUME Outside = {}, NoDrift, [Next]_vars
             PROVE  NoDrift'
  OBVIOUS
<1> USE DEF NoDrift, disk
<1>1. ASSUME NEW p \in Proc, Begin(p)
      PROVE  NoDrift'
  BY <1>1 DEF Begin, New, ApplyByHand, Rebuild, ReadForAbort, ReadForRecover
<1>2. ASSUME NEW p \in Proc, Validate(p)
      PROVE  NoDrift'
  BY <1>2 DEF Validate
<1>3. ASSUME NEW p \in Proc, NEW n \in Target, ReadForUpdate(p, n) \/ Stage(p, n)
      PROVE  NoDrift'
  BY <1>3 DEF ReadForUpdate, Stage
<1>4. ASSUME NEW p \in Proc,
             ApplyStaged(p) \/ AbortOwn(p) \/ CommitLock(p) \/ Admit(p) \/ Baseline(p)
      PROVE  NoDrift'
  BY <1>4 DEF ApplyStaged, Rebuild, AbortOwn, CommitLock, Admit, Baseline
<1>5. ASSUME NEW p \in Proc,
             Refuse(p) \/ Escape(p) \/ SaveBefore(p) \/ StartApplying(p) \/ ApplyTarget(p)
      PROVE  NoDrift'
  BY <1>5 DEF Refuse, Escape, SaveBefore, StartApplying, ApplyTarget
<1>6. ASSUME NEW p \in Proc,
             DoAction(p) \/ StartObserving(p) \/ Observe(p) \/ MarkCommitted(p) \/ Finish(p)
      PROVE  NoDrift'
  BY <1>6 DEF DoAction, StartObserving, Observe, MarkCommitted, Finish
<1>7. ASSUME NEW p \in Proc,
             StartRollback(p) \/ RestoreTarget(p) \/ RestoreUnit(p) \/ MarkRolledBack(p)
      PROVE  NoDrift'
  BY <1>7 DEF StartRollback, RestoreTarget, RestoreUnit, MarkRolledBack
<1>8. ASSUME NEW p \in Proc,
             \/ RecoverLock(p) \/ Preflight(p) \/ UndoTarget(p)
             \/ MarkRecovered(p) \/ WriteAbort(p) \/ Crash(p)
      PROVE  NoDrift'
  BY <1>8 DEF RecoverLock, Preflight, UndoTarget, MarkRecovered, WriteAbort, Crash
<1>9. ASSUME NEW u \in Flaky, Flap(u)
      PROVE  NoDrift'
  BY <1>9 DEF Flap
<1>10. CASE UNCHANGED vars
  BY <1>10 DEF vars
<1> HIDE DEF NoDrift
<1> QED
  BY <1>1, <1>2, <1>3, <1>4, <1>5, <1>6, <1>7, <1>8, <1>9, <1>10
     DEF Next, Step, Environment

-----------------------------------------------------------------------------
(* The steps of the core, by what they mean to the promise.                *)
RefineInv == PlannedInv /\ NoDrift

(* tx new.                                                                 *)
LEMMA OpenStep ==
  ASSUME RefineInv, NEW p \in Proc, NEW t \in Tx, New(p, t)
  PROVE  Promise!Open(t)
<1>1. TypeInv
  BY DEF RefineInv, PlannedInv, KnowledgeInv, RecoveryInv
<1>2. /\ meta' = [meta EXCEPT ![t] = "PREPARING"] /\ meta[t] = "none"
      /\ UNCHANGED <<live, image, expect>>
  BY DEF New
<1>3. Logical' = Logical
  <2>1. \A x \in Tx : meta'[x] \in NeedsRecovery <=> meta[x] \in NeedsRecovery
    BY <1>1, <1>2 DEF TypeInv, IInv, ControlType, NeedsRecovery
  <2> QED
    BY <1>1, <1>2, <2>1, SameView DEF TypeInv, IInv
<1>4. Status[t] = "none" /\ Status' = [Status EXCEPT ![t] = "open"]
  BY <1>1, <1>2, StatusRows, OneStatus DEF TypeInv, IInv, ControlType
<1> QED
  BY <1>2, <1>3, <1>4 DEF Promise!Open

(* Stage, watch and the derivers.                                          *)
LEMMA ReadStep ==
  ASSUME RefineInv, NEW p \in Proc, Admit(p) \/ \E n \in Target : Stage(p, n)
  PROVE  Promise!Read(cur[p])
<1> DEFINE t == cur[p]
<1>1. TypeInv
  BY DEF RefineInv, PlannedInv, KnowledgeInv, RecoveryInv
<1>2. t \in Tx /\ meta[t] = "PREPARING" /\ UNCHANGED <<live, image, meta>>
  BY <1>1 DEF Admit, Stage, disk, TypeInv, IInv, ControlType, RecordAgrees, AgreesAt
<1>3. Logical' = Logical
  BY <1>1, <1>2, SameView DEF TypeInv, IInv
<1>4. Status' = Status /\ Status[t] = "open"
  BY <1>2, StatusRows, SameStatus DEF Inner, Unstarted
<1>5. \E S \in SUBSET (Target \ DOMAIN expect[t]) : \E seen \in [S -> Value] :
        expect' = [expect EXCEPT ![t] =
          [n \in DOMAIN @ \cup S |-> IF n \in S THEN seen[n] ELSE @[n]]]
  <2>1. /\ live \in [Target -> Value] /\ expect[t] \in Partial(Target, Value)
        /\ mem[p].seen \in Partial(Target, Value)
    BY <1>1, <1>2 DEF TypeInv, DataType, Memory
  <2>2. CASE Admit(p)
    <3> DEFINE S == Goal[t].derived \ DOMAIN expect[t]
               seen == [n \in S |-> live[n]]
    <3>1. S \in SUBSET (Target \ DOMAIN expect[t]) /\ seen \in [S -> Value]
      BY <1>2, <2>1, GoalTypes
    <3>2. expect' = [expect EXCEPT ![t] =
            [n \in DOMAIN expect[t] \cup S |-> IF n \in S THEN seen[n] ELSE expect[t][n]]]
      <4>1. DOMAIN expect[t] \cup S = DOMAIN expect[t] \cup Goal[t].derived
        OBVIOUS
      <4>2. [n \in DOMAIN expect[t] \cup Goal[t].derived |->
                 IF n \in DOMAIN expect[t] THEN expect[t][n] ELSE live[n]]
            = [n \in DOMAIN expect[t] \cup S |-> IF n \in S THEN seen[n] ELSE expect[t][n]]
        BY <4>1
      <4> QED
        BY <2>2, <4>2 DEF Admit
    <3> HIDE DEF S, seen
    <3> QED
      BY <3>1, <3>2
  <2>3. ASSUME NEW n \in Target, Stage(p, n)
        PROVE  \E S \in SUBSET (Target \ DOMAIN expect[t]) : \E seen \in [S -> Value] :
                 expect' = [expect EXCEPT ![t] =
                   [m \in DOMAIN @ \cup S |-> IF m \in S THEN seen[m] ELSE @[m]]]
    <3> DEFINE basis == IF n \in DOMAIN mem[p].seen THEN mem[p].seen[n] ELSE live[n]
               seen == [m \in {n} |-> basis]
    <3>1. n \notin DOMAIN expect[t] /\ expect' = [expect EXCEPT ![t] = With(@, n, basis)]
      BY <2>3 DEF Stage, First, Unprepared
    <3>2. basis \in Value
      BY <2>1, PartialIsFunction
    <3>3. With(expect[t], n, basis) =
            [m \in DOMAIN expect[t] \cup {n} |-> IF m \in {n} THEN seen[m] ELSE expect[t][m]]
      BY DEF With
    <3>4. {n} \in SUBSET (Target \ DOMAIN expect[t]) /\ seen \in [{n} -> Value]
      BY <3>1, <3>2
    <3> HIDE DEF basis, seen
    <3> QED
      BY <3>1, <3>3, <3>4
  <2> QED
    BY <2>2, <2>3
<1> QED
  BY <1>2, <1>3, <1>4, <1>5 DEF Promise!Read

(* An abort, of the own transaction or of an abandoned one.                *)
LEMMA AbortStep ==
  ASSUME RefineInv, NEW p \in Proc, Becomes(cur[p], "ABORTED"),
         AbortOwn(p) \/ WriteAbort(p)
  PROVE  Promise!Cancel(cur[p])
<1> DEFINE t == cur[p]
<1>1. TypeInv
  BY DEF RefineInv, PlannedInv, KnowledgeInv, RecoveryInv
<1>2. /\ t \in Tx /\ meta[t] \in Unstarted /\ meta' = [meta EXCEPT ![t] = "ABORTED"]
      /\ UNCHANGED <<live, image, expect>>
  BY <1>1 DEF AbortOwn, WriteAbort, Becomes, TypeInv, IInv, ControlType, RecordAgrees,
     AgreesAt, Unstarted
<1>3. Logical' = Logical
  <2>1. \A x \in Tx : meta'[x] \in NeedsRecovery <=> meta[x] \in NeedsRecovery
    BY <1>1, <1>2 DEF TypeInv, IInv, ControlType, NeedsRecovery, Unstarted
  <2> QED
    BY <1>1, <1>2, <2>1, SameView DEF TypeInv, IInv
<1>4. Status[t] = "open" /\ Status' = [Status EXCEPT ![t] = "closed"]
  BY <1>1, <1>2, StatusRows, OneStatus DEF TypeInv, IInv, ControlType, GcTerminal
<1> QED
  BY <1>2, <1>3, <1>4 DEF Promise!Cancel

(* APPLYING: from here on the before-image stands for the targets, and it   *)
(* is what production still has.                                           *)
LEMMA StartStep ==
  ASSUME RefineInv, RefineInv', NEW p \in Proc, Becomes(cur[p], "APPLYING"),
         StartApplying(p)
  PROVE  UNCHANGED Promise!vars
<1> DEFINE t == cur[p]
<1>1. TypeInv /\ Undoable /\ SingleInFlight'
  BY DEF RefineInv, PlannedInv, KnowledgeInv, RecoveryInv, TypeInv, IInv
<1>2. /\ t \in Tx /\ meta[t] = "VALIDATED" /\ meta' = [meta EXCEPT ![t] = "APPLYING"]
      /\ UNCHANGED <<live, image, expect>>
  BY <1>1 DEF StartApplying, MetaWriteRaises, Becomes, TypeInv, IInv, ControlType,
     RecordAgrees, AgreesAt
<1>3. Logical' = Logical
  <2>1. \A n \in DOMAIN image[t].files : live[n] = image[t].files[n]
    BY <1>1, <1>2 DEF StartApplying, Undoable, Untouched, TypeInv, Coverage,
       RefineInv, NoDrift
  <2>2. Logical = [n \in Target |-> live[n]]
    BY <1>1, Views DEF QuietView, StartApplying, TypeInv, IInv, ClearedIsQuiet, Cleared
  <2>3. meta'[t] \in NeedsRecovery
    BY <1>1, <1>2 DEF TypeInv, IInv, ControlType, NeedsRecovery
  <2>4. UnsettledView'
    BY Views, PTL
  <2>5. Logical' = [n \in Target |-> IF n \in DOMAIN image'[t].files
                                       THEN image'[t].files[n] ELSE live'[n]]
    BY <1>1, <1>2, <2>3, <2>4 DEF UnsettledView
  <2> QED
    BY <1>2, <2>1, <2>2, <2>5
<1>4. Status' = Status
  <2>1. \A x \in Tx : Inner(meta[x], meta'[x])
    BY <1>1, <1>2 DEF TypeInv, IInv, ControlType, Inner, Unstarted, NeedsRecovery
  <2> QED
    BY <2>1, SameStatus
<1> QED
  BY <1>2, <1>3, <1>4 DEF Promise!vars

(* When the unsettled transaction is settled the configuration in force is *)
(* what production has.                                                    *)
LEMMA SettledView ==
  ASSUME TypeInv, NEW t \in Tx, meta[t] \in NeedsRecovery, NEW s \in GcTerminal,
         meta' = [meta EXCEPT ![t] = s], UNCHANGED <<live, image>>
  PROVE  /\ Logical = [n \in Target |-> IF n \in Staged(t) THEN image[t].files[n]
                                                           ELSE live[n]]
         /\ Logical' = [n \in Target |-> live[n]]
         /\ Status[t] = "open" /\ Status' = [Status EXCEPT ![t] = "closed"]
<1>1. Logical = [n \in Target |-> IF n \in Staged(t) THEN image[t].files[n] ELSE live[n]]
  BY Views DEF UnsettledView, TypeInv, IInv, Coverage
<1>2. \A x \in Tx : meta'[x] \notin NeedsRecovery
  BY DEF TypeInv, IInv, ControlType, SingleInFlight, NeedsRecovery, GcTerminal
<1>3. QuietView'
  BY Views, PTL
<1>4. Status[t] = "open" /\ Status' = [Status EXCEPT ![t] = "closed"]
  BY StatusRows, OneStatus DEF TypeInv, IInv, ControlType
<1>5. Logical' = [n \in Target |-> live[n]]
  BY <1>2, <1>3 DEF QuietView
<1> QED
  BY <1>1, <1>4, <1>5

(* COMMITTED: all writes take effect, on the basis that was read.          *)
LEMMA CommitStep ==
  ASSUME RefineInv, NEW p \in Proc, Becomes(cur[p], "COMMITTED"), MarkCommitted(p)
  PROVE  Promise!Commit(cur[p])
<1> DEFINE t == cur[p]
<1>1. TypeInv /\ BasisAt(p) /\ WrittenAt(p) /\ drift = [x \in Tx |-> {}]
  BY DEF RefineInv, NoDrift, PlannedInv, KnowledgeInv, RecoveryInv, Knowledge, Planned
<1>2. /\ t \in Tx /\ meta[t] = "OBSERVING" /\ meta' = [meta EXCEPT ![t] = "COMMITTED"]
      /\ UNCHANGED <<live, image, expect>> /\ pc[p] = "commit"
  BY <1>1 DEF MarkCommitted, MetaWriteRaises, Becomes, TypeInv, IInv, ControlType,
     RecordAgrees, AgreesAt
<1>3. /\ Logical = [n \in Target |-> IF n \in Staged(t) THEN image[t].files[n] ELSE live[n]]
      /\ Logical' = [n \in Target |-> live[n]]
      /\ Status[t] = "open" /\ Status' = [Status EXCEPT ![t] = "closed"]
  BY <1>1, <1>2, SettledView DEF NeedsRecovery, GcTerminal
<1>4. \A n \in DOMAIN expect[t] : n \in Target
  BY <1>1, <1>2, PartialIsFunction DEF TypeInv, DataType
<1>5. \A n \in DOMAIN expect[t] : Logical[n] = expect[t][n]
  BY <1>1, <1>2, <1>3, <1>4 DEF BasisAt
<1>6. \A n \in Staged(t) : live[n] = Goal[t].data[n]
  BY <1>1, <1>2 DEF WrittenAt
<1>7. Logical' = [n \in Target |-> IF n \in DOMAIN expect[t] \cap DOMAIN Goal[t].data
                                     THEN Goal[t].data[n] ELSE Logical[n]]
  BY <1>3, <1>6 DEF Staged
<1>8. [x \in Tx |-> Goal[x].data][t] = Goal[t].data
  BY <1>2
<1> QED
  BY <1>2, <1>3, <1>5, <1>7, <1>8 DEF Promise!Commit

(* ROLLED_BACK, by the process itself or by recover: none takes effect.    *)
LEMMA RollbackStep ==
  ASSUME RefineInv, NEW p \in Proc, Becomes(cur[p], "ROLLED_BACK"), ~mem[p].failed,
         (MarkRolledBack(p) /\ NotRestored(cur[p]) = {}) \/ MarkRecovered(p)
  PROVE  Promise!Cancel(cur[p])
<1> DEFINE t == cur[p]
<1>1. TypeInv /\ UndoneAt(p) /\ drift = [x \in Tx |-> {}]
  BY DEF RefineInv, NoDrift, PlannedInv, KnowledgeInv, RecoveryInv, Knowledge
<1>2. /\ t \in Tx /\ meta[t] \in NeedsRecovery /\ meta' = [meta EXCEPT ![t] = "ROLLED_BACK"]
      /\ UNCHANGED <<live, image, expect>>
  BY <1>1 DEF MarkRolledBack, MarkRecovered, RecoveryVerdict, MetaWriteRaises, Becomes,
     TypeInv, IInv, ControlType, RecordAgrees, AgreesAt, NeedsRecovery
<1>3. /\ Logical = [n \in Target |-> IF n \in Staged(t) THEN image[t].files[n] ELSE live[n]]
      /\ Logical' = [n \in Target |-> live[n]]
      /\ Status[t] = "open" /\ Status' = [Status EXCEPT ![t] = "closed"]
  BY <1>1, <1>2, SettledView DEF GcTerminal
<1>4. \A n \in Staged(t) : live[n] = image[t].files[n]
  BY <1>1, <1>2 DEF MarkRecovered, NotRestored, UndoneAt
<1> QED
  BY <1>2, <1>3, <1>4 DEF Promise!Cancel

(* Every other step means nothing to the promise: it writes records within *)
(* a phase, memory, units, or targets that a before-image stands for.      *)
LEMMA InnerStep ==
  ASSUME Outside = {}, RefineInv, [Next]_vars, expect' = expect,
         \A t \in Tx : /\ \A s \in {"COMMITTED", "ROLLED_BACK", "ABORTED", "APPLYING"} :
                            ~Becomes(t, s)
                       /\ meta[t] = "none" => meta'[t] = "none"
  PROVE  UNCHANGED Promise!vars
<1>1. TypeInv /\ meta \in [Tx -> States]
  BY DEF RefineInv, PlannedInv, KnowledgeInv, RecoveryInv, TypeInv, IInv, ControlType
<1>2. \A t \in Tx : Inner(meta[t], meta'[t])
  <2>1. LegalStep
    BY <1>1, StepLegal DEF TypeInv
  <2> QED
    BY <1>1, <2>1 DEF LegalStep, Successors, Allowed, Becomes, Inner, States, Unstarted,
       NeedsRecovery, GcTerminal
<1>3. \A t \in Tx : meta'[t] \in NeedsRecovery <=> meta[t] \in NeedsRecovery
  <2>1. LegalStep
    BY <1>1, StepLegal DEF TypeInv
  <2> QED
    BY <1>1, <2>1 DEF LegalStep, Successors, Allowed, Becomes, States, Unstarted,
       NeedsRecovery, GcTerminal
<1>4. ASSUME NEW t \in Tx, meta[t] \in NeedsRecovery
      PROVE  image'[t] = image[t]
  <2>1. ASSUME NEW p \in Proc, SaveBefore(p)
        PROVE  image'[t] = image[t]
    <3>1. cur[p] # t
      BY <1>1, <1>4, <2>1 DEF SaveBefore, TypeInv, IInv, RecordAgrees, AgreesAt,
         NeedsRecovery
    <3> QED
      BY <1>1, <2>1, <3>1 DEF SaveBefore, TypeInv, DataType
  <2> QED
    BY <2>1, WhoWrites DEF Writers
<1>5. ASSUME NEW n \in Target, live'[n] # live[n]
      PROVE  \E t \in Tx : meta[t] \in NeedsRecovery /\ n \in DOMAIN image[t].files
  <2>1. PICK p \in Proc : ApplyTarget(p) \/ RestoreTarget(p) \/ UndoTarget(p)
    BY <1>5, WhoWrites DEF Writers
  <2>2. pc[p] \in {"apply", "restore", "undo"}
    BY <2>1 DEF ApplyTarget, RestoreTarget, UndoTarget
  <2>3. cur[p] \in Tx /\ meta[cur[p]] \in NeedsRecovery
    BY <1>1, <2>2 DEF TypeInv, IInv, ControlType, RecordAgrees, AgreesAt, NeedsRecovery
  <2>4. n \in mem[p].todo
    BY <1>1, <1>5, <2>1 DEF ApplyTarget, RestoreTarget, UndoTarget, Old, TypeInv, DataType
  <2>5. n \in DOMAIN image[cur[p]].files
    BY <1>1, <2>2, <2>3, <2>4 DEF TypeInv, Coverage
  <2> QED
    BY <2>3, <2>5
<1>6. Logical' = Logical
  BY <1>1, <1>3, <1>4, <1>5, SameView DEF TypeInv, IInv
<1>7. Status' = Status
  BY <1>2, SameStatus
<1> QED
  BY <1>6, <1>7 DEF Promise!vars

(* So every step of the core is one of the promise, or none.               *)
LEMMA StepPromise ==
  Outside = {} /\ RefineInv /\ RefineInv' /\ [Next]_vars
    => [Promise!Next]_(Promise!vars)
<1> SUFFICES ASSUME Outside = {}, RefineInv, RefineInv', [Next]_vars
             PROVE  Promise!Next \/ UNCHANGED Promise!vars
  OBVIOUS
<1>1. IInv
  BY DEF RefineInv, PlannedInv, KnowledgeInv, RecoveryInv, TypeInv
<1>2. \A p \in Proc : pc[p] # "idle" => cur[p] \in Tx
  BY <1>1 DEF IInv, ControlType
<1>3. ASSUME NEW t \in Tx, Becomes(t, "COMMITTED")
      PROVE  Promise!Next
  BY <1>1, <1>3, WhoSettles, CommitStep DEF Promise!Next
<1>4. ASSUME NEW t \in Tx, Becomes(t, "ROLLED_BACK")
      PROVE  Promise!Next
  BY <1>1, <1>4, WhoSettles, RollbackStep DEF Promise!Next
<1>5. ASSUME NEW t \in Tx, Becomes(t, "ABORTED")
      PROVE  Promise!Next
  BY <1>1, <1>5, WhoMoves, AbortStep DEF Promise!Next
<1>6. ASSUME NEW t \in Tx, Becomes(t, "APPLYING")
      PROVE  UNCHANGED Promise!vars
  BY <1>1, <1>6, WhoMoves, StartStep
<1>7. ASSUME NEW t \in Tx, meta[t] = "none", meta'[t] # "none"
      PROVE  Promise!Next
  BY <1>1, <1>7, WhoMoves, OpenStep DEF Promise!Next
<1>8. ASSUME NEW p \in Proc, Admit(p) \/ \E n \in Target : Stage(p, n)
      PROVE  Promise!Next
  <2>1. cur[p] \in Tx
    BY <1>2, <1>8 DEF Admit, Stage
  <2> QED
    BY <1>8, <2>1, ReadStep DEF Promise!Next
<1>9. CASE /\ expect' = expect
           /\ \A t \in Tx : /\ \A s \in {"COMMITTED", "ROLLED_BACK", "ABORTED", "APPLYING"} :
                                 ~Becomes(t, s)
                            /\ meta[t] = "none" => meta'[t] = "none"
  BY <1>9, InnerStep
<1>10. expect' = expect \/ \E p \in Proc : Admit(p) \/ \E n \in Target : Stage(p, n)
  BY WhoWrites DEF Writers
<1> QED
  BY <1>3, <1>4, <1>5, <1>6, <1>7, <1>8, <1>9, <1>10

-----------------------------------------------------------------------------
(* The core implements AtomicConfig where nobody edits without the lock and *)
(* no file is deleted twice: crashes, failed rollbacks and recoveries       *)
(* included, a change of the configuration is all or nothing, and based on *)
(* what was read.                                                          *)
THEOREM ChangesAreAtomic ==
  ASSUME Disciplined, DeletedOnce, Outside = {}
  PROVE  Spec => AtomicChange
<1>1. Init => RefineInv
  BY InitPlannedInv DEF Init, RefineInv, NoDrift
<1>2. RefineInv /\ [Next]_vars => RefineInv'
  BY StepPlannedInv, StepNoDrift DEF RefineInv
<1>3. Init => Promise!Init
  BY InitPromise
<1>4. RefineInv /\ RefineInv' /\ [Next]_vars => [Promise!Next]_(Promise!vars)
  BY StepPromise
<1> QED
  BY <1>1, <1>2, <1>3, <1>4, PTL DEF Spec, AtomicChange, Promise!Spec
=============================================================================
