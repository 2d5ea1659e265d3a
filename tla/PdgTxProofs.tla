---------------------------- MODULE PdgTxProofs ----------------------------
(***************************************************************************)
(* Theorems about PdgTx, for every value of its constants: one transaction *)
(* at a time is in flight, recorded states only move along _ALLOWED, the    *)
(* types hold, and what meta.json shows as unsettled can be undone,         *)
(* provided the operators follow the rules "solo" and "fresh".             *)
(***************************************************************************)
EXTENDS PdgTx, TLAPS

(* Where a process holds the lock.                                         *)
Critical == Locked \cup {"start", "apply", "observe", "commit", "finish",
                         "rollback", "restore", "preflight", "undo"}

(* Between the pending check and APPLYING.                                 *)
Cleared == {"baseline", "check", "image", "start"}

(* The types of the variables the argument is about.                       *)
ControlType ==
  /\ lock \in Proc \cup {NoProc}
  /\ meta \in [Tx -> States]
  /\ pc \in [Proc -> Places]
  /\ cur \in [Proc -> Tx \cup {NoTx}]
  /\ \A p \in Proc : pc[p] = "idle" <=> cur[p] = NoTx

HolderIsCritical == \A p \in Proc : lock = p <=> pc[p] \in Critical

OneHandPerTx ==
  \A p, q \in Proc : p # q /\ cur[p] = cur[q] => cur[p] = NoTx

(* What meta.json says of the transaction a process works on.              *)
AgreesAt(p) ==
  /\ pc[p] \in {"prep", "loaded", "admit", "baseline", "check"} =>
       meta[cur[p]] = "PREPARING"
  /\ pc[p] \in {"image", "start"} => meta[cur[p]] = "VALIDATED"
  /\ pc[p] \in {"refused", "abort"} => meta[cur[p]] \in Unstarted
  /\ pc[p] = "apply" => meta[cur[p]] = "APPLYING"
  /\ pc[p] \in {"observe", "commit"} => meta[cur[p]] = "OBSERVING"
  /\ pc[p] = "rollback" => meta[cur[p]] \in {"APPLYING", "OBSERVING"}
  /\ pc[p] = "restore" => meta[cur[p]] = "ROLLING_BACK"
  /\ pc[p] \in {"recover", "preflight", "undo"} => meta[cur[p]] \in NeedsRecovery
  /\ pc[p] = "finish" => meta[cur[p]] \in GcTerminal \cup {"ROLLBACK_FAILED"}

RecordAgrees == \A p \in Proc : AgreesAt(p)

ClearedIsQuiet ==
  \A p \in Proc : pc[p] \in Cleared => \A t \in Tx : meta[t] \notin NeedsRecovery

IInv ==
  /\ ControlType
  /\ HolderIsCritical
  /\ OneHandPerTx
  /\ RecordAgrees
  /\ ClearedIsQuiet
  /\ SingleInFlight

(* At the start nothing runs and nothing is recorded.                      *)
LEMMA InitIInv == Init => IInv
BY ConstantsAssumption
   DEF Init, IInv, ControlType, HolderIsCritical, OneHandPerTx, RecordAgrees,
       AgreesAt,
   ClearedIsQuiet, SingleInFlight, Critical, Cleared, Locked, States, Places,
   Unstarted, GcTerminal, NeedsRecovery

-----------------------------------------------------------------------------
(* The rules the operators follow.                                         *)
Disciplined == {"solo", "fresh"} \subseteq Discipline

(* A write of one transaction's record leaves the others alone.            *)
LEMMA OthersKept ==
  ASSUME NEW x \in Tx, NEW y, x # y, meta \in [Tx -> States], NEW s,
         meta' = meta \/ meta' = [meta EXCEPT ![y] = s]
  PROVE  meta'[x] = meta[x]
OBVIOUS

(* So a process that works on another transaction still agrees with it.    *)
LEMMA AgreementKept ==
  ASSUME ControlType, OneHandPerTx,
         NEW p \in Proc, NEW q \in Proc, q # p, AgreesAt(q),
         pc'[q] = pc[q], cur'[q] = cur[q], NEW s,
         meta' = meta \/ meta' = [meta EXCEPT ![cur[p]] = s]
  PROVE  AgreesAt(q)'
<1>1. CASE pc[q] = "idle"
  BY <1>1 DEF AgreesAt
<1>2. CASE pc[q] # "idle"
  <2>1. cur[q] \in Tx /\ cur[q] # cur[p]
    BY <1>2 DEF ControlType, OneHandPerTx
  <2>2. meta'[cur[q]] = meta[cur[q]]
    BY <2>1, OthersKept DEF ControlType
  <2> QED
    BY <2>2 DEF AgreesAt
<1> QED
  BY <1>1, <1>2

(* The garbage collection only touches records in GC_TERMINAL.             *)
LEMMA CollectedWereFinished ==
  ASSUME NEW p \in Proc, Finish(p), NEW t \in Tx, meta[t] \notin GcTerminal
  PROVE  meta'[t] = meta[t]
BY DEF Finish, Doomed

(* IInv is inductive.  Its parts hold each other up: the lock keeps one    *)
(* process between the pending check and APPLYING (ClearedIsQuiet), and a  *)
(* record is only moved by the one process that works on it (OneHandPerTx, *)
(* RecordAgrees), which is where the rules "solo" and "fresh" are needed.  *)
LEMMA StepIInv == Disciplined /\ IInv /\ [Next]_vars => IInv'
<1> SUFFICES ASSUME Disciplined, IInv, [Next]_vars
             PROVE  IInv'
  OBVIOUS
<1> USE ConstantsAssumption
<1> USE DEF Disciplined, IInv, ControlType, HolderIsCritical, OneHandPerTx,
            RecordAgrees, AgreesAt, ClearedIsQuiet, SingleInFlight, Critical, Cleared,
            Locked, States, Places, Unstarted, GcTerminal, NeedsRecovery,
            Go, End, Release, disk
<1>1. ASSUME NEW p \in Proc, NEW t \in Tx, New(p, t)
     PROVE  IInv'
  BY <1>1 DEF New, Solo
<1>2. ASSUME NEW p \in Proc, NEW t \in Tx, ApplyByHand(p, t)
     PROVE  IInv'
  BY <1>2 DEF ApplyByHand, Rebuild, Solo
<1>3. ASSUME NEW p \in Proc, NEW t \in Tx, ReadForAbort(p, t)
     PROVE  IInv'
  BY <1>3 DEF ReadForAbort, Solo
<1>4. ASSUME NEW p \in Proc, NEW t \in Tx, NEW force \in BOOLEAN, ReadForRecover(p, t, force)
     PROVE  IInv'
  BY <1>4 DEF ReadForRecover, Solo
<1>5. ASSUME NEW p \in Proc, NEW m \in Target, ReadForUpdate(p, m)
     PROVE  IInv'
  BY <1>5 DEF ReadForUpdate
<1>6. ASSUME NEW p \in Proc, NEW m \in Target, Stage(p, m)
     PROVE  IInv'
  BY <1>6 DEF Stage
<1>7. ASSUME NEW p \in Proc, ApplyStaged(p)
     PROVE  IInv'
  BY <1>7 DEF ApplyStaged, Rebuild
<1>8. ASSUME NEW p \in Proc, AbortOwn(p)
     PROVE  IInv'
  <2>1. ControlType'
    BY <1>8 DEF AbortOwn
  <2>2. HolderIsCritical'
    BY <1>8 DEF AbortOwn
  <2>3. OneHandPerTx'
    BY <1>8 DEF AbortOwn
  <2>4. RecordAgrees'
    <3> SUFFICES ASSUME NEW q \in Proc
                 PROVE  AgreesAt(q)'
      OBVIOUS
    <3>1. CASE q = p
      BY <1>8, <3>1 DEF AbortOwn
    <3>2. CASE q # p
      <4>1. pc'[q] = pc[q] /\ cur'[q] = cur[q]
        BY <1>8, <3>2 DEF AbortOwn
      <4>2. PICK s \in {"ABORTED"} :
              meta' = meta \/ meta' = [meta EXCEPT ![cur[p]] = s]
        BY <1>8 DEF AbortOwn
      <4> QED
        BY <3>2, <4>1, <4>2, AgreementKept
    <3> QED
      BY <3>1, <3>2
  <2>5. ClearedIsQuiet'
    BY <1>8 DEF AbortOwn
  <2>6. SingleInFlight'
    BY <1>8 DEF AbortOwn
  <2> QED
    BY <2>1, <2>2, <2>3, <2>4, <2>5, <2>6
<1>9. ASSUME NEW p \in Proc, CommitLock(p)
     PROVE  IInv'
  BY <1>9 DEF CommitLock
<1>10. ASSUME NEW p \in Proc, Admit(p)
     PROVE  IInv'
  BY <1>10 DEF Admit, Pending
<1>11. ASSUME NEW p \in Proc, Baseline(p)
     PROVE  IInv'
  BY <1>11 DEF Baseline
<1>12. ASSUME NEW p \in Proc, Validate(p)
     PROVE  IInv'
  BY <1>12 DEF Validate
<1>13. ASSUME NEW p \in Proc, Refuse(p)
     PROVE  IInv'
  BY <1>13 DEF Refuse, SavedByCheck
<1>14. ASSUME NEW p \in Proc, Escape(p)
     PROVE  IInv'
  BY <1>14 DEF Escape, SavedByCheck
<1>15. ASSUME NEW p \in Proc, SaveBefore(p)
     PROVE  IInv'
  BY <1>15 DEF SaveBefore
<1>16. ASSUME NEW p \in Proc, StartApplying(p)
     PROVE  IInv'
  BY <1>16 DEF StartApplying, MetaWriteRaises
<1>17. ASSUME NEW p \in Proc, ApplyTarget(p)
     PROVE  IInv'
  BY <1>17 DEF ApplyTarget
<1>18. ASSUME NEW p \in Proc, DoAction(p)
     PROVE  IInv'
  BY <1>18 DEF DoAction
<1>19. ASSUME NEW p \in Proc, StartObserving(p)
     PROVE  IInv'
  BY <1>19 DEF StartObserving
<1>20. ASSUME NEW p \in Proc, Observe(p)
     PROVE  IInv'
  BY <1>20 DEF Observe
<1>21. ASSUME NEW p \in Proc, MarkCommitted(p)
     PROVE  IInv'
  <2>1. ControlType'
    BY <1>21 DEF MarkCommitted, MetaWriteRaises
  <2>2. HolderIsCritical'
    BY <1>21 DEF MarkCommitted, MetaWriteRaises
  <2>3. OneHandPerTx'
    BY <1>21 DEF MarkCommitted, MetaWriteRaises
  <2>4. RecordAgrees'
    <3> SUFFICES ASSUME NEW q \in Proc
                 PROVE  AgreesAt(q)'
      OBVIOUS
    <3>1. CASE q = p
      BY <1>21, <3>1 DEF MarkCommitted, MetaWriteRaises
    <3>2. CASE q # p
      <4>1. pc'[q] = pc[q] /\ cur'[q] = cur[q]
        BY <1>21, <3>2 DEF MarkCommitted, MetaWriteRaises
      <4>2. PICK s \in {"COMMITTED"} :
              meta' = meta \/ meta' = [meta EXCEPT ![cur[p]] = s]
        BY <1>21 DEF MarkCommitted, MetaWriteRaises
      <4> QED
        BY <3>2, <4>1, <4>2, AgreementKept
    <3> QED
      BY <3>1, <3>2
  <2>5. ClearedIsQuiet'
    BY <1>21 DEF MarkCommitted, MetaWriteRaises
  <2>6. SingleInFlight'
    BY <1>21 DEF MarkCommitted, MetaWriteRaises
  <2> QED
    BY <2>1, <2>2, <2>3, <2>4, <2>5, <2>6
<1>22. ASSUME NEW p \in Proc, Finish(p)
     PROVE  IInv'
  <2>1. ControlType'
    BY <1>22 DEF Finish, Doomed
  <2>2. HolderIsCritical'
    BY <1>22 DEF Finish, Doomed
  <2>3. OneHandPerTx'
    BY <1>22 DEF Finish, Doomed
  <2>4. RecordAgrees'
    <3> SUFFICES ASSUME NEW q \in Proc
                 PROVE  AgreesAt(q)'
      OBVIOUS
    <3>1. CASE q = p
      BY <1>22, <3>1 DEF Finish, Doomed
    <3>2. CASE q # p
      <4>1. pc'[q] = pc[q] /\ cur'[q] = cur[q]
        BY <1>22, <3>2 DEF Finish, Doomed
      <4>2. pc[q] # "idle" => /\ cur[q] \in Tx /\ cur[q] # cur[p]
                              /\ pc[q] # "finish" \/ pc[p] # "finish"
        BY <3>2
      <4>3. \A t \in Tx : meta[t] \notin GcTerminal => meta'[t] = meta[t]
        BY <1>22, CollectedWereFinished
      <4>4. pc[q] # "idle" => meta[cur[q]] \notin GcTerminal
        BY <1>22, <4>2 DEF Finish
      <4>5. pc[q] # "idle" => meta'[cur[q]] = meta[cur[q]]
        BY <4>2, <4>3, <4>4
      <4> QED
        BY <4>1, <4>2, <4>5
    <3> QED
      BY <3>1, <3>2
  <2>5. ClearedIsQuiet'
    BY <1>22 DEF Finish, Doomed
  <2>6. SingleInFlight'
    BY <1>22 DEF Finish, Doomed
  <2> QED
    BY <2>1, <2>2, <2>3, <2>4, <2>5, <2>6
<1>23. ASSUME NEW p \in Proc, StartRollback(p)
     PROVE  IInv'
  BY <1>23 DEF StartRollback, MetaWriteRaises
<1>24. ASSUME NEW p \in Proc, RestoreTarget(p)
     PROVE  IInv'
  BY <1>24 DEF RestoreTarget
<1>25. ASSUME NEW p \in Proc, RestoreUnit(p)
     PROVE  IInv'
  BY <1>25 DEF RestoreUnit
<1>26. ASSUME NEW p \in Proc, MarkRolledBack(p)
     PROVE  IInv'
  <2>1. ControlType'
    BY <1>26 DEF MarkRolledBack, MetaWriteRaises
  <2>2. HolderIsCritical'
    BY <1>26 DEF MarkRolledBack, MetaWriteRaises
  <2>3. OneHandPerTx'
    BY <1>26 DEF MarkRolledBack, MetaWriteRaises
  <2>4. RecordAgrees'
    <3> SUFFICES ASSUME NEW q \in Proc
                 PROVE  AgreesAt(q)'
      OBVIOUS
    <3>1. CASE q = p
      BY <1>26, <3>1 DEF MarkRolledBack, MetaWriteRaises
    <3>2. CASE q # p
      <4>1. pc'[q] = pc[q] /\ cur'[q] = cur[q]
        BY <1>26, <3>2 DEF MarkRolledBack, MetaWriteRaises
      <4>2. PICK s \in {"ROLLED_BACK", "ROLLBACK_FAILED"} :
              meta' = meta \/ meta' = [meta EXCEPT ![cur[p]] = s]
        BY <1>26 DEF MarkRolledBack, MetaWriteRaises
      <4> QED
        BY <3>2, <4>1, <4>2, AgreementKept
    <3> QED
      BY <3>1, <3>2
  <2>5. ClearedIsQuiet'
    BY <1>26 DEF MarkRolledBack, MetaWriteRaises
  <2>6. SingleInFlight'
    BY <1>26 DEF MarkRolledBack, MetaWriteRaises
  <2> QED
    BY <2>1, <2>2, <2>3, <2>4, <2>5, <2>6
<1>27. ASSUME NEW p \in Proc, RecoverLock(p)
     PROVE  IInv'
  BY <1>27 DEF RecoverLock
<1>28. ASSUME NEW p \in Proc, Preflight(p)
     PROVE  IInv'
  BY <1>28 DEF Preflight
<1>29. ASSUME NEW p \in Proc, UndoTarget(p)
     PROVE  IInv'
  BY <1>29 DEF UndoTarget
<1>30. ASSUME NEW p \in Proc, MarkRecovered(p)
     PROVE  IInv'
  <2>1. ControlType'
    BY <1>30 DEF MarkRecovered, MetaWriteRaises, RecoveryVerdict
  <2>2. HolderIsCritical'
    BY <1>30 DEF MarkRecovered, MetaWriteRaises, RecoveryVerdict
  <2>3. OneHandPerTx'
    BY <1>30 DEF MarkRecovered, MetaWriteRaises, RecoveryVerdict
  <2>4. RecordAgrees'
    <3> SUFFICES ASSUME NEW q \in Proc
                 PROVE  AgreesAt(q)'
      OBVIOUS
    <3>1. CASE q = p
      BY <1>30, <3>1 DEF MarkRecovered, MetaWriteRaises, RecoveryVerdict
    <3>2. CASE q # p
      <4>1. pc'[q] = pc[q] /\ cur'[q] = cur[q]
        BY <1>30, <3>2 DEF MarkRecovered, MetaWriteRaises, RecoveryVerdict
      <4>2. PICK s \in {"ROLLED_BACK", "ROLLBACK_FAILED"} :
              meta' = meta \/ meta' = [meta EXCEPT ![cur[p]] = s]
        BY <1>30 DEF MarkRecovered, MetaWriteRaises, RecoveryVerdict
      <4> QED
        BY <3>2, <4>1, <4>2, AgreementKept
    <3> QED
      BY <3>1, <3>2
  <2>5. ClearedIsQuiet'
    BY <1>30 DEF MarkRecovered, MetaWriteRaises, RecoveryVerdict
  <2>6. SingleInFlight'
    BY <1>30 DEF MarkRecovered, MetaWriteRaises, RecoveryVerdict
  <2> QED
    BY <2>1, <2>2, <2>3, <2>4, <2>5, <2>6
<1>31. ASSUME NEW p \in Proc, WriteAbort(p)
     PROVE  IInv'
  BY <1>31 DEF WriteAbort
<1>32. ASSUME NEW p \in Proc, Crash(p)
     PROVE  IInv'
  BY <1>32 DEF Crash
<1>33. ASSUME NEW m \in Outside, NEW v \in Value, Edit(m, v)
     PROVE  IInv'
  BY <1>33 DEF Edit
<1>34. ASSUME NEW u \in Flaky, Flap(u)
     PROVE  IInv'
  BY <1>34 DEF Flap
<1>35. CASE UNCHANGED vars
  BY <1>35 DEF vars
<1> HIDE DEF Disciplined, IInv, ControlType, HolderIsCritical, OneHandPerTx,
             RecordAgrees, AgreesAt, ClearedIsQuiet, SingleInFlight, Critical,
             Cleared, Locked, States, Places, Unstarted, GcTerminal,
             NeedsRecovery, Go, End, Release, disk
<1>36. ASSUME NEW p \in Proc, Begin(p)
      PROVE  IInv'
  BY <1>36, <1>1, <1>2, <1>3, <1>4 DEF Begin
<1>37. ASSUME NEW p \in Proc, Step(p)
      PROVE  IInv'
  BY <1>37, <1>5, <1>6, <1>7, <1>8, <1>9, <1>10, <1>11, <1>12, <1>13, <1>14,
     <1>15, <1>16, <1>17, <1>18, <1>19, <1>20, <1>21, <1>22, <1>23, <1>24, <1>25,
     <1>26, <1>27, <1>28, <1>29, <1>30, <1>31
     DEF Step
<1>38. CASE Environment
  BY <1>38, <1>32, <1>33, <1>34 DEF Environment
<1> QED
  BY <1>35, <1>36, <1>37, <1>38 DEF Next

(* The core never has two unsettled transactions, whatever their number,   *)
(* targets and outcomes: pending_recovery is read under the lock, and no   *)
(* other process moves a record into NEEDS_RECOVERY meanwhile.             *)
THEOREM OneInFlight ==
  ASSUME Disciplined
  PROVE  Spec => []SingleInFlight
<1>1. Init => IInv
  BY InitIInv
<1>2. IInv /\ [Next]_vars => IInv'
  BY StepIInv
<1>3. IInv => SingleInFlight
  BY DEF IInv
<1> QED
  BY <1>1, <1>2, <1>3, PTL DEF Spec

-----------------------------------------------------------------------------
(* What _ALLOWED and recover permit, row by row.                           *)
LEMMA SuccessorRows ==
  /\ Successors("none") = {"PREPARING"}
  /\ Successors("PREPARING") = {"VALIDATED", "ABORTED"}
  /\ Successors("VALIDATED") = {"APPLYING", "ABORTED"}
  /\ {"OBSERVING", "ROLLING_BACK"} \subseteq Successors("APPLYING")
  /\ {"COMMITTED", "ROLLING_BACK"} \subseteq Successors("OBSERVING")
  /\ \A s \in NeedsRecovery : {"ROLLED_BACK", "ROLLBACK_FAILED"} \subseteq Successors(s)
  /\ \A s \in GcTerminal : Successors(s) = {"gone"}
BY DEF Successors, Allowed, States, Unstarted, GcTerminal, NeedsRecovery

(* A write that follows _ALLOWED is a legal step.                          *)
LEMMA LegalWrite ==
  ASSUME ControlType, NEW t \in Tx, NEW s,
         meta' = meta \/ meta' = [meta EXCEPT ![t] = s],
         s = meta[t] \/ s \in Successors(meta[t])
  PROVE  LegalStep
BY DEF ControlType, LegalStep

(* Each write of meta.json follows _ALLOWED: RecordAgrees says what state  *)
(* it starts from.                                                         *)
LEMMA StepLegal == IInv /\ [Next]_vars => LegalStep
<1> SUFFICES ASSUME IInv, [Next]_vars
             PROVE  LegalStep
  OBVIOUS
<1> USE DEF IInv, ControlType
<1>1. ASSUME meta' = meta
      PROVE  LegalStep
  BY <1>1 DEF LegalStep
<1>2. ASSUME NEW p \in Proc, pc[p] # "idle", NEW s,
             meta' = meta \/ meta' = [meta EXCEPT ![cur[p]] = s],
             s = meta[cur[p]] \/ s \in Successors(meta[cur[p]])
      PROVE  LegalStep
  BY <1>2, LegalWrite
<1>3. ASSUME NEW p \in Proc, NEW t \in Tx, New(p, t)
      PROVE  LegalStep
  BY <1>3, LegalWrite, SuccessorRows DEF New
<1>4. ASSUME NEW p \in Proc, AbortOwn(p)
      PROVE  LegalStep
  <2>1. PICK s \in {"ABORTED"} :
          meta' = meta \/ meta' = [meta EXCEPT ![cur[p]] = s]
    BY <1>4 DEF AbortOwn
  <2>2. s = meta[cur[p]] \/ s \in Successors(meta[cur[p]])
    BY <1>4, SuccessorRows
       DEF AbortOwn, RecordAgrees, AgreesAt, NeedsRecovery, Unstarted
  <2> QED
    BY <1>2, <1>4, <2>1, <2>2 DEF AbortOwn
<1>5. ASSUME NEW p \in Proc, Validate(p)
      PROVE  LegalStep
  <2>1. PICK s \in {"VALIDATED"} :
          meta' = meta \/ meta' = [meta EXCEPT ![cur[p]] = s]
    BY <1>5 DEF Validate
  <2>2. s = meta[cur[p]] \/ s \in Successors(meta[cur[p]])
    BY <1>5, SuccessorRows
       DEF Validate, RecordAgrees, AgreesAt, NeedsRecovery, Unstarted
  <2> QED
    BY <1>2, <1>5, <2>1, <2>2 DEF Validate
<1>6. ASSUME NEW p \in Proc, StartApplying(p)
      PROVE  LegalStep
  <2>1. PICK s \in {"APPLYING"} :
          meta' = meta \/ meta' = [meta EXCEPT ![cur[p]] = s]
    BY <1>6 DEF StartApplying, MetaWriteRaises
  <2>2. s = meta[cur[p]] \/ s \in Successors(meta[cur[p]])
    BY <1>6, SuccessorRows
       DEF StartApplying, RecordAgrees, AgreesAt, NeedsRecovery, Unstarted
  <2> QED
    BY <1>2, <1>6, <2>1, <2>2 DEF StartApplying
<1>7. ASSUME NEW p \in Proc, StartObserving(p)
      PROVE  LegalStep
  <2>1. PICK s \in {"OBSERVING"} :
          meta' = meta \/ meta' = [meta EXCEPT ![cur[p]] = s]
    BY <1>7 DEF StartObserving
  <2>2. s = meta[cur[p]] \/ s \in Successors(meta[cur[p]])
    BY <1>7, SuccessorRows
       DEF StartObserving, RecordAgrees, AgreesAt, NeedsRecovery, Unstarted
  <2> QED
    BY <1>2, <1>7, <2>1, <2>2 DEF StartObserving
<1>8. ASSUME NEW p \in Proc, MarkCommitted(p)
      PROVE  LegalStep
  <2>1. PICK s \in {"COMMITTED"} :
          meta' = meta \/ meta' = [meta EXCEPT ![cur[p]] = s]
    BY <1>8 DEF MarkCommitted, MetaWriteRaises
  <2>2. s = meta[cur[p]] \/ s \in Successors(meta[cur[p]])
    BY <1>8, SuccessorRows
       DEF MarkCommitted, RecordAgrees, AgreesAt, NeedsRecovery, Unstarted
  <2> QED
    BY <1>2, <1>8, <2>1, <2>2 DEF MarkCommitted
<1>9. ASSUME NEW p \in Proc, StartRollback(p)
      PROVE  LegalStep
  <2>1. PICK s \in {"ROLLING_BACK"} :
          meta' = meta \/ meta' = [meta EXCEPT ![cur[p]] = s]
    BY <1>9 DEF StartRollback, MetaWriteRaises
  <2>2. s = meta[cur[p]] \/ s \in Successors(meta[cur[p]])
    BY <1>9, SuccessorRows
       DEF StartRollback, RecordAgrees, AgreesAt, NeedsRecovery, Unstarted
  <2> QED
    BY <1>2, <1>9, <2>1, <2>2 DEF StartRollback
<1>10. ASSUME NEW p \in Proc, MarkRolledBack(p)
      PROVE  LegalStep
  <2>1. PICK s \in {"ROLLED_BACK", "ROLLBACK_FAILED"} :
          meta' = meta \/ meta' = [meta EXCEPT ![cur[p]] = s]
    BY <1>10 DEF MarkRolledBack, MetaWriteRaises
  <2>2. s = meta[cur[p]] \/ s \in Successors(meta[cur[p]])
    BY <1>10, SuccessorRows
       DEF MarkRolledBack, RecordAgrees, AgreesAt, NeedsRecovery, Unstarted
  <2> QED
    BY <1>2, <1>10, <2>1, <2>2 DEF MarkRolledBack
<1>11. ASSUME NEW p \in Proc, MarkRecovered(p)
      PROVE  LegalStep
  <2>1. PICK s \in {"ROLLED_BACK", "ROLLBACK_FAILED"} :
          meta' = meta \/ meta' = [meta EXCEPT ![cur[p]] = s]
    BY <1>11 DEF MarkRecovered, MetaWriteRaises, RecoveryVerdict
  <2>2. s = meta[cur[p]] \/ s \in Successors(meta[cur[p]])
    BY <1>11, SuccessorRows
       DEF MarkRecovered, RecordAgrees, AgreesAt, NeedsRecovery, Unstarted
  <2> QED
    BY <1>2, <1>11, <2>1, <2>2 DEF MarkRecovered
<1>12. ASSUME NEW p \in Proc, WriteAbort(p)
      PROVE  LegalStep
  <2>1. PICK s \in {"ABORTED"} :
          meta' = meta \/ meta' = [meta EXCEPT ![cur[p]] = s]
    BY <1>12 DEF WriteAbort
  <2>2. s = meta[cur[p]] \/ s \in Successors(meta[cur[p]])
    BY <1>12, SuccessorRows
       DEF WriteAbort, RecordAgrees, AgreesAt, NeedsRecovery, Unstarted
  <2> QED
    BY <1>2, <1>12, <2>1, <2>2 DEF WriteAbort
<1>13. ASSUME NEW p \in Proc, Refuse(p)
      PROVE  LegalStep
  <2>1. PICK s \in {meta[cur[p]], "PREPARING", "VALIDATED"} :
          /\ meta' = [meta EXCEPT ![cur[p]] = s]
          /\ s = meta[cur[p]] \/ pc[p] = "check"
    BY <1>13 DEF Refuse, SavedByCheck
  <2>2. s = meta[cur[p]] \/ s \in Successors(meta[cur[p]])
    BY <2>1, SuccessorRows DEF RecordAgrees, AgreesAt
  <2> QED
    BY <1>2, <1>13, <2>1, <2>2 DEF Refuse, Locked
<1>14. ASSUME NEW p \in Proc, Escape(p)
      PROVE  LegalStep
  <2>1. PICK s \in {meta[cur[p]], "PREPARING", "VALIDATED"} :
          /\ meta' = [meta EXCEPT ![cur[p]] = s]
          /\ s = meta[cur[p]] \/ pc[p] = "check"
    BY <1>14 DEF Escape, SavedByCheck
  <2>2. s = meta[cur[p]] \/ s \in Successors(meta[cur[p]])
    BY <2>1, SuccessorRows DEF RecordAgrees, AgreesAt
  <2> QED
    BY <1>2, <1>14, <2>1, <2>2 DEF Escape, Locked
<1>15. ASSUME NEW p \in Proc, Finish(p)
      PROVE  LegalStep
  <2> SUFFICES ASSUME NEW t \in Tx
               PROVE  meta'[t] = meta[t] \/ meta'[t] \in Successors(meta[t])
    BY DEF LegalStep
  <2>1. CASE meta[t] \in GcTerminal
    <3>1. meta'[t] = meta[t] \/ meta'[t] = "gone"
      BY <1>15 DEF Finish
    <3> QED
      BY <2>1, <3>1, SuccessorRows
  <2>2. CASE meta[t] \notin GcTerminal
    BY <1>15, <2>2, CollectedWereFinished
  <2> QED
    BY <2>1, <2>2
<1>16. ASSUME NEW p \in Proc, Begin(p)
      PROVE  LegalStep
  BY <1>1, <1>3, <1>16
     DEF Begin, ApplyByHand, Rebuild, ReadForAbort, ReadForRecover, disk
<1>17. ASSUME NEW p \in Proc, Step(p)
      PROVE  LegalStep
  <2>1. ASSUME NEW n \in Target, ReadForUpdate(p, n) \/ Stage(p, n)
        PROVE  meta' = meta
    BY <2>1 DEF ReadForUpdate, Stage, disk
  <2>2. CASE ApplyStaged(p) \/ CommitLock(p) \/ Admit(p) \/ Baseline(p)
    BY <1>1, <2>2 DEF ApplyStaged, Rebuild, CommitLock, Admit, Baseline, disk
  <2>3. CASE SaveBefore(p) \/ ApplyTarget(p) \/ DoAction(p) \/ Observe(p)
    BY <1>1, <2>3 DEF SaveBefore, ApplyTarget, DoAction, Observe, disk
  <2>4. CASE RestoreTarget(p) \/ RestoreUnit(p) \/ RecoverLock(p)
    BY <1>1, <2>4 DEF RestoreTarget, RestoreUnit, RecoverLock, disk
  <2>5. CASE Preflight(p) \/ UndoTarget(p)
    BY <1>1, <2>5 DEF Preflight, UndoTarget, disk
  <2> QED
    BY <1>1, <1>4, <1>5, <1>6, <1>7, <1>8, <1>9, <1>10, <1>11, <1>12, <1>13,
       <1>14, <1>15, <1>17, <2>1, <2>2, <2>3, <2>4, <2>5 DEF Step
<1>18. CASE Environment
  BY <1>1, <1>18 DEF Environment, Crash, Edit, Flap, disk
<1>19. CASE UNCHANGED vars
  BY <1>1, <1>19 DEF vars
<1> QED
  BY <1>16, <1>17, <1>18, <1>19 DEF Next

(* Recorded states move along _ALLOWED; only recover settles a transaction *)
(* that needs it and only finished directories are collected.              *)
THEOREM TransitionsAreLegal ==
  ASSUME Disciplined
  PROVE  Spec => LegalTransitions
<1>1. Init => IInv
  BY InitIInv
<1>2. IInv /\ [Next]_vars => IInv'
  BY StepIInv
<1>3. IInv /\ [Next]_vars => [LegalStep]_vars
  BY StepLegal
<1> QED
  BY <1>1, <1>2, <1>3, PTL DEF Spec, LegalTransitions

-----------------------------------------------------------------------------
(* Type correctness.  It is more than typing: the old contents that a       *)
(* rollback or a recovery puts back are looked up in the before-image, so   *)
(* the before-image must cover what is staged.                             *)

(* The empty function is partial.                                          *)
LEMMA EmptyIsPartial == EmptyFcn \in Partial(Target, Value)
BY DEF EmptyFcn, Partial

(* A total function on a set of targets is a partial one.                  *)
LEMMA TotalIsPartial ==
  ASSUME NEW S \in SUBSET Target, NEW f \in [S -> Value]
  PROVE  f \in Partial(Target, Value)
BY DEF Partial

(* And conversely, on its domain.                                          *)
LEMMA PartialIsFunction ==
  ASSUME NEW f \in Partial(Target, Value)
  PROVE  DOMAIN f \in SUBSET Target /\ f \in [DOMAIN f -> Value]
BY DEF Partial

(* One more target keeps it partial.                                       *)
LEMMA WithIsPartial ==
  ASSUME NEW f \in Partial(Target, Value), NEW n \in Target, NEW v \in Value
  PROVE  With(f, n, v) \in Partial(Target, Value)
<1>1. With(f, n, v) \in [DOMAIN f \cup {n} -> Value]
  BY PartialIsFunction DEF With
<1> QED
  BY <1>1, PartialIsFunction, TotalIsPartial

(* One target less too.                                                    *)
LEMMA RestrictionIsPartial ==
  ASSUME NEW f \in Partial(Target, Value), NEW n
  PROVE  [m \in DOMAIN f \ {n} |-> f[m]] \in Partial(Target, Value)
<1>1. [m \in DOMAIN f \ {n} |-> f[m]] \in [DOMAIN f \ {n} -> Value]
  BY PartialIsFunction
<1> QED
  BY <1>1, PartialIsFunction, TotalIsPartial

(* What a transaction was assembled to do.                                 *)
LEMMA GoalTypes ==
  ASSUME NEW t \in Tx
  PROVE  /\ DOMAIN Goal[t].data \in SUBSET Target
         /\ \A n \in DOMAIN Goal[t].data : Goal[t].data[n] \in Value
         /\ Goal[t].derived \in SUBSET Target
         /\ Goal[t].watch \in SUBSET Target
         /\ Acting(t) \in SUBSET Unit
         /\ DOMAIN Goal[t].guard \in SUBSET Unit
<1>1. Goal[t] \in Goals
  BY ConstantsAssumption
<1>2. Goal[t].data \in Partial(Target, Value)
  BY <1>1 DEF Goals
<1>3. Goal[t].guard \in Partial(Unit, {"active", "inactive"})
  BY <1>1 DEF Goals
<1>4. DOMAIN Goal[t].guard \in SUBSET Unit
  BY <1>3 DEF Partial
<1>5. DOMAIN Goal[t].data \in SUBSET Target /\ Goal[t].data \in [DOMAIN Goal[t].data -> Value]
  BY <1>2, PartialIsFunction
<1> QED
  BY <1>1, <1>4, <1>5 DEF Goals, Acting

(* What is computed from them.                                            *)
LEMMA DerivedSets ==
  ASSUME NEW t \in Tx
  PROVE  /\ Staged(t) \in SUBSET Target
         /\ Services(t) \in SUBSET Unit
         /\ GoodSvc(t) \in SUBSET Unit
         /\ GoodProbe(t) \in SUBSET Unit
         /\ NotRestored(t) \in SUBSET Target
<1>1. Staged(t) \in SUBSET Target
  BY GoalTypes DEF Staged
<1>2. \A n \in Staged(t) : UnitOf[n] \subseteq Unit
  <2>1. UnitOf \in [Target -> SUBSET Unit]
    BY ConstantsAssumption
  <2> QED
    BY <1>1, <2>1
<1>3. Services(t) \in SUBSET Unit
  BY <1>2, GoalTypes DEF Services
<1> QED
  BY <1>1, <1>3 DEF GoodSvc, GoodProbe, NotRestored

(* The levels a systemctl verb leaves a unit in are levels.                *)
LEMMA AfterIsLevel ==
  ASSUME NEW u \in Unit, rt \in [Unit -> Level], NEW verb, NEW l \in After(verb, u)
  PROVE  l \in Level
BY DEF After, Levels, Level

(* The memory of a process that begins is well-formed.                     *)
LEMMA BlankTyped == Blank \in Memory
BY EmptyIsPartial DEF Blank, Memory, NoBase

(* The variables that ControlType leaves out.                              *)
DataType ==
  /\ live \in [Target -> Value]
  /\ rt \in [Unit -> Level]
  /\ expect \in [Tx -> Partial(Target, Value)]
  /\ image \in [Tx -> [files : Partial(Target, Value), active : SUBSET Unit]]
  /\ material \in [Tx -> SUBSET {"candidate", "before"}]
  /\ drift \in [Tx -> SUBSET Target]
  /\ mem \in [Proc -> Memory]

(* The before-image covers what is staged from the moment it is saved until *)
(* the transaction is settled, and a process that writes files only writes *)
(* staged ones.                                                            *)
Coverage ==
  /\ \A t \in Tx : meta[t] \in NeedsRecovery => DOMAIN image[t].files = Staged(t)
  /\ \A p \in Proc :
       /\ pc[p] = "start" => DOMAIN image[cur[p]].files = Staged(cur[p])
       /\ pc[p] \in {"apply", "restore", "undo"} => mem[p].todo \subseteq Staged(cur[p])

(* So the old contents a rollback or a recovery restores exist.            *)
LEMMA OldIsTyped ==
  ASSUME DataType, NEW t \in Tx, DOMAIN image[t].files = Staged(t),
         NEW n \in Staged(t)
  PROVE  Old(t, n) \in [Target -> Value]
<1>1. image[t].files \in Partial(Target, Value)
  BY DEF DataType
<1>2. image[t].files[n] \in Value
  BY <1>1, PartialIsFunction
<1> QED
  BY <1>2 DEF Old, DataType

(* Only what a transaction was assembled to write is staged.               *)
LEMMA StagedIsGoal ==
  ASSUME NEW t, NEW n \in Staged(t)
  PROVE  n \in DOMAIN Goal[t].data
BY DEF Staged

(* Every step keeps the data in its types.                                 *)
LEMMA StepData ==
  ASSUME IInv, DataType, Coverage, [Next]_vars
  PROVE  DataType'
<1> USE DEF disk
<1>1. live \in [Target -> Value]
  BY DEF DataType
<1>2. rt \in [Unit -> Level]
  BY DEF DataType
<1>3. expect \in [Tx -> Partial(Target, Value)]
  BY DEF DataType
<1>4. image \in [Tx -> [files : Partial(Target, Value), active : SUBSET Unit]]
  BY DEF DataType
<1>5. material \in [Tx -> SUBSET {"candidate", "before"}]
  BY DEF DataType
<1>6. drift \in [Tx -> SUBSET Target]
  BY DEF DataType
<1>7. mem \in [Proc -> Memory]
  BY DEF DataType
<1>8. \A p \in Proc : pc[p] # "idle" => cur[p] \in Tx
  BY DEF IInv, ControlType
<1>9. ASSUME NEW p \in Proc, NEW t \in Tx, New(p, t)
      PROVE  DataType'
  <2>1. material' \in [Tx -> SUBSET {"candidate", "before"}]
    BY <1>9, <1>5 DEF New
  <2> QED
    BY <1>9, <2>1 DEF DataType, New
<1>10. ASSUME NEW p \in Proc, NEW t \in Tx, ApplyByHand(p, t)
      PROVE  DataType'
  <2>1. Deletable(t, Staged(t)) \in SUBSET Target
    BY DerivedSets DEF Deletable
  <2>2. [Blank EXCEPT !.existed = Deletable(t, Staged(t))] \in Memory
    BY <2>1, BlankTyped DEF Memory
  <2>3. mem' \in [Proc -> Memory]
    BY <1>10, <1>7, <2>2 DEF ApplyByHand, Rebuild
  <2>4. DataType'
    BY <1>10, <2>3 DEF DataType, ApplyByHand, Rebuild
  <2> QED
    BY <2>4
<1>11. ASSUME NEW p \in Proc, NEW t \in Tx, ReadForAbort(p, t)
      PROVE  DataType'
  BY <1>11 DEF DataType, ReadForAbort
<1>12. ASSUME NEW p \in Proc, NEW t \in Tx, NEW force \in BOOLEAN, ReadForRecover(p, t, force)
      PROVE  DataType'
  <2>1. mem[p] \in Memory
    BY <1>7
  <2>2. mem' \in [Proc -> Memory]
    BY <1>12, <1>7, <2>1 DEF ReadForRecover, Memory
  <2> QED
    BY <1>12, <2>2 DEF DataType, ReadForRecover
<1>13. ASSUME NEW p \in Proc, NEW n \in Target, ReadForUpdate(p, n)
      PROVE  DataType'
  <2>1. live[n] \in Value
    BY <1>1
  <2>2. mem[p] \in Memory
    BY <1>7
  <2>3. mem[p].seen \in Partial(Target, Value)
    BY <2>2 DEF Memory
  <2>4. With(mem[p].seen, n, live[n]) \in Partial(Target, Value)
    BY <2>1, <2>3, WithIsPartial
  <2>5. mem' \in [Proc -> Memory]
    BY <1>13, <1>7, <2>2, <2>4 DEF ReadForUpdate, Memory
  <2> QED
    BY <1>13, <2>5 DEF DataType, ReadForUpdate
<1>14. ASSUME NEW p \in Proc, NEW n \in Target, Stage(p, n)
      PROVE  DataType'
  <2>1. cur[p] \in Tx
    BY <1>14, <1>8 DEF Stage
  <2>2. mem[p] \in Memory
    BY <1>7
  <2>3. mem[p].seen \in Partial(Target, Value)
    BY <2>2 DEF Memory
  <2>4. [m \in DOMAIN mem[p].seen \ {n} |-> mem[p].seen[m]] \in Partial(Target, Value)
    BY <2>3, RestrictionIsPartial
  <2>5. Deletable(cur[p], {n}) \in SUBSET Target
    BY DEF Deletable
  <2>6. mem' \in [Proc -> Memory]
    BY <1>14, <1>7, <2>2, <2>4, <2>5 DEF Stage, Memory
  <2>7. (IF n \in DOMAIN mem[p].seen THEN mem[p].seen[n] ELSE live[n]) \in Value
    BY <1>1, <2>3, PartialIsFunction
  <2>8. With(expect[cur[p]], n, IF n \in DOMAIN mem[p].seen THEN mem[p].seen[n] ELSE live[n])
         \in Partial(Target, Value)
    BY <1>3, <2>1, <2>7, WithIsPartial
  <2>9. expect' \in [Tx -> Partial(Target, Value)]
    BY <1>14, <1>3, <2>1, <2>8 DEF Stage
  <2> QED
    BY <1>14, <2>6, <2>9 DEF DataType, Stage
<1>15. ASSUME NEW p \in Proc, ApplyStaged(p)
      PROVE  DataType'
  <2>1. cur[p] \in Tx
    BY <1>15, <1>8 DEF ApplyStaged
  <2>2. Deletable(cur[p], Staged(cur[p])) \in SUBSET Target
    BY <2>1, DerivedSets DEF Deletable
  <2>3. [Blank EXCEPT !.existed = Deletable(cur[p], Staged(cur[p]))] \in Memory
    BY <2>2, BlankTyped DEF Memory
  <2>4. mem' \in [Proc -> Memory]
    BY <1>15, <1>7, <2>3 DEF ApplyStaged, Rebuild
  <2>5. DataType'
    BY <1>15, <2>4 DEF DataType, ApplyStaged, Rebuild
  <2> QED
    BY <2>5
<1>16. ASSUME NEW p \in Proc, AbortOwn(p)
      PROVE  DataType'
  <2>1. cur[p] \in Tx
    BY <1>16, <1>8 DEF AbortOwn
  <2>2. PICK left \in SUBSET material[cur[p]] :
           material' = material \/ material' = [material EXCEPT ![cur[p]] = left]
    BY <1>16 DEF AbortOwn
  <2>3. left \in SUBSET {"candidate", "before"}
    BY <1>5, <2>1
  <2>4. material' \in [Tx -> SUBSET {"candidate", "before"}]
    BY <1>5, <2>1, <2>2, <2>3
  <2>5. mem' \in [Proc -> Memory]
    BY <1>16, <1>7, BlankTyped DEF AbortOwn, End
  <2> QED
    BY <1>16, <2>4, <2>5 DEF DataType, AbortOwn
<1>17. ASSUME NEW p \in Proc, CommitLock(p)
      PROVE  DataType'
  BY <1>17 DEF DataType, CommitLock
<1>18. ASSUME NEW p \in Proc, Admit(p)
      PROVE  DataType'
  <2>1. cur[p] \in Tx
    BY <1>18, <1>8 DEF Admit
  <2>2. /\ DOMAIN expect[cur[p]] \in SUBSET Target
        /\ expect[cur[p]] \in [DOMAIN expect[cur[p]] -> Value]
    BY <1>3, <2>1, PartialIsFunction
  <2>3. Goal[cur[p]].derived \in SUBSET Target
    BY <2>1, GoalTypes
  <2>4. [n \in DOMAIN expect[cur[p]] \cup Goal[cur[p]].derived |->
           IF n \in DOMAIN expect[cur[p]] THEN expect[cur[p]][n] ELSE live[n]]
         \in [DOMAIN expect[cur[p]] \cup Goal[cur[p]].derived -> Value]
    BY <1>1, <2>2, <2>3
  <2>5. [n \in DOMAIN expect[cur[p]] \cup Goal[cur[p]].derived |->
           IF n \in DOMAIN expect[cur[p]] THEN expect[cur[p]][n] ELSE live[n]]
         \in Partial(Target, Value)
    BY <2>2, <2>3, <2>4, TotalIsPartial
  <2>6. expect' \in [Tx -> Partial(Target, Value)]
    BY <1>18, <1>3, <2>1, <2>5 DEF Admit
  <2> QED
    BY <1>18, <2>6 DEF DataType, Admit
<1>19. ASSUME NEW p \in Proc, Baseline(p)
      PROVE  DataType'
  <2>1. cur[p] \in Tx
    BY <1>19, <1>8 DEF Baseline
  <2>2. GoodSvc(cur[p]) \in SUBSET Unit /\ GoodProbe(cur[p]) \in SUBSET Unit
    BY <2>1, DerivedSets
  <2>3. mem[p] \in Memory
    BY <1>7
  <2>4. mem' \in [Proc -> Memory]
    BY <1>19, <1>7, <2>2, <2>3 DEF Baseline, Memory
  <2> QED
    BY <1>19, <2>4 DEF DataType, Baseline
<1>20. ASSUME NEW p \in Proc, Validate(p)
      PROVE  DataType'
  <2>1. cur[p] \in Tx
    BY <1>20, <1>8 DEF Validate
  <2>2. drift' \in [Tx -> SUBSET Target]
    BY <1>20, <1>6, <2>1 DEF Validate
  <2> QED
    BY <1>20, <2>2 DEF DataType, Validate
<1>21. ASSUME NEW p \in Proc, Refuse(p)
      PROVE  DataType'
  BY <1>21 DEF DataType, Refuse
<1>22. ASSUME NEW p \in Proc, Escape(p)
      PROVE  DataType'
  <2>1. mem' \in [Proc -> Memory]
    BY <1>22, <1>7, BlankTyped DEF Escape, End
  <2> QED
    BY <1>22, <2>1 DEF DataType, Escape
<1>23. ASSUME NEW p \in Proc, SaveBefore(p)
      PROVE  DataType'
  <2>1. cur[p] \in Tx
    BY <1>23, <1>8 DEF SaveBefore
  <2>2. Staged(cur[p]) \in SUBSET Target /\ Services(cur[p]) \in SUBSET Unit
    BY <2>1, DerivedSets
  <2>3. [n \in Staged(cur[p]) |-> live[n]] \in [Staged(cur[p]) -> Value]
    BY <1>1, <2>2
  <2>4. [n \in Staged(cur[p]) |-> live[n]] \in Partial(Target, Value)
    BY <2>2, <2>3, TotalIsPartial
  <2>5. image' \in [Tx -> [files : Partial(Target, Value), active : SUBSET Unit]]
    BY <1>23, <1>4, <2>1, <2>2, <2>4 DEF SaveBefore
  <2>6. material' \in [Tx -> SUBSET {"candidate", "before"}]
    BY <1>23, <1>5, <2>1 DEF SaveBefore
  <2> QED
    BY <1>23, <2>5, <2>6 DEF DataType, SaveBefore
<1>24. ASSUME NEW p \in Proc, StartApplying(p)
      PROVE  DataType'
  <2>1. cur[p] \in Tx
    BY <1>24, <1>8 DEF StartApplying
  <2>2. Staged(cur[p]) \in SUBSET Target /\ Acting(cur[p]) \in SUBSET Unit
    BY <2>1, DerivedSets, GoalTypes
  <2>3. mem[p] \in Memory
    BY <1>7
  <2>4. ASSUME mem' = [mem EXCEPT ![p].todo = Staged(cur[p]), ![p].acts = Acting(cur[p])]
       PROVE  mem' \in [Proc -> Memory]
    BY <1>7, <2>2, <2>3, <2>4 DEF Memory
  <2>5. ASSUME mem' = [mem EXCEPT ![p] = Blank]
       PROVE  mem' \in [Proc -> Memory]
    BY <1>7, <2>5, BlankTyped
  <2>6. mem' \in [Proc -> Memory]
    BY <1>24, <2>4, <2>5 DEF StartApplying, MetaWriteRaises, End
  <2>7. DataType'
    BY <1>24, <2>6 DEF DataType, StartApplying, MetaWriteRaises
  <2> QED
    BY <2>7
<1>25. ASSUME NEW p \in Proc, ApplyTarget(p)
      PROVE  DataType'
  <2>1. cur[p] \in Tx
    BY <1>25, <1>8 DEF ApplyTarget
  <2>2. \A n \in mem[p].todo : n \in DOMAIN Goal[cur[p]].data
    BY <1>25, <2>1, StagedIsGoal DEF ApplyTarget, Coverage
  <2>3. \A n \in mem[p].todo : n \in Target /\ Written(p, n) \in Value
    BY <1>1, <2>1, <2>2, GoalTypes DEF Written
  <2>4. live' \in [Target -> Value]
    BY <1>25, <1>1, <2>3 DEF ApplyTarget
  <2>5. mem[p] \in Memory
    BY <1>7
  <2>6. mem' \in [Proc -> Memory]
    BY <1>25, <1>7, <2>5 DEF ApplyTarget, Memory
  <2> QED
    BY <1>25, <2>4, <2>6 DEF DataType, ApplyTarget
<1>26. ASSUME NEW p \in Proc, DoAction(p)
      PROVE  DataType'
  <2>1. mem[p] \in Memory
    BY <1>7
  <2>2. mem[p].acts \in SUBSET Unit
    BY <2>1 DEF Memory
  <2>3. \A u \in Unit : \A verb : After(verb, u) \subseteq Level
    BY <1>2, AfterIsLevel
  <2>4. PICK u \in Unit, l \in Level : rt' = [rt EXCEPT ![u] = l]
    <3>1. PICK u \in mem[p].acts :
            \E l \in After(Goal[cur[p]].act[u], u) \cup {rt[u]} :
              rt' = [rt EXCEPT ![u] = l]
      BY <1>26 DEF DoAction
    <3>2. u \in Unit /\ rt[u] \in Level
      BY <2>2, <1>2
    <3>3. After(Goal[cur[p]].act[u], u) \cup {rt[u]} \subseteq Level
      BY <2>3, <3>2
    <3> QED
      BY <3>1, <3>2, <3>3
  <2>5. rt' \in [Unit -> Level]
    BY <1>2, <2>4
  <2>6. mem' \in [Proc -> Memory]
    BY <1>26, <1>7, <2>1 DEF DoAction, Memory
  <2> QED
    BY <1>26, <2>5, <2>6 DEF DataType, DoAction
<1>27. ASSUME NEW p \in Proc, StartObserving(p)
      PROVE  DataType'
  BY <1>27 DEF DataType, StartObserving
<1>28. ASSUME NEW p \in Proc, Observe(p)
      PROVE  DataType'
  BY <1>28 DEF DataType, Observe
<1>29. ASSUME NEW p \in Proc, MarkCommitted(p)
      PROVE  DataType'
  <2>1. mem' \in [Proc -> Memory]
    BY <1>29, <1>7, BlankTyped DEF MarkCommitted, MetaWriteRaises, End
  <2> QED
    BY <1>29, <2>1 DEF DataType, MarkCommitted
<1>30. ASSUME NEW p \in Proc, Finish(p)
      PROVE  DataType'
  <2>1. cur[p] \in Tx
    BY <1>30, <1>8 DEF Finish
  <2>2. material' \in [Tx -> SUBSET {"candidate", "before"}]
    BY <1>30, <1>5, <2>1 DEF Finish, Leftovers
  <2>3. mem' \in [Proc -> Memory]
    BY <1>30, <1>7, BlankTyped DEF Finish, End
  <2> QED
    BY <1>30, <2>2, <2>3 DEF DataType, Finish
<1>31. ASSUME NEW p \in Proc, StartRollback(p)
      PROVE  DataType'
  <2>1. cur[p] \in Tx
    BY <1>31, <1>8 DEF StartRollback
  <2>2. Staged(cur[p]) \in SUBSET Target /\ Services(cur[p]) \in SUBSET Unit
    BY <2>1, DerivedSets
  <2>3. mem[p] \in Memory
    BY <1>7
  <2>4. ASSUME mem' = [mem EXCEPT ![p].todo = Staged(cur[p]), ![p].acts = Services(cur[p])]
       PROVE  mem' \in [Proc -> Memory]
    BY <1>7, <2>2, <2>3, <2>4 DEF Memory
  <2>5. ASSUME mem' = [mem EXCEPT ![p] = Blank]
       PROVE  mem' \in [Proc -> Memory]
    BY <1>7, <2>5, BlankTyped
  <2>6. mem' \in [Proc -> Memory]
    BY <1>31, <2>4, <2>5 DEF StartRollback, MetaWriteRaises, End
  <2>7. DataType'
    BY <1>31, <2>6 DEF DataType, StartRollback, MetaWriteRaises
  <2> QED
    BY <2>7
<1>32. ASSUME NEW p \in Proc, RestoreTarget(p)
      PROVE  DataType'
  <2>1. cur[p] \in Tx
    BY <1>32, <1>8 DEF RestoreTarget
  <2>2. DOMAIN image[cur[p]].files = Staged(cur[p]) /\ mem[p].todo \subseteq Staged(cur[p])
    BY <1>32, <2>1
       DEF RestoreTarget, IInv, RecordAgrees, AgreesAt, NeedsRecovery, Coverage
  <2>3. \A n \in mem[p].todo : Old(cur[p], n) \in [Target -> Value]
    BY <2>1, <2>2, OldIsTyped
  <2>4. live' \in [Target -> Value]
    BY <1>32, <1>1, <2>3 DEF RestoreTarget
  <2>5. mem[p] \in Memory
    BY <1>7
  <2>6. PICK n \in mem[p].todo :
           \/ mem' = [mem EXCEPT ![p].todo = @ \ {n}]
           \/ mem' = [mem EXCEPT ![p].todo = @ \ {n}, ![p].failed = TRUE]
    BY <1>32 DEF RestoreTarget
  <2>7. ASSUME mem' = [mem EXCEPT ![p].todo = @ \ {n}]
       PROVE  mem' \in [Proc -> Memory]
    BY <1>7, <2>5, <2>7 DEF Memory
  <2>8. ASSUME mem' = [mem EXCEPT ![p].todo = @ \ {n}, ![p].failed = TRUE]
       PROVE  mem' \in [Proc -> Memory]
    BY <1>7, <2>5, <2>8 DEF Memory
  <2>9. mem' \in [Proc -> Memory]
    BY <2>6, <2>7, <2>8
  <2> QED
    BY <1>32, <2>4, <2>9 DEF DataType, RestoreTarget
<1>33. ASSUME NEW p \in Proc, RestoreUnit(p)
      PROVE  DataType'
  <2>1. mem[p] \in Memory
    BY <1>7
  <2>2. mem[p].acts \in SUBSET Unit
    BY <2>1 DEF Memory
  <2>3. \A u \in Unit : \A verb : After(verb, u) \subseteq Level
    BY <1>2, AfterIsLevel
  <2>4. PICK u \in Unit, l \in Level : rt' = [rt EXCEPT ![u] = l]
    BY <1>33, <1>2, <2>2, <2>3 DEF RestoreUnit
  <2>5. rt' \in [Unit -> Level]
    BY <1>2, <2>4
  <2>6. PICK v \in mem[p].acts, bad \in BOOLEAN :
           mem' = [mem EXCEPT ![p].acts = @ \ {v}, ![p].failed = @ \/ bad]
    BY <1>33 DEF RestoreUnit
  <2>7. (mem[p].failed \/ bad) \in BOOLEAN
    OBVIOUS
  <2>8. [mem[p] EXCEPT !.acts = @ \ {v}, !.failed = @ \/ bad] \in Memory
    BY <2>1, <2>7 DEF Memory
  <2>9. mem' \in [Proc -> Memory]
    BY <1>7, <2>6, <2>8
  <2> QED
    BY <1>33, <2>5, <2>9 DEF DataType, RestoreUnit
<1>34. ASSUME NEW p \in Proc, MarkRolledBack(p)
      PROVE  DataType'
  <2>1. mem' \in [Proc -> Memory]
    BY <1>34, <1>7, BlankTyped DEF MarkRolledBack, MetaWriteRaises, End
  <2> QED
    BY <1>34, <2>1 DEF DataType, MarkRolledBack
<1>35. ASSUME NEW p \in Proc, RecoverLock(p)
      PROVE  DataType'
  <2>1. mem' \in [Proc -> Memory]
    BY <1>35, <1>7, BlankTyped DEF RecoverLock, End
  <2> QED
    BY <1>35, <2>1 DEF DataType, RecoverLock
<1>36. ASSUME NEW p \in Proc, Preflight(p)
      PROVE  DataType'
  <2>1. cur[p] \in Tx
    BY <1>36, <1>8 DEF Preflight
  <2>2. NotRestored(cur[p]) \in SUBSET Target /\ Services(cur[p]) \in SUBSET Unit
    BY <2>1, DerivedSets
  <2>3. mem[p] \in Memory
    BY <1>7
  <2>4. ASSUME mem' = [mem EXCEPT ![p].todo = NotRestored(cur[p]), ![p].acts = Services(cur[p])]
       PROVE  mem' \in [Proc -> Memory]
    BY <1>7, <2>2, <2>3, <2>4 DEF Memory
  <2>5. ASSUME mem' = [mem EXCEPT ![p] = Blank]
       PROVE  mem' \in [Proc -> Memory]
    BY <1>7, <2>5, BlankTyped
  <2>6. mem' \in [Proc -> Memory]
    BY <1>36, <2>4, <2>5 DEF Preflight, End
  <2>7. DataType'
    BY <1>36, <2>6 DEF DataType, Preflight
  <2> QED
    BY <2>7
<1>37. ASSUME NEW p \in Proc, UndoTarget(p)
      PROVE  DataType'
  <2>1. cur[p] \in Tx
    BY <1>37, <1>8 DEF UndoTarget
  <2>2. DOMAIN image[cur[p]].files = Staged(cur[p]) /\ mem[p].todo \subseteq Staged(cur[p])
    BY <1>37, <2>1
       DEF UndoTarget, IInv, RecordAgrees, AgreesAt, NeedsRecovery, Coverage
  <2>3. \A n \in mem[p].todo : Old(cur[p], n) \in [Target -> Value]
    BY <2>1, <2>2, OldIsTyped
  <2>4. live' \in [Target -> Value]
    BY <1>37, <1>1, <2>3 DEF UndoTarget
  <2>5. mem[p] \in Memory
    BY <1>7
  <2>6. PICK n \in mem[p].todo :
           \/ mem' = [mem EXCEPT ![p].todo = @ \ {n}]
           \/ mem' = [mem EXCEPT ![p].todo = @ \ {n}, ![p].failed = TRUE]
    BY <1>37 DEF UndoTarget
  <2>7. ASSUME mem' = [mem EXCEPT ![p].todo = @ \ {n}]
       PROVE  mem' \in [Proc -> Memory]
    BY <1>7, <2>5, <2>7 DEF Memory
  <2>8. ASSUME mem' = [mem EXCEPT ![p].todo = @ \ {n}, ![p].failed = TRUE]
       PROVE  mem' \in [Proc -> Memory]
    BY <1>7, <2>5, <2>8 DEF Memory
  <2>9. mem' \in [Proc -> Memory]
    BY <2>6, <2>7, <2>8
  <2> QED
    BY <1>37, <2>4, <2>9 DEF DataType, UndoTarget
<1>38. ASSUME NEW p \in Proc, MarkRecovered(p)
      PROVE  DataType'
  <2>1. mem' \in [Proc -> Memory]
    BY <1>38, <1>7, BlankTyped DEF MarkRecovered, MetaWriteRaises, End
  <2> QED
    BY <1>38, <2>1 DEF DataType, MarkRecovered
<1>39. ASSUME NEW p \in Proc, WriteAbort(p)
      PROVE  DataType'
  <2>1. cur[p] \in Tx
    BY <1>39, <1>8 DEF WriteAbort
  <2>2. PICK left \in SUBSET material[cur[p]] :
           material' = material \/ material' = [material EXCEPT ![cur[p]] = left]
    BY <1>39 DEF WriteAbort
  <2>3. left \in SUBSET {"candidate", "before"}
    BY <1>5, <2>1
  <2>4. material' \in [Tx -> SUBSET {"candidate", "before"}]
    BY <1>5, <2>1, <2>2, <2>3
  <2>5. mem' \in [Proc -> Memory]
    BY <1>39, <1>7, BlankTyped DEF WriteAbort, End
  <2> QED
    BY <1>39, <2>4, <2>5 DEF DataType, WriteAbort
<1>40. ASSUME NEW p \in Proc, Crash(p)
      PROVE  DataType'
  <2>1. mem' \in [Proc -> Memory]
    BY <1>40, <1>7, BlankTyped DEF Crash, End
  <2> QED
    BY <1>40, <2>1 DEF DataType, Crash
<1>41. ASSUME NEW n \in Outside, NEW v \in Value, Edit(n, v)
      PROVE  DataType'
  <2>1. live' \in [Target -> Value]
    BY <1>41, <1>1 DEF Edit
  <2>2. n \in Target
    BY ConstantsAssumption
  <2>3. drift' \in [Tx -> SUBSET Target]
    BY <1>41, <1>6, <2>2 DEF Edit
  <2>4. \A q \in Proc : [mem[q] EXCEPT !.late = @ \cup {n}] \in Memory
    BY <1>7, <2>2 DEF Memory
  <2>5. mem' \in [Proc -> Memory]
    BY <1>41, <1>7, <2>4 DEF Edit
  <2> QED
    BY <1>41, <2>1, <2>3, <2>5 DEF DataType, Edit
<1>42. ASSUME NEW u \in Flaky, Flap(u)
      PROVE  DataType'
  <2>1. rt' \in [Unit -> Level]
    BY <1>42, <1>2, ConstantsAssumption DEF Flap, Levels, Level
  <2> QED
    BY <1>42, <2>1 DEF DataType, Flap
<1>43. CASE UNCHANGED vars
  BY <1>43 DEF vars, DataType
<1> QED
  BY <1>9, <1>10, <1>11, <1>12, <1>13, <1>14, <1>15, <1>16, <1>17, <1>18, <1>19,
     <1>20, <1>21, <1>22, <1>23, <1>24, <1>25, <1>26, <1>27, <1>28, <1>29, <1>30,
     <1>31, <1>32, <1>33, <1>34, <1>35, <1>36, <1>37, <1>38, <1>39, <1>40, <1>41,
     <1>42, <1>43
     DEF Next, Begin, Step, Environment

(* Every step keeps the coverage: expect only changes while the record is   *)
(* PREPARING, and by the only process that works on the transaction.       *)
LEMMA StepCoverage ==
  ASSUME IInv, DataType, Coverage, [Next]_vars
  PROVE  Coverage'
<1> USE DEF Coverage, Staged, IInv, ControlType, OneHandPerTx, RecordAgrees, AgreesAt,
            NeedsRecovery, Unstarted, GcTerminal, Locked, Go, End, disk
<1>0. /\ mem \in [Proc -> Memory]
      /\ image \in [Tx -> [files : Partial(Target, Value), active : SUBSET Unit]]
  BY DEF DataType
<1>1. ASSUME NEW p \in Proc, NEW t \in Tx, New(p, t)
      PROVE  Coverage'
  BY <1>0, <1>1 DEF New
<1>2. ASSUME NEW p \in Proc, NEW t \in Tx, ApplyByHand(p, t)
      PROVE  Coverage'
  BY <1>0, <1>2 DEF ApplyByHand, Rebuild
<1>3. ASSUME NEW p \in Proc, NEW t \in Tx, ReadForAbort(p, t)
      PROVE  Coverage'
  BY <1>0, <1>3 DEF ReadForAbort
<1>4. ASSUME NEW p \in Proc, NEW t \in Tx, NEW force \in BOOLEAN, ReadForRecover(p, t, force)
      PROVE  Coverage'
  BY <1>0, <1>4 DEF ReadForRecover
<1>5. ASSUME NEW p \in Proc, NEW n \in Target, ReadForUpdate(p, n)
      PROVE  Coverage'
  BY <1>0, <1>5 DEF ReadForUpdate
<1>6. ASSUME NEW p \in Proc, NEW n \in Target, Stage(p, n)
      PROVE  Coverage'
  BY <1>0, <1>6 DEF Stage
<1>7. ASSUME NEW p \in Proc, ApplyStaged(p)
      PROVE  Coverage'
  BY <1>0, <1>7 DEF ApplyStaged, Rebuild
<1>8. ASSUME NEW p \in Proc, AbortOwn(p)
      PROVE  Coverage'
  BY <1>0, <1>8 DEF AbortOwn
<1>9. ASSUME NEW p \in Proc, CommitLock(p)
      PROVE  Coverage'
  BY <1>0, <1>9 DEF CommitLock
<1>10. ASSUME NEW p \in Proc, Admit(p)
      PROVE  Coverage'
  BY <1>0, <1>10 DEF Admit
<1>11. ASSUME NEW p \in Proc, Baseline(p)
      PROVE  Coverage'
  BY <1>0, <1>11 DEF Baseline
<1>12. ASSUME NEW p \in Proc, Validate(p)
      PROVE  Coverage'
  BY <1>0, <1>12 DEF Validate
<1>13. ASSUME NEW p \in Proc, Refuse(p)
      PROVE  Coverage'
  BY <1>0, <1>13 DEF Refuse, SavedByCheck
<1>14. ASSUME NEW p \in Proc, Escape(p)
      PROVE  Coverage'
  BY <1>0, <1>14 DEF Escape, SavedByCheck
<1>15. ASSUME NEW p \in Proc, SaveBefore(p)
      PROVE  Coverage'
  BY <1>0, <1>15 DEF SaveBefore
<1>16. ASSUME NEW p \in Proc, StartApplying(p)
      PROVE  Coverage'
  <2>1. /\ pc'[p] = "apply" => mem'[p].todo \subseteq Staged(cur[p])
        /\ pc'[p] \in {"apply", "idle"}
        /\ \A r \in Proc \ {p} : mem'[r] = mem[r]
    BY <1>0, <1>16 DEF StartApplying, Memory, MetaWriteRaises
  <2> QED
    BY <1>16, <2>1 DEF StartApplying, MetaWriteRaises
<1>17. ASSUME NEW p \in Proc, ApplyTarget(p)
      PROVE  Coverage'
  <2>1. \A r \in Proc : mem'[r].todo \subseteq mem[r].todo
    <3>1. PICK S : \/ mem' = mem
                  \/ mem' = [mem EXCEPT ![p].todo = @ \ S]
                  \/ mem' = [mem EXCEPT ![p].todo = @ \ S, ![p].failed = TRUE]
                  \/ mem' = [mem EXCEPT ![p].acts = @ \ S]
      BY <1>17 DEF ApplyTarget
    <3> QED
      BY <1>0, <3>1 DEF Memory
  <2> QED
    BY <1>17, <2>1 DEF ApplyTarget
<1>18. ASSUME NEW p \in Proc, DoAction(p)
      PROVE  Coverage'
  <2>1. \A r \in Proc : mem'[r].todo \subseteq mem[r].todo
    <3>1. PICK S : \/ mem' = mem
                  \/ mem' = [mem EXCEPT ![p].todo = @ \ S]
                  \/ mem' = [mem EXCEPT ![p].todo = @ \ S, ![p].failed = TRUE]
                  \/ mem' = [mem EXCEPT ![p].acts = @ \ S]
      BY <1>18 DEF DoAction
    <3> QED
      BY <1>0, <3>1 DEF Memory
  <2> QED
    BY <1>18, <2>1 DEF DoAction
<1>19. ASSUME NEW p \in Proc, StartObserving(p)
      PROVE  Coverage'
  BY <1>0, <1>19 DEF StartObserving
<1>20. ASSUME NEW p \in Proc, Observe(p)
      PROVE  Coverage'
  BY <1>0, <1>20 DEF Observe
<1>21. ASSUME NEW p \in Proc, MarkCommitted(p)
      PROVE  Coverage'
  BY <1>0, <1>21 DEF MarkCommitted, MetaWriteRaises
<1>22. ASSUME NEW p \in Proc, Finish(p)
      PROVE  Coverage'
  BY <1>0, <1>22 DEF Finish, Doomed
<1>23. ASSUME NEW p \in Proc, StartRollback(p)
      PROVE  Coverage'
  <2>1. /\ pc'[p] = "restore" => mem'[p].todo \subseteq Staged(cur[p])
        /\ pc'[p] \in {"restore", "idle"}
        /\ \A r \in Proc \ {p} : mem'[r] = mem[r]
    BY <1>0, <1>23 DEF StartRollback, Memory, MetaWriteRaises
  <2> QED
    BY <1>23, <2>1 DEF StartRollback, MetaWriteRaises
<1>24. ASSUME NEW p \in Proc, RestoreTarget(p)
      PROVE  Coverage'
  <2>1. \A r \in Proc : mem'[r].todo \subseteq mem[r].todo
    <3>1. PICK S : \/ mem' = mem
                  \/ mem' = [mem EXCEPT ![p].todo = @ \ S]
                  \/ mem' = [mem EXCEPT ![p].todo = @ \ S, ![p].failed = TRUE]
                  \/ mem' = [mem EXCEPT ![p].acts = @ \ S]
      BY <1>24 DEF RestoreTarget
    <3> QED
      BY <1>0, <3>1 DEF Memory
  <2> QED
    BY <1>24, <2>1 DEF RestoreTarget
<1>25. ASSUME NEW p \in Proc, RestoreUnit(p)
      PROVE  Coverage'
  BY <1>0, <1>25 DEF RestoreUnit
<1>26. ASSUME NEW p \in Proc, MarkRolledBack(p)
      PROVE  Coverage'
  BY <1>0, <1>26 DEF MarkRolledBack, MetaWriteRaises
<1>27. ASSUME NEW p \in Proc, RecoverLock(p)
      PROVE  Coverage'
  BY <1>0, <1>27 DEF RecoverLock
<1>28. ASSUME NEW p \in Proc, Preflight(p)
      PROVE  Coverage'
  <2>1. /\ pc'[p] = "undo" => mem'[p].todo \subseteq Staged(cur[p])
        /\ pc'[p] \in {"undo", "idle"}
        /\ \A r \in Proc \ {p} : mem'[r] = mem[r]
    BY <1>0, <1>28 DEF Preflight, Memory, NotRestored
  <2> QED
    BY <1>28, <2>1 DEF Preflight, NotRestored
<1>29. ASSUME NEW p \in Proc, UndoTarget(p)
      PROVE  Coverage'
  <2>1. \A r \in Proc : mem'[r].todo \subseteq mem[r].todo
    <3>1. PICK S : \/ mem' = mem
                  \/ mem' = [mem EXCEPT ![p].todo = @ \ S]
                  \/ mem' = [mem EXCEPT ![p].todo = @ \ S, ![p].failed = TRUE]
                  \/ mem' = [mem EXCEPT ![p].acts = @ \ S]
      BY <1>29 DEF UndoTarget
    <3> QED
      BY <1>0, <3>1 DEF Memory
  <2> QED
    BY <1>29, <2>1 DEF UndoTarget
<1>30. ASSUME NEW p \in Proc, MarkRecovered(p)
      PROVE  Coverage'
  BY <1>0, <1>30, SMTT(30) DEF MarkRecovered, MetaWriteRaises, RecoveryVerdict
<1>31. ASSUME NEW p \in Proc, WriteAbort(p)
      PROVE  Coverage'
  BY <1>0, <1>31 DEF WriteAbort
<1>32. ASSUME NEW p \in Proc, Crash(p)
      PROVE  Coverage'
  BY <1>0, <1>32 DEF Crash
<1>33. ASSUME NEW n \in Outside, NEW v \in Value, Edit(n, v)
      PROVE  Coverage'
  BY <1>0, <1>33 DEF Edit
<1>34. ASSUME NEW u \in Flaky, Flap(u)
      PROVE  Coverage'
  BY <1>0, <1>34 DEF Flap
<1>35. CASE UNCHANGED vars
  BY <1>35 DEF vars
<1> HIDE DEF Coverage, Staged, IInv, ControlType, OneHandPerTx, RecordAgrees, AgreesAt,
             NeedsRecovery, Unstarted, GcTerminal, Locked, Go, End, disk
<1> QED
  BY <1>1, <1>2, <1>3, <1>4, <1>5, <1>6, <1>7, <1>8, <1>9, <1>10, <1>11, <1>12,
     <1>13, <1>14, <1>15, <1>16, <1>17, <1>18, <1>19, <1>20, <1>21, <1>22, <1>23,
     <1>24, <1>25, <1>26, <1>27, <1>28, <1>29, <1>30, <1>31, <1>32, <1>33, <1>34,
     <1>35
     DEF Next, Begin, Step, Environment

-----------------------------------------------------------------------------
(* Control, data and coverage together are inductive.                      *)
TypeInv == IInv /\ DataType /\ Coverage

(* At the start nothing is staged and nothing is written.                  *)
LEMMA InitTypeInv == Init => TypeInv
<1> SUFFICES ASSUME Init
             PROVE  TypeInv
  OBVIOUS
<1>1. IInv
  BY InitIInv
<1>2. DataType
  BY ConstantsAssumption, EmptyIsPartial, BlankTyped DEF Init, DataType
<1>3. Coverage
  BY DEF Init, Coverage, NeedsRecovery
<1> QED
  BY <1>1, <1>2, <1>3 DEF TypeInv

(* Every step keeps them together.                                         *)
LEMMA StepTypeInv == Disciplined /\ TypeInv /\ [Next]_vars => TypeInv'
BY StepIInv, StepData, StepCoverage DEF TypeInv

(* Under the operators' rules every variable keeps its type; in particular *)
(* no rollback or recovery ever looks for an old content that was not      *)
(* saved.                                                                  *)
THEOREM TypeCorrect ==
  ASSUME Disciplined
  PROVE  Spec => []TypeOK
<1>1. Init => TypeInv
  BY InitTypeInv
<1>2. TypeInv /\ [Next]_vars => TypeInv'
  BY StepTypeInv
<1>3. TypeInv => TypeOK
  BY DEF TypeInv, IInv, ControlType, DataType, TypeOK
<1> QED
  BY <1>1, <1>2, <1>3, PTL DEF Spec

-----------------------------------------------------------------------------
(* Recoverability.                                                         *)

(* Each staged target that nobody edited has its old or its new content.   *)
Intact(t) ==
  \A n \in Staged(t) \ drift[t] : live[n] \in {image[t].files[n], Goal[t].data[n]}

(* From the before-image to APPLYING production is still what was saved.   *)
Untouched(t) ==
  \A n \in Staged(t) \ drift[t] : live[n] = image[t].files[n]

Undoable ==
  /\ \A t \in Tx : meta[t] \in NeedsRecovery => "before" \in material[t] /\ Intact(t)
  /\ \A p \in Proc : pc[p] = "start" =>
       "before" \in material[cur[p]] /\ Untouched(cur[p])

(* A write, successful or not, changes at most one target.                 *)
LEMMA OneWritten ==
  ASSUME live \in [Target -> Value], NEW n, NEW v, NEW S, v \in S,
         live' = live \/ live' = [live EXCEPT ![n] = v]
  PROVE  \A m \in Target : live'[m] = live[m] \/ (m = n /\ live'[m] \in S)
OBVIOUS

(* Every step keeps unsettled transactions undoable: only the lock's holder *)
(* writes targets, only for the one unsettled transaction, and only old or *)
(* new contents; materials are removed only once the record is final.      *)
LEMMA StepUndoable ==
  ASSUME TypeInv, Undoable, [Next]_vars
  PROVE  Undoable'
<1> USE ConstantsAssumption
<1> USE DEF Undoable, Intact, Untouched, Staged, TypeInv, IInv, ControlType,
       OneHandPerTx, RecordAgrees, AgreesAt,
            NeedsRecovery, Unstarted, GcTerminal, Locked, Go, End, disk
<1>0. /\ live \in [Target -> Value]
      /\ material \in [Tx -> SUBSET {"candidate", "before"}]
      /\ drift \in [Tx -> SUBSET Target]
      /\ image \in [Tx -> [files : Partial(Target, Value), active : SUBSET Unit]]
  BY DEF DataType
<1>1. ASSUME NEW p \in Proc, NEW t \in Tx, New(p, t)
      PROVE  Undoable'
  BY <1>0, <1>1 DEF New
<1>2. ASSUME NEW p \in Proc, NEW t \in Tx, ApplyByHand(p, t)
      PROVE  Undoable'
  BY <1>0, <1>2 DEF ApplyByHand, Rebuild
<1>3. ASSUME NEW p \in Proc, NEW t \in Tx, ReadForAbort(p, t)
      PROVE  Undoable'
  BY <1>0, <1>3 DEF ReadForAbort
<1>4. ASSUME NEW p \in Proc, NEW t \in Tx, NEW force \in BOOLEAN, ReadForRecover(p, t, force)
      PROVE  Undoable'
  BY <1>0, <1>4 DEF ReadForRecover
<1>5. ASSUME NEW p \in Proc, NEW n \in Target, ReadForUpdate(p, n)
      PROVE  Undoable'
  BY <1>0, <1>5 DEF ReadForUpdate
<1>6. ASSUME NEW p \in Proc, NEW n \in Target, Stage(p, n)
      PROVE  Undoable'
  BY <1>0, <1>6 DEF Stage
<1>7. ASSUME NEW p \in Proc, ApplyStaged(p)
      PROVE  Undoable'
  BY <1>0, <1>7 DEF ApplyStaged, Rebuild
<1>8. ASSUME NEW p \in Proc, AbortOwn(p)
      PROVE  Undoable'
  <2>1. \A x \in Tx \ {cur[p]} : material'[x] = material[x] /\ meta'[x] = meta[x]
    BY <1>0, <1>8 DEF AbortOwn
  <2>2. meta'[cur[p]] \notin NeedsRecovery
    BY <1>8 DEF AbortOwn
  <2>3. \A q \in Proc : pc'[q] = "start" =>
          pc[q] = "start" /\ cur'[q] = cur[q] /\ cur[q] \in Tx \ {cur[p]}
    BY <1>8 DEF AbortOwn
  <2>4. \A x \in Tx : (Intact(x)' <=> Intact(x)) /\ (Untouched(x)' <=> Untouched(x))
    BY <1>8 DEF AbortOwn
  <2>5. \A x \in Tx : meta'[x] \in NeedsRecovery => "before" \in material'[x] /\ Intact(x)'
    BY <2>1, <2>2, <2>4
  <2>6. \A q \in Proc : pc'[q] = "start" =>
          cur'[q] = cur[q] /\ "before" \in material'[cur[q]] /\ Untouched(cur[q])
    <3> SUFFICES ASSUME NEW q \in Proc, pc'[q] = "start"
                 PROVE  cur'[q] = cur[q] /\ "before" \in material'[cur[q]] /\ Untouched(cur[q])
      OBVIOUS
    <3>1. pc[q] = "start" /\ cur'[q] = cur[q] /\ material'[cur[q]] = material[cur[q]]
      BY <2>1, <2>3
    <3> QED
      BY <3>1
  <2> QED
    BY <1>8, <2>5, <2>6 DEF AbortOwn
<1>9. ASSUME NEW p \in Proc, CommitLock(p)
      PROVE  Undoable'
  BY <1>0, <1>9 DEF CommitLock
<1>10. ASSUME NEW p \in Proc, Admit(p)
      PROVE  Undoable'
  BY <1>0, <1>10 DEF Admit
<1>11. ASSUME NEW p \in Proc, Baseline(p)
      PROVE  Undoable'
  BY <1>0, <1>11 DEF Baseline
<1>12. ASSUME NEW p \in Proc, Validate(p)
      PROVE  Undoable'
  BY <1>0, <1>12 DEF Validate
<1>13. ASSUME NEW p \in Proc, Refuse(p)
      PROVE  Undoable'
  BY <1>0, <1>13 DEF Refuse, SavedByCheck
<1>14. ASSUME NEW p \in Proc, Escape(p)
      PROVE  Undoable'
  BY <1>0, <1>14 DEF Escape, SavedByCheck
<1>15. ASSUME NEW p \in Proc, SaveBefore(p)
      PROVE  Undoable'
  BY <1>0, <1>15 DEF SaveBefore
<1>16. ASSUME NEW p \in Proc, StartApplying(p)
      PROVE  Undoable'
  <2>1. cur[p] \in Tx
    BY <1>16 DEF StartApplying
  <2>2. \A x \in Tx \ {cur[p]} : meta'[x] = meta[x]
    BY <1>16 DEF StartApplying, MetaWriteRaises
  <2>3. "before" \in material[cur[p]] /\ Intact(cur[p])
    BY <1>16 DEF StartApplying
  <2>4. \A q \in Proc : pc'[q] = "start" => pc[q] = "start" /\ cur'[q] = cur[q]
    BY <1>16 DEF StartApplying, MetaWriteRaises
  <2> QED
    BY <1>16, <2>1, <2>2, <2>3, <2>4 DEF StartApplying
<1>17. ASSUME NEW p \in Proc, ApplyTarget(p)
      PROVE  Undoable'
  <2>1. cur[p] \in Tx /\ meta[cur[p]] \in NeedsRecovery /\ lock = p
    BY <1>17 DEF ApplyTarget, HolderIsCritical, Critical
  <2>2. \A x \in Tx : meta[x] \in NeedsRecovery => x = cur[p]
    BY <2>1 DEF SingleInFlight
  <2>3. \A q \in Proc : pc'[q] # "start"
    BY <1>17, <2>1 DEF ApplyTarget, HolderIsCritical, Critical
  <2>4. PICK n \in mem[p].todo :
          live' = live \/ live' = [live EXCEPT ![n] = Written(p, n)]
    BY <1>17 DEF ApplyTarget
  <2>5. Intact(cur[p])'
    <3>1. Written(p, n) \in {live[n], Goal[cur[p]].data[n]}
      BY DEF Written
    <3>2. \A m \in Target :
            live'[m] = live[m] \/ (m = n /\ live'[m] \in {live[n], Goal[cur[p]].data[n]})
      BY <1>0, <2>4, <3>1, OneWritten
    <3>3. Intact(cur[p]) /\ DOMAIN Goal[cur[p]].data \subseteq Target
      BY <2>1, GoalTypes
    <3> QED
      BY <1>17, <3>2, <3>3 DEF ApplyTarget
  <2> QED
    BY <1>17, <2>1, <2>2, <2>3, <2>5 DEF ApplyTarget
<1>18. ASSUME NEW p \in Proc, DoAction(p)
      PROVE  Undoable'
  BY <1>0, <1>18 DEF DoAction
<1>19. ASSUME NEW p \in Proc, StartObserving(p)
      PROVE  Undoable'
  BY <1>0, <1>19 DEF StartObserving
<1>20. ASSUME NEW p \in Proc, Observe(p)
      PROVE  Undoable'
  BY <1>0, <1>20 DEF Observe
<1>21. ASSUME NEW p \in Proc, MarkCommitted(p)
      PROVE  Undoable'
  BY <1>0, <1>21 DEF MarkCommitted, MetaWriteRaises
<1>22. ASSUME NEW p \in Proc, Finish(p)
      PROVE  Undoable'
  <2>1. \A x \in Tx : meta[x] \in NeedsRecovery => material'[x] = material[x]
    <3>1. PICK left \in Leftovers(cur[p]), lost \in SUBSET Doomed :
            /\ meta' = [x \in Tx |-> IF x \in lost THEN "gone" ELSE meta[x]]
            /\ material' = [x \in Tx |-> IF x \in lost THEN {}
                                          ELSE IF x = cur[p] THEN left ELSE material[x]]
      BY <1>22, Zenon DEF Finish
    <3>2. \A x \in Tx : meta[x] \in NeedsRecovery => x \notin Doomed
      BY DEF Doomed
    <3>3. meta[cur[p]] \in NeedsRecovery => left = material[cur[p]]
      BY <3>1 DEF Leftovers
    <3> QED
      BY <3>1, <3>2, <3>3
  <2>2. \A x \in Tx : meta'[x] \in NeedsRecovery => meta[x] \in NeedsRecovery
    BY <1>22 DEF Finish
  <2>3. \A q \in Proc : pc'[q] # "start"
    BY <1>22 DEF Finish, HolderIsCritical, Critical
  <2> QED
    BY <1>22, <2>1, <2>2, <2>3 DEF Finish
<1>23. ASSUME NEW p \in Proc, StartRollback(p)
      PROVE  Undoable'
  BY <1>0, <1>23 DEF StartRollback, MetaWriteRaises
<1>24. ASSUME NEW p \in Proc, RestoreTarget(p)
      PROVE  Undoable'
  <2>1. cur[p] \in Tx /\ meta[cur[p]] \in NeedsRecovery /\ lock = p
    BY <1>24 DEF RestoreTarget, HolderIsCritical, Critical
  <2>2. \A x \in Tx : meta[x] \in NeedsRecovery => x = cur[p]
    BY <2>1 DEF SingleInFlight
  <2>3. \A q \in Proc : pc'[q] # "start"
    BY <1>24, <2>1 DEF RestoreTarget, HolderIsCritical, Critical
  <2>4. PICK n \in mem[p].todo :
          live' = live \/ live' = [live EXCEPT ![n] = image[cur[p]].files[n]]
    BY <1>24 DEF RestoreTarget, Old
  <2>5. Intact(cur[p])'
    <3>1. image[cur[p]].files[n] \in {image[cur[p]].files[n]}
      OBVIOUS
    <3>2. \A m \in Target : live'[m] = live[m] \/ (m = n /\ live'[m] \in {image[cur[p]].files[n]})
      BY <1>0, <2>4, <3>1, OneWritten
    <3>3. Intact(cur[p]) /\ DOMAIN Goal[cur[p]].data \subseteq Target
      BY <2>1, GoalTypes
    <3> QED
      BY <1>24, <3>2, <3>3 DEF RestoreTarget
  <2> QED
    BY <1>24, <2>1, <2>2, <2>3, <2>5 DEF RestoreTarget
<1>25. ASSUME NEW p \in Proc, RestoreUnit(p)
      PROVE  Undoable'
  <2>1. live' = live /\ UNCHANGED disk /\ pc' = pc /\ cur' = cur
    BY <1>25 DEF RestoreUnit
  <2> QED
    BY <1>0, <2>1
<1>26. ASSUME NEW p \in Proc, MarkRolledBack(p)
      PROVE  Undoable'
  BY <1>0, <1>26 DEF MarkRolledBack, MetaWriteRaises
<1>27. ASSUME NEW p \in Proc, RecoverLock(p)
      PROVE  Undoable'
  BY <1>0, <1>27 DEF RecoverLock
<1>28. ASSUME NEW p \in Proc, Preflight(p)
      PROVE  Undoable'
  BY <1>0, <1>28 DEF Preflight, NotRestored
<1>29. ASSUME NEW p \in Proc, UndoTarget(p)
      PROVE  Undoable'
  <2>1. cur[p] \in Tx /\ meta[cur[p]] \in NeedsRecovery /\ lock = p
    BY <1>29 DEF UndoTarget, HolderIsCritical, Critical
  <2>2. \A x \in Tx : meta[x] \in NeedsRecovery => x = cur[p]
    BY <2>1 DEF SingleInFlight
  <2>3. \A q \in Proc : pc'[q] # "start"
    BY <1>29, <2>1 DEF UndoTarget, HolderIsCritical, Critical
  <2>4. PICK n \in mem[p].todo :
          live' = live \/ live' = [live EXCEPT ![n] = image[cur[p]].files[n]]
    BY <1>29 DEF UndoTarget, Old
  <2>5. Intact(cur[p])'
    <3>1. image[cur[p]].files[n] \in {image[cur[p]].files[n]}
      OBVIOUS
    <3>2. \A m \in Target : live'[m] = live[m] \/ (m = n /\ live'[m] \in {image[cur[p]].files[n]})
      BY <1>0, <2>4, <3>1, OneWritten
    <3>3. Intact(cur[p]) /\ DOMAIN Goal[cur[p]].data \subseteq Target
      BY <2>1, GoalTypes
    <3> QED
      BY <1>29, <3>2, <3>3 DEF UndoTarget
  <2> QED
    BY <1>29, <2>1, <2>2, <2>3, <2>5 DEF UndoTarget
<1>30. ASSUME NEW p \in Proc, MarkRecovered(p)
      PROVE  Undoable'
  BY <1>0, <1>30 DEF MarkRecovered, MetaWriteRaises, RecoveryVerdict
<1>31. ASSUME NEW p \in Proc, WriteAbort(p)
      PROVE  Undoable'
  BY <1>0, <1>31 DEF WriteAbort
<1>32. ASSUME NEW p \in Proc, Crash(p)
      PROVE  Undoable'
  BY <1>0, <1>32 DEF Crash
<1>33. ASSUME NEW n \in Outside, NEW v \in Value, Edit(n, v)
      PROVE  Undoable'
  BY <1>0, <1>33 DEF Edit
<1>34. ASSUME NEW u \in Flaky, Flap(u)
      PROVE  Undoable'
  BY <1>0, <1>34 DEF Flap
<1>35. CASE UNCHANGED vars
  BY <1>35 DEF vars
<1> HIDE DEF Undoable, Intact, Untouched, Staged, TypeInv, IInv, ControlType,
       OneHandPerTx, RecordAgrees, AgreesAt,
             NeedsRecovery, Unstarted, GcTerminal, Locked, Go, End, disk
<1> QED
  BY <1>1, <1>2, <1>3, <1>4, <1>5, <1>6, <1>7, <1>8, <1>9, <1>10, <1>11, <1>12,
     <1>13, <1>14, <1>15, <1>16, <1>17, <1>18, <1>19, <1>20, <1>21, <1>22, <1>23,
     <1>24, <1>25, <1>26, <1>27, <1>28, <1>29, <1>30, <1>31, <1>32, <1>33, <1>34,
     <1>35
     DEF Next, Begin, Step, Environment

-----------------------------------------------------------------------------
(* The inductive invariant: control, types, coverage and the production    *)
(* that the before-image describes.                                        *)
RecoveryInv == TypeInv /\ Undoable

(* Whatever a crash leaves behind as APPLYING, OBSERVING, ROLLING_BACK or  *)
(* ROLLBACK_FAILED, its before-image is complete and production holds only *)
(* old and new contents, except where somebody edited it from outside.     *)
THEOREM AlwaysRecoverable ==
  ASSUME Disciplined
  PROVE  Spec => []Recoverable
<1>1. Init => RecoveryInv
  <2>1. Init => Undoable
    BY DEF Init, Undoable, NeedsRecovery
  <2> QED
    BY <2>1, InitTypeInv DEF RecoveryInv
<1>2. RecoveryInv /\ [Next]_vars => RecoveryInv'
  BY StepTypeInv, StepUndoable DEF RecoveryInv
<1>3. RecoveryInv => Recoverable
  BY DEF RecoveryInv, TypeInv, Coverage, Undoable, Intact, Recoverable
<1> QED
  BY <1>1, <1>2, <1>3, PTL DEF Spec
=============================================================================
