----------------------------- MODULE WebProofs -----------------------------
(***************************************************************************)
(* Theorems about the web process, for every value of the constants.  Of   *)
(* WebJobs: maintenance operations exclude each other, and settled records *)
(* stay settled.  Of WebServer: the rate limits bound the passwords tried. *)
(***************************************************************************)
EXTENDS WebJobs, WebServer, FiniteSetTheorems, WellFoundedInduction, TLAPS

-----------------------------------------------------------------------------
(* The maintenance jobs.                                                   *)

(* Start opens the gate before it adds a record, so one job is active.     *)
OneActive == \A i, j \in Job : rec[i] \in Active /\ rec[j] \in Active => i = j

GuardIsAlone == ~Free => \A j \in Job : rec[j] \notin Active

(* No reader can take an operating job for dead.                           *)
OperatesInTime == \A j \in Job : unit[j] = "operate" =>
  rec[j] = "running" /\ fresh[j] /\ age[j] <= OpTimeout[KindOf[j]]

(* What the legacy cleanup has stopped does not operate as recorded.       *)
StoppedForGood == legacy.at = "stop" => \A j \in DOMAIN legacy.seen :
  legacy.seen[j] = "running" =>
    /\ rec[j] # "queued"
    /\ j \notin legacy.left => unit[j] # "operate"

JInv == TypeOK /\ OneActive /\ GuardIsAlone /\ OperatesInTime /\ StoppedForGood

(* No cleanup is under way at first.                                       *)
LEMMA NoLegacyTyped == NoLegacy \in Cleanups /\ NoLegacy.at = "off"
<1>1. NoLegacy.seen \in [{} -> Statuses]
  BY DEF NoLegacy
<1> QED
  BY <1>1 DEF NoLegacy, Cleanups

(* What a reader saw are jobs.                                             *)
LEMMA SeenAreJobs ==
  ASSUME legacy \in Cleanups
  PROVE  DOMAIN legacy.seen \subseteq Job
<1>1. PICK S \in SUBSET Job : legacy.seen \in [S -> Statuses]
  BY DEF Cleanups
<1> QED
  BY <1>1

(* The invariant holds at first.                                           *)
LEMMA InitJInv == Init => JInv
<1> SUFFICES ASSUME Init PROVE JInv
  OBVIOUS
<1>2. legacy \in Cleanups
  BY NoLegacyTyped DEF Init
<1>3. TypeOK
  BY <1>2, JobsAssumption DEF Init, TypeOK, Statuses, Units
<1> QED
  BY <1>3 DEF Init, JInv, OneActive, GuardIsAlone, OperatesInTime, StoppedForGood,
              NoLegacy, Active, Free

(* An operation is killed before its record is old enough, its unit reads  *)
(* as up or unknown, and its boot is the current one.                      *)
LEMMA Alive ==
  ASSUME JInv, NEW j \in Job, unit[j] = "operate", NEW a \in IsActive(j)
  PROVE  ~Dead(j, a)
<1>1. a # "down"
  BY DEF IsActive, Up
<1>2. rec[j] = "running" /\ fresh[j] /\ age[j] <= OpTimeout[KindOf[j]]
  BY DEF JInv, OperatesInTime
<1>3. Limit(j) = RunLimit[KindOf[j]]
  BY <1>2 DEF Limit
<1>4. /\ age[j] \in Nat /\ OpTimeout[KindOf[j]] \in Nat /\ RunLimit[KindOf[j]] \in Nat
      /\ OpTimeout[KindOf[j]] < RunLimit[KindOf[j]]
  BY JobsAssumption, TimeoutAssumption DEF JInv, TypeOK
<1>5. ~(age[j] >= Limit(j))
  BY <1>2, <1>3, <1>4
<1> QED
  BY <1>1, <1>2, <1>5 DEF Dead

(* When the gate opens nothing operates, and no record has been revived.   *)
LEMMA GateOpens ==
  ASSUME JInv, NEW r \in Open
  PROVE  /\ r \in [Job -> Statuses]
         /\ \A j \in Job : /\ r[j] \notin Active
                           /\ unit[j] # "operate"
                           /\ rec[j] \in Terminal \cup {"gone"} => r[j] \in {rec[j], "gone"}
<1>1. PICK ans \in AnyAnswers : /\ r = Pruned(Reconciled(ans))
                                /\ \A j \in Job : Reconciled(ans)[j] \notin Active
  BY DEF Open
<1>2. ASSUME NEW j \in Job
      PROVE  /\ r[j] = Reconciled(ans)[j] \/ r[j] = "gone"
             /\ Reconciled(ans)[j] = rec[j] \/ Reconciled(ans)[j] = "interrupted"
             /\ Dead(j, ans[j]) <=> Reconciled(ans)[j] # rec[j]
             /\ Dead(j, ans[j]) => rec[j] \in Active
  BY <1>1 DEF Pruned, Reconciled, Dead, Active
<1>3. r \in [Job -> Statuses]
  <2>1. r = [j \in Job |-> r[j]]
    BY <1>1 DEF Pruned
  <2>2. \A j \in Job : r[j] \in Statuses
    BY <1>2 DEF JInv, TypeOK, Statuses, Terminal
  <2> QED
    BY <2>1, <2>2
<1>4. ASSUME NEW j \in Job, unit[j] = "operate"
      PROVE  FALSE
  <2>1. ans[j] \in IsActive(j)
    BY DEF AnyAnswers
  <2>2. ~Dead(j, ans[j])
    BY <1>4, <2>1, Alive
  <2>3. rec[j] \in Active
    BY <1>4 DEF JInv, OperatesInTime, Active
  <2> QED
    BY <1>1, <1>2, <2>2, <2>3
<1> QED
  BY <1>1, <1>2, <1>3, <1>4 DEF Active, Terminal

-----------------------------------------------------------------------------

(* Every step keeps it.                                                    *)
LEMMA StepJInv == JInv /\ [Next]_vars => JInv'
<1> SUFFICES ASSUME JInv, [Next]_vars PROVE JInv'
  OBVIOUS
<1> USE JobsAssumption
<1> USE DEF JInv, OneActive, GuardIsAlone, OperatesInTime, StoppedForGood,
            TypeOK, Statuses, Units, Active, Terminal, Up, Free, Serving, Settle,
            Return, Advance
<1> HIDE DEF Statuses
<1>0. /\ {"queued", "running", "succeeded", "failed", "interrupted", "none", "gone"}
           \subseteq Statuses
      /\ NoLegacy \in Cleanups /\ NoLegacy.at = "off"
      /\ DOMAIN legacy.seen \subseteq Job
  BY NoLegacyTyped, SeenAreJobs DEF Statuses
<1> USE <1>0
<1>1. CASE UNCHANGED vars
  BY <1>1 DEF vars
<1>2. ASSUME NEW j \in Job, NEW a \in Answer, Look(j, a)
      PROVE  JInv'
  <2>1. unit[j] # "operate"
    BY <1>2, Alive DEF Look
  <2> QED
    BY <1>2, <2>1 DEF Look, Dead
<1>3. ASSUME NEW w \in Web, Guard(w)
      PROVE  JInv'
  <2>1. /\ rec' \in [Job -> Statuses]
        /\ \A j \in Job : rec'[j] \notin Active /\ unit[j] # "operate"
    BY <1>3, GateOpens DEF Guard
  <2> QED
    BY <1>3, <2>1 DEF Guard
<1>4. ASSUME NEW w \in Web, GuardEnd(w)
      PROVE  JInv'
  BY <1>4 DEF GuardEnd
<1>5. ASSUME NEW w \in Web, NEW j \in Job, Start(w, j)
      PROVE  JInv'
  <2>1. PICK r \in Open : rec' = [r EXCEPT ![j] = "queued"]
    BY <1>5 DEF Start
  <2>2. r \in [Job -> Statuses] /\ \A i \in Job : r[i] \notin Active /\ unit[i] # "operate"
    BY <2>1, GateOpens
  <2>3. rec' \in [Job -> Statuses] /\ \A i \in Job : i # j => rec'[i] \notin Active
    BY <2>1, <2>2
  <2> QED
    BY <1>5, <2>2, <2>3 DEF Start
<1>6. ASSUME NEW w \in Web, Launch(w)
      PROVE  JInv'
  <2>1. job[w] \in Job
    BY <1>6 DEF Launch
  <2>2. /\ unit' \in [Job -> Units]
        /\ \A j \in Job : unit'[j] = "operate" => unit[j] = "operate"
    BY <1>6, <2>1 DEF Launch
  <2>3. TypeOK'
    BY <1>6, <2>1, <2>2 DEF Launch
  <2> QED
    BY <1>6, <2>2, <2>3 DEF Launch
<1>7. ASSUME NEW w \in Web, QueryLoad(w)
      PROVE  JInv'
  BY <1>7 DEF QueryLoad
<1>8. ASSUME NEW w \in Web, Disown(w)
      PROVE  JInv'
  <2>1. job[w] \in Job
    BY <1>8 DEF Disown
  <2> QED
    BY <1>8, <2>1 DEF Disown
<1>9. ASSUME NEW j \in Job, Accept(j) \/ Exec(j) \/ OpEnd(j) \/ RunnerDies(j)
      PROVE  JInv'
  <2>1. /\ unit' \in [Job -> Units]
        /\ \A i \in Job : unit'[i] = "operate" => unit[i] = "operate"
        /\ UNCHANGED <<rec, fresh, age, lock, place, job, legacy>>
    BY <1>9 DEF Accept, Exec, OpEnd, RunnerDies
  <2> QED
    BY <2>1
<1>10. ASSUME NEW j \in Job, RunBegin(j)
       PROVE  JInv'
  <2>1. OpTimeout[KindOf[j]] \in Nat
    OBVIOUS
  <2> QED
    BY <1>10, <2>1 DEF RunBegin
<1>11. ASSUME NEW j \in Job, RunFinish(j)
       PROVE  JInv'
  <2>1. rec' \in [Job -> Statuses]
    BY <1>0, <1>11 DEF RunFinish, Outcome
  <2>2. /\ rec'[j] \notin Active
        /\ \A i \in Job : i # j => rec'[i] = rec[i] /\ unit'[i] = unit[i]
        /\ unit' \in [Job -> Units] /\ unit'[j] = "over"
        /\ UNCHANGED <<fresh, age, lock, place, job, legacy>>
    BY <1>11 DEF RunFinish, Outcome
  <2>3. TypeOK'
    BY <2>1, <2>2
  <2>4. \A i \in Job : /\ rec'[i] = rec[i] \/ rec'[i] \notin Active
                       /\ unit'[i] = "operate" => unit[i] = "operate" /\ rec'[i] = rec[i]
    BY <2>2
  <2>5. OneActive' /\ GuardIsAlone'
    BY <2>2, <2>4
  <2>6. OperatesInTime'
    <3> SUFFICES ASSUME NEW i \in Job, unit'[i] = "operate"
                 PROVE  rec'[i] = "running" /\ fresh'[i] /\ age'[i] <= OpTimeout[KindOf[i]]
      BY DEF OperatesInTime
    <3>1. unit[i] = "operate" /\ rec'[i] = rec[i]
      BY <2>4
    <3>2. rec[i] = "running" /\ fresh[i] /\ age[i] <= OpTimeout[KindOf[i]]
      BY <3>1 DEF OperatesInTime
    <3> QED
      BY <2>2, <3>1, <3>2
  <2>7. StoppedForGood'
    <3> SUFFICES ASSUME legacy.at = "stop", NEW i \in DOMAIN legacy.seen,
                        legacy.seen[i] = "running"
                 PROVE  rec'[i] # "queued" /\ (i \notin legacy.left => unit'[i] # "operate")
      BY <2>2 DEF StoppedForGood
    <3>1. i \in Job /\ rec[i] # "queued" /\ (i \notin legacy.left => unit[i] # "operate")
      BY DEF StoppedForGood
    <3> QED
      BY <2>4, <3>1
  <2> QED
    BY <2>3, <2>5, <2>6, <2>7
<1>12. CASE LegacyRead
  <2> DEFINE seen == [j \in ImportRecords |-> rec[j]]
  <2>1. seen \in [ImportRecords -> Statuses] /\ ImportRecords \in SUBSET Job
    BY DEF ImportRecords
  <2>2. legacy' = [at |-> "stop", seen |-> seen, left |-> ImportRecords]
    BY <1>12 DEF LegacyRead
  <2>3. /\ legacy' \in Cleanups
        /\ \A j \in DOMAIN legacy'.seen : /\ j \in legacy'.left
                                          /\ legacy'.seen[j] = rec[j]
    BY <2>1, <2>2 DEF Cleanups
  <2> QED
    BY <1>12, <2>3 DEF LegacyRead
<1>13. ASSUME NEW j \in Job, LegacyStop(j)
       PROVE  JInv'
  <2>1. /\ unit' \in [Job -> Units] /\ unit'[j] # "operate"
        /\ \A i \in Job : i # j => unit'[i] = unit[i]
    BY <1>13 DEF LegacyStop, LoadState
  <2>2. /\ legacy' \in Cleanups
        /\ legacy'.at = "stop" /\ legacy'.seen = legacy.seen
        /\ legacy'.left = legacy.left \ {j}
    BY <1>13 DEF LegacyStop, Cleanups
  <2> QED
    BY <1>13, <2>1, <2>2 DEF LegacyStop
<1>14. CASE LegacyGiveUp
  <2>1. /\ unit' \in [Job -> Units]
        /\ \A i \in Job : unit'[i] = "operate" => unit[i] = "operate"
        /\ legacy' \in Cleanups /\ legacy'.at = "off"
        /\ UNCHANGED <<rec, fresh, age, lock, place, job>>
    BY <1>0, <1>14 DEF LegacyGiveUp
  <2> QED
    BY <2>1
<1>15. CASE LegacyRemove
  <2>1. /\ rec' \in [Job -> Statuses]
        /\ \A j \in Job : rec'[j] = rec[j] \/ rec'[j] = "gone"
        /\ legacy' \in Cleanups /\ legacy'.at = "off"
        /\ UNCHANGED <<fresh, age, unit, lock, place, job>>
    BY <1>0, <1>15 DEF LegacyRemove
  <2>2. ASSUME NEW j \in Job, unit[j] = "operate"
        PROVE  rec'[j] = rec[j]
    <3>1. SUFFICES ASSUME legacy.seen = [i \in ImportRecords |-> rec[i]], j \in ImportRecords
                   PROVE  FALSE
      BY <1>15 DEF LegacyRemove
    <3>2. rec[j] = "running"
      BY <2>2
    <3>3. j \in DOMAIN legacy.seen /\ legacy.seen[j] = "running"
      BY <3>1, <3>2
    <3> QED
      BY <1>15, <2>2, <3>3 DEF LegacyRemove
  <2> QED
    BY <2>1, <2>2
<1>16. CASE WebDies
  BY <1>16 DEF WebDies
<1>17. CASE Reboot
  <2>1. /\ unit' \in [Job -> Units]
        /\ \A j \in Job : unit'[j] # "operate"
        /\ legacy' \in Cleanups /\ legacy'.at = "off"
    BY <1>0, <1>17 DEF Reboot
  <2> QED
    BY <1>17, <2>1 DEF Reboot
<1>18. CASE Tick
  BY <1>18 DEF Tick, Ticking
<1> QED
  BY <1>1, <1>2, <1>3, <1>4, <1>5, <1>6, <1>7, <1>8, <1>9, <1>10, <1>11, <1>12,
     <1>13, <1>14, <1>15, <1>16, <1>17, <1>18
     DEF Next, Runner, Thread, Request, Legacy

-----------------------------------------------------------------------------
(* Every variable has its type; the lock is held exactly in a guard.       *)
THEOREM TypeCorrect == Spec => []TypeOK
<1>1. JInv => TypeOK
  BY DEF JInv
<1> QED
  BY <1>1, InitJInv, StepJInv, PTL DEF Spec

(* At most one maintenance operation runs, whatever systemctl answers and  *)
(* whoever crashes, provided each time limit is below its reader's limit.  *)
THEOREM OneOperation == Spec => []Exclusive
<1>1. JInv => Exclusive
  BY DEF JInv, OneActive, GuardIsAlone, OperatesInTime, Exclusive, Active
<1> QED
  BY <1>1, InitJInv, StepJInv, PTL DEF Spec

(* The record of an operation that runs is neither given up, disowned nor  *)
(* removed by the cleanup before a rollback.                               *)
THEOREM OperationsHaveRecords == Spec => []OperationIsRecorded
<1>1. JInv => OperationIsRecorded
  BY DEF JInv, OperatesInTime, OperationIsRecorded
<1> QED
  BY <1>1, InitJInv, StepJInv, PTL DEF Spec

(* No step of a late runner, reader, launcher or cleanup rewrites a         *)
(* terminal record.                                                        *)
LEMMA StepSettled == JInv /\ [Next]_vars => SettledStep
<1> SUFFICES ASSUME JInv, [Next]_vars, NEW j \in Job,
                    rec[j] \in Terminal \cup {"gone"}
             PROVE  rec'[j] \in {rec[j], "gone"}
  BY DEF SettledStep
<1> USE DEF Active, Terminal
<1>0. rec \in [Job -> Statuses] /\ rec[j] \notin Active
  BY DEF JInv, TypeOK
<1>1. ASSUME NEW w \in Web, Guard(w)
      PROVE  rec'[j] \in {rec[j], "gone"}
  BY <1>1, GateOpens DEF Guard
<1>2. ASSUME NEW w \in Web, NEW i \in Job, Start(w, i)
      PROVE  rec'[j] \in {rec[j], "gone"}
  <2>1. PICK r \in Open : rec' = [r EXCEPT ![i] = "queued"]
    BY <1>2 DEF Start
  <2>2. i # j
    BY <1>2 DEF Start
  <2> QED
    BY <2>1, <2>2, GateOpens
<1>3. ASSUME NEW i \in Job, NEW a \in Answer, Look(i, a)
      PROVE  rec'[j] = rec[j]
  BY <1>0, <1>3 DEF Look, Dead
<1>4. ASSUME NEW w \in Web, Thread(w)
      PROVE  rec'[j] = rec[j]
  BY <1>0, <1>4 DEF Thread, Launch, QueryLoad, Disown, GuardEnd
<1>5. ASSUME NEW i \in Job, Runner(i) \/ RunnerDies(i)
      PROVE  rec'[j] = rec[j]
  BY <1>0, <1>5 DEF Runner, RunnerDies, Accept, Exec, RunBegin, OpEnd, RunFinish
<1>6. ASSUME Legacy
      PROVE  rec'[j] \in {rec[j], "gone"}
  BY <1>6 DEF Legacy, LegacyRead, LegacyStop, LegacyGiveUp, LegacyRemove
<1>7. ASSUME WebDies \/ Reboot \/ Tick \/ UNCHANGED vars
      PROVE  rec'[j] = rec[j]
  BY <1>7 DEF WebDies, Reboot, Tick, vars
<1> QED
  BY <1>1, <1>2, <1>3, <1>4, <1>5, <1>6, <1>7 DEF Next, Request

(* A settled job stays settled until its record is removed.                *)
THEOREM RecordsSettle == Spec => Settled
<1>1. JInv /\ [Next]_vars => [SettledStep]_vars
  BY StepSettled
<1> QED
  BY <1>1, InitJInv, StepJInv, PTL DEF Spec, Settled

-----------------------------------------------------------------------------
(* The rate limits of the web server.                                      *)

(* The times of guesses: in order, and none older than the window.         *)
Timely(G, now) ==
  /\ \A i, j \in 1..Len(G) : i <= j => G[i] <= G[j]
  /\ \A i \in 1..Len(G) : G[i] <= now /\ G[i] + RateWindow > now

(* All but w of the guesses in G have a failure in F, later and in the same *)
(* order, counted from the end.                                            *)
Covered(G, F, w) ==
  LET d == Len(G) - w
  IN  \A i \in 1..d : Len(F) - d + i >= 1 /\ G[i] <= F[Len(F) - d + i]

(* Every nonempty set of natural numbers has a least one.                  *)
LEMMA Least ==
  ASSUME NEW T \in SUBSET Nat, T # {}
  PROVE  \E x \in T : \A y \in T : x <= y
<1>1. PICK x \in T : \A y \in T : ~(<<y, x>> \in OpToRel(<, Nat))
  BY NatLessThanWellFounded, WFMin, Zenon
<1>2. \A y \in T : ~(y < x)
  BY <1>1 DEF OpToRel
<1>3. QED
  BY <1>2

(* _prune drops n old times, and the next one is not old.                   *)
LEMMA RecentFacts ==
  ASSUME NEW F \in Seq(Nat), NEW now \in Nat
  PROVE  \E n \in 0..Len(F) :
           /\ Recent(F, now) \in Seq(Nat)
           /\ Len(Recent(F, now)) = Len(F) - n
           /\ \A i \in 1..(Len(F) - n) : Recent(F, now)[i] = F[n + i]
           /\ \A i \in 1..n : F[i] + RateWindow <= now
           /\ n < Len(F) => F[n + 1] + RateWindow > now
<1> DEFINE kept == {i \in 1..Len(F) : F[i] + RateWindow > now} \cup {Len(F) + 1}
<1>1. RateWindow \in Nat /\ Len(F) \in Nat /\ \A i \in 1..Len(F) : F[i] \in Nat
  BY ServerAssumption
<1>2. kept \in SUBSET Nat /\ kept # {}
  BY <1>1
<1>3. Min(kept) \in kept /\ \A y \in kept : Min(kept) <= y
  <2>1. \E x \in kept : \A y \in kept : x <= y
    BY <1>2, Least
  <2>2. QED
    BY <2>1 DEF Min
<1>4. Recent(F, now) = SubSeq(F, Min(kept), Len(F))
  BY DEF Recent
<1> DEFINE n == Min(kept) - 1
<1>5. Min(kept) \in 1..(Len(F) + 1)
  BY <1>1, <1>3
<1>6. n \in 0..Len(F) /\ n + 1 = Min(kept)
  BY <1>1, <1>5
<1>7. ASSUME NEW i \in 1..n PROVE F[i] + RateWindow <= now
  <2>1. i \in 1..Len(F) /\ i < Min(kept)
    BY <1>5, <1>6
  <2>2. ~(F[i] + RateWindow > now)
    BY <2>1, <1>3, <1>5
  <2>3. QED
    BY <2>1, <2>2, <1>1
<1>8. n < Len(F) => F[n + 1] + RateWindow > now
  <2>1. n < Len(F) => Min(kept) # Len(F) + 1
    BY <1>5, <1>6
  <2>2. QED
    BY <2>1, <1>3, <1>6
<1> HIDE DEF kept
<1>9. /\ Recent(F, now) \in Seq(Nat)
      /\ Len(Recent(F, now)) = Len(F) - n
      /\ \A i \in 1..(Len(F) - n) : Recent(F, now)[i] = F[n + i]
  BY <1>1, <1>4, <1>5
<1>10. QED
  BY <1>6, <1>7, <1>8, <1>9

(* Pruning leaves fewer of them the later it is.                           *)
LEMMA RecentShrinks ==
  ASSUME NEW F \in Seq(Nat), NEW now \in Nat
  PROVE  /\ Len(Recent(F, now)) <= Len(F)
         /\ Len(Recent(F, now + 1)) <= Len(Recent(F, now))
<1>0. /\ now + 1 \in Nat /\ RateWindow \in Nat /\ Len(F) \in Nat
      /\ \A i \in 1..Len(F) : F[i] \in Nat
  BY ServerAssumption
<1>1. PICK n \in 0..Len(F) :
        /\ Len(Recent(F, now)) = Len(F) - n
        /\ \A i \in 1..n : F[i] + RateWindow <= now
  BY RecentFacts
<1>2. PICK k \in 0..Len(F) :
        /\ Len(Recent(F, now + 1)) = Len(F) - k
        /\ k < Len(F) => F[k + 1] + RateWindow > now + 1
  BY <1>0, RecentFacts
<1>3. n <= k
  BY <1>0, <1>1, <1>2
<1>4. QED
  BY <1>0, <1>1, <1>2, <1>3

(* Guesses stay timely when the old ones are forgotten.                     *)
LEMMA RecentTimely ==
  ASSUME NEW G \in Seq(Nat), NEW now \in Nat, Timely(G, now)
  PROVE  Timely(Recent(G, now + 1), now + 1)
<1>0. RateWindow \in Nat /\ Len(G) \in Nat /\ \A i \in 1..Len(G) : G[i] \in Nat
  BY ServerAssumption
<1>. now + 1 \in Nat
  OBVIOUS
<1>1. PICK n \in 0..Len(G) :
        /\ Len(Recent(G, now + 1)) = Len(G) - n
        /\ \A i \in 1..(Len(G) - n) : Recent(G, now + 1)[i] = G[n + i]
        /\ n < Len(G) => G[n + 1] + RateWindow > now + 1
  BY RecentFacts
<1>2. ASSUME NEW i \in 1..(Len(G) - n)
      PROVE  n + i \in 1..Len(G) /\ G[n + 1] <= G[n + i]
  <2>1. n + i \in 1..Len(G) /\ n + 1 \in 1..Len(G) /\ n + 1 <= n + i
    BY <1>0
  <2>2. QED
    BY <2>1 DEF Timely
<1>3. \A i \in 1..(Len(G) - n) : G[n + i] <= now + 1 /\ G[n + i] + RateWindow > now + 1
  BY <1>0, <1>1, <1>2, SMTT(30) DEF Timely
<1>4. ASSUME NEW i \in 1..(Len(G) - n), NEW j \in 1..(Len(G) - n), i <= j
      PROVE  G[n + i] <= G[n + j]
  <2>1. n + i \in 1..Len(G) /\ n + j \in 1..Len(G) /\ n + i <= n + j
    BY <1>0, <1>4
  <2>2. QED
    BY <2>1 DEF Timely
<1>5. QED
  BY <1>1, <1>3, <1>4 DEF Timely

(* ... and what is left of them is covered as it was.                      *)
LEMMA RecentGuessesCovered ==
  ASSUME NEW G \in Seq(Nat), NEW F \in Seq(Nat), NEW w \in Nat, NEW now \in Nat,
         Covered(G, F, w)
  PROVE  Covered(Recent(G, now), F, w)
<1>0. Len(G) \in Nat /\ Len(F) \in Nat
  OBVIOUS
<1>1. PICK n \in 0..Len(G) :
        /\ Len(Recent(G, now)) = Len(G) - n
        /\ \A i \in 1..(Len(G) - n) : Recent(G, now)[i] = G[n + i]
  BY RecentFacts
<1> SUFFICES ASSUME NEW i \in 1..(Len(G) - n - w)
             PROVE  /\ Len(F) - (Len(G) - n - w) + i >= 1
                    /\ Recent(G, now)[i] <= F[Len(F) - (Len(G) - n - w) + i]
  BY <1>1 DEF Covered
<1>2. i + n \in 1..(Len(G) - w) /\ i \in 1..(Len(G) - n)
  BY <1>0
<1>3. Len(F) - (Len(G) - n - w) + i = Len(F) - (Len(G) - w) + (i + n)
  BY <1>0
<1>4. /\ Len(F) - (Len(G) - w) + (i + n) >= 1
      /\ G[i + n] <= F[Len(F) - (Len(G) - w) + (i + n)]
  BY <1>2 DEF Covered
<1>5. Recent(G, now)[i] = G[i + n]
  BY <1>0, <1>1, <1>2, SMTT(30)
<1>6. QED
  BY <1>3, <1>4, <1>5

(* No failure that covers a timely guess is pruned.                        *)
LEMMA RecentFailuresCover ==
  ASSUME NEW G \in Seq(Nat), NEW F \in Seq(Nat), NEW w \in Nat, NEW now \in Nat,
         Covered(G, F, w), Timely(G, now)
  PROVE  Covered(G, Recent(F, now), w) /\ Len(G) - w <= Len(Recent(F, now))
<1> DEFINE d == Len(G) - w
<1>0. /\ Len(G) \in Nat /\ Len(F) \in Nat /\ d \in Int /\ d <= Len(G) /\ RateWindow \in Nat
      /\ \A i \in 1..Len(F) : F[i] \in Nat
      /\ \A i \in 1..Len(G) : G[i] \in Nat
  BY ServerAssumption, SMTT(30)
<1>1. PICK n \in 0..Len(F) :
        /\ Len(Recent(F, now)) = Len(F) - n
        /\ \A i \in 1..(Len(F) - n) : Recent(F, now)[i] = F[n + i]
        /\ \A i \in 1..n : F[i] + RateWindow <= now
  BY RecentFacts
<1>2. d >= 1 => n <= Len(F) - d
  <2> SUFFICES ASSUME d >= 1, n > Len(F) - d PROVE FALSE
    BY <1>0
  <2>1. Len(F) - d + 1 >= 1 /\ G[1] <= F[Len(F) - d + 1]
    BY <1>0 DEF Covered
  <2>2. Len(F) - d + 1 \in 1..n /\ Len(F) - d + 1 \in 1..Len(F)
    BY <2>1, <1>0, SMTT(30)
  <2>3. F[Len(F) - d + 1] + RateWindow <= now /\ F[Len(F) - d + 1] \in Nat
    BY <2>2, <1>1, <1>0
  <2>4. G[1] + RateWindow > now /\ G[1] \in Nat
    <3>1. 1 \in 1..Len(G)
      BY <1>0
    <3>2. QED
      BY <3>1, <1>0 DEF Timely
  <2> DEFINE f == F[Len(F) - d + 1]
  <2>5. f + RateWindow <= now /\ f \in Nat /\ G[1] <= f
    BY <2>1, <2>3
  <2> HIDE DEF f
  <2>6. QED
    BY <2>4, <2>5, <1>0
<1>3. d <= Len(Recent(F, now))
  BY <1>0, <1>1, <1>2
<1>4. ASSUME NEW i \in 1..d
      PROVE  /\ Len(F) - n - d + i >= 1
             /\ G[i] <= Recent(F, now)[Len(F) - n - d + i]
  <2>1. Len(F) - n - d + i \in 1..(Len(F) - n)
    BY <1>0, <1>2
  <2>2. Recent(F, now)[Len(F) - n - d + i] = F[n + (Len(F) - n - d + i)]
    BY <2>1, <1>1
  <2>3. n + (Len(F) - n - d + i) = Len(F) - d + i
    BY <1>0
  <2>4. G[i] <= F[Len(F) - d + i]
    BY DEF Covered
  <2>5. QED
    BY <2>1, <2>2, <2>3, <2>4
<1>5. QED
  BY <1>1, <1>3, <1>4 DEF Covered

(* A guess that is recorded as a failure, and any other failure.            *)
LEMMA FailureCovers ==
  ASSUME NEW G \in Seq(Nat), NEW F \in Seq(Nat), NEW w \in Nat, NEW now \in Nat,
         Covered(G, F, w), Timely(G, now), Len(G) - w <= Len(F)
  PROVE  /\ Covered(G, Append(F, now), w)
         /\ w > 0 => Covered(G, Append(F, now), w - 1)
<1> DEFINE d == Len(G) - w
           H == Append(F, now)
<1>0. /\ Len(G) \in Nat /\ Len(F) \in Nat /\ d \in Int /\ d <= Len(G)
      /\ Len(H) = Len(F) + 1 /\ H[Len(F) + 1] = now
      /\ \A i \in 1..Len(F) : H[i] = F[i]
      /\ \A i \in 1..Len(F) : F[i] \in Nat
      /\ \A i \in 1..Len(G) : G[i] \in Nat
  OBVIOUS
<1> HIDE DEF H
<1>1. ASSUME NEW i \in 1..d
      PROVE  Len(H) - d + i >= 1 /\ G[i] <= H[Len(H) - d + i]
  <2>1. CASE i = d
    <3>1. i \in 1..Len(G) /\ Len(H) - d + i = Len(F) + 1 /\ Len(H) - d + i >= 1
      BY <2>1, <1>0
    <3>2. G[i] <= now
      BY <3>1 DEF Timely
    <3>3. H[Len(H) - d + i] = now
      BY <3>1, <1>0, Zenon
    <3>4. G[i] <= H[Len(H) - d + i]
      BY <3>2, <3>3, Zenon
    <3>5. QED
      BY <3>1, <3>4
  <2>2. CASE i < d
    <3>1. /\ i + 1 \in 1..d /\ i \in 1..Len(G) /\ i + 1 \in 1..Len(G)
          /\ Len(H) - d + i = Len(F) - d + (i + 1)
          /\ Len(F) - d + (i + 1) \in 1..Len(F) /\ Len(H) - d + i >= 1
      BY <2>2, <1>0, SMTT(30)
    <3>2. G[i] <= G[i + 1]
      BY <3>1, <1>0 DEF Timely
    <3>3. G[i + 1] <= F[Len(F) - d + (i + 1)]
      BY <3>1 DEF Covered
    <3>4. H[Len(H) - d + i] = F[Len(F) - d + (i + 1)]
      BY <3>1, <1>0
    <3> DEFINE f == F[Len(F) - d + (i + 1)]
    <3>5. G[i] <= f
      <4>1. G[i] \in Nat /\ G[i + 1] \in Nat /\ f \in Nat /\ G[i + 1] <= f
        BY <3>1, <3>3, <1>0
      <4> HIDE DEF f
      <4>2. QED
        BY <4>1, <3>2, SMTT(30)
    <3>6. G[i] <= H[Len(H) - d + i]
      BY <3>4, <3>5, Zenon
    <3>7. QED
      BY <3>1, <3>6
  <2>3. QED
    BY <2>1, <2>2, <1>0
<1>2. ASSUME w > 0, NEW i \in 1..(d + 1)
      PROVE  Len(H) - (d + 1) + i >= 1 /\ G[i] <= H[Len(H) - (d + 1) + i]
  <2>1. CASE i = d + 1
    <3>1. /\ i \in 1..Len(G) /\ Len(H) - (d + 1) + i = Len(F) + 1
          /\ Len(H) - (d + 1) + i >= 1
      BY <2>1, <1>0, <1>2
    <3>2. G[i] <= now
      BY <3>1 DEF Timely
    <3>3. H[Len(H) - (d + 1) + i] = now
      BY <3>1, <1>0, Zenon
    <3>4. G[i] <= H[Len(H) - (d + 1) + i]
      BY <3>2, <3>3, Zenon
    <3>5. QED
      BY <3>1, <3>4
  <2>2. CASE i < d + 1
    <3>1. /\ i \in 1..d /\ Len(H) - (d + 1) + i = Len(F) - d + i
          /\ Len(F) - d + i \in 1..Len(F) /\ Len(H) - (d + 1) + i >= 1
      BY <2>2, <1>0, SMTT(30)
    <3>2. G[i] <= F[Len(F) - d + i]
      BY <3>1 DEF Covered
    <3>3. H[Len(H) - (d + 1) + i] = F[Len(F) - d + i]
      BY <3>1, <1>0
    <3>4. G[i] <= H[Len(H) - (d + 1) + i]
      BY <3>2, <3>3, Zenon
    <3>5. QED
      BY <3>1, <3>4
  <2>3. QED
    BY <2>1, <2>2, <1>0
<1>3. Covered(G, H, w)
  BY <1>1 DEF Covered
<1>4. w > 0 => Covered(G, H, w - 1)
  <2>1. Len(G) - (w - 1) = d + 1
    BY <1>0
  <2>2. QED
    BY <1>2, <2>1 DEF Covered
<1>5. QED
  BY <1>3, <1>4 DEF H

(* A new guess is one of those not yet recorded.                           *)
LEMMA GuessCovered ==
  ASSUME NEW G \in Seq(Nat), NEW F \in Seq(Nat), NEW w \in Nat, NEW now \in Nat,
         Covered(G, F, w), Timely(G, now)
  PROVE  Covered(Append(G, now), F, w + 1) /\ Timely(Append(G, now), now)
<1> DEFINE H == Append(G, now)
<1>0. /\ Len(G) \in Nat /\ Len(F) \in Nat /\ RateWindow \in Nat /\ RateWindow > 0
      /\ Len(H) = Len(G) + 1 /\ H[Len(G) + 1] = now
      /\ \A i \in 1..Len(G) : H[i] = G[i] /\ G[i] \in Nat
  BY ServerAssumption, SMTT(30)
<1> HIDE DEF H
<1>1. Len(H) - (w + 1) = Len(G) - w /\ \A i \in 1..(Len(G) - w) : H[i] = G[i]
  BY <1>0
<1>2. Covered(H, F, w + 1)
  BY <1>1 DEF Covered
<1>3. Timely(H, now)
  <2>1. \A i \in 1..Len(H) : i \in 1..Len(G) \/ i = Len(G) + 1
    BY <1>0
  <2>2. ASSUME NEW i \in 1..Len(H) PROVE H[i] <= now /\ H[i] + RateWindow > now
    <3>1. CASE i = Len(G) + 1
      BY <1>0, <3>1
    <3>2. CASE i \in 1..Len(G)
      BY <1>0, <3>2 DEF Timely
    <3>3. QED
      BY <2>1, <3>1, <3>2
  <2>3. ASSUME NEW i \in 1..Len(H), NEW j \in 1..Len(H), i <= j PROVE H[i] <= H[j]
    <3>1. CASE j = Len(G) + 1
      BY <1>0, <2>2, <3>1
    <3>2. CASE j \in 1..Len(G)
      <4>1. i \in 1..Len(G)
        BY <1>0, <2>3, <3>2
      <4>2. QED
        BY <1>0, <2>3, <3>2, <4>1 DEF Timely
    <3>3. QED
      BY <2>1, <3>1, <3>2
  <2>4. QED
    BY <2>2, <2>3 DEF Timely
<1>4. QED
  BY <1>2, <1>3 DEF H

(* What is forgotten is covered.                                           *)
LEMMA NothingCovered ==
  ASSUME NEW F \in Seq(Nat), NEW w \in Nat, NEW now \in Nat
  PROVE  Covered(<<>>, F, w) /\ Timely(<<>>, now)
BY DEF Covered, Timely

(* The failures within the window and the attempts under way bound them.    *)
LEMMA CoveredBounded ==
  ASSUME NEW G \in Seq(Nat), NEW F \in Seq(Nat), NEW w \in Nat, NEW now \in Nat,
         NEW p \in Nat, NEW max \in Nat,
         Covered(G, F, w), Timely(G, now), w <= p, Len(Recent(F, now)) + p <= max
  PROVE  Len(G) <= max
<1>1. Len(G) - w <= Len(Recent(F, now))
  BY RecentFailuresCover
<1>2. Len(Recent(F, now)) \in Nat /\ Len(G) \in Nat
  <2>1. Recent(F, now) \in Seq(Nat)
    BY RecentFacts
  <2>2. QED
    BY <2>1
<1>3. QED
  BY <1>1, <1>2

-----------------------------------------------------------------------------
(* Who tries a password, and whose wrong one is not recorded yet.          *)
Trying(c) == conn[c].at \in {"reserved", "hashing", "tried"}
Tries == {c \in Peer : Trying(c)}
TriesOf(a) == {c \in Peer : Trying(c) /\ conn[c].ip = a}
Wrong == {c \in Peer : conn[c].at = "tried" /\ conn[c].result = "wrong"}
WrongOf(a) == {c \in Peer : /\ conn[c].at = "tried" /\ conn[c].result = "wrong"
                            /\ conn[c].ip = a}

Place == {"none", "headers", "request", "called", "closing", "reserved", "hashing", "tried",
          "valid"}
Result == {None, "right", "wrong", "malformed", "busy"}
Connection == [at : Place, ip : Address \cup {None}, cut : BOOLEAN, result : Result]

ConnOK ==
  /\ conn \in [Peer -> Connection]
  /\ \A c \in Peer : conn[c].at # "none" => conn[c].ip \in Address
  /\ \A c \in Peer : conn[c].at = "tried" => conn[c].result \in Finishes

RatesOK ==
  /\ logins \in [Address -> Seq(Nat)] /\ allFailures \in Seq(Nat)
  /\ pending \in [Address -> Nat] /\ pendingTotal \in Nat
  /\ clock \in Nat
  /\ guesses \in [all : Seq(Nat), of : [Address -> Seq(Nat)]]

(* Every attempt under way is counted once.                                *)
Counted ==
  /\ IsFiniteSet(Tries) /\ Cardinality(Tries) = pendingTotal
  /\ \A a \in Address : Cardinality(TriesOf(a)) = pending[a]

(* Failures and attempts together never exceed the limits.                  *)
Limited ==
  /\ Len(Recent(allFailures, clock)) + pendingTotal <= AllAttempts
  /\ \A a \in Address : Len(Recent(logins[a], clock)) + pending[a] <= LoginAttempts

(* Every guess is a failure that was recorded later, or is about to be.     *)
Accounted ==
  /\ Timely(guesses.all, clock)
  /\ Covered(guesses.all, allFailures, Cardinality(Wrong))
  /\ \A a \in Address :
       /\ Timely(guesses.of[a], clock)
       /\ Covered(guesses.of[a], logins[a], Cardinality(WrongOf(a)))

ServerInv == ConnOK /\ RatesOK /\ Counted /\ Limited /\ Accounted

-----------------------------------------------------------------------------
(* Counting.                                                               *)

(* The sets that are counted are finite, and of the wrong ones there are no *)
(* more than attempts.                                                     *)
LEMMA Counts ==
  ASSUME ConnOK, RatesOK, Counted
  PROVE  /\ Cardinality(Wrong) \in Nat /\ Cardinality(Wrong) <= pendingTotal
         /\ \A a \in Address :
              /\ IsFiniteSet(TriesOf(a)) /\ IsFiniteSet(WrongOf(a))
              /\ Cardinality(WrongOf(a)) \in Nat /\ Cardinality(WrongOf(a)) <= pending[a]
         /\ IsFiniteSet(Wrong)
<1>1. Wrong \subseteq Tries
  BY DEF Wrong, Tries, Trying
<1>2. IsFiniteSet(Wrong) /\ Cardinality(Wrong) <= Cardinality(Tries)
  BY <1>1, FS_Subset DEF Counted
<1>3. Cardinality(Wrong) \in Nat
  BY <1>2, FS_CardinalityType
<1>4. ASSUME NEW a \in Address
      PROVE  /\ IsFiniteSet(TriesOf(a)) /\ IsFiniteSet(WrongOf(a))
             /\ Cardinality(WrongOf(a)) \in Nat /\ Cardinality(WrongOf(a)) <= pending[a]
  <2>1. TriesOf(a) \subseteq Tries /\ WrongOf(a) \subseteq TriesOf(a)
    BY DEF TriesOf, WrongOf, Tries, Trying
  <2>2. IsFiniteSet(TriesOf(a))
    BY <2>1, FS_Subset DEF Counted
  <2>3. IsFiniteSet(WrongOf(a)) /\ Cardinality(WrongOf(a)) <= Cardinality(TriesOf(a))
    BY <2>1, <2>2, FS_Subset
  <2>4. Cardinality(WrongOf(a)) \in Nat
    BY <2>3, FS_CardinalityType
  <2>5. QED
    BY <2>2, <2>3, <2>4 DEF Counted
<1>5. QED
  BY <1>2, <1>3, <1>4 DEF Counted

(* A step of a connection that is neither an attempt before nor after.      *)
LEMMA NoAttempt ==
  ASSUME ServerInv, NEW c \in Peer, ~Trying(c), ~Trying(c)',
         \A d \in Peer \ {c} : conn'[d] = conn[d]
  PROVE  /\ Tries' = Tries /\ Wrong' = Wrong
         /\ \A a \in Address : TriesOf(a)' = TriesOf(a) /\ WrongOf(a)' = WrongOf(a)
BY DEF Tries, TriesOf, Wrong, WrongOf, Trying

(* Nothing the limits depend on changes.                                   *)
LEMMA RatesKept ==
  ASSUME ServerInv, ConnOK', UNCHANGED <<rateVars, clock, guesses>>,
         Tries' = Tries, Wrong' = Wrong,
         \A a \in Address : TriesOf(a)' = TriesOf(a) /\ WrongOf(a)' = WrongOf(a)
  PROVE  ServerInv'
<1>1. RatesOK' /\ Counted'
  BY DEF ServerInv, RatesOK, Counted, rateVars
<1>2. Limited'
  BY DEF ServerInv, Limited, rateVars
<1>3. Accounted'
  BY DEF ServerInv, Accounted, rateVars
<1>4. QED
  BY <1>1, <1>2, <1>3 DEF ServerInv

(* The invariant bounds the guesses.                                       *)
LEMMA Bounded == ServerInv => GuessesBounded
<1> SUFFICES ASSUME ServerInv PROVE GuessesBounded
  OBVIOUS
<1>0. AllAttempts \in Nat /\ LoginAttempts \in Nat
  BY ServerAssumption
<1>1. Len(guesses.all) <= AllAttempts
  <2>1. guesses.all \in Seq(Nat) /\ allFailures \in Seq(Nat)
    BY DEF ServerInv, RatesOK
  <2>2. QED
    BY <1>0, <2>1, Counts, CoveredBounded DEF ServerInv, RatesOK, Accounted, Limited
<1>2. ASSUME NEW a \in Address PROVE Len(guesses.of[a]) <= LoginAttempts
  <2>1. /\ guesses.of[a] \in Seq(Nat) /\ logins[a] \in Seq(Nat)
        /\ pending[a] \in Nat /\ clock \in Nat
    BY DEF ServerInv, RatesOK
  <2>2. /\ Cardinality(WrongOf(a)) \in Nat /\ Cardinality(WrongOf(a)) <= pending[a]
    BY Counts DEF ServerInv
  <2>3. /\ Timely(guesses.of[a], clock)
        /\ Covered(guesses.of[a], logins[a], Cardinality(WrongOf(a)))
        /\ Len(Recent(logins[a], clock)) + pending[a] <= LoginAttempts
    BY DEF ServerInv, Accounted, Limited
  <2>4. QED
    BY <1>0, <2>1, <2>2, <2>3, CoveredBounded
<1>3. QED
  BY <1>1, <1>2 DEF GuessesBounded

-----------------------------------------------------------------------------
(* The steps.                                                              *)

(* At first nothing is counted, and nobody tries a password.               *)
LEMMA InitServer == ServerInit => ServerInv
<1> SUFFICES ASSUME ServerInit PROVE ServerInv
  OBVIOUS
<1>0. /\ AllAttempts \in Nat /\ LoginAttempts \in Nat
      /\ <<>> \in Seq(Nat) /\ Len(<<>>) = 0 /\ clock = 0
  BY ServerAssumption DEF ServerInit
<1>1. ConnOK
  BY DEF ServerInit, ConnOK, NoConn, Connection, Place, Result, Finishes
<1>2. RatesOK
  BY <1>0 DEF ServerInit, RatesOK
<1>3. Tries = {} /\ \A a \in Address : TriesOf(a) = {}
  BY DEF ServerInit, Tries, TriesOf, Trying, NoConn
<1>4. Counted
  BY <1>3, FS_EmptySet DEF Counted, ServerInit
<1>5. Len(Recent(<<>>, clock)) <= 0 /\ Len(Recent(<<>>, clock)) \in Nat
  <2>1. Recent(<<>>, clock) \in Seq(Nat) /\ Len(Recent(<<>>, clock)) <= Len(<<>>)
    BY <1>0, RecentFacts, RecentShrinks
  <2>2. QED
    BY <1>0, <2>1
<1>6. Limited
  BY <1>0, <1>5 DEF Limited, ServerInit
<1>7. Accounted
  BY <1>0, <1>1, <1>2, <1>4, Counts, NothingCovered DEF Accounted, ServerInit
<1>8. QED
  BY <1>1, <1>2, <1>4, <1>6, <1>7 DEF ServerInv

(* The steps that have nothing to do with a password.                      *)
LEMMA StepQuiet ==
  ASSUME ServerInv, NEW c \in Peer,
         \/ TakeIn(c) \/ Expire(c) \/ HeadersEnd(c) \/ HeadersFail(c)
         \/ Refuse(c) \/ Serve(c) \/ CallEnds(c) \/ WorkerEnds(c)
  PROVE  ServerInv'
<1>0. conn \in [Peer -> Connection]
  BY DEF ServerInv, ConnOK
<1>1. UNCHANGED <<rateVars, clock, guesses>>
  BY DEF TakeIn, Expire, HeadersEnd, HeadersFail, Refuse, Serve, CallEnds, WorkerEnds
<1>2. /\ ~Trying(c) /\ ~Trying(c)' /\ ConnOK'
      /\ \A d \in Peer \ {c} : conn'[d] = conn[d]
  <2>1. CASE TakeIn(c)
    <3>1. conn[c] = NoConn
      BY <2>1 DEF TakeIn
    <3>2. CASE UNCHANGED conn
      BY <3>1, <3>2 DEF ServerInv, ConnOK, NoConn, Trying
    <3>3. ASSUME NEW a \in Address,
                 conn' = [conn EXCEPT ![c] = [NoConn EXCEPT !.at = "headers", !.ip = a]]
          PROVE  /\ ~Trying(c) /\ ~Trying(c)' /\ ConnOK'
                 /\ \A d \in Peer \ {c} : conn'[d] = conn[d]
      <4>1. conn'[c] = [at |-> "headers", ip |-> a, cut |-> FALSE, result |-> None]
        BY <1>0, <3>3 DEF NoConn
      <4>2. conn'[c] \in Connection
        BY <4>1 DEF Connection, Place, Result
      <4>3. QED
        BY <1>0, <3>1, <3>3, <4>1, <4>2 DEF ServerInv, ConnOK, NoConn, Trying
    <3>4. QED
      BY <2>1, <3>2, <3>3 DEF TakeIn
  <2>2. CASE Expire(c)
    BY <2>2 DEF Expire, ServerInv, ConnOK, Connection, Trying, Place
  <2>3. CASE HeadersEnd(c)
    BY <2>3 DEF HeadersEnd, Moves, ServerInv, ConnOK, Connection, Trying, Place
  <2>4. CASE HeadersFail(c) \/ Refuse(c) \/ Serve(c) \/ CallEnds(c)
    BY <2>4 DEF HeadersFail, Refuse, Serve, CallEnds, Moves, ServerInv, ConnOK, Connection,
                Trying, Place
  <2>5. CASE WorkerEnds(c)
    BY <2>5 DEF WorkerEnds, NoConn, ServerInv, ConnOK, Connection, Trying, Place, Result
  <2>6. QED
    BY <2>1, <2>2, <2>3, <2>4, <2>5
<1>3. QED
  BY <1>1, <1>2, NoAttempt, RatesKept

(* An attempt that goes on, and is not wrong.                              *)
LEMMA StepGoesOn ==
  ASSUME ServerInv, NEW c \in Peer, BodyFails(c) \/ Verify(c)
  PROVE  ServerInv'
<1>1. UNCHANGED <<rateVars, clock, guesses>>
  BY DEF BodyFails, Verify
<1>2. /\ conn[c].at = "reserved" /\ ConnOK' /\ conn'[c].ip = conn[c].ip
      /\ \/ conn'[c].at = "hashing"
         \/ conn'[c].at = "tried" /\ conn'[c].result \in {"malformed", "busy"}
      /\ \A d \in Peer \ {c} : conn'[d] = conn[d]
  BY DEF BodyFails, Verify, Moves, ServerInv, ConnOK, Connection, Place, Result, Finishes
<1>3. /\ Tries' = Tries /\ Wrong' = Wrong
      /\ \A a \in Address : TriesOf(a)' = TriesOf(a) /\ WrongOf(a)' = WrongOf(a)
  BY <1>2 DEF Tries, TriesOf, Wrong, WrongOf, Trying
<1>4. QED
  BY <1>1, <1>2, <1>3, RatesKept

(* A hash that was computed.                                               *)
LEMMA StepHash ==
  ASSUME ServerInv, NEW c \in Peer, HashEnds(c)
  PROVE  ServerInv'
<1>1. PICK result \in {"right", "wrong"} :
        /\ conn' = [conn EXCEPT ![c].at = "tried", ![c].result = result]
        /\ guesses' = IF result = "right" THEN guesses
                      ELSE [guesses EXCEPT !.all = Append(@, clock),
                                           !.of[conn[c].ip] = Append(@, clock)]
  BY DEF HashEnds
<1>2. conn[c].at = "hashing" /\ UNCHANGED <<rateVars, clock>>
  BY DEF HashEnds
<1>3. /\ ConnOK' /\ conn'[c].ip = conn[c].ip /\ conn[c].ip \in Address
      /\ conn'[c].at = "tried" /\ conn'[c].result = result
      /\ \A d \in Peer \ {c} : conn'[d] = conn[d]
  BY <1>1, <1>2 DEF ServerInv, ConnOK, Connection, Place, Result, Finishes
<1>4. Tries' = Tries /\ \A a \in Address : TriesOf(a)' = TriesOf(a)
  BY <1>2, <1>3 DEF Tries, TriesOf, Trying
<1>5. CASE result = "right"
  <2>1. Wrong' = Wrong /\ \A a \in Address : WrongOf(a)' = WrongOf(a)
    BY <1>2, <1>3, <1>5 DEF Wrong, WrongOf
  <2>2. QED
    BY <1>1, <1>2, <1>3, <1>4, <1>5, <2>1, RatesKept
<1>6. CASE result = "wrong"
  <2>. PICK a \in Address : conn[c].ip = a
    BY <1>3
  <2>0. /\ guesses.all \in Seq(Nat) /\ allFailures \in Seq(Nat) /\ clock \in Nat
        /\ \A b \in Address : guesses.of[b] \in Seq(Nat) /\ logins[b] \in Seq(Nat)
        /\ guesses \in [all : Seq(Nat), of : [Address -> Seq(Nat)]]
    BY DEF ServerInv, RatesOK
  <2>1. /\ guesses'.all = Append(guesses.all, clock)
        /\ guesses'.of[a] = Append(guesses.of[a], clock)
        /\ \A b \in Address \ {a} : guesses'.of[b] = guesses.of[b]
        /\ guesses' \in [all : Seq(Nat), of : [Address -> Seq(Nat)]]
    <3>1. guesses' = [guesses EXCEPT !.all = Append(@, clock), !.of[a] = Append(@, clock)]
      BY <1>1, <1>6
    <3>2. /\ Append(guesses.all, clock) \in Seq(Nat)
          /\ Append(guesses.of[a], clock) \in Seq(Nat)
      BY <1>3, <2>0
    <3>3. /\ guesses'.all = Append(guesses.all, clock)
          /\ guesses'.of = [guesses.of EXCEPT ![a] = Append(guesses.of[a], clock)]
          /\ guesses' = [all |-> guesses'.all, of |-> guesses'.of]
      BY <2>0, <3>1
    <3>4. QED
      BY <1>3, <2>0, <3>2, <3>3, ZenonT(60)
  <2>2. /\ Wrong' = Wrong \cup {c} /\ c \notin Wrong
        /\ WrongOf(a)' = WrongOf(a) \cup {c} /\ c \notin WrongOf(a)
        /\ \A b \in Address \ {a} : WrongOf(b)' = WrongOf(b)
    BY <1>2, <1>3, <1>6 DEF Wrong, WrongOf
  <2>3. /\ IsFiniteSet(Wrong) /\ Cardinality(Wrong) \in Nat
        /\ \A b \in Address : IsFiniteSet(WrongOf(b)) /\ Cardinality(WrongOf(b)) \in Nat
    BY Counts DEF ServerInv
  <2>4. /\ Cardinality(Wrong') = Cardinality(Wrong) + 1
        /\ Cardinality(WrongOf(a)') = Cardinality(WrongOf(a)) + 1
    <3>1. Cardinality(Wrong \cup {c}) = Cardinality(Wrong) + 1
      BY <2>2, <2>3, FS_AddElement, Zenon
    <3>2. Cardinality(WrongOf(a) \cup {c}) = Cardinality(WrongOf(a)) + 1
      BY <2>2, <2>3, FS_AddElement, Zenon
    <3>3. QED
      BY <2>2, <3>1, <3>2, Zenon
  <2>5. /\ Timely(guesses'.all, clock)
        /\ Covered(guesses'.all, allFailures, Cardinality(Wrong'))
    BY <2>0, <2>1, <2>3, <2>4, GuessCovered DEF ServerInv, Accounted
  <2>6. ASSUME NEW b \in Address
        PROVE  /\ Timely(guesses'.of[b], clock)
               /\ Covered(guesses'.of[b], logins[b], Cardinality(WrongOf(b)'))
    <3>1. CASE b = a
      <4>1. /\ Timely(guesses.of[a], clock)
            /\ Covered(guesses.of[a], logins[a], Cardinality(WrongOf(a)))
        BY <1>3 DEF ServerInv, Accounted
      <4>2. /\ Timely(guesses'.of[a], clock)
            /\ Covered(guesses'.of[a], logins[a], Cardinality(WrongOf(a)) + 1)
        <5>1. /\ guesses.of[a] \in Seq(Nat) /\ logins[a] \in Seq(Nat)
              /\ Cardinality(WrongOf(a)) \in Nat
          BY <1>3, <2>0, <2>3
        <5>2. /\ Timely(Append(guesses.of[a], clock), clock)
              /\ Covered(Append(guesses.of[a], clock), logins[a], Cardinality(WrongOf(a)) + 1)
          BY <2>0, <4>1, <5>1, GuessCovered
        <5>3. QED
          BY <2>1, <5>2, Zenon
      <4>3. Covered(guesses'.of[a], logins[a], Cardinality(WrongOf(a)'))
        BY <2>4, <4>2, Zenon
      <4>4. QED
        BY <3>1, <4>2, <4>3, Zenon
    <3>2. CASE b # a
      BY <2>1, <2>2, <3>2 DEF ServerInv, Accounted
    <3>3. QED
      BY <3>1, <3>2
  <2>7. Accounted'
    BY <1>2, <2>5, <2>6 DEF Accounted, rateVars
  <2>8. RatesOK' /\ Counted' /\ Limited'
    BY <1>2, <1>4, <2>1 DEF ServerInv, RatesOK, Counted, Limited, rateVars
  <2>9. QED
    BY <1>3, <2>7, <2>8 DEF ServerInv
<1>7. QED
  BY <1>1, <1>5, <1>6

(* Pruning the failures changes nothing that counts.                        *)
LEMMA PruneAll ==
  ASSUME ServerInv
  PROVE  /\ Fresh(allFailures) \in Seq(Nat) /\ FreshOnly \in [Address -> Seq(Nat)]
         /\ Len(Recent(Fresh(allFailures), clock)) + pendingTotal <= AllAttempts
         /\ Covered(guesses.all, Fresh(allFailures), Cardinality(Wrong))
         /\ Len(guesses.all) - Cardinality(Wrong) <= Len(Fresh(allFailures))
         /\ \A a \in Address :
              /\ Len(Recent(FreshOnly[a], clock)) + pending[a] <= LoginAttempts
              /\ Covered(guesses.of[a], FreshOnly[a], Cardinality(WrongOf(a)))
              /\ Len(guesses.of[a]) - Cardinality(WrongOf(a)) <= Len(FreshOnly[a])
<1>0. AllAttempts \in Nat /\ LoginAttempts \in Nat
  BY ServerAssumption
<1>1. /\ guesses.all \in Seq(Nat) /\ allFailures \in Seq(Nat) /\ clock \in Nat
      /\ pendingTotal \in Nat
  BY DEF ServerInv, RatesOK
<1>2. Cardinality(Wrong) \in Nat
  BY Counts DEF ServerInv
<1>3. /\ Timely(guesses.all, clock)
      /\ Covered(guesses.all, allFailures, Cardinality(Wrong))
      /\ Len(Fresh(allFailures)) + pendingTotal <= AllAttempts
  BY DEF ServerInv, Accounted, Limited, Fresh
<1>4. /\ Fresh(allFailures) \in Seq(Nat)
      /\ Recent(Fresh(allFailures), clock) \in Seq(Nat)
      /\ Len(Recent(Fresh(allFailures), clock)) <= Len(Fresh(allFailures))
  BY <1>1, RecentFacts, RecentShrinks DEF Fresh
<1>5. /\ Covered(guesses.all, Fresh(allFailures), Cardinality(Wrong))
      /\ Len(guesses.all) - Cardinality(Wrong) <= Len(Fresh(allFailures))
  BY <1>1, <1>2, <1>3, RecentFailuresCover DEF Fresh
<1>6. Len(Recent(Fresh(allFailures), clock)) + pendingTotal <= AllAttempts
  BY <1>0, <1>1, <1>3, <1>4
<1>7. ASSUME NEW a \in Address
      PROVE  /\ FreshOnly[a] \in Seq(Nat)
             /\ Len(Recent(FreshOnly[a], clock)) + pending[a] <= LoginAttempts
             /\ Covered(guesses.of[a], FreshOnly[a], Cardinality(WrongOf(a)))
             /\ Len(guesses.of[a]) - Cardinality(WrongOf(a)) <= Len(FreshOnly[a])
  <2>1. guesses.of[a] \in Seq(Nat) /\ logins[a] \in Seq(Nat) /\ pending[a] \in Nat
    BY DEF ServerInv, RatesOK
  <2>2. Cardinality(WrongOf(a)) \in Nat
    BY Counts DEF ServerInv
  <2>3. /\ Timely(guesses.of[a], clock)
        /\ Covered(guesses.of[a], logins[a], Cardinality(WrongOf(a)))
        /\ Len(Recent(logins[a], clock)) + pending[a] <= LoginAttempts
    BY DEF ServerInv, Accounted, Limited
  <2>4. FreshOnly[a] = Recent(logins[a], clock)
    BY DEF FreshOnly, Fresh
  <2>5. /\ FreshOnly[a] \in Seq(Nat)
        /\ Recent(FreshOnly[a], clock) \in Seq(Nat)
        /\ Len(Recent(FreshOnly[a], clock)) <= Len(FreshOnly[a])
    BY <1>1, <2>1, <2>4, RecentFacts, RecentShrinks
  <2>6. /\ Covered(guesses.of[a], FreshOnly[a], Cardinality(WrongOf(a)))
        /\ Len(guesses.of[a]) - Cardinality(WrongOf(a)) <= Len(FreshOnly[a])
    BY <1>1, <2>1, <2>2, <2>3, <2>4, RecentFailuresCover
  <2>7. QED
    BY <1>0, <2>1, <2>3, <2>4, <2>5, <2>6
<1>8. FreshOnly \in [Address -> Seq(Nat)]
  BY <1>7 DEF FreshOnly
<1>9. QED
  BY <1>4, <1>5, <1>6, <1>7, <1>8

(* An attempt is reserved, or refused.                                     *)
LEMMA StepReserve ==
  ASSUME ServerInv, NEW c \in Peer, Reserve(c)
  PROVE  ServerInv'
<1>0. AllAttempts \in Nat /\ LoginAttempts \in Nat
  BY ServerAssumption
<1>. PICK a \in Address : conn[c].ip = a
  BY DEF Reserve, ServerInv, ConnOK
<1>1. /\ conn[c].at = "request"
      /\ allFailures' = Fresh(allFailures) /\ logins' = FreshOnly
      /\ UNCHANGED <<clock, guesses>>
  BY DEF Reserve
<1>2. /\ \A d \in Peer \ {c} : conn'[d] = conn[d]
      /\ conn'[c].ip = a /\ ConnOK'
      /\ \/ /\ MayTry(a) /\ conn'[c].at = "reserved"
            /\ pending' = [pending EXCEPT ![a] = @ + 1] /\ pendingTotal' = pendingTotal + 1
         \/ conn'[c].at = "closing" /\ UNCHANGED <<pending, pendingTotal>>
  <2>1. conn \in [Peer -> Connection] /\ conn[c].ip = a
    BY DEF ServerInv, ConnOK
  <2>2. CASE MayTry(a)
    <3>1. /\ conn' = [conn EXCEPT ![c].at = "reserved"]
          /\ pending' = [pending EXCEPT ![a] = @ + 1] /\ pendingTotal' = pendingTotal + 1
      BY <2>2 DEF Reserve, Moves
    <3>2. QED
      BY <1>1, <2>1, <2>2, <3>1 DEF ServerInv, ConnOK, Connection, Place
  <2>3. CASE ~MayTry(a)
    <3>1. conn' = [conn EXCEPT ![c].at = "closing"] /\ UNCHANGED <<pending, pendingTotal>>
      BY <2>3 DEF Reserve, Moves
    <3>2. QED
      BY <1>1, <2>1, <3>1 DEF ServerInv, ConnOK, Connection, Place
  <2>4. QED
    BY <2>2, <2>3
<1>3. Wrong' = Wrong /\ \A b \in Address : WrongOf(b)' = WrongOf(b)
  BY <1>1, <1>2 DEF Wrong, WrongOf
<1>4. Accounted'
  BY <1>1, <1>3, PruneAll DEF Accounted, ServerInv
<1>5. pending \in [Address -> Nat] /\ pendingTotal \in Nat /\ pending[a] \in Nat
  BY DEF ServerInv, RatesOK
<1>6. CASE MayTry(a) /\ conn'[c].at = "reserved" /\ pending' = [pending EXCEPT ![a] = @ + 1]
           /\ pendingTotal' = pendingTotal + 1
  <2>1. /\ pending' \in [Address -> Nat] /\ pendingTotal' \in Nat
        /\ pending'[a] = pending[a] + 1
        /\ \A b \in Address \ {a} : pending'[b] = pending[b]
    BY <1>5, <1>6
  <2>2. RatesOK'
    BY <1>1, <2>1, PruneAll DEF ServerInv, RatesOK
  <2>3. /\ Tries' = Tries \cup {c} /\ c \notin Tries
        /\ TriesOf(a)' = TriesOf(a) \cup {c} /\ c \notin TriesOf(a)
        /\ \A b \in Address \ {a} : TriesOf(b)' = TriesOf(b)
    BY <1>1, <1>2, <1>6 DEF Tries, TriesOf, Trying
  <2>4. /\ IsFiniteSet(Tries \cup {c})
        /\ Cardinality(Tries \cup {c}) = pendingTotal + 1
    <3>1. IsFiniteSet(Tries) /\ Cardinality(Tries) = pendingTotal
      BY DEF ServerInv, Counted
    <3>2. QED
      BY <2>3, <3>1, FS_AddElement
  <2>5. Cardinality(TriesOf(a) \cup {c}) = pending[a] + 1
    <3>1. IsFiniteSet(TriesOf(a)) /\ Cardinality(TriesOf(a)) = pending[a]
      BY Counts DEF ServerInv, Counted
    <3>2. QED
      BY <2>3, <3>1, FS_AddElement
  <2>6. Counted'
    <3>1. ASSUME NEW b \in Address PROVE Cardinality(TriesOf(b)') = pending'[b]
      <4>1. CASE b = a
        BY <2>1, <2>3, <2>5, <4>1, Zenon
      <4>2. CASE b # a
        BY <2>1, <2>3, <4>2 DEF ServerInv, Counted
      <4>3. QED
        BY <4>1, <4>2
    <3>2. IsFiniteSet(Tries') /\ Cardinality(Tries') = pendingTotal'
      BY <1>6, <2>3, <2>4, Zenon
    <3>3. QED
      BY <3>1, <3>2 DEF Counted
  <2>7. Limited'
    <3>1. /\ Len(Fresh(allFailures)) + pendingTotal < AllAttempts
          /\ Len(Fresh(logins[a])) + pending[a] < LoginAttempts
      BY <1>6 DEF MayTry
    <3>2. /\ Fresh(allFailures) \in Seq(Nat) /\ FreshOnly[a] \in Seq(Nat)
          /\ clock \in Nat /\ FreshOnly[a] = Fresh(logins[a])
      BY PruneAll DEF ServerInv, RatesOK, FreshOnly
    <3>3. /\ Len(Recent(Fresh(allFailures), clock)) <= Len(Fresh(allFailures))
          /\ Len(Recent(FreshOnly[a], clock)) <= Len(Fresh(logins[a]))
          /\ Len(Recent(Fresh(allFailures), clock)) \in Nat
          /\ Len(Recent(FreshOnly[a], clock)) \in Nat
          /\ Len(Fresh(allFailures)) \in Nat /\ Len(Fresh(logins[a])) \in Nat
      <4>1. /\ Recent(Fresh(allFailures), clock) \in Seq(Nat)
            /\ Recent(FreshOnly[a], clock) \in Seq(Nat)
        BY <3>2, RecentFacts
      <4>2. /\ Len(Recent(Fresh(allFailures), clock)) <= Len(Fresh(allFailures))
            /\ Len(Recent(FreshOnly[a], clock)) <= Len(FreshOnly[a])
        BY <3>2, RecentShrinks
      <4>3. QED
        BY <3>2, <4>1, <4>2
    <3>4. /\ Len(Recent(Fresh(allFailures), clock)) + pendingTotal' <= AllAttempts
          /\ Len(Recent(FreshOnly[a], clock)) + pending'[a] <= LoginAttempts
      BY <1>0, <1>5, <1>6, <2>1, <3>1, <3>3
    <3>5. \A b \in Address : Len(Recent(FreshOnly[b], clock)) + pending'[b] <= LoginAttempts
      BY <2>1, <3>4, PruneAll
    <3>6. QED
      BY <1>1, <3>4, <3>5 DEF Limited
  <2>8. QED
    BY <1>2, <1>4, <2>2, <2>6, <2>7 DEF ServerInv
<1>7. CASE conn'[c].at = "closing" /\ UNCHANGED <<pending, pendingTotal>>
  <2>1. Tries' = Tries /\ \A b \in Address : TriesOf(b)' = TriesOf(b)
    BY <1>1, <1>2, <1>7 DEF Tries, TriesOf, Trying
  <2>2. RatesOK' /\ Counted' /\ Limited'
    BY <1>1, <1>7, <2>1, PruneAll DEF ServerInv, RatesOK, Counted, Limited
  <2>3. QED
    BY <1>2, <1>4, <2>2 DEF ServerInv
<1>8. QED
  BY <1>2, <1>6, <1>7

(* The failures of an address are forgotten: the one that has logged in,    *)
(* and at times the oldest one.                                            *)
LEMMA StepWelcome ==
  ASSUME ServerInv, NEW c \in Peer, Welcome(c)
  PROVE  ServerInv'
<1>0. LoginAttempts \in Nat
  BY ServerAssumption
<1>. PICK a \in Address : conn[c].ip = a
  BY DEF Welcome, ServerInv, ConnOK
<1>1. /\ conn[c].at = "valid" /\ conn' = [conn EXCEPT ![c].at = "closing"]
      /\ logins' = [logins EXCEPT ![a] = <<>>]
      /\ guesses' = [guesses EXCEPT !.of = [x \in Address |-> IF x = a THEN <<>> ELSE @[x]]]
      /\ UNCHANGED <<allFailures, pending, pendingTotal, clock>>
  BY DEF Welcome, Moves, ForgetOf
<1>2. ~Trying(c) /\ ~Trying(c)' /\ ConnOK' /\ \A d \in Peer \ {c} : conn'[d] = conn[d]
  BY <1>1 DEF ServerInv, ConnOK, Connection, Place, Trying
<1>3. /\ Tries' = Tries /\ Wrong' = Wrong
      /\ \A b \in Address : TriesOf(b)' = TriesOf(b) /\ WrongOf(b)' = WrongOf(b)
  BY <1>2, NoAttempt
<1>4. /\ guesses \in [all : Seq(Nat), of : [Address -> Seq(Nat)]]
      /\ logins \in [Address -> Seq(Nat)] /\ <<>> \in Seq(Nat) /\ clock \in Nat
      /\ \A b \in Address : logins[b] \in Seq(Nat) /\ pending[b] \in Nat
  BY DEF ServerInv, RatesOK
<1>5. /\ guesses'.all = guesses.all
      /\ guesses'.of = [x \in Address |-> IF x = a THEN <<>> ELSE guesses.of[x]]
      /\ guesses' = [all |-> guesses'.all, of |-> guesses'.of]
  BY <1>1, <1>4
<1>6. RatesOK' /\ Counted'
  <2>1. \A x \in Address : (IF x = a THEN <<>> ELSE guesses.of[x]) \in Seq(Nat)
    BY <1>4
  <2>2. guesses' \in [all : Seq(Nat), of : [Address -> Seq(Nat)]]
    BY <1>4, <1>5, <2>1
  <2>3. QED
    BY <1>1, <1>3, <1>4, <2>2 DEF ServerInv, RatesOK, Counted
<1>7. ASSUME NEW b \in Address
      PROVE  /\ Len(Recent(logins'[b], clock)) + pending[b] <= LoginAttempts
             /\ Timely(guesses'.of[b], clock)
             /\ Covered(guesses'.of[b], logins'[b], Cardinality(WrongOf(b)))
  <2>1. CASE b # a
    BY <1>1, <1>4, <1>5, <2>1 DEF ServerInv, Limited, Accounted
  <2>2. CASE b = a
    <3>1. logins'[b] = <<>> /\ guesses'.of[b] = <<>>
      BY <1>1, <1>4, <1>5, <2>2
    <3>2. Cardinality(WrongOf(b)) \in Nat
      BY Counts DEF ServerInv
    <3>3. Timely(<<>>, clock) /\ Covered(<<>>, <<>>, Cardinality(WrongOf(b)))
      BY <1>4, <3>2, NothingCovered
    <3>4. Len(Recent(<<>>, clock)) + pending[b] <= LoginAttempts
      <4>1. /\ Recent(<<>>, clock) \in Seq(Nat) /\ Len(Recent(<<>>, clock)) <= Len(<<>>)
            /\ Recent(logins[b], clock) \in Seq(Nat)
        BY <1>4, RecentFacts, RecentShrinks
      <4>2. Len(Recent(logins[b], clock)) + pending[b] <= LoginAttempts
        BY DEF ServerInv, Limited
      <4>3. /\ Len(Recent(<<>>, clock)) = 0 /\ Len(Recent(logins[b], clock)) \in Nat
            /\ pending[b] \in Nat
        BY <1>4, <4>1
      <4>4. QED
        BY <1>0, <4>2, <4>3
    <3>5. QED
      BY <3>1, <3>3, <3>4, Zenon
  <2>3. QED
    BY <2>1, <2>2
<1>8. Limited' /\ Accounted'
  BY <1>1, <1>3, <1>5, <1>7 DEF ServerInv, Limited, Accounted
<1>9. QED
  BY <1>2, <1>6, <1>8 DEF ServerInv

(* Time passes: failures become old, and so do guesses, which are older.    *)
LEMMA StepMinutes ==
  ASSUME ServerInv, Minutes
  PROVE  ServerInv'
<1>0. AllAttempts \in Nat /\ LoginAttempts \in Nat
  BY ServerAssumption
<1>1. /\ clock' = clock + 1 /\ UNCHANGED <<conn, rateVars>>
      /\ guesses' = [all |-> Recent(guesses.all, clock + 1),
                     of |-> [a \in Address |-> Recent(guesses.of[a], clock + 1)]]
  BY DEF Minutes
<1>2. /\ guesses.all \in Seq(Nat) /\ allFailures \in Seq(Nat)
      /\ clock \in Nat /\ clock + 1 \in Nat /\ pendingTotal \in Nat
      /\ \A a \in Address : /\ guesses.of[a] \in Seq(Nat) /\ logins[a] \in Seq(Nat)
                            /\ pending[a] \in Nat
  BY DEF ServerInv, RatesOK
<1>3. /\ Recent(guesses.all, clock + 1) \in Seq(Nat)
      /\ \A a \in Address : Recent(guesses.of[a], clock + 1) \in Seq(Nat)
  BY <1>2, RecentFacts
<1>4. ConnOK' /\ RatesOK'
  BY <1>1, <1>2, <1>3 DEF ServerInv, ConnOK, RatesOK, rateVars
<1>5. /\ Tries' = Tries /\ Wrong' = Wrong
      /\ \A a \in Address : TriesOf(a)' = TriesOf(a) /\ WrongOf(a)' = WrongOf(a)
  BY <1>1 DEF Tries, TriesOf, Wrong, WrongOf, Trying
<1>6. Counted'
  BY <1>1, <1>5 DEF ServerInv, Counted, rateVars
<1>7. Limited'
  <2>1. ASSUME NEW F \in Seq(Nat), NEW p \in Nat, NEW max \in Nat,
               Len(Recent(F, clock)) + p <= max
        PROVE  Len(Recent(F, clock + 1)) + p <= max
    <3>1. /\ Recent(F, clock) \in Seq(Nat) /\ Recent(F, clock + 1) \in Seq(Nat)
          /\ Len(Recent(F, clock + 1)) <= Len(Recent(F, clock))
      BY <1>2, RecentFacts, RecentShrinks
    <3>2. QED
      BY <2>1, <3>1
  <2>2. QED
    BY <1>0, <1>1, <1>2, <2>1 DEF ServerInv, Limited, rateVars
<1>8. Accounted'
  <2>1. /\ Cardinality(Wrong) \in Nat
        /\ \A a \in Address : Cardinality(WrongOf(a)) \in Nat
    BY Counts DEF ServerInv
  <2>2. /\ Timely(Recent(guesses.all, clock + 1), clock + 1)
        /\ Covered(Recent(guesses.all, clock + 1), allFailures, Cardinality(Wrong))
    BY <1>2, <2>1, RecentTimely, RecentGuessesCovered DEF ServerInv, Accounted
  <2>3. ASSUME NEW a \in Address
        PROVE  /\ Timely(Recent(guesses.of[a], clock + 1), clock + 1)
               /\ Covered(Recent(guesses.of[a], clock + 1), logins[a], Cardinality(WrongOf(a)))
    <3>1. /\ Timely(guesses.of[a], clock)
          /\ Covered(guesses.of[a], logins[a], Cardinality(WrongOf(a)))
      BY DEF ServerInv, Accounted
    <3>2. /\ guesses.of[a] \in Seq(Nat) /\ logins[a] \in Seq(Nat)
          /\ Cardinality(WrongOf(a)) \in Nat
      BY <1>2, <2>1
    <3>3. QED
      BY <1>2, <3>1, <3>2, RecentTimely, RecentGuessesCovered
  <2>4. QED
    BY <1>1, <1>5, <2>2, <2>3 DEF Accounted, rateVars
<1>9. QED
  BY <1>4, <1>6, <1>7, <1>8 DEF ServerInv

(* A failure is recorded after the old ones have been pruned.               *)
LEMMA Recording ==
  ASSUME NEW G \in Seq(Nat), NEW F \in Seq(Nat), NEW w \in Nat, NEW now \in Nat,
         NEW p \in Nat \ {0}, NEW max \in Nat,
         Covered(G, F, w), Timely(G, now), Len(Recent(F, now)) + p <= max
  PROVE  /\ Append(Recent(F, now), now) \in Seq(Nat)
         /\ Covered(G, Append(Recent(F, now), now), w)
         /\ w > 0 => Covered(G, Append(Recent(F, now), now), w - 1)
         /\ Len(Recent(Append(Recent(F, now), now), now)) + (p - 1) <= max
<1>1. Recent(F, now) \in Seq(Nat) /\ Append(Recent(F, now), now) \in Seq(Nat)
  BY RecentFacts
<1>2. Covered(G, Recent(F, now), w) /\ Len(G) - w <= Len(Recent(F, now))
  BY RecentFailuresCover
<1>3. /\ Covered(G, Append(Recent(F, now), now), w)
      /\ w > 0 => Covered(G, Append(Recent(F, now), now), w - 1)
  BY <1>1, <1>2, FailureCovers
<1>4. /\ Recent(Append(Recent(F, now), now), now) \in Seq(Nat)
      /\ Len(Recent(Append(Recent(F, now), now), now)) <= Len(Append(Recent(F, now), now))
  BY <1>1, RecentFacts, RecentShrinks
<1>5. /\ Len(Append(Recent(F, now), now)) = Len(Recent(F, now)) + 1
      /\ Len(Recent(F, now)) \in Nat
      /\ Len(Recent(Append(Recent(F, now), now), now)) \in Nat
  BY <1>1, <1>4
<1>6. QED
  BY <1>1, <1>3, <1>4, <1>5

(* The attempt that ends is no longer counted.                             *)
LEMMA OneLess ==
  ASSUME ServerInv, NEW c \in Peer, NEW a \in Address,
         conn[c].at = "tried", conn[c].ip = a, ~Trying(c)',
         \A d \in Peer \ {c} : conn'[d] = conn[d],
         pending' = [pending EXCEPT ![a] = @ - 1], pendingTotal' = pendingTotal - 1
  PROVE  /\ Counted' /\ pendingTotal \in Nat \ {0} /\ pending[a] \in Nat \ {0}
         /\ pending' \in [Address -> Nat] /\ pendingTotal' \in Nat
         /\ pending'[a] = pending[a] - 1
         /\ \A b \in Address \ {a} : pending'[b] = pending[b]
<1>1. /\ Tries' = Tries \ {c} /\ c \in Tries
      /\ TriesOf(a)' = TriesOf(a) \ {c} /\ c \in TriesOf(a)
      /\ \A b \in Address \ {a} : TriesOf(b)' = TriesOf(b)
  BY DEF Tries, TriesOf, Trying
<1>2. /\ IsFiniteSet(Tries) /\ Cardinality(Tries) = pendingTotal
      /\ IsFiniteSet(TriesOf(a)) /\ Cardinality(TriesOf(a)) = pending[a]
      /\ pending \in [Address -> Nat] /\ pendingTotal \in Nat /\ pending[a] \in Nat
  BY Counts DEF ServerInv, Counted, RatesOK
<1>3. /\ IsFiniteSet(Tries \ {c}) /\ Cardinality(Tries \ {c}) = pendingTotal - 1
      /\ pendingTotal # 0
  BY <1>1, <1>2, FS_RemoveElement, FS_EmptySet
<1>4. Cardinality(TriesOf(a) \ {c}) = pending[a] - 1 /\ pending[a] # 0
  BY <1>1, <1>2, FS_RemoveElement, FS_EmptySet, ZenonT(60)
<1>5. /\ pending' \in [Address -> Nat] /\ pendingTotal' \in Nat
      /\ pending'[a] = pending[a] - 1
      /\ \A b \in Address \ {a} : pending'[b] = pending[b]
  BY <1>2, <1>3, <1>4
<1>6. ASSUME NEW b \in Address PROVE Cardinality(TriesOf(b)') = pending'[b]
  <2>1. CASE b = a
    BY <1>1, <1>4, <1>5, <2>1, Zenon
  <2>2. CASE b # a
    BY <1>1, <1>5, <2>2 DEF ServerInv, Counted
  <2>3. QED
    BY <2>1, <2>2
<1>7. IsFiniteSet(Tries') /\ Cardinality(Tries') = pendingTotal'
  BY <1>1, <1>3, Zenon
<1>8. QED
  BY <1>2, <1>3, <1>4, <1>5, <1>6, <1>7 DEF Counted

(* finish_login_attempt: the reservation becomes a failure, or nothing.     *)
LEMMA StepFinish ==
  ASSUME ServerInv, NEW c \in Peer, FinishAttempt(c)
  PROVE  ServerInv'
<1>0. AllAttempts \in Nat /\ LoginAttempts \in Nat
  BY ServerAssumption
<1>. PICK a \in Address : conn[c].ip = a
  BY DEF FinishAttempt, ServerInv, ConnOK
<1>. PICK result \in Finishes : conn[c].result = result
  BY DEF FinishAttempt, ServerInv, ConnOK
<1>1. /\ conn[c].at = "tried" /\ UNCHANGED clock
      /\ conn' = [conn EXCEPT ![c].at = IF result = "right" THEN "valid" ELSE "closing"]
      /\ IF result \in {"wrong", "malformed"}
           THEN /\ allFailures' = Append(Fresh(allFailures), clock)
                /\ \E victim \in IF Victims(a) = {} THEN {None} ELSE Victims(a) :
                     logins' = Recorded(a, victim) /\ ForgetOf(victim)
           ELSE UNCHANGED <<allFailures, logins, guesses>>
  BY DEF FinishAttempt, Moves
<1>2. ~Trying(c)' /\ ConnOK' /\ \A d \in Peer \ {c} : conn'[d] = conn[d]
  BY <1>1 DEF ServerInv, ConnOK, Connection, Place, Trying
<1>3. pending' = [pending EXCEPT ![a] = @ - 1] /\ pendingTotal' = pendingTotal - 1
  <2>1. c \in TriesOf(a)
    BY <1>1 DEF TriesOf, Trying
  <2>2. pending[a] # 0 /\ pending[a] \in Nat
    BY <2>1, Counts, FS_EmptySet DEF ServerInv, Counted, RatesOK
  <2>3. pending[a] > 0
    BY <2>2
  <2>4. QED
    BY <2>3 DEF FinishAttempt
<1>4. /\ Counted' /\ pendingTotal \in Nat \ {0} /\ pending[a] \in Nat \ {0}
      /\ pending' \in [Address -> Nat] /\ pendingTotal' \in Nat
      /\ pending'[a] = pending[a] - 1
      /\ \A b \in Address \ {a} : pending'[b] = pending[b]
  BY <1>1, <1>2, <1>3, OneLess
<1>5. /\ guesses \in [all : Seq(Nat), of : [Address -> Seq(Nat)]]
      /\ <<>> \in Seq(Nat) /\ Len(<<>>) = 0
      /\ guesses.all \in Seq(Nat) /\ allFailures \in Seq(Nat)
      /\ clock \in Nat
      /\ \A b \in Address : /\ guesses.of[b] \in Seq(Nat) /\ logins[b] \in Seq(Nat)
                            /\ pending[b] \in Nat
  BY DEF ServerInv, RatesOK
<1>6. /\ IsFiniteSet(Wrong) /\ Cardinality(Wrong) \in Nat
      /\ \A b \in Address : IsFiniteSet(WrongOf(b)) /\ Cardinality(WrongOf(b)) \in Nat
  BY Counts DEF ServerInv
<1>7. CASE result \in {"right", "busy"}
  <2>1. UNCHANGED <<allFailures, logins, guesses>>
    BY <1>1, <1>7
  <2>2. Wrong' = Wrong /\ \A b \in Address : WrongOf(b)' = WrongOf(b)
    BY <1>1, <1>2, <1>7 DEF Wrong, WrongOf, Trying
  <2>3. RatesOK' /\ Accounted'
    BY <1>1, <1>4, <2>1, <2>2 DEF ServerInv, RatesOK, Accounted
  <2>4. ASSUME NEW F \in Seq(Nat) PROVE Len(Recent(F, clock)) \in Nat
    <3>1. Recent(F, clock) \in Seq(Nat)
      BY <1>5, RecentFacts
    <3>2. QED
      BY <3>1
  <2>5. Len(Recent(allFailures, clock)) + pendingTotal' <= AllAttempts
    <3>1. /\ Len(Recent(allFailures, clock)) + pendingTotal <= AllAttempts
          /\ Len(Recent(allFailures, clock)) \in Nat
      BY <1>5, <2>4 DEF ServerInv, Limited
    <3>2. QED
      BY <1>0, <1>3, <1>4, <3>1
  <2>6. ASSUME NEW b \in Address
        PROVE  Len(Recent(logins[b], clock)) + pending'[b] <= LoginAttempts
    <3>1. /\ Len(Recent(logins[b], clock)) + pending[b] <= LoginAttempts
          /\ Len(Recent(logins[b], clock)) \in Nat
      BY <1>5, <2>4 DEF ServerInv, Limited
    <3>2. pending'[b] <= pending[b] /\ pending[b] \in Nat /\ pending'[b] \in Nat
      <4>1. pending[b] \in Nat
        BY <1>5
      <4>2. CASE b = a
        <5>1. pending'[b] = pending[b] - 1 /\ pending[b] \in Nat \ {0}
          BY <1>4, <4>2
        <5>2. QED
          BY <5>1
      <4>3. CASE b # a
        <5>1. pending'[b] = pending[b]
          BY <1>4, <4>3
        <5>2. QED
          BY <4>1, <5>1
      <4>4. QED
        BY <4>2, <4>3
    <3>3. QED
      BY <1>0, <3>1, <3>2
  <2>7. Limited'
    BY <1>1, <2>1, <2>5, <2>6 DEF Limited
  <2>8. QED
    BY <1>2, <1>4, <2>3, <2>7 DEF ServerInv
<1>8. CASE result \in {"wrong", "malformed"}
  <2>1. PICK victim :
          /\ logins' = Recorded(a, victim)
          /\ guesses' = [guesses EXCEPT !.of =
               [x \in Address |-> IF x = victim THEN <<>> ELSE @[x]]]
    BY <1>1, <1>8 DEF ForgetOf
  <2>2. /\ allFailures' = Append(Recent(allFailures, clock), clock)
        /\ \A x \in Address :
             logins'[x] = IF x = a THEN Append(FreshOnly[x], clock)
                          ELSE IF x = victim THEN <<>> ELSE FreshOnly[x]
        /\ DOMAIN logins' = Address /\ logins' = [x \in Address |-> logins'[x]]
    BY <1>1, <1>8, <2>1 DEF Fresh, Recorded
  <2>3. /\ guesses'.all = guesses.all
        /\ guesses'.of = [x \in Address |-> IF x = victim THEN <<>> ELSE guesses.of[x]]
        /\ guesses' = [all |-> guesses'.all, of |-> guesses'.of]
    BY <1>5, <2>1
  <2>4. /\ FreshOnly[a] = Recent(logins[a], clock)
        /\ \A b \in Address : FreshOnly[b] \in Seq(Nat)
    BY PruneAll DEF FreshOnly, Fresh
  (* The wrong guess that is recorded, if it was one.                      *)
  <2>5. /\ \A b \in Address \ {a} : WrongOf(b)' = WrongOf(b)
        /\ IF result = "wrong"
             THEN /\ Wrong' = Wrong \ {c} /\ c \in Wrong
                  /\ WrongOf(a)' = WrongOf(a) \ {c} /\ c \in WrongOf(a)
             ELSE Wrong' = Wrong /\ WrongOf(a)' = WrongOf(a)
    BY <1>1, <1>2 DEF Wrong, WrongOf, Trying
  <2>6. \/ Cardinality(Wrong') = Cardinality(Wrong)
        \/ Cardinality(Wrong) > 0 /\ Cardinality(Wrong') = Cardinality(Wrong) - 1
    <3>1. CASE result = "wrong"
      <4>1. Cardinality(Wrong \ {c}) = Cardinality(Wrong) - 1 /\ Cardinality(Wrong) # 0
        BY <1>6, <2>5, <3>1, FS_RemoveElement, FS_EmptySet
      <4>2. Cardinality(Wrong) > 0
        BY <1>6, <4>1
      <4>3. QED
        BY <2>5, <3>1, <4>1, <4>2, Zenon
    <3>2. CASE result # "wrong"
      BY <2>5, <3>2, Zenon
    <3>3. QED
      BY <3>1, <3>2
  <2>7. \/ Cardinality(WrongOf(a)') = Cardinality(WrongOf(a))
        \/ /\ Cardinality(WrongOf(a)) > 0
           /\ Cardinality(WrongOf(a)') = Cardinality(WrongOf(a)) - 1
    <3>1. CASE result = "wrong"
      <4>1. /\ Cardinality(WrongOf(a) \ {c}) = Cardinality(WrongOf(a)) - 1
            /\ Cardinality(WrongOf(a)) # 0
        BY <1>6, <2>5, <3>1, FS_RemoveElement, FS_EmptySet
      <4>2. Cardinality(WrongOf(a)) > 0
        BY <1>6, <4>1
      <4>3. QED
        BY <2>5, <3>1, <4>1, <4>2, Zenon
    <3>2. CASE result # "wrong"
      BY <2>5, <3>2, Zenon
    <3>3. QED
      BY <3>1, <3>2
  (* All failures.                                                         *)
  <2>8. /\ Append(Recent(allFailures, clock), clock) \in Seq(Nat)
        /\ Covered(guesses.all, Append(Recent(allFailures, clock), clock),
                   Cardinality(Wrong'))
        /\ Len(Recent(Append(Recent(allFailures, clock), clock), clock))
             + (pendingTotal - 1) <= AllAttempts
    <3>1. /\ Timely(guesses.all, clock)
          /\ Covered(guesses.all, allFailures, Cardinality(Wrong))
          /\ Len(Recent(allFailures, clock)) + pendingTotal <= AllAttempts
      BY DEF ServerInv, Accounted, Limited
    <3>2. /\ Append(Recent(allFailures, clock), clock) \in Seq(Nat)
          /\ Covered(guesses.all, Append(Recent(allFailures, clock), clock),
                     Cardinality(Wrong))
          /\ Cardinality(Wrong) > 0 =>
               Covered(guesses.all, Append(Recent(allFailures, clock), clock),
                       Cardinality(Wrong) - 1)
          /\ Len(Recent(Append(Recent(allFailures, clock), clock), clock))
               + (pendingTotal - 1) <= AllAttempts
      BY <1>0, <1>4, <1>5, <1>6, <3>1, Recording
    <3>3. QED
      BY <2>6, <3>2, Zenon
  (* Those of the address.                                                 *)
  <2>9. /\ Append(FreshOnly[a], clock) \in Seq(Nat)
        /\ Covered(guesses.of[a], Append(FreshOnly[a], clock), Cardinality(WrongOf(a)'))
        /\ Len(Recent(Append(FreshOnly[a], clock), clock)) + (pending[a] - 1)
             <= LoginAttempts
    <3>1. /\ Timely(guesses.of[a], clock)
          /\ Covered(guesses.of[a], logins[a], Cardinality(WrongOf(a)))
          /\ Len(Recent(logins[a], clock)) + pending[a] <= LoginAttempts
      BY DEF ServerInv, Accounted, Limited
    <3>2. /\ guesses.of[a] \in Seq(Nat) /\ logins[a] \in Seq(Nat)
          /\ Cardinality(WrongOf(a)) \in Nat
      BY <1>5, <1>6
    <3>3. /\ Append(Recent(logins[a], clock), clock) \in Seq(Nat)
          /\ Covered(guesses.of[a], Append(Recent(logins[a], clock), clock),
                     Cardinality(WrongOf(a)))
          /\ Cardinality(WrongOf(a)) > 0 =>
               Covered(guesses.of[a], Append(Recent(logins[a], clock), clock),
                       Cardinality(WrongOf(a)) - 1)
          /\ Len(Recent(Append(Recent(logins[a], clock), clock), clock))
               + (pending[a] - 1) <= LoginAttempts
      BY <1>0, <1>4, <1>5, <3>1, <3>2, Recording
    <3>4. QED
      BY <2>4, <2>7, <3>3, Zenon
  <2>10. RatesOK'
    <3>1. \A x \in Address : guesses'.of[x] \in Seq(Nat) /\ logins'[x] \in Seq(Nat)
      <4>1. TAKE x \in Address
      <4>2. FreshOnly[x] \in Seq(Nat) /\ guesses.of[x] \in Seq(Nat) /\ <<>> \in Seq(Nat)
        BY <1>5, <2>4
      <4>3. guesses'.of[x] \in Seq(Nat)
        BY <2>3, <4>2
      <4>4. logins'[x] \in Seq(Nat)
        BY <2>2, <2>9, <4>2, Zenon
      <4>5. QED
        BY <4>3, <4>4
    <3>2. guesses' \in [all : Seq(Nat), of : [Address -> Seq(Nat)]]
      BY <1>5, <2>3, <3>1
    <3>3. logins' \in [Address -> Seq(Nat)]
      BY <2>2, <3>1
    <3>4. QED
      BY <1>1, <1>4, <1>5, <2>2, <2>8, <3>2, <3>3 DEF RatesOK
  <2>11. ASSUME NEW b \in Address
         PROVE  /\ Len(Recent(logins'[b], clock)) + pending'[b] <= LoginAttempts
                /\ Timely(guesses'.of[b], clock)
                /\ Covered(guesses'.of[b], logins'[b], Cardinality(WrongOf(b)'))
    <3>1. /\ Timely(guesses.of[b], clock)
          /\ Covered(guesses.of[b], FreshOnly[b], Cardinality(WrongOf(b)))
          /\ Len(Recent(FreshOnly[b], clock)) + pending[b] <= LoginAttempts
          /\ Cardinality(WrongOf(b)) \in Nat /\ FreshOnly[b] \in Seq(Nat)
      BY <1>6, PruneAll DEF ServerInv, Accounted
    <3>2. Cardinality(WrongOf(b)') \in Nat
      <4>1. CASE b = a
        BY <1>6, <2>7, <4>1
      <4>2. CASE b # a
        BY <1>6, <2>5, <4>2
      <4>3. QED
        BY <4>1, <4>2
    <3>3. CASE b = a
      <4>1. logins'[b] = Append(FreshOnly[a], clock)
        BY <2>2, <3>3
      <4>2. Len(Recent(logins'[b], clock)) + pending'[b] <= LoginAttempts
        BY <1>4, <2>9, <3>3, <4>1
      <4>3. CASE b = victim
        <5>1. guesses'.of[b] = <<>>
          BY <2>3, <4>3
        <5>2. QED
          BY <1>5, <2>9, <3>2, <4>1, <4>2, <5>1, NothingCovered
      <4>4. CASE b # victim
        <5>1. guesses'.of[b] = guesses.of[a]
          BY <2>3, <3>3, <4>4
        <5>2. QED
          BY <2>9, <3>1, <3>3, <4>1, <4>2, <5>1
      <4>5. QED
        BY <4>3, <4>4
    <3>4. CASE b # a /\ b = victim
      <4>1. logins'[b] = <<>> /\ guesses'.of[b] = <<>>
        BY <2>2, <2>3, <3>4
      <4>2. Timely(<<>>, clock) /\ Covered(<<>>, <<>>, Cardinality(WrongOf(b)'))
        BY <1>5, <3>2, NothingCovered
      <4>3. Len(Recent(<<>>, clock)) + pending[b] <= LoginAttempts
        <5>1. /\ Recent(<<>>, clock) \in Seq(Nat) /\ Len(Recent(<<>>, clock)) <= Len(<<>>)
              /\ Recent(FreshOnly[b], clock) \in Seq(Nat)
          BY <1>5, <3>1, RecentFacts, RecentShrinks
        <5>2. /\ Len(Recent(<<>>, clock)) = 0
              /\ Len(Recent(FreshOnly[b], clock)) \in Nat /\ pending[b] \in Nat
          BY <1>5, <5>1
        <5>3. QED
          BY <1>0, <3>1, <5>2
      <4>4. pending'[b] = pending[b]
        BY <1>4, <3>4
      <4>5. QED
        BY <4>1, <4>2, <4>3, <4>4, Zenon
    <3>5. CASE b # a /\ b # victim
      <4>1. logins'[b] = FreshOnly[b] /\ guesses'.of[b] = guesses.of[b]
        BY <2>2, <2>3, <3>5
      <4>2. pending'[b] = pending[b] /\ WrongOf(b)' = WrongOf(b)
        BY <1>4, <2>5, <3>5
      <4>3. QED
        BY <3>1, <4>1, <4>2, Zenon
    <3>6. QED
      BY <3>3, <3>4, <3>5
  <2>12. Limited'
    BY <1>1, <1>3, <2>2, <2>8, <2>11 DEF Limited
  <2>13. Accounted'
    <3>1. Timely(guesses.all, clock)
      BY DEF ServerInv, Accounted
    <3>2. QED
      BY <1>1, <2>2, <2>3, <2>8, <2>11, <3>1 DEF Accounted
  <2>14. QED
    BY <1>2, <1>4, <2>10, <2>12, <2>13 DEF ServerInv
<1>9. QED
  BY <1>7, <1>8 DEF Finishes

(* Every step keeps the invariant.                                         *)
LEMMA StepServer == ServerInv /\ [ServerNext]_serverVars => ServerInv'
<1> SUFFICES ASSUME ServerInv, [ServerNext]_serverVars PROVE ServerInv'
  OBVIOUS
<1>1. ASSUME NEW c \in Peer,
             TakeIn(c) \/ Expire(c) \/ HeadersEnd(c) \/ Verify(c) \/ WorkerStep(c)
      PROVE  ServerInv'
  BY <1>1, StepQuiet, StepGoesOn, StepHash, StepReserve, StepFinish, StepWelcome DEF WorkerStep
<1>2. CASE Minutes
  BY <1>2, StepMinutes
<1>3. CASE UNCHANGED serverVars
  <2>1. /\ UNCHANGED <<rateVars, clock, guesses>> /\ ConnOK'
        /\ Tries' = Tries /\ Wrong' = Wrong
        /\ \A a \in Address : TriesOf(a)' = TriesOf(a) /\ WrongOf(a)' = WrongOf(a)
    BY <1>3 DEF serverVars, ServerInv, ConnOK, Tries, TriesOf, Wrong, WrongOf, Trying
  <2>2. QED
    BY <2>1, RatesKept
<1>4. QED
  BY <1>1, <1>2, <1>3 DEF ServerNext

(* reserve_login_attempt and finish_login_attempt: whatever attempts run at *)
(* the same time, and whatever becomes of them, no more wrong passwords are *)
(* tried within the window than the limits say.                            *)
THEOREM GuessesAreBounded == ServerSpec => []GuessesBounded
BY InitServer, StepServer, Bounded, PTL DEF ServerSpec
=============================================================================
