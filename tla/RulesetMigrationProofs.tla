----------------------- MODULE RulesetMigrationProofs -----------------------
(***************************************************************************)
(* Theorems about RulesetMigration, for every set of domains and any number *)
(* of edits, failures and crashes: whenever the power fails MosDNS can     *)
(* start, no domain is sent the wrong way, and success means success.  The *)
(* first two take for granted that the before-image of the configuration   *)
(* can be written back.                                                    *)
(***************************************************************************)
EXTENDS RulesetMigration, TLAPS

Conf == [shape : {"old", "half", "ready", "custom"}, edit : Nat]
AnyList == [there : BOOLEAN, lists : SUBSET Domain]

(* Three files: a configuration and two lists, there or not.               *)
Disk == {d \in [ListFile -> Conf \cup AnyList] :
           d["conf"] \in Conf /\ d["direct"] \in AnyList /\ d["hijack"] \in AnyList}

Place == {"idle", "recover", "restore", "look", "capture", "derive", "publish", "put",
          "restart", "remove"}
Cause == {"none", "recover", "discard", "install", "gather", "unstable", "done", "ok", "failed"}

WorkDir == [at : {"none", "preparing", "journal"}, has : SUBSET ListFile, before : Disk]
Progress == [at : Place, why : Cause, todo : SUBSET (ListFile \cup {"transition"}),
             bad : BOOLEAN]

TypesOK ==
  /\ mosdns \in Disk /\ loaded \in Disk
  /\ want \in [direct : SUBSET Domain, hijack : SUBSET Domain]
  /\ work \in WorkDir
  /\ mig \in Progress

(* What is in the directory, and what for, where the migration is.         *)
PlaceOK ==
  /\ mig.at \in {"capture", "derive", "publish"} => work.at = "preparing"
  /\ mig.at \in {"recover", "restore", "put", "restart"} => work.at = "journal"
  /\ mig.at = "look" => work.at = "none"
  /\ mig.at = "restore" => /\ mig.why \in {"recover", "install", "unstable"}
                           /\ mig.todo \subseteq ListFile
  /\ mig.at = "restart" => mig.why \in {"recover", "unstable", "done"}
  /\ mig.at = "remove" =>
       mig.why \in {"recover", "discard", "install", "gather", "unstable", "done"}

(* Until the journal is published nothing is changed, and a configuration  *)
(* of the operator's own never gets that far.                              *)
Prepared ==
  /\ mig.at \in {"capture", "derive", "publish"} => work.before = mosdns
  /\ mig.at \in {"capture", "derive", "publish"} \/ work.at = "journal" =>
       work.before["conf"].shape # "custom"

(* Behind a journal each file is the old one or a new one; and as long as   *)
(* the configuration is new, so are both lists.                            *)
OldOrNew ==
  work.at = "journal" =>
    /\ mosdns["direct"] \in {work.before["direct"], Candidate["direct"]}
    /\ mosdns["hijack"] \in {work.before["hijack"], Transition, Candidate["hijack"]}
    /\ \/ mosdns["conf"].shape = work.before["conf"].shape
       \/ /\ mosdns["conf"].shape = "ready"
          /\ mosdns["direct"] = Candidate["direct"] /\ mosdns["hijack"] = Candidate["hijack"]

(* How far the commit is: the files follow its order.                      *)
CommitOrder ==
  mig.at = "put" =>
    /\ "direct" \in mig.todo => mosdns["direct"] = work.before["direct"]
    /\ "conf" \in mig.todo => mosdns["conf"] = work.before["conf"]
    /\ "transition" \in mig.todo => {"direct", "hijack", "conf"} \subseteq mig.todo
    /\ "direct" \in mig.todo => {"hijack", "conf"} \subseteq mig.todo
    /\ "hijack" \in mig.todo => "conf" \in mig.todo
    /\ "transition" \notin mig.todo /\ "hijack" \in mig.todo => mosdns["hijack"] = Transition
    /\ "transition" \in mig.todo => mosdns["hijack"] = work.before["hijack"]
    /\ "direct" \notin mig.todo => mosdns["direct"] = Candidate["direct"]
    /\ "hijack" \notin mig.todo => mosdns["hijack"] = Candidate["hijack"]
    /\ "conf" \notin mig.todo => mosdns["conf"] = Candidate["conf"]

(* How far the undo is: the configuration first, if it can be written.      *)
UndoOrder ==
  mig.at = "restore" =>
    /\ ~mig.bad => \A f \in ListFile \ mig.todo : mosdns[f] = work.before[f]
    /\ Trusted("restores") /\ "conf" \notin mig.todo =>
         mosdns["conf"] = work.before["conf"]
    /\ "conf" \in mig.todo => mig.todo = ListFile

(* What MosDNS is restarted with, and runs with when the journal goes.      *)
Outcome ==
  /\ mig.at = "restart" => mosdns = IF mig.why = "done" THEN Candidate ELSE work.before
  /\ mig.at = "remove" /\ mig.why \in {"done", "unstable"} =>
       loaded = mosdns /\ mosdns \in {Candidate, work.before}

ControlInv == TypesOK /\ PlaceOK /\ Prepared /\ CommitOrder /\ UndoOrder /\ Outcome

Boots == Bootable(mosdns) /\ Bootable(work.before)

DiskInv == ControlInv /\ OldOrNew /\ Boots

-----------------------------------------------------------------------------
(* The operators.                                                          *)

(* The commit takes its steps in order.                                    *)
LEMMA NextToPut ==
  ASSUME NEW todo \in SUBSET (ListFile \cup {"transition"}), todo # {}
  PROVE  /\ PutFirst(todo) \in todo
         /\ PutFirst(todo) = IF "transition" \in todo THEN "transition"
                             ELSE IF "direct" \in todo THEN "direct"
                             ELSE IF "hijack" \in todo THEN "hijack" ELSE "conf"
<1> DEFINE Is(i) == Order[i] \in todo /\ \A j \in 1..(i - 1) : Order[j] \notin todo
<1>1. Order[1] = "transition" /\ Order[2] = "direct" /\ Order[3] = "hijack" /\ Order[4] = "conf"
  BY DEF Order
<1>2. \E i \in 1..4 : Is(i)
  <2>1. CASE "transition" \in todo
    BY <1>1, <2>1
  <2>2. CASE "transition" \notin todo /\ "direct" \in todo
    BY <1>1, <2>2
  <2>3. CASE {"transition", "direct"} \cap todo = {} /\ "hijack" \in todo
    BY <1>1, <2>3
  <2>4. CASE {"transition", "direct", "hijack"} \cap todo = {}
    <3>1. "conf" \in todo
      BY <2>4 DEF ListFile
    <3>2. \A j \in 1..3 : j = 1 \/ j = 2 \/ j = 3
      OBVIOUS
    <3> QED
      BY <1>1, <2>4, <3>1, <3>2
  <2> QED
    BY <2>1, <2>2, <2>3, <2>4
<1>3. PICK n \in 1..4 : Is(n) /\ PutFirst(todo) = Order[n]
  BY <1>2 DEF PutFirst
<1>4. n \in {1, 2, 3, 4}
  BY <1>3
<1> QED
  BY <1>1, <1>3, <1>4 DEF ListFile

(* What the candidates are.                                                *)
LEMMA Candidates ==
  ASSUME TypesOK
  PROVE  /\ Candidate \in Disk
         /\ Candidate["conf"] = [work.before["conf"] EXCEPT !.shape = "ready"]
         /\ Candidate["direct"] = File(want.direct)
         /\ Candidate["hijack"] = File(want.hijack)
         /\ Transition \in AnyList
         /\ Transition = File(work.before["hijack"].lists \cup want.hijack)
<1>1. work.before \in Disk /\ want \in [direct : SUBSET Domain, hijack : SUBSET Domain]
  BY DEF TypesOK, WorkDir
<1>2. [work.before["conf"] EXCEPT !.shape = "ready"] \in Conf
  BY <1>1 DEF Disk, Conf
<1>3. File(want.direct) \in AnyList /\ File(want.hijack) \in AnyList
  BY <1>1 DEF File, AnyList
<1>4. File(work.before["hijack"].lists \cup want.hijack) \in AnyList
  BY <1>1 DEF Disk, File, AnyList
<1> QED
  BY <1>2, <1>3, <1>4 DEF Candidate, Transition, Files, ListFile, Disk

(* Three files make a disk.                                                *)
LEMMA ThreeFiles ==
  ASSUME NEW conf \in Conf, NEW direct \in AnyList, NEW hijack \in AnyList
  PROVE  /\ Files(conf, direct, hijack) \in Disk
         /\ Files(conf, direct, hijack)["conf"] = conf
         /\ Files(conf, direct, hijack)["direct"] = direct
         /\ Files(conf, direct, hijack)["hijack"] = hijack
<1> DEFINE d == Files(conf, direct, hijack)
<1>1. d["conf"] = conf /\ d["direct"] = direct /\ d["hijack"] = hijack
  BY DEF Files, ListFile
<1>2. d = [f \in ListFile |-> d[f]]
  BY <1>1 DEF Files, ListFile
<1>3. \A f \in ListFile : d[f] \in Conf \cup AnyList
  BY <1>1 DEF ListFile
<1> HIDE DEF d
<1>4. d \in [ListFile -> Conf \cup AnyList]
  BY <1>2, <1>3
<1> QED
  BY <1>1, <1>4 DEF Disk, d

(* Lists that may be missing.                                              *)
LEMMA ListTypes ==
  /\ Missing \in AnyList /\ Lists \subseteq AnyList
  /\ \A S \in SUBSET Domain : File(S) \in AnyList
<1>1. Missing \in AnyList
  BY DEF Missing, AnyList
<1>2. \A S \in SUBSET Domain : File(S) \in AnyList
  BY DEF File, AnyList
<1> QED
  BY <1>1, <1>2 DEF Lists

(* What the migration's moves do to its progress.                          *)
LEMMA Moving ==
  ASSUME TypesOK
  PROVE  /\ \A at \in Place, why \in Cause, todo \in SUBSET (ListFile \cup {"transition"}) :
              GoesFor(at, why, todo) =>
                /\ mig' \in Progress /\ mig'.at = at /\ mig'.why = why
                /\ mig'.todo = todo /\ ~mig'.bad
         /\ \A why \in Cause : Returns(why) =>
              mig' \in Progress /\ mig'.at = "idle" /\ mig'.why = why
         /\ \A at \in Place : MovesTo(at) =>
              /\ mig' \in Progress /\ mig'.at = at /\ mig'.why = mig.why
              /\ mig'.todo = mig.todo
         /\ \A f : mig' = [mig EXCEPT !.todo = @ \ {f}] =>
              /\ mig' \in Progress /\ mig'.at = mig.at /\ mig'.why = mig.why
              /\ mig'.todo = mig.todo \ {f} /\ (mig'.bad <=> mig.bad)
         /\ \A f : mig' = [mig EXCEPT !.todo = @ \ {f}, !.bad = TRUE] =>
              /\ mig' \in Progress /\ mig'.at = mig.at /\ mig'.why = mig.why
              /\ mig'.todo = mig.todo \ {f} /\ mig'.bad
         /\ mig' = NotMigrating => mig' \in Progress /\ mig'.at = "idle"
<1>1. mig \in Progress
  BY DEF TypesOK
<1> USE DEF Progress
<1>2. ASSUME NEW at \in Place, NEW why \in Cause,
             NEW todo \in SUBSET (ListFile \cup {"transition"}), GoesFor(at, why, todo)
      PROVE  /\ mig' \in Progress /\ mig'.at = at /\ mig'.why = why
             /\ mig'.todo = todo /\ ~mig'.bad
  BY <1>2 DEF GoesFor
<1>3. ASSUME NEW why \in Cause, Returns(why)
      PROVE  mig' \in Progress /\ mig'.at = "idle" /\ mig'.why = why
  BY <1>3 DEF Returns, NotMigrating, Place
<1>4. ASSUME NEW at \in Place, MovesTo(at)
      PROVE  /\ mig' \in Progress /\ mig'.at = at /\ mig'.why = mig.why
             /\ mig'.todo = mig.todo
  BY <1>1, <1>4 DEF MovesTo
<1>5. ASSUME NEW f, mig' = [mig EXCEPT !.todo = @ \ {f}]
      PROVE  /\ mig' \in Progress /\ mig'.at = mig.at /\ mig'.why = mig.why
             /\ mig'.todo = mig.todo \ {f} /\ (mig'.bad <=> mig.bad)
  BY <1>1, <1>5
<1>6. ASSUME NEW f, mig' = [mig EXCEPT !.todo = @ \ {f}, !.bad = TRUE]
      PROVE  /\ mig' \in Progress /\ mig'.at = mig.at /\ mig'.why = mig.why
             /\ mig'.todo = mig.todo \ {f} /\ mig'.bad
  BY <1>1, <1>6
<1>7. mig' = NotMigrating => mig' \in Progress /\ mig'.at = "idle"
  BY DEF NotMigrating, Place, Cause
<1> HIDE DEF Progress
<1> QED
  BY <1>2, <1>3, <1>4, <1>5, <1>6, <1>7

(* How a recovery goes on.                                                 *)
LEMMA RecoverGoesOn ==
  ASSUME TypesOK, Recover
  PROVE  \/ mig'.at = "idle"
         \/ /\ mig'.at = "restore" /\ mig'.why = "recover"
            /\ mig'.todo = ListFile /\ ~mig'.bad
<1>1. CASE GoesFor("restore", "recover", ListFile)
  <2>1. ListFile \in SUBSET (ListFile \cup {"transition"})
    OBVIOUS
  <2> QED
    BY <1>1, <2>1, Moving DEF Place, Cause
<1>2. CASE Returns("failed")
  BY <1>2, Moving DEF Cause
<1> QED
  BY <1>1, <1>2 DEF Recover

(* How a restore ends.                                                     *)
LEMMA EndOfRestore ==
  ASSUME TypesOK, RestoreEnds
  PROVE  \/ mig'.at = "idle"
         \/ /\ mig'.why = mig.why /\ ~mig.bad
            /\ \/ mig'.at = "remove" /\ mig.why = "install"
               \/ mig'.at = "restart" /\ mig.why # "install"
<1>1. CASE mig.bad
  BY <1>1, Moving DEF RestoreEnds, Cause
<1>2. CASE ~mig.bad /\ mig.why = "install"
  <2>1. MovesTo("remove")
    BY <1>2 DEF RestoreEnds, NeverRestarted
  <2> QED
    BY <1>2, <2>1, Moving DEF Place
<1>3. CASE ~mig.bad /\ mig.why # "install"
  <2>1. MovesTo("restart")
    BY <1>3 DEF RestoreEnds, NeverRestarted
  <2> QED
    BY <1>3, <2>1, Moving DEF Place
<1> QED
  BY <1>1, <1>2, <1>3

(* A disk with one file replaced is a disk.                                *)
LEMMA Replaced ==
  ASSUME NEW d \in Disk, NEW f \in ListFile, NEW v,
         v \in IF f = "conf" THEN Conf ELSE AnyList
  PROVE  [d EXCEPT ![f] = v] \in Disk
BY DEF Disk, ListFile

(* Two disks are the same if their files are.                              *)
LEMMA SameDisk ==
  ASSUME NEW d \in Disk, NEW e \in Disk, \A f \in ListFile : d[f] = e[f]
  PROVE  d = e
BY DEF Disk

-----------------------------------------------------------------------------
(* The control, which takes nothing for granted.                           *)
LEMMA InitControl == MigrationInit => ControlInv
<1> SUFFICES ASSUME MigrationInit
             PROVE  ControlInv
  OBVIOUS
<1>1. PICK shape \in {"old", "half", "ready", "custom"}, direct \in Lists, hijack \in Lists :
        mosdns = Files([shape |-> shape, edit |-> 0], direct, hijack)
  BY DEF MigrationInit
<1>0. [shape |-> shape, edit |-> 0] \in Conf
  BY DEF Conf
<1>2. mosdns \in Disk
  BY <1>0, <1>1, ThreeFiles, ListTypes
<1>3. TypesOK
  <2>1. work \in WorkDir
    BY <1>2 DEF MigrationInit, WorkDir, NoWork
  <2>2. mig \in Progress
    BY DEF MigrationInit, Progress, NotMigrating, Place, Cause
  <2> QED
    BY <1>2, <2>1, <2>2 DEF MigrationInit, TypesOK
<1> QED
  BY <1>3 DEF MigrationInit, ControlInv, PlaceOK, Prepared, CommitOrder, UndoOrder, Outcome,
     NoWork, NotMigrating

(* The types of the control.                                               *)
LEMMA StepProgress ==
  ASSUME ControlInv, [MigrationNext]_migrationVars
  PROVE  mig' \in Progress
<1>0. TypesOK /\ mig \in Progress
  BY DEF ControlInv, TypesOK
<1> USE DEF Place, Cause, ListFile
<1>1. CASE Migrate \/ Recover \/ LookAtFiles \/ RestoreEnds
  BY <1>0, <1>1, Moving, ZenonT(60) DEF Migrate, Recover, LookAtFiles, RestoreEnds
<1>2. CASE RestoreFile \/ RestoreFails \/ PutFile \/ PutFails
  BY <1>0, <1>2, Moving DEF RestoreFile, RestoreFails, PutFile, PutFails
<1>3. CASE Capture \/ Derive \/ PublishJournal \/ CheckInterface
  BY <1>0, <1>3, Moving DEF Capture, Derive, PublishJournal, CheckInterface
<1>4. CASE Stable \/ Unstable \/ RemoveJournal \/ RemoveFails
  BY <1>0, <1>4, Moving DEF Stable, Unstable, RemoveJournal, RemoveFails
<1>5. CASE Crash
  BY <1>0, <1>5, Moving DEF Crash
<1>6. CASE RemoveOne \/ EditMosdns \/ EditRules \/ UNCHANGED migrationVars
  BY <1>0, <1>6 DEF RemoveOne, EditMosdns, EditRules, migrationVars
<1> QED
  BY <1>1, <1>2, <1>3, <1>4, <1>5, <1>6 DEF MigrationNext, MigrateStep

(* The types of the files, the domains asked for and the work directory.   *)
LEMMA StepTypes ==
  ASSUME ControlInv, [MigrationNext]_migrationVars
  PROVE  TypesOK'
<1>0. /\ TypesOK /\ Candidate \in Disk /\ Transition \in AnyList
      /\ mosdns \in Disk /\ loaded \in Disk /\ work \in WorkDir
      /\ work.before \in Disk
      /\ want \in [direct : SUBSET Domain, hijack : SUBSET Domain]
      /\ mig.todo \subseteq ListFile \cup {"transition"}
      /\ mig' \in Progress
  BY Candidates, StepProgress DEF ControlInv, TypesOK, WorkDir, Progress
<1>1. ASSUME UNCHANGED <<mosdns, loaded, want, work>>
      PROVE  TypesOK'
  BY <1>0, <1>1 DEF TypesOK
<1>2. CASE Migrate \/ Recover \/ RestoreEnds \/ Derive \/ CheckInterface
  BY <1>1, <1>2 DEF Migrate, Recover, RestoreEnds, Derive, CheckInterface
<1>3. ASSUME NEW d \in Disk, mosdns' \in {mosdns, d}, UNCHANGED <<loaded, want, work>>
      PROVE  TypesOK'
  BY <1>0, <1>3 DEF TypesOK
<1>4. CASE RestoreFile \/ RestoreFails
  <2> DEFINE f == RestoredFirst(mig.todo)
  <2>1. f \in ListFile
    BY DEF RestoredFirst, ListFile
  <2>2. work.before[f] \in IF f = "conf" THEN Conf ELSE AnyList
    BY <1>0, <2>1 DEF Disk, ListFile
  <2>3. [mosdns EXCEPT ![f] = work.before[f]] \in Disk
    BY <1>0, <2>1, <2>2, Replaced
  <2> QED
    BY <1>3, <1>4, <2>3 DEF RestoreFile, RestoreFails
<1>5. CASE PutFile \/ PutFails
  <2> DEFINE step == PutFirst(mig.todo)
  <2>1. step \in ListFile \cup {"transition"}
    BY <1>0, <1>5, NextToPut DEF PutFile, PutFails
  <2>2. CASE step = "transition"
    <3>1. Put(step) \in Disk
      BY <1>0, <2>2, Replaced DEF Put, ListFile
    <3> QED
      BY <1>3, <1>5, <3>1 DEF PutFile, PutFails
  <2>3. CASE step # "transition"
    <3>1. step \in ListFile /\ Candidate[step] \in IF step = "conf" THEN Conf ELSE AnyList
      BY <1>0, <2>1, <2>3 DEF Disk, ListFile
    <3>2. Put(step) \in Disk
      BY <1>0, <2>3, <3>1, Replaced DEF Put
    <3> QED
      BY <1>3, <1>5, <3>2 DEF PutFile, PutFails
  <2> QED
    BY <2>2, <2>3
<1>6. CASE LookAtFiles \/ Capture \/ PublishJournal \/ RemoveOne
  <2>1. work' \in WorkDir
    BY <1>0, <1>6 DEF LookAtFiles, Capture, Captured, PublishJournal, RemoveOne, WorkDir
  <2> QED
    BY <1>0, <1>6, <2>1 DEF LookAtFiles, Capture, PublishJournal, RemoveOne, TypesOK
<1>7. CASE RemoveJournal \/ RemoveFails
  <2>1. work' \in WorkDir
    BY <1>0, <1>7 DEF RemoveJournal, RemoveFails, NoWork, WorkDir
  <2> QED
    BY <1>0, <1>7, <2>1 DEF RemoveJournal, RemoveFails, TypesOK
<1>8. CASE Stable \/ Unstable \/ Crash
  <2>1. loaded' \in {loaded, mosdns} /\ UNCHANGED <<mosdns, want, work>>
    BY <1>8 DEF Stable, Unstable, Crash
  <2> QED
    BY <1>0, <2>1 DEF TypesOK
<1>9. CASE EditMosdns
  <2>1. mosdns' \in Disk
    <3>1. mosdns["conf"] \in Conf
      BY <1>0 DEF Disk
    <3>2. [mosdns["conf"] EXCEPT !.edit = @ + 1] \in Conf
      BY <3>1 DEF Conf
    <3>3. mosdns' = [mosdns EXCEPT !["conf"] = [mosdns["conf"] EXCEPT !.edit = @ + 1]]
      BY <1>0, <1>9 DEF EditMosdns, Disk
    <3> QED
      BY <1>0, <3>2, <3>3, Replaced DEF ListFile
  <2> QED
    BY <1>0, <1>9, <2>1 DEF EditMosdns, TypesOK
<1>10. CASE EditRules
  <2>1. mosdns["conf"] \in Conf /\ want' \in [direct : SUBSET Domain, hijack : SUBSET Domain]
    BY <1>0, <1>10 DEF EditRules, Disk
  <2>2. File(want'.direct) \in AnyList /\ File(want'.hijack) \in AnyList
    BY <2>1, ListTypes
  <2>3. mosdns' \in Disk
    BY <1>10, <2>1, <2>2, ThreeFiles DEF EditRules
  <2> QED
    BY <1>0, <1>10, <2>1, <2>3 DEF EditRules, TypesOK
<1>11. CASE UNCHANGED migrationVars
  BY <1>1, <1>11 DEF migrationVars
<1> QED
  BY <1>2, <1>4, <1>5, <1>6, <1>7, <1>8, <1>9, <1>10, <1>11 DEF MigrationNext, MigrateStep

(* The work directory is what the step under way has made of it.           *)
LEMMA StepPlace ==
  ASSUME ControlInv, [MigrationNext]_migrationVars
  PROVE  PlaceOK'
<1>0. /\ TypesOK /\ mig \in Progress /\ PlaceOK
      /\ mig.todo \subseteq ListFile \cup {"transition"}
  BY DEF ControlInv, TypesOK, Progress
<1>1. work \in WorkDir
  BY <1>0 DEF TypesOK
<1> USE DEF Place, Cause, ListFile, PlaceOK
<1>2. CASE Migrate
  BY <1>0, <1>1, <1>2, Moving, ZenonT(60) DEF Migrate, WorkDir
<1>14. CASE Recover
  BY <1>0, <1>14, RecoverGoesOn DEF Recover
<1>15. CASE RestoreEnds
  <2>1. \/ mig'.at = "idle"
        \/ /\ mig'.why = mig.why
           /\ \/ mig'.at = "remove"
              \/ mig'.at = "restart" /\ mig.why # "install"
    BY <1>0, <1>15, EndOfRestore
  <2>2. mig.at = "restore" /\ UNCHANGED work
    BY <1>15 DEF RestoreEnds
  <2> QED
    BY <1>0, <2>1, <2>2
<1>3. CASE RestoreFile \/ RestoreFails
  BY <1>0, <1>3, Moving DEF RestoreFile, RestoreFails
<1>4. CASE PutFile \/ PutFails
  BY <1>0, <1>4, Moving, ZenonT(60) DEF PutFile, PutFails
<1>5. CASE LookAtFiles
  <2>1. mosdns["conf"].shape # "custom" => work'.at = "preparing"
    BY <1>5 DEF LookAtFiles
  <2> QED
    BY <1>0, <1>5, <2>1, Moving DEF LookAtFiles
<1>6. CASE Capture
  <2>1. work'.at = work.at
    BY <1>1, <1>6 DEF Capture, WorkDir
  <2> QED
    BY <1>0, <1>6, <2>1, Moving, ZenonT(60) DEF Capture
<1>7. CASE PublishJournal
  <2>1. mig'.at = "put" => work'.at = "journal"
    BY <1>0, <1>1, <1>7, Moving DEF PublishJournal, WorkDir
  <2> QED
    BY <1>0, <1>7, <2>1, Moving, ZenonT(60) DEF PublishJournal
<1>8. CASE Derive \/ CheckInterface
  BY <1>0, <1>8, Moving, ZenonT(60) DEF Derive, CheckInterface
<1>9. CASE Stable \/ Unstable
  BY <1>0, <1>9, Moving, ZenonT(60) DEF Stable, Unstable
<1>10. CASE RemoveJournal
  <2>1. work'.at = "none"
    BY <1>10 DEF RemoveJournal, NoWork
  <2> QED
    BY <1>0, <1>10, <2>1, Moving, ZenonT(60) DEF RemoveJournal
<1>11. CASE RemoveFails \/ Crash
  <2>1. mig'.at = "idle"
    BY <1>0, <1>11, Moving DEF RemoveFails, Crash
  <2> QED
    BY <2>1
<1>12. CASE RemoveOne
  BY <1>0, <1>12 DEF RemoveOne
<1>13. CASE EditMosdns \/ EditRules \/ UNCHANGED migrationVars
  BY <1>0, <1>13 DEF EditMosdns, EditRules, migrationVars
<1> QED
  BY <1>2, <1>3, <1>4, <1>5, <1>6, <1>7, <1>8, <1>9, <1>10, <1>11, <1>12,
     <1>13, <1>14, <1>15 DEF MigrationNext, MigrateStep

(* The before-image is taken while nothing changes, and journal after it.  *)
LEMMA StepPrepared ==
  ASSUME ControlInv, [MigrationNext]_migrationVars
  PROVE  Prepared'
<1>0. /\ TypesOK /\ mig \in Progress /\ PlaceOK /\ Prepared /\ work \in WorkDir
      /\ mosdns \in Disk
  BY DEF ControlInv, TypesOK
<1> USE DEF Place, Cause, ListFile, Prepared
<1>1. ASSUME UNCHANGED work,
             mig'.at \in {"capture", "derive", "publish"} =>
               mosdns' = mosdns /\ mig.at \in {"capture", "derive", "publish"}
      PROVE  Prepared'
  BY <1>0, <1>1
<1>2. CASE Migrate \/ CheckInterface \/ Derive
  BY <1>0, <1>1, <1>2, Moving, ZenonT(60) DEF Migrate, CheckInterface, Derive
<1>11. CASE Recover
  BY <1>0, <1>1, <1>11, RecoverGoesOn DEF Recover
<1>10. CASE RestoreEnds
  BY <1>0, <1>1, <1>10, EndOfRestore DEF RestoreEnds
<1>3. CASE RestoreFile \/ RestoreFails \/ PutFile \/ PutFails
  BY <1>0, <1>1, <1>3, Moving DEF RestoreFile, RestoreFails, PutFile, PutFails
<1>4. CASE LookAtFiles
  <2>1. mosdns["conf"].shape # "custom" => work'.before = mosdns
    BY <1>4 DEF LookAtFiles
  <2>2. mosdns["conf"].shape = "custom" => work' = work /\ mig'.at = "idle"
    BY <1>0, <1>4, Moving DEF LookAtFiles
  <2>3. mosdns' = mosdns
    BY <1>4 DEF LookAtFiles
  <2>4. mosdns["conf"].shape # "custom" => work'.at = "preparing"
    BY <1>4 DEF LookAtFiles
  <2> QED
    BY <1>0, <2>1, <2>2, <2>3, <2>4
<1>5. CASE Capture \/ PublishJournal \/ RemoveOne
  <2>1. work'.before = work.before /\ (work'.at = work.at \/ mig.at = "publish")
    BY <1>0, <1>5 DEF Capture, PublishJournal, RemoveOne, WorkDir
  <2>2. mig'.at \in {"capture", "derive", "publish"} =>
          mig.at \in {"capture", "derive", "publish"}
    BY <1>0, <1>5, Moving DEF Capture, PublishJournal, RemoveOne
  <2>3. mosdns' = mosdns
    BY <1>5 DEF Capture, PublishJournal, RemoveOne
  <2> QED
    BY <1>0, <1>5, <2>1, <2>2, <2>3 DEF Capture, PublishJournal, RemoveOne
<1>6. CASE Stable \/ Unstable \/ Crash
  BY <1>0, <1>1, <1>6, Moving, ZenonT(60) DEF Stable, Unstable, Crash
<1>7. CASE RemoveJournal \/ RemoveFails
  <2>1. mig'.at \in {"look", "idle"}
    BY <1>0, <1>7, Moving DEF RemoveJournal, RemoveFails
  <2>2. work' = work \/ work'.at = "none"
    BY <1>7 DEF RemoveJournal, RemoveFails, NoWork
  <2> QED
    BY <1>0, <2>1, <2>2
<1>8. CASE EditMosdns \/ EditRules
  BY <1>0, <1>1, <1>8 DEF EditMosdns, EditRules, LockFree
<1>9. CASE UNCHANGED migrationVars
  BY <1>0, <1>9 DEF migrationVars
<1> QED
  BY <1>2, <1>3, <1>4, <1>5, <1>6, <1>7, <1>8, <1>9, <1>10, <1>11
     DEF MigrationNext, MigrateStep

(* The files are installed in their order.                                 *)
LEMMA StepCommitOrder ==
  ASSUME ControlInv, [MigrationNext]_migrationVars
  PROVE  CommitOrder'
<1>0. /\ TypesOK /\ mig \in Progress /\ PlaceOK /\ Prepared /\ CommitOrder
      /\ work \in WorkDir /\ mosdns \in Disk
      /\ mig.todo \subseteq ListFile \cup {"transition"}
  BY DEF ControlInv, TypesOK, Progress
<1>1. SUFFICES ASSUME mig'.at = "put"
               PROVE  CommitOrder'
  BY DEF CommitOrder
<1>2. CASE PublishJournal
  <2>1. mosdns = work.before /\ mosdns' = mosdns /\ work'.before = work.before
    BY <1>0, <1>2 DEF PublishJournal, Prepared, WorkDir
  <2>2. CASE GoesFor("put", "install", ListFile \cup {"transition"})
    <3>1. mig'.todo = ListFile \cup {"transition"}
      <4>1. ListFile \cup {"transition"} \in SUBSET (ListFile \cup {"transition"})
        OBVIOUS
      <4> QED
        BY <1>0, <2>2, <4>1, Moving DEF Place, Cause
    <3> QED
      BY <2>1, <3>1 DEF CommitOrder, ListFile
  <2>3. CASE Returns("failed")
    BY <1>0, <1>1, <2>3, Moving DEF Cause
  <2> QED
    BY <1>2, <2>2, <2>3 DEF PublishJournal
<1>3. CASE PutFile
  <2> DEFINE step == PutFirst(mig.todo)
  <2>1. /\ mig'.todo = mig.todo \ {step} /\ mig.at = "put"
        /\ mosdns' = Put(step) /\ UNCHANGED <<work, want>>
    BY <1>0, <1>3, Moving DEF PutFile
  <2>2. Candidate' = Candidate /\ Transition' = Transition
    BY <2>1 DEF Candidate, Transition
  <2>3. /\ step = IF "transition" \in mig.todo THEN "transition"
                  ELSE IF "direct" \in mig.todo THEN "direct"
                  ELSE IF "hijack" \in mig.todo THEN "hijack" ELSE "conf"
        /\ step \in mig.todo
    BY <1>0, <1>3, NextToPut DEF PutFile
  <2>4. CASE step = "transition"
    <3>1. /\ mosdns'["hijack"] = Transition
          /\ mosdns'["direct"] = mosdns["direct"] /\ mosdns'["conf"] = mosdns["conf"]
      BY <1>0, <2>1, <2>4 DEF Put, Disk, ListFile
    <3> QED
      BY <1>0, <2>1, <2>2, <2>3, <2>4, <3>1 DEF CommitOrder
  <2>5. CASE step # "transition"
    <3>1. step \in ListFile
      BY <1>0, <2>3, <2>5
    <3>2. /\ mosdns'[step] = Candidate[step]
          /\ \A f \in ListFile \ {step} : mosdns'[f] = mosdns[f]
      BY <1>0, <2>1, <2>5, <3>1 DEF Put, Disk
    <3> QED
      BY <1>0, <2>1, <2>2, <2>3, <2>5, <3>2 DEF CommitOrder, ListFile
  <2> QED
    BY <2>4, <2>5
<1>4. CASE \/ Migrate \/ RestoreFile \/ RestoreFails \/ LookAtFiles \/ Capture \/ Derive
           \/ PutFails
  BY <1>0, <1>1, <1>4, Moving, ZenonT(60) DEF Migrate, RestoreFile, RestoreFails, LookAtFiles, Capture,
     Derive, PutFails, Place, Cause, ListFile
<1>5. CASE CheckInterface \/ Unstable
  <2>1. ListFile \in SUBSET (ListFile \cup {"transition"})
        /\ {} \in SUBSET (ListFile \cup {"transition"})
    OBVIOUS
  <2> QED
    BY <1>0, <1>1, <1>5, <2>1, Moving DEF CheckInterface, Unstable, Place, Cause
<1>9. CASE Stable \/ RemoveJournal \/ RemoveFails \/ Crash
  BY <1>0, <1>1, <1>9, Moving DEF Stable, RemoveJournal, RemoveFails, Crash, Place, Cause,
     ListFile
<1>6. CASE Recover \/ RestoreEnds
  BY <1>0, <1>1, <1>6, RecoverGoesOn, EndOfRestore
<1>7. CASE RemoveOne \/ EditMosdns \/ EditRules
  BY <1>1, <1>7 DEF RemoveOne, EditMosdns, EditRules, LockFree
<1>8. CASE UNCHANGED migrationVars
  BY <1>0, <1>8 DEF migrationVars, CommitOrder, Candidate, Transition
<1> QED
  BY <1>2, <1>3, <1>4, <1>5, <1>6, <1>7, <1>8, <1>9 DEF MigrationNext, MigrateStep

(* They are put back in theirs.                                            *)
LEMMA StepUndoOrder ==
  ASSUME ControlInv, [MigrationNext]_migrationVars
  PROVE  UndoOrder'
<1>0. /\ TypesOK /\ mig \in Progress /\ PlaceOK /\ UndoOrder
      /\ work \in WorkDir /\ mosdns \in Disk
      /\ mig.todo \subseteq ListFile \cup {"transition"}
  BY DEF ControlInv, TypesOK, Progress
<1>1. SUFFICES ASSUME mig'.at = "restore"
               PROVE  UndoOrder'
  BY DEF UndoOrder
<1>2. ASSUME mig'.todo = ListFile
      PROVE  UndoOrder'
  BY <1>2 DEF UndoOrder, ListFile
<1>3. CASE RestoreFile
  <2> DEFINE f == RestoredFirst(mig.todo)
  <2>1. /\ mig'.todo = mig.todo \ {f} /\ (mig'.bad <=> mig.bad) /\ mig.at = "restore"
        /\ mosdns' = [mosdns EXCEPT ![f] = work.before[f]] /\ work' = work
    BY <1>0, <1>3, Moving DEF RestoreFile
  <2>2. f \in ListFile /\ ("conf" \in mig.todo => f = "conf")
    BY DEF RestoredFirst, ListFile
  <2>3. /\ mosdns'[f] = work.before[f]
        /\ \A g \in ListFile \ {f} : mosdns'[g] = mosdns[g]
    BY <1>0, <2>1, <2>2 DEF Disk
  <2>4. "conf" \in ListFile
    BY DEF ListFile
  <2> QED
    BY <1>0, <2>1, <2>2, <2>3, <2>4 DEF UndoOrder
<1>4. CASE RestoreFails
  <2> DEFINE f == RestoredFirst(mig.todo)
  <2>1. /\ mig'.todo = mig.todo \ {f} /\ mig'.bad /\ mig.at = "restore"
        /\ mosdns' \in {mosdns, [mosdns EXCEPT ![f] = work.before[f]]} /\ work' = work
        /\ f = "conf" => ~Trusted("restores")
    BY <1>0, <1>4, Moving DEF RestoreFails
  <2>2. f \in ListFile /\ ("conf" \in mig.todo => f = "conf")
    BY DEF RestoredFirst, ListFile
  <2>3. \A g \in ListFile \ {f} : mosdns'[g] = mosdns[g]
    BY <1>0, <2>1, <2>2 DEF Disk
  <2>4. "conf" \in ListFile
    BY DEF ListFile
  <2> QED
    BY <1>0, <2>1, <2>2, <2>3, <2>4 DEF UndoOrder
<1>5. CASE Recover
  BY <1>0, <1>1, <1>2, <1>5, RecoverGoesOn
<1>6. CASE PutFails \/ CheckInterface \/ Unstable
  BY <1>0, <1>1, <1>2, <1>6, Moving DEF PutFails, CheckInterface, Unstable, Place, Cause,
     ListFile
<1>7. CASE Migrate \/ LookAtFiles \/ Capture \/ Derive \/ PutFile
  BY <1>0, <1>1, <1>7, Moving DEF Migrate, LookAtFiles, Capture, Derive, PutFile, Place,
     Cause, ListFile
<1>8. CASE PublishJournal \/ Stable \/ RemoveJournal \/ RemoveFails \/ Crash
  BY <1>0, <1>1, <1>8, Moving DEF PublishJournal, Stable, RemoveJournal, RemoveFails, Crash,
     Place, Cause, ListFile
<1>9. CASE RestoreEnds
  BY <1>0, <1>1, <1>9, EndOfRestore
<1>10. CASE RemoveOne \/ EditMosdns \/ EditRules
  BY <1>1, <1>10 DEF RemoveOne, EditMosdns, EditRules, LockFree
<1>11. CASE UNCHANGED migrationVars
  BY <1>0, <1>11 DEF migrationVars, UndoOrder
<1> QED
  BY <1>3, <1>4, <1>5, <1>6, <1>7, <1>8, <1>9, <1>10, <1>11 DEF MigrationNext, MigrateStep

(* What the move of a restart, a removal or a check does.                  *)
LEMMA StepOutcome ==
  ASSUME ControlInv, [MigrationNext]_migrationVars
  PROVE  Outcome'
<1>0. /\ TypesOK /\ mig \in Progress /\ PlaceOK /\ CommitOrder /\ UndoOrder /\ Outcome
      /\ work \in WorkDir /\ mosdns \in Disk /\ work.before \in Disk /\ Candidate \in Disk
      /\ mig.todo \subseteq ListFile \cup {"transition"}
  BY Candidates DEF ControlInv, TypesOK, Progress, WorkDir
<1>1. ASSUME mig'.at \notin {"restart", "remove"}
      PROVE  Outcome'
  BY <1>1 DEF Outcome
<1>2. CASE RestoreEnds
  <2>1. UNCHANGED <<mosdns, loaded, want, work>> /\ mig.at = "restore" /\ mig.todo = {}
    BY <1>2 DEF RestoreEnds
  <2>2. ~mig.bad => mosdns = work.before
    BY <1>0, <2>1, SameDisk DEF UndoOrder
  <2> QED
    BY <1>0, <1>1, <1>2, <2>1, <2>2, EndOfRestore DEF Outcome, PlaceOK
<1>3. CASE CheckInterface
  <2>1. /\ UNCHANGED <<mosdns, loaded, want, work>> /\ mig.at = "put" /\ mig.todo = {}
    BY <1>3 DEF CheckInterface
  <2>2. mosdns = Candidate
    BY <1>0, <2>1, SameDisk DEF CommitOrder, ListFile
  <2>3. Candidate' = Candidate
    BY <2>1 DEF Candidate
  <2>4. mig'.at = "restore" \/ (mig'.at = "restart" /\ mig'.why = "done")
    BY <1>0, <1>3, Moving DEF CheckInterface, Place, Cause, ListFile
  <2> QED
    BY <2>1, <2>2, <2>3, <2>4 DEF Outcome
<1>4. CASE Stable
  <2>1. /\ loaded' = mosdns /\ UNCHANGED <<mosdns, want, work>> /\ mig.at = "restart"
        /\ mig'.at = "remove" /\ mig'.why = mig.why
    BY <1>0, <1>4, Moving DEF Stable, Place
  <2>2. Candidate' = Candidate
    BY <2>1 DEF Candidate
  <2> QED
    BY <1>0, <2>1, <2>2 DEF Outcome
<1>5. CASE Capture \/ Derive
  <2>1. mig'.at = "remove" => mig'.why = "gather"
    BY <1>0, <1>5, Moving DEF Capture, Derive, Place, Cause
  <2>2. mig'.at # "restart"
    BY <1>0, <1>5, Moving DEF Capture, Derive, Place, Cause
  <2> QED
    BY <2>1, <2>2 DEF Outcome
<1>6. CASE Migrate
  <2>1. mig'.at # "restart" /\ (mig'.at = "remove" => mig'.why = "discard")
    BY <1>0, <1>6, Moving, ZenonT(60) DEF Migrate, Place, Cause
  <2> QED
    BY <2>1 DEF Outcome
<1>7. CASE RemoveOne
  <2>1. /\ UNCHANGED <<mosdns, loaded, want, mig>> /\ work'.before = work.before
        /\ mig.at = "remove"
    BY <1>0, <1>7 DEF RemoveOne, WorkDir
  <2>2. Candidate' = Candidate
    BY <2>1 DEF Candidate
  <2> QED
    BY <1>0, <2>1, <2>2 DEF Outcome
<1>8. CASE Recover
  BY <1>0, <1>1, <1>8, RecoverGoesOn
<1>9. CASE PutFails \/ Unstable
  <2>1. ListFile \in SUBSET (ListFile \cup {"transition"})
    OBVIOUS
  <2> QED
    BY <1>0, <1>1, <1>9, <2>1, Moving DEF PutFails, Unstable, Place, Cause
<1>10. CASE RestoreFile \/ RestoreFails \/ LookAtFiles \/ PublishJournal \/ PutFile
  BY <1>0, <1>1, <1>10, Moving DEF RestoreFile, RestoreFails, LookAtFiles, PublishJournal,
     PutFile, Place, Cause, ListFile
<1>11. CASE RemoveJournal \/ RemoveFails \/ Crash
  BY <1>0, <1>1, <1>11, Moving DEF RemoveJournal, RemoveFails, Crash, Place, Cause, ListFile
<1>12. CASE EditMosdns \/ EditRules
  BY <1>1, <1>12 DEF EditMosdns, EditRules, LockFree
<1>13. CASE UNCHANGED migrationVars
  BY <1>0, <1>13 DEF migrationVars, Outcome, Candidate
<1> QED
  BY <1>2, <1>3, <1>4, <1>5, <1>6, <1>7, <1>8, <1>9, <1>10, <1>11, <1>12, <1>13
     DEF MigrationNext, MigrateStep

(* Every step keeps the control part of the invariant.                     *)
LEMMA StepControl == ControlInv /\ [MigrationNext]_migrationVars => ControlInv'
BY StepTypes, StepPlace, StepPrepared, StepCommitOrder, StepUndoOrder, StepOutcome
   DEF ControlInv

(* The control holds in every run.                                         *)
LEMMA ControlHolds == MigrationSpec => []ControlInv
BY InitControl, StepControl, PTL DEF MigrationSpec

(* A migration that reports success left MosDNS running on exactly the files *)
(* that are there, the new ones or the old ones: RemoveJournal answers "ok"  *)
(* only after a restart that was stable.                                   *)
THEOREM SuccessMeansRunning == MigrationSpec => SuccessIsRunning
<1>1. ASSUME ControlInv, [MigrationNext]_migrationVars,
             mig.at = "remove", mig'.at = "idle", mig'.why = "ok"
      PROVE  loaded = mosdns /\ mosdns \in {Candidate, work.before}
  <2>1. TypesOK /\ PlaceOK /\ Outcome
    BY <1>1 DEF ControlInv
  <2>2. CASE RemoveJournal
    <3>1. CASE mig.why \in {"recover", "discard"}
      <4>1. GoesFor("look", "none", {})
        BY <2>2, <3>1 DEF RemoveJournal
      <4>2. mig'.at = "look"
        BY <4>1 DEF GoesFor
      <4> QED
        BY <1>1, <4>2
    <3>2. CASE mig.why \in {"install", "gather"}
      <4>1. Returns("failed")
        BY <2>2, <3>2 DEF RemoveJournal
      <4> QED
        BY <1>1, <2>1, <4>1, Moving DEF Cause
    <3>3. CASE mig.why \in {"done", "unstable"}
      BY <1>1, <2>1, <3>3 DEF Outcome
    <3> QED
      BY <1>1, <2>1, <3>1, <3>2, <3>3 DEF PlaceOK
  <2>3. CASE RemoveFails
    BY <1>1, <2>1, <2>3, Moving DEF RemoveFails, Cause
  <2>4. CASE Crash
    BY <1>1, <2>4 DEF Crash, NotMigrating
  <2>5. CASE MigrationNext /\ ~RemoveJournal /\ ~RemoveFails /\ ~Crash
    BY <1>1, <2>5
       DEF MigrationNext, MigrateStep, Migrate, Recover, RestoreFile, RestoreFails,
       RestoreEnds, LookAtFiles, Capture, Derive, PublishJournal, PutFile, PutFails,
       CheckInterface, Stable, Unstable, RemoveOne, EditMosdns, EditRules, LockFree
  <2>6. CASE UNCHANGED migrationVars
    BY <1>1, <2>6 DEF migrationVars
  <2> QED
    BY <1>1, <2>2, <2>3, <2>4, <2>5, <2>6
<1>2. ControlInv /\ [MigrationNext]_migrationVars =>
        [mig.at = "remove" /\ mig'.at = "idle" /\ mig'.why = "ok" =>
           loaded = mosdns /\ mosdns \in {Candidate, work.before}]_migrationVars
  BY <1>1
<1> QED
  BY <1>2, ControlHolds, PTL DEF MigrationSpec, SuccessIsRunning

-----------------------------------------------------------------------------
(* The files, when the before-image of the configuration can be written back. *)

(* A configuration loads the two lists or fewer.                           *)
LEMMA OnlyLists ==
  ASSUME NEW d \in Disk
  PROVE  Loads(d["conf"].shape) \subseteq {"direct", "hijack"}
<1>1. d["conf"].shape \in {"old", "half", "ready", "custom"}
  BY DEF Disk, Conf
<1> QED
  BY <1>1 DEF Loads

(* Behind a journal MosDNS can start if it can start from before-images.   *)
Behind == TypesOK /\ OldOrNew /\ work.at = "journal" /\ Bootable(work.before)

(* What the files behind a journal are as far as booting goes.             *)
LEMMA JournalBoots == Behind => Boots
<1> SUFFICES ASSUME Behind
             PROVE  Boots
  OBVIOUS
<1>0. TypesOK /\ OldOrNew /\ work.at = "journal" /\ Bootable(work.before)
  BY DEF Behind
<1>1. /\ Candidate["direct"].there /\ Candidate["hijack"].there /\ Transition.there
  BY <1>0, Candidates DEF File
<1>2. /\ Loads(mosdns["conf"].shape) \subseteq {"direct", "hijack"}
      /\ Loads(work.before["conf"].shape) \subseteq {"direct", "hijack"}
  BY <1>0, OnlyLists DEF TypesOK, WorkDir
<1>3. CASE mosdns["conf"].shape = work.before["conf"].shape
  <2>1. SUFFICES ASSUME NEW f \in Loads(work.before["conf"].shape)
                 PROVE  mosdns[f].there
    BY <1>0, <1>3 DEF Boots, Bootable
  <2>2. work.before[f].there /\ f \in {"direct", "hijack"}
    BY <1>0, <1>2, <2>1 DEF Bootable
  <2> QED
    BY <1>0, <1>1, <2>2 DEF OldOrNew
<1>4. CASE mosdns["direct"] = Candidate["direct"] /\ mosdns["hijack"] = Candidate["hijack"]
  <2>1. \A f \in Loads(mosdns["conf"].shape) : mosdns[f].there
    BY <1>1, <1>2, <1>4
  <2> QED
    BY <1>0, <2>1 DEF Boots, Bootable
<1> QED
  BY <1>0, <1>3, <1>4 DEF OldOrNew

(* A step that writes no file and keeps the journal.                       *)
LEMMA NothingWritten ==
  ASSUME OldOrNew, UNCHANGED <<mosdns, want>>, work'.before = work.before,
         work'.at = "journal" => work.at = "journal"
  PROVE  OldOrNew'
<1>1. Candidate' = Candidate /\ Transition' = Transition
  BY DEF Candidate, Transition
<1> QED
  BY <1>1 DEF OldOrNew

(* The files follow the order of the commit and of the undo.               *)
LEMMA StepOldOrNew ==
  ASSUME Trusted("restores"), ControlInv, OldOrNew, [MigrationNext]_migrationVars
  PROVE  OldOrNew'
<1>0. /\ TypesOK /\ PlaceOK /\ Prepared /\ CommitOrder /\ UndoOrder
      /\ work \in WorkDir /\ mosdns \in Disk /\ work.before \in Disk
      /\ mig.todo \subseteq ListFile \cup {"transition"}
  BY DEF ControlInv, TypesOK, Progress, WorkDir
<1>1. CASE \/ Migrate \/ Recover \/ RestoreEnds \/ Derive \/ CheckInterface \/ Stable
           \/ Unstable \/ Crash
  <2>1. UNCHANGED <<mosdns, want, work>>
    BY <1>1
       DEF Migrate, Recover, RestoreEnds, Derive, CheckInterface, Stable, Unstable, Crash
  <2> QED
    BY <2>1, NothingWritten
<1>2. CASE LookAtFiles \/ RemoveJournal \/ RemoveFails
  <2>1. UNCHANGED <<mosdns, want>> /\ (work' = work \/ work'.at # "journal")
    BY <1>2 DEF LookAtFiles, RemoveJournal, RemoveFails, NoWork
  <2>2. CASE work' = work
    BY <2>1, <2>2, NothingWritten
  <2>3. CASE work'.at # "journal"
    BY <2>3 DEF OldOrNew
  <2> QED
    BY <2>1, <2>2, <2>3
<1>3. CASE Capture \/ RemoveOne
  <2>1. UNCHANGED <<mosdns, want>> /\ work'.before = work.before /\ work'.at = work.at
    BY <1>0, <1>3 DEF Capture, RemoveOne, WorkDir
  <2> QED
    BY <2>1, NothingWritten
<1>4. CASE PublishJournal
  <2>1. UNCHANGED <<mosdns, want>> /\ work'.before = work.before /\ work.before = mosdns
    BY <1>0, <1>4 DEF PublishJournal, Prepared, WorkDir
  <2> QED
    BY <2>1 DEF OldOrNew
<1>5. CASE RestoreFile \/ RestoreFails
  <2> DEFINE f == RestoredFirst(mig.todo)
  <2>1. /\ mig.at = "restore" /\ mig.todo # {} /\ UNCHANGED <<want, work>>
        /\ mosdns' \in {mosdns, [mosdns EXCEPT ![f] = work.before[f]]}
    BY <1>5 DEF RestoreFile, RestoreFails
  <2>2. Candidate' = Candidate /\ Transition' = Transition /\ work.at = "journal"
    BY <1>0, <2>1 DEF Candidate, Transition, PlaceOK
  <2>3. CASE mosdns' = mosdns
    BY <2>1, <2>3, NothingWritten
  <2>4. CASE mosdns' = [mosdns EXCEPT ![f] = work.before[f]]
    <3>1. f \in ListFile /\ (f # "conf" => "conf" \notin mig.todo)
      BY DEF RestoredFirst, ListFile
    <3>2. /\ mosdns'[f] = work.before[f]
          /\ \A g \in ListFile \ {f} : mosdns'[g] = mosdns[g]
      BY <1>0, <2>4, <3>1 DEF Disk
    <3>3. mosdns'["conf"] = work.before["conf"]
      BY <1>0, <2>1, <3>1, <3>2 DEF UndoOrder, ListFile
    <3> QED
      BY <2>1, <2>2, <3>1, <3>2, <3>3 DEF OldOrNew, ListFile
  <2> QED
    BY <2>1, <2>3, <2>4
<1>6. CASE PutFile \/ PutFails
  <2> DEFINE step == PutFirst(mig.todo)
  <2>1. /\ mig.at = "put" /\ mig.todo # {} /\ UNCHANGED <<want, work>>
        /\ mosdns' \in {mosdns, Put(step)}
    BY <1>6 DEF PutFile, PutFails
  <2>2. Candidate' = Candidate /\ Transition' = Transition /\ work.at = "journal"
    BY <1>0, <2>1 DEF Candidate, Transition, PlaceOK
  <2>3. /\ step = IF "transition" \in mig.todo THEN "transition"
                  ELSE IF "direct" \in mig.todo THEN "direct"
                  ELSE IF "hijack" \in mig.todo THEN "hijack" ELSE "conf"
        /\ step \in mig.todo
    BY <1>0, <2>1, NextToPut
  <2>4. CASE mosdns' = mosdns
    BY <2>1, <2>4, NothingWritten
  <2>5. CASE mosdns' = Put(step) /\ step = "transition"
    <3>1. /\ mosdns'["hijack"] = Transition
          /\ mosdns'["direct"] = mosdns["direct"] /\ mosdns'["conf"] = mosdns["conf"]
      BY <1>0, <2>5 DEF Put, Disk, ListFile
    <3>2. mosdns["conf"] = work.before["conf"]
      BY <1>0, <2>1, <2>3, <2>5 DEF CommitOrder
    <3> QED
      BY <2>1, <2>2, <3>1, <3>2 DEF OldOrNew
  <2>6. CASE mosdns' = Put(step) /\ step # "transition"
    <3>1. step \in ListFile
      BY <1>0, <2>3, <2>6
    <3>2. /\ mosdns'[step] = Candidate[step]
          /\ \A f \in ListFile \ {step} : mosdns'[f] = mosdns[f]
      BY <1>0, <2>6, <3>1 DEF Put, Disk
    <3>3. CASE step = "conf"
      <4>1. /\ mosdns["direct"] = Candidate["direct"]
            /\ mosdns["hijack"] = Candidate["hijack"]
        BY <1>0, <2>1, <2>3, <3>3 DEF CommitOrder
      <4>2. mosdns'["conf"].shape = "ready"
        <5>1. work.before["conf"] \in Conf
          BY <1>0 DEF Disk
        <5> QED
          BY <1>0, <3>2, <3>3, <5>1, Candidates DEF Conf
      <4> QED
        BY <2>1, <2>2, <3>2, <3>3, <4>1, <4>2 DEF OldOrNew, ListFile
    <3>4. CASE step # "conf"
      <4>1. mosdns["conf"] = work.before["conf"]
        BY <1>0, <2>1, <2>3, <2>6, <3>4 DEF CommitOrder
      <4> QED
        BY <2>1, <2>2, <3>1, <3>2, <3>4, <4>1 DEF OldOrNew, ListFile
    <3> QED
      BY <3>3, <3>4
  <2> QED
    BY <2>1, <2>4, <2>5, <2>6
<1>7. CASE EditMosdns
  <2>1. /\ mosdns'["direct"] = mosdns["direct"] /\ mosdns'["hijack"] = mosdns["hijack"]
        /\ mosdns'["conf"].shape = mosdns["conf"].shape
    BY <1>0, <1>7 DEF EditMosdns, Disk, ListFile, Conf
  <2>2. UNCHANGED <<want, work>>
    BY <1>7 DEF EditMosdns
  <2>3. Candidate' = Candidate /\ Transition' = Transition
    BY <2>2 DEF Candidate, Transition
  <2> QED
    BY <2>1, <2>2, <2>3 DEF OldOrNew
<1>8. CASE EditRules
  <2>1. /\ mosdns["conf"].shape = "ready" /\ work' = work
        /\ mosdns' = Files(mosdns["conf"], File(want'.direct), File(want'.hijack))
    BY <1>8 DEF EditRules
  <2>2. /\ mosdns'["conf"] = mosdns["conf"]
        /\ mosdns'["direct"] = File(want'.direct) /\ mosdns'["hijack"] = File(want'.hijack)
    BY <2>1 DEF Files, ListFile
  <2>3. /\ Candidate'["direct"] = File(want'.direct)
        /\ Candidate'["hijack"] = File(want'.hijack)
    BY DEF Candidate, Files, ListFile
  <2> QED
    BY <2>1, <2>2, <2>3 DEF OldOrNew
<1>9. CASE UNCHANGED migrationVars
  BY <1>9, NothingWritten DEF migrationVars
<1> QED
  BY <1>1, <1>2, <1>3, <1>4, <1>5, <1>6, <1>7, <1>8, <1>9 DEF MigrationNext, MigrateStep

(* MosDNS can start from the files, and from the before-images.            *)
LEMMA StepBoots ==
  ASSUME Trusted("restores"), ControlInv, OldOrNew, Boots, [MigrationNext]_migrationVars
  PROVE  Boots'
<1>0. /\ TypesOK /\ PlaceOK /\ work \in WorkDir /\ mosdns \in Disk
      /\ TypesOK' /\ OldOrNew'
  BY StepTypes, StepOldOrNew DEF ControlInv, TypesOK
<1>1. ASSUME mosdns' = mosdns, work'.before \in {work.before, mosdns}
      PROVE  Boots'
  BY <1>1 DEF Boots, Bootable
<1>2. ASSUME work' = work, work.at = "journal"
      PROVE  Boots'
  <2>1. Bootable(work.before)'
    BY <1>2 DEF Boots, Bootable
  <2>2. Behind'
    BY <1>0, <1>2, <2>1 DEF Behind
  <2> QED
    BY <2>2, JournalBoots, PTL
<1>3. CASE \/ Migrate \/ Recover \/ RestoreEnds \/ Derive \/ CheckInterface \/ Stable
           \/ Unstable \/ Crash \/ UNCHANGED migrationVars
  BY <1>1, <1>3 DEF Migrate, Recover, RestoreEnds, Derive, CheckInterface, Stable, Unstable,
     Crash, migrationVars
<1>4. CASE LookAtFiles \/ RemoveJournal \/ RemoveFails
  <2>1. mosdns' = mosdns
    BY <1>4 DEF LookAtFiles, RemoveJournal, RemoveFails
  <2>2. work'.before \in {work.before, mosdns}
    BY <1>4 DEF LookAtFiles, RemoveJournal, RemoveFails, NoWork
  <2> QED
    BY <1>1, <2>1, <2>2
<1>5. CASE Capture \/ RemoveOne \/ PublishJournal
  <2>1. mosdns' = mosdns /\ work'.before = work.before
    BY <1>0, <1>5 DEF Capture, RemoveOne, PublishJournal, WorkDir
  <2> QED
    BY <1>1, <2>1
<1>6. CASE RestoreFile \/ RestoreFails \/ PutFile \/ PutFails
  <2>1. work' = work /\ mig.at \in {"restore", "put"}
    BY <1>6 DEF RestoreFile, RestoreFails, PutFile, PutFails
  <2> QED
    BY <1>0, <1>2, <2>1 DEF PlaceOK
<1>7. CASE EditMosdns
  <2>1. /\ mosdns'["direct"] = mosdns["direct"] /\ mosdns'["hijack"] = mosdns["hijack"]
        /\ mosdns'["conf"].shape = mosdns["conf"].shape
    BY <1>0, <1>7 DEF EditMosdns, Disk, ListFile, Conf
  <2>2. \A f \in Loads(mosdns["conf"].shape) : mosdns'[f] = mosdns[f]
    BY <1>0, <2>1, OnlyLists
  <2>3. work' = work
    BY <1>7 DEF EditMosdns
  <2> QED
    BY <2>1, <2>2, <2>3 DEF Boots, Bootable
<1>8. CASE EditRules
  <2>1. mosdns' = Files(mosdns["conf"], File(want'.direct), File(want'.hijack)) /\ work' = work
    BY <1>8 DEF EditRules
  <2>2. /\ mosdns'["direct"] = File(want'.direct) /\ mosdns'["hijack"] = File(want'.hijack)
    BY <2>1 DEF Files, ListFile
  <2>3. Loads(mosdns'["conf"].shape) \subseteq {"direct", "hijack"}
    BY <1>0, OnlyLists DEF TypesOK
  <2>4. \A f \in {"direct", "hijack"} : mosdns'[f].there
    BY <2>2 DEF File
  <2>5. Bootable(mosdns)'
    BY <2>3, <2>4 DEF Bootable
  <2>6. Bootable(work.before)'
    BY <2>1 DEF Boots, Bootable
  <2> QED
    BY <2>5, <2>6 DEF Boots
<1> QED
  BY <1>3, <1>4, <1>5, <1>6, <1>7, <1>8 DEF MigrationNext, MigrateStep

(* What is on the disk holds in every run in which undoing is trusted.     *)
LEMMA DiskHolds ==
  ASSUME Trusted("restores")
  PROVE  MigrationSpec => []DiskInv
<1>1. MigrationInit => DiskInv
  <2>1. MigrationInit => OldOrNew /\ Boots
    BY DEF MigrationInit, OldOrNew, Boots, NoWork
  <2> QED
    BY <2>1, InitControl DEF DiskInv
<1>2. DiskInv /\ [MigrationNext]_migrationVars => DiskInv'
  BY StepControl, StepOldOrNew, StepBoots DEF DiskInv
<1> QED
  BY <1>1, <1>2, PTL DEF MigrationSpec

(* Whenever the power fails, in the middle of a commit, of an undo or of    *)
(* both, MosDNS finds the lists that its configuration names, provided that *)
(* the before-image of the configuration can be written back.              *)
THEOREM MosdnsAlwaysBoots ==
  ASSUME Trusted("restores")
  PROVE  MigrationSpec => []EveryDiskBoots
<1>1. DiskInv => EveryDiskBoots
  BY DEF DiskInv, Boots, EveryDiskBoots
<1> QED
  BY <1>1, DiskHolds, PTL

(* Which way a domain goes.                                                *)
LEMMA Ways ==
  ASSUME NEW d \in Disk, NEW x
  PROVE  Way(d, x) = "direct" <=>
           /\ d["conf"].shape \in {"half", "ready"} /\ x \in d["direct"].lists
           /\ ~(d["conf"].shape = "ready" /\ x \in d["hijack"].lists)
<1>1. d["conf"].shape \in {"old", "half", "ready", "custom"}
  BY DEF Disk, Conf
<1>2. d["conf"].shape = "ready" <=> "hijack" \in Loads(d["conf"].shape)
  BY <1>1 DEF Loads
<1>3. d["conf"].shape \in {"half", "ready"} <=> "direct" \in Loads(d["conf"].shape)
  BY <1>1 DEF Loads
<1> QED
  BY <1>2, <1>3 DEF Way

(* In the middle of a change no domain goes direct that goes direct neither  *)
(* before nor after it, whatever the order in which the files follow.       *)
LEMMA NoDetour == DiskInv => NeverMisdirected
<1> SUFFICES ASSUME DiskInv, work.at = "journal", NEW x \in Domain, Way(mosdns, x) = "direct",
                    Way(work.before, x) # "direct", Way(Candidate, x) # "direct"
             PROVE  \/ Overlap(work.before, x) /\ mig.at # "put"
                    \/ /\ Overlap(Candidate, x)
                       /\ mig.at # "put" \/ mosdns["conf"].shape = "half"
  BY DEF NeverMisdirected
<1>1. /\ TypesOK /\ OldOrNew /\ CommitOrder
      /\ mosdns \in Disk /\ work.before \in Disk /\ Candidate \in Disk
  BY Candidates DEF DiskInv, ControlInv, TypesOK, WorkDir
<1>2. /\ mosdns["conf"].shape \in {"half", "ready"} /\ x \in mosdns["direct"].lists
      /\ ~(mosdns["conf"].shape = "ready" /\ x \in mosdns["hijack"].lists)
  BY <1>1, Ways
<1>3. Candidate["conf"].shape = "ready"
  <2>1. work.before["conf"] \in Conf
    BY <1>1 DEF Disk
  <2> QED
    BY <1>1, <2>1, Candidates DEF Conf
<1>4. x \in Candidate["direct"].lists => x \in Candidate["hijack"].lists
  BY <1>1, <1>3, Ways
<1>5. /\ Transition.lists = work.before["hijack"].lists \cup want.hijack
      /\ Candidate["hijack"].lists = want.hijack
  BY <1>1, Candidates DEF File
<1>6. /\ mosdns["conf"].shape = work.before["conf"].shape
      /\ mosdns["direct"] \in {work.before["direct"], Candidate["direct"]}
      /\ mosdns["hijack"] \in {work.before["hijack"], Transition, Candidate["hijack"]}
  BY <1>1, <1>2, <1>4 DEF OldOrNew
<1>7. CASE mosdns["conf"].shape = "half"
  <2>1. mosdns["direct"] # work.before["direct"]
    BY <1>1, <1>2, <1>6, <1>7, Ways
  <2> QED
    BY <1>2, <1>4, <1>6, <1>7, <2>1 DEF Overlap
<1>8. CASE mosdns["conf"].shape = "ready"
  <2>1. x \notin mosdns["hijack"].lists
    BY <1>2, <1>8
  <2>2. x \in work.before["direct"].lists => x \in work.before["hijack"].lists
    BY <1>1, <1>6, <1>8, Ways
  <2>3. CASE mig.at # "put"
    BY <1>2, <1>4, <1>6, <2>2, <2>3 DEF Overlap
  <2>4. CASE mig.at = "put" /\ "transition" \in mig.todo
    <3>1. /\ mosdns["hijack"] = work.before["hijack"]
          /\ mosdns["direct"] = work.before["direct"]
      BY <1>1, <2>4 DEF CommitOrder
    <3> QED
      BY <1>2, <2>1, <2>2, <3>1
  <2>5. CASE mig.at = "put" /\ "transition" \notin mig.todo /\ "hijack" \in mig.todo
    <3>1. mosdns["hijack"] = Transition
      BY <1>1, <2>5 DEF CommitOrder
    <3> QED
      BY <1>2, <1>4, <1>5, <1>6, <2>1, <2>2, <3>1
  <2>6. CASE mig.at = "put" /\ "hijack" \notin mig.todo
    <3>1. /\ mosdns["hijack"] = Candidate["hijack"]
          /\ mosdns["direct"] = Candidate["direct"]
      BY <1>1, <2>6 DEF CommitOrder
    <3> QED
      BY <1>2, <1>4, <2>1, <3>1
  <2> QED
    BY <2>3, <2>4, <2>5, <2>6
<1> QED
  BY <1>2, <1>7, <1>8

(* While targets change between direct and an exit, and while a change is    *)
(* undone, no domain goes direct that does not before or after, except those *)
(* that two overlapping rule sets put into both lists.                      *)
THEOREM NobodyIsMisdirected ==
  ASSUME Trusted("restores")
  PROVE  MigrationSpec => []NeverMisdirected
BY NoDetour, DiskHolds, PTL
=============================================================================
