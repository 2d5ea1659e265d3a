--------------------------- MODULE RulesetMigration ---------------------------
(***************************************************************************)
(* The migration of MosDNS to the aggregated lists of the rule sets:        *)
(* migrate_ruleset_phone_direct of deploy/bot/pdg.sh, which pdg migrate     *)
(* and pdg update run, under the lock the transactions take.  It replaces   *)
(* three files one by one, restarts MosDNS, and keeps a journal of          *)
(* before-images from which the next migration, after a crash or a failed   *)
(* undo, restores them.                                                     *)
(***************************************************************************)
EXTENDS Naturals

CONSTANTS
  Domain,      \* domains that rule sets list
  MaxEdits,    \* bound on the edits of the configuration
  MaxFaults,  \* bound on failures and crashes
  Discipline   \* what is taken for granted, see below

(* "restores": the before-image of the configuration can be written back;   *)
(* "removes": rm -rf of the journal is not interrupted half way.            *)
ASSUME MigrationAssumption ==
  /\ MaxEdits \in Nat /\ MaxFaults \in Nat
  /\ Discipline \subseteq {"restores", "removes"}

(* config.yaml, ruleset_direct.txt and ruleset_hijack.txt.                  *)
ListFile == {"conf", "direct", "hijack"}

VARIABLES
  mosdns,   \* the three files
  loaded,   \* what MosDNS last started with
  want,     \* the lists that the rule sets and their targets say
  work,     \* the working directory: preparing, then the journal
  mig,      \* how far the migration is, and what for
  faults

migrationVars == <<mosdns, loaded, want, work, mig, faults>>

Missing == [there |-> FALSE, lists |-> {}]
File(lists) == [there |-> TRUE, lists |-> lists]

(* The lists a configuration loads: before there were any, an intermediate   *)
(* one, the interface complete, and one that is the operator's own.         *)
Loads(shape) ==
  CASE shape \in {"old", "custom"} -> {} [] shape = "half" -> {"direct"}
    [] shape = "ready" -> {"direct", "hijack"}

Bootable(d) == \A f \in Loads(d["conf"].shape) : d[f].there

(* MosDNS asks for explicit exits before the phone's own way.               *)
Way(d, x) ==
  IF "hijack" \in Loads(d["conf"].shape) /\ x \in d["hijack"].lists THEN "gateway"
  ELSE IF "direct" \in Loads(d["conf"].shape) /\ x \in d["direct"].lists THEN "direct"
  ELSE "other"

Files(conf, direct, hijack) ==
  [f \in ListFile |-> CASE f = "conf" -> conf [] f = "direct" -> direct [] f = "hijack" -> hijack]

NoWork(before) == [at |-> "none", has |-> {}, before |-> before]
NotMigrating == [at |-> "idle", why |-> "none", todo |-> {}, bad |-> FALSE]

Lists == {Missing} \cup {File(S) : S \in SUBSET Domain}

MigrationInit ==
  /\ \E shape \in {"old", "half", "ready", "custom"}, direct, hijack \in Lists :
       mosdns = Files([shape |-> shape, edit |-> 0], direct, hijack)
  /\ Bootable(mosdns)
  /\ loaded = mosdns
  /\ want \in [direct : SUBSET Domain, hijack : SUBSET Domain]
  /\ work = NoWork(mosdns)
  /\ mig = NotMigrating
  /\ faults = 0

-----------------------------------------------------------------------------
MovesTo(at) == mig' = [mig EXCEPT !.at = at]
GoesFor(at, why, todo) == mig' = [at |-> at, why |-> why, todo |-> todo, bad |-> FALSE]
Returns(result) == mig' = [NotMigrating EXCEPT !.why = result]
Mishap == faults < MaxFaults /\ faults' = faults + 1

Trusted(kind) == kind \in Discipline

(* A journal is recovered first; what was being prepared is thrown away.    *)
Migrate ==
  /\ mig.at = "idle"
  /\ CASE work.at = "journal" -> GoesFor("recover", "recover", {})
       [] work.at = "preparing" -> GoesFor("remove", "discard", {})
       [] OTHER -> GoesFor("look", "none", {})
  /\ UNCHANGED <<mosdns, loaded, want, work, faults>>

(* _pdg_recover_ruleset_migration_journal: a part without its before-image   *)
(* and without its mark of absence cannot be recovered.                     *)
Recover ==
  /\ mig.at = "recover"
  /\ \/ work.has = ListFile /\ GoesFor("restore", "recover", ListFile) /\ UNCHANGED faults
     \/ work.has # ListFile /\ Returns("failed") /\ UNCHANGED faults
     \/ Mishap /\ Returns("failed")
  /\ UNCHANGED <<mosdns, loaded, want, work>>

-----------------------------------------------------------------------------
(* _pdg_restore_ruleset_migration_before: the configuration, then the two    *)
(* lists, each in spite of a failure before it.                            *)

RestoredFirst(todo) == IF "conf" \in todo THEN "conf" ELSE
                       IF "direct" \in todo THEN "direct" ELSE "hijack"

RestoreFile ==
  /\ mig.at = "restore" /\ mig.todo # {}
  /\ LET f == RestoredFirst(mig.todo)
     IN  /\ mig' = [mig EXCEPT !.todo = @ \ {f}]
         /\ mosdns' = [mosdns EXCEPT ![f] = work.before[f]]
  /\ UNCHANGED <<loaded, want, work, faults>>

RestoreFails ==
  /\ mig.at = "restore" /\ mig.todo # {}
  /\ Mishap
  /\ LET f == RestoredFirst(mig.todo)
     IN  /\ f = "conf" => ~Trusted("restores")
         /\ mig' = [mig EXCEPT !.todo = @ \ {f}, !.bad = TRUE]
         /\ mosdns' \in {mosdns, [mosdns EXCEPT ![f] = work.before[f]]}
  /\ UNCHANGED <<loaded, want, work>>

(* After a failed restart, and in a recovery, MosDNS must run on it again;   *)
(* after a failed commit it was never restarted.                           *)
NotRestarted == {"install", "unstable"}
NeverRestarted == {"install"}
RestoreEnds ==
  /\ mig.at = "restore" /\ mig.todo = {}
  /\ IF mig.bad THEN Returns("failed")
     ELSE MovesTo(IF mig.why \in NeverRestarted THEN "remove" ELSE "restart")
  /\ UNCHANGED <<mosdns, loaded, want, work, faults>>

-----------------------------------------------------------------------------
(* The before-images and the candidates.                                   *)

(* A configuration of the operator's own is left alone.                     *)
LookAtFiles ==
  /\ mig.at = "look"
  /\ IF mosdns["conf"].shape = "custom"
       THEN Returns("ok") /\ UNCHANGED work
       ELSE MovesTo("capture") /\ work' = [at |-> "preparing", has |-> {}, before |-> mosdns]
  /\ UNCHANGED <<mosdns, loaded, want, faults>>

(* _pdg_capture_ruleset_migration_before, and a mark for a list that is not  *)
(* there.                                                                  *)
WithoutMarks(d) == {f \in ListFile : f # "conf" => d[f].there}
Captured(d) == ListFile
Capture ==
  /\ mig.at = "capture"
  /\ \/ /\ work' = [work EXCEPT !.has = Captured(mosdns)]
        /\ MovesTo("derive") /\ UNCHANGED faults
     \/ /\ Mishap
        /\ \E some \in SUBSET ListFile : work' = [work EXCEPT !.has = some]
        /\ GoesFor("remove", "gather", {})
  /\ UNCHANGED <<mosdns, loaded, want>>

(* The candidates: the interface complete, the lists as of now, and for the  *)
(* time of the change the domains of the old and the new hijack list.       *)
Candidate ==
  Files([work.before["conf"] EXCEPT !.shape = "ready"], File(want.direct), File(want.hijack))
NoTransition == Candidate["hijack"]
Transition == File(work.before["hijack"].lists \cup want.hijack)

Derive ==
  /\ mig.at = "derive"
  /\ \/ MovesTo("publish") /\ UNCHANGED faults
     \/ Mishap /\ GoesFor("remove", "gather", {})
  /\ UNCHANGED <<mosdns, loaded, want, work>>

(* mv and the fsync of its directory, which may fail after the mv.          *)
PublishJournal ==
  /\ mig.at = "publish"
  /\ \/ /\ work' = [work EXCEPT !.at = "journal"]
        /\ GoesFor("put", "install", ListFile \cup {"transition"}) /\ UNCHANGED faults
     \/ /\ Mishap /\ Returns("failed")
        /\ \E at \in {"preparing", "journal"} : work' = [work EXCEPT !.at = at]
  /\ UNCHANGED <<mosdns, loaded, want>>

-----------------------------------------------------------------------------
(* The commit: the transition, the lists, the configuration last.           *)

ConfFirst == <<"conf", "transition", "direct", "hijack">>
Order == <<"transition", "direct", "hijack", "conf">>
PutFirst(todo) ==
  LET n == CHOOSE i \in 1..4 : Order[i] \in todo /\ \A j \in 1..(i - 1) : Order[j] \notin todo
  IN  Order[n]

Put(step) ==
  IF step = "transition" THEN [mosdns EXCEPT !["hijack"] = Transition]
  ELSE [mosdns EXCEPT ![step] = Candidate[step]]

PutFile ==
  /\ mig.at = "put" /\ mig.todo # {}
  /\ mosdns' = Put(PutFirst(mig.todo))
  /\ mig' = [mig EXCEPT !.todo = @ \ {PutFirst(mig.todo)}]
  /\ UNCHANGED <<loaded, want, work, faults>>

PutFails ==
  /\ mig.at = "put" /\ mig.todo # {}
  /\ Mishap
  /\ mosdns' \in {mosdns, Put(PutFirst(mig.todo))}
  /\ GoesFor("restore", "install", ListFile)
  /\ UNCHANGED <<loaded, want, work>>

(* The strict check of the interface, which may still fail.                 *)
CheckInterface ==
  /\ mig.at = "put" /\ mig.todo = {}
  /\ \/ GoesFor("restart", "done", {}) /\ UNCHANGED faults
     \/ Mishap /\ GoesFor("restore", "install", ListFile)
  /\ UNCHANGED <<mosdns, loaded, want, work>>

(* systemctl restart, and _core_kernel_stable.                             *)
Stable ==
  /\ mig.at = "restart" /\ Bootable(mosdns)
  /\ loaded' = mosdns
  /\ MovesTo("remove")
  /\ UNCHANGED <<mosdns, want, work, faults>>

Unstable ==
  /\ mig.at = "restart"
  /\ IF Bootable(mosdns) THEN Mishap ELSE UNCHANGED faults
  /\ loaded' \in {loaded, mosdns}
  /\ IF mig.why = "done" THEN GoesFor("restore", "unstable", ListFile) ELSE Returns("failed")
  /\ UNCHANGED <<mosdns, want, work>>

-----------------------------------------------------------------------------
(* rm -rf of the directory and the fsync of its parent.                     *)

RemoveJournal ==
  /\ mig.at = "remove"
  /\ work' = NoWork(mosdns)
  /\ CASE mig.why \in {"recover", "discard"} -> GoesFor("look", "none", {})
       [] mig.why \in {"install", "gather"} -> Returns("failed")
       [] OTHER -> Returns("ok")
  /\ UNCHANGED <<mosdns, loaded, want, faults>>

RemoveOne ==
  /\ mig.at = "remove"
  /\ work.at = "journal" => ~Trusted("removes")
  /\ \E f \in work.has : work' = [work EXCEPT !.has = @ \ {f}]
  /\ UNCHANGED <<mosdns, loaded, want, mig, faults>>

RemoveFails ==
  /\ mig.at = "remove"
  /\ Mishap /\ Returns("failed")
  /\ work' \in {work, NoWork(mosdns)}
  /\ UNCHANGED <<mosdns, loaded, want>>

-----------------------------------------------------------------------------
(* The environment.                                                        *)

(* A kill, or a reboot, after which MosDNS starts with what is there.       *)
Crash ==
  /\ mig.at # "idle"
  /\ Mishap
  /\ mig' = NotMigrating
  /\ loaded' \in {loaded, mosdns}
  /\ UNCHANGED <<mosdns, want, work>>

(* _lock: the file the transactions lock is the one that pdg locks.         *)
LockFree == mig.at = "idle"

(* Transactions of the bot or the web: of the configuration (upstreams and   *)
(* others), or of rule sets, which are refused without the interface; both  *)
(* restart MosDNS.                                                         *)
EditMosdns ==
  /\ LockFree /\ mosdns["conf"].edit < MaxEdits
  /\ mosdns' = [mosdns EXCEPT !["conf"].edit = @ + 1]
  /\ loaded' = mosdns'
  /\ UNCHANGED <<want, work, mig, faults>>

EditRules ==
  /\ LockFree /\ mosdns["conf"].shape = "ready"
  /\ want' \in [direct : SUBSET Domain, hijack : SUBSET Domain]
  /\ mosdns' = Files(mosdns["conf"], File(want'.direct), File(want'.hijack))
  /\ loaded' = mosdns'
  /\ UNCHANGED <<work, mig, faults>>

-----------------------------------------------------------------------------
MigrateStep ==
  \/ Migrate \/ Recover \/ RestoreFile \/ RestoreFails \/ RestoreEnds \/ LookAtFiles \/ Capture
  \/ Derive \/ PublishJournal \/ PutFile \/ PutFails \/ CheckInterface \/ Stable \/ Unstable
  \/ RemoveJournal \/ RemoveOne \/ RemoveFails

MigrationNext == MigrateStep \/ Crash \/ EditMosdns \/ EditRules

(* Somebody runs the migration again, as every update does, and it goes on. *)
MigrationSpec ==
  MigrationInit /\ [][MigrationNext]_migrationVars /\ WF_migrationVars(MigrateStep)

-----------------------------------------------------------------------------
(* Properties.                                                             *)

(* What test-ruleset-phone-direct.py concludes from the order of the        *)
(* commit, and what must be true of the undo as well: whenever the power    *)
(* fails, MosDNS finds the lists that its configuration names.              *)
EveryDiskBoots == Bootable(mosdns)

(* The comment on the transition list: while targets change between direct   *)
(* and an exit, no domain goes direct that does not before or after.  The    *)
(* undo puts the direct list back before the hijack list, and a "half"       *)
(* configuration knows no hijack list, so there domains that two overlapping *)
(* rule sets put into both lists are not meant.                             *)
Overlap(d, x) == x \in d["direct"].lists \cap d["hijack"].lists
NeverMisdirected ==
  work.at = "journal" =>
    \A x \in Domain : Way(mosdns, x) = "direct" =>
      \/ "direct" \in {Way(work.before, x), Way(Candidate, x)}
      \/ Overlap(work.before, x) /\ mig.at # "put"
      \/ Overlap(Candidate, x) /\ (mig.at # "put" \/ mosdns["conf"].shape = "half")

(* A migration that reports success left MosDNS running on exactly the files *)
(* that are there: the new ones, with the lists of now, or the old ones.     *)
SuccessIsRunning ==
  [][mig.at = "remove" /\ mig'.at = "idle" /\ mig'.why = "ok" =>
       loaded = mosdns /\ mosdns \in {Candidate, work.before}]_migrationVars

(* A journal does not stay for ever, in the way of every update: once        *)
(* nothing fails any more, it is recovered.                                *)
JournalSettles == []<>(work.at # "journal")
=============================================================================
