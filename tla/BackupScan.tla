----------------------------- MODULE BackupScan -----------------------------
(***************************************************************************)
(* backup_blob of deploy/bot/pdg-bot.py: an archive of the managed files    *)
(* while transactions may be writing them.  The files are read one by one,  *)
(* without the lock, twice; two equal readings are the archive, and after   *)
(* three unequal pairs the backup is refused.                              *)
(*                                                                         *)
(* A transaction (pdgtx.Tx) replaces its files one by one and keeps them,   *)
(* or puts every one back; it may stop anywhere and be rolled back much     *)
(* later, as after a crash.  PdgTx models it in detail.                    *)
(***************************************************************************)
EXTENDS Naturals

CONSTANTS
  Source,     \* the source files of rule sets
  Version,    \* what transactions write: an edit may come back to what was there
  Pairs,      \* how many pairs of readings are made: 3
  MaxChanges  \* bound on the number of transactions

(* BACKUP_FILES: the model, the two aggregates of the rule sets for MosDNS   *)
(* (as one file) and rulesets.json.                                        *)
BACKUP_FILES == {"model", "aggregate", "meta"}
Managed == BACKUP_FILES \cup Source

ASSUME BackupAssumption ==
  /\ Source \cap BACKUP_FILES = {}
  /\ 0 \notin Version
  /\ Pairs \in Nat \ {0} /\ MaxChanges \in Nat

(* What a file holds; only rulesets.json names rule sets.                   *)
Contents(v, names) == [version |-> v, names |-> names]
Gone == Contents(0, {})

VARIABLES
  disk,     \* the contents of each file
  tx,       \* the transaction in progress: its phase, files to go, new and old contents
  changes,  \* the number of transactions so far
  reading,  \* attempt (0: no backup), the first reading of it, what was read
  archive,  \* the archive, once there is one
  middle    \* ghost: the files when the second reading began, and whether one
            \* that was changed since the first has been put back since

txVars == <<disk, tx, changes>>
backupVars == <<txVars, reading, archive, middle>>

Nothing == [f \in {} |-> Gone]
NoTx == [phase |-> "none", todo |-> {}, new |-> Nothing, old |-> Nothing]
NoBackup == [attempt |-> 0, again |-> FALSE, first |-> Nothing, got |-> Nothing]
NoMiddle == [disk |-> Nothing, back |-> FALSE]

(* Every rule set that rulesets.json names has its source file.            *)
SourcesThere(d) == \A r \in Source : r \in d["meta"].names <=> d[r] # Gone

BackupInit ==
  /\ \E names \in SUBSET Source, v \in Version :
       disk = [f \in Managed |->
                 IF f = "meta" THEN Contents(v, names)
                 ELSE IF f \in Source \ names THEN Gone ELSE Contents(v, {})]
  /\ tx = NoTx /\ changes = 0
  /\ reading = NoBackup /\ archive = Nothing /\ middle = NoMiddle

-----------------------------------------------------------------------------
(* The transactions.                                                       *)

(* The targets are applied, and rolled back, in the order of their names:   *)
(* model, rs_meta, ruleset:<file>, ruleset_direct and ruleset_hijack.      *)
FirstOf(files) ==
  IF "model" \in files THEN {"model"}
  ELSE IF "meta" \in files THEN {"meta"}
  ELSE IF files \cap Source # {} THEN files \cap Source
  ELSE files

(* A model alone, a label alone, or rule sets with what is derived of them. *)
TargetSets ==
  {{"model"}, {"meta"}} \cup {{"model", "meta", "aggregate"} \cup S : S \in SUBSET Source}

(* What a transaction may write; none begins after the archive is made,     *)
(* which it could not change.                                              *)
Candidates(S, v) ==
  {w \in [S -> {Gone} \cup {Contents(v, names) : names \in SUBSET Source}] :
     /\ \A f \in S \ Source : w[f] # Gone
     /\ \A f \in S \ {"meta"} : w[f].names = {}
     /\ SourcesThere([f \in Managed |-> IF f \in S THEN w[f] ELSE disk[f]])}

ChangeBegins ==
  /\ tx = NoTx /\ changes < MaxChanges /\ archive = Nothing
  /\ \E S \in TargetSets, v \in Version : \E w \in Candidates(S, v) :
       tx' = [phase |-> "writes", todo |-> S, new |-> w,
              old |-> [f \in S |-> disk[f]]]
  /\ changes' = changes + 1
  /\ UNCHANGED <<disk, reading, archive, middle>>

(* atomic_write: a file is replaced at once, whoever reads it.              *)
Replaced(f, data) == [disk EXCEPT ![f] = data]

(* The second reading finds in f what the first one did, although it was     *)
(* something else in between.                                              *)
PutBack(f, data) ==
  reading.again /\ f \in DOMAIN reading.first
    /\ reading.first[f] # middle.disk[f] /\ data = reading.first[f]

(* _apply_one replaces or unlinks a file; _rollback puts it back.           *)
NextFile ==
  /\ \E f \in FirstOf(tx.todo) :
       LET data == IF tx.phase = "writes" THEN tx.new[f] ELSE tx.old[f]
       IN  /\ disk' = Replaced(f, data)
           /\ middle' = [middle EXCEPT !.back = @ \/ PutBack(f, data)]
           /\ tx' = [tx EXCEPT !.todo = @ \ {f}]
  /\ UNCHANGED <<changes, reading, archive>>

(* Committed, or rolled back.                                              *)
ChangeEnds ==
  /\ tx # NoTx /\ tx.todo = {}
  /\ tx' = NoTx
  /\ UNCHANGED <<disk, changes, reading, archive, middle>>

(* A write, a service or an observation fails, or somebody recovers what a  *)
(* crash left: every target goes back, replaced or not.                    *)
RollBack ==
  /\ tx.phase = "writes"
  /\ tx' = [tx EXCEPT !.phase = "back", !.todo = DOMAIN tx.new]
  /\ UNCHANGED <<disk, changes, reading, archive, middle>>

-----------------------------------------------------------------------------
(* The backup.                                                             *)

AskBackup ==
  /\ reading = NoBackup /\ archive = Nothing
  /\ reading' = [NoBackup EXCEPT !.attempt = 1]
  /\ UNCHANGED <<txVars, archive, middle>>

Stops == reading' = NoBackup /\ middle' = NoMiddle

(* What _backup_entries_once reads next: the fixed files in their order,    *)
(* then the sources of the rule sets that rulesets.json named.             *)
Unread ==
  IF "model" \notin DOMAIN reading.got THEN {"model"}
  ELSE IF "aggregate" \notin DOMAIN reading.got THEN {"aggregate"}
  ELSE IF "meta" \notin DOMAIN reading.got THEN {"meta"}
  ELSE reading.got["meta"].names \ DOMAIN reading.got

(* _backup_read.                                                           *)
ReadFile ==
  /\ reading.attempt > 0
  /\ \E f \in Unread :
       /\ disk[f] # Gone
       /\ reading' = [reading EXCEPT !.got =
            [g \in DOMAIN @ \cup {f} |-> IF g = f THEN disk[f] ELSE @[g]]]
  /\ UNCHANGED <<txVars, archive, middle>>

(* A source is missing, or a file is too large or replaced while it is      *)
(* opened: the backup is refused.                                          *)
ReadFails ==
  /\ reading.attempt > 0
  /\ Stops
  /\ UNCHANGED <<txVars, archive>>

OneReading(first, got) == TRUE
TwoReadings(first, got) == first = got

FirstReadingEnds ==
  /\ reading.attempt > 0 /\ ~reading.again /\ Unread = {}
  /\ reading' = [reading EXCEPT !.again = TRUE, !.first = reading.got, !.got = Nothing]
  /\ middle' = [disk |-> disk, back |-> FALSE]
  /\ UNCHANGED <<txVars, archive>>

SecondReadingEnds ==
  /\ reading.again /\ Unread = {}
  /\ IF TwoReadings(reading.first, reading.got)
       THEN archive' = reading.first /\ reading' = NoBackup /\ UNCHANGED middle
       ELSE /\ reading' = IF reading.attempt < Pairs
                            THEN [NoBackup EXCEPT !.attempt = reading.attempt + 1]
                            ELSE NoBackup
            /\ middle' = NoMiddle
            /\ UNCHANGED archive
  /\ UNCHANGED txVars

-----------------------------------------------------------------------------
BackupNext ==
  \/ ChangeBegins \/ NextFile \/ ChangeEnds \/ RollBack
  \/ AskBackup \/ ReadFile \/ ReadFails \/ FirstReadingEnds \/ SecondReadingEnds

BackupSpec == BackupInit /\ [][BackupNext]_backupVars

-----------------------------------------------------------------------------
(* Properties.                                                             *)

(* What an archive of these files holds.                                   *)
Bundle(d) == [f \in BACKUP_FILES \cup d["meta"].names |-> d[f]]

(* What two equal readings show: an archive holds the files as they all were *)
(* when its second reading began, every one that rulesets.json named then    *)
(* and no other, whatever transactions wrote, committed or rolled back       *)
(* around it; so it is whole if no transaction was unfinished then.  Only    *)
(* the contents are compared: unless a file that had been changed before     *)
(* that moment was changed back after it, as by an edit that was rolled back *)
(* between the readings and made again during the second.                  *)
ArchiveOfOneMoment ==
  archive # Nothing /\ ~middle.back => archive = Bundle(middle.disk)
=============================================================================
