------------------------------- MODULE WebJobs -------------------------------
(***************************************************************************)
(* The durable job store of the web UI, deploy/web/pdg-web-job.py.         *)
(*                                                                         *)
(* A rollback, a software update or a configuration import outlives the    *)
(* request that asks for it: the web server writes a record and has        *)
(* systemd run it in a transient unit, whose runner moves the record on.   *)
(* Nothing connects the two but the record, the answers of systemctl, the  *)
(* boot id and the age of the record; from these a reader decides whether  *)
(* a record that still claims to be active is dead.  Synchronous           *)
(* maintenance actions exclude jobs by holding the state lock throughout.  *)
(*                                                                         *)
(* A section under the state lock is one step, the guard's excepted: its   *)
(* writes are atomic renames, and nobody else reads in between.            *)
(***************************************************************************)
EXTENDS Naturals, FiniteSets

CONSTANTS
  Job,          \* job ids, in the order of their creation
  Web,          \* the request threads of the web server
  Nobody,       \* no thread
  NoJob,        \* no job
  KindOf,       \* what each job does
  LaunchGrace,  \* age up to which an idle unit means nothing (60 s)
  QueueLimit,   \* age at which a queued job of unknown unit is dead (5 min)
  OpTimeout,    \* the operation's time limit, per kind (15, 20, 45 min)
  RunLimit,     \* age at which a running job of unknown unit is dead (25, 50 min)
  MaxRecords,   \* _MAX_RECORDS: terminal records that are kept
  LegacyRuns    \* whether a rollback to a version without imports may happen

Kind == {"rollback", "software-update", "config-import"}

ASSUME JobsAssumption ==
  /\ Job \subseteq Nat
  /\ Nobody \notin Web
  /\ NoJob \notin Job
  /\ KindOf \in [Job -> Kind]
  /\ LaunchGrace \in Nat /\ QueueLimit \in Nat /\ LaunchGrace <= QueueLimit
  /\ MaxRecords \in Nat
  /\ OpTimeout \in [Kind -> Nat]
  /\ RunLimit \in [Kind -> Nat]
  /\ LegacyRuns \in BOOLEAN

(* An operation is killed before a reader may give it up.                  *)
ASSUME TimeoutAssumption == \A k \in Kind : OpTimeout[k] < RunLimit[k]

VARIABLES
  rec,     \* the status in each job's record
  fresh,   \* whether the record's boot id is the current one
  age,     \* time since it was queued or, once running, since it was started
  unit,    \* how far systemd and the runner are with the job's unit
  lock,    \* the thread that holds the state lock in a maintenance guard
  place,   \* where each thread is
  job,     \* the job it is launching
  legacy   \* the cleanup before a rollback to a version without imports

vars == <<rec, fresh, age, unit, lock, place, job, legacy>>

Active == {"queued", "running"}
Terminal == {"succeeded", "failed", "interrupted"}
Statuses == Active \cup Terminal \cup {"none", "gone"}

(* "asked": systemd-run sent its request, which systemd has not taken up;  *)
(* "loading": the unit exists, its process does not; "begin": the runner   *)
(* wants the lock; "operate"; "ok", "bad": the operation ended and the      *)
(* runner wants the lock; "over": the unit ended.                          *)
Units == {"none", "asked", "loading", "begin", "operate", "ok", "bad", "over"}
Up == {"begin", "operate", "ok", "bad"}

NoLegacy == [at |-> "off", seen |-> [j \in {} |-> "none"], left |-> {}]

Serving == legacy.at = "off"
Free == lock = Nobody

Init ==
  /\ rec = [j \in Job |-> "none"]
  /\ fresh = [j \in Job |-> FALSE]
  /\ age = [j \in Job |-> 0]
  /\ unit = [j \in Job |-> "none"]
  /\ lock = Nobody
  /\ place = [w \in Web |-> "idle"]
  /\ job = [w \in Web |-> NoJob]
  /\ legacy = NoLegacy

-----------------------------------------------------------------------------
(* What systemctl may say of a unit.  Any call may time out or fail.       *)

Answer == {"up", "down", "unknown"}

(* is-active: "down" for inactive and failed.  A unit whose process is yet *)
(* to start may read as inactive.                                          *)
IsActive(j) ==
  {"unknown"} \cup (IF unit[j] \in Up \cup {"loading"} THEN {"up"} ELSE {})
              \cup (IF unit[j] \in Up THEN {} ELSE {"down"})

(* show --property=LoadState; a unit that ended may have been collected.   *)
LoadState(j) ==
  {"unknown"} \cup (IF unit[j] \in {"none", "asked", "over"} THEN {"not-found"} ELSE {})
              \cup (IF unit[j] \in {"none", "asked"} THEN {} ELSE {"loaded"})

-----------------------------------------------------------------------------
(* _reconcile: is a record that claims to be active in fact dead?          *)

LimitOfAnyKind(j) ==
  IF rec[j] = "queued" THEN QueueLimit ELSE RunLimit["rollback"]
Limit(j) ==
  IF rec[j] = "queued" THEN QueueLimit ELSE RunLimit[KindOf[j]]

CheckedOnlyIfRunning(j) == rec[j] = "running"
Checked(j) == rec[j] = "running" \/ age[j] >= LaunchGrace

Dead(j, a) ==
  /\ rec[j] \in Active
  /\ \/ ~fresh[j]
     \/ Checked(j) /\ a = "down"
     \/ Checked(j) /\ a = "unknown" /\ age[j] >= Limit(j)

(* A request reads the job's record (get, or one of list).                 *)
Look(j, a) ==
  /\ Serving /\ Free
  /\ a \in IsActive(j)
  /\ Dead(j, a)
  /\ rec' = [rec EXCEPT ![j] = "interrupted"]
  /\ UNCHANGED <<fresh, age, unit, lock, place, job, legacy>>

(* _assert_idle_locked reconciles every record and fails if one is still    *)
(* active, which otherwise leaves what a Look does; if it succeeds, the    *)
(* oldest terminal records are pruned.                                     *)
AnyAnswers == {ans \in [Job -> Answer] : \A j \in Job : ans[j] \in IsActive(j)}

Reconciled(ans) ==
  [j \in Job |-> IF Dead(j, ans[j]) THEN "interrupted" ELSE rec[j]]

Pruned(r) ==
  [j \in Job |->
     IF r[j] \in Terminal
        /\ Cardinality({i \in Job : i > j /\ r[i] \in Terminal}) >= MaxRecords
       THEN "gone" ELSE r[j]]

(* The records as the gate leaves them when it opens.                      *)
OpenUnchecked == {Pruned(Reconciled(ans)) : ans \in AnyAnswers}
Open == {Pruned(Reconciled(ans)) : ans \in
          {a \in AnyAnswers : \A j \in Job : Reconciled(a)[j] \notin Active}}

-----------------------------------------------------------------------------
(* The web server.                                                         *)

Settle(w, l) == place' = [place EXCEPT ![w] = l]

(* maintenance_guard around a synchronous action.                          *)
Guard(w) ==
  /\ Serving /\ Free /\ place[w] = "idle"
  /\ rec' \in Open
  /\ lock' = w
  /\ Settle(w, "guard")
  /\ UNCHANGED <<fresh, age, unit, job, legacy>>

GuardEndKeepsLock(w) ==
  /\ place[w] = "guard"
  /\ Settle(w, "idle")
  /\ UNCHANGED <<rec, fresh, age, unit, lock, job, legacy>>
GuardEnd(w) ==
  /\ place[w] = "guard"
  /\ lock' = Nobody
  /\ Settle(w, "idle")
  /\ UNCHANGED <<rec, fresh, age, unit, job, legacy>>

(* start, up to the release of the state lock.                             *)
Start(w, j) ==
  /\ Serving /\ Free /\ place[w] = "idle"
  /\ rec[j] = "none" /\ \A i \in Job : i < j => rec[i] # "none"
  /\ \E r \in Open : rec' = [r EXCEPT ![j] = "queued"]
  /\ fresh' = [fresh EXCEPT ![j] = TRUE]
  /\ job' = [job EXCEPT ![w] = j]
  /\ Settle(w, "launch")
  /\ UNCHANGED <<age, unit, lock, legacy>>

(* The thread is done with its job.                                        *)
Return(w) ==
  /\ Settle(w, "idle")
  /\ job' = [job EXCEPT ![w] = NoJob]

(* systemd-run: it may succeed, raise or return an error, and in each case *)
(* the request may or may not have reached systemd.  A client that raised  *)
(* proves nothing, so start reports the record as it is.                   *)
Launch(w) ==
  /\ place[w] = "launch"
  /\ unit' \in {unit, [unit EXCEPT ![job[w]] = "asked"]}
  /\ \/ Return(w)
     \/ Settle(w, "query") /\ UNCHANGED job
  /\ UNCHANGED <<rec, fresh, age, lock, legacy>>

(* After an error systemd is asked whether it knows the unit.              *)
QueryLoad(w) ==
  /\ place[w] = "query"
  /\ \E a \in LoadState(job[w]) :
       IF a = "not-found" THEN Settle(w, "disown") /\ UNCHANGED job ELSE Return(w)
  /\ UNCHANGED <<rec, fresh, age, unit, lock, legacy>>

(* If not, and the record is still queued, the launch failed.  The state    *)
(* lock may be busy, and start ends with JobBusy.                          *)
Disown(w) ==
  /\ place[w] = "disown"
  /\ rec' = IF Free /\ rec[job[w]] = "queued"
              THEN [rec EXCEPT ![job[w]] = "failed"] ELSE rec
  /\ Return(w)
  /\ UNCHANGED <<fresh, age, unit, lock, legacy>>

-----------------------------------------------------------------------------
(* systemd and the runner.                                                 *)

Advance(j, l) == unit' = [unit EXCEPT ![j] = l]

Accept(j) ==
  /\ unit[j] = "asked"
  /\ Advance(j, "loading")
  /\ UNCHANGED <<rec, fresh, age, lock, place, job, legacy>>

Exec(j) ==
  /\ unit[j] = "loading"
  /\ Advance(j, "begin")
  /\ UNCHANGED <<rec, fresh, age, lock, place, job, legacy>>

(* run, up to the operation.  A record that is no longer queued is left     *)
(* alone, one of an earlier boot is interrupted.                           *)
RunBegin(j) ==
  LET started == rec[j] = "queued" /\ fresh[j] IN
  /\ unit[j] = "begin" /\ Free
  /\ rec' = IF rec[j] = "queued"
              THEN [rec EXCEPT ![j] = IF started THEN "running" ELSE "interrupted"]
              ELSE rec
  /\ age' = IF started THEN [age EXCEPT ![j] = 0] ELSE age
  /\ Advance(j, IF started THEN "operate" ELSE "over")
  /\ UNCHANGED <<fresh, lock, place, job, legacy>>

(* The operation returns, or is killed at its timeout.                     *)
OpEnd(j) ==
  /\ unit[j] = "operate"
  /\ \E l \in {"ok", "bad"} : Advance(j, l)
  /\ UNCHANGED <<rec, fresh, age, lock, place, job, legacy>>

Outcome(j) == IF unit[j] = "ok" THEN "succeeded" ELSE "failed"

(* The runner records the outcome, unless a reader gave the job up.        *)
RunFinishAlways(j) ==
  /\ unit[j] \in {"ok", "bad"} /\ Free
  /\ rec' = [rec EXCEPT ![j] = Outcome(j)]
  /\ Advance(j, "over")
  /\ UNCHANGED <<fresh, age, lock, place, job, legacy>>
RunFinish(j) ==
  /\ unit[j] \in {"ok", "bad"} /\ Free
  /\ rec' = IF rec[j] \in Active THEN [rec EXCEPT ![j] = Outcome(j)] ELSE rec
  /\ Advance(j, "over")
  /\ UNCHANGED <<fresh, age, lock, place, job, legacy>>

-----------------------------------------------------------------------------
(* cleanup_config_import_for_legacy, run with the web server stopped: read  *)
(* the import records, stop their units, and remove the records if they    *)
(* have not changed meanwhile.                                             *)

ImportRecords ==
  {j \in Job : KindOf[j] = "config-import" /\ rec[j] \in Active \cup Terminal}

LegacyRead ==
  /\ LegacyRuns /\ legacy.at = "off"
  /\ place' = [w \in Web |-> "idle"]
  /\ job' = [w \in Web |-> NoJob]
  /\ lock' = Nobody
  /\ legacy' = [at |-> "stop", seen |-> [j \in ImportRecords |-> rec[j]],
                left |-> ImportRecords]
  /\ UNCHANGED <<rec, fresh, age, unit>>

(* A unit is unknown to systemd, or is stopped and seen to be down.        *)
LegacyStop(j) ==
  /\ legacy.at = "stop" /\ j \in legacy.left
  /\ \/ "not-found" \in LoadState(j) /\ UNCHANGED unit
     \/ "loaded" \in LoadState(j) /\ Advance(j, "over")
  /\ legacy' = [legacy EXCEPT !.left = @ \ {j}]
  /\ UNCHANGED <<rec, fresh, age, lock, place, job>>

(* A query or a stop fails, perhaps after it stopped the unit; or the      *)
(* command dies.                                                           *)
LegacyGiveUp ==
  /\ legacy.at = "stop"
  /\ unit' \in {unit} \cup {[unit EXCEPT ![j] = "over"] :
                             j \in {i \in legacy.left : "loaded" \in LoadState(i)}}
  /\ legacy' = NoLegacy
  /\ UNCHANGED <<rec, fresh, age, lock, place, job>>

LegacyRemove ==
  /\ legacy.at = "stop" /\ legacy.left = {}
  /\ rec' = IF legacy.seen = [j \in ImportRecords |-> rec[j]]
              THEN [j \in Job |-> IF j \in ImportRecords THEN "gone" ELSE rec[j]]
              ELSE rec
  /\ legacy' = NoLegacy
  /\ UNCHANGED <<fresh, age, unit, lock, place, job>>

-----------------------------------------------------------------------------
(* The environment.                                                        *)

(* The web server dies or is restarted: its threads and its lock go.       *)
WebDies ==
  /\ \E w \in Web : place[w] # "idle"
  /\ place' = [w \in Web |-> "idle"]
  /\ job' = [w \in Web |-> NoJob]
  /\ lock' = Nobody
  /\ UNCHANGED <<rec, fresh, age, unit, legacy>>

(* The runner is killed, or its process cannot be started.                 *)
RunnerDies(j) ==
  /\ unit[j] \in Up \cup {"loading"}
  /\ Advance(j, "over")
  /\ UNCHANGED <<rec, fresh, age, lock, place, job, legacy>>

Reboot ==
  /\ fresh' = [j \in Job |-> FALSE]
  /\ unit' = [j \in Job |-> IF unit[j] = "none" THEN "none" ELSE "over"]
  /\ place' = [w \in Web |-> "idle"]
  /\ job' = [w \in Web |-> NoJob]
  /\ lock' = Nobody
  /\ legacy' = NoLegacy
  /\ UNCHANGED <<rec, age>>

(* Time passes; ages beyond every limit are all alike.                     *)
Ticking(j) == rec[j] \in Active \/ unit[j] = "operate"
Oldest(j) == IF QueueLimit > RunLimit[KindOf[j]] THEN QueueLimit ELSE RunLimit[KindOf[j]]

Tick ==
  /\ \E j \in Job : Ticking(j) /\ age[j] < Oldest(j)
  /\ \A j \in Job : unit[j] = "operate" => age[j] < OpTimeout[KindOf[j]]
  /\ age' = [j \in Job |-> IF Ticking(j) /\ age[j] < Oldest(j) THEN age[j] + 1 ELSE age[j]]
  /\ UNCHANGED <<rec, fresh, unit, lock, place, job, legacy>>

-----------------------------------------------------------------------------
Runner(j) == Accept(j) \/ Exec(j) \/ RunBegin(j) \/ OpEnd(j) \/ RunFinish(j)

Thread(w) == Launch(w) \/ QueryLoad(w) \/ Disown(w) \/ GuardEnd(w)

Request ==
  \/ \E j \in Job, a \in Answer : Look(j, a)
  \/ \E w \in Web : Guard(w) \/ \E j \in Job : Start(w, j)

Legacy == LegacyRead \/ LegacyGiveUp \/ LegacyRemove \/ \E j \in Job : LegacyStop(j)

Next ==
  \/ \E j \in Job : Runner(j) \/ RunnerDies(j)
  \/ \E w \in Web : Thread(w)
  \/ Request \/ Legacy \/ WebDies \/ Reboot \/ Tick

Spec == Init /\ [][Next]_vars

(* systemd and the runner go on, every call of a thread returns, time       *)
(* passes, and the browser that shows an unfinished job keeps polling; it   *)
(* is not assumed that systemctl ever answers anything but "unknown".      *)
Fairness ==
  /\ \A j \in Job : WF_vars(Runner(j))
  /\ \A w \in Web : WF_vars(Thread(w))
  /\ \A j \in Job : WF_vars(unit[j] \notin Up /\ Look(j, "unknown"))
  /\ WF_vars(Tick)

FairSpec == Spec /\ Fairness

-----------------------------------------------------------------------------
(* Properties.                                                             *)

Cleanups == [at : {"off", "stop"}, left : SUBSET Job,
             seen : UNION {[S -> Statuses] : S \in SUBSET Job}]

(* Every variable has its type; a thread holds the lock exactly while it   *)
(* is in a guard, and has a job exactly while it launches it.              *)
TypeOK ==
  /\ rec \in [Job -> Statuses]
  /\ fresh \in [Job -> BOOLEAN]
  /\ age \in [Job -> Nat]
  /\ unit \in [Job -> Units]
  /\ lock \in Web \cup {Nobody}
  /\ place \in [Web -> {"idle", "guard", "launch", "query", "disown"}]
  /\ job \in [Web -> Job \cup {NoJob}]
  /\ legacy \in Cleanups
  /\ \A w \in Web : /\ (lock = w) <=> (place[w] = "guard")
                    /\ (job[w] = NoJob) <=> (place[w] \in {"idle", "guard"})

(* At most one maintenance operation runs at a time, be it a job's or a     *)
(* request's under the guard: readers never give up a job that still       *)
(* operates, and the idle gate sees every other one.                       *)
Exclusive ==
  /\ \A i, j \in Job : unit[i] = "operate" /\ unit[j] = "operate" => i = j
  /\ \A j \in Job : unit[j] = "operate" => Free

(* While an operation runs, its record says so: it has been neither given   *)
(* up, nor disowned by the thread that launched it, nor removed.           *)
OperationIsRecorded == \A j \in Job : unit[j] = "operate" => rec[j] = "running"

(* A terminal record never changes any more, whoever comes late: the       *)
(* runner, a reader, the launching thread; it can only be removed.         *)
SettledStep ==
  \A j \in Job : rec[j] \in Terminal \cup {"gone"} => rec'[j] \in {rec[j], "gone"}
Settled == [][SettledStep]_vars

(* As long as somebody looks, no job stays active for ever, and so none    *)
(* blocks maintenance for ever: also when the launch was lost, the runner   *)
(* died, and systemctl only ever answers "unknown".                        *)
JobsEnd == \A j \in Job : []<>(rec[j] \notin Active)
=============================================================================
