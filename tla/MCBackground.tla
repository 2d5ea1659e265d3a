----------------------------- MODULE MCBackground -----------------------------
(***************************************************************************)
(* The parts of the program that work in the background, each on its own:  *)
(* the web server's jobs, imports and workers, the bot's panel and backups, *)
(* the health notifier, and the migration of the rule-set lists.  They      *)
(* share no state in these models, so one run checks one part in each       *)
(* behaviour, chosen by the initial state, and not their product.           *)
(***************************************************************************)
EXTENDS WebImports, PanelSession, HealthNotify, BackupScan, WebServer, RulesetMigration, MCWebJobs

VARIABLE part
Part == {"jobs", "imports", "baselines", "panel", "health", "backup", "server", "migration"}
backgroundVars == <<part, vars, importVars, panelVars, healthVars, backupVars, serverVars,
                    migrationVars>>

(* A part that does not take part is in one initial state.                 *)
NoTrouble == ~oldSchema /\ trouble = Fine
NothingToMigrate ==
  /\ mosdns = Files([shape |-> "old", edit |-> 0], Missing, Missing)
  /\ want = [direct |-> {}, hijack |-> {}]

BackgroundInit ==
  /\ part \in Part
  /\ Init /\ ImportInit /\ PanelInit /\ HealthInit /\ BackupInit /\ ServerInit
  /\ part # "backup" => disk["meta"].names = {}
  /\ MigrationInit
  /\ part # "baselines" => conf["model"] = conf["mosdns"]
  /\ part = "baselines" => Cardinality(Content) > 1   \* not in the run with fairness
  /\ part # "health" => NoTrouble
  /\ part # "migration" => NothingToMigrate

Others(p) ==
  /\ UNCHANGED part
  /\ p # "jobs" => UNCHANGED vars
  /\ p \notin {"imports", "baselines"} => UNCHANGED importVars
  /\ p # "panel" => UNCHANGED panelVars
  /\ p # "health" => UNCHANGED healthVars
  /\ p # "backup" => UNCHANGED backupVars
  /\ p # "server" => UNCHANGED serverVars
  /\ p # "migration" => UNCHANGED migrationVars

(* Who contends for an import, and when, does not depend on what the         *)
(* configuration holds; and what an import may replace does not depend on    *)
(* when it is collected.  So the first part has one configuration and the   *)
(* kind that reads all of it; the second has every kind and every edit, but *)
(* no collectors, no deaths, and time stands still.                        *)
Handled == ImportNext /\ UNCHANGED conf /\ \A i \in Import : made'[i].kind \in {"none", "pdg"}
Edited == ImportNext /\ UNCHANGED <<born, written, held, gc, deaths>>

(* The backups and the server stop when their bounds are reached, but only  *)
(* at rest.                                                                *)
AtRest ==
  /\ \/ part = "backup" /\ reading = NoBackup /\ tx = NoTx
     \/ part = "server" /\ \A c \in Peer : conn[c] = NoConn
  /\ UNCHANGED backgroundVars

BackgroundNext ==
  \/ part = "jobs" /\ Next /\ Others("jobs")
  \/ part = "imports" /\ Handled /\ Others("imports")
  \/ part = "baselines" /\ Edited /\ Others("baselines")
  \/ part = "panel" /\ PanelNext /\ Others("panel")
  \/ part = "health" /\ HealthNext /\ Others("health")
  \/ part = "backup" /\ BackupNext /\ Others("backup")
  \/ part = "server" /\ ServerNext /\ Others("server")
  \/ part = "migration" /\ MigrationNext /\ Others("migration")
  \/ AtRest

(* The fairness of each part, where it is the part.                        *)
BackgroundFairness ==
  /\ \A j \in Job :
       /\ WF_vars(part = "jobs" /\ Runner(j))
       /\ WF_vars(part = "jobs" /\ unit[j] \notin Up /\ Look(j, "unknown"))
  /\ \A w \in Web : WF_vars(part = "jobs" /\ Thread(w))
  /\ WF_vars(part = "jobs" /\ Tick)
  /\ \A t \in Worker : WF_importVars(part = "imports" /\ WebStep(t))
  /\ SF_importVars(part = "imports" /\ GcStep("web"))
  /\ \A i \in Import :
       /\ WF_importVars(part = "imports" /\ RunnerStep(i))
       /\ WF_importVars(part = "imports" /\ Interrupt(i))
  /\ WF_importVars(part = "imports" /\ TimePasses)
  /\ \A a \in Actor : WF_panelVars(part = "panel" /\ SetPanelStep(a))
  /\ WF_panelVars(part = "panel" /\ MainStep)
  /\ WF_panelVars(part = "panel" /\ \E c \in Callback : TimerFires(c))
  /\ WF_healthVars(part = "health" /\ CheckStep)
  /\ SF_healthVars(part = "health" /\ TenMinutesPass)
  /\ \A c \in Peer :
       /\ WF_serverVars(part = "server" /\ WorkerStep(c))
       /\ WF_serverVars(part = "server" /\ Expire(c))
  /\ WF_migrationVars(part = "migration" /\ MigrateStep)

(* What files hold is only compared, like the threads of the jobs.          *)
Interchangeable == AnyThread \cup Permutations(Version) \cup Permutations(Content)

BackgroundSafety == BackgroundInit /\ [][BackgroundNext]_backgroundVars
BackgroundSpec == BackgroundSafety /\ BackgroundFairness
=============================================================================
