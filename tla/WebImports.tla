------------------------------ MODULE WebImports ------------------------------
(***************************************************************************)
(* The staging of configuration imports: ConfigIO in                       *)
(* deploy/web/pdgconfigio.py, the handlers of deploy/web/pdgcontrol.py     *)
(* that call it, and its runner.                                           *)
(*                                                                         *)
(* An import is up to three files in one directory: the upload, a record   *)
(* (json) and a claim.  The claim is created with O_EXCL and stands for a   *)
(* lock between the web server's threads, its janitor, the runner of a     *)
(* maintenance job and that process's own janitor; but it is a file that   *)
(* anybody unlinks by name, and one that outlived its owner is taken over. *)
(* The job store is what WebJobs shows of it: at most one job is active,   *)
(* and a job that operates has a record that says so.                      *)
(*                                                                         *)
(* A preview is made of the configuration, which others may edit all along: *)
(* what it read is compared again when the import is applied, and some of   *)
(* it once more inside the transaction.                                    *)
(***************************************************************************)
EXTENDS Naturals, FiniteSets

CONSTANTS
  Import,      \* import ids, each used once
  Worker,      \* request threads of the web server
  NoImport,
  PreviewTTL,  \* PREVIEW_TTL (30 min): a preview older than this has expired
  ClaimTTL,    \* CLAIM_PROTECTION_TTL (2 h)
  ImportKind,  \* the kinds of imports there are
  Content,     \* what a file of the configuration may hold
  MaxDeaths    \* bound on the number of processes that die

ASSUME ImportAssumption ==
  /\ NoImport \notin Import
  /\ PreviewTTL \in Nat /\ ClaimTTL \in Nat /\ PreviewTTL < ClaimTTL
  /\ ImportKind \subseteq {"mosdns", "mihomo", "pdg"}
  /\ MaxDeaths \in Nat

(* The model (sing-box.json) and MosDNS's configuration (config.yaml).      *)
ConfFile == {"model", "mosdns"}

(* The processes that collect garbage, each with a lock of its own.         *)
Collector == {"web", "runner"}

VARIABLES
  json,     \* the record: none, plain, or claimed (it has "apply")
  upload,   \* the uploaded file exists
  claim,    \* the claim file exists
  born,     \* age of the record's "created", or of the upload without one
  written,  \* age of the record's mtime; it is claimedAt's if it is claimed
  held,     \* age of the claim file's mtime
  told,     \* what the user was told of the import: nothing, uploading,
            \* preview, cancelled
  conf,     \* the configuration: what each file holds
  made,     \* what the preview was made of: its kind, what it read for the
            \* candidate, the baselines it recorded; ghost: how often the
            \* model has changed since it was read
  applied,  \* the imports that have been committed
  web,      \* where each request thread is, and its import
  gc,       \* where each collector is, and its import
  jobs,     \* the maintenance job of the import
  runner,   \* where its apply process is
  cleaner,  \* where the discard process is that the job store starts
  deaths

files == <<json, upload, claim, born, written, held>>
workers == <<web, gc, jobs, runner, cleaner>>
importVars == <<files, told, conf, made, applied, workers, deaths>>

Idle == [at |-> "idle", imp |-> NoImport, why |-> "none"]

MovesCap == 3          \* changes beyond are not told apart
NoFiles == [f \in {} |-> f]
Unmade == [kind |-> "none", read |-> NoFiles, base |-> NoFiles, moves |-> MovesCap]

AgeCap == ClaimTTL     \* ages beyond are not told apart
Older(age) == IF age < AgeCap THEN age + 1 ELSE age

ImportInit ==
  /\ json = [i \in Import |-> "none"]
  /\ upload = [i \in Import |-> FALSE]
  /\ claim = [i \in Import |-> FALSE]
  /\ born = [i \in Import |-> 0]
  /\ written = [i \in Import |-> 0]
  /\ held = [i \in Import |-> 0]
  /\ told = [i \in Import |-> "nothing"]
  /\ conf \in [ConfFile -> Content]
  /\ made = [i \in Import |-> Unmade]
  /\ applied = {}
  /\ web = [t \in Worker |-> Idle]
  /\ gc = [c \in Collector |-> Idle]
  /\ jobs = [i \in Import |-> "none"]
  /\ runner = [i \in Import |-> "none"]
  /\ cleaner = [i \in Import |-> "none"]
  /\ deaths = 0

-----------------------------------------------------------------------------
(* Readings of the files.                                                  *)

Expired(i) == born[i] > PreviewTTL
ActiveClaim(i) == json[i] = "claimed" /\ written[i] < ClaimTTL

(* The newest file of an import is older than a preview may be.             *)
Outdated(i) == /\ json[i] # "none" => written[i] > PreviewTTL
               /\ upload[i] => born[i] > PreviewTTL

(* What the collector leaves alone although it holds the claim.            *)
UnprotectedAll(i) == FALSE
Protected(i) == ActiveClaim(i)

(* An orphaned claim must not pin credentials for ever.                    *)
StealableNever(i) == FALSE
Stealable(i) == held[i] >= ClaimTTL

ActiveJob(i) == jobs[i] \in {"queued", "running"}

(* maintenance_guard: a preview holds the job store's lock to its end.      *)
Guarded == \E t \in Worker : web[t].at \in {"reading", "recording"}

WebGoes(t, at) == web' = [web EXCEPT ![t].at = at]
WebEnds(t) == web' = [web EXCEPT ![t] = Idle]

NewClaim(i) ==
  /\ claim' = [claim EXCEPT ![i] = TRUE]
  /\ held' = [held EXCEPT ![i] = 0]
Unlink(i, suffix) ==
  /\ json' = IF suffix = "json" THEN [json EXCEPT ![i] = "none"] ELSE json
  /\ upload' = IF suffix = "upload" THEN [upload EXCEPT ![i] = FALSE] ELSE upload
  /\ claim' = IF suffix = "claim" THEN [claim EXCEPT ![i] = FALSE] ELSE claim
  /\ UNCHANGED <<born, written, held>>

(* discard unlinks the three one after the other; last is where it returns. *)
AfterUnlink(suffix, last) ==
  CASE suffix = "json" -> "upload" [] suffix = "upload" -> "claim" [] suffix = "claim" -> last
WriteRecord(i, kind) ==
  /\ json' = [json EXCEPT ![i] = kind]
  /\ written' = [written EXCEPT ![i] = 0]

-----------------------------------------------------------------------------
(* preview_stream: the only slot, the guard, a new id; the body goes into   *)
(* the upload file.  Then the configuration is read for the candidate, and  *)
(* again for the baselines.                                                *)

(* What the files hold that an import of its kind is made of.              *)
Previewed(kind) == IF kind = "mihomo" THEN {"model"} ELSE ConfFile
Snapshot(i) == [f \in Previewed(made[i].kind) |-> conf[f]]

Preview(t) ==
  \E i \in Import, kind \in ImportKind :
    /\ web[t] = Idle /\ told[i] = "nothing"
    /\ ~Guarded /\ \A j \in Import : ~ActiveJob(j)
    /\ upload' = [upload EXCEPT ![i] = TRUE]
    /\ born' = [born EXCEPT ![i] = 0]
    /\ told' = [told EXCEPT ![i] = "uploading"]
    /\ made' = [made EXCEPT ![i] = [Unmade EXCEPT !.kind = kind]]
    /\ web' = [web EXCEPT ![t] = [at |-> "reading", imp |-> i, why |-> "preview"]]
    /\ UNCHANGED <<json, claim, written, held, conf, applied, gc, jobs, runner, cleaner, deaths>>

PreviewRead(t) ==
  LET i == web[t].imp
  IN  /\ web[t].at = "reading"
      /\ made' = [made EXCEPT ![i].read = Snapshot(i), ![i].moves = 0]
      /\ WebGoes(t, "recording")
      /\ UNCHANGED <<files, told, conf, applied, gc, jobs, runner, cleaner, deaths>>

PreviewRecord(t) ==
  LET i == web[t].imp
  IN  /\ web[t].at = "recording"
      /\ made' = [made EXCEPT ![i].base = Snapshot(i)]
      /\ WriteRecord(i, "plain")
      /\ born' = [born EXCEPT ![i] = 0]
      /\ told' = [told EXCEPT ![i] = "preview"]
      /\ WebEnds(t)
      /\ UNCHANGED <<upload, claim, held, conf, applied, gc, jobs, runner, cleaner, deaths>>

PreviewFails(t) ==
  /\ web[t].at \in {"reading", "recording"}
  /\ Unlink(web[t].imp, "upload")
  /\ WebEnds(t)
  /\ UNCHANGED <<told, conf, made, applied, gc, jobs, runner, cleaner, deaths>>

-----------------------------------------------------------------------------
(* prepare_apply and cancel: claim, read the record, and go on.             *)

MayClaimAnyway(i, why) == why = "apply" => ~claim[i]
MayClaim(i, why) == ~claim[i]

Claim(t) ==
  \E i \in Import, why \in {"apply", "cancel"} :
    /\ web[t] = Idle /\ told[i] \in {"preview", "cancelled"}
    /\ MayClaim(i, why)
    /\ NewClaim(i)
    /\ web' = [web EXCEPT ![t] = [at |-> "record", imp |-> i, why |-> why]]
    /\ UNCHANGED <<json, upload, born, written, told, conf, made, applied, gc, jobs, runner,
                   cleaner, deaths>>

(* _record: an expired preview is discarded on the way, its claim included; *)
(* a record with a plan is refused.                                        *)
ReadRecord(t) ==
  LET i == web[t].imp
  IN  /\ web[t].at = "record"
      /\ IF json[i] # "none" /\ Expired(i) /\ ~ActiveClaim(i)
           THEN web' = [web EXCEPT ![t] = [at |-> "json", imp |-> i, why |-> "expired"]]
           ELSE WebGoes(t, IF json[i] = "plain" THEN "uploaded" ELSE "unclaim")
      /\ UNCHANGED <<files, told, conf, made, applied, gc, jobs, runner, cleaner, deaths>>

(* The upload is there and unchanged; the choices for an apply may be       *)
(* invalid.                                                                *)
ReadUpload(t) ==
  /\ web[t].at = "uploaded"
  /\ \/ WebGoes(t, "unclaim") /\ (upload[web[t].imp] => web[t].why = "apply")
     \/ upload[web[t].imp] /\ web[t].why = "apply" /\ WebGoes(t, "write")
     \/ /\ upload[web[t].imp] /\ web[t].why = "cancel"
        /\ web' = [web EXCEPT ![t].at = "json", ![t].why = "cancelled"]
  /\ UNCHANGED <<files, told, conf, made, applied, gc, jobs, runner, cleaner, deaths>>

(* The plan is written into the record, or writing it raises.              *)
WritePlan(t) ==
  /\ web[t].at = "write"
  /\ \/ WriteRecord(web[t].imp, "claimed") /\ WebGoes(t, "start")
     \/ WebGoes(t, "unclaim") /\ UNCHANGED <<json, written>>
  /\ UNCHANGED <<upload, claim, born, held, told, conf, made, applied, gc, jobs, runner, cleaner,
                 deaths>>

WebDiscard(t) ==
  /\ web[t].at \in {"json", "upload", "claim"}
  /\ Unlink(web[t].imp, web[t].at)
  /\ WebGoes(t, AfterUnlink(web[t].at, "unclaim"))
  /\ UNCHANGED <<told, conf, made, applied, gc, jobs, runner, cleaner, deaths>>

(* The handler's last word: the claim is unlinked, whose ever it is by now. *)
(* A cancel that came here through its discard has succeeded.              *)
Unclaim(t) ==
  LET i == web[t].imp
  IN  /\ web[t].at = "unclaim"
      /\ Unlink(i, "claim")
      /\ told' = IF web[t].why = "cancelled" THEN [told EXCEPT ![i] = "cancelled"]
                                               ELSE told
      /\ WebEnds(t)
      /\ UNCHANGED <<conf, made, applied, gc, jobs, runner, cleaner, deaths>>

-----------------------------------------------------------------------------
(* apply_import: after prepare_apply the job is published and launched; if  *)
(* that raises and no job can know the import, the claim is released.       *)

Publish(t) ==
  LET i == web[t].imp
  IN  /\ web[t].at = "start"
      /\ \/ WebGoes(t, "failed") /\ UNCHANGED jobs
         \/ /\ ~Guarded /\ \A j \in Import : ~ActiveJob(j)
            /\ jobs' = [jobs EXCEPT ![i] = "queued"]
            /\ WebGoes(t, "launch")
      /\ UNCHANGED <<files, told, conf, made, applied, gc, runner, cleaner, deaths>>

(* A job that ended has its import discarded by a process of its own.      *)
JobEnds(i) ==
  /\ jobs' = [jobs EXCEPT ![i] = "ended"]
  /\ cleaner' = [cleaner EXCEPT ![i] = "json"]

(* systemd-run took it; or failed and the unit is known not to exist; or    *)
(* anything raises, the busy lock included.                                *)
LaunchJob(t) ==
  LET i == web[t].imp
  IN  /\ web[t].at = "launch"
      /\ \/ WebEnds(t) /\ UNCHANGED <<jobs, cleaner>>
         \/ WebGoes(t, "failed") /\ UNCHANGED <<jobs, cleaner>>
         \/ jobs[i] = "queued" /\ ~Guarded /\ JobEnds(i) /\ WebGoes(t, "failed")
      /\ UNCHANGED <<files, told, conf, made, applied, gc, runner, deaths>>

(* can_release_import, which says no when the lock is busy.                 *)
CanReleaseAnyway(i) == TRUE
CanRelease(i) == ~Guarded /\ jobs[i] \in {"none", "pruned"}

(* release_claim reads the record and the upload, without expiry.           *)
AskRelease(t) ==
  LET i == web[t].imp
  IN  /\ web[t].at = "failed"
      /\ \/ WebEnds(t)
         \/ CanRelease(i) /\ json[i] # "none" /\ upload[i] /\ WebGoes(t, "release")
      /\ UNCHANGED <<files, told, conf, made, applied, gc, jobs, runner, cleaner, deaths>>

ReleaseClaim(t) ==
  /\ web[t].at = "release"
  /\ WriteRecord(web[t].imp, "plain")
  /\ WebGoes(t, "unclaim")
  /\ UNCHANGED <<upload, claim, born, held, told, conf, made, applied, gc, jobs, runner, cleaner,
                 deaths>>

-----------------------------------------------------------------------------
(* _gc, for one import after the other.                                    *)

GcGoes(c, at) == gc' = [gc EXCEPT ![c].at = at]
GcEnds(c) == gc' = [gc EXCEPT ![c] = Idle]

(* The janitor of a runner lives as long as the runner.                     *)
Collects(c) == c = "web" \/ \E i \in Import : runner[i] \notin {"none", "dead"}

(* An O_EXCL claim, or a claim old enough to be taken over.                *)
GcClaim(c) ==
  \E i \in Import :
    /\ gc[c] = Idle /\ Collects(c)
    /\ json[i] # "none" \/ upload[i] \/ claim[i]
    /\ Outdated(i)
    /\ claim[i] => Stealable(i)
    /\ gc' = [gc EXCEPT ![c] =
         [at |-> IF claim[i] THEN "move" ELSE "read", imp |-> i, why |-> "gc"]]
    /\ IF claim[i] THEN UNCHANGED <<claim, held>> ELSE NewClaim(i)
    /\ UNCHANGED <<json, upload, born, written, told, conf, made, applied, web, jobs, runner,
                   cleaner, deaths>>

(* os.replace to a stale name takes whatever claim is there now; then our   *)
(* own, unless a concurrent claimant won the gap.                          *)
GcMove(c) ==
  LET i == gc[c].imp
  IN  /\ gc[c].at = "move"
      /\ Unlink(i, "claim")
      /\ IF claim[i] THEN GcGoes(c, "create") ELSE GcEnds(c)
      /\ UNCHANGED <<told, conf, made, applied, web, jobs, runner, cleaner, deaths>>

GcCreate(c) ==
  LET i == gc[c].imp
  IN  /\ gc[c].at = "create"
      /\ IF claim[i] THEN GcEnds(c) /\ UNCHANGED <<claim, held>>
                     ELSE GcGoes(c, "read") /\ NewClaim(i)
      /\ UNCHANGED <<json, upload, born, written, told, conf, made, applied, web, jobs, runner,
                     cleaner, deaths>>

GcRead(c) ==
  /\ gc[c].at = "read"
  /\ GcGoes(c, IF Protected(gc[c].imp) THEN "claim" ELSE "json")
  /\ UNCHANGED <<files, told, conf, made, applied, web, jobs, runner, cleaner, deaths>>

GcUnlink(c) ==
  /\ gc[c].at \in {"json", "upload", "claim"}
  /\ Unlink(gc[c].imp, gc[c].at)
  /\ IF gc[c].at = "claim" THEN GcEnds(c) ELSE GcGoes(c, AfterUnlink(gc[c].at, "idle"))
  /\ UNCHANGED <<told, conf, made, applied, web, jobs, runner, cleaner, deaths>>

-----------------------------------------------------------------------------
(* The job: its runner calls apply, then discard, whatever happened.        *)

RunnerGoes(i, at) == runner' = [runner EXCEPT ![i] = at]

RunnerBegins(i) ==
  /\ jobs[i] = "queued" /\ ~Guarded
  /\ jobs' = [jobs EXCEPT ![i] = "running"]
  /\ RunnerGoes(i, "read")
  /\ UNCHANGED <<files, told, conf, made, applied, web, gc, cleaner, deaths>>

(* _record again, and the plan must be there; an expired one is discarded,  *)
(* as it is after every failure.                                           *)
ApplyRead(i) ==
  /\ runner[i] = "read"
  /\ RunnerGoes(i, IF json[i] = "claimed" /\ upload[i] /\ (Expired(i) => ActiveClaim(i))
                     THEN "check" ELSE "json")
  /\ UNCHANGED <<files, told, conf, made, applied, web, gc, jobs, cleaner, deaths>>

(* The model is the one the candidate was made from; MosDNS's file, if the  *)
(* preview has a baseline of it, is still that.                            *)
Unmoved(i) ==
  /\ conf["model"] = made[i].read["model"]
  /\ "mosdns" \in DOMAIN made[i].base => conf["mosdns"] = made[i].base["mosdns"]

ApplyCheck(i) ==
  /\ runner[i] = "check"
  /\ RunnerGoes(i, IF Unmoved(i) THEN "commit" ELSE "json")
  /\ UNCHANGED <<files, told, conf, made, applied, web, gc, jobs, cleaner, deaths>>

(* What an import replaces; a bundle may be without a MosDNS configuration, *)
(* or it is not chosen.                                                    *)
Replaces(kind) ==
  CASE kind = "mosdns" -> {{"mosdns"}}
    [] kind = "mihomo" -> {{"model"}}
    [] kind = "pdg" -> {{"model"}, ConfFile}

(* The transaction expects the baselines of the files it replaces, and of   *)
(* no other (file_expects, model_expect, restore_from's expected).         *)
PinnedToNothing(i, replaced) == TRUE
PinnedTo(i, replaced) == \A f \in replaced : conf[f] = made[i].base[f]

ConfBecomes(new) ==
  /\ conf' = new
  /\ made' = IF new["model"] = conf["model"] THEN made
             ELSE [i \in Import |-> [made[i] EXCEPT !.moves = IF @ < MovesCap THEN @ + 1 ELSE @]]

ApplyCommit(i) ==
  /\ runner[i] = "commit"
  /\ RunnerGoes(i, "json")
  /\ \/ \E replaced \in Replaces(made[i].kind), new \in [ConfFile -> Content] :
          /\ PinnedTo(i, replaced)
          /\ \A f \in ConfFile \ replaced : new[f] = conf[f]
          /\ applied' = applied \cup {i}
          /\ ConfBecomes(new)
     \/ UNCHANGED <<applied, conf, made>>
  /\ UNCHANGED <<files, told, web, gc, jobs, cleaner, deaths>>

RunnerDiscard(i) ==
  /\ runner[i] \in {"json", "upload", "claim"}
  /\ Unlink(i, runner[i])
  /\ RunnerGoes(i, AfterUnlink(runner[i], "finish"))
  /\ UNCHANGED <<told, conf, made, applied, web, gc, jobs, cleaner, deaths>>

RunnerFinishes(i) ==
  /\ runner[i] = "finish" /\ ~Guarded
  /\ JobEnds(i)
  /\ RunnerGoes(i, "none")
  /\ gc' = [gc EXCEPT !["runner"] = Idle]
  /\ UNCHANGED <<files, told, conf, made, applied, web, deaths>>

(* _reconcile: a queued job that never ran, or one whose runner is dead.   *)
Interrupt(i) ==
  /\ \/ jobs[i] = "queued"
     \/ jobs[i] = "running" /\ runner[i] = "dead"
  /\ ~Guarded
  /\ JobEnds(i)
  /\ RunnerGoes(i, "none")
  /\ UNCHANGED <<files, told, conf, made, applied, web, gc, deaths>>

(* Terminal records are pruned when there are 50 younger ones, long after   *)
(* the handler and the processes of this one are gone.                      *)
Forgotten(i) ==
  /\ jobs[i] = "ended" /\ cleaner[i] = "none"
  /\ \A t \in Worker : web[t].at \in {"launch", "failed"} => web[t].imp # i
  /\ jobs' = [jobs EXCEPT ![i] = "pruned"]
  /\ UNCHANGED <<files, told, conf, made, applied, web, gc, runner, cleaner, deaths>>

CleanerDiscard(i) ==
  /\ cleaner[i] # "none"
  /\ Unlink(i, cleaner[i])
  /\ cleaner' = [cleaner EXCEPT ![i] = AfterUnlink(@, "none")]
  /\ UNCHANGED <<told, conf, made, applied, web, gc, jobs, runner, deaths>>

-----------------------------------------------------------------------------
(* The environment.                                                        *)

(* Another editor replaces a file: a transaction of the bot or the panel, or *)
(* pdg hijack-mode. Two files of one transaction are two edits.            *)
EditConf ==
  /\ \E f \in ConfFile, data \in Content : ConfBecomes([conf EXCEPT ![f] = data])
  /\ UNCHANGED <<files, told, applied, workers, deaths>>

Dies == deaths < MaxDeaths /\ deaths' = deaths + 1

WebServerDies ==
  /\ Dies
  /\ web' = [t \in Worker |-> Idle]
  /\ gc' = [gc EXCEPT !["web"] = Idle]
  /\ UNCHANGED <<files, told, conf, made, applied, jobs, runner, cleaner>>

RunnerOfDies(i) ==
  /\ Dies
  /\ runner[i] \notin {"none", "dead"}
  /\ RunnerGoes(i, "dead")
  /\ gc' = [gc EXCEPT !["runner"] = Idle]
  /\ UNCHANGED <<files, told, conf, made, applied, web, jobs, cleaner>>

CleanerDies(i) ==
  /\ Dies
  /\ cleaner[i] # "none"
  /\ cleaner' = [cleaner EXCEPT ![i] = "none"]
  /\ UNCHANGED <<files, told, conf, made, applied, web, gc, jobs, runner>>

(* A handler or collector is done with its import before its claim is old  *)
(* enough to be taken over; an upload before it is out of date.            *)
InTime ==
  /\ \A t \in Worker : web[t] # Idle =>
       IF web[t].at \in {"reading", "recording"} THEN born[web[t].imp] < PreviewTTL
       ELSE held[web[t].imp] + 1 < ClaimTTL
  /\ \A c \in Collector : gc[c].at \in {"read", "json", "upload", "claim"} =>
       held[gc[c].imp] + 1 < ClaimTTL

TimePasses ==
  /\ InTime
  /\ born' = [i \in Import |-> Older(born[i])]
  /\ written' = [i \in Import |-> Older(written[i])]
  /\ held' = [i \in Import |-> Older(held[i])]
  /\ UNCHANGED <<json, upload, claim, told, conf, made, applied, workers, deaths>>

-----------------------------------------------------------------------------
(* What a thread does once it is in a handler.                             *)
WebStep(t) ==
  PreviewRead(t) \/ PreviewRecord(t) \/ PreviewFails(t) \/ ReadRecord(t) \/ ReadUpload(t)
    \/ WritePlan(t) \/ WebDiscard(t) \/ Unclaim(t) \/ Publish(t) \/ LaunchJob(t) \/ AskRelease(t)
    \/ ReleaseClaim(t)

GcStep(c) == GcClaim(c) \/ GcMove(c) \/ GcCreate(c) \/ GcRead(c) \/ GcUnlink(c)

RunnerStep(i) ==
  ApplyRead(i) \/ ApplyCheck(i) \/ ApplyCommit(i) \/ RunnerDiscard(i) \/ RunnerFinishes(i)

ImportNext ==
  \/ \E t \in Worker : Preview(t) \/ Claim(t) \/ WebStep(t)
  \/ \E c \in Collector : GcStep(c)
  \/ \E i \in Import : RunnerBegins(i) \/ RunnerStep(i) \/ Interrupt(i) \/ Forgotten(i)
                         \/ CleanerDiscard(i) \/ RunnerOfDies(i) \/ CleanerDies(i)
  \/ EditConf \/ WebServerDies \/ TimePasses

(* Handlers and processes go on, a dead job is noticed, time passes, and    *)
(* the web server's janitor comes round every minute: nobody's requests are *)
(* in its way every time.                                                  *)
ImportFairness ==
  /\ \A t \in Worker : WF_importVars(WebStep(t))
  /\ SF_importVars(GcStep("web"))
  /\ \A i \in Import : WF_importVars(RunnerStep(i)) /\ WF_importVars(Interrupt(i))
  /\ WF_importVars(TimePasses)

ImportSpec == ImportInit /\ [][ImportNext]_importVars
FairImportSpec == ImportSpec /\ ImportFairness

-----------------------------------------------------------------------------
(* Properties.                                                             *)

(* The comment in prepare_apply: a concurrent removal must not let a late   *)
(* writer recreate the metadata of an upload that is gone; nobody could     *)
(* apply it, and it would hold the node's credentials.                     *)
RecordHasUpload == \A i \in Import : json[i] # "none" => upload[i]

(* A preview that the user was told is cancelled is never applied: no job   *)
(* holds it, and it never was.                               *)
CancelledIsGone ==
  \A i \in Import : told[i] = "cancelled" =>
    i \notin applied /\ ~ActiveJob(i) /\ json[i] = "none"

(* Collection does not take the files of an accepted import away from its  *)
(* job within the two hours it is protected.                               *)
JobHasItsFiles ==
  \A i \in Import :
    /\ jobs[i] = "queued" \/ runner[i] \in {"read", "check"}
    /\ written[i] < ClaimTTL
    => json[i] = "claimed" /\ upload[i]

(* An import is applied at most once, and what it replaces is what its      *)
(* preview was made of, whatever other editors do meanwhile.  The model it  *)
(* overwrites is the one it was merged with, unless that was changed,       *)
(* changed back and changed again behind its two comparisons; MosDNS's file *)
(* is the one whose identity and mode it carries, unless it was changed     *)
(* between that reading and the baseline's.  A file the import does not     *)
(* replace is not pinned, and it is not overwritten.                       *)
AppliedAsPreviewed ==
  [][\A i \in Import : runner[i] = "commit" /\ i \in applied' =>
       /\ i \notin applied
       /\ conf'["model"] # conf["model"] /\ made[i].moves < MovesCap
            => conf["model"] = made[i].read["model"]
       /\ conf'["mosdns"] # conf["mosdns"] /\ made[i].base["mosdns"] = made[i].read["mosdns"]
            => conf["mosdns"] = made[i].read["mosdns"]]_importVars

(* Staged secrets are removed in the end, whoever died holding the claim.   *)
ImportsCleaned == \A i \in Import : []<>(~upload[i] /\ json[i] = "none")
=============================================================================
