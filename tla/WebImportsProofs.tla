-------------------------- MODULE WebImportsProofs --------------------------
(***************************************************************************)
(* Theorems about WebImports, for any imports, threads, time limits and     *)
(* deaths: what is staged is whole, a cancelled preview is gone, a job      *)
(* keeps its files, and what is applied is what was previewed.  The claim   *)
(* is no lock: it is taken over, and unlinked by whoever thinks it is his.  *)
(* The invariant says when holding it does mean to be alone.               *)
(***************************************************************************)
EXTENDS WebImports, TLAPS

Record == {"none", "plain", "claimed"}
Told == {"nothing", "uploading", "preview", "cancelled"}
WebPlace == {"idle", "reading", "recording", "record", "uploaded", "write", "start", "launch",
             "failed", "release", "json", "upload", "claim", "unclaim"}
Why == {"none", "preview", "apply", "cancel", "expired", "cancelled", "gc"}
GcPlace == {"idle", "move", "create", "read", "json", "upload", "claim"}
JobState == {"none", "queued", "running", "ended", "pruned"}
RunPlace == {"none", "dead", "read", "check", "commit", "json", "upload", "claim", "finish"}
CleanPlace == {"none", "json", "upload", "claim"}

WebOf == [at : WebPlace, imp : Import \cup {NoImport}, why : Why]
GcOf == [at : GcPlace, imp : Import \cup {NoImport}, why : Why]

(* What a preview may have read.                                           *)
Readings == UNION {[S -> Content] : S \in SUBSET ConfFile}
MadeOf == [kind : ImportKind \cup {"none"}, read : Readings, base : Readings, moves : 0..MovesCap]

FilesOK ==
  /\ json \in [Import -> Record]
  /\ upload \in [Import -> BOOLEAN] /\ claim \in [Import -> BOOLEAN]
  /\ born \in [Import -> Nat] /\ written \in [Import -> Nat] /\ held \in [Import -> Nat]

WebOK ==
  /\ web \in [Worker -> WebOf]
  /\ \A t \in Worker : IF web[t].at = "idle" THEN web[t] = Idle ELSE web[t].imp \in Import

GcOK ==
  /\ gc \in [Collector -> GcOf]
  /\ \A c \in Collector : IF gc[c].at = "idle" THEN gc[c] = Idle ELSE gc[c].imp \in Import

JobsOK ==
  /\ jobs \in [Import -> JobState]
  /\ runner \in [Import -> RunPlace] /\ cleaner \in [Import -> CleanPlace]

TellingOK ==
  /\ told \in [Import -> Told]
  /\ conf \in [ConfFile -> Content] /\ made \in [Import -> MadeOf]
  /\ applied \subseteq Import

TypesOK == FilesOK /\ WebOK /\ GcOK /\ JobsOK /\ TellingOK

(* A job's record, its runner and its cleaner.                             *)
JobParts ==
  \A i \in Import :
    /\ jobs[i] = "none" => i \notin applied
    /\ (runner[i] # "none") <=> (jobs[i] = "running")
    /\ cleaner[i] # "none" => jobs[i] = "ended"

Previewing(t) == web[t].at \in {"reading", "recording"}

(* Until a preview is shown, its thread is the only one that knows of it.  *)
Unseen ==
  /\ \A t, u \in Worker : Previewing(t) /\ Previewing(u) => t = u
  /\ \A t \in Worker : web[t].at # "idle" =>
       IF Previewing(t) THEN told[web[t].imp] = "uploading"
                        ELSE told[web[t].imp] \in {"preview", "cancelled"}
  /\ \A i \in Import : told[i] \in {"nothing", "uploading"} =>
       json[i] = "none" /\ jobs[i] = "none"

(* What is applied has a job that is past its commit.                      *)
Once ==
  \A i \in Import : i \in applied =>
    /\ jobs[i] \in {"running", "ended", "pruned"}
    /\ runner[i] \notin {"read", "check", "commit"}

(* The model, what a preview read of it, and how often it changed since.    *)
Since(i) ==
  /\ made[i].moves = 0 => conf["model"] = made[i].read["model"]
  /\ made[i].moves = 1 => conf["model"] # made[i].read["model"]

(* Another baseline than what was read has been written in between; and if  *)
(* that passed the check, the model was changed back.                      *)
Stale(i) == made[i].base["model"] # made[i].read["model"]
ShownStale(i) == told[i] \in {"preview", "cancelled"} /\ Stale(i) => made[i].moves >= 1
CheckedStale(i) ==
  runner[i] = "commit" /\ Stale(i) =>
    /\ made[i].moves >= 2
    /\ conf["model"] # made[i].read["model"] => made[i].moves >= 3

Tracked == \A i \in Import : Since(i) /\ ShownStale(i) /\ CheckedStale(i)

(* What the collectors may not find.                                       *)
Untouched ==
  /\ \A i \in Import : told[i] = "nothing" =>
       /\ ~upload[i] /\ ~claim[i]
       /\ \A c \in Collector : gc[c].imp # i
  /\ \A t \in Worker : Previewing(t) =>
       /\ upload[web[t].imp] /\ ~claim[web[t].imp] /\ born[web[t].imp] <= PreviewTTL
       /\ \A c \in Collector : gc[c].imp # web[t].imp

(* Time: a record is as old as its import at most, and no handler is slow.  *)
InGoodTime ==
  /\ \A i \in Import : json[i] # "none" => written[i] <= born[i]
  /\ \A t \in Worker : web[t].at # "idle" /\ ~Previewing(t) => held[web[t].imp] < ClaimTTL

(* Nobody else has to do with the import of a handler, and it has no job.   *)
Alone(t) ==
  /\ claim[web[t].imp] /\ jobs[web[t].imp] = "none"
  /\ \A u \in Worker : u # t => web[u].imp # web[t].imp
  /\ \A c \in Collector : gc[c].imp # web[t].imp

(* The places where a handler relies on that.                              *)
Unpublished(t) ==
  \/ web[t].at \in {"start", "release"}
  \/ web[t].at = "failed" /\ jobs[web[t].imp] = "none"
Cancelling(t) == web[t].why = "cancelled" /\ web[t].at \in {"json", "upload", "claim"}
Holding(t) == web[t].at \in {"uploaded", "write"} \/ Unpublished(t) \/ Cancelling(t)

(* The claim of a preview that has not expired is a lock.                   *)
Fresh(i) == json[i] = "plain" /\ ~Expired(i)
HoldersAlone == \A t \in Worker : Holding(t) => Alone(t)
FreshAlone == \A t \in Worker : web[t].imp \in Import /\ Fresh(web[t].imp) => Alone(t)
FreshKept == \A i \in Import : Fresh(i) => \A c \in Collector : gc[c].imp # i

(* What a handler knows of the files.                                      *)
Known ==
  \A t \in Worker :
    /\ web[t].at \in {"uploaded", "write"} => json[web[t].imp] = "plain"
    /\ Unpublished(t) => json[web[t].imp] = "claimed"
    /\ (web[t].at = "write" \/ Unpublished(t)) => upload[web[t].imp]
    /\ web[t].at \in {"launch", "failed"} => jobs[web[t].imp] # "pruned"
    /\ web[t].at = "launch" => jobs[web[t].imp] # "none"

(* The record goes before the upload does, and before a cancel is told.    *)
Emptied ==
  /\ \A t \in Worker : web[t].at \in {"upload", "claim"} => json[web[t].imp] = "none"
  /\ \A t \in Worker : web[t].why = "cancelled" =>
       \/ Cancelling(t)
       \/ web[t].at = "unclaim" /\ json[web[t].imp] = "none" /\ jobs[web[t].imp] = "none"
  /\ \A c \in Collector : gc[c].at = "upload" => json[gc[c].imp] = "none"
  /\ \A i \in Import : "upload" \in {runner[i], cleaner[i]} => json[i] = "none"
  /\ \A i \in Import : told[i] = "cancelled" => json[i] = "none" /\ jobs[i] = "none"

(* A record that can be applied has no job, one that has is not applied.    *)
PlainHasNoJob == \A i \in Import : json[i] = "plain" => jobs[i] = "none"

(* Nobody removes the files of a job that has not read them.                *)
Waiting(i) == (jobs[i] = "queued" \/ runner[i] \in {"read", "check"}) /\ written[i] < ClaimTTL
Spared ==
  \A i \in Import : Waiting(i) =>
    /\ json[i] = "claimed" /\ upload[i]
    /\ \A t \in Worker : web[t].imp = i => web[t].at \notin {"json", "upload"}
    /\ \A c \in Collector : gc[c].imp = i => gc[c].at \notin {"json", "upload"}

Rest ==
  /\ Unseen /\ Once /\ Untouched /\ InGoodTime /\ HoldersAlone
  /\ FreshAlone /\ FreshKept /\ Known /\ Emptied /\ PlainHasNoJob /\ RecordHasUpload /\ Spared

ImportInv == TypesOK /\ JobParts /\ Tracked /\ Rest

-----------------------------------------------------------------------------
(* The parts of a step.                                                    *)

(* unlink of one file.                                                     *)
LEMMA Unlinking ==
  ASSUME FilesOK, NEW i \in Import, NEW suffix \in {"json", "upload", "claim"},
         Unlink(i, suffix)
  PROVE  /\ FilesOK' /\ UNCHANGED <<born, written, held>>
         /\ json'[i] = IF suffix = "json" THEN "none" ELSE json[i]
         /\ upload'[i] = (upload[i] /\ suffix # "upload")
         /\ claim'[i] = (claim[i] /\ suffix # "claim")
         /\ suffix # "json" => json' = json
         /\ suffix # "upload" => upload' = upload
         /\ suffix # "claim" => claim' = claim
         /\ \A j \in Import \ {i} :
              json'[j] = json[j] /\ upload'[j] = upload[j] /\ claim'[j] = claim[j]
BY DEF Unlink, FilesOK, Record

(* The record written or rewritten.                                        *)
LEMMA Recording ==
  ASSUME FilesOK, NEW i \in Import, NEW kind \in {"plain", "claimed"}, WriteRecord(i, kind)
  PROVE  /\ json' \in [Import -> Record] /\ written' \in [Import -> Nat]
         /\ json'[i] = kind /\ written'[i] = 0
         /\ \A j \in Import \ {i} : json'[j] = json[j] /\ written'[j] = written[j]
BY DEF WriteRecord, FilesOK, Record

(* The claim file created.                                                 *)
LEMMA Claiming ==
  ASSUME FilesOK, NEW i \in Import, NewClaim(i)
  PROVE  /\ claim' \in [Import -> BOOLEAN] /\ held' \in [Import -> Nat]
         /\ claim'[i] /\ held'[i] = 0
         /\ \A j \in Import \ {i} : claim'[j] = claim[j] /\ held'[j] = held[j]
BY DEF NewClaim, FilesOK

(* What the moves of a thread do.                                          *)
LEMMA WebMoves ==
  ASSUME WebOK, NEW t \in Worker
  PROVE  /\ \A at \in WebPlace \ {"idle"} : WebGoes(t, at) /\ web[t].at # "idle" =>
              /\ WebOK' /\ web'[t].at = at /\ web'[t].imp = web[t].imp
              /\ web'[t].why = web[t].why
              /\ \A u \in Worker \ {t} : web'[u] = web[u]
         /\ \A at \in WebPlace \ {"idle"}, i \in Import, why \in Why :
              web' = [web EXCEPT ![t] = [at |-> at, imp |-> i, why |-> why]] =>
                /\ WebOK' /\ web'[t].at = at /\ web'[t].imp = i /\ web'[t].why = why
                /\ \A u \in Worker \ {t} : web'[u] = web[u]
         /\ web' = [web EXCEPT ![t].at = "json", ![t].why = "cancelled"] /\ web[t].at # "idle" =>
              /\ WebOK' /\ web'[t].at = "json" /\ web'[t].imp = web[t].imp
              /\ web'[t].why = "cancelled"
              /\ \A u \in Worker \ {t} : web'[u] = web[u]
         /\ WebEnds(t) =>
              /\ WebOK' /\ web'[t] = Idle /\ web'[t].at = "idle" /\ web'[t].imp = NoImport
              /\ web'[t].why = "none"
              /\ \A u \in Worker \ {t} : web'[u] = web[u]
<1>1. ASSUME NEW at \in WebPlace \ {"idle"}, WebGoes(t, at), web[t].at # "idle"
      PROVE  /\ WebOK' /\ web'[t].at = at /\ web'[t].imp = web[t].imp
             /\ web'[t].why = web[t].why
             /\ \A u \in Worker \ {t} : web'[u] = web[u]
  BY <1>1 DEF WebGoes, WebOK, WebOf
<1>2. ASSUME NEW at \in WebPlace \ {"idle"}, NEW i \in Import, NEW why \in Why,
             web' = [web EXCEPT ![t] = [at |-> at, imp |-> i, why |-> why]]
      PROVE  /\ WebOK' /\ web'[t].at = at /\ web'[t].imp = i /\ web'[t].why = why
             /\ \A u \in Worker \ {t} : web'[u] = web[u]
  BY <1>2 DEF WebOK, WebOf
<1>3. ASSUME web' = [web EXCEPT ![t].at = "json", ![t].why = "cancelled"], web[t].at # "idle"
      PROVE  /\ WebOK' /\ web'[t].at = "json" /\ web'[t].imp = web[t].imp
             /\ web'[t].why = "cancelled"
             /\ \A u \in Worker \ {t} : web'[u] = web[u]
  BY <1>3 DEF WebOK, WebOf, WebPlace, Why
<1>4. ASSUME WebEnds(t)
      PROVE  /\ WebOK' /\ web'[t] = Idle /\ web'[t].at = "idle" /\ web'[t].imp = NoImport
             /\ web'[t].why = "none"
             /\ \A u \in Worker \ {t} : web'[u] = web[u]
  BY <1>4 DEF WebEnds, WebOK, WebOf, Idle, WebPlace, Why
<1> QED
  BY <1>1, <1>2, <1>3, <1>4

(* What the moves of a collector do.                                       *)
LEMMA GcMoves ==
  ASSUME GcOK, NEW c \in Collector
  PROVE  /\ \A at \in GcPlace \ {"idle"} : GcGoes(c, at) /\ gc[c].at # "idle" =>
              /\ GcOK' /\ gc'[c].at = at /\ gc'[c].imp = gc[c].imp
              /\ \A d \in Collector \ {c} : gc'[d] = gc[d]
         /\ \A at \in GcPlace \ {"idle"}, i \in Import :
              gc' = [gc EXCEPT ![c] = [at |-> at, imp |-> i, why |-> "gc"]] =>
                /\ GcOK' /\ gc'[c].at = at /\ gc'[c].imp = i
                /\ \A d \in Collector \ {c} : gc'[d] = gc[d]
         /\ gc' = [gc EXCEPT ![c] = Idle] =>
              /\ GcOK' /\ gc'[c] = Idle /\ gc'[c].at = "idle" /\ gc'[c].imp = NoImport
              /\ \A d \in Collector \ {c} : gc'[d] = gc[d]
<1>1. ASSUME NEW at \in GcPlace \ {"idle"}, GcGoes(c, at), gc[c].at # "idle"
      PROVE  /\ GcOK' /\ gc'[c].at = at /\ gc'[c].imp = gc[c].imp
             /\ \A d \in Collector \ {c} : gc'[d] = gc[d]
  BY <1>1 DEF GcGoes, GcOK, GcOf
<1>2. ASSUME NEW at \in GcPlace \ {"idle"}, NEW i \in Import,
             gc' = [gc EXCEPT ![c] = [at |-> at, imp |-> i, why |-> "gc"]]
      PROVE  /\ GcOK' /\ gc'[c].at = at /\ gc'[c].imp = i
             /\ \A d \in Collector \ {c} : gc'[d] = gc[d]
  BY <1>2 DEF GcOK, GcOf, Why
<1>3. ASSUME gc' = [gc EXCEPT ![c] = Idle]
      PROVE  /\ GcOK' /\ gc'[c] = Idle /\ gc'[c].at = "idle" /\ gc'[c].imp = NoImport
             /\ \A d \in Collector \ {c} : gc'[d] = gc[d]
  BY <1>3 DEF GcOK, GcOf, Idle, GcPlace, Why
<1> QED
  BY <1>1, <1>2, <1>3

-----------------------------------------------------------------------------
(* Types.                                                                  *)
(* Before its preview an import is made of nothing.                         *)
LEMMA UnmadeType ==
  /\ Unmade \in MadeOf /\ Unmade.moves = MovesCap
  /\ \A kind \in ImportKind :
       [Unmade EXCEPT !.kind = kind] \in MadeOf /\ [Unmade EXCEPT !.kind = kind].moves = MovesCap
<1>1. NoFiles \in Readings
  <2>1. NoFiles \in [{} -> Content] /\ {} \in SUBSET ConfFile
    BY DEF NoFiles
  <2> QED
    BY <2>1 DEF Readings
<1> QED
  BY <1>1 DEF Unmade, MadeOf, MovesCap

(* What a preview reads, it may have read.                                 *)
LEMMA SnapshotType ==
  ASSUME TellingOK, NEW i \in Import
  PROVE  /\ Snapshot(i) \in Readings
         /\ Snapshot(i)["model"] = conf["model"]
<1>1. Previewed(made[i].kind) \in SUBSET ConfFile /\ "model" \in Previewed(made[i].kind)
  BY DEF Previewed, ConfFile
<1>2. conf \in [ConfFile -> Content]
  BY DEF TellingOK
<1>3. Snapshot(i) \in [Previewed(made[i].kind) -> Content]
  BY <1>1, <1>2 DEF Snapshot
<1> QED
  BY <1>1, <1>3 DEF Snapshot, Readings

(* What an edit does to what is known of the previews.                     *)
LEMMA Editing ==
  ASSUME TellingOK, NEW new \in [ConfFile -> Content], ConfBecomes(new)
  PROVE  /\ conf' \in [ConfFile -> Content] /\ made' \in [Import -> MadeOf]
         /\ \A i \in Import :
              /\ made'[i].read = made[i].read /\ made'[i].base = made[i].base
              /\ made'[i].moves = IF conf'["model"] = conf["model"] THEN made[i].moves
                                  ELSE IF made[i].moves < 3 THEN made[i].moves + 1
                                  ELSE made[i].moves
<1>1. made \in [Import -> MadeOf] /\ conf' = new
  BY DEF TellingOK, ConfBecomes
<1>2. CASE new["model"] = conf["model"]
  BY <1>1, <1>2 DEF ConfBecomes
<1>3. CASE new["model"] # conf["model"]
  <2>1. made' = [i \in Import |->
                   [made[i] EXCEPT !.moves = IF @ < MovesCap THEN @ + 1 ELSE @]]
    BY <1>3 DEF ConfBecomes
  <2>2. ASSUME NEW i \in Import
        PROVE  /\ made'[i] \in MadeOf
               /\ made'[i].read = made[i].read /\ made'[i].base = made[i].base
               /\ made'[i].moves = IF made[i].moves < 3 THEN made[i].moves + 1
                                   ELSE made[i].moves
    <3>1. made[i] \in MadeOf
      BY <1>1
    <3> QED
      BY <2>1, <3>1 DEF MadeOf, MovesCap
  <2> QED
    BY <1>1, <1>3, <2>1, <2>2
<1> QED
  BY <1>2, <1>3

LEMMA InitTypes == ImportInit => TypesOK
<1> USE DEF Record, Told, WebPlace, Why, GcPlace, JobState, RunPlace, CleanPlace
<1>1. ImportInit => FilesOK
  BY DEF ImportInit, FilesOK
<1>2. ImportInit => WebOK /\ GcOK
  BY DEF ImportInit, WebOK, GcOK, WebOf, GcOf, Idle
<1>3. ImportInit => JobsOK
  BY DEF ImportInit, JobsOK
<1>4. ImportInit => TellingOK
  BY UnmadeType DEF ImportInit, TellingOK
<1> QED
  BY <1>1, <1>2, <1>3, <1>4 DEF TypesOK

(* A busy thread has an import.                                            *)
LEMMA Busy ==
  ASSUME WebOK, NEW t \in Worker, web[t].at # "idle"
  PROVE  web[t].imp \in Import
BY DEF WebOK

(* The types of the files: every writer keeps them.                        *)
LEMMA StepFiles ==
  ASSUME TypesOK, [ImportNext]_importVars
  PROVE  FilesOK'
<1>0. FilesOK /\ WebOK /\ GcOK /\ JobsOK
  BY DEF TypesOK
<1>1. ASSUME UNCHANGED files
      PROVE  FilesOK'
  BY <1>0, <1>1 DEF files, FilesOK
<1>2. ASSUME NEW t \in Worker, Preview(t) \/ Claim(t)
      PROVE  FilesOK'
  <2>1. CASE Preview(t)
    BY <1>0, <2>1 DEF Preview, FilesOK
  <2>2. CASE Claim(t)
    <3>1. PICK i \in Import : NewClaim(i) /\ UNCHANGED <<json, upload, born, written>>
      BY <2>2 DEF Claim
    <3> QED
      BY <1>0, <3>1, Claiming DEF FilesOK
  <2> QED
    BY <1>2, <2>1, <2>2
<1>3. ASSUME NEW t \in Worker, PreviewRecord(t) \/ WritePlan(t) \/ ReleaseClaim(t)
      PROVE  FilesOK'
  <2>1. web[t].imp \in Import
    BY <1>0, <1>3, Busy DEF PreviewRecord, WritePlan, ReleaseClaim
  <2> QED
    BY <1>0, <1>3, <2>1, Recording DEF PreviewRecord, WritePlan, ReleaseClaim, FilesOK
<1>4. ASSUME NEW t \in Worker, PreviewFails(t) \/ WebDiscard(t) \/ Unclaim(t)
      PROVE  FilesOK'
  <2>1. web[t].imp \in Import
    BY <1>0, <1>4, Busy DEF PreviewFails, WebDiscard, Unclaim
  <2> QED
    BY <1>0, <1>4, <2>1, Unlinking DEF PreviewFails, WebDiscard, Unclaim
<1>5. ASSUME NEW t \in Worker, PreviewRead(t) \/ ReadRecord(t) \/ ReadUpload(t) \/ Publish(t)
                                 \/ LaunchJob(t) \/ AskRelease(t)
      PROVE  UNCHANGED files
  BY <1>5 DEF PreviewRead, ReadRecord, ReadUpload, Publish, LaunchJob, AskRelease
<1>6. ASSUME NEW c \in Collector, GcStep(c)
      PROVE  FilesOK'
  <2>1. CASE GcClaim(c)
    BY <1>0, <2>1, Claiming DEF GcClaim, FilesOK
  <2>2. ASSUME gc[c].at # "idle"
        PROVE  gc[c].imp \in Import
    BY <1>0, <2>2 DEF GcOK
  <2>3. CASE GcMove(c) \/ GcUnlink(c)
    BY <1>0, <2>2, <2>3, Unlinking DEF GcMove, GcUnlink
  <2>4. CASE GcCreate(c)
    BY <1>0, <2>2, <2>4, Claiming DEF GcCreate, FilesOK
  <2>5. CASE GcRead(c)
    BY <1>1, <2>5 DEF GcRead
  <2> QED
    BY <1>6, <2>1, <2>3, <2>4, <2>5 DEF GcStep
<1>7. ASSUME NEW i \in Import, RunnerDiscard(i) \/ CleanerDiscard(i)
      PROVE  FilesOK'
  <2>1. cleaner[i] # "none" => cleaner[i] \in {"json", "upload", "claim"}
    BY <1>0 DEF JobsOK, CleanPlace
  <2> QED
    BY <1>0, <1>7, <2>1, Unlinking DEF RunnerDiscard, CleanerDiscard
<1>8. ASSUME NEW i \in Import, RunnerBegins(i) \/ ApplyRead(i) \/ ApplyCheck(i) \/ ApplyCommit(i)
               \/ RunnerFinishes(i) \/ Interrupt(i) \/ Forgotten(i) \/ RunnerOfDies(i)
               \/ CleanerDies(i)
      PROVE  UNCHANGED files
  BY <1>8 DEF RunnerBegins, ApplyRead, ApplyCheck, ApplyCommit, RunnerFinishes, Interrupt,
     Forgotten, RunnerOfDies, CleanerDies
<1>9. CASE EditConf \/ WebServerDies
  BY <1>1, <1>9 DEF EditConf, WebServerDies
<1>10. CASE TimePasses
  <2>1. AgeCap \in Nat
    BY ImportAssumption DEF AgeCap
  <2>2. \A n \in Nat : Older(n) \in Nat
    BY <2>1 DEF Older
  <2> QED
    BY <1>0, <1>10, <2>2 DEF TimePasses, FilesOK
<1>11. CASE UNCHANGED importVars
  BY <1>1, <1>11 DEF importVars
<1> QED
  BY <1>1, <1>2, <1>3, <1>4, <1>5, <1>6, <1>7, <1>8, <1>9, <1>10, <1>11
     DEF ImportNext, WebStep, RunnerStep

(* A thread's step, and where it takes it.                                 *)
LEMMA StepWeb ==
  ASSUME TypesOK, [ImportNext]_importVars
  PROVE  WebOK'
<1>0. WebOK
  BY DEF TypesOK
<1> USE DEF WebPlace, Why
<1>1. ASSUME UNCHANGED web
      PROVE  WebOK'
  BY <1>0, <1>1 DEF WebOK
<1>2. ASSUME NEW t \in Worker, Preview(t) \/ Claim(t)
      PROVE  WebOK'
  <2>1. PICK at \in {"reading", "record"}, i \in Import, why \in Why :
          web' = [web EXCEPT ![t] = [at |-> at, imp |-> i, why |-> why]]
    BY <1>2 DEF Preview, Claim
  <2> QED
    BY <1>0, <2>1, WebMoves
<1>3. ASSUME NEW t \in Worker, \/ PreviewRead(t) \/ PreviewRecord(t) \/ PreviewFails(t)
                               \/ WritePlan(t) \/ Unclaim(t) \/ Publish(t) \/ AskRelease(t)
                               \/ LaunchJob(t) \/ ReleaseClaim(t)
      PROVE  WebOK'
  BY <1>0, <1>3, WebMoves DEF PreviewRead, PreviewRecord, PreviewFails, WritePlan, Unclaim,
     Publish, AskRelease, LaunchJob, ReleaseClaim
<1>4. ASSUME NEW t \in Worker, ReadRecord(t) \/ ReadUpload(t)
      PROVE  WebOK'
  <2>1. web[t].imp \in Import
    BY <1>0, <1>4, Busy DEF ReadRecord, ReadUpload
  <2> QED
    BY <1>0, <1>4, <2>1, WebMoves DEF ReadRecord, ReadUpload
<1>5. ASSUME NEW t \in Worker, WebDiscard(t)
      PROVE  WebOK'
  <2>1. AfterUnlink(web[t].at, "unclaim") \in WebPlace \ {"idle"}
    BY <1>5 DEF WebDiscard, AfterUnlink
  <2> QED
    BY <1>0, <1>5, <2>1, WebMoves DEF WebDiscard
<1>6. ASSUME NEW c \in Collector, GcStep(c)
      PROVE  UNCHANGED web
  BY <1>6 DEF GcStep, GcClaim, GcMove, GcCreate, GcRead, GcUnlink
<1>7. ASSUME NEW i \in Import, RunnerBegins(i) \/ RunnerStep(i) \/ Interrupt(i) \/ Forgotten(i)
               \/ CleanerDiscard(i) \/ RunnerOfDies(i) \/ CleanerDies(i)
      PROVE  UNCHANGED web
  BY <1>7 DEF RunnerBegins, RunnerStep, ApplyRead, ApplyCheck, ApplyCommit, RunnerDiscard,
     RunnerFinishes, Interrupt, Forgotten, CleanerDiscard, RunnerOfDies, CleanerDies
<1>8. CASE EditConf \/ TimePasses \/ UNCHANGED importVars
  BY <1>1, <1>8 DEF EditConf, TimePasses, importVars, workers
<1>9. CASE WebServerDies
  BY <1>9 DEF WebServerDies, WebOK, WebOf, Idle
<1> QED
  BY <1>1, <1>2, <1>3, <1>4, <1>5, <1>6, <1>7, <1>8, <1>9 DEF ImportNext, WebStep

(* What the processes of a job do, and what they leave alone.              *)
JobStep(i) ==
  \/ RunnerBegins(i) \/ RunnerStep(i) \/ Interrupt(i) \/ Forgotten(i) \/ CleanerDiscard(i)
  \/ RunnerOfDies(i) \/ CleanerDies(i)

(* What the steps of each actor leave alone.                               *)
LEMMA Frames ==
  /\ \A t \in Worker : Preview(t) \/ Claim(t) \/ WebStep(t) =>
       UNCHANGED <<gc, runner, applied, deaths>>
  /\ \A c \in Collector : GcStep(c) =>
       UNCHANGED <<born, written, told, conf, made, applied, web, jobs, runner, cleaner, deaths>>
  /\ \A i \in Import : JobStep(i) => UNCHANGED <<born, written, held, told, web>>
  /\ EditConf \/ WebServerDies =>
       UNCHANGED <<json, upload, claim, born, written, held, told, applied, jobs, runner, cleaner>>
  /\ EditConf => UNCHANGED <<web, gc>>
  /\ WebServerDies => UNCHANGED <<conf, made>>
  /\ TimePasses => UNCHANGED <<json, upload, claim, told, conf, made, applied, web, gc, jobs,
                               runner, cleaner>>
<1>1. ASSUME NEW t \in Worker, Preview(t) \/ Claim(t) \/ WebStep(t)
      PROVE  UNCHANGED <<gc, runner, applied, deaths>>
  BY <1>1 DEF Preview, Claim, WebStep, PreviewRead, PreviewRecord, PreviewFails, ReadRecord,
     ReadUpload, WritePlan, WebDiscard, Unclaim, Publish, LaunchJob, AskRelease, ReleaseClaim
<1>2. ASSUME NEW c \in Collector, GcStep(c)
      PROVE  UNCHANGED <<born, written, told, conf, made, applied, web, jobs, runner, cleaner,
                         deaths>>
  BY <1>2 DEF GcStep, GcClaim, GcMove, GcCreate, GcRead, GcUnlink, Unlink, files
<1>3. ASSUME NEW i \in Import, JobStep(i)
      PROVE  UNCHANGED <<born, written, held, told, web>>
  BY <1>3 DEF JobStep, RunnerBegins, RunnerStep, ApplyRead, ApplyCheck, ApplyCommit,
     RunnerDiscard, RunnerFinishes, Interrupt, Forgotten, CleanerDiscard, RunnerOfDies,
     CleanerDies, files, Unlink
<1>4. /\ EditConf \/ WebServerDies =>
           UNCHANGED <<json, upload, claim, born, written, held, told, applied, jobs, runner,
                       cleaner>>
      /\ EditConf => UNCHANGED <<web, gc>>
      /\ WebServerDies => UNCHANGED <<conf, made>>
  BY DEF EditConf, WebServerDies, files, workers
<1>5. TimePasses => UNCHANGED <<json, upload, claim, told, conf, made, applied, web, gc, jobs,
                                runner, cleaner>>
  BY DEF TimePasses, workers
<1> QED
  BY <1>1, <1>2, <1>3, <1>4, <1>5

(* Whose step it is.                                                       *)
LEMMA Whose ==
  ASSUME [ImportNext]_importVars
  PROVE  \/ \E t \in Worker : Preview(t) \/ Claim(t) \/ WebStep(t)
         \/ \E c \in Collector : GcStep(c)
         \/ \E i \in Import : JobStep(i)
         \/ EditConf \/ WebServerDies \/ TimePasses \/ UNCHANGED importVars
BY DEF ImportNext, JobStep

(* The types of the collectors.                                            *)
LEMMA StepGc ==
  ASSUME TypesOK, [ImportNext]_importVars
  PROVE  GcOK'
<1>0. GcOK
  BY DEF TypesOK
<1> USE DEF GcPlace, Collector
<1>1. ASSUME UNCHANGED gc
      PROVE  GcOK'
  BY <1>0, <1>1 DEF GcOK
<1>2. ASSUME NEW c \in Collector, gc' = [gc EXCEPT ![c] = Idle]
      PROVE  GcOK'
  BY <1>0, <1>2, GcMoves
<1>3. ASSUME NEW c \in Collector, GcStep(c)
      PROVE  GcOK'
  <2>1. CASE GcClaim(c)
    <3>1. PICK i \in Import :
            gc' = [gc EXCEPT ![c] = [at |-> IF claim[i] THEN "move" ELSE "read",
                                     imp |-> i, why |-> "gc"]]
      BY <2>1 DEF GcClaim
    <3>2. (IF claim[i] THEN "move" ELSE "read") \in GcPlace \ {"idle"}
      OBVIOUS
    <3> QED
      BY <1>0, <3>1, <3>2, GcMoves
  <2>2. CASE GcMove(c) \/ GcCreate(c)
    BY <1>0, <1>2, <2>2, GcMoves DEF GcMove, GcCreate, GcEnds
  <2>3. CASE GcRead(c)
    <3>1. (IF Protected(gc[c].imp) THEN "claim" ELSE "json") \in GcPlace \ {"idle"}
      OBVIOUS
    <3> QED
      BY <1>0, <2>3, <3>1, GcMoves DEF GcRead
  <2>4. CASE GcUnlink(c)
    <3>1. gc[c].at # "claim" => AfterUnlink(gc[c].at, "idle") \in GcPlace \ {"idle"}
      BY <2>4 DEF GcUnlink, AfterUnlink
    <3> QED
      BY <1>0, <1>2, <2>4, <3>1, GcMoves DEF GcUnlink, GcEnds
  <2> QED
    BY <1>3, <2>1, <2>2, <2>3, <2>4 DEF GcStep
<1>4. ASSUME NEW i \in Import, JobStep(i)
      PROVE  gc' = gc \/ gc' = [gc EXCEPT !["runner"] = Idle]
  BY <1>4 DEF JobStep, RunnerBegins, RunnerStep, ApplyRead, ApplyCheck, ApplyCommit,
     RunnerDiscard, RunnerFinishes, Interrupt, Forgotten, CleanerDiscard, RunnerOfDies,
     CleanerDies
<1>5. CASE WebServerDies
  BY <1>2, <1>5 DEF WebServerDies
<1>6. CASE UNCHANGED importVars
  BY <1>1, <1>6 DEF importVars, workers
<1> QED
  BY <1>1, <1>2, <1>3, <1>4, <1>5, <1>6, Whose, Frames

(* The types of the jobs and their processes.                              *)
LEMMA StepJobs ==
  ASSUME TypesOK, [ImportNext]_importVars
  PROVE  JobsOK'
<1>0. JobsOK /\ WebOK
  BY DEF TypesOK
<1> USE DEF JobState, RunPlace, CleanPlace, JobsOK
<1>1. ASSUME UNCHANGED <<jobs, runner, cleaner>>
      PROVE  JobsOK'
  BY <1>0, <1>1
<1>2. ASSUME NEW t \in Worker, Publish(t) \/ LaunchJob(t)
      PROVE  JobsOK'
  <2>1. web[t].imp \in Import
    BY <1>0, <1>2, Busy DEF Publish, LaunchJob
  <2> QED
    BY <1>0, <1>2, <2>1 DEF Publish, LaunchJob, JobEnds
<1>3. ASSUME NEW t \in Worker, \/ Preview(t) \/ Claim(t) \/ PreviewRead(t) \/ PreviewRecord(t)
               \/ PreviewFails(t) \/ ReadRecord(t) \/ ReadUpload(t) \/ WritePlan(t)
               \/ WebDiscard(t) \/ Unclaim(t) \/ AskRelease(t) \/ ReleaseClaim(t)
      PROVE  UNCHANGED <<jobs, runner, cleaner>>
  BY <1>3 DEF Preview, Claim, PreviewRead, PreviewRecord, PreviewFails, ReadRecord,
     ReadUpload, WritePlan, WebDiscard, Unclaim, AskRelease, ReleaseClaim
<1>4. ASSUME NEW i \in Import, JobStep(i)
      PROVE  JobsOK'
  <2>1. CASE RunnerBegins(i) \/ ApplyRead(i) \/ ApplyCheck(i) \/ ApplyCommit(i)
               \/ RunnerOfDies(i)
    BY <1>0, <2>1 DEF RunnerBegins, ApplyRead, ApplyCheck, ApplyCommit, RunnerOfDies,
       RunnerGoes
  <2>2. CASE RunnerFinishes(i) \/ Interrupt(i)
    BY <1>0, <2>2 DEF RunnerFinishes, Interrupt, RunnerGoes, JobEnds
  <2>3. CASE Forgotten(i) \/ CleanerDies(i)
    BY <1>0, <2>3 DEF Forgotten, CleanerDies
  <2>4. CASE RunnerDiscard(i)
    BY <1>0, <2>4 DEF RunnerDiscard, RunnerGoes, AfterUnlink
  <2>5. CASE CleanerDiscard(i)
    BY <1>0, <2>5 DEF CleanerDiscard, AfterUnlink
  <2> QED
    BY <1>4, <2>1, <2>2, <2>3, <2>4, <2>5 DEF JobStep, RunnerStep
<1>5. CASE UNCHANGED importVars
  BY <1>1, <1>5 DEF importVars, workers
<1> QED
  BY <1>1, <1>2, <1>3, <1>4, <1>5, Whose, Frames DEF WebStep

(* The types of what was told, read and applied.                           *)
LEMMA StepTelling ==
  ASSUME TypesOK, [ImportNext]_importVars
  PROVE  TellingOK'
<1>0. TellingOK /\ WebOK
  BY DEF TypesOK
<1> USE DEF Told, TellingOK
<1>1. ASSUME UNCHANGED <<told, conf, made, applied>>
      PROVE  TellingOK'
  BY <1>0, <1>1
<1>2. ASSUME NEW t \in Worker, Preview(t) \/ Claim(t)
      PROVE  TellingOK'
  <2>1. CASE Claim(t)
    BY <1>0, <2>1 DEF Claim
  <2>2. CASE Preview(t)
    <3>1. PICK i \in Import, kind \in ImportKind :
            /\ told' = [told EXCEPT ![i] = "uploading"]
            /\ made' = [made EXCEPT ![i] = [Unmade EXCEPT !.kind = kind]]
            /\ UNCHANGED <<conf, applied>>
      BY <2>2 DEF Preview
    <3>2. [Unmade EXCEPT !.kind = kind] \in MadeOf
      BY UnmadeType
    <3>3. made' \in [Import -> MadeOf]
      BY <1>0, <3>1, <3>2
    <3> QED
      BY <1>0, <3>1, <3>3
  <2> QED
    BY <1>2, <2>1, <2>2
<1>3. ASSUME NEW t \in Worker, PreviewRead(t) \/ PreviewRecord(t) \/ Unclaim(t)
      PROVE  TellingOK'
  <2>1. PICK i \in Import : i = web[t].imp
    BY <1>0, <1>3, Busy DEF PreviewRead, PreviewRecord, Unclaim
  <2>2. Snapshot(i) \in Readings /\ made[i] \in MadeOf
    BY <1>0, SnapshotType
  <2>3. [made[i] EXCEPT !.read = Snapshot(i), !.moves = 0] \in MadeOf
    <3>1. [made[i] EXCEPT !.read = Snapshot(i)] \in MadeOf
      BY <2>2 DEF MadeOf
    <3>2. \A m \in MadeOf : [m EXCEPT !.moves = 0] \in MadeOf
      BY DEF MadeOf, MovesCap
    <3> QED
      BY <3>1, <3>2
  <2>4. [made[i] EXCEPT !.base = Snapshot(i)] \in MadeOf
    BY <2>2 DEF MadeOf
  <2>5. CASE PreviewRead(t)
    <3>1. /\ made' = [made EXCEPT ![i] = [made[i] EXCEPT !.read = Snapshot(i), !.moves = 0]]
          /\ UNCHANGED <<told, conf, applied>>
      BY <1>0, <2>1, <2>5 DEF PreviewRead
    <3> QED
      BY <1>0, <2>3, <3>1
  <2>6. CASE PreviewRecord(t)
    <3>1. /\ made' = [made EXCEPT ![i] = [made[i] EXCEPT !.base = Snapshot(i)]]
          /\ told' = [told EXCEPT ![i] = "preview"] /\ UNCHANGED <<conf, applied>>
      BY <1>0, <2>1, <2>6 DEF PreviewRecord
    <3> QED
      BY <1>0, <2>4, <3>1
  <2>7. CASE Unclaim(t)
    BY <1>0, <2>1, <2>7 DEF Unclaim
  <2> QED
    BY <1>3, <2>5, <2>6, <2>7
<1>4. ASSUME NEW t \in Worker, \/ PreviewFails(t) \/ ReadRecord(t) \/ ReadUpload(t)
               \/ WritePlan(t) \/ WebDiscard(t) \/ Publish(t) \/ LaunchJob(t) \/ AskRelease(t)
               \/ ReleaseClaim(t)
      PROVE  UNCHANGED <<told, conf, made, applied>>
  BY <1>4 DEF PreviewFails, ReadRecord, ReadUpload, WritePlan, WebDiscard, Publish,
     LaunchJob, AskRelease, ReleaseClaim
<1>5. ASSUME NEW i \in Import, ApplyCommit(i)
      PROVE  TellingOK'
  <2>1. CASE UNCHANGED <<told, conf, made, applied>>
    BY <1>1, <2>1
  <2>2. CASE \E new \in [ConfFile -> Content] : ConfBecomes(new) /\ applied' = applied \cup {i}
    BY <1>0, <1>5, <2>2, Editing DEF ApplyCommit
  <2> QED
    BY <1>5, <2>1, <2>2 DEF ApplyCommit
<1>6. ASSUME NEW i \in Import, \/ RunnerBegins(i) \/ ApplyRead(i) \/ ApplyCheck(i)
               \/ RunnerDiscard(i) \/ RunnerFinishes(i) \/ Interrupt(i) \/ Forgotten(i)
               \/ CleanerDiscard(i) \/ RunnerOfDies(i) \/ CleanerDies(i)
      PROVE  UNCHANGED <<told, conf, made, applied>>
  BY <1>6 DEF RunnerBegins, ApplyRead, ApplyCheck, RunnerDiscard, RunnerFinishes, Interrupt,
     Forgotten, CleanerDiscard, RunnerOfDies, CleanerDies
<1>7. CASE EditConf
  <2>1. PICK f \in ConfFile, data \in Content : ConfBecomes([conf EXCEPT ![f] = data])
    BY <1>7 DEF EditConf
  <2>2. [conf EXCEPT ![f] = data] \in [ConfFile -> Content]
    BY <1>0
  <2> QED
    BY <1>0, <1>7, <2>1, <2>2, Editing DEF EditConf
<1>8. CASE UNCHANGED importVars
  BY <1>1, <1>8 DEF importVars
<1> QED
  BY <1>1, <1>2, <1>3, <1>4, <1>5, <1>6, <1>7, <1>8, Whose, Frames
     DEF WebStep, JobStep, RunnerStep

(* Every step keeps all types.                                             *)
LEMMA StepAllTypes ==
  ASSUME TypesOK, [ImportNext]_importVars
  PROVE  TypesOK'
BY StepFiles, StepWeb, StepGc, StepJobs, StepTelling DEF TypesOK

-----------------------------------------------------------------------------
(* Jobs.                                                                   *)

(* A thread that publishes or releases has its import for itself.          *)
LEMMA AloneWhere ==
  ASSUME ImportInv, NEW t \in Worker, Holding(t)
  PROVE  /\ Alone(t) /\ web[t].imp \in Import /\ web[t].at # "idle"
         /\ \A u \in Worker : web[u].imp = web[t].imp => u = t
         /\ \A c \in Collector : gc[c].imp # web[t].imp
         /\ jobs[web[t].imp] = "none" /\ runner[web[t].imp] = "none"
         /\ cleaner[web[t].imp] = "none"
<1>1. Alone(t)
  BY DEF ImportInv, Rest, HoldersAlone
<1>2. web[t].at # "idle"
  BY DEF Holding, Unpublished, Cancelling
<1>3. web[t].imp \in Import
  BY <1>2, Busy DEF ImportInv, TypesOK
<1>4. /\ \A u \in Worker : web[u].imp = web[t].imp => u = t
      /\ \A c \in Collector : gc[c].imp # web[t].imp
      /\ jobs[web[t].imp] = "none"
  BY <1>1 DEF Alone
<1> QED
  BY <1>1, <1>2, <1>3, <1>4 DEF ImportInv, JobParts

(* A runner belongs to a running job, a cleaner to one that ended.         *)
LEMMA StepJobParts ==
  ASSUME ImportInv, [ImportNext]_importVars
  PROVE  JobParts'
<1>0. JobsOK /\ WebOK /\ JobParts
  BY DEF ImportInv, TypesOK
<1> USE DEF JobState, RunPlace, CleanPlace, JobsOK
<1>1. ASSUME UNCHANGED <<jobs, runner, cleaner, applied>>
      PROVE  JobParts'
  BY <1>0, <1>1 DEF JobParts
<1>2. ASSUME NEW t \in Worker, Publish(t)
      PROVE  JobParts'
  <2>1. Holding(t)
    BY <1>2 DEF Publish, Holding, Unpublished
  <2> QED
    BY <1>0, <1>2, <2>1, AloneWhere DEF Publish, JobParts
<1>9. ASSUME NEW t \in Worker, LaunchJob(t)
      PROVE  JobParts'
  <2>1. web[t].imp \in Import
    BY <1>0, <1>9, Busy DEF LaunchJob
  <2> QED
    BY <1>0, <1>9, <2>1 DEF LaunchJob, JobEnds, JobParts
<1>3. ASSUME NEW t \in Worker, \/ Preview(t) \/ Claim(t) \/ PreviewRead(t) \/ PreviewRecord(t)
               \/ PreviewFails(t) \/ ReadRecord(t) \/ ReadUpload(t) \/ WritePlan(t)
               \/ WebDiscard(t) \/ Unclaim(t) \/ AskRelease(t) \/ ReleaseClaim(t)
      PROVE  UNCHANGED <<jobs, runner, cleaner, applied>>
  BY <1>3 DEF Preview, Claim, PreviewRead, PreviewRecord, PreviewFails, ReadRecord,
     ReadUpload, WritePlan, WebDiscard, Unclaim, AskRelease, ReleaseClaim
<1>4. ASSUME NEW i \in Import, JobStep(i)
      PROVE  JobParts'
  <2>1. CASE RunnerBegins(i) \/ ApplyRead(i) \/ ApplyCheck(i) \/ ApplyCommit(i)
               \/ RunnerOfDies(i)
    BY <1>0, <2>1 DEF RunnerBegins, ApplyRead, ApplyCheck, ApplyCommit, RunnerOfDies,
       RunnerGoes, JobParts
  <2>2. CASE RunnerFinishes(i) \/ Interrupt(i)
    BY <1>0, <2>2 DEF RunnerFinishes, Interrupt, RunnerGoes, JobEnds, JobParts
  <2>3. CASE Forgotten(i) \/ CleanerDies(i)
    BY <1>0, <2>3 DEF Forgotten, CleanerDies, JobParts
  <2>4. CASE RunnerDiscard(i)
    BY <1>0, <2>4 DEF RunnerDiscard, RunnerGoes, AfterUnlink, JobParts
  <2>5. CASE CleanerDiscard(i)
    BY <1>0, <2>5 DEF CleanerDiscard, AfterUnlink, JobParts
  <2> QED
    BY <1>4, <2>1, <2>2, <2>3, <2>4, <2>5 DEF JobStep, RunnerStep
<1>5. CASE UNCHANGED importVars
  BY <1>1, <1>5 DEF importVars, workers
<1> QED
  BY <1>1, <1>2, <1>3, <1>4, <1>5, <1>9, Whose, Frames DEF WebStep

(* The invariant in full, for the steps below.                             *)
LEMMA Given ==
  ASSUME ImportInv
  PROVE  /\ FilesOK /\ WebOK /\ GcOK /\ JobsOK /\ TellingOK /\ JobParts
         /\ Unseen /\ Once /\ Untouched /\ InGoodTime /\ HoldersAlone /\ FreshAlone
         /\ FreshKept /\ Known /\ Emptied
         /\ PlainHasNoJob /\ RecordHasUpload /\ Spared
         /\ NoImport \notin Import
         /\ \A t \in Worker : web[t].at # "idle" => web[t].imp \in Import
         /\ \A t \in Worker : web[t].at = "idle" => web[t].imp = NoImport /\ web[t].why = "none"
         /\ \A c \in Collector : gc[c].at # "idle" => gc[c].imp \in Import
         /\ \A c \in Collector : gc[c].at = "idle" => gc[c].imp = NoImport
BY ImportAssumption DEF ImportInv, Rest, TypesOK, WebOK, GcOK, Idle

(* What becomes of the model between a preview's readings and its commit.   *)
LEMMA StepTracked ==
  ASSUME ImportInv, [ImportNext]_importVars
  PROVE  Tracked'
<1> USE Given
<1>0. Tracked /\ TellingOK'
  BY StepTelling DEF ImportInv, TypesOK
<1> DEFINE TrackedFor(i) == Since(i) /\ ShownStale(i) /\ CheckedStale(i)
<1> HIDE DEF TrackedFor
<1>1. ASSUME NEW i \in Import, conf'["model"] = conf["model"], made'[i] = made[i],
             told'[i] \in {"preview", "cancelled"} => told[i] \in {"preview", "cancelled"},
             runner'[i] = "commit" => runner[i] = "commit"
      PROVE  TrackedFor(i)'
  BY <1>0, <1>1 DEF Tracked, TrackedFor, Since, Stale, ShownStale, CheckedStale
<1>2. ASSUME NEW i \in Import, runner'[i] # "commit", made'[i].moves = 3
      PROVE  TrackedFor(i)'
  BY <1>2 DEF TrackedFor, Since, ShownStale, CheckedStale
<1>3. ASSUME NEW new \in [ConfFile -> Content], ConfBecomes(new), told' = told, NEW i \in Import,
             runner'[i] = "commit" => runner[i] = "commit"
      PROVE  TrackedFor(i)'
  <2>1. /\ made'[i].read = made[i].read /\ made'[i].base = made[i].base
        /\ made'[i].moves = IF conf'["model"] = conf["model"] THEN made[i].moves
                            ELSE IF made[i].moves < 3 THEN made[i].moves + 1
                            ELSE made[i].moves
    BY <1>3, Editing
  <2>2. made[i].moves \in 0..3
    BY DEF TellingOK, MadeOf, MovesCap
  <2> QED
    BY <1>0, <1>3, <2>1, <2>2 DEF Tracked, TrackedFor, Since, Stale, ShownStale, CheckedStale
<1>4. ASSUME NEW t \in Worker, Preview(t), NEW i \in Import
      PROVE  TrackedFor(i)'
  <2>1. PICK j \in Import, kind \in ImportKind :
          /\ told[j] = "nothing" /\ told' = [told EXCEPT ![j] = "uploading"]
          /\ made' = [made EXCEPT ![j] = [Unmade EXCEPT !.kind = kind]]
          /\ UNCHANGED <<conf, runner>>
    BY <1>4 DEF Preview
  <2>2. CASE i # j
    BY <1>1, <2>1, <2>2 DEF TellingOK
  <2>3. CASE i = j
    <3>1. made'[i].moves = 3
      BY <2>1, <2>3, UnmadeType DEF TellingOK, MovesCap
    <3>2. runner'[i] = "none"
      BY <2>1, <2>3 DEF Unseen, JobParts
    <3> QED
      BY <1>2, <3>1, <3>2
  <2> QED
    BY <2>2, <2>3
<1>5. ASSUME NEW t \in Worker, PreviewRead(t) \/ PreviewRecord(t), NEW i \in Import
      PROVE  TrackedFor(i)'
  <2>1. PICK j \in Import : j = web[t].imp
    BY <1>5 DEF PreviewRead, PreviewRecord
  <2>2. told[j] = "uploading" /\ runner[j] = "none" /\ made[j] \in MadeOf
    BY <1>5, <2>1 DEF PreviewRead, PreviewRecord, Unseen, Previewing, JobParts, TellingOK
  <2>3. Snapshot(j)["model"] = conf["model"]
    BY SnapshotType
  <2>4. conf' = conf /\ runner' = runner
    BY <1>5 DEF PreviewRead, PreviewRecord, workers
  <2>5. CASE i # j
    <3>1. made'[i] = made[i] /\ told'[i] = told[i]
      BY <1>5, <2>1, <2>5 DEF PreviewRead, PreviewRecord, TellingOK
    <3> QED
      BY <1>1, <2>4, <3>1
  <2>6. CASE i = j /\ PreviewRead(t)
    <3>1. /\ made' = [made EXCEPT ![j] = [made[j] EXCEPT !.read = Snapshot(j), !.moves = 0]]
          /\ told' = told
      BY <2>1, <2>6 DEF PreviewRead, TellingOK
    <3>2. made'[j].read["model"] = conf["model"] /\ made'[j].moves = 0
      BY <2>2, <2>3, <3>1 DEF TellingOK, MadeOf
    <3> QED
      BY <2>2, <2>4, <2>6, <3>1, <3>2 DEF TrackedFor, Since, ShownStale, CheckedStale
  <2>7. CASE i = j /\ PreviewRecord(t)
    <3>1. made' = [made EXCEPT ![j] = [made[j] EXCEPT !.base = Snapshot(j)]]
      BY <2>1, <2>7 DEF PreviewRecord, TellingOK
    <3>2. /\ made'[j].base["model"] = conf["model"] /\ made'[j].moves = made[j].moves
          /\ made'[j].read = made[j].read
      BY <2>2, <2>3, <3>1 DEF TellingOK, MadeOf
    <3>3. Since(j) /\ made[j].moves \in 0..3
      BY <1>0, <2>2 DEF Tracked, MadeOf, MovesCap
    <3> QED
      BY <2>2, <2>4, <2>7, <3>2, <3>3 DEF TrackedFor, Since, Stale, ShownStale, CheckedStale
  <2> QED
    BY <1>5, <2>5, <2>6, <2>7
<1>6. ASSUME NEW t \in Worker, Claim(t) \/ WebStep(t), ~PreviewRead(t), ~PreviewRecord(t),
             NEW i \in Import
      PROVE  TrackedFor(i)'
  <2>1. UNCHANGED <<conf, made, runner>>
    BY <1>6 DEF Claim, WebStep, PreviewFails, ReadRecord, ReadUpload, WritePlan, WebDiscard,
       Unclaim, Publish, LaunchJob, AskRelease, ReleaseClaim
  <2>2. CASE Unclaim(t)
    <3>1. web[t].imp \in Import /\ told[web[t].imp] \in {"preview", "cancelled"}
      BY <2>2 DEF Unclaim, Unseen, Previewing
    <3>2. told'[i] = told[i] \/ i = web[t].imp
      BY <2>2 DEF Unclaim, TellingOK
    <3> QED
      BY <1>1, <2>1, <3>1, <3>2
  <2>3. CASE ~Unclaim(t)
    <3>1. told' = told
      BY <1>6, <2>3 DEF Claim, WebStep, PreviewFails, ReadRecord, ReadUpload, WritePlan,
         WebDiscard, Publish, LaunchJob, AskRelease, ReleaseClaim
    <3> QED
      BY <1>1, <2>1, <3>1
  <2> QED
    BY <2>2, <2>3
<1>7. ASSUME NEW j \in Import, ApplyCheck(j), NEW i \in Import
      PROVE  TrackedFor(i)'
  <2>1. UNCHANGED <<told, conf, made>> /\ runner[j] = "check"
    BY <1>7 DEF ApplyCheck
  <2>2. runner'[j] = "commit" => conf["model"] = made[j].read["model"]
    BY <1>7 DEF ApplyCheck, RunnerGoes, Unmoved, JobsOK
  <2>3. i # j => runner'[i] = runner[i]
    BY <1>7 DEF ApplyCheck, RunnerGoes, JobsOK
  <2>4. told[j] \in {"preview", "cancelled"}
    BY <2>1 DEF JobParts, Unseen, TellingOK, Told
  <2>5. made[j].moves \in 0..3
    BY DEF TellingOK, MadeOf, MovesCap
  <2>6. CASE i # j \/ runner'[i] # "commit"
    BY <1>1, <2>1, <2>3, <2>6
  <2>7. CASE i = j /\ runner'[i] = "commit"
    BY <1>0, <2>1, <2>2, <2>4, <2>5, <2>7
       DEF Tracked, TrackedFor, Since, Stale, ShownStale, CheckedStale
  <2> QED
    BY <2>6, <2>7
<1>8. ASSUME NEW j \in Import, ApplyCommit(j), NEW i \in Import
      PROVE  TrackedFor(i)'
  <2>1. told' = told /\ (runner'[i] = "commit" => runner[i] = "commit")
    BY <1>8 DEF ApplyCommit, RunnerGoes, JobsOK
  <2>2. \/ UNCHANGED <<conf, made>>
        \/ \E new \in [ConfFile -> Content] : ConfBecomes(new)
    BY <1>8 DEF ApplyCommit
  <2> QED
    BY <1>1, <1>3, <2>1, <2>2
<1>9. ASSUME NEW j \in Import, JobStep(j), ~ApplyCheck(j), ~ApplyCommit(j), NEW i \in Import
      PROVE  TrackedFor(i)'
  <2>1. UNCHANGED <<told, conf, made>>
    BY <1>9 DEF JobStep, RunnerBegins, RunnerStep, ApplyRead, RunnerDiscard, RunnerFinishes,
       Interrupt, Forgotten, CleanerDiscard, RunnerOfDies, CleanerDies
  <2>2. PICK at \in RunPlace \ {"commit"} : runner' = runner \/ runner' = [runner EXCEPT ![j] = at]
    BY <1>9 DEF JobStep, RunnerBegins, RunnerStep, ApplyRead, RunnerDiscard, RunnerFinishes,
       Interrupt, Forgotten, CleanerDiscard, RunnerOfDies, CleanerDies, RunnerGoes, RunPlace,
       AfterUnlink
  <2>3. runner'[i] = "commit" => runner[i] = "commit"
    BY <2>2 DEF JobsOK
  <2> QED
    BY <1>1, <2>1, <2>3
<1>10. ASSUME EditConf, NEW i \in Import
       PROVE  TrackedFor(i)'
  <2>1. PICK f \in ConfFile, data \in Content : ConfBecomes([conf EXCEPT ![f] = data])
    BY <1>10 DEF EditConf
  <2>2. [conf EXCEPT ![f] = data] \in [ConfFile -> Content]
    BY DEF TellingOK
  <2>3. told' = told /\ runner' = runner
    BY <1>10 DEF EditConf, workers
  <2> QED
    BY <1>3, <2>1, <2>2, <2>3
<1>11. ASSUME UNCHANGED <<told, conf, made, runner>>, NEW i \in Import
       PROVE  TrackedFor(i)'
  BY <1>1, <1>11
<1>12. \A c \in Collector : GcStep(c) => UNCHANGED <<told, conf, made, runner>>
  BY Frames
<1>13. WebServerDies \/ TimePasses \/ UNCHANGED importVars => UNCHANGED <<told, conf, made, runner>>
  BY Frames DEF importVars, workers
<1>14. \A i \in Import : TrackedFor(i)'
  BY <1>4, <1>5, <1>6, <1>7, <1>8, <1>9, <1>10, <1>11, <1>12, <1>13, Whose
<1> QED
  BY <1>14 DEF Tracked, TrackedFor

(* A preview starts with an id nobody knows, while no other is under way.  *)
LEMMA PreviewKeeps ==
  ASSUME ImportInv, NEW t \in Worker, Preview(t)
  PROVE  Rest'
<1> USE Given
<1>1. PICK i \in Import :
        /\ told[i] = "nothing" /\ web[t] = Idle /\ ~Guarded
        /\ told' = [told EXCEPT ![i] = "uploading"]
        /\ upload' = [upload EXCEPT ![i] = TRUE] /\ born' = [born EXCEPT ![i] = 0]
        /\ UNCHANGED <<json, claim, written, held, applied, gc, jobs, runner, cleaner>>
        /\ web' = [web EXCEPT ![t] = [at |-> "reading", imp |-> i, why |-> "preview"]]
  BY DEF Preview
<1>2. /\ web'[t].at = "reading" /\ web'[t].imp = i /\ web'[t].why = "preview"
      /\ \A u \in Worker \ {t} : web'[u] = web[u]
  BY <1>1, WebMoves DEF WebPlace, Why
<1>3. /\ told'[i] = "uploading" /\ upload'[i] /\ born'[i] = 0
      /\ \A j \in Import \ {i} :
           told'[j] = told[j] /\ upload'[j] = upload[j] /\ born'[j] = born[j]
  BY <1>1 DEF FilesOK, TellingOK, Told
<1>4. \A u \in Worker : ~Previewing(u)
  BY <1>1 DEF Guarded, Previewing
<1>5. /\ \A u \in Worker \ {t} : web[u].imp # i
      /\ json[i] = "none" /\ ~claim[i] /\ jobs[i] = "none"
  BY <1>1, <1>4, ImportAssumption DEF Unseen, Untouched
<1>6. \A c \in Collector : gc[c].imp # i
  BY <1>1 DEF Untouched
<1>7. Unseen'
  BY <1>1, <1>2, <1>3, <1>4, <1>5 DEF Unseen, Previewing
<1>8. Once'
  BY <1>1 DEF Once
<1>9. Untouched'
  BY <1>1, <1>2, <1>3, <1>4, <1>5, <1>6, ImportAssumption DEF Untouched, Previewing
<1>10. InGoodTime'
  BY <1>1, <1>2, <1>3, <1>4, <1>5 DEF InGoodTime, Previewing
<1>11. HoldersAlone'
  BY <1>1, <1>2, <1>3, <1>4, <1>5, <1>6
     DEF HoldersAlone, Holding, Unpublished, Cancelling, Alone
<1>16. FreshAlone' /\ FreshKept'
  BY <1>1, <1>2, <1>3, <1>4, <1>5, <1>6 DEF FreshAlone, FreshKept, Alone, Fresh, Expired
<1>12. Known'
  BY <1>1, <1>2, <1>3, <1>4, <1>5 DEF Known, Unpublished
<1>13. Emptied'
  BY <1>1, <1>2, <1>3, <1>4, <1>5 DEF Emptied, Cancelling
<1>14. PlainHasNoJob' /\ RecordHasUpload'
  BY <1>1, <1>3 DEF PlainHasNoJob, RecordHasUpload
<1>15. Spared'
  BY <1>1, <1>2, <1>3, <1>4, <1>5 DEF Spared, Waiting
<1> QED
  BY <1>7, <1>8, <1>9, <1>10, <1>11, <1>12, <1>13, <1>14, <1>15,
     <1>16 DEF Rest

(* A claim of a preview that has not expired finds nobody else there.      *)
LEMMA ClaimKeeps ==
  ASSUME ImportInv, NEW t \in Worker, Claim(t)
  PROVE  Rest'
<1> USE Given
<1>1. PICK i \in Import, why \in {"apply", "cancel"} :
        /\ told[i] \in {"preview", "cancelled"} /\ web[t] = Idle /\ ~claim[i] /\ NewClaim(i)
        /\ UNCHANGED <<json, upload, born, written, told, applied, gc, jobs, runner, cleaner>>
        /\ web' = [web EXCEPT ![t] = [at |-> "record", imp |-> i, why |-> why]]
  BY DEF Claim, MayClaim
<1>2. /\ web'[t].at = "record" /\ web'[t].imp = i /\ web'[t].why \in {"apply", "cancel"}
      /\ web[t].at = "idle" /\ \A u \in Worker \ {t} : web'[u] = web[u]
  <2>2. WebOK /\ web' = [web EXCEPT ![t] = [at |-> "record", imp |-> i, why |-> why]]
    BY <1>1
  <2>3. /\ web'[t].at = "record" /\ web'[t].imp = i /\ web'[t].why = why
        /\ \A u \in Worker \ {t} : web'[u] = web[u]
    BY <2>2 DEF WebOK
  <2> QED
    BY <1>1, <2>3 DEF Idle
<1>3. /\ claim'[i] /\ held'[i] = 0
      /\ \A j \in Import \ {i} : claim'[j] = claim[j] /\ held'[j] = held[j]
  BY <1>1, Claiming
<1>4. ClaimTTL > 0
  BY ImportAssumption
<1>5. \A u \in Worker : Previewing(u) => web[u].imp # i
  BY <1>1 DEF Unseen, Previewing
<1>6. Fresh(i) => /\ jobs[i] = "none" /\ \A c \in Collector : gc[c].imp # i
                  /\ \A u \in Worker : web[u].imp # i
  BY <1>1 DEF PlainHasNoJob, FreshKept, FreshAlone, Fresh, Alone
<1>7. Unseen'
  BY <1>1, <1>2, <1>3, <1>4, <1>5 DEF Unseen, Previewing
<1>8. Once'
  BY <1>1, <1>2, <1>3, <1>4, <1>5 DEF Once
<1>9. Untouched'
  BY <1>1, <1>2, <1>3, <1>4, <1>5 DEF Untouched, Previewing
<1>10. InGoodTime'
  BY <1>1, <1>2, <1>3, <1>4, <1>5 DEF InGoodTime, Previewing
<1>11. HoldersAlone'
  BY <1>1, <1>2, <1>3, <1>4, <1>5 DEF HoldersAlone, Holding, Unpublished, Cancelling,
     Alone
<1>12. FreshAlone'
  BY <1>1, <1>2, <1>3, <1>6 DEF FreshAlone, Alone, Fresh, Expired
<1>13. FreshKept'
  BY <1>1, <1>2, <1>3, <1>4, <1>5 DEF FreshKept, Fresh, Expired
<1>14. Known'
  BY <1>1, <1>2, <1>3, <1>4, <1>5 DEF Known, Unpublished
<1>15. Emptied'
  BY <1>1, <1>2, <1>3, <1>4, <1>5 DEF Emptied, Cancelling
<1>16. PlainHasNoJob'
  BY <1>1, <1>2, <1>3, <1>4, <1>5 DEF PlainHasNoJob
<1>17. RecordHasUpload'
  BY <1>1, <1>2, <1>3, <1>4, <1>5 DEF RecordHasUpload
<1>18. Spared'
  BY <1>1, <1>2, <1>3, <1>4, <1>5 DEF Spared, Waiting
<1> QED
  BY <1>7, <1>8, <1>9, <1>10, <1>11, <1>12, <1>13, <1>14, <1>15, <1>16, <1>17, <1>18
     DEF Rest

(* The first reading.                                                      *)
LEMMA PreviewReadKeeps ==
  ASSUME ImportInv, NEW t \in Worker, PreviewRead(t)
  PROVE  Rest'
<1> USE Given
<1> DEFINE i == web[t].imp
<1>1. /\ web[t].at = "reading" /\ i \in Import
      /\ UNCHANGED <<json, upload, claim, born, written, held, told, applied, gc, jobs, runner,
                     cleaner>>
  BY DEF PreviewRead, files
<1>2. /\ web'[t].at = "recording" /\ web'[t].imp = i /\ web'[t].why = web[t].why
      /\ \A u \in Worker \ {t} : web'[u] = web[u]
  BY <1>1, WebMoves DEF WebPlace, PreviewRead
<1>4. Previewing(t) /\ jobs[i] = "none" /\ runner[i] = "none" /\ i \notin applied
  BY <1>1 DEF Previewing, Unseen, JobParts
<1> HIDE DEF i
<1>5. Unseen'
  BY <1>1, <1>2, <1>4 DEF Unseen, Previewing, i
<1>6. Once'
  BY <1>1, <1>2, <1>4 DEF Once
<1>7. Untouched'
  BY <1>1, <1>2, <1>4 DEF Untouched, Previewing, i
<1>8. InGoodTime'
  BY <1>1, <1>2, <1>4 DEF InGoodTime, Previewing, i
<1>9. HoldersAlone'
  BY <1>1, <1>2, <1>4 DEF HoldersAlone, Holding, Unpublished, Cancelling,
     Alone, i
<1>10. FreshAlone'
  BY <1>1, <1>2, <1>4 DEF FreshAlone, Alone, Fresh, Expired, i
<1>11. FreshKept'
  BY <1>1, <1>2, <1>4 DEF FreshKept, Fresh, Expired, i
<1>12. Known'
  BY <1>1, <1>2, <1>4 DEF Known, Unpublished, i
<1>13. Emptied'
  BY <1>1, <1>2, <1>4 DEF Emptied, Cancelling, i
<1>14. PlainHasNoJob'
  BY <1>1, <1>2, <1>4 DEF PlainHasNoJob
<1>15. RecordHasUpload'
  BY <1>1, <1>2, <1>4 DEF RecordHasUpload
<1>16. Spared'
  BY <1>1, <1>2, <1>4 DEF Spared, Waiting, i
<1> QED
  BY <1>5, <1>6, <1>7, <1>8, <1>9, <1>10, <1>11, <1>12, <1>13, <1>14, <1>15, <1>16 DEF Rest

(* The record of a preview.                                                *)
LEMMA PreviewRecordKeeps ==
  ASSUME ImportInv, NEW t \in Worker, PreviewRecord(t)
  PROVE  Rest'
<1> USE Given
<1> DEFINE i == web[t].imp
<1>1. /\ web[t].at = "recording" /\ i \in Import
      /\ UNCHANGED <<upload, claim, held, applied, gc, jobs, runner, cleaner>>
  BY DEF PreviewRecord
<1>2. /\ web'[t].at = "idle" /\ web'[t].imp = NoImport /\ web'[t].why = "none"
      /\ \A u \in Worker \ {t} : web'[u] = web[u]
  BY <1>1, WebMoves DEF PreviewRecord
<1>3. /\ told'[i] = "preview" /\ born'[i] = 0
      /\ \A j \in Import \ {i} : told'[j] = told[j] /\ born'[j] = born[j]
  BY <1>1 DEF PreviewRecord, TellingOK, FilesOK
<1>4. /\ json'[i] = "plain" /\ written'[i] = 0
      /\ \A j \in Import \ {i} : json'[j] = json[j] /\ written'[j] = written[j]
  BY <1>1, Recording DEF PreviewRecord
<1>5. /\ Previewing(t) /\ jobs[i] = "none" /\ runner[i] = "none" /\ cleaner[i] = "none"
      /\ i \notin applied /\ told[i] = "uploading"
  BY <1>1 DEF Previewing, Unseen, JobParts
<1>6. /\ upload[i] /\ ~claim[i] /\ \A c \in Collector : gc[c].imp # i
      /\ \A u \in Worker \ {t} : web[u].imp # i
  BY <1>1, <1>5 DEF Unseen, Untouched
<1> HIDE DEF i
<1>7. Unseen'
  BY <1>1, <1>2, <1>3, <1>4, <1>5, <1>6 DEF Unseen, Previewing
<1>8. Once'
  BY <1>1, <1>2, <1>3, <1>4, <1>5, <1>6 DEF Once
<1>9. Untouched'
  BY <1>1, <1>2, <1>3, <1>4, <1>5, <1>6 DEF Untouched, Previewing
<1>10. InGoodTime'
  BY <1>1, <1>2, <1>3, <1>4, <1>5, <1>6 DEF InGoodTime, Previewing
<1>11. HoldersAlone'
  BY <1>1, <1>2, <1>3, <1>4, <1>5, <1>6 DEF HoldersAlone, Holding, Unpublished, Cancelling,
     Alone
<1>12. FreshAlone'
  BY <1>1, <1>2, <1>3, <1>4, <1>5, <1>6 DEF FreshAlone, Alone, Fresh, Expired
<1>13. FreshKept'
  BY <1>1, <1>2, <1>3, <1>4, <1>5, <1>6 DEF FreshKept, Fresh, Expired
<1>14. Known'
  BY <1>1, <1>2, <1>3, <1>4, <1>5, <1>6 DEF Known, Unpublished
<1>15. Emptied'
  BY <1>1, <1>2, <1>3, <1>4, <1>5, <1>6 DEF Emptied, Cancelling
<1>16. PlainHasNoJob'
  BY <1>1, <1>2, <1>3, <1>4, <1>5, <1>6 DEF PlainHasNoJob
<1>17. RecordHasUpload'
  BY <1>1, <1>2, <1>3, <1>4, <1>5, <1>6 DEF RecordHasUpload
<1>18. Spared'
  BY <1>1, <1>2, <1>3, <1>4, <1>5, <1>6 DEF Spared, Waiting
<1> QED
  BY <1>7, <1>8, <1>9, <1>10, <1>11, <1>12, <1>13, <1>14, <1>15, <1>16, <1>17, <1>18
     DEF Rest

(* A preview that failed.                                                  *)
LEMMA PreviewFailsKeeps ==
  ASSUME ImportInv, NEW t \in Worker, PreviewFails(t)
  PROVE  Rest'
<1> USE Given
<1> DEFINE i == web[t].imp
<1>1. /\ Previewing(t) /\ i \in Import /\ Unlink(i, "upload")
      /\ UNCHANGED <<told, applied, gc, jobs, runner, cleaner>>
  BY DEF PreviewFails, Previewing
<1>2. /\ web'[t].at = "idle" /\ web'[t].imp = NoImport /\ web'[t].why = "none"
      /\ \A u \in Worker \ {t} : web'[u] = web[u]
  BY <1>1, WebMoves DEF PreviewFails
<1>3. /\ UNCHANGED <<json, claim, born, written, held>> /\ ~upload'[i]
      /\ \A j \in Import \ {i} : upload'[j] = upload[j]
  BY <1>1, Unlinking
<1>4. json[i] = "none" /\ \A u \in Worker \ {t} : web[u].imp # i
  BY <1>1 DEF Unseen, Previewing
<1>5. jobs[i] = "none" /\ runner[i] = "none"
  BY <1>1 DEF Unseen, JobParts, Previewing
<1> HIDE DEF i
<1>6. Unseen'
  BY <1>1, <1>2, <1>3, <1>4, <1>5 DEF Unseen, Previewing
<1>7. Once'
  BY <1>1, <1>2, <1>3, <1>4, <1>5 DEF Once
<1>8. Untouched'
  BY <1>1, <1>2, <1>3, <1>4, <1>5 DEF Untouched, Previewing
<1>9. InGoodTime'
  BY <1>1, <1>2, <1>3, <1>4, <1>5 DEF InGoodTime, Previewing
<1>10. HoldersAlone'
  BY <1>1, <1>2, <1>3, <1>4, <1>5 DEF HoldersAlone, Holding, Unpublished, Cancelling,
     Alone
<1>11. FreshAlone'
  BY <1>1, <1>2, <1>3, <1>4, <1>5 DEF FreshAlone, Alone, Fresh, Expired
<1>12. FreshKept'
  BY <1>1, <1>2, <1>3, <1>4, <1>5 DEF FreshKept, Fresh, Expired
<1>13. Known'
  BY <1>1, <1>2, <1>3, <1>4, <1>5 DEF Known, Unpublished
<1>14. Emptied'
  BY <1>1, <1>2, <1>3, <1>4, <1>5 DEF Emptied, Cancelling
<1>15. PlainHasNoJob'
  BY <1>1, <1>2, <1>3, <1>4, <1>5 DEF PlainHasNoJob
<1>16. RecordHasUpload'
  BY <1>1, <1>2, <1>3, <1>4, <1>5 DEF RecordHasUpload
<1>17. Spared'
  BY <1>1, <1>2, <1>3, <1>4, <1>5 DEF Spared, Waiting
<1> QED
  BY <1>6, <1>7, <1>8, <1>9, <1>10, <1>11, <1>12, <1>13, <1>14, <1>15, <1>16, <1>17 DEF Rest

(* What a thread must know to be where it is.                              *)
Fits(t) ==
  LET i == web[t].imp
  IN  /\ web[t].at \notin {"idle", "reading", "recording"}
      /\ Holding(t) => Alone(t)
      /\ web[t].at \in {"uploaded", "write"} => json[i] = "plain"
      /\ Unpublished(t) => json[i] = "claimed"
      /\ (web[t].at = "write" \/ Unpublished(t)) => upload[i]
      /\ web[t].at \in {"launch", "failed"} => jobs[i] # "pruned"
      /\ web[t].at = "launch" => jobs[i] # "none"
      /\ web[t].at \in {"upload", "claim"} => json[i] = "none"
      /\ web[t].why = "cancelled" =>
           \/ Cancelling(t)
           \/ web[t].at = "unclaim" /\ json[i] = "none" /\ jobs[i] = "none"
      /\ web[t].at \in {"json", "upload"} => ~Waiting(i)


(* A thread that only moves, or leaves.                                    *)
LEMMA MoveKeeps ==
  ASSUME ImportInv, NEW t \in Worker, web[t].at # "idle", ~Previewing(t),
         UNCHANGED <<json, upload, claim, born, written, held, told, applied, gc, jobs,
                     runner, cleaner>>,
         \A u \in Worker \ {t} : web'[u] = web[u],
         \/ web'[t] = Idle
         \/ web'[t].imp = web[t].imp /\ Fits(t)'
  PROVE  Rest'
<1> USE Given
<1> DEFINE i == web[t].imp
<1>1. i \in Import
  OBVIOUS
<1>2. CASE web'[t] = Idle
  <2>1. web'[t].at = "idle" /\ web'[t].imp = NoImport /\ web'[t].why = "none"
    BY <1>2 DEF Idle
  <2>2. Unseen'
    BY <1>1, <2>1 DEF Unseen, Previewing
  <2>3. Once'
    BY <1>1, <2>1 DEF Once
  <2>4. Untouched'
    BY <1>1, <2>1 DEF Untouched, Previewing
  <2>5. InGoodTime'
    BY <1>1, <2>1 DEF InGoodTime, Previewing
  <2>6. HoldersAlone'
    BY <1>1, <2>1 DEF HoldersAlone, Holding, Unpublished, Cancelling,
       Alone
  <2>7. FreshAlone'
    BY <1>1, <2>1 DEF FreshAlone, Alone, Fresh, Expired
  <2>8. FreshKept'
    BY <1>1, <2>1 DEF FreshKept, Fresh, Expired
  <2>9. Known'
    BY <1>1, <2>1 DEF Known, Unpublished
  <2>10. Emptied'
    BY <1>1, <2>1 DEF Emptied, Cancelling
  <2>11. PlainHasNoJob'
    BY <1>1, <2>1 DEF PlainHasNoJob
  <2>12. RecordHasUpload'
    BY <1>1, <2>1 DEF RecordHasUpload
  <2>13. Spared'
    BY <1>1, <2>1 DEF Spared, Waiting
  <2> QED
    BY <2>2, <2>3, <2>4, <2>5, <2>6, <2>7, <2>8, <2>9, <2>10, <2>11, <2>12, <2>13 DEF Rest
<1>3. CASE web'[t].imp = i /\ Fits(t)'
  <2>1. Unseen'
    BY <1>1, <1>3 DEF Unseen, Previewing, Fits
  <2>2. Once'
    BY <1>1, <1>3 DEF Once
  <2>3. Untouched'
    BY <1>1, <1>3 DEF Untouched, Previewing, Fits
  <2>4. InGoodTime'
    BY <1>1, <1>3 DEF InGoodTime, Previewing, Fits
  <2>5. HoldersAlone'
    BY <1>1, <1>3 DEF HoldersAlone, Holding, Unpublished, Cancelling,
       Alone, Fits
  <2>6. FreshAlone'
    BY <1>1, <1>3 DEF FreshAlone, Alone, Fresh, Expired, Fits
  <2>7. FreshKept'
    BY <1>1, <1>3 DEF FreshKept, Fresh, Expired
  <2>8. Known'
    BY <1>1, <1>3 DEF Known, Unpublished, Fits
  <2>9. Emptied'
    BY <1>1, <1>3 DEF Emptied, Cancelling, Fits
  <2>10. PlainHasNoJob'
    BY <1>1, <1>3 DEF PlainHasNoJob
  <2>11. RecordHasUpload'
    BY <1>1, <1>3 DEF RecordHasUpload
  <2>12. Spared'
    BY <1>1, <1>3 DEF Spared, Waiting, Fits
  <2> QED
    BY <2>1, <2>2, <2>3, <2>4, <2>5, <2>6, <2>7, <2>8, <2>9, <2>10, <2>11, <2>12 DEF Rest
<1> QED
  BY <1>2, <1>3

(* _record's answer: an unexpired preview is its handler's alone.          *)
LEMMA ReadRecordKeeps ==
  ASSUME ImportInv, NEW t \in Worker, ReadRecord(t)
  PROVE  Rest'
<1> USE Given
<1> DEFINE i == web[t].imp
<1>1. /\ web[t].at = "record" /\ i \in Import
      /\ UNCHANGED <<json, upload, claim, born, written, held, told, applied, gc, jobs,
                     runner, cleaner>>
  BY DEF ReadRecord, files
<1>2. web[t].at # "idle" /\ ~Previewing(t)
  BY <1>1 DEF Previewing
<1>3. CASE web' = [web EXCEPT ![t] = [at |-> "json", imp |-> i, why |-> "expired"]]
  <2>1. Expired(i) /\ ~ActiveClaim(i)
    BY <1>1, <1>3 DEF ReadRecord, WebGoes, WebOK, WebOf
  <2>2. /\ web'[t].at = "json" /\ web'[t].imp = i /\ web'[t].why = "expired"
        /\ \A u \in Worker \ {t} : web'[u] = web[u]
    BY <1>3 DEF WebOK
  <2>3. ~Waiting(i)
    BY <1>1, <2>1 DEF Spared, ActiveClaim, Waiting
  <2>4. Fits(t)'
    BY <1>1, <2>2, <2>3 DEF Fits, Holding, Unpublished, Cancelling, Waiting
  <2> QED
    BY <1>1, <1>2, <2>2, <2>4, MoveKeeps
<1>4. CASE WebGoes(t, "uploaded") /\ json[i] = "plain" /\ ~(Expired(i) /\ ~ActiveClaim(i))
  <2>1. Fresh(i)
    BY <1>4 DEF Fresh, ActiveClaim
  <2>2. /\ web'[t].at = "uploaded" /\ web'[t].imp = i /\ web'[t].why = web[t].why
        /\ \A u \in Worker \ {t} : web'[u] = web[u]
    BY <1>1, <1>4, WebMoves DEF WebPlace
  <2>3. Alone(t)
    BY <1>1, <2>1 DEF FreshAlone
  <2>4. web[t].why # "cancelled"
    BY <1>1 DEF Emptied, Cancelling
  <2>5. Fits(t)'
    BY <1>1, <1>4, <2>2, <2>3, <2>4 DEF Fits, Alone, Unpublished
  <2> QED
    BY <1>1, <1>2, <2>2, <2>5, MoveKeeps
<1>5. CASE WebGoes(t, "unclaim")
  <2>1. /\ web'[t].at = "unclaim" /\ web'[t].imp = i /\ web'[t].why = web[t].why
        /\ \A u \in Worker \ {t} : web'[u] = web[u]
    BY <1>1, <1>5, WebMoves DEF WebPlace
  <2>2. web[t].why # "cancelled"
    BY <1>1 DEF Emptied, Cancelling
  <2>3. Fits(t)'
    BY <1>1, <2>1, <2>2 DEF Fits, Holding, Unpublished, Cancelling
  <2> QED
    BY <1>1, <1>2, <2>1, <2>3, MoveKeeps
<1> QED
  BY <1>3, <1>4, <1>5 DEF ReadRecord

(* The upload is there, and the handler still alone.                       *)
LEMMA ReadUploadKeeps ==
  ASSUME ImportInv, NEW t \in Worker, ReadUpload(t)
  PROVE  Rest'
<1> USE Given
<1> DEFINE i == web[t].imp
<1>1. /\ web[t].at = "uploaded" /\ i \in Import
      /\ UNCHANGED <<json, upload, claim, born, written, held, told, applied, gc, jobs,
                     runner, cleaner>>
  BY DEF ReadUpload, files
<1>2. web[t].at # "idle" /\ ~Previewing(t)
  BY <1>1 DEF Previewing
<1>3. Holding(t) /\ Alone(t) /\ json[i] = "plain" /\ web[t].why # "cancelled"
  BY <1>1 DEF Holding, HoldersAlone, Known, Emptied, Cancelling
<1>4. ~Waiting(i)
  BY <1>1, <1>3, AloneWhere DEF Waiting, Alone
<1>5. CASE WebGoes(t, "unclaim") \/ (upload[i] /\ WebGoes(t, "write"))
  <2>1. /\ web'[t].at = "unclaim" \/ (web'[t].at = "write" /\ upload[i])
        /\ web'[t].imp = i /\ web'[t].why = web[t].why
        /\ \A u \in Worker \ {t} : web'[u] = web[u]
    BY <1>1, <1>5, WebMoves, ZenonT(60) DEF WebPlace
  <2>2. Fits(t)'
    BY <1>1, <1>3, <2>1 DEF Fits, Holding, Unpublished, Cancelling, Alone
  <2> QED
    BY <1>1, <1>2, <2>1, <2>2, MoveKeeps
<1>6. CASE web' = [web EXCEPT ![t].at = "json", ![t].why = "cancelled"]
  <2>1. /\ web'[t].at = "json" /\ web'[t].imp = i /\ web'[t].why = "cancelled"
        /\ \A u \in Worker \ {t} : web'[u] = web[u]
    BY <1>2, <1>6, WebMoves
  <2>2. Fits(t)'
    BY <1>1, <1>3, <1>4, <2>1 DEF Fits, Unpublished, Cancelling, Alone, Waiting
  <2> QED
    BY <1>1, <1>2, <2>1, <2>2, MoveKeeps
<1> QED
  BY <1>5, <1>6 DEF ReadUpload

(* The claim may be given up only while no job can know the import.        *)
LEMMA AskReleaseKeeps ==
  ASSUME ImportInv, NEW t \in Worker, AskRelease(t)
  PROVE  Rest'
<1> USE Given
<1> DEFINE i == web[t].imp
<1>1. /\ web[t].at = "failed" /\ i \in Import
      /\ UNCHANGED <<json, upload, claim, born, written, held, told, applied, gc, jobs,
                     runner, cleaner>>
  BY DEF AskRelease, files
<1>2. web[t].at # "idle" /\ ~Previewing(t)
  BY <1>1 DEF Previewing
<1>3. CASE WebEnds(t)
  <2>1. web'[t] = Idle /\ \A u \in Worker \ {t} : web'[u] = web[u]
    BY <1>3, WebMoves
  <2> QED
    BY <1>1, <1>2, <2>1, MoveKeeps
<1>4. CASE CanRelease(i) /\ WebGoes(t, "release")
  <2>1. Unpublished(t)
    BY <1>1, <1>4 DEF CanRelease, Known, Unpublished
  <2>2. Alone(t) /\ json[i] = "claimed" /\ upload[i] /\ web[t].why # "cancelled"
    BY <1>1, <2>1 DEF HoldersAlone, Holding, Known, Emptied, Cancelling
  <2>3. /\ web'[t].at = "release" /\ web'[t].imp = i /\ web'[t].why = web[t].why
        /\ \A u \in Worker \ {t} : web'[u] = web[u]
    BY <1>1, <1>4, WebMoves DEF WebPlace
  <2>4. Fits(t)'
    BY <1>1, <2>2, <2>3 DEF Fits, Alone
  <2> QED
    BY <1>1, <1>2, <2>3, <2>4, MoveKeeps
<1> QED
  BY <1>3, <1>4 DEF AskRelease

(* Publishing that fails.                                                  *)
LEMMA PublishFailsKeeps ==
  ASSUME ImportInv, NEW t \in Worker, Publish(t), jobs' = jobs
  PROVE  Rest'
<1> USE Given
<1> DEFINE i == web[t].imp
<1>1. /\ web[t].at = "start" /\ i \in Import
      /\ UNCHANGED <<json, upload, claim, born, written, held, told, applied, gc, jobs,
                     runner, cleaner>>
  BY DEF Publish, files
<1>2. web[t].at # "idle" /\ ~Previewing(t)
  BY <1>1 DEF Previewing
<1>3. WebGoes(t, "failed") \/ jobs' = [jobs EXCEPT ![i] = "queued"]
  BY DEF Publish
<1>4. Holding(t) /\ Alone(t) /\ json[i] = "claimed" /\ upload[i] /\ web[t].why # "cancelled"
  BY <1>1 DEF Holding, Unpublished, HoldersAlone, Known, Emptied, Cancelling
<1>5. WebGoes(t, "failed")
  BY <1>1, <1>3, <1>4 DEF Alone, JobsOK
<1>6. /\ web'[t].at = "failed" /\ web'[t].imp = i /\ web'[t].why = web[t].why
      /\ \A u \in Worker \ {t} : web'[u] = web[u]
  BY <1>1, <1>5, WebMoves DEF WebPlace
<1>7. Fits(t)'
  BY <1>1, <1>4, <1>6 DEF Fits, Unpublished, Cancelling, Alone
<1> QED
  BY <1>1, <1>2, <1>6, <1>7, MoveKeeps

(* The job is published: its files are there.                              *)
LEMMA PublishKeeps ==
  ASSUME ImportInv, NEW t \in Worker, Publish(t), jobs' # jobs
  PROVE  Rest'
<1> USE Given
<1> DEFINE i == web[t].imp
<1>1. /\ web[t].at = "start" /\ i \in Import /\ WebGoes(t, "launch")
      /\ jobs' = [jobs EXCEPT ![i] = "queued"]
      /\ UNCHANGED <<json, upload, claim, born, written, held, told, applied, gc, runner,
                     cleaner>>
  BY DEF Publish, files
<1>2. /\ web'[t].at = "launch" /\ web'[t].imp = i /\ web'[t].why = web[t].why
      /\ \A u \in Worker \ {t} : web'[u] = web[u]
  BY <1>1, WebMoves DEF WebPlace
<1>3. jobs'[i] = "queued" /\ \A j \in Import \ {i} : jobs'[j] = jobs[j]
  BY <1>1 DEF JobsOK
<1>4. /\ json[i] = "claimed" /\ upload[i] /\ web[t].why # "cancelled" /\ told[i] = "preview"
  BY <1>1 DEF Known, Unpublished, Emptied, Cancelling, Unseen, Previewing
<1>5. /\ \A u \in Worker \ {t} : web[u].imp # i
      /\ \A c \in Collector : gc[c].imp # i
      /\ runner[i] = "none" /\ cleaner[i] = "none"
  BY <1>1, AloneWhere DEF Holding, Unpublished
<1> HIDE DEF i
<1>6. Unseen'
  BY <1>1, <1>2, <1>3, <1>4, <1>5 DEF Unseen, Previewing, i
<1>7. Once'
  <2>1. jobs[i] = "none" /\ i \notin applied
    BY <1>1, AloneWhere DEF Holding, Unpublished, JobParts, i
  <2> QED
    BY <1>1, <1>3, <2>1 DEF Once
<1>8. Untouched'
  BY <1>1, <1>2, <1>3, <1>4, <1>5 DEF Untouched, Previewing, i
<1>9. InGoodTime'
  BY <1>1, <1>2, <1>3, <1>4, <1>5 DEF InGoodTime, Previewing, i
<1>10. HoldersAlone'
  BY <1>1, <1>2, <1>3, <1>4, <1>5 DEF HoldersAlone, Holding, Unpublished, Cancelling,
     Alone, i
<1>11. FreshAlone'
  BY <1>1, <1>2, <1>3, <1>4, <1>5 DEF FreshAlone, Alone, Fresh, Expired, i
<1>12. FreshKept'
  BY <1>1, <1>2, <1>3, <1>4, <1>5 DEF FreshKept, Fresh, Expired, i
<1>13. Known'
  BY <1>1, <1>2, <1>3, <1>4, <1>5 DEF Known, Unpublished, i
<1>14. Emptied'
  BY <1>1, <1>2, <1>3, <1>4, <1>5 DEF Emptied, Cancelling, i
<1>15. PlainHasNoJob'
  BY <1>1, <1>2, <1>3, <1>4, <1>5 DEF PlainHasNoJob, i
<1>16. RecordHasUpload'
  BY <1>1, <1>2, <1>3, <1>4, <1>5 DEF RecordHasUpload, i
<1>17. Spared'
  BY <1>1, <1>2, <1>3, <1>4, <1>5 DEF Spared, Waiting, i
<1> QED
  BY <1>6, <1>7, <1>8, <1>9, <1>10, <1>11, <1>12, <1>13, <1>14, <1>15, <1>16, <1>17 DEF Rest

(* A launch that goes on, or is not known to have failed.                  *)
LEMMA LaunchKeeps ==
  ASSUME ImportInv, NEW t \in Worker, LaunchJob(t), jobs' = jobs
  PROVE  Rest'
<1> USE Given
<1> DEFINE i == web[t].imp
<1>1. /\ web[t].at = "launch" /\ i \in Import
      /\ UNCHANGED <<json, upload, claim, born, written, held, told, applied, gc, jobs,
                     runner, cleaner>>
  BY DEF LaunchJob, files, JobEnds, JobsOK
<1>2. web[t].at # "idle" /\ ~Previewing(t)
  BY <1>1 DEF Previewing
<1>3. jobs[i] # "none" /\ jobs[i] # "pruned" /\ web[t].why # "cancelled"
  BY <1>1 DEF Known, Emptied, Cancelling
<1>4. CASE WebEnds(t)
  <2>1. web'[t] = Idle /\ \A u \in Worker \ {t} : web'[u] = web[u]
    BY <1>4, WebMoves
  <2> QED
    BY <1>1, <1>2, <2>1, MoveKeeps
<1>5. CASE WebGoes(t, "failed")
  <2>1. /\ web'[t].at = "failed" /\ web'[t].imp = i /\ web'[t].why = web[t].why
        /\ \A u \in Worker \ {t} : web'[u] = web[u]
    BY <1>1, <1>5, WebMoves DEF WebPlace
  <2>2. Fits(t)'
    BY <1>1, <1>3, <2>1 DEF Fits, Holding, Unpublished, Cancelling
  <2> QED
    BY <1>1, <1>2, <2>1, <2>2, MoveKeeps
<1> QED
  BY <1>4, <1>5 DEF LaunchJob

(* A launch known to have failed ends the job.                             *)
LEMMA LaunchFailsKeeps ==
  ASSUME ImportInv, NEW t \in Worker, LaunchJob(t), jobs' # jobs
  PROVE  Rest'
<1> USE Given
<1> DEFINE i == web[t].imp
<1>1. /\ web[t].at = "launch" /\ i \in Import /\ WebGoes(t, "failed")
      /\ jobs[i] = "queued" /\ jobs' = [jobs EXCEPT ![i] = "ended"]
      /\ cleaner' = [cleaner EXCEPT ![i] = "json"]
      /\ UNCHANGED <<json, upload, claim, born, written, held, told, applied, gc, runner>>
  BY DEF LaunchJob, files, JobEnds
<1>2. /\ web'[t].at = "failed" /\ web'[t].imp = i /\ web'[t].why = web[t].why
      /\ \A u \in Worker \ {t} : web'[u] = web[u]
  BY <1>1, WebMoves DEF WebPlace
<1>3. /\ jobs'[i] = "ended" /\ \A j \in Import \ {i} : jobs'[j] = jobs[j]
      /\ cleaner'[i] = "json" /\ \A j \in Import \ {i} : cleaner'[j] = cleaner[j]
  BY <1>1 DEF JobsOK
<1>4. web[t].why # "cancelled" /\ json[i] # "plain" /\ told[i] = "preview" /\ runner[i] = "none"
  BY <1>1 DEF Emptied, Cancelling, PlainHasNoJob, Unseen, Previewing, JobParts
<1> HIDE DEF i
<1>5. Unseen'
  BY <1>1, <1>2, <1>3, <1>4 DEF Unseen, Previewing, i
<1>6. Once'
  BY <1>1, <1>2, <1>3, <1>4 DEF Once, i
<1>7. Untouched'
  BY <1>1, <1>2, <1>3, <1>4 DEF Untouched, Previewing, i
<1>8. InGoodTime'
  BY <1>1, <1>2, <1>3, <1>4 DEF InGoodTime, Previewing, i
<1>9. HoldersAlone'
  BY <1>1, <1>2, <1>3, <1>4 DEF HoldersAlone, Holding, Unpublished, Cancelling,
     Alone, i
<1>10. FreshAlone'
  BY <1>1, <1>2, <1>3, <1>4 DEF FreshAlone, Alone, Fresh, Expired, i
<1>11. FreshKept'
  BY <1>1, <1>2, <1>3, <1>4 DEF FreshKept, Fresh, Expired, i
<1>12. Known'
  BY <1>1, <1>2, <1>3, <1>4 DEF Known, Unpublished, i
<1>13. Emptied'
  BY <1>1, <1>2, <1>3, <1>4 DEF Emptied, Cancelling, i
<1>14. PlainHasNoJob'
  BY <1>1, <1>2, <1>3, <1>4 DEF PlainHasNoJob, i
<1>15. RecordHasUpload'
  BY <1>1, <1>2, <1>3, <1>4 DEF RecordHasUpload, i
<1>16. Spared'
  BY <1>1, <1>2, <1>3, <1>4 DEF Spared, Waiting, i
<1> QED
  BY <1>5, <1>6, <1>7, <1>8, <1>9, <1>10, <1>11, <1>12, <1>13, <1>14, <1>15, <1>16 DEF Rest

(* A plan that cannot be written.                                          *)
LEMMA PlanFailsKeeps ==
  ASSUME ImportInv, NEW t \in Worker, WritePlan(t), json' = json
  PROVE  Rest'
<1> USE Given
<1> DEFINE i == web[t].imp
<1>1. /\ web[t].at = "write" /\ i \in Import
      /\ UNCHANGED <<json, upload, claim, born, written, held, told, applied, gc, jobs,
                     runner, cleaner>>
  <2>1. web[t].at = "write" /\ i \in Import /\ json[i] = "plain"
    BY DEF WritePlan, Known
  <2> QED
    BY <2>1 DEF WritePlan, WriteRecord, FilesOK
<1>2. web[t].at # "idle" /\ ~Previewing(t)
  BY <1>1 DEF Previewing
<1>3. Alone(t) /\ json[i] = "plain" /\ web[t].why # "cancelled"
  BY <1>1 DEF Holding, HoldersAlone, Known, Emptied, Cancelling
<1>4. WebGoes(t, "unclaim")
  BY <1>1, <1>3 DEF WritePlan, WriteRecord, FilesOK
<1>5. /\ web'[t].at = "unclaim" /\ web'[t].imp = i /\ web'[t].why = web[t].why
      /\ \A u \in Worker \ {t} : web'[u] = web[u]
  BY <1>1, <1>4, WebMoves DEF WebPlace
<1>6. Fits(t)'
  BY <1>1, <1>3, <1>5 DEF Fits, Holding, Unpublished, Cancelling
<1> QED
  BY <1>1, <1>2, <1>5, <1>6, MoveKeeps

(* The plan in the record, by the handler alone.                           *)
LEMMA WritePlanKeeps ==
  ASSUME ImportInv, NEW t \in Worker, WritePlan(t), json' # json
  PROVE  Rest'
<1> USE Given
<1> DEFINE i == web[t].imp
<1>1. /\ web[t].at = "write" /\ i \in Import /\ WebGoes(t, "start") /\ WriteRecord(i, "claimed")
      /\ UNCHANGED <<upload, claim, born, held, told, applied, gc, jobs, runner, cleaner>>
  BY DEF WritePlan
<1>2. /\ web'[t].at = "start" /\ web'[t].imp = i /\ web'[t].why = web[t].why
      /\ \A u \in Worker \ {t} : web'[u] = web[u]
  BY <1>1, WebMoves DEF WebPlace
<1>3. /\ json'[i] = "claimed" /\ written'[i] = 0
      /\ \A j \in Import \ {i} : json'[j] = json[j] /\ written'[j] = written[j]
  BY <1>1, Recording
<1>4. /\ json[i] = "plain" /\ upload[i] /\ claim[i] /\ web[t].why # "cancelled"
      /\ told[i] = "preview"
  BY <1>1, AloneWhere DEF Known, Emptied, Cancelling, Unseen, Previewing, Holding, Alone
<1>5. /\ \A u \in Worker \ {t} : web[u].imp # i
      /\ \A c \in Collector : gc[c].imp # i
      /\ jobs[i] = "none" /\ runner[i] = "none" /\ cleaner[i] = "none"
  BY <1>1, AloneWhere DEF Holding
<1>6. \A j \in Import : json'[j] = "plain" => json[j] = "plain"
  BY <1>3
<1> HIDE DEF i
<1>7. Unseen'
  BY <1>1, <1>2, <1>3, <1>4, <1>5, <1>6 DEF Unseen, Previewing, i
<1>8. Once'
  BY <1>1, <1>2, <1>3, <1>4, <1>5, <1>6 DEF Once, i
<1>9. Untouched'
  BY <1>1, <1>2, <1>3, <1>4, <1>5, <1>6 DEF Untouched, Previewing, i
<1>10. InGoodTime'
  BY <1>1, <1>2, <1>3, <1>4, <1>5, <1>6 DEF InGoodTime, Previewing, i, FilesOK
<1>11. HoldersAlone'
  BY <1>1, <1>2, <1>3, <1>4, <1>5, <1>6 DEF HoldersAlone, Holding, Unpublished, Cancelling,
     Alone, i
<1>12. FreshAlone'
  BY <1>1, <1>2, <1>3, <1>4, <1>5, <1>6 DEF FreshAlone, Alone, Fresh, Expired, i
<1>13. FreshKept'
  BY <1>1, <1>2, <1>3, <1>4, <1>5, <1>6 DEF FreshKept, Fresh, Expired, i
<1>14. Known'
  BY <1>1, <1>2, <1>3, <1>4, <1>5, <1>6 DEF Known, Unpublished, i
<1>15. Emptied'
  BY <1>1, <1>2, <1>3, <1>4, <1>5, <1>6 DEF Emptied, Cancelling, i
<1>16. PlainHasNoJob'
  BY <1>1, <1>2, <1>3, <1>4, <1>5, <1>6 DEF PlainHasNoJob, i
<1>17. RecordHasUpload'
  BY <1>1, <1>2, <1>3, <1>4, <1>5, <1>6 DEF RecordHasUpload, i
<1>18. Spared'
  BY <1>1, <1>2, <1>3, <1>4, <1>5, <1>6 DEF Spared, Waiting, i
<1> QED
  BY <1>7, <1>8, <1>9, <1>10, <1>11, <1>12, <1>13, <1>14, <1>15, <1>16, <1>17, <1>18
     DEF Rest

(* The record without its plan again, by the handler alone.                *)
LEMMA ReleaseKeeps ==
  ASSUME ImportInv, NEW t \in Worker, ReleaseClaim(t)
  PROVE  Rest'
<1> USE Given
<1> DEFINE i == web[t].imp
<1>1. /\ web[t].at = "release" /\ i \in Import /\ WebGoes(t, "unclaim") /\ WriteRecord(i, "plain")
      /\ UNCHANGED <<upload, claim, born, held, told, applied, gc, jobs, runner, cleaner>>
  BY DEF ReleaseClaim
<1>2. /\ web'[t].at = "unclaim" /\ web'[t].imp = i /\ web'[t].why = web[t].why
      /\ \A u \in Worker \ {t} : web'[u] = web[u]
  BY <1>1, WebMoves DEF WebPlace
<1>3. /\ json'[i] = "plain" /\ written'[i] = 0
      /\ \A j \in Import \ {i} : json'[j] = json[j] /\ written'[j] = written[j]
  BY <1>1, Recording
<1>4. /\ json[i] = "claimed" /\ upload[i] /\ claim[i] /\ web[t].why # "cancelled"
      /\ told[i] = "preview"
  BY <1>1, AloneWhere DEF Known, Emptied, Cancelling, Unseen, Previewing, Holding, Alone,
     Unpublished
<1>5. /\ \A u \in Worker \ {t} : web[u].imp # i
      /\ \A c \in Collector : gc[c].imp # i
      /\ jobs[i] = "none" /\ runner[i] = "none" /\ cleaner[i] = "none"
  BY <1>1, AloneWhere DEF Holding, Unpublished
<1> HIDE DEF i
<1>6. Unseen'
  BY <1>1, <1>2, <1>3, <1>4, <1>5 DEF Unseen, Previewing, i
<1>7. Once'
  BY <1>1, <1>2, <1>3, <1>4, <1>5 DEF Once, i
<1>8. Untouched'
  BY <1>1, <1>2, <1>3, <1>4, <1>5 DEF Untouched, Previewing, i
<1>9. InGoodTime'
  BY <1>1, <1>2, <1>3, <1>4, <1>5 DEF InGoodTime, Previewing, i, FilesOK
<1>10. HoldersAlone'
  BY <1>1, <1>2, <1>3, <1>4, <1>5 DEF HoldersAlone, Holding, Unpublished, Cancelling,
     Alone, i
<1>11. FreshAlone'
  BY <1>1, <1>2, <1>3, <1>4, <1>5 DEF FreshAlone, Alone, Fresh, Expired, i
<1>12. FreshKept'
  BY <1>1, <1>2, <1>3, <1>4, <1>5 DEF FreshKept, Fresh, Expired, i
<1>13. Known'
  BY <1>1, <1>2, <1>3, <1>4, <1>5 DEF Known, Unpublished, i
<1>14. Emptied'
  BY <1>1, <1>2, <1>3, <1>4, <1>5 DEF Emptied, Cancelling, i
<1>15. PlainHasNoJob'
  BY <1>1, <1>2, <1>3, <1>4, <1>5 DEF PlainHasNoJob, i
<1>16. RecordHasUpload'
  BY <1>1, <1>2, <1>3, <1>4, <1>5 DEF RecordHasUpload, i
<1>17. Spared'
  BY <1>1, <1>2, <1>3, <1>4, <1>5 DEF Spared, Waiting, i
<1> QED
  BY <1>6, <1>7, <1>8, <1>9, <1>10, <1>11, <1>12, <1>13, <1>14, <1>15, <1>16, <1>17 DEF Rest

(* A thread's discard, one file.                                           *)
LEMMA WebDiscardKeeps ==
  ASSUME ImportInv, NEW t \in Worker, WebDiscard(t)
  PROVE  Rest'
<1> USE Given
<1> DEFINE i == web[t].imp
           at == web[t].at
           next == AfterUnlink(at, "unclaim")
<1>1. /\ at \in {"json", "upload", "claim"} /\ i \in Import /\ WebGoes(t, next) /\ Unlink(i, at)
      /\ UNCHANGED <<told, applied, gc, jobs, runner, cleaner>>
  BY DEF WebDiscard
<1>2. /\ at = "json" => next = "upload"
      /\ at = "upload" => next = "claim"
      /\ at = "claim" => next = "unclaim"
  BY DEF AfterUnlink
<1>3. /\ web'[t].at = next /\ web'[t].imp = i /\ web'[t].why = web[t].why
      /\ \A u \in Worker \ {t} : web'[u] = web[u]
  BY <1>1, <1>2, WebMoves DEF WebPlace
<1>4. /\ UNCHANGED <<born, written, held>>
      /\ json'[i] = "none"
      /\ at # "json" => json' = json
      /\ at # "upload" => upload' = upload
      /\ at # "claim" => claim' = claim
      /\ \A j \in Import \ {i} :
           json'[j] = json[j] /\ upload'[j] = upload[j] /\ claim'[j] = claim[j]
      /\ upload'[i] => upload[i]
      /\ claim'[i] => claim[i]
  BY <1>1, Unlinking, ZenonT(60) DEF Emptied
<1>5. ~Waiting(i) \/ at = "claim"
  BY <1>1 DEF Spared
<1>6. told[i] \in {"preview", "cancelled"}
  BY <1>1 DEF Unseen, Previewing
<1>7. Cancelling(t) => /\ \A u \in Worker \ {t} : web[u].imp # i
                       /\ \A c \in Collector : gc[c].imp # i
                       /\ jobs[i] = "none"
  BY <1>1, AloneWhere DEF Holding
<1>8. web[t].why = "cancelled" => Cancelling(t)
  BY <1>1 DEF Cancelling
<1>9. \A u \in Worker \ {t} : Holding(u) => web[u].imp # i
  BY <1>1, AloneWhere
<1>10. \A u \in Worker : Previewing(u) => web[u].imp # i
  BY <1>6 DEF Unseen, Previewing
<1> HIDE DEF i, at, next
<1>11. Unseen'
  BY <1>1, <1>2, <1>3, <1>4, <1>5, <1>6, <1>7, <1>8, <1>9 DEF Unseen, Previewing, i, at
<1>12. Once'
  BY <1>1, <1>2, <1>3, <1>4, <1>5, <1>6, <1>7, <1>8, <1>9 DEF Once, i, at
<1>13. Untouched'
  BY <1>1, <1>2, <1>3, <1>4, <1>6, <1>10 DEF Untouched, Previewing, i, at
<1>14. InGoodTime'
  BY <1>1, <1>2, <1>3, <1>4, <1>5, <1>6, <1>7, <1>8, <1>9 DEF InGoodTime, Previewing, i, at
<1>15. HoldersAlone'
  BY <1>1, <1>2, <1>3, <1>4, <1>5, <1>6, <1>7, <1>8, <1>9
     DEF HoldersAlone, Holding, Unpublished, Cancelling,
     Alone, i, at
<1>16. FreshAlone'
  BY <1>1, <1>2, <1>3, <1>4, <1>5, <1>6, <1>7, <1>8, <1>9
     DEF FreshAlone, Alone, Fresh, Expired, i, at
<1>17. FreshKept'
  BY <1>1, <1>2, <1>3, <1>4, <1>5, <1>6, <1>7, <1>8, <1>9
     DEF FreshKept, Fresh, Expired, i, at
<1>18. Known'
  BY <1>1, <1>2, <1>3, <1>4, <1>5, <1>6, <1>7, <1>8, <1>9
     DEF Known, Unpublished, Holding, i, at
<1>19. Emptied'
  BY <1>1, <1>2, <1>3, <1>4, <1>5, <1>6, <1>7, <1>8, <1>9 DEF Emptied, Cancelling, i, at
<1>20. PlainHasNoJob'
  BY <1>1, <1>2, <1>3, <1>4, <1>5, <1>6, <1>7, <1>8, <1>9 DEF PlainHasNoJob, i, at
<1>21. RecordHasUpload'
  BY <1>1, <1>2, <1>3, <1>4, <1>5, <1>6, <1>7, <1>8, <1>9 DEF RecordHasUpload, i, at
<1>22. Spared'
  BY <1>1, <1>2, <1>3, <1>4, <1>5, <1>6, <1>7, <1>8, <1>9 DEF Spared, Waiting, i, at
<1> QED
  BY <1>11, <1>12, <1>13, <1>14, <1>15, <1>16, <1>17, <1>18,
     <1>19, <1>20, <1>21, <1>22 DEF Rest

(* A handler's last word.                                                  *)
LEMMA UnclaimKeeps ==
  ASSUME ImportInv, NEW t \in Worker, Unclaim(t)
  PROVE  Rest'
<1> USE Given
<1> DEFINE i == web[t].imp
<1>1. /\ web[t].at = "unclaim" /\ i \in Import /\ WebEnds(t) /\ Unlink(i, "claim")
      /\ UNCHANGED <<applied, gc, jobs, runner, cleaner>>
  BY DEF Unclaim
<1>2. /\ web'[t].at = "idle" /\ web'[t].imp = NoImport /\ web'[t].why = "none"
      /\ \A u \in Worker \ {t} : web'[u] = web[u]
  BY <1>1, WebMoves
<1>3. /\ UNCHANGED <<json, upload, born, written, held>> /\ ~claim'[i]
      /\ \A j \in Import \ {i} : claim'[j] = claim[j]
  BY <1>1, Unlinking
<1>4. /\ told[i] \in {"preview", "cancelled"}
      /\ told'[i] \in {told[i], "cancelled"}
      /\ told'[i] = "cancelled" => json[i] = "none" /\ jobs[i] = "none"
      /\ \A j \in Import \ {i} : told'[j] = told[j]
  BY <1>1 DEF Unclaim, TellingOK, Unseen, Previewing, Emptied, Cancelling
<1>5. \A u \in Worker \ {t} : Holding(u) => web[u].imp # i
  BY <1>1, AloneWhere
<1>6. Fresh(i) => Alone(t)
  BY <1>1 DEF FreshAlone
<1> HIDE DEF i
<1>7. Unseen'
  BY <1>1, <1>2, <1>3, <1>4, <1>5, <1>6 DEF Unseen, Previewing, i
<1>8. Once'
  BY <1>1, <1>2, <1>3, <1>4, <1>5, <1>6 DEF Once, i
<1>9. Untouched'
  BY <1>1, <1>2, <1>3, <1>4, <1>5, <1>6 DEF Untouched, Previewing, i
<1>10. InGoodTime'
  BY <1>1, <1>2, <1>3, <1>4, <1>5, <1>6 DEF InGoodTime, Previewing, i, FilesOK
<1>11. HoldersAlone'
  BY <1>1, <1>2, <1>3, <1>4, <1>5, <1>6 DEF HoldersAlone, Holding, Unpublished, Cancelling,
     Alone, i
<1>12. FreshAlone'
  BY <1>1, <1>2, <1>3, <1>4, <1>5, <1>6 DEF FreshAlone, Alone, Fresh, Expired, i
<1>13. FreshKept'
  BY <1>1, <1>2, <1>3, <1>4, <1>5, <1>6 DEF FreshKept, Fresh, Expired, i
<1>14. Known'
  BY <1>1, <1>2, <1>3, <1>4, <1>5, <1>6 DEF Known, Unpublished, i
<1>15. Emptied'
  BY <1>1, <1>2, <1>3, <1>4, <1>5, <1>6 DEF Emptied, Cancelling, i
<1>16. PlainHasNoJob'
  BY <1>1, <1>2, <1>3, <1>4, <1>5, <1>6 DEF PlainHasNoJob, i
<1>17. RecordHasUpload'
  BY <1>1, <1>2, <1>3, <1>4, <1>5, <1>6 DEF RecordHasUpload, i
<1>18. Spared'
  BY <1>1, <1>2, <1>3, <1>4, <1>5, <1>6 DEF Spared, Waiting, i
<1> QED
  BY <1>7, <1>8, <1>9, <1>10, <1>11, <1>12, <1>13, <1>14, <1>15, <1>16, <1>17, <1>18
     DEF Rest

-----------------------------------------------------------------------------
(* The collectors.                                                         *)

(* Where a collector is, no handler relies on being alone.                 *)
LEMMA Collected ==
  ASSUME ImportInv, NEW c \in Collector, gc[c].at # "idle"
  PROVE  /\ gc[c].imp \in Import /\ ~Fresh(gc[c].imp) /\ told[gc[c].imp] # "nothing"
         /\ \A t \in Worker : Holding(t) \/ Previewing(t) => web[t].imp # gc[c].imp
<1> USE Given
<1>1. gc[c].imp \in Import
  OBVIOUS
<1>2. ~Fresh(gc[c].imp) /\ told[gc[c].imp] # "nothing"
  BY <1>1 DEF FreshKept, Untouched
<1>3. \A t \in Worker : Holding(t) => web[t].imp # gc[c].imp
  BY AloneWhere
<1>4. \A t \in Worker : Previewing(t) => web[t].imp # gc[c].imp
  BY DEF Untouched
<1> QED
  BY <1>1, <1>2, <1>3, <1>4

(* A collector begins only where nothing is young, and no handler busy.    *)
LEMMA GcClaimKeeps ==
  ASSUME ImportInv, NEW c \in Collector, GcClaim(c)
  PROVE  Rest'
<1> USE Given
<1>1. PICK i \in Import :
        /\ gc[c] = Idle /\ (json[i] # "none" \/ upload[i] \/ claim[i]) /\ Outdated(i)
        /\ claim[i] => Stealable(i)
        /\ gc' = [gc EXCEPT ![c] = [at |-> IF claim[i] THEN "move" ELSE "read",
                                    imp |-> i, why |-> "gc"]]
        /\ IF claim[i] THEN UNCHANGED <<claim, held>> ELSE NewClaim(i)
        /\ UNCHANGED <<json, upload, born, written, told, applied, web, jobs, runner,
                       cleaner>>
  BY DEF GcClaim
<1>2. /\ gc'[c].at \in {"move", "read"} /\ gc'[c].imp = i
      /\ \A d \in Collector \ {c} : gc'[d] = gc[d]
  BY <1>1 DEF GcOK
<1>3. /\ claim'[i] /\ held'[i] \in {0, held[i]}
      /\ \A j \in Import \ {i} : claim'[j] = claim[j] /\ held'[j] = held[j]
  BY <1>1, Claiming DEF FilesOK
<1>4. ~Fresh(i) /\ told[i] # "nothing"
  BY <1>1, ImportAssumption
     DEF Outdated, Fresh, Expired, InGoodTime, Unseen, Untouched, FilesOK
<1>5. \A t \in Worker : Holding(t) \/ Previewing(t) => web[t].imp # i
  <2>1. \A t \in Worker : Previewing(t) => web[t].imp # i
    BY <1>1, ImportAssumption DEF Outdated, Untouched, FilesOK
  <2>2. \A t \in Worker : Holding(t) => web[t].imp # i
    BY <1>1, AloneWhere, ImportAssumption
       DEF Alone, Stealable, InGoodTime, Holding, Unpublished, Cancelling,
       Previewing, FilesOK
  <2> QED
    BY <2>1, <2>2
<1>6. ClaimTTL > 0
  BY ImportAssumption
<1>7. Unseen'
  BY <1>1, <1>2, <1>3, <1>4, <1>5, <1>6 DEF Unseen, Previewing
<1>8. Once'
  BY <1>1, <1>2, <1>3, <1>4, <1>5, <1>6 DEF Once
<1>9. Untouched'
  BY <1>1, <1>2, <1>3, <1>4, <1>5, <1>6 DEF Untouched, Previewing
<1>10. InGoodTime'
  BY <1>1, <1>2, <1>3, <1>4, <1>5, <1>6 DEF InGoodTime, Previewing
<1>11. HoldersAlone'
  BY <1>1, <1>2, <1>3, <1>4, <1>5, <1>6 DEF HoldersAlone, Holding, Unpublished, Cancelling,
     Alone
<1>12. FreshAlone'
  BY <1>1, <1>2, <1>3, <1>4, <1>5, <1>6 DEF FreshAlone, Alone, Fresh, Expired
<1>13. FreshKept'
  BY <1>1, <1>2, <1>3, <1>4, <1>5, <1>6 DEF FreshKept, Fresh, Expired
<1>14. Known'
  BY <1>1, <1>2, <1>3, <1>4, <1>5, <1>6 DEF Known, Unpublished
<1>15. Emptied'
  BY <1>1, <1>2, <1>3, <1>4, <1>5, <1>6 DEF Emptied, Cancelling
<1>16. PlainHasNoJob'
  BY <1>1, <1>2, <1>3, <1>4, <1>5, <1>6 DEF PlainHasNoJob
<1>17. RecordHasUpload'
  BY <1>1, <1>2, <1>3, <1>4, <1>5, <1>6 DEF RecordHasUpload
<1>18. Spared'
  BY <1>1, <1>2, <1>3, <1>4, <1>5, <1>6 DEF Spared, Waiting
<1> QED
  BY <1>7, <1>8, <1>9, <1>10, <1>11, <1>12, <1>13, <1>14, <1>15, <1>16, <1>17, <1>18
     DEF Rest

(* Whatever claim is there is moved away.                                  *)
LEMMA GcMoveKeeps ==
  ASSUME ImportInv, NEW c \in Collector, GcMove(c)
  PROVE  Rest'
<1> USE Given
<1> DEFINE i == gc[c].imp
<1>1. /\ gc[c].at = "move" /\ i \in Import /\ Unlink(i, "claim")
      /\ GcGoes(c, "create") \/ GcEnds(c)
      /\ UNCHANGED <<told, applied, web, jobs, runner, cleaner>>
  BY DEF GcMove
<1>2. /\ \/ gc'[c].at = "create" /\ gc'[c].imp = i
         \/ gc'[c].at = "idle" /\ gc'[c].imp = NoImport
      /\ \A d \in Collector \ {c} : gc'[d] = gc[d]
  BY <1>1, GcMoves DEF GcPlace, GcEnds
<1>3. /\ UNCHANGED <<json, upload, born, written, held>> /\ ~claim'[i]
      /\ \A j \in Import \ {i} : claim'[j] = claim[j]
  BY <1>1, Unlinking
<1>4. /\ i \in Import /\ ~Fresh(i) /\ told[i] # "nothing"
      /\ \A t \in Worker : Holding(t) \/ Previewing(t) => web[t].imp # i
  BY <1>1, Collected
<1> HIDE DEF i
<1>5. Unseen'
  BY <1>1, <1>2, <1>3, <1>4 DEF Unseen, Previewing, i
<1>6. Once'
  BY <1>1, <1>2, <1>3, <1>4 DEF Once, i
<1>7. Untouched'
  BY <1>1, <1>2, <1>3, <1>4 DEF Untouched, Previewing, i
<1>8. InGoodTime'
  BY <1>1, <1>2, <1>3, <1>4 DEF InGoodTime, Previewing, i
<1>9. HoldersAlone'
  BY <1>1, <1>2, <1>3, <1>4 DEF HoldersAlone, Holding, Unpublished, Cancelling,
     Alone, i
<1>10. FreshAlone'
  BY <1>1, <1>2, <1>3, <1>4 DEF FreshAlone, Alone, Fresh, Expired, i
<1>11. FreshKept'
  BY <1>1, <1>2, <1>3, <1>4 DEF FreshKept, Fresh, Expired, i
<1>12. Known'
  BY <1>1, <1>2, <1>3, <1>4 DEF Known, Unpublished, i
<1>13. Emptied'
  BY <1>1, <1>2, <1>3, <1>4 DEF Emptied, Cancelling, i
<1>14. PlainHasNoJob'
  BY <1>1, <1>2, <1>3, <1>4 DEF PlainHasNoJob, i
<1>15. RecordHasUpload'
  BY <1>1, <1>2, <1>3, <1>4 DEF RecordHasUpload, i
<1>16. Spared'
  BY <1>1, <1>2, <1>3, <1>4 DEF Spared, Waiting, i
<1> QED
  BY <1>5, <1>6, <1>7, <1>8, <1>9, <1>10, <1>11, <1>12, <1>13, <1>14, <1>15, <1>16 DEF Rest

(* A claim of its own, if nobody was faster.                               *)
LEMMA GcCreateKeeps ==
  ASSUME ImportInv, NEW c \in Collector, GcCreate(c)
  PROVE  Rest'
<1> USE Given
<1> DEFINE i == gc[c].imp
<1>1. /\ gc[c].at = "create" /\ i \in Import
      /\ \/ GcEnds(c) /\ UNCHANGED <<claim, held>>
         \/ GcGoes(c, "read") /\ NewClaim(i) /\ ~claim[i]
      /\ UNCHANGED <<json, upload, born, written, told, applied, web, jobs, runner,
                     cleaner>>
  BY DEF GcCreate
<1>2. /\ \/ gc'[c].at = "read" /\ gc'[c].imp = i
         \/ gc'[c].at = "idle" /\ gc'[c].imp = NoImport
      /\ \A d \in Collector \ {c} : gc'[d] = gc[d]
  BY <1>1, GcMoves DEF GcPlace, GcEnds
<1>3. /\ held'[i] \in {0, held[i]}
      /\ \A j \in Import \ {i} : claim'[j] = claim[j] /\ held'[j] = held[j]
  BY <1>1, Claiming DEF FilesOK
<1>4. /\ i \in Import /\ ~Fresh(i) /\ told[i] # "nothing"
      /\ \A t \in Worker : Holding(t) \/ Previewing(t) => web[t].imp # i
  BY <1>1, Collected
<1> HIDE DEF i
<1>5. ClaimTTL > 0
  BY ImportAssumption
<1>6. Unseen'
  BY <1>1, <1>2, <1>3, <1>4, <1>5 DEF Unseen, Previewing, i
<1>7. Once'
  BY <1>1, <1>2, <1>3, <1>4, <1>5 DEF Once, i
<1>8. Untouched'
  BY <1>1, <1>2, <1>3, <1>4, <1>5 DEF Untouched, Previewing, i
<1>9. InGoodTime'
  BY <1>1, <1>2, <1>3, <1>4, <1>5 DEF InGoodTime, Previewing, i
<1>10. HoldersAlone'
  BY <1>1, <1>2, <1>3, <1>4, <1>5 DEF HoldersAlone, Holding, Unpublished, Cancelling,
     Alone, i
<1>11. FreshAlone'
  BY <1>1, <1>2, <1>3, <1>4, <1>5 DEF FreshAlone, Alone, Fresh, Expired, i
<1>12. FreshKept'
  BY <1>1, <1>2, <1>3, <1>4, <1>5 DEF FreshKept, Fresh, Expired, i
<1>13. Known'
  BY <1>1, <1>2, <1>3, <1>4, <1>5 DEF Known, Unpublished, i
<1>14. Emptied'
  BY <1>1, <1>2, <1>3, <1>4, <1>5 DEF Emptied, Cancelling, i
<1>15. PlainHasNoJob'
  BY <1>1, <1>2, <1>3, <1>4, <1>5 DEF PlainHasNoJob, i
<1>16. RecordHasUpload'
  BY <1>1, <1>2, <1>3, <1>4, <1>5 DEF RecordHasUpload, i
<1>17. Spared'
  BY <1>1, <1>2, <1>3, <1>4, <1>5 DEF Spared, Waiting, i
<1> QED
  BY <1>6, <1>7, <1>8, <1>9, <1>10, <1>11, <1>12, <1>13, <1>14, <1>15, <1>16, <1>17 DEF Rest

(* Only what is protected no more is removed.                              *)
LEMMA GcReadKeeps ==
  ASSUME ImportInv, NEW c \in Collector, GcRead(c)
  PROVE  Rest'
<1> USE Given
<1> DEFINE i == gc[c].imp
<1>1. /\ gc[c].at = "read" /\ i \in Import
      /\ GcGoes(c, IF Protected(i) THEN "claim" ELSE "json")
      /\ UNCHANGED <<json, upload, claim, born, written, held, told, applied, web, jobs,
                     runner, cleaner>>
  BY DEF GcRead, files
<1>2. /\ gc'[c].at = (IF Protected(i) THEN "claim" ELSE "json") /\ gc'[c].imp = i
      /\ \A d \in Collector \ {c} : gc'[d] = gc[d]
  <2>1. (IF Protected(i) THEN "claim" ELSE "json") \in GcPlace \ {"idle"}
    BY DEF GcPlace
  <2> QED
    BY <1>1, <2>1, GcMoves
<1>3. Waiting(i) => Protected(i)
  BY <1>1 DEF Spared, Waiting, Protected, ActiveClaim
<1>4. /\ i \in Import /\ ~Fresh(i) /\ told[i] # "nothing"
      /\ \A t \in Worker : Holding(t) \/ Previewing(t) => web[t].imp # i
  BY <1>1, Collected
<1> HIDE DEF i
<1>5. Unseen'
  BY <1>1, <1>2, <1>3, <1>4 DEF Unseen, Previewing, i
<1>6. Once'
  BY <1>1, <1>2, <1>3, <1>4 DEF Once, i
<1>7. Untouched'
  BY <1>1, <1>2, <1>3, <1>4 DEF Untouched, Previewing, i
<1>8. InGoodTime'
  BY <1>1, <1>2, <1>3, <1>4 DEF InGoodTime, Previewing, i
<1>9. HoldersAlone'
  BY <1>1, <1>2, <1>3, <1>4 DEF HoldersAlone, Holding, Unpublished, Cancelling,
     Alone, i
<1>10. FreshAlone'
  BY <1>1, <1>2, <1>3, <1>4 DEF FreshAlone, Alone, Fresh, Expired, i
<1>11. FreshKept'
  BY <1>1, <1>2, <1>3, <1>4 DEF FreshKept, Fresh, Expired, i
<1>12. Known'
  BY <1>1, <1>2, <1>3, <1>4 DEF Known, Unpublished, i
<1>13. Emptied'
  BY <1>1, <1>2, <1>3, <1>4 DEF Emptied, Cancelling, i
<1>14. PlainHasNoJob'
  BY <1>1, <1>2, <1>3, <1>4 DEF PlainHasNoJob, i
<1>15. RecordHasUpload'
  BY <1>1, <1>2, <1>3, <1>4 DEF RecordHasUpload, i
<1>16. Spared'
  BY <1>1, <1>2, <1>3, <1>4 DEF Spared, Waiting, i
<1> QED
  BY <1>5, <1>6, <1>7, <1>8, <1>9, <1>10, <1>11, <1>12, <1>13, <1>14, <1>15, <1>16 DEF Rest

(* A collector's discard, one file.                                        *)
LEMMA GcUnlinkKeeps ==
  ASSUME ImportInv, NEW c \in Collector, GcUnlink(c)
  PROVE  Rest'
<1> USE Given
<1> DEFINE i == gc[c].imp
           at == gc[c].at
<1>1. /\ at \in {"json", "upload", "claim"} /\ i \in Import /\ Unlink(i, at)
      /\ UNCHANGED <<told, applied, web, jobs, runner, cleaner>>
  BY DEF GcUnlink
<1>2. /\ \/ at = "json" /\ gc'[c].at = "upload" /\ gc'[c].imp = i
         \/ at = "upload" /\ gc'[c].at = "claim" /\ gc'[c].imp = i
         \/ at = "claim" /\ gc'[c].at = "idle" /\ gc'[c].imp = NoImport
      /\ \A d \in Collector \ {c} : gc'[d] = gc[d]
  <2>1. CASE at = "claim"
    BY <2>1, GcMoves DEF GcUnlink, GcEnds
  <2>2. CASE at \in {"json", "upload"}
    <3>1. AfterUnlink(at, "idle") = IF at = "json" THEN "upload" ELSE "claim"
      BY <2>2 DEF AfterUnlink
    <3>2. GcGoes(c, IF at = "json" THEN "upload" ELSE "claim")
      BY <2>2, <3>1 DEF GcUnlink
    <3>3. (IF at = "json" THEN "upload" ELSE "claim") \in GcPlace \ {"idle"}
      BY DEF GcPlace
    <3> QED
      BY <2>2, <3>2, <3>3, GcMoves
  <2> QED
    BY <1>1, <2>1, <2>2
<1>3. /\ UNCHANGED <<born, written, held>>
      /\ json'[i] \in {"none", json[i]} /\ (at # "claim" => json'[i] = "none")
      /\ at # "json" => json' = json
      /\ at # "upload" => upload' = upload
      /\ at # "claim" => claim' = claim
      /\ \A j \in Import \ {i} :
           json'[j] = json[j] /\ upload'[j] = upload[j] /\ claim'[j] = claim[j]
      /\ upload'[i] => upload[i]
      /\ claim'[i] => claim[i]
  BY <1>1, Unlinking, ZenonT(60) DEF Emptied
<1>4. /\ i \in Import /\ ~Fresh(i) /\ told[i] # "nothing"
      /\ \A t \in Worker : Holding(t) \/ Previewing(t) => web[t].imp # i
  BY <1>1, Collected
<1>5. ~Waiting(i) \/ at = "claim"
  BY <1>1 DEF Spared
<1> HIDE DEF i, at
<1>6. Unseen'
  BY <1>1, <1>2, <1>3, <1>4, <1>5 DEF Unseen, Previewing, i, at
<1>7. Once'
  BY <1>1, <1>2, <1>3, <1>4, <1>5 DEF Once, i, at
<1>8. Untouched'
  BY <1>1, <1>2, <1>3, <1>4, <1>5 DEF Untouched, Previewing, i, at
<1>9. InGoodTime'
  BY <1>1, <1>2, <1>3, <1>4, <1>5 DEF InGoodTime, Previewing, i, at
<1>10. HoldersAlone'
  BY <1>1, <1>2, <1>3, <1>4, <1>5 DEF HoldersAlone, Holding, Unpublished, Cancelling,
     Alone, i, at
<1>11. FreshAlone'
  BY <1>1, <1>2, <1>3, <1>4, <1>5 DEF FreshAlone, Alone, Fresh, Expired, i, at
<1>12. FreshKept'
  BY <1>1, <1>2, <1>3, <1>4, <1>5 DEF FreshKept, Fresh, Expired, i, at
<1>13. Known'
  BY <1>1, <1>2, <1>3, <1>4, <1>5 DEF Known, Unpublished, Holding, i, at
<1>14. Emptied'
  BY <1>1, <1>2, <1>3, <1>4, <1>5 DEF Emptied, Cancelling, i, at
<1>15. PlainHasNoJob'
  BY <1>1, <1>2, <1>3, <1>4, <1>5 DEF PlainHasNoJob, i, at
<1>16. RecordHasUpload'
  BY <1>1, <1>2, <1>3, <1>4, <1>5 DEF RecordHasUpload, i, at
<1>17. Spared'
  BY <1>1, <1>2, <1>3, <1>4, <1>5 DEF Spared, Waiting, i, at
<1> QED
  BY <1>6, <1>7, <1>8, <1>9, <1>10, <1>11, <1>12, <1>13, <1>14, <1>15, <1>16, <1>17 DEF Rest

-----------------------------------------------------------------------------
(* The processes of a job.                                                 *)

(* What a job, active or not, keeps away from its import.                  *)
LEMMA Employed ==
  ASSUME ImportInv, NEW i \in Import, jobs[i] # "none"
  PROVE  /\ json[i] # "plain" /\ told[i] = "preview"
         /\ \A t \in Worker : Holding(t) \/ Previewing(t) => web[t].imp # i
         /\ \A t \in Worker : web[t].why = "cancelled" => web[t].imp # i
<1> USE Given
<1>1. json[i] # "plain" /\ told[i] = "preview"
  BY DEF PlainHasNoJob, Unseen, Emptied, TellingOK, Told
<1>2. \A t \in Worker : Holding(t) => web[t].imp # i
  BY AloneWhere
<1>3. \A t \in Worker : Previewing(t) => web[t].imp # i
  BY <1>1 DEF Unseen, Previewing
<1>4. \A t \in Worker : web[t].why = "cancelled" => web[t].imp # i
  BY <1>2 DEF Emptied, Holding
<1> QED
  BY <1>1, <1>2, <1>3, <1>4

(* A job begins.                                                           *)
LEMMA RunnerBeginsKeeps ==
  ASSUME ImportInv, NEW i \in Import, RunnerBegins(i)
  PROVE  Rest'
<1> USE Given
<1>1. /\ jobs[i] = "queued" /\ jobs' = [jobs EXCEPT ![i] = "running"]
      /\ runner' = [runner EXCEPT ![i] = "read"]
      /\ UNCHANGED <<json, upload, claim, born, written, held, told, applied, web, gc,
                     cleaner>>
  BY DEF RunnerBegins, RunnerGoes, files
<1>2. /\ jobs'[i] = "running" /\ runner'[i] = "read"
      /\ \A j \in Import \ {i} : jobs'[j] = jobs[j] /\ runner'[j] = runner[j]
  BY <1>1 DEF JobsOK
<1>9. /\ json[i] # "plain" /\ told[i] = "preview"
      /\ \A t \in Worker : Holding(t) \/ Previewing(t) => web[t].imp # i
      /\ \A t \in Worker : web[t].why = "cancelled" => web[t].imp # i
  BY <1>1, Employed DEF JobParts
<1>10. Unseen'
  BY <1>1, <1>2, <1>9 DEF Unseen, Previewing
<1>11. Once'
  BY <1>1, <1>2, <1>9 DEF Once
<1>12. Untouched'
  BY <1>1, <1>2, <1>9 DEF Untouched, Previewing
<1>13. InGoodTime'
  BY <1>1, <1>2, <1>9 DEF InGoodTime, Previewing
<1>14. HoldersAlone'
  BY <1>1, <1>2, <1>9 DEF HoldersAlone, Holding, Unpublished, Cancelling,
     Alone
<1>15. FreshAlone'
  BY <1>1, <1>2, <1>9 DEF FreshAlone, Alone, Fresh, Expired
<1>16. FreshKept'
  BY <1>1, <1>2, <1>9 DEF FreshKept, Fresh, Expired
<1>17. Known'
  BY <1>1, <1>2, <1>9 DEF Known, Unpublished
<1>18. Emptied'
  BY <1>1, <1>2, <1>9 DEF Emptied, Cancelling
<1>19. PlainHasNoJob'
  BY <1>1, <1>2, <1>9 DEF PlainHasNoJob
<1>20. RecordHasUpload'
  BY <1>1, <1>2, <1>9 DEF RecordHasUpload
<1>21. Spared'
  BY <1>1, <1>2, <1>9 DEF Spared, Waiting
<1> QED
  BY <1>10, <1>11, <1>12, <1>13, <1>14, <1>15, <1>16, <1>17,
     <1>18, <1>19, <1>20, <1>21 DEF Rest

(* The runner reads and checks.                                            *)
LEMMA RunnerReadsKeeps ==
  ASSUME ImportInv, NEW i \in Import, ApplyRead(i) \/ ApplyCheck(i)
  PROVE  Rest'
<1> USE Given
<1>1. /\ runner[i] \in {"read", "check"} /\ jobs[i] # "none"
      /\ runner' = [runner EXCEPT ![i] = runner'[i]]
      /\ \/ runner'[i] \in {"check", "json"} /\ runner[i] = "read"
         \/ runner'[i] = "json" /\ runner[i] = "check"
         \/ runner'[i] = "commit" /\ runner[i] = "check"
      /\ UNCHANGED <<json, upload, claim, born, written, held, told, applied, web, gc,
                     jobs, cleaner>>
  BY DEF ApplyRead, ApplyCheck, RunnerGoes, files, JobsOK, JobParts
<1>2. \A j \in Import \ {i} : runner'[j] = runner[j]
  BY <1>1 DEF JobsOK
<1>9. /\ json[i] # "plain" /\ told[i] = "preview"
      /\ \A t \in Worker : Holding(t) \/ Previewing(t) => web[t].imp # i
      /\ \A t \in Worker : web[t].why = "cancelled" => web[t].imp # i
  BY <1>1, Employed DEF JobParts
<1>10. Unseen'
  BY <1>1, <1>2, <1>9 DEF Unseen, Previewing
<1>11. Once'
  BY <1>1, <1>2, <1>9 DEF Once
<1>12. Untouched'
  BY <1>1, <1>2, <1>9 DEF Untouched, Previewing
<1>13. InGoodTime'
  BY <1>1, <1>2, <1>9 DEF InGoodTime, Previewing
<1>14. HoldersAlone'
  BY <1>1, <1>2, <1>9 DEF HoldersAlone, Holding, Unpublished, Cancelling,
     Alone
<1>15. FreshAlone'
  BY <1>1, <1>2, <1>9 DEF FreshAlone, Alone, Fresh, Expired
<1>16. FreshKept'
  BY <1>1, <1>2, <1>9 DEF FreshKept, Fresh, Expired
<1>17. Known'
  BY <1>1, <1>2, <1>9 DEF Known, Unpublished
<1>18. Emptied'
  BY <1>1, <1>2, <1>9 DEF Emptied, Cancelling
<1>19. PlainHasNoJob'
  BY <1>1, <1>2, <1>9 DEF PlainHasNoJob
<1>20. RecordHasUpload'
  BY <1>1, <1>2, <1>9 DEF RecordHasUpload
<1>21. Spared'
  BY <1>1, <1>2, <1>9 DEF Spared, Waiting
<1> QED
  BY <1>10, <1>11, <1>12, <1>13, <1>14, <1>15, <1>16, <1>17,
     <1>18, <1>19, <1>20, <1>21 DEF Rest

(* The commit, or its failure.                                             *)
LEMMA ApplyCommitKeeps ==
  ASSUME ImportInv, NEW i \in Import, ApplyCommit(i)
  PROVE  Rest'
<1> USE Given
<1>1. /\ runner[i] = "commit" /\ jobs[i] # "none"
      /\ runner' = [runner EXCEPT ![i] = "json"]
      /\ applied' \in {applied, applied \cup {i}}
      /\ UNCHANGED <<json, upload, claim, born, written, held, told, web, gc, jobs, cleaner>>
  BY DEF ApplyCommit, RunnerGoes, files, JobsOK, JobParts
<1>2. runner'[i] = "json" /\ \A j \in Import \ {i} : runner'[j] = runner[j]
  BY <1>1 DEF JobsOK
<1>9. /\ json[i] # "plain" /\ told[i] = "preview"
      /\ \A t \in Worker : Holding(t) \/ Previewing(t) => web[t].imp # i
      /\ \A t \in Worker : web[t].why = "cancelled" => web[t].imp # i
  BY <1>1, Employed DEF JobParts
<1>10. Unseen'
  BY <1>1, <1>2, <1>9 DEF Unseen, Previewing
<1>11. Once'
  BY <1>1, <1>2, <1>9 DEF Once, JobParts
<1>12. Untouched'
  BY <1>1, <1>2, <1>9 DEF Untouched, Previewing
<1>13. InGoodTime'
  BY <1>1, <1>2, <1>9 DEF InGoodTime, Previewing
<1>14. HoldersAlone'
  BY <1>1, <1>2, <1>9 DEF HoldersAlone, Holding, Unpublished, Cancelling,
     Alone
<1>15. FreshAlone'
  BY <1>1, <1>2, <1>9 DEF FreshAlone, Alone, Fresh, Expired
<1>16. FreshKept'
  BY <1>1, <1>2, <1>9 DEF FreshKept, Fresh, Expired
<1>17. Known'
  BY <1>1, <1>2, <1>9 DEF Known, Unpublished
<1>18. Emptied'
  BY <1>1, <1>2, <1>9 DEF Emptied, Cancelling
<1>19. PlainHasNoJob'
  BY <1>1, <1>2, <1>9 DEF PlainHasNoJob
<1>20. RecordHasUpload'
  BY <1>1, <1>2, <1>9 DEF RecordHasUpload
<1>21. Spared'
  BY <1>1, <1>2, <1>9 DEF Spared, Waiting
<1> QED
  BY <1>10, <1>11, <1>12, <1>13, <1>14, <1>15, <1>16, <1>17,
     <1>18, <1>19, <1>20, <1>21 DEF Rest

(* The runner's discard, one file.                                         *)
LEMMA RunnerDiscardKeeps ==
  ASSUME ImportInv, NEW i \in Import, RunnerDiscard(i)
  PROVE  Rest'
<1> USE Given
<1> DEFINE at == runner[i]
<1>1. /\ at \in {"json", "upload", "claim"} /\ jobs[i] = "running" /\ Unlink(i, at)
      /\ runner' = [runner EXCEPT ![i] = AfterUnlink(at, "finish")]
      /\ UNCHANGED <<told, applied, web, gc, jobs, cleaner>>
  BY DEF RunnerDiscard, RunnerGoes, JobParts
<1>2. /\ \/ at = "json" /\ runner'[i] = "upload"
         \/ at = "upload" /\ runner'[i] = "claim"
         \/ at = "claim" /\ runner'[i] = "finish"
      /\ \A j \in Import \ {i} : runner'[j] = runner[j]
  BY <1>1 DEF JobsOK, AfterUnlink
<1>4. cleaner[i] = "none" /\ ~Waiting(i)
  BY <1>1 DEF JobParts, Waiting
<1>3. /\ UNCHANGED <<born, written, held>>
      /\ json'[i] \in {"none", json[i]} /\ (at # "claim" => json'[i] = "none")
      /\ at # "json" => json' = json
      /\ at # "upload" => upload' = upload
      /\ at # "claim" => claim' = claim
      /\ \A j \in Import \ {i} :
           json'[j] = json[j] /\ upload'[j] = upload[j] /\ claim'[j] = claim[j]
      /\ upload'[i] => upload[i]
      /\ claim'[i] => claim[i]
  BY <1>1, Unlinking DEF Emptied
<1>9. /\ json[i] # "plain" /\ told[i] = "preview"
      /\ \A t \in Worker : Holding(t) \/ Previewing(t) => web[t].imp # i
      /\ \A t \in Worker : web[t].why = "cancelled" => web[t].imp # i
  BY <1>1, Employed DEF JobParts
<1> HIDE DEF at
<1>10. Unseen'
  BY <1>1, <1>2, <1>3, <1>4, <1>9 DEF Unseen, Previewing, at
<1>11. Once'
  BY <1>1, <1>2, <1>3, <1>4, <1>9 DEF Once, at
<1>12. Untouched'
  BY <1>1, <1>2, <1>3, <1>4, <1>9 DEF Untouched, Previewing, at
<1>13. InGoodTime'
  BY <1>1, <1>2, <1>3, <1>4, <1>9 DEF InGoodTime, Previewing, at
<1>14. HoldersAlone'
  BY <1>1, <1>2, <1>3, <1>4, <1>9 DEF HoldersAlone, Holding, Unpublished, Cancelling,
     Alone, at
<1>15. FreshAlone'
  BY <1>1, <1>2, <1>3, <1>4, <1>9 DEF FreshAlone, Alone, Fresh, Expired, at
<1>16. FreshKept'
  BY <1>1, <1>2, <1>3, <1>4, <1>9 DEF FreshKept, Fresh, Expired, at
<1>17. Known'
  BY <1>1, <1>2, <1>3, <1>4, <1>9 DEF Known, Unpublished, Holding, at
<1>18. Emptied'
  BY <1>1, <1>2, <1>3, <1>4, <1>9 DEF Emptied, Cancelling, at
<1>19. PlainHasNoJob'
  BY <1>1, <1>2, <1>3, <1>4, <1>9 DEF PlainHasNoJob, at
<1>20. RecordHasUpload'
  BY <1>1, <1>2, <1>3, <1>4, <1>9 DEF RecordHasUpload, at
<1>21. Spared'
  BY <1>1, <1>2, <1>3, <1>4, <1>9 DEF Spared, Waiting, at
<1> QED
  BY <1>10, <1>11, <1>12, <1>13, <1>14, <1>15, <1>16, <1>17,
     <1>18, <1>19, <1>20, <1>21 DEF Rest

(* The cleaner's discard, one file.                                        *)
LEMMA CleanerDiscardKeeps ==
  ASSUME ImportInv, NEW i \in Import, CleanerDiscard(i)
  PROVE  Rest'
<1> USE Given
<1> DEFINE at == cleaner[i]
<1>1. /\ at \in {"json", "upload", "claim"} /\ jobs[i] = "ended" /\ Unlink(i, at)
      /\ cleaner' = [cleaner EXCEPT ![i] = AfterUnlink(at, "none")]
      /\ UNCHANGED <<told, applied, web, gc, jobs, runner>>
  BY DEF CleanerDiscard, JobParts, JobsOK, CleanPlace
<1>2. /\ \/ at = "json" /\ cleaner'[i] = "upload"
         \/ at = "upload" /\ cleaner'[i] = "claim"
         \/ at = "claim" /\ cleaner'[i] = "none"
      /\ \A j \in Import \ {i} : cleaner'[j] = cleaner[j]
  BY <1>1 DEF JobsOK, AfterUnlink
<1>4. runner[i] = "none" /\ ~Waiting(i)
  BY <1>1 DEF JobParts, Waiting
<1>3. /\ UNCHANGED <<born, written, held>>
      /\ json'[i] \in {"none", json[i]} /\ (at # "claim" => json'[i] = "none")
      /\ at # "json" => json' = json
      /\ at # "upload" => upload' = upload
      /\ at # "claim" => claim' = claim
      /\ \A j \in Import \ {i} :
           json'[j] = json[j] /\ upload'[j] = upload[j] /\ claim'[j] = claim[j]
      /\ upload'[i] => upload[i]
      /\ claim'[i] => claim[i]
  BY <1>1, Unlinking DEF Emptied
<1>9. /\ json[i] # "plain" /\ told[i] = "preview"
      /\ \A t \in Worker : Holding(t) \/ Previewing(t) => web[t].imp # i
      /\ \A t \in Worker : web[t].why = "cancelled" => web[t].imp # i
  BY <1>1, Employed DEF JobParts
<1> HIDE DEF at
<1>10. Unseen'
  BY <1>1, <1>2, <1>3, <1>4, <1>9 DEF Unseen, Previewing, at
<1>11. Once'
  BY <1>1, <1>2, <1>3, <1>4, <1>9 DEF Once, at
<1>12. Untouched'
  BY <1>1, <1>2, <1>3, <1>4, <1>9 DEF Untouched, Previewing, at
<1>13. InGoodTime'
  BY <1>1, <1>2, <1>3, <1>4, <1>9 DEF InGoodTime, Previewing, at
<1>14. HoldersAlone'
  BY <1>1, <1>2, <1>3, <1>4, <1>9 DEF HoldersAlone, Holding, Unpublished, Cancelling,
     Alone, at
<1>15. FreshAlone'
  BY <1>1, <1>2, <1>3, <1>4, <1>9 DEF FreshAlone, Alone, Fresh, Expired, at
<1>16. FreshKept'
  BY <1>1, <1>2, <1>3, <1>4, <1>9 DEF FreshKept, Fresh, Expired, at
<1>17. Known'
  BY <1>1, <1>2, <1>3, <1>4, <1>9 DEF Known, Unpublished, Holding, at
<1>18. Emptied'
  BY <1>1, <1>2, <1>3, <1>4, <1>9 DEF Emptied, Cancelling, at
<1>19. PlainHasNoJob'
  BY <1>1, <1>2, <1>3, <1>4, <1>9 DEF PlainHasNoJob, at
<1>20. RecordHasUpload'
  BY <1>1, <1>2, <1>3, <1>4, <1>9 DEF RecordHasUpload, at
<1>21. Spared'
  BY <1>1, <1>2, <1>3, <1>4, <1>9 DEF Spared, Waiting, at
<1> QED
  BY <1>10, <1>11, <1>12, <1>13, <1>14, <1>15, <1>16, <1>17,
     <1>18, <1>19, <1>20, <1>21 DEF Rest

(* A job ends, and is cleaned up after.                                    *)
LEMMA JobEndsKeeps ==
  ASSUME ImportInv, NEW i \in Import, RunnerFinishes(i) \/ Interrupt(i)
  PROVE  Rest'
<1> USE Given
<1>1. /\ jobs[i] \in {"queued", "running"} /\ jobs' = [jobs EXCEPT ![i] = "ended"]
      /\ runner' = [runner EXCEPT ![i] = "none"]
      /\ cleaner' = [cleaner EXCEPT ![i] = "json"]
      /\ UNCHANGED <<json, upload, claim, born, written, held, told, applied, web>>
  BY DEF RunnerFinishes, Interrupt, RunnerGoes, JobEnds, files, JobParts
<1>2. /\ jobs'[i] = "ended" /\ runner'[i] = "none" /\ cleaner'[i] = "json"
      /\ \A j \in Import \ {i} :
           jobs'[j] = jobs[j] /\ runner'[j] = runner[j] /\ cleaner'[j] = cleaner[j]
  BY <1>1 DEF JobsOK
<1>3. /\ \A c \in Collector :
           \/ gc'[c] = gc[c]
           \/ gc'[c].at = "idle" /\ gc'[c].imp = NoImport
  BY DEF RunnerFinishes, Interrupt, GcOK, Idle
<1>9. /\ json[i] # "plain" /\ told[i] = "preview"
      /\ \A t \in Worker : Holding(t) \/ Previewing(t) => web[t].imp # i
      /\ \A t \in Worker : web[t].why = "cancelled" => web[t].imp # i
  BY <1>1, Employed DEF JobParts
<1>10. Unseen'
  BY <1>1, <1>2, <1>3, <1>9 DEF Unseen, Previewing
<1>11. Once'
  BY <1>1, <1>2, <1>3, <1>9 DEF Once
<1>12. Untouched'
  BY <1>1, <1>2, <1>3, <1>9 DEF Untouched, Previewing
<1>13. InGoodTime'
  BY <1>1, <1>2, <1>3, <1>9 DEF InGoodTime, Previewing
<1>14. HoldersAlone'
  BY <1>1, <1>2, <1>3, <1>9 DEF HoldersAlone, Holding, Unpublished, Cancelling,
     Alone
<1>15. FreshAlone'
  BY <1>1, <1>2, <1>3, <1>9 DEF FreshAlone, Alone, Fresh, Expired
<1>16. FreshKept'
  BY <1>1, <1>2, <1>3, <1>9 DEF FreshKept, Fresh, Expired
<1>17. Known'
  BY <1>1, <1>2, <1>3, <1>9 DEF Known, Unpublished
<1>18. Emptied'
  BY <1>1, <1>2, <1>3, <1>9 DEF Emptied, Cancelling
<1>19. PlainHasNoJob'
  BY <1>1, <1>2, <1>3, <1>9 DEF PlainHasNoJob
<1>20. RecordHasUpload'
  BY <1>1, <1>2, <1>3, <1>9 DEF RecordHasUpload
<1>21. Spared'
  BY <1>1, <1>2, <1>3, <1>9 DEF Spared, Waiting
<1> QED
  BY <1>10, <1>11, <1>12, <1>13, <1>14, <1>15, <1>16, <1>17,
     <1>18, <1>19, <1>20, <1>21 DEF Rest

(* A job is forgotten when no handler asks for it any more.                *)
LEMMA ForgottenKeeps ==
  ASSUME ImportInv, NEW i \in Import, Forgotten(i)
  PROVE  Rest'
<1> USE Given
<1>1. /\ jobs[i] = "ended" /\ jobs' = [jobs EXCEPT ![i] = "pruned"]
      /\ \A t \in Worker : web[t].at \in {"launch", "failed"} => web[t].imp # i
      /\ UNCHANGED <<json, upload, claim, born, written, held, told, applied, web, gc,
                     runner, cleaner>>
  BY DEF Forgotten, files
<1>2. jobs'[i] = "pruned" /\ \A j \in Import \ {i} : jobs'[j] = jobs[j]
  BY <1>1 DEF JobsOK
<1>9. /\ json[i] # "plain" /\ told[i] = "preview"
      /\ \A t \in Worker : Holding(t) \/ Previewing(t) => web[t].imp # i
      /\ \A t \in Worker : web[t].why = "cancelled" => web[t].imp # i
  BY <1>1, Employed DEF JobParts
<1>10. Unseen'
  BY <1>1, <1>2, <1>9 DEF Unseen, Previewing
<1>11. Once'
  BY <1>1, <1>2, <1>9 DEF Once
<1>12. Untouched'
  BY <1>1, <1>2, <1>9 DEF Untouched, Previewing
<1>13. InGoodTime'
  BY <1>1, <1>2, <1>9 DEF InGoodTime, Previewing
<1>14. HoldersAlone'
  BY <1>1, <1>2, <1>9 DEF HoldersAlone, Holding, Unpublished, Cancelling,
     Alone
<1>15. FreshAlone'
  BY <1>1, <1>2, <1>9 DEF FreshAlone, Alone, Fresh, Expired
<1>16. FreshKept'
  BY <1>1, <1>2, <1>9 DEF FreshKept, Fresh, Expired
<1>17. Known'
  BY <1>1, <1>2, <1>9 DEF Known, Unpublished
<1>18. Emptied'
  BY <1>1, <1>2, <1>9 DEF Emptied, Cancelling
<1>19. PlainHasNoJob'
  BY <1>1, <1>2, <1>9 DEF PlainHasNoJob
<1>20. RecordHasUpload'
  BY <1>1, <1>2, <1>9 DEF RecordHasUpload
<1>21. Spared'
  BY <1>1, <1>2, <1>9 DEF Spared, Waiting
<1> QED
  BY <1>10, <1>11, <1>12, <1>13, <1>14, <1>15, <1>16, <1>17,
     <1>18, <1>19, <1>20, <1>21 DEF Rest

(* The runner or the cleaner dies.                                         *)
LEMMA ProcessDiesKeeps ==
  ASSUME ImportInv, NEW i \in Import, RunnerOfDies(i) \/ CleanerDies(i)
  PROVE  Rest'
<1> USE Given
<1>1. /\ runner' = runner \/ runner' = [runner EXCEPT ![i] = "dead"]
      /\ cleaner' = cleaner \/ cleaner' = [cleaner EXCEPT ![i] = "none"]
      /\ UNCHANGED <<json, upload, claim, born, written, held, told, applied, web, jobs>>
  BY DEF RunnerOfDies, CleanerDies, RunnerGoes, files
<1>2. /\ runner'[i] \in {runner[i], "dead"} /\ cleaner'[i] \in {cleaner[i], "none"}
      /\ \A j \in Import \ {i} : runner'[j] = runner[j] /\ cleaner'[j] = cleaner[j]
  BY <1>1 DEF JobsOK
<1>3. /\ \A c \in Collector :
           \/ gc'[c] = gc[c]
           \/ gc'[c].at = "idle" /\ gc'[c].imp = NoImport
  BY DEF RunnerOfDies, CleanerDies, GcOK, Idle
<1>4. Unseen'
  BY <1>1, <1>2, <1>3 DEF Unseen, Previewing
<1>5. Once'
  BY <1>1, <1>2, <1>3 DEF Once
<1>6. Untouched'
  BY <1>1, <1>2, <1>3 DEF Untouched, Previewing
<1>7. InGoodTime'
  BY <1>1, <1>2, <1>3 DEF InGoodTime, Previewing
<1>8. HoldersAlone'
  BY <1>1, <1>2, <1>3 DEF HoldersAlone, Holding, Unpublished, Cancelling,
     Alone
<1>9. FreshAlone'
  BY <1>1, <1>2, <1>3 DEF FreshAlone, Alone, Fresh, Expired
<1>10. FreshKept'
  BY <1>1, <1>2, <1>3 DEF FreshKept, Fresh, Expired
<1>11. Known'
  BY <1>1, <1>2, <1>3 DEF Known, Unpublished
<1>12. Emptied'
  BY <1>1, <1>2, <1>3 DEF Emptied, Cancelling
<1>13. PlainHasNoJob'
  BY <1>1, <1>2, <1>3 DEF PlainHasNoJob
<1>14. RecordHasUpload'
  BY <1>1, <1>2, <1>3 DEF RecordHasUpload
<1>15. Spared'
  BY <1>1, <1>2, <1>3 DEF Spared, Waiting
<1> QED
  BY <1>4, <1>5, <1>6, <1>7, <1>8, <1>9, <1>10, <1>11, <1>12, <1>13, <1>14, <1>15 DEF Rest
(* Another editor's commit concerns only what the previews were made of.    *)
LEMMA EditKeeps ==
  ASSUME ImportInv, EditConf
  PROVE  Rest'
<1> USE Given
<1>1. UNCHANGED <<json, upload, claim, born, written, held, told, applied, web, gc, jobs, runner,
                  cleaner>>
  BY DEF EditConf, files, workers
<1>3. Unseen' /\ Untouched' /\ InGoodTime' /\ HoldersAlone' /\ FreshAlone' /\ FreshKept'
  BY <1>1
     DEF Unseen, Untouched, InGoodTime, HoldersAlone, FreshAlone, FreshKept, Previewing,
     Holding, Unpublished, Cancelling, Alone, Fresh, Expired
<1>4. Once'
  BY <1>1 DEF Once
<1>5. Known' /\ Emptied' /\ PlainHasNoJob' /\ RecordHasUpload' /\ Spared'
  BY <1>1 DEF Known, Emptied, PlainHasNoJob, RecordHasUpload, Spared, Waiting, Unpublished,
     Cancelling
<1> QED
  BY <1>3, <1>4, <1>5 DEF Rest

(* With the web server its handlers are gone, and their claims are left.    *)
LEMMA ServerDiesKeeps ==
  ASSUME ImportInv, WebServerDies
  PROVE  Rest'
<1> USE Given
<1>1. /\ web' = [t \in Worker |-> Idle] /\ gc' = [gc EXCEPT !["web"] = Idle]
      /\ UNCHANGED <<json, upload, claim, born, written, held, told, applied, jobs,
                     runner, cleaner>>
  BY DEF WebServerDies, files
<1>2. \A t \in Worker : web'[t].at = "idle" /\ web'[t].imp = NoImport /\ web'[t].why = "none"
  BY <1>1 DEF Idle
<1>3. \A c \in Collector : \/ gc'[c] = gc[c]
                           \/ gc'[c].at = "idle" /\ gc'[c].imp = NoImport
  BY <1>1 DEF GcOK, Idle
<1>4. Unseen' /\ Once' /\ PlainHasNoJob' /\ RecordHasUpload'
  BY <1>1, <1>2 DEF Unseen, Previewing, Once, PlainHasNoJob, RecordHasUpload
<1>5. Untouched'
  BY <1>1, <1>2, <1>3 DEF Untouched, Previewing
<1>6. InGoodTime' /\ Known'
  BY <1>1, <1>2 DEF InGoodTime, Known, Unpublished
<1>7. HoldersAlone'
  BY <1>2 DEF HoldersAlone, Holding, Unpublished, Cancelling
<1>8. FreshAlone' /\ FreshKept'
  BY <1>1, <1>2, <1>3 DEF FreshAlone, FreshKept, Fresh, Expired
<1>9. Emptied'
  BY <1>1, <1>2, <1>3 DEF Emptied, Cancelling
<1>10. Spared'
  BY <1>1, <1>2, <1>3 DEF Spared, Waiting
<1> QED
  BY <1>4, <1>5, <1>6, <1>7, <1>8, <1>9, <1>10 DEF Rest

(* Time is kept up to where it is no longer told apart.                     *)
LEMMA Ageing ==
  ASSUME NEW age \in Nat
  PROVE  /\ Older(age) \in Nat /\ age <= Older(age) /\ Older(age) <= age + 1
         /\ \A younger \in Nat : younger <= age => Older(younger) <= Older(age)
BY ImportAssumption DEF Older, AgeCap

(* Time passes: an expired preview stays expired, and no handler is late.   *)
LEMMA TimeKeeps ==
  ASSUME ImportInv, TimePasses
  PROVE  Rest'
<1> USE Given
<1>1. UNCHANGED <<json, upload, claim, told, applied, web, gc, jobs, runner, cleaner>>
  BY Frames
<1>2. InTime
  BY DEF TimePasses
<1>3. \A i \in Import :
        /\ born[i] \in Nat /\ written[i] \in Nat /\ held[i] \in Nat
        /\ born'[i] = Older(born[i]) /\ written'[i] = Older(written[i])
        /\ held'[i] = Older(held[i])
  BY DEF TimePasses, FilesOK
<1>4. \A i \in Import :
        /\ born'[i] \in Nat /\ born[i] <= born'[i] /\ born'[i] <= born[i] + 1
        /\ written'[i] \in Nat /\ written[i] <= written'[i]
        /\ held'[i] \in Nat /\ held'[i] <= held[i] + 1
        /\ written[i] <= born[i] => written'[i] <= born'[i]
  BY <1>3, Ageing
<1>5. Unseen' /\ Once' /\ Known' /\ Emptied' /\ PlainHasNoJob' /\ RecordHasUpload'
  BY <1>1 DEF Unseen, Previewing, Once, Known, Emptied, PlainHasNoJob, RecordHasUpload,
     Unpublished, Cancelling
<1>6. HoldersAlone'
  BY <1>1 DEF HoldersAlone, Holding, Unpublished, Cancelling, Alone
<1>7. \A i \in Import : Fresh(i)' => Fresh(i)
  BY <1>1, <1>3, <1>4, ImportAssumption DEF Fresh, Expired
<1>8. FreshAlone' /\ FreshKept'
  BY <1>1, <1>7 DEF FreshAlone, FreshKept, Alone
<1>9. Untouched'
  <2>1. ASSUME NEW t \in Worker, Previewing(t)
        PROVE  born'[web[t].imp] <= PreviewTTL
    <3>1. web[t].imp \in Import /\ web[t] # Idle
      BY <2>1 DEF Previewing, Idle
    <3>2. born[web[t].imp] < PreviewTTL
      BY <1>2, <2>1, <3>1 DEF InTime, Previewing
    <3> QED
      BY <1>3, <1>4, <3>1, <3>2, ImportAssumption
  <2> QED
    BY <1>1, <2>1 DEF Untouched, Previewing
<1>10. InGoodTime'
  <2>1. ASSUME NEW t \in Worker, web[t].at # "idle", ~Previewing(t)
        PROVE  held'[web[t].imp] < ClaimTTL
    <3>1. web[t].imp \in Import /\ web[t] # Idle
      BY <2>1 DEF Idle
    <3>2. held[web[t].imp] + 1 < ClaimTTL
      BY <1>2, <2>1, <3>1 DEF InTime, Previewing
    <3> QED
      BY <1>3, <1>4, <3>1, <3>2, ImportAssumption
  <2>2. \A i \in Import : json[i] # "none" => written'[i] <= born'[i]
    BY <1>4 DEF InGoodTime
  <2> QED
    BY <1>1, <2>1, <2>2 DEF InGoodTime, Previewing
<1>11. \A i \in Import : Waiting(i)' => Waiting(i)
  BY <1>1, <1>3, <1>4, ImportAssumption DEF Waiting
<1>12. Spared'
  BY <1>1, <1>11 DEF Spared
<1> QED
  BY <1>5, <1>6, <1>8, <1>9, <1>10, <1>12 DEF Rest

(* A step that changes nothing keeps everything.                            *)
LEMMA StutterKeeps ==
  ASSUME ImportInv, UNCHANGED importVars
  PROVE  Rest'
<1> USE Given
<1>1. UNCHANGED <<json, upload, claim, born, written, held, told, applied, web, gc, jobs,
                  runner, cleaner>>
  BY DEF importVars, files, workers
<1>2. Unseen' /\ Once' /\ Known' /\ Emptied' /\ PlainHasNoJob' /\ RecordHasUpload'
  BY <1>1 DEF Unseen, Previewing, Once, Known, Emptied, PlainHasNoJob, RecordHasUpload,
     Unpublished, Cancelling
<1>3. HoldersAlone' /\ FreshAlone' /\ FreshKept'
  BY <1>1 DEF HoldersAlone, Holding, Unpublished, Cancelling, Alone, FreshAlone, FreshKept,
     Fresh, Expired
<1>4. Untouched' /\ InGoodTime' /\ Spared'
  BY <1>1 DEF Untouched, Previewing, InGoodTime, Spared, Waiting
<1> QED
  BY <1>2, <1>3, <1>4 DEF Rest

-----------------------------------------------------------------------------
(* The invariant.                                                          *)

(* Nothing is staged at first.                                             *)
LEMMA InitImport == ImportInit => ImportInv
<1> SUFFICES ASSUME ImportInit PROVE ImportInv
  OBVIOUS
<1>1. TypesOK
  BY InitTypes
<1>2. /\ \A t \in Worker : web[t].at = "idle" /\ web[t].imp = NoImport /\ web[t].why = "none"
      /\ \A c \in Collector : gc[c].at = "idle" /\ gc[c].imp = NoImport
      /\ \A i \in Import : /\ json[i] = "none" /\ ~upload[i] /\ ~claim[i] /\ told[i] = "nothing"
                           /\ jobs[i] = "none" /\ runner[i] = "none" /\ cleaner[i] = "none"
      /\ applied = {} /\ NoImport \notin Import
  BY ImportAssumption DEF ImportInit, Idle
<1>3. JobParts
  BY <1>2 DEF JobParts
<1>4. Unseen /\ Once /\ Untouched /\ InGoodTime
  BY <1>2 DEF Unseen, Previewing, Once, Untouched, InGoodTime
<1>5. HoldersAlone /\ FreshAlone /\ FreshKept
  BY <1>2 DEF HoldersAlone, Holding, Unpublished, Cancelling, FreshAlone, FreshKept, Fresh
<1>6. Known /\ Emptied /\ PlainHasNoJob /\ RecordHasUpload /\ Spared
  BY <1>2
     DEF Known, Unpublished, Emptied, Cancelling, PlainHasNoJob, RecordHasUpload, Spared,
     Waiting
<1>7. Tracked
  <2>1. \A i \in Import : made[i].moves = 3
    BY UnmadeType DEF ImportInit, MovesCap
  <2> QED
    BY <1>2, <2>1 DEF Tracked, Since, ShownStale, CheckedStale
<1> QED
  BY <1>1, <1>3, <1>4, <1>5, <1>6, <1>7 DEF ImportInv, Rest

(* Every step of every actor keeps the invariant.                          *)
LEMMA StepImport == ImportInv /\ [ImportNext]_importVars => ImportInv'
<1> SUFFICES ASSUME ImportInv, [ImportNext]_importVars PROVE ImportInv'
  OBVIOUS
<1>1. TypesOK' /\ JobParts' /\ Tracked'
  BY StepAllTypes, StepJobParts, StepTracked DEF ImportInv
<1>2. ASSUME NEW t \in Worker, Preview(t) \/ Claim(t) \/ WebStep(t)
      PROVE  Rest'
  <2>1. CASE Preview(t)
    BY <2>1, PreviewKeeps
  <2>2. CASE Claim(t)
    BY <2>2, ClaimKeeps
  <2>3. CASE PreviewRead(t)
    BY <2>3, PreviewReadKeeps
  <2>4. CASE PreviewRecord(t)
    BY <2>4, PreviewRecordKeeps
  <2>5. CASE PreviewFails(t)
    BY <2>5, PreviewFailsKeeps
  <2>6. CASE ReadRecord(t)
    BY <2>6, ReadRecordKeeps
  <2>7. CASE ReadUpload(t)
    BY <2>7, ReadUploadKeeps
  <2>8. CASE WritePlan(t)
    BY <2>8, PlanFailsKeeps, WritePlanKeeps
  <2>9. CASE WebDiscard(t)
    BY <2>9, WebDiscardKeeps
  <2>10. CASE Unclaim(t)
    BY <2>10, UnclaimKeeps
  <2>11. CASE Publish(t)
    BY <2>11, PublishFailsKeeps, PublishKeeps
  <2>12. CASE LaunchJob(t)
    BY <2>12, LaunchKeeps, LaunchFailsKeeps
  <2>13. CASE AskRelease(t)
    BY <2>13, AskReleaseKeeps
  <2>14. CASE ReleaseClaim(t)
    BY <2>14, ReleaseKeeps
  <2> QED
    BY <1>2, <2>1, <2>2, <2>3, <2>4, <2>5, <2>6, <2>7, <2>8, <2>9, <2>10, <2>11, <2>12,
       <2>13,
       <2>14 DEF WebStep
<1>3. ASSUME NEW c \in Collector, GcStep(c)
      PROVE  Rest'
  BY <1>3, GcClaimKeeps, GcMoveKeeps, GcCreateKeeps, GcReadKeeps, GcUnlinkKeeps DEF GcStep
<1>4. ASSUME NEW i \in Import, JobStep(i)
      PROVE  Rest'
  <2>1. CASE RunnerBegins(i)
    BY <2>1, RunnerBeginsKeeps
  <2>2. CASE ApplyRead(i) \/ ApplyCheck(i)
    BY <2>2, RunnerReadsKeeps
  <2>3. CASE ApplyCommit(i)
    BY <2>3, ApplyCommitKeeps
  <2>4. CASE RunnerDiscard(i)
    BY <2>4, RunnerDiscardKeeps
  <2>5. CASE RunnerFinishes(i) \/ Interrupt(i)
    BY <2>5, JobEndsKeeps
  <2>6. CASE Forgotten(i)
    BY <2>6, ForgottenKeeps
  <2>7. CASE CleanerDiscard(i)
    BY <2>7, CleanerDiscardKeeps
  <2>8. CASE RunnerOfDies(i) \/ CleanerDies(i)
    BY <2>8, ProcessDiesKeeps
  <2> QED
    BY <1>4, <2>1, <2>2, <2>3, <2>4, <2>5, <2>6, <2>7, <2>8 DEF JobStep, RunnerStep
<1>5. CASE EditConf \/ WebServerDies \/ TimePasses \/ UNCHANGED importVars
  BY <1>1, <1>5, EditKeeps, ServerDiesKeeps, TimeKeeps, StutterKeeps DEF ImportInv
<1> QED
  BY <1>1, <1>2, <1>3, <1>4, <1>5, Whose DEF ImportInv

(* The invariant holds in every state of every behaviour.                  *)
LEMMA AlwaysImportInv == ImportSpec => []ImportInv
BY InitImport, StepImport, PTL DEF ImportSpec

-----------------------------------------------------------------------------
(* The theorems.                                                           *)

(* prepare_apply: no late writer recreates the record of an upload that is  *)
(* gone, whoever takes over whose claim.                                   *)
THEOREM StagedIsWhole == ImportSpec => []RecordHasUpload
<1>1. ImportInv => RecordHasUpload
  BY Given
<1> QED
  BY <1>1, AlwaysImportInv, PTL

(* cancel: a preview that the user was told is cancelled has no record, no  *)
(* job, and was never applied.                                             *)
THEOREM CancelledStaysGone == ImportSpec => []CancelledIsGone
<1>1. ImportInv => CancelledIsGone
  <2> SUFFICES ASSUME ImportInv PROVE CancelledIsGone
    OBVIOUS
  <2>1. Emptied /\ JobParts
    BY Given
  <2> QED
    BY <2>1 DEF Emptied, JobParts, CancelledIsGone, ActiveJob
<1> QED
  BY <1>1, AlwaysImportInv, PTL

(* _gc: within the two hours of its protection no collector, and no handler *)
(* that failed, takes its files from a job that has not read them.         *)
THEOREM AcceptedIsKept == ImportSpec => []JobHasItsFiles
<1>1. ImportInv => JobHasItsFiles
  <2> SUFFICES ASSUME ImportInv PROVE JobHasItsFiles
    OBVIOUS
  <2>1. Spared
    BY Given
  <2> QED
    BY <2>1 DEF Spared, Waiting, JobHasItsFiles
<1> QED
  BY <1>1, AlwaysImportInv, PTL

(* A successful commit, and what it replaced.                              *)
LEMMA Commits ==
  ASSUME ImportInv, [ImportNext]_importVars, NEW i \in Import, i \notin applied, i \in applied'
  PROVE  \E replaced \in Replaces(made[i].kind) :
           /\ PinnedTo(i, replaced)
           /\ \A f \in ConfFile \ replaced : conf'[f] = conf[f]
<1>1. ASSUME NEW j \in Import, JobStep(j), ~ApplyCommit(j)
      PROVE  applied' = applied
  BY <1>1 DEF JobStep, RunnerBegins, RunnerStep, ApplyRead, ApplyCheck, RunnerDiscard,
     RunnerFinishes, Interrupt, Forgotten, CleanerDiscard, RunnerOfDies, CleanerDies
<1>2. UNCHANGED importVars => applied' = applied
  BY DEF importVars
<1>3. PICK j \in Import : ApplyCommit(j)
  BY <1>1, <1>2, Whose, Frames
<1>4. PICK replaced \in Replaces(made[j].kind), new \in [ConfFile -> Content] :
        /\ PinnedTo(j, replaced) /\ applied' = applied \cup {j} /\ ConfBecomes(new)
        /\ \A f \in ConfFile \ replaced : new[f] = conf[f]
  BY <1>3 DEF ApplyCommit
<1>5. j = i /\ conf' = new
  BY <1>4 DEF ConfBecomes
<1> QED
  BY <1>4, <1>5

(* apply: an import is committed at most once, and each file it replaces is *)
(* what its preview read, unless the preview recorded another baseline; the *)
(* model then only after two more changes, which its check did not see.     *)
THEOREM AppliedOnceAsPreviewed == ImportSpec => AppliedAsPreviewed
<1> DEFINE AsPreviewed(i) ==
      /\ i \notin applied
      /\ conf'["model"] # conf["model"] /\ made[i].moves < MovesCap
           => conf["model"] = made[i].read["model"]
      /\ conf'["mosdns"] # conf["mosdns"] /\ made[i].base["mosdns"] = made[i].read["mosdns"]
           => conf["mosdns"] = made[i].read["mosdns"]
<1>1. ASSUME ImportInv, [ImportNext]_importVars,
             NEW i \in Import, runner[i] = "commit", i \in applied'
      PROVE  AsPreviewed(i)
  <2>1. i \notin applied /\ Tracked /\ TellingOK
    BY <1>1, Given DEF Once, ImportInv
  <2>2. PICK replaced \in Replaces(made[i].kind) :
          /\ PinnedTo(i, replaced)
          /\ \A f \in ConfFile \ replaced : conf'[f] = conf[f]
    BY <1>1, <2>1, Commits
  <2>3. \A f \in ConfFile : conf'[f] # conf[f] => conf[f] = made[i].base[f]
    BY <2>2 DEF PinnedTo
  <2>4. conf'["model"] # conf["model"] /\ made[i].moves < MovesCap
          => conf["model"] = made[i].read["model"]
    <3>1. made[i].moves \in 0..3
      BY <2>1 DEF TellingOK, MadeOf, MovesCap
    <3>2. Stale(i) /\ conf["model"] # made[i].read["model"] => made[i].moves >= 3
      BY <1>1, <2>1 DEF Tracked, CheckedStale
    <3> QED
      BY <2>3, <3>1, <3>2 DEF Stale, ConfFile, MovesCap
  <2> QED
    BY <2>1, <2>3, <2>4 DEF ConfFile
<1>2. ImportInv /\ [ImportNext]_importVars =>
        [\A i \in Import : runner[i] = "commit" /\ i \in applied' => AsPreviewed(i)]_importVars
  BY <1>1
<1> QED
  BY <1>2, AlwaysImportInv, PTL DEF ImportSpec, AppliedAsPreviewed
=============================================================================
