----------------------------- MODULE BotProofs -----------------------------
(***************************************************************************)
(* Theorems about the bot's background work: PanelSession, BackupScan and   *)
(* HealthNotify, for any numbers of threads, openings, files, readings,     *)
(* recipients and failures.  An open panel is always watched, the           *)
(* operator's own settings and old links are safe from it; an archive is    *)
(* one committed configuration; and the health notifier can read its file,  *)
(* knows what its recipients read, and sends what fits both.                *)
(***************************************************************************)
EXTENDS PanelSession, BackupScan, HealthNotify, TLAPS

-----------------------------------------------------------------------------
(* The panel session.  IInv says what the two locks and the generation      *)
(* counter keep together; one lemma an action shows that it is kept.       *)

Locked == {"conf", "wall", "undo", "clean"}
Running == {"lock", "conf", "wall", "ok", "bad"}

States == [state : {"on", "off", "custom"}, secret : Nat]
MainPhases == Running \cup {"idle", "boot", "send", "arm", "undo", "clean"}
Activities ==
  [at : MainPhases, why : {"none", "on", "off", "timer", "unsent", "boot"}, current : BOOLEAN]

PanelTypeOK ==
  /\ panel \in States
  /\ armed \in BOOLEAN
  /\ link \in Nat /\ link <= opened
  /\ published \subseteq 0..opened
  /\ opened \in Nat
  /\ actor \in [Actor -> Activities]
  /\ panel.secret <= opened

(* A timer's thread only closes; the main thread does everything else.     *)
Roles ==
  /\ \A c \in Callback : /\ actor[c].at \in Running \cup {"idle"}
                         /\ actor[c].why = IF actor[c].at = "idle" THEN "none" ELSE "timer"
  /\ actor[Main].why # "timer"
  /\ actor[Main].why = "none" <=> actor[Main].at \in {"idle", "boot"}
  /\ actor[Main].at \in {"send", "arm", "undo", "clean"} => actor[Main].why = "on"

(* _panel_op_lock                                                          *)
OneAtATime ==
  \A a, b \in Actor : actor[a].at \in Locked /\ actor[b].at \in Locked => a = b

(* Only the main thread opens, so what it has closed stays closed until it  *)
(* has returned to _panel_close, _panel_publish or the startup cleanup.    *)
ClosedForMain ==
  actor[Main].at \in {"wall", "ok"} /\ actor[Main].why \in {"off", "unsent", "boot"} =>
    panel.state # "on"

(* From the transaction to _panel_arm a new secret is open, or none, and    *)
(* the session's link is an older one.                                     *)
NewPanel ==
  \/ actor[Main].why = "on" /\ actor[Main].at \in {"wall", "send", "arm", "undo", "clean"}
  \/ actor[Main].why = "unsent"
NewSecret ==
  NewPanel => link < opened /\ (panel.state = "on" => panel.secret = opened)

Disclosed == panel.state = "on" /\ panel.secret \in published

(* What a timer's thread has closed may be open again when it returns; as   *)
(* long as its generation is current, by a main thread that has not come    *)
(* to _panel_arm yet.                                                      *)
ClosedForTimer ==
  \A c \in Callback :
    /\ actor[c].at = "wall" => panel.state # "on"
    /\ actor[c].at = "ok" /\ actor[c].current =>
         /\ panel.state = "on" => panel.secret # link
         /\ Disclosed => actor[Main].at = "arm" \/ actor[Main].why = "unsent"

(* PanelWatched, of the threads whose failure would be followed by another  *)
(* timer: a thread of an older generation leaves the session alone.        *)
Watched ==
  Disclosed =>
    \/ armed
    \/ \E c \in Callback : actor[c].at # "idle" /\ actor[c].current
    \/ actor[Main].at \in {"arm", "boot"}
    \/ actor[Main].why \in {"unsent", "boot"}
    \/ actor[Main].why = "off" /\ actor[Main].current

IInv ==
  /\ PanelTypeOK /\ Roles /\ OneAtATime
  /\ ClosedForMain /\ NewSecret /\ ClosedForTimer /\ Watched

(* The vocabulary of the steps; the parts of IInv and the actions are named *)
(* where they are needed.                                                  *)
USE PanelAssumption
    DEF PanelAssumption, Actor, Resting, Running, Locked, session, NewPanel, Disclosed, IInv,
        Fails, OpLocked, Opening, Owned, Close, OwnSession, Succeeded, RetriesAtStart

(* The effects of a step on the threads keep their types.                  *)
LEMMA ActivityTypes ==
  ASSUME PanelTypeOK, NEW a \in Actor
  PROVE  /\ NextGeneration(a) => actor' \in [Actor -> Activities]
         /\ Rests(a) => actor' \in [Actor -> Activities]
         /\ \A why \in {"on", "off", "timer", "unsent", "boot"}, current \in BOOLEAN :
              Works(a, why, current) => actor' \in [Actor -> Activities]
         /\ \A at \in MainPhases : Goes(a, at) => actor' \in [Actor -> Activities]
<1>1. Resting \in Activities
  BY DEF Resting, Activities, MainPhases
<1>2. \A x \in Actor : actor[x] \in Activities
  BY DEF PanelTypeOK
<1>3. NextGeneration(a) => actor' \in [Actor -> Activities]
  <2>1. \A x \in Actor : [actor[x] EXCEPT !.current = FALSE] \in Activities
    BY <1>2 DEF Activities
  <2> QED BY <1>1, <2>1 DEF NextGeneration
<1>4. Rests(a) => actor' \in [Actor -> Activities]
  BY <1>1, <1>2 DEF Rests, PanelTypeOK
<1>5. \A why \in {"on", "off", "timer", "unsent", "boot"}, current \in BOOLEAN :
        Works(a, why, current) => actor' \in [Actor -> Activities]
  BY <1>2 DEF Works, PanelTypeOK, Activities, MainPhases, Running
<1>6. \A at \in MainPhases : Goes(a, at) => actor' \in [Actor -> Activities]
  BY <1>2 DEF Goes, PanelTypeOK, Activities
<1> QED BY <1>3, <1>4, <1>5, <1>6

(* The same of the restart, which leaves every thread resting.             *)
LEMMA RestartTypes == BotDies => actor' \in [Actor -> Activities]
<1>1. Resting \in Activities /\ [Resting EXCEPT !.at = "boot"] \in Activities
  BY DEF Resting, Activities, MainPhases
<1> HIDE DEF Resting
<1> QED BY <1>1 DEF BotDies

(* Requests: only the asking thread moves, and has nothing yet.            *)
LEMMA AskOnStep == ASSUME IInv, AskOn PROVE IInv'
<1>1. PanelTypeOK'
  BY DEF AskOn, Works, PanelTypeOK, States, Activities, MainPhases
<1>2. Roles' /\ OneAtATime'
  BY DEF AskOn, Works, PanelTypeOK, Roles, OneAtATime
<1>3. ClosedForMain' /\ NewSecret'
  BY DEF AskOn, Works, PanelTypeOK, ClosedForMain, NewSecret
<1>4. ClosedForTimer' /\ Watched'
  BY DEF AskOn, Works, PanelTypeOK, ClosedForTimer, Watched
<1> QED BY <1>1, <1>2, <1>3, <1>4

(* /off, or the close button: the panel is asked to close.                 *)
LEMMA AskOffStep == ASSUME IInv, AskOff PROVE IInv'
<1>1. PanelTypeOK'
  BY DEF AskOff, Works, PanelTypeOK, States, Activities, MainPhases
<1>2. Roles' /\ OneAtATime'
  BY DEF AskOff, Works, PanelTypeOK, Roles, OneAtATime
<1>3. ClosedForMain' /\ NewSecret'
  BY DEF AskOff, Works, PanelTypeOK, ClosedForMain, NewSecret
<1>4. ClosedForTimer' /\ Watched'
  BY DEF AskOff, Works, PanelTypeOK, ClosedForTimer, Watched
<1> QED BY <1>1, <1>2, <1>3, <1>4

(* The message is sent or not; the thread goes on to arm or to close.      *)
LEMMA PublishLinkStep == ASSUME IInv, PublishLink PROVE IInv'
<1>1. PanelTypeOK'
  <2>1. actor' \in [Actor -> Activities]
    <3>1. "arm" \in MainPhases /\ FALSE \in BOOLEAN
      BY DEF MainPhases
    <3> QED BY <3>1, ActivityTypes DEF PublishLink
  <2>2. published' \in {published, published \cup {opened}}
    BY DEF PublishLink
  <2>3. published' \subseteq 0..opened
    BY <2>2 DEF PanelTypeOK
  <2> QED BY <2>1, <2>3 DEF PublishLink, PanelTypeOK
<1>2. /\ actor[Main].at = "send"
      /\ published' \in {published, published \cup {opened}}
      /\ UNCHANGED <<panel, armed, link, opened>>
  BY DEF PublishLink
<1>3. CASE Goes(Main, "arm")
  <2>1. Roles' /\ OneAtATime'
    BY <1>2, <1>3 DEF Goes, PanelTypeOK, Roles, OneAtATime
  <2>2. ClosedForMain' /\ NewSecret'
    BY <1>2, <1>3 DEF Goes, PanelTypeOK, Roles, ClosedForMain, NewSecret
  <2>3. ClosedForTimer' /\ Watched'
    BY <1>2, <1>3 DEF Goes, PanelTypeOK, Roles, ClosedForTimer, Watched
  <2> QED BY <1>1, <2>1, <2>2, <2>3
<1>4. CASE Works(Main, "unsent", FALSE)
  <2>1. Roles' /\ OneAtATime'
    BY <1>2, <1>4 DEF Works, PanelTypeOK, Roles, OneAtATime
  <2>2. ClosedForMain' /\ NewSecret'
    BY <1>2, <1>4 DEF Works, PanelTypeOK, Roles, ClosedForMain, NewSecret
  <2>3. ClosedForTimer' /\ Watched'
    BY <1>2, <1>4 DEF Works, PanelTypeOK, Roles, ClosedForTimer, Watched
  <2> QED BY <1>1, <2>1, <2>2, <2>3
<1> QED BY <1>3, <1>4 DEF PublishLink

(* The new timer watches, and every older generation is over.              *)
LEMMA ArmStep == ASSUME IInv, Arm PROVE IInv'
<1>1. PanelTypeOK'
  BY ActivityTypes DEF Arm, PanelTypeOK, States
<1>2. Roles' /\ OneAtATime'
  BY DEF Arm, NextGeneration, PanelTypeOK, Roles, OneAtATime
<1>3. ClosedForMain' /\ NewSecret'
  BY DEF Arm, NextGeneration, PanelTypeOK, ClosedForMain, NewSecret
<1>4. ClosedForTimer' /\ Watched'
  BY DEF Arm, NextGeneration, PanelTypeOK, ClosedForTimer, Watched
<1> QED BY <1>1, <1>2, <1>3, <1>4

(* Closed, or a timer is set to try again.                                 *)
LEMMA ClosedUnsentStep == ASSUME IInv, ClosedUnsent PROVE IInv'
<1>1. PanelTypeOK'
  BY ActivityTypes DEF ClosedUnsent, PanelTypeOK, States
<1>2. Roles' /\ OneAtATime'
  BY DEF ClosedUnsent, NextGeneration, PanelTypeOK, Roles, OneAtATime
<1>3. ClosedForMain' /\ NewSecret'
  BY DEF ClosedUnsent, NextGeneration, PanelTypeOK, ClosedForMain, NewSecret
<1>4. ClosedForTimer'
  BY DEF ClosedUnsent, NextGeneration, PanelTypeOK, ClosedForTimer
<1>5. Watched'
  BY DEF ClosedUnsent, NextGeneration, PanelTypeOK, Roles, ClosedForMain, Watched
<1> QED BY <1>1, <1>2, <1>3, <1>4, <1>5

(* A cleanup at the start that failed is tried again.                      *)
LEMMA ClosedOtherwiseStep == ASSUME IInv, ClosedOtherwise PROVE IInv'
<1>1. CASE RetriesAtStart
  <2>1. actor[Main].at \in {"ok", "bad"} /\ actor[Main].why \in {"on", "boot"}
    BY DEF ClosedOtherwise
  <2>2. ScheduleRetry(Main) /\ UNCHANGED <<panel, published, opened>>
    BY <1>1 DEF ClosedOtherwise
  <2>3. PanelTypeOK'
    BY <2>2, ActivityTypes DEF PanelTypeOK, ScheduleRetry
  <2>4. Roles' /\ OneAtATime'
    BY <1>1, <2>1, <2>2 DEF ScheduleRetry, NextGeneration, PanelTypeOK, Roles, OneAtATime
  <2>5. ClosedForMain' /\ NewSecret'
    BY <1>1, <2>1, <2>2 DEF ScheduleRetry, NextGeneration, PanelTypeOK, Roles,
        ClosedForMain, NewSecret
  <2>6. ClosedForTimer' /\ Watched'
    BY <1>1, <2>1, <2>2 DEF ScheduleRetry, NextGeneration, PanelTypeOK, Roles,
        ClosedForMain, ClosedForTimer, Watched
  <2> QED BY <2>3, <2>4, <2>5, <2>6
<1>2. CASE ~RetriesAtStart
  <2>1. actor[Main].at \in {"ok", "bad"} /\ actor[Main].why \in {"on", "boot"}
    BY DEF ClosedOtherwise
  <2>2. Rests(Main) /\ UNCHANGED <<panel, session, published, opened>>
    BY <1>2 DEF ClosedOtherwise
  <2>3. PanelTypeOK'
    BY <2>2, ActivityTypes DEF PanelTypeOK
  <2>4. Roles' /\ OneAtATime'
    BY <1>2, <2>1, <2>2 DEF Rests, PanelTypeOK, Roles, OneAtATime
  <2>5. ClosedForMain' /\ NewSecret'
    BY <1>2, <2>1, <2>2 DEF Rests, PanelTypeOK, Roles, ClosedForMain, NewSecret
  <2>6. ClosedForTimer' /\ Watched'
    BY <1>2, <2>1, <2>2 DEF Rests, PanelTypeOK, Roles, ClosedForMain, ClosedForTimer,
        Watched
  <2> QED BY <2>3, <2>4, <2>5, <2>6
<1> QED BY <1>1, <1>2 DEF ClosedOtherwise

(* After a restart no thread is left, and the main thread closes.          *)
LEMMA StartupCleanupStep == ASSUME IInv, StartupCleanup PROVE IInv'
<1>1. PanelTypeOK'
  BY ActivityTypes DEF StartupCleanup, PanelTypeOK, States
<1>2. Roles' /\ OneAtATime'
  BY DEF StartupCleanup, Works, Rests, PanelTypeOK, Roles, OneAtATime
<1>3. ClosedForMain' /\ NewSecret'
  BY DEF StartupCleanup, Works, Rests, PanelTypeOK, ClosedForMain, NewSecret
<1>4. ClosedForTimer' /\ Watched'
  BY DEF StartupCleanup, Works, Rests, PanelTypeOK, Roles, ClosedForTimer, Watched
<1> QED BY <1>1, <1>2, <1>3, <1>4

(* A restart loses the timers; booting closes the panel.                   *)
LEMMA BotDiesStep == ASSUME IInv, BotDies PROVE IInv'
<1>1. PanelTypeOK'
  <2>1. UNCHANGED <<panel, published, opened>> /\ armed' \in BOOLEAN /\ link' = 0
    BY DEF BotDies
  <2> QED BY <2>1, RestartTypes DEF PanelTypeOK
<1>2. Roles' /\ OneAtATime'
  BY DEF BotDies, PanelTypeOK, Roles, OneAtATime
<1>3. ClosedForMain' /\ NewSecret'
  BY DEF BotDies, PanelTypeOK, ClosedForMain, NewSecret
<1>4. ClosedForTimer' /\ Watched'
  BY DEF BotDies, PanelTypeOK, ClosedForTimer, Watched
<1> QED BY <1>1, <1>2, <1>3, <1>4

(* A custom clash_api is not a disclosed panel.                            *)
LEMMA MakeCustomStep == ASSUME IInv, MakeCustom PROVE IInv'
<1>1. PanelTypeOK'
  BY DEF MakeCustom, PanelTypeOK, States, Activities, MainPhases
<1>2. Roles' /\ OneAtATime'
  BY DEF MakeCustom, PanelTypeOK, Roles, OneAtATime
<1>3. ClosedForMain' /\ NewSecret'
  BY DEF MakeCustom, PanelTypeOK, ClosedForMain, NewSecret
<1>4. ClosedForTimer' /\ Watched'
  BY DEF MakeCustom, PanelTypeOK, ClosedForTimer, Watched
<1> QED BY <1>1, <1>2, <1>3, <1>4

(* The timer becomes a thread of the current generation.                   *)
LEMMA TimerFiresStep == ASSUME NEW c \in Callback, IInv, TimerFires(c) PROVE IInv'
<1>1. PanelTypeOK'
  BY DEF TimerFires, Works, PanelTypeOK, States, Activities, MainPhases
<1>2. Roles' /\ OneAtATime'
  BY DEF TimerFires, Works, PanelTypeOK, Roles, OneAtATime
<1>3. ClosedForMain' /\ NewSecret'
  BY DEF TimerFires, Works, PanelTypeOK, ClosedForMain, NewSecret
<1>4. ClosedForTimer' /\ Watched'
  BY DEF TimerFires, Works, PanelTypeOK, ClosedForTimer, Watched
<1> QED BY <1>1, <1>2, <1>3, <1>4

(* _set_panel under its lock.                                              *)
LEMMA EnterStep == ASSUME NEW a \in Actor, IInv, Enter(a) PROVE IInv'
<1>1. PanelTypeOK'
  BY DEF Enter, Goes, PanelTypeOK, States, Activities, MainPhases
<1>2. Roles' /\ OneAtATime'
  BY DEF Enter, Goes, PanelTypeOK, Roles, OneAtATime
<1>3. ClosedForMain' /\ NewSecret'
  BY DEF Enter, Goes, PanelTypeOK, ClosedForMain, NewSecret
<1>4. ClosedForTimer' /\ Watched'
  BY DEF Enter, Goes, PanelTypeOK, ClosedForTimer, Watched
<1> QED BY <1>1, <1>2, <1>3, <1>4

(* No local network, or no verified user interface.                        *)
LEMMA NotReadyStep == ASSUME NEW a \in Actor, IInv, NotReady(a) PROVE IInv'
<1>1. PanelTypeOK'
  BY DEF NotReady, Goes, PanelTypeOK, States, Activities, MainPhases
<1>2. Roles' /\ OneAtATime'
  BY DEF NotReady, Goes, PanelTypeOK, Roles, OneAtATime
<1>3. ClosedForMain' /\ NewSecret'
  BY DEF NotReady, Goes, PanelTypeOK, ClosedForMain, NewSecret
<1>4. ClosedForTimer' /\ Watched'
  BY DEF NotReady, Goes, PanelTypeOK, ClosedForTimer, Watched
<1> QED BY <1>1, <1>2, <1>3, <1>4

(* The configuration is written.                                           *)
LEMMA ChangeConfStep == ASSUME NEW a \in Actor, IInv, ChangeConf(a) PROVE IInv'
<1>1. PanelTypeOK'
  BY DEF ChangeConf, Goes, PanelTypeOK, States, Activities, MainPhases
<1>2. Roles' /\ OneAtATime'
  BY DEF ChangeConf, Goes, PanelTypeOK, Roles, OneAtATime
<1>3. ClosedForMain' /\ NewSecret'
  BY DEF ChangeConf, Goes, PanelTypeOK, Roles, ClosedForMain, NewSecret
<1>4. ClosedForTimer' /\ Watched'
  BY DEF ChangeConf, Goes, PanelTypeOK, Roles, OneAtATime, ClosedForMain, NewSecret,
      ClosedForTimer, Watched
<1> QED BY <1>1, <1>2, <1>3, <1>4

(* The transaction fails, and the configuration stays.                     *)
LEMMA ConfStaysStep == ASSUME NEW a \in Actor, IInv, ConfStays(a) PROVE IInv'
<1>1. PanelTypeOK'
  BY DEF ConfStays, Goes, PanelTypeOK, States, Activities, MainPhases
<1>2. Roles' /\ OneAtATime'
  BY DEF ConfStays, Goes, PanelTypeOK, Roles, OneAtATime
<1>3. ClosedForMain' /\ NewSecret'
  BY DEF ConfStays, Goes, PanelTypeOK, ClosedForMain, NewSecret
<1>4. ClosedForTimer' /\ Watched'
  BY DEF ConfStays, Goes, PanelTypeOK, ClosedForTimer, Watched
<1> QED BY <1>1, <1>2, <1>3, <1>4

(* The firewall follows.                                                   *)
LEMMA ChangeWallStep == ASSUME NEW a \in Actor, IInv, ChangeWall(a) PROVE IInv'
<1>1. PanelTypeOK'
  BY DEF ChangeWall, Goes, PanelTypeOK, States, Activities, MainPhases
<1>2. Roles' /\ OneAtATime'
  BY DEF ChangeWall, Goes, PanelTypeOK, Roles, OneAtATime
<1>3. ClosedForMain' /\ NewSecret'
  BY DEF ChangeWall, Goes, PanelTypeOK, ClosedForMain, NewSecret
<1>4. ClosedForTimer' /\ Watched'
  BY DEF ChangeWall, Goes, PanelTypeOK, ClosedForTimer, Watched
<1> QED BY <1>1, <1>2, <1>3, <1>4

(* The firewall fails: the configuration is to be undone.                  *)
LEMMA WallFailsStep == ASSUME NEW a \in Actor, IInv, WallFails(a) PROVE IInv'
<1>1. PanelTypeOK'
  BY DEF WallFails, Goes, PanelTypeOK, States, Activities, MainPhases
<1>2. Roles' /\ OneAtATime'
  BY DEF WallFails, Goes, PanelTypeOK, Roles, OneAtATime
<1>3. ClosedForMain' /\ NewSecret'
  BY DEF WallFails, Goes, PanelTypeOK, ClosedForMain, NewSecret
<1>4. ClosedForTimer' /\ Watched'
  BY DEF WallFails, Goes, PanelTypeOK, ClosedForTimer, Watched
<1> QED BY <1>1, <1>2, <1>3, <1>4

(* The configuration is put back.                                          *)
LEMMA UndoConfStep == ASSUME NEW a \in Actor, IInv, UndoConf(a) PROVE IInv'
<1>1. PanelTypeOK'
  BY DEF UndoConf, Goes, PanelTypeOK, States, Activities, MainPhases
<1>2. Roles' /\ OneAtATime'
  BY DEF UndoConf, Goes, PanelTypeOK, Roles, OneAtATime
<1>3. ClosedForMain' /\ NewSecret'
  BY DEF UndoConf, Goes, PanelTypeOK, ClosedForMain, NewSecret
<1>4. ClosedForTimer' /\ Watched'
  BY DEF UndoConf, Goes, PanelTypeOK, ClosedForTimer, Watched
<1> QED BY <1>1, <1>2, <1>3, <1>4

(* Then the firewall, as far as it goes.                                   *)
LEMMA CleanWallStep == ASSUME NEW a \in Actor, IInv, CleanWall(a) PROVE IInv'
<1>1. PanelTypeOK'
  BY DEF CleanWall, Goes, PanelTypeOK, States, Activities, MainPhases
<1>2. Roles' /\ OneAtATime'
  BY DEF CleanWall, Goes, PanelTypeOK, Roles, OneAtATime
<1>3. ClosedForMain' /\ NewSecret'
  BY DEF CleanWall, Goes, PanelTypeOK, ClosedForMain, NewSecret
<1>4. ClosedForTimer' /\ Watched'
  BY DEF CleanWall, Goes, PanelTypeOK, ClosedForTimer, Watched
<1> QED BY <1>1, <1>2, <1>3, <1>4

(* Three returns: to a session that is not its own any more, closed, failed.*)
LEMMA ClosedStep == ASSUME NEW a \in Actor, IInv, Closed(a) PROVE IInv'
<1>1. CASE ~actor[a].current
  <2>1. actor[a].at \in {"ok", "bad"} /\ actor[a].why \in {"off", "timer"}
    BY DEF Closed
  <2>2. Rests(a) /\ UNCHANGED <<panel, session, published, opened>>
    BY <1>1 DEF Closed
  <2>3. PanelTypeOK'
    BY <2>2, ActivityTypes DEF PanelTypeOK
  <2>4. Roles' /\ OneAtATime'
    BY <1>1, <2>1, <2>2 DEF Rests, PanelTypeOK, Roles, OneAtATime
  <2>5. ClosedForMain' /\ NewSecret'
    BY <1>1, <2>1, <2>2 DEF Rests, PanelTypeOK, Roles, ClosedForMain, NewSecret
  <2>6. ClosedForTimer' /\ Watched'
    BY <1>1, <2>1, <2>2 DEF Rests, PanelTypeOK, Roles, ClosedForMain, ClosedForTimer,
        Watched
  <2> QED BY <2>3, <2>4, <2>5, <2>6
<1>2. CASE actor[a].current /\ actor[a].at = "ok"
  <2>1. actor[a].at \in {"ok", "bad"} /\ actor[a].why \in {"off", "timer"}
    BY DEF Closed
  <2>2. ClearState(a) /\ UNCHANGED <<panel, published, opened>>
    BY <1>2 DEF Closed
  <2>3. PanelTypeOK'
    <3>1. actor' \in [Actor -> Activities] /\ armed' \in BOOLEAN /\ link' = 0
      BY <2>2, ActivityTypes DEF ClearState
    <3> QED BY <2>2, <3>1 DEF PanelTypeOK
  <2>4. Roles' /\ OneAtATime'
    BY <1>2, <2>1, <2>2 DEF ClearState, NextGeneration, PanelTypeOK, Roles, OneAtATime
  <2>5. ClosedForMain' /\ NewSecret'
    BY <1>2, <2>1, <2>2 DEF ClearState, NextGeneration, PanelTypeOK, Roles, ClosedForMain,
        NewSecret
  <2>6. ClosedForTimer' /\ Watched'
    BY <1>2, <2>1, <2>2 DEF ClearState, NextGeneration, PanelTypeOK, Roles, ClosedForMain,
        ClosedForTimer, Watched
  <2> QED BY <2>3, <2>4, <2>5, <2>6
<1>3. CASE actor[a].current /\ actor[a].at # "ok"
  <2>1. actor[a].at \in {"ok", "bad"} /\ actor[a].why \in {"off", "timer"}
    BY DEF Closed
  <2>2. ScheduleRetry(a) /\ UNCHANGED <<panel, published, opened>>
    BY <1>3 DEF Closed
  <2>3. PanelTypeOK'
    BY <2>2, ActivityTypes DEF PanelTypeOK, ScheduleRetry
  <2>4. Roles' /\ OneAtATime'
    BY <1>3, <2>1, <2>2 DEF ScheduleRetry, NextGeneration, PanelTypeOK, Roles, OneAtATime
  <2>5. ClosedForMain' /\ NewSecret'
    BY <1>3, <2>1, <2>2 DEF ScheduleRetry, NextGeneration, PanelTypeOK, Roles,
        ClosedForMain, NewSecret
  <2>6. ClosedForTimer' /\ Watched'
    BY <1>3, <2>1, <2>2 DEF ScheduleRetry, NextGeneration, PanelTypeOK, Roles,
        ClosedForMain, ClosedForTimer, Watched
  <2> QED BY <2>3, <2>4, <2>5, <2>6
<1> QED BY <1>1, <1>2, <1>3 DEF Closed

(* The bot starts with nothing open.                                       *)
LEMMA InitHolds == PanelInit => IInv
<1> SUFFICES ASSUME PanelInit PROVE IInv
  OBVIOUS
<1>1. PanelTypeOK
  <2>1. panel \in States /\ Resting \in Activities
    BY DEF PanelInit, States, Activities, MainPhases
  <2>2. armed \in BOOLEAN /\ actor \in [Actor -> Activities]
    BY <2>1 DEF PanelInit
  <2> QED BY <2>1, <2>2 DEF PanelInit, PanelTypeOK
<1>2. Roles /\ OneAtATime /\ ClosedForMain /\ NewSecret /\ ClosedForTimer /\ Watched
  BY DEF PanelInit, Roles, OneAtATime, ClosedForMain, NewSecret, ClosedForTimer, Watched
<1> QED BY <1>1, <1>2

(* Every step keeps the invariant.                                         *)
LEMMA StepHolds == ASSUME IInv, [PanelNext]_panelVars PROVE IInv'
<1>1. CASE UNCHANGED panelVars
  BY <1>1 DEF panelVars, PanelTypeOK, Roles, OneAtATime, ClosedForMain, NewSecret,
              ClosedForTimer, Watched
<1>2. ASSUME NEW c \in Callback, TimerFires(c) PROVE IInv'
  BY <1>2, TimerFiresStep
<1>3. ASSUME NEW a \in Actor, SetPanelStep(a) PROVE IInv'
  BY <1>3, EnterStep, NotReadyStep, ChangeConfStep, ConfStaysStep, ChangeWallStep,
     WallFailsStep, UndoConfStep, CleanWallStep, ClosedStep DEF SetPanelStep
<1>4. CASE MainStep
  BY <1>4, PublishLinkStep, ArmStep, ClosedUnsentStep, ClosedOtherwiseStep,
     StartupCleanupStep
     DEF MainStep
<1> QED
  BY <1>1, <1>2, <1>3, <1>4, AskOnStep, AskOffStep, BotDiesStep, MakeCustomStep
     DEF PanelNext

(* So it always holds.                                                     *)
LEMMA Inductive == PanelSpec => []IInv
BY InitHolds, StepHolds, PTL DEF PanelSpec

(* The exposure is bounded however many timers and openings there are: the  *)
(* panel of a link that was sent has a timer, or a thread of _panel_close,  *)
(* _panel_autoclose, _panel_publish or the startup cleanup is about to      *)
(* close it or to arm one.                                                 *)
THEOREM PanelAlwaysWatched == PanelSpec => []PanelWatched
<1>1. IInv => PanelWatched
  BY DEF Watched, PanelTypeOK, Roles, PanelWatched
<1> QED BY <1>1, Inductive, PTL

(* A clash_api that the operator has made his own is never written by       *)
(* set_panel or its rollback, whatever they had seen before.               *)
THEOREM CustomAlwaysKept == PanelSpec => CustomKept
<1>1. ASSUME [PanelNext]_panelVars, panel.state = "custom" PROVE panel' = panel
  <2>1. ASSUME NEW a \in Actor, SetPanelStep(a) PROVE panel' = panel
    BY <1>1, <2>1 DEF SetPanelStep, Enter, NotReady, ChangeConf, ConfStays, ChangeWall,
       WallFails, UndoConf, CleanWall, Closed
  <2>2. CASE MainStep
    BY <1>1, <2>2
       DEF MainStep, PublishLink, Arm, ClosedUnsent, ClosedOtherwise, StartupCleanup
  <2> QED
    BY <1>1, <2>1, <2>2
       DEF PanelNext, panelVars, AskOn, AskOff, BotDies, MakeCustom, TimerFires
<1>2. [PanelNext]_panelVars => [panel.state = "custom" => panel' = panel]_panelVars
  BY <1>1
<1> QED BY <1>2, PTL DEF PanelSpec, CustomKept

(* A link that is deleted opens nothing any more: a close that failed keeps *)
(* it, and the link that a newer opening replaces has another secret.       *)
THEOREM LinkAlwaysKept == PanelSpec => LinkKept
<1> DEFINE Kept == \A n \in links \ links' : panel # [state |-> "on", secret |-> n]
<1>1. ASSUME IInv, [PanelNext]_panelVars PROVE [Kept]_panelVars
  <2> SUFFICES ASSUME NEW n \in links \ links', panel.state = "on", panel.secret = n
               PROVE  FALSE
    BY <1>1
  <2>1. ASSUME NEW a \in Actor, SetPanelStep(a) PROVE FALSE
    <3>1. Closed(a) /\ n = link /\ actor[a].current /\ actor[a].at = "ok"
      BY <2>1 DEF SetPanelStep, Enter, NotReady, ChangeConf, ConfStays, ChangeWall,
         WallFails, UndoConf, CleanWall, Closed, ClearState, ScheduleRetry
    <3>2. CASE a = Main
      BY <1>1, <3>1, <3>2 DEF Closed, ClosedForMain, Roles
    <3>3. CASE a \in Callback
      BY <1>1, <3>1, <3>3 DEF ClosedForTimer
    <3> QED BY <3>2, <3>3
  <2>2. CASE MainStep
    <3>1. (Arm \/ ClosedUnsent) /\ n = link
      BY <2>2 DEF MainStep, PublishLink, Arm, ClosedUnsent, ClosedOtherwise, StartupCleanup,
                  ScheduleRetry
    <3>2. NewPanel
      BY <1>1, <3>1 DEF Arm, ClosedUnsent, Roles
    <3>3. link < opened /\ n = opened /\ opened \in Nat /\ link \in Nat
      BY <1>1, <3>2 DEF NewSecret, PanelTypeOK
    <3> QED BY <3>1, <3>3
  <2> QED
    BY <1>1, <2>1, <2>2
       DEF PanelNext, panelVars, AskOn, AskOff, BotDies, MakeCustom, TimerFires
<1>2. IInv /\ [PanelNext]_panelVars => [Kept]_panelVars
  BY <1>1
<1> QED BY <1>2, Inductive, PTL DEF PanelSpec, LinkKept

-----------------------------------------------------------------------------
(* The backup: two equal readings are one moment.  A file that was not, when *)
(* the second began, what the first had seen is put back before the second   *)
(* finds it so again.                                                      *)

Data == [version : Version \cup {0}, names : SUBSET Source]
Files(f) == f \in [DOMAIN f -> Data] /\ DOMAIN f \subseteq Managed

ChangesOK ==
  /\ disk \in [Managed -> Data]
  /\ tx = [phase |-> tx.phase, todo |-> tx.todo, new |-> tx.new, old |-> tx.old]
  /\ Files(tx.new) /\ Files(tx.old)
  /\ DOMAIN tx.old = DOMAIN tx.new /\ tx.todo \subseteq DOMAIN tx.new

(* A reading has the fixed files it has come to, and sources that the meta  *)
(* it has read names; an ended one has all of them.                        *)
ReadingOK ==
  /\ reading = [attempt |-> reading.attempt, again |-> reading.again,
                first |-> reading.first, got |-> reading.got]
  /\ reading.attempt \in Nat /\ reading.again \in BOOLEAN
  /\ Files(reading.got) /\ Files(reading.first)
  /\ \A f \in DOMAIN reading.first : reading.first[f] # Gone
  /\ \A f \in DOMAIN reading.got :
       f \in BACKUP_FILES \/ ("meta" \in DOMAIN reading.got /\ f \in reading.got["meta"].names)
  /\ \A f \in DOMAIN reading.got : reading.got[f] # Gone
  /\ reading.again => DOMAIN reading.first = BACKUP_FILES \cup reading.first["meta"].names

(* What was changed before the middle, and not put back since, is neither    *)
(* there nor read again.                                                   *)
NotPutBack ==
  reading.again /\ ~middle.back =>
    \A f \in DOMAIN reading.first : reading.first[f] # middle.disk[f] =>
      /\ disk[f] # reading.first[f]
      /\ f \in DOMAIN reading.got => reading.got[f] # reading.first[f]

MiddleOK == middle = [disk |-> middle.disk, back |-> middle.back] /\ middle.back \in BOOLEAN

ArchiveOK ==
  /\ archive # Nothing => reading.attempt = 0 /\ ~reading.again
  /\ ArchiveOfOneMoment

BInv == ChangesOK /\ ReadingOK /\ MiddleOK /\ NotPutBack /\ ArchiveOK

USE BackupAssumption DEF Managed, BInv

(* Nothing read is a reading too.                                          *)
LEMMA NothingIsThere == Files(Nothing) /\ DOMAIN Nothing = {}
BY DEF Files, Nothing

(* What a file may hold, nothing included.                                 *)
LEMMA IsData ==
  /\ Gone \in Data
  /\ \A v \in Version, names \in SUBSET Source : Contents(v, names) \in Data
BY DEF Gone, Contents, Data

(* A file is replaced, by the new contents or the old ones.                 *)
LEMMA NextFileEffect ==
  ASSUME BInv, NextFile
  PROVE  \E f \in DOMAIN tx.new, data \in Data :
           /\ f \in Managed /\ disk' = [disk EXCEPT ![f] = data]
           /\ middle' = [middle EXCEPT !.back = @ \/ PutBack(f, data)]
           /\ tx' = [tx EXCEPT !.todo = @ \ {f}]
           /\ UNCHANGED <<changes, reading, archive>>
<1>1. PICK f \in FirstOf(tx.todo) :
        /\ disk' = Replaced(f, IF tx.phase = "writes" THEN tx.new[f] ELSE tx.old[f])
        /\ middle' = [middle EXCEPT !.back = @ \/
             PutBack(f, IF tx.phase = "writes" THEN tx.new[f] ELSE tx.old[f])]
        /\ tx' = [tx EXCEPT !.todo = @ \ {f}]
  BY DEF NextFile
<1>2. f \in tx.todo
  BY <1>1 DEF FirstOf
<1>3. f \in DOMAIN tx.new /\ f \in Managed
  BY <1>2 DEF ChangesOK, Files
<1>4. tx.new[f] \in Data /\ tx.old[f] \in Data
  BY <1>3 DEF ChangesOK, Files
<1>5. PICK data \in Data : data = IF tx.phase = "writes" THEN tx.new[f] ELSE tx.old[f]
  BY <1>4
<1> QED BY <1>1, <1>3, <1>5 DEF NextFile, Replaced

(* What a transaction is about to write.                                   *)
LEMMA ChangeBeginsEffect ==
  ASSUME BInv, ChangeBegins
  PROVE  /\ \E w : /\ Files(w)
                   /\ tx' = [phase |-> "writes", todo |-> DOMAIN w, new |-> w,
                             old |-> [f \in DOMAIN w |-> disk[f]]]
         /\ UNCHANGED <<disk, reading, archive, middle>>
<1>1. PICK S \in TargetSets, v \in Version : \E w \in Candidates(S, v) :
        tx' = [phase |-> "writes", todo |-> S, new |-> w, old |-> [f \in S |-> disk[f]]]
  BY DEF ChangeBegins
<1>2. PICK w \in Candidates(S, v) :
        tx' = [phase |-> "writes", todo |-> S, new |-> w, old |-> [f \in S |-> disk[f]]]
  BY <1>1
<1>3. S \subseteq Managed
  BY DEF TargetSets, BACKUP_FILES
<1>4. w \in [S -> {Gone} \cup {Contents(v, names) : names \in SUBSET Source}]
  BY DEF Candidates
<1>5. \A f \in S : w[f] \in Data
  BY <1>4, IsData
<1>6. Files(w)
  BY <1>3, <1>4, <1>5 DEF Files
<1> QED BY <1>2, <1>4, <1>6 DEF ChangeBegins

-----------------------------------------------------------------------------
(* The transactions' side.                                                 *)

LEMMA ChangesKeep == ASSUME BInv, [BackupNext]_backupVars PROVE ChangesOK'
<1>1. CASE UNCHANGED txVars
  BY <1>1 DEF txVars, ChangesOK, Files
<1>2. CASE ChangeBegins
  <2>1. PICK w : /\ Files(w)
                 /\ tx' = [phase |-> "writes", todo |-> DOMAIN w, new |-> w,
                           old |-> [f \in DOMAIN w |-> disk[f]]]
                 /\ disk' = disk
    BY <1>2, ChangeBeginsEffect
  <2>2. Files([f \in DOMAIN w |-> disk[f]])
    BY <2>1 DEF ChangesOK, Files
  <2> QED BY <2>1, <2>2 DEF ChangesOK, Files
<1>3. CASE NextFile
  <2>1. PICK f \in DOMAIN tx.new, data \in Data :
          /\ f \in Managed /\ disk' = [disk EXCEPT ![f] = data]
          /\ tx' = [tx EXCEPT !.todo = @ \ {f}]
    BY <1>3, NextFileEffect
  <2> QED BY <2>1 DEF ChangesOK, Files
<1>4. CASE ChangeEnds
  BY <1>4, NothingIsThere DEF ChangeEnds, NoTx, ChangesOK, Files
<1>5. CASE RollBack
  BY <1>5 DEF RollBack, ChangesOK, Files
<1> QED
  BY <1>1, <1>2, <1>3, <1>4, <1>5
     DEF BackupNext, backupVars, AskBackup, ReadFile, ReadFails,
     FirstReadingEnds, SecondReadingEnds

-----------------------------------------------------------------------------
(* The readings' side.                                                     *)

LEMMA ReadingKeeps == ASSUME BInv, [BackupNext]_backupVars PROVE ReadingOK'
<1>2. CASE UNCHANGED reading
  BY <1>2 DEF ReadingOK
<1>3. CASE \E n \in Nat :
             reading' = [attempt |-> n, again |-> FALSE, first |-> Nothing, got |-> Nothing]
  BY <1>3, NothingIsThere DEF ReadingOK
<1>4. CASE ReadFile
  <2>1. PICK f \in Unread : /\ disk[f] # Gone
                            /\ reading' = [reading EXCEPT !.got =
                                 [g \in DOMAIN @ \cup {f} |-> IF g = f THEN disk[f] ELSE @[g]]]
    BY <1>4 DEF ReadFile
  <2> DEFINE got == [g \in DOMAIN reading.got \cup {f} |->
                       IF g = f THEN disk[f] ELSE reading.got[g]]
  <2>2. /\ f \in BACKUP_FILES \/ ("meta" \in DOMAIN reading.got /\ f \in reading.got["meta"].names)
        /\ f \notin DOMAIN reading.got
    BY <2>1 DEF Unread, BACKUP_FILES
  <2>3. f \in Managed
    BY <2>2 DEF ReadingOK, Files, Data
  <2>4. reading' = [reading EXCEPT !.got = got] /\ UNCHANGED txVars
    BY <1>4, <2>1 DEF ReadFile
  <2>5. /\ Files(got) /\ \A g \in DOMAIN got : got[g] # Gone
        /\ \A g \in DOMAIN reading.got : got[g] = reading.got[g]
        /\ DOMAIN got = DOMAIN reading.got \cup {f}
    BY <2>1, <2>2, <2>3 DEF ChangesOK, ReadingOK, Files
  <2> HIDE DEF got
  <2>6. \A g \in DOMAIN got :
          g \in BACKUP_FILES \/ ("meta" \in DOMAIN got /\ g \in got["meta"].names)
    BY <2>2, <2>5 DEF ReadingOK
  <2> QED BY <2>4, <2>5, <2>6 DEF ReadingOK
<1>5. CASE FirstReadingEnds
  <2>1. /\ Unread = {}
        /\ reading' = [reading EXCEPT !.again = TRUE, !.first = reading.got, !.got = Nothing]
    BY <1>5 DEF FirstReadingEnds
  <2>2. DOMAIN reading.got = BACKUP_FILES \cup reading.got["meta"].names
    BY <2>1 DEF Unread, BACKUP_FILES, ReadingOK
  <2> QED BY <2>1, <2>2, NothingIsThere DEF ReadingOK
<1>6. CASE SecondReadingEnds
  <2>1. \/ reading' = NoBackup
        \/ reading' = [NoBackup EXCEPT !.attempt = reading.attempt + 1]
    BY <1>6 DEF SecondReadingEnds
  <2>2. reading.attempt + 1 \in Nat
    BY DEF ReadingOK
  <2> QED BY <1>3, <2>1, <2>2 DEF NoBackup
<1>7. CASE AskBackup \/ ReadFails
  BY <1>3, <1>7 DEF AskBackup, ReadFails, Stops, NoBackup
<1> QED
  BY <1>2, <1>4, <1>5, <1>6, <1>7, ChangeBeginsEffect, NextFileEffect DEF BackupNext,
     backupVars, ChangeEnds, RollBack

-----------------------------------------------------------------------------
(* Between the two.                                                        *)

LEMMA MiddleKeeps == ASSUME BInv, [BackupNext]_backupVars PROVE MiddleOK'
<1>1. CASE NextFile
  <2>1. PICK f \in DOMAIN tx.new, data \in Data :
          middle' = [middle EXCEPT !.back = @ \/ PutBack(f, data)]
    BY <1>1, NextFileEffect
  <2>2. PICK b \in BOOLEAN : b = (middle.back \/ PutBack(f, data))
    OBVIOUS
  <2> QED BY <2>1, <2>2 DEF MiddleOK
<1>2. CASE FirstReadingEnds
  BY <1>2 DEF FirstReadingEnds, MiddleOK
<1>3. CASE AskBackup \/ ReadFile \/ ReadFails \/ SecondReadingEnds
  <2>1. middle' = middle \/ middle' = NoMiddle
    BY <1>3 DEF AskBackup, ReadFile, ReadFails, Stops, SecondReadingEnds
  <2>2. CASE middle' = middle
    BY <2>2 DEF MiddleOK
  <2>3. CASE middle' = NoMiddle
    BY <2>3 DEF NoMiddle, MiddleOK
  <2> QED BY <2>1, <2>2, <2>3
<1>4. CASE ChangeBegins \/ ChangeEnds \/ RollBack \/ UNCHANGED backupVars
  BY <1>4 DEF ChangeBegins, ChangeEnds, RollBack, backupVars, MiddleOK
<1> QED
  BY <1>1, <1>2, <1>3, <1>4 DEF BackupNext

LEMMA NotPutBackKeeps == ASSUME BInv, [BackupNext]_backupVars PROVE NotPutBack'
<1> SUFFICES ASSUME reading'.again, ~middle'.back,
                    NEW f \in DOMAIN reading'.first, reading'.first[f] # middle'.disk[f]
             PROVE  /\ disk'[f] # reading'.first[f]
                    /\ f \in DOMAIN reading'.got => reading'.got[f] # reading'.first[f]
  BY DEF NotPutBack
<1>1. CASE FirstReadingEnds
  <2>1. /\ reading' = [reading EXCEPT !.again = TRUE, !.first = reading.got, !.got = Nothing]
        /\ middle' = [disk |-> disk, back |-> FALSE] /\ disk' = disk
    BY <1>1 DEF FirstReadingEnds, txVars
  <2>2. DOMAIN reading'.got = {}
    BY <2>1, NothingIsThere DEF ReadingOK
  <2> QED BY <2>1, <2>2
<1>2. ASSUME reading.again, reading'.first = reading.first, middle'.disk = middle.disk,
             ~middle.back
      PROVE  /\ f \in DOMAIN reading.first /\ f \in Managed
             /\ reading.first[f] # middle.disk[f] /\ disk[f] # reading.first[f]
             /\ f \in DOMAIN reading.got => reading.got[f] # reading.first[f]
  BY <1>2 DEF NotPutBack, ReadingOK, Files
<1>3. CASE UNCHANGED <<disk, reading, middle>>
  BY <1>2, <1>3
<1>4. CASE ReadFile
  <2>1. PICK g \in Unread : reading' = [reading EXCEPT !.got =
                              [h \in DOMAIN @ \cup {g} |-> IF h = g THEN disk[g] ELSE @[h]]]
    BY <1>4 DEF ReadFile
  <2>2. /\ reading'.again = reading.again /\ reading'.first = reading.first
        /\ reading'.got = [h \in DOMAIN reading.got \cup {g} |->
                             IF h = g THEN disk[g] ELSE reading.got[h]]
    BY <2>1 DEF ReadingOK
  <2> QED BY <1>2, <1>4, <2>2 DEF ReadFile, txVars
<1>5. CASE ChangeBegins \/ ChangeEnds \/ RollBack
  BY <1>3, <1>5 DEF ChangeBegins, ChangeEnds, RollBack
<1>6. CASE NextFile
  <2>1. PICK g \in DOMAIN tx.new, data \in Data :
          /\ g \in Managed /\ disk' = [disk EXCEPT ![g] = data]
          /\ middle' = [middle EXCEPT !.back = @ \/ PutBack(g, data)]
          /\ reading' = reading
    BY <1>6, NextFileEffect
  <2>2. middle'.disk = middle.disk /\ ~middle.back /\ ~PutBack(g, data)
    BY <2>1 DEF MiddleOK
  <2>3. CASE f = g
    <3>1. disk'[f] = data
      BY <1>2, <2>1, <2>2, <2>3 DEF ChangesOK
    <3> QED BY <1>2, <2>1, <2>2, <2>3, <3>1 DEF PutBack
  <2>4. CASE f # g
    <3>1. disk'[f] = disk[f]
      BY <1>2, <2>1, <2>2, <2>4 DEF ChangesOK
    <3> QED BY <1>2, <2>1, <2>2, <3>1
  <2> QED BY <2>3, <2>4
<1>9. CASE AskBackup \/ ReadFails \/ SecondReadingEnds
  <2>1. ~reading'.again
    BY <1>9 DEF AskBackup, ReadFails, SecondReadingEnds, Stops, NoBackup
  <2> QED BY <2>1
<1> QED
  BY <1>1, <1>3, <1>4, <1>5, <1>6, <1>9 DEF BackupNext, backupVars, txVars

(* Two equal readings are what was there in the middle.                     *)
LEMMA ArchiveKeeps == ASSUME BInv, [BackupNext]_backupVars PROVE ArchiveOK'
<1>1. CASE UNCHANGED <<reading, archive, middle>>
  BY <1>1 DEF ArchiveOK, ArchiveOfOneMoment
<1>2. CASE archive' = archive /\ archive = Nothing
  BY <1>2 DEF ArchiveOK, ArchiveOfOneMoment
<1>3. CASE SecondReadingEnds /\ TwoReadings(reading.first, reading.got)
  <2>1. /\ reading.again /\ reading.first = reading.got
        /\ archive' = reading.first /\ reading' = NoBackup /\ middle' = middle
    BY <1>3 DEF SecondReadingEnds, TwoReadings
  <2> SUFFICES ASSUME ~middle.back
               PROVE  reading.first = Bundle(middle.disk)
    BY <2>1 DEF ArchiveOK, ArchiveOfOneMoment, NoBackup
  <2>2. \A f \in DOMAIN reading.first : reading.first[f] = middle.disk[f]
    BY <2>1 DEF NotPutBack
  <2>3. DOMAIN reading.first = BACKUP_FILES \cup reading.first["meta"].names
    BY <2>1 DEF ReadingOK
  <2>4. reading.first["meta"] = middle.disk["meta"]
    BY <2>2, <2>3 DEF BACKUP_FILES
  <2>5. reading.first = [f \in DOMAIN reading.first |-> reading.first[f]]
    BY DEF ReadingOK, Files
  <2> QED BY <2>2, <2>3, <2>4, <2>5 DEF Bundle
<1>4. ReadFile \/ ReadFails \/ FirstReadingEnds \/ AskBackup \/ SecondReadingEnds =>
        archive = Nothing
  BY DEF ReadFile, ReadFails, FirstReadingEnds, AskBackup, SecondReadingEnds, ArchiveOK
<1>5. CASE NextFile
  <2>1. PICK f \in DOMAIN tx.new, data \in Data :
          /\ middle' = [middle EXCEPT !.back = @ \/ PutBack(f, data)]
          /\ UNCHANGED <<reading, archive>>
    BY <1>5, NextFileEffect
  <2>2. middle'.disk = middle.disk /\ (~middle'.back => ~middle.back)
    BY <2>1 DEF MiddleOK
  <2> QED BY <2>1, <2>2 DEF ArchiveOK, ArchiveOfOneMoment
<1> QED
  BY <1>1, <1>2, <1>3, <1>4, <1>5 DEF BackupNext, backupVars, ChangeBegins, ChangeEnds,
     RollBack, AskBackup, ReadFile, ReadFails, FirstReadingEnds, SecondReadingEnds

(* Nothing has been read at first.                                         *)
LEMMA BackupStart == BackupInit => BInv
<1> SUFFICES ASSUME BackupInit PROVE BInv
  OBVIOUS
<1>1. PICK names \in SUBSET Source, v \in Version :
        disk = [f \in Managed |-> IF f = "meta" THEN Contents(v, names)
                                  ELSE IF f \in Source \ names THEN Gone ELSE Contents(v, {})]
  BY DEF BackupInit
<1>2. disk \in [Managed -> Data]
  BY <1>1, IsData
<1>3. ChangesOK
  BY <1>2, NothingIsThere DEF BackupInit, ChangesOK, NoTx
<1>4. ReadingOK /\ ~reading.again /\ archive = Nothing
  BY NothingIsThere DEF BackupInit, ReadingOK, NoBackup
<1> QED
  BY <1>3, <1>4 DEF MiddleOK, NotPutBack, ArchiveOK, ArchiveOfOneMoment, BackupInit, NoMiddle

(* Every archive is the files as they were at one moment, when its second   *)
(* reading began, however many transactions wrote, committed or were rolled *)
(* back meanwhile, and though they write the same contents again; unless    *)
(* one put back, during the second reading, what only the first had seen.   *)
THEOREM ArchiveIsOneMoment == BackupSpec => []ArchiveOfOneMoment
<1>1. BInv /\ [BackupNext]_backupVars => BInv'
  BY ChangesKeep, ReadingKeeps, MiddleKeeps, NotPutBackKeeps, ArchiveKeeps
<1>2. BInv => ArchiveOfOneMoment
  BY DEF ArchiveOK
<1> QED BY <1>1, <1>2, BackupStart, PTL DEF BackupSpec

-----------------------------------------------------------------------------
(* The health notifier.                                                     *)

HIDE DEF PanelAssumption
HIDE BackupAssumption DEF Managed, BInv

Found == Trouble \cup {Fine}
Notice ==
  [kind : {"none", "problem", "recovery", "resolved"}, problems : Found, attempts : Nat, wait : Nat]
Row == [observed : Found, delivered : Found \cup {Unknown}, pending : Notice]

HealthTypeOK ==
  /\ trouble \in Found
  /\ allowed \subseteq Recipient
  /\ saved \in [DOMAIN saved -> Row] /\ DOMAIN saved \subseteq Recipient
  /\ rows \in [DOMAIN rows -> Row]
  /\ run \in [at : {"idle", "send", "save"}, left : SUBSET Recipient, to : SUBSET Recipient,
              found : Found]
  /\ belief \in [Recipient -> Found]
  /\ lost \in [Recipient -> BOOLEAN]
  /\ oldSchema \in BOOLEAN

(* What the program writes; an empty notice is one value.                   *)
Sound(row) ==
  /\ Consistent(row)
  /\ row.pending.kind = "none" => row.pending = NonePending
(* What the old file is read as: an alarm that nobody may have received.    *)
Migrated(row) ==
  row.observed # Fine /\ row.delivered = Unknown /\ row.pending = NonePending

RowsSound ==
  /\ \A u \in DOMAIN saved : Sound(saved[u]) \/ (oldSchema /\ Migrated(saved[u]))
  /\ run.at # "idle" => ~oldSchema /\ \A u \in DOMAIN rows : Sound(rows[u])

(* A run writes before it sends, and again after each message.              *)
RunFollowsFile ==
  /\ run.at # "idle" => /\ DOMAIN rows = DOMAIN saved /\ run.left \subseteq DOMAIN rows
                        /\ \A u \in DOMAIN rows : rows[u].observed = run.found
  /\ run.at = "send" => rows = saved
  /\ run.at = "save" =>
       /\ \A u \in DOMAIN rows \ run.to : rows[u] = saved[u]
       /\ \A u \in run.to \cap DOMAIN rows :
            IF rows[u].pending = NonePending
              THEN rows[u].delivered = belief[u]
              ELSE rows[u].delivered = saved[u].delivered

BeliefKnown ==
  /\ \A u \in DOMAIN saved : lost[u] \/ saved[u].delivered \in {Unknown, belief[u]}
  /\ \A u \in Recipient \ DOMAIN saved : belief[u] = Fine /\ ~lost[u]

HInv == HealthTypeOK /\ RowsSound /\ RunFollowsFile /\ BeliefKnown

USE HealthAssumption DEF HealthAssumption, Found, NoRun

(***************************************************************************)
(* Rows.                                                                   *)
(***************************************************************************)

LEMMA NonePendingType == NonePending \in Notice
BY DEF NonePending, Notice

(* A new recipient's row, and those of the old file.                       *)
LEMMA NewRow ==
  ASSUME NEW observed \in Found, NEW delivered \in Found \cup {Unknown}
  PROVE  /\ NewRecipient(observed, delivered) \in Row
         /\ NewRecipient(observed, delivered).observed = observed
         /\ NewRecipient(observed, delivered).delivered = delivered
         /\ NewRecipient(observed, delivered).pending = NonePending
         /\ delivered = observed => Sound(NewRecipient(observed, delivered))
<1>1. NonePending.kind = "none" /\ NonePending.attempts = 0
  BY DEF NonePending
<1> HIDE DEF NonePending
<1> QED BY <1>1, NonePendingType DEF NewRecipient, Row, Sound, Consistent

(* _observe keeps or makes a sound row, and leaves what was delivered.      *)
LEMMA ObservedRow ==
  ASSUME NEW row \in Row, NEW problems \in Found, Sound(row) \/ Migrated(row)
  PROVE  /\ Observe(row, problems) \in Row
         /\ Sound(Observe(row, problems))
         /\ Observe(row, problems).observed = problems
         /\ Observe(row, problems).delivered = row.delivered
<1>1. CASE StillPending(row, problems)
  <2>1. Capped(row.pending.wait) \in Nat
    BY DEF Capped, Row, Notice, RetryMax
  <2>2. row.pending.kind # "none" /\ Sound(row)
    BY <1>1 DEF StillPending, Sound, Migrated
  <2> QED BY <1>1, <2>1, <2>2 DEF Observe, StillPending, Row, Notice, Sound, Consistent
<1>2. CASE ~StillPending(row, problems)
  <2> DEFINE n == NoticeOf(row, problems)
             new == [row EXCEPT !.observed = problems, !.pending = n]
  <2>1. n \in Notice
    BY DEF NoticeOf, NonePending, Notice, Row
  <2>2. /\ n.attempts = 0
        /\ n.kind = "none" => n = NonePending
    BY DEF NoticeOf, NonePending
  <2>3. /\ n.kind = "none" => row.delivered = problems
        /\ n.kind = "problem" =>
             problems # Fine /\ n.problems = problems /\ row.delivered # problems
        /\ n.kind = "recovery" =>
             problems = Fine /\ n.problems = Fine /\ row.delivered \notin {Fine, Unknown}
        /\ n.kind = "resolved" =>
             problems = Fine /\ n.problems # Fine /\ row.delivered # n.problems
    BY <1>2
       DEF NoticeOf, NonePending, NotConfirmed, StillPending, Sound, Consistent, Migrated,
           Row
  <2>4. /\ new \in Row
        /\ new.observed = problems /\ new.pending = n /\ new.delivered = row.delivered
    <3> HIDE DEF n
    <3> QED BY <2>1 DEF Row
  <2>5. Sound(new)
    <3> HIDE DEF n, new
    <3> QED BY <2>1, <2>2, <2>3, <2>4 DEF Sound, Consistent, Notice
  <2>6. Observe(row, problems) = new
    BY <1>2 DEF Observe
  <2> QED BY <2>4, <2>5, <2>6
<1> QED BY <1>1, <1>2

(* A receipt came, or did not.                                             *)
LEMMA SentRow ==
  ASSUME NEW row \in Row, Sound(row), row.pending # NonePending
  PROVE  /\ Delivered(row) \in Row /\ Sound(Delivered(row))
         /\ Delivered(row).observed = row.observed
         /\ Delivered(row).delivered = row.observed
         /\ Delivered(row).pending = NonePending
         /\ Failed(row) \in Row /\ Sound(Failed(row))
         /\ Failed(row).observed = row.observed
         /\ Failed(row).delivered = row.delivered
         /\ Failed(row).pending # NonePending
<1>1. NonePending \in Notice /\ NonePending.kind = "none" /\ NonePending.attempts = 0
  BY DEF NonePending, Notice
<1>2. row.pending.kind # "none"
  BY DEF Sound
<1> HIDE DEF NonePending
<1>3. /\ Delivered(row) \in Row
      /\ Delivered(row).observed = row.observed /\ Delivered(row).delivered = row.observed
      /\ Delivered(row).pending = NonePending
  BY <1>1 DEF Delivered, Row
<1>4. Sound(Delivered(row))
  <2> HIDE DEF Delivered
  <2> QED BY <1>1, <1>3 DEF Sound, Consistent
<1>5. Attempts(row) \in 1..4
  BY DEF Attempts, Row, Notice
<1>6. \A n \in 1..4 : Backoff[n] \in Nat
  <2>1. Backoff[1] = 1 /\ Backoff[2] = 2 /\ Backoff[3] = 4 /\ Backoff[4] = 6
    BY DEF Backoff
  <2>2. \A n \in 1..4 : n = 1 \/ n = 2 \/ n = 3 \/ n = 4
    OBVIOUS
  <2> QED BY <2>1, <2>2
<1>7. Backoff[Attempts(row)] \in Nat
  BY <1>5, <1>6
<1>8. /\ Failed(row) \in Row
      /\ Failed(row).observed = row.observed /\ Failed(row).delivered = row.delivered
      /\ Failed(row).pending.kind = row.pending.kind
      /\ Failed(row).pending.problems = row.pending.problems
      /\ Failed(row).pending.attempts <= 4
  <2> DEFINE n == Attempts(row)
             p == [row.pending EXCEPT !.attempts = n, !.wait = Backoff[n]]
  <2>1. n \in Nat /\ n <= 4 /\ Backoff[n] \in Nat /\ row.pending \in Notice
    BY <1>5, <1>7 DEF Row
  <2>2. Failed(row) = [row EXCEPT !.pending = p]
    BY DEF Failed, Row, Notice
  <2> HIDE DEF n
  <2>3. /\ p \in Notice /\ p.kind = row.pending.kind
        /\ p.problems = row.pending.problems /\ p.attempts = n
    BY <2>1 DEF Notice
  <2> HIDE DEF p
  <2> QED BY <2>1, <2>2, <2>3 DEF Row
<1>9. Sound(Failed(row)) /\ Failed(row).pending # NonePending
  <2> HIDE DEF Failed
  <2> QED BY <1>1, <1>2, <1>8 DEF Sound, Consistent
<1> QED BY <1>3, <1>4, <1>8, <1>9

(* Waiting changes nothing else.                                           *)
LEMMA WaitingRow ==
  ASSUME NEW row \in Row, NEW wait \in Nat, row.pending # NonePending, Sound(row)
  PROVE  /\ [row EXCEPT !.pending.wait = wait] \in Row
         /\ Sound([row EXCEPT !.pending.wait = wait])
         /\ [row EXCEPT !.pending.wait = wait].delivered = row.delivered
BY DEF Row, Notice, Sound, Consistent
(***************************************************************************)
(* Steps.                                                                  *)
(***************************************************************************)

LEMMA CheckKeeps == ASSUME HInv, Check PROVE HInv'
<1> DEFINE old(u) == IF u \in DOMAIN saved THEN saved[u] ELSE NewRecipient(Fine, Fine)
<1>1. /\ allowed \subseteq Recipient /\ trouble \in Found
      /\ rows' = [u \in allowed |-> Observe(old(u), trouble)] /\ saved' = rows'
      /\ oldSchema' = FALSE
      /\ run' = [at |-> "send", left |-> allowed, to |-> {}, found |-> trouble]
      /\ belief' = [u \in Recipient |-> IF u \in allowed THEN belief[u] ELSE Fine]
      /\ lost' = [u \in Recipient |-> u \in allowed /\ lost[u]]
      /\ trouble' = trouble /\ allowed' = allowed
  BY DEF Check, HInv, HealthTypeOK
<1>2. \A u \in allowed : old(u) \in Row /\ (Sound(old(u)) \/ Migrated(old(u)))
  BY NewRow DEF HInv, HealthTypeOK, RowsSound
<1>3. \A u \in allowed : u \notin DOMAIN saved => old(u).delivered = Fine
  BY NewRow
<1>4. \A u \in allowed : u \in DOMAIN saved => old(u).delivered = saved[u].delivered
  OBVIOUS
<1> HIDE DEF old
<1>5. \A u \in allowed :
        /\ rows'[u] \in Row /\ Sound(rows'[u])
        /\ rows'[u].observed = trouble /\ rows'[u].delivered = old(u).delivered
  BY <1>1, <1>2, ObservedRow
<1>6. DOMAIN rows' = allowed /\ rows' \in [allowed -> Row]
  BY <1>1, <1>5
<1>7. HealthTypeOK'
  BY <1>1, <1>6 DEF HInv, HealthTypeOK
<1>8. RowsSound' /\ RunFollowsFile'
  BY <1>1, <1>5, <1>6 DEF RowsSound, RunFollowsFile
<1>9. BeliefKnown'
  <2>1. \A u \in allowed : belief'[u] = belief[u] /\ (lost'[u] <=> lost[u])
    BY <1>1
  <2>2. \A u \in Recipient \ allowed : belief'[u] = Fine /\ ~lost'[u]
    BY <1>1
  <2>3. ASSUME NEW u \in allowed PROVE lost[u] \/ old(u).delivered \in {Unknown, belief[u]}
    <3>1. CASE u \in DOMAIN saved
      BY <1>4, <3>1 DEF HInv, BeliefKnown
    <3>2. CASE u \notin DOMAIN saved
      BY <1>1, <1>3, <3>2 DEF HInv, BeliefKnown
    <3> QED BY <3>1, <3>2
  <2>4. DOMAIN saved' = allowed /\ \A u \in allowed : saved'[u].delivered = old(u).delivered
    BY <1>1, <1>5, <1>6
  <2> QED BY <2>1, <2>2, <2>3, <2>4 DEF BeliefKnown
<1> QED BY <1>7, <1>8, <1>9 DEF HInv

(* One message: sent and received, sent and unanswered, or not sent.       *)
LEMMA SendKeeps == ASSUME HInv, NEW u \in Recipient, Send(u) PROVE HInv'
<1>1. /\ run.at = "send" /\ u \in run.left /\ rows[u].pending # NonePending
      /\ run' = [run EXCEPT !.at = "save", !.left = @ \ {u}, !.to = {u}]
      /\ UNCHANGED <<trouble, allowed, saved, oldSchema>>
  BY DEF Send, Due
<1>2. u \in DOMAIN rows /\ rows = saved /\ rows[u] \in Row /\ Sound(rows[u])
  BY <1>1 DEF HInv, RowsSound, RunFollowsFile, HealthTypeOK
<1>3. PICK receipt \in BOOLEAN :
        /\ Reads(u) \/ (~receipt /\ UNCHANGED <<belief, lost>>)
        /\ rows' = [rows EXCEPT ![u] = IF Confirmed(receipt) THEN Delivered(@) ELSE Failed(@)]
  BY DEF Send
<1>4. /\ rows'[u] \in Row /\ Sound(rows'[u])
      /\ rows'[u].observed = rows[u].observed
      /\ IF receipt THEN rows'[u].delivered = rows[u].observed /\ rows'[u].pending = NonePending
         ELSE rows'[u].delivered = rows[u].delivered /\ rows'[u].pending # NonePending
  BY <1>1, <1>2, <1>3, SentRow DEF Confirmed
<1>5. /\ rows' \in [DOMAIN rows -> Row] /\ DOMAIN rows' = DOMAIN rows
      /\ \A v \in DOMAIN rows : v # u => rows'[v] = rows[v]
  <2>1. rows \in [DOMAIN rows -> Row]
    BY DEF HInv, HealthTypeOK
  <2> QED BY <1>2, <1>3, <1>4, <2>1
<1>6. /\ belief' \in [Recipient -> Found] /\ lost' \in [Recipient -> BOOLEAN]
      /\ \A v \in Recipient : v # u => belief'[v] = belief[v] /\ lost'[v] = lost[v]
      /\ lost'[u] \/ (~lost[u] /\ belief'[u] = belief[u])
      /\ receipt => belief'[u] = rows[u].observed
  <2>1. rows[u].pending.kind # "none"
    BY <1>1, <1>2 DEF Sound
  <2>2. IF rows[u].pending.kind = "problem" THEN rows[u].pending.problems = rows[u].observed
        ELSE rows[u].observed = Fine
    BY <1>2, <2>1 DEF Sound, Consistent, Row, Notice
  <2>3. rows[u].pending.problems \in Found
    BY <1>2 DEF Row, Notice
  <2> QED BY <1>3, <2>2, <2>3 DEF Reads, HInv, HealthTypeOK
<1>7. HealthTypeOK'
  BY <1>1, <1>5, <1>6 DEF HInv, HealthTypeOK
<1>8. RowsSound'
  BY <1>1, <1>2, <1>4, <1>5 DEF HInv, RowsSound
<1>9. RunFollowsFile'
  BY <1>1, <1>2, <1>4, <1>5, <1>6 DEF HInv, RunFollowsFile, HealthTypeOK
<1>10. BeliefKnown'
  <2>1. \A v \in DOMAIN saved : lost[v] \/ saved[v].delivered \in {Unknown, belief[v]}
    BY DEF HInv, BeliefKnown
  <2>2. \A v \in Recipient : v \notin DOMAIN saved => v # u /\ belief[v] = Fine /\ ~lost[v]
    BY <1>2 DEF HInv, BeliefKnown
  <2>3. DOMAIN saved \subseteq Recipient /\ saved' = saved
    BY <1>1 DEF HInv, HealthTypeOK
  <2>4. ASSUME NEW v \in DOMAIN saved PROVE lost'[v] \/ saved[v].delivered \in {Unknown, belief'[v]}
    <3>1. CASE v = u
      BY <1>6, <2>1, <3>1
    <3>2. CASE v # u
      BY <1>6, <2>1, <2>3, <3>2
    <3> QED BY <3>1, <3>2
  <2>5. ASSUME NEW v \in Recipient \ DOMAIN saved PROVE belief'[v] = Fine /\ ~lost'[v]
    BY <1>6, <2>2
  <2> QED BY <2>3, <2>4, <2>5 DEF BeliefKnown
<1> QED BY <1>7, <1>8, <1>9, <1>10 DEF HInv

(* The receipt is on the disk, and what was delivered is what was read.     *)
LEMMA SaveKeeps == ASSUME HInv, Save PROVE HInv'
<1>1. /\ run.at = "save" /\ saved' = rows
      /\ lost' = [u \in Recipient |-> lost[u] /\ ~(u \in run.to /\ rows[u].pending = NonePending)]
      /\ run' = [run EXCEPT !.at = "send", !.to = {}]
      /\ UNCHANGED <<trouble, allowed, oldSchema, rows, belief>>
  BY DEF Save
<1>2. HealthTypeOK'
  BY <1>1 DEF HInv, HealthTypeOK, RunFollowsFile
<1>3. RowsSound' /\ RunFollowsFile'
  BY <1>1 DEF HInv, RowsSound, RunFollowsFile, HealthTypeOK
<1>4. BeliefKnown'
  BY <1>1 DEF HInv, BeliefKnown, RunFollowsFile, HealthTypeOK
<1> QED BY <1>2, <1>3, <1>4 DEF HInv

(* On to the next recipient, the end of a run, its death.                   *)
LEMMA RunGoesOn ==
  ASSUME HInv, CheckEnds \/ CheckDies \/ \E u \in Recipient : Skip(u)
  PROVE  HInv'
<1>1. /\ UNCHANGED <<trouble, allowed, saved, oldSchema, rows, belief, lost>>
      /\ \/ run' = NoRun
         \/ \E u \in Recipient : run.at = "send" /\ run' = [run EXCEPT !.left = @ \ {u}]
  BY DEF CheckEnds, CheckDies, Skip
<1>2. HealthTypeOK'
  BY <1>1 DEF HInv, HealthTypeOK
<1>3. RowsSound' /\ RunFollowsFile' /\ BeliefKnown'
  BY <1>1 DEF HInv, HealthTypeOK, RowsSound, RunFollowsFile, BeliefKnown
<1> QED BY <1>2, <1>3 DEF HInv

(* Time, and a clock that is set back, change only the waits.              *)
LEMMA TimeKeeps == ASSUME HInv, TenMinutesPass \/ ClockSetBack PROVE HInv'
<1>1. /\ run.at = "idle"
      /\ UNCHANGED <<trouble, allowed, oldSchema, rows, run, belief, lost>>
  BY DEF TenMinutesPass, ClockSetBack
<1>2. \A u \in DOMAIN saved : saved[u] \in Row /\ saved[u].pending.wait \in Nat
  BY DEF HInv, HealthTypeOK, Row, Notice
<1>3. /\ DOMAIN saved' = DOMAIN saved
      /\ \A u \in DOMAIN saved :
           \/ saved'[u] = saved[u]
           \/ /\ saved[u].pending # NonePending
              /\ \E w \in Nat : saved'[u] = [saved[u] EXCEPT !.pending.wait = w]
      /\ saved' = [u \in DOMAIN saved |-> saved'[u]]
  <2>1. \A w \in Nat : Sooner(w) \in Nat /\ Later(w) \in Nat
    BY DEF Sooner, Later, Years, RetryMax
  <2> QED BY <1>2, <2>1 DEF TenMinutesPass, ClockSetBack, WaitsBecome
<1>4. \A u \in DOMAIN saved :
        /\ saved'[u] \in Row /\ saved'[u].delivered = saved[u].delivered
        /\ Sound(saved'[u]) \/ (oldSchema /\ Migrated(saved'[u]))
  <2> SUFFICES ASSUME NEW u \in DOMAIN saved
               PROVE  /\ saved'[u] \in Row /\ saved'[u].delivered = saved[u].delivered
                      /\ Sound(saved'[u]) \/ (oldSchema /\ Migrated(saved'[u]))
    OBVIOUS
  <2>1. Sound(saved[u]) \/ (oldSchema /\ Migrated(saved[u]))
    BY DEF HInv, RowsSound
  <2>2. CASE saved'[u] = saved[u]
    BY <1>2, <2>1, <2>2
  <2>3. ASSUME NEW w \in Nat, saved[u].pending # NonePending,
               saved'[u] = [saved[u] EXCEPT !.pending.wait = w]
        PROVE  /\ saved'[u] \in Row /\ saved'[u].delivered = saved[u].delivered
               /\ Sound(saved'[u])
    <3>1. Sound(saved[u])
      BY <2>1, <2>3 DEF Migrated
    <3> QED BY <1>2, <2>3, <3>1, WaitingRow
  <2> QED BY <1>3, <2>2, <2>3
<1>5. HealthTypeOK'
  BY <1>1, <1>3, <1>4 DEF HInv, HealthTypeOK
<1>6. RowsSound' /\ RunFollowsFile' /\ BeliefKnown'
  BY <1>1, <1>3, <1>4 DEF HInv, RowsSound, RunFollowsFile, BeliefKnown
<1> QED BY <1>5, <1>6 DEF HInv

(* Problems come and go; the recipients are changed between two runs.       *)
LEMMA WorldChanges == ASSUME HInv, TroubleChanges \/ SetRecipients PROVE HInv'
<1>1. UNCHANGED <<saved, oldSchema, rows, run, belief, lost>>
  BY DEF TroubleChanges, SetRecipients
<1>2. HealthTypeOK'
  BY <1>1 DEF HInv, HealthTypeOK, TroubleChanges, SetRecipients
<1> QED BY <1>1, <1>2 DEF HInv, RowsSound, RunFollowsFile, BeliefKnown

(* At first the file is empty and nothing was sent.                        *)
LEMMA HealthStart == HealthInit => HInv
<1> SUFFICES ASSUME HealthInit PROVE HInv
  OBVIOUS
<1>1. PICK old \in Found :
        /\ oldSchema \/ old = Fine
        /\ saved = [u \in Recipient |-> NewRecipient(old, IF old = Fine THEN Fine ELSE Unknown)]
        /\ belief \in [Recipient -> {Fine, old}]
  BY DEF HealthInit
<1>2. \A u \in Recipient :
        /\ saved[u] \in Row /\ (Sound(saved[u]) \/ (oldSchema /\ Migrated(saved[u])))
        /\ saved[u].delivered = Unknown \/ (old = Fine /\ saved[u].delivered = Fine)
  BY <1>1, NewRow DEF Migrated
<1>3. DOMAIN saved = Recipient /\ saved \in [Recipient -> Row] /\ rows = saved /\ run.at = "idle"
  BY <1>1, <1>2 DEF HealthInit
<1>4. HealthTypeOK
  BY <1>1, <1>3 DEF HealthInit, HealthTypeOK
<1> QED BY <1>1, <1>2, <1>3, <1>4 DEF HealthInit, HInv, RowsSound, RunFollowsFile, BeliefKnown

(* Every step keeps the invariant.                                         *)
LEMMA HealthStep == ASSUME HInv, [HealthNext]_healthVars PROVE HInv'
<1>1. CASE UNCHANGED healthVars
  BY <1>1 DEF healthVars, HInv, HealthTypeOK, RowsSound, RunFollowsFile, BeliefKnown
<1> QED BY <1>1, CheckKeeps, SendKeeps, SaveKeeps, RunGoesOn, TimeKeeps, WorldChanges
        DEF HealthNext, CheckStep

(* The invariant holds in every run.                                       *)
LEMMA HealthInvariant == HealthSpec => []HInv
BY HealthStart, HealthStep, PTL DEF HealthSpec

(***************************************************************************)
(* Theorems.                                                               *)
(***************************************************************************)

(* No run ever writes a file that _decode_state would refuse to the next    *)
(* one, wherever runs die and whatever problems and recipients change.      *)
THEOREM AlwaysReadable == HealthSpec => []StateReadable
<1>1. HInv => StateReadable
  BY DEF HInv, RowsSound, Sound, StateReadable, Readable
<1> QED BY <1>1, HealthInvariant, PTL

(* What the file calls delivered is what its recipient last read, unless a  *)
(* receipt was lost.                                                       *)
THEOREM DeliveredAlwaysRead == HealthSpec => []DeliveredIsRead
<1>1. HInv => DeliveredIsRead
  BY DEF HInv, BeliefKnown, DeliveredIsRead
<1> QED BY <1>1, HealthInvariant, PTL

(* Every message fits what the run found and what its reader may know: no   *)
(* obsolete alarm, no unexplained recovery.                                *)
THEOREM MessagesAlwaysFit == HealthSpec => MessagesFit
<1> DEFINE Fits ==
      \A u \in DOMAIN rows : run.at = "send" /\ run'.at = "save" /\ u \in run'.to =>
        /\ rows[u].pending.kind = "problem" => rows[u].pending.problems = run.found
        /\ rows[u].pending.kind = "recovery" => run.found = Fine /\ (belief[u] # Fine \/ lost[u])
        /\ rows[u].pending.kind = "resolved" =>
             /\ run.found = Fine
             /\ \/ belief[u] # rows[u].pending.problems \/ lost[u]
                \/ rows[u].delivered = Unknown
<1>1. ASSUME HInv PROVE Fits
  <2> SUFFICES ASSUME NEW u \in DOMAIN rows, run.at = "send"
               PROVE  /\ rows[u].pending.kind = "problem" => rows[u].pending.problems = run.found
                      /\ rows[u].pending.kind = "recovery" =>
                           run.found = Fine /\ (belief[u] # Fine \/ lost[u])
                      /\ rows[u].pending.kind = "resolved" =>
                           /\ run.found = Fine
                           /\ \/ belief[u] # rows[u].pending.problems \/ lost[u]
                              \/ rows[u].delivered = Unknown
    OBVIOUS
  <2>1. Sound(rows[u]) /\ rows[u].observed = run.found
    BY <1>1 DEF HInv, RowsSound, RunFollowsFile
  <2>2. lost[u] \/ rows[u].delivered \in {Unknown, belief[u]}
    BY <1>1 DEF HInv, RunFollowsFile, BeliefKnown
  <2> QED BY <2>1, <2>2 DEF Sound, Consistent
<1>2. HInv /\ [HealthNext]_healthVars => [Fits]_healthVars
  BY <1>1
<1> QED BY <1>2, HealthInvariant, PTL DEF HealthSpec, MessagesFit
=============================================================================
