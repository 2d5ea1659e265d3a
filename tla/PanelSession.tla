----------------------------- MODULE PanelSession -----------------------------
(***************************************************************************)
(* The temporary observation panel of the Telegram bot: set_panel and the  *)
(* session around it in deploy/bot/pdg-bot.py.                             *)
(*                                                                         *)
(* A panel is open when the model exposes clash_api on the network with a  *)
(* secret and nftables lets the local network in.  The bot's one main      *)
(* thread opens and closes it, and a timer of ten or thirty minutes closes *)
(* it from a thread of its own, through the same set_panel and under the   *)
(* same lock; but the session's own state (timer, link, generation) is     *)
(* under another lock, and the two are not taken together.                 *)
(*                                                                         *)
(* A transaction of apply_sb is one step here, and one run of nft          *)
(* commands is one.  The state lock is held for one step at a time.        *)
(***************************************************************************)
EXTENDS Naturals

CONSTANTS
  Callback,    \* threads of timers that went off
  Main,        \* the bot's main thread
  MaxOpen,     \* bound on the number of times the panel is opened
  MaxMishaps   \* bound on failures and restarts

PanelAssumption ==
  /\ Main \notin Callback
  /\ MaxOpen \in Nat /\ MaxMishaps \in Nat
ASSUME PanelAssumption

Actor == Callback \cup {Main}

VARIABLES
  panel,      \* clash_api in the model: off, on with some secret, or custom
  wall,       \* nftables has the rule that lets the local network in
  armed,      \* _panel_timer is set; it carries the current generation
  link,       \* the secret in the message of _panel_link; 0: none
  links,      \* the secrets whose messages are in the chat
  published,  \* the secrets that were ever sent
  opened,     \* the number of secrets made
  actor,      \* what each thread does, for what, and whether the generation it
              \* read is still _panel_generation
  mishaps

session == <<armed, link, links>>
panelVars == <<panel, wall, session, published, opened, actor, mishaps>>

Resting == [at |-> "idle", why |-> "none", current |-> FALSE]

PanelInit ==
  /\ panel = [state |-> "off", secret |-> 0]
  /\ wall = FALSE
  /\ armed = FALSE
  /\ link = 0
  /\ links = {}
  /\ published = {}
  /\ opened = 0
  /\ actor = [a \in Actor |-> Resting]
  /\ mishaps = 0

-----------------------------------------------------------------------------
Goes(a, at) == actor' = [actor EXCEPT ![a].at = at]
Rests(a) == actor' = [actor EXCEPT ![a] = Resting]
Works(a, why, current) ==
  actor' = [actor EXCEPT ![a] = [at |-> "lock", why |-> why, current |-> current]]

(* _panel_generation is incremented by a, which then rests.                 *)
NextGeneration(a) ==
  actor' = [x \in Actor |-> IF x = a THEN Resting ELSE [actor[x] EXCEPT !.current = FALSE]]

Fails == mishaps < MaxMishaps /\ mishaps' = mishaps + 1

(* Whoever is between reading the state and returning has _panel_op_lock.  *)
OpLocked == \E a \in Actor : actor[a].at \in {"conf", "wall", "undo", "clean"}

Opening(a) == actor[a].why = "on"

-----------------------------------------------------------------------------
(* Requests.                                                               *)

(* panel:on:10, panel:on:30                                                *)
AskOn ==
  /\ actor[Main] = Resting /\ opened < MaxOpen
  /\ Works(Main, "on", FALSE)
  /\ UNCHANGED <<panel, wall, session, published, opened, mishaps>>

(* panel:off: _panel_close reads the generation, then closes.              *)
AskOff ==
  /\ actor[Main] = Resting
  /\ Works(Main, "off", TRUE)
  /\ UNCHANGED <<panel, wall, session, published, opened, mishaps>>

(* _panel_autoclose up to its set_panel; a timer that was replaced before   *)
(* this is of an older generation and does nothing.                        *)
TimerFires(c) ==
  /\ armed /\ actor[c] = Resting
  /\ armed' = FALSE
  /\ Works(c, "timer", TRUE)
  /\ UNCHANGED <<panel, wall, link, links, published, opened, mishaps>>

-----------------------------------------------------------------------------
(* _set_panel                                                              *)

(* The lock, and a first look at the state.                                *)
Enter(a) ==
  /\ actor[a].at = "lock" /\ ~OpLocked
  /\ Goes(a, CASE panel.state = "custom" -> "bad"
               [] panel.state = "off" /\ ~Opening(a) -> "wall"
               [] OTHER -> "conf")
  /\ UNCHANGED <<panel, wall, session, published, opened, mishaps>>

(* No local network, or no verified user interface.                        *)
NotReady(a) ==
  /\ actor[a].at = "lock" /\ ~OpLocked
  /\ Fails
  /\ Goes(a, "bad")
  /\ UNCHANGED <<panel, wall, session, published, opened>>

(* Inside the transaction: whose configuration is it now?                  *)
OverwritesCustom == TRUE
Owned == panel.state # "custom"

Close == panel' = IF panel.state = "on" THEN [state |-> "off", secret |-> 0] ELSE panel

ChangeConf(a) ==
  /\ actor[a].at = "conf" /\ Owned
  /\ IF Opening(a)
       THEN /\ opened' = opened + 1
            /\ panel' = [state |-> "on", secret |-> opened + 1]
       ELSE Close /\ UNCHANGED opened
  /\ Goes(a, "wall")
  /\ UNCHANGED <<wall, session, published, mishaps>>

(* The transaction fails, and must if the configuration became custom.     *)
ConfStays(a) ==
  /\ actor[a].at = "conf"
  /\ IF Owned THEN Fails ELSE UNCHANGED mishaps
  /\ Goes(a, "bad")
  /\ UNCHANGED <<panel, wall, session, published, opened>>

(* The old rules are deleted, the new one is inserted, the outcome is read  *)
(* back; it may fail anywhere.                                             *)
ChangeWall(a) ==
  /\ actor[a].at = "wall"
  /\ wall' = Opening(a)
  /\ Goes(a, IF Opening(a) THEN "send" ELSE "ok")
  /\ UNCHANGED <<panel, session, published, opened, mishaps>>

WallFails(a) ==
  /\ actor[a].at = "wall"
  /\ Fails
  /\ wall' \in {wall, FALSE, Opening(a)}
  /\ Goes(a, IF Opening(a) THEN "undo" ELSE "bad")
  /\ UNCHANGED <<panel, session, published, opened>>

(* Opening failed: the configuration, then the firewall, as far as it goes. *)
UndoConf(a) ==
  /\ actor[a].at = "undo"
  /\ \/ Owned /\ Close /\ UNCHANGED mishaps
     \/ UNCHANGED panel /\ (IF Owned THEN Fails ELSE UNCHANGED mishaps)
  /\ Goes(a, "clean")
  /\ UNCHANGED <<wall, session, published, opened>>

CleanWall(a) ==
  /\ actor[a].at = "clean"
  /\ \/ wall' = FALSE /\ UNCHANGED mishaps
     \/ UNCHANGED wall /\ Fails
  /\ Goes(a, "bad")
  /\ UNCHANGED <<panel, session, published, opened>>

-----------------------------------------------------------------------------
(* The session.                                                            *)

ClearState(a) ==
  /\ armed' = FALSE
  /\ link' = 0
  /\ links' = links \ {link}
  /\ NextGeneration(a)

ScheduleRetry(a) ==
  /\ armed' = TRUE
  /\ UNCHANGED <<link, links>>
  /\ NextGeneration(a)

(* _panel_publish: the message was sent; or its receipt did not come, and   *)
(* the panel is closed again.                                              *)
PublishLink ==
  /\ actor[Main].at = "send"
  /\ \/ /\ links' = links \cup {opened}
        /\ published' = published \cup {opened}
        /\ Goes(Main, "arm")
        /\ UNCHANGED mishaps
     \/ /\ Fails
        /\ \/ UNCHANGED <<links, published>>
           \/ links' = links \cup {opened} /\ published' = published \cup {opened}
        /\ Works(Main, "unsent", FALSE)
  /\ UNCHANGED <<panel, wall, armed, link, opened>>

(* _panel_arm                                                              *)
Arm ==
  /\ actor[Main].at = "arm"
  /\ armed' = TRUE
  /\ link' = opened
  /\ links' = links \ {link}
  /\ NextGeneration(Main)
  /\ UNCHANGED <<panel, wall, published, opened, mishaps>>

(* set_panel(False) returned to _panel_close or _panel_autoclose, which     *)
(* leave alone a session that is not theirs any more.                      *)
AnySession(a) == TRUE
OwnSession(a) == actor[a].current
SucceedsAnyway(a) == actor[a].at \in {"ok", "bad"}
Succeeded(a) == actor[a].at = "ok"

Closed(a) ==
  /\ actor[a].at \in {"ok", "bad"} /\ actor[a].why \in {"off", "timer"}
  /\ IF ~OwnSession(a) THEN Rests(a) /\ UNCHANGED session
     ELSE IF Succeeded(a) THEN ClearState(a) ELSE ScheduleRetry(a)
  /\ UNCHANGED <<panel, wall, published, opened, mishaps>>

(* To _panel_publish, which clears the session whatever it is, and then     *)
(* retries.                                                                *)
ClosedUnsent ==
  /\ actor[Main].at \in {"ok", "bad"} /\ actor[Main].why = "unsent"
  /\ armed' = (actor[Main].at = "bad")
  /\ link' = 0
  /\ links' = links \ {link}
  /\ NextGeneration(Main)
  /\ UNCHANGED <<panel, wall, published, opened, mishaps>>

(* To the handler of panel:on, and to _panel_startup_cleanup.              *)
RetriesNever == FALSE
RetriesAtStart == actor[Main].why = "boot" /\ actor[Main].at = "bad"
ClosedOtherwise ==
  /\ actor[Main].at \in {"ok", "bad"} /\ actor[Main].why \in {"on", "boot"}
  /\ IF RetriesAtStart THEN ScheduleRetry(Main) ELSE Rests(Main) /\ UNCHANGED session
  /\ UNCHANGED <<panel, wall, published, opened, mishaps>>

-----------------------------------------------------------------------------
(* The bot dies and is started again; _panel_startup_cleanup.  The kernel's *)
(* rules and the model stay.                                               *)
BotDies ==
  /\ Fails
  /\ armed' = FALSE /\ link' = 0
  /\ actor' = [a \in Actor |-> IF a = Main THEN [Resting EXCEPT !.at = "boot"] ELSE Resting]
  /\ UNCHANGED <<panel, wall, links, published, opened>>

StartupCleanup ==
  /\ actor[Main].at = "boot"
  /\ IF panel.state = "on"
       THEN Works(Main, "boot", FALSE) /\ UNCHANGED <<wall, mishaps>>
       ELSE /\ Rests(Main)
            /\ \/ panel.state = "off" /\ wall' = FALSE /\ UNCHANGED mishaps
               \/ panel.state = "off" /\ UNCHANGED wall /\ Fails
               \/ panel.state = "custom" /\ UNCHANGED <<wall, mishaps>>
  /\ UNCHANGED <<panel, session, published, opened>>

(* The operator makes clash_api his own.                                   *)
MakeCustom ==
  /\ panel.state # "custom"
  /\ panel' = [state |-> "custom", secret |-> 0]
  /\ UNCHANGED <<wall, session, published, opened, actor, mishaps>>

-----------------------------------------------------------------------------
SetPanelStep(a) ==
  Enter(a) \/ NotReady(a) \/ ChangeConf(a) \/ ConfStays(a) \/ ChangeWall(a) \/ WallFails(a)
    \/ UndoConf(a) \/ CleanWall(a) \/ Closed(a)
MainStep == PublishLink \/ Arm \/ ClosedUnsent \/ ClosedOtherwise \/ StartupCleanup

PanelNext ==
  \/ AskOn \/ AskOff \/ MainStep \/ BotDies \/ MakeCustom
  \/ \E c \in Callback : TimerFires(c)
  \/ \E a \in Actor : SetPanelStep(a)

(* Threads go on, and a timer goes off.                                    *)
PanelFairness ==
  /\ \A a \in Actor : WF_panelVars(SetPanelStep(a))
  /\ WF_panelVars(MainStep)
  /\ WF_panelVars(\E c \in Callback : TimerFires(c))

PanelSpec == PanelInit /\ [][PanelNext]_panelVars
FairPanelSpec == PanelSpec /\ PanelFairness

-----------------------------------------------------------------------------
(* Properties.                                                             *)

(* The menu's promise of a bounded exposure: an open panel whose link was   *)
(* sent always has a timer, unless a thread is about to close or arm it.    *)
PanelWatched ==
  panel.state = "on" /\ panel.secret \in published =>
    \/ armed
    \/ \E c \in Callback : actor[c] # Resting
    \/ actor[Main].at \in {"arm", "boot"}
    \/ actor[Main].why \in {"off", "unsent", "boot"}

(* _PanelOwnershipError: the bot never changes a clash_api that the         *)
(* operator has made his own, not even between its look and its write.      *)
CustomKept == [][panel.state = "custom" => panel' = panel]_panelVars

(* A link is deleted only when it no longer opens anything: on a failed     *)
(* close it stays for as long as it may still be valid.                    *)
LinkKept ==
  [][\A n \in links \ links' : panel # [state |-> "on", secret |-> n]]_panelVars

(* The promise itself: the panel of a link is closed, or replaced by the    *)
(* user, or made custom, some day; so it is after a restart.  What was      *)
(* published remains so.                                                   *)
PanelCloses ==
  \A n \in 1..MaxOpen :
    []<>(n \in published => panel # [state |-> "on", secret |-> n])

(* What test-panel.py says of timers, "an expired timer must not close a    *)
(* new panel": a timer closes only the session it was armed for.            *)
TimerSparesNewPanel ==
  [][\A c \in Callback :
       actor[c].at = "conf" /\ actor'[c].at = "wall" /\ panel.state = "on"
         => panel.secret = link]_panelVars
=============================================================================
