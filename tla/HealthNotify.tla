----------------------------- MODULE HealthNotify -----------------------------
(***************************************************************************)
(* The health notifier, deploy/bot/healthcheck.py: every ten minutes a      *)
(* process looks for problems and tells each recipient by Telegram what     *)
(* has changed since he was last told.  All it knows of its earlier runs    *)
(* is one file, with a row for each recipient; Telegram may accept a        *)
(* message and the receipt be lost, and the process may die at any step.    *)
(*                                                                         *)
(* A list of problems is one value, the empty list Fine.  A run goes        *)
(* through the recipients in the order of their ids; here in any order.     *)
(* Time is counted in runs of the timer (ten minutes).  The file is         *)
(* replaced atomically, under a lock that excludes a second run.            *)
(***************************************************************************)
EXTENDS Naturals

CONSTANTS
  Recipient,   \* user ids
  Trouble,     \* non-empty problem lists
  Fine,        \* the empty one
  Unknown,     \* delivered is null: migrated from the old file
  MaxLosses    \* bound on lost messages and receipts, deaths, clock steps,
               \* changes of the recipients

HealthAssumption ==
  /\ Fine \notin Trouble /\ Unknown \notin Trouble /\ Fine # Unknown
  /\ MaxLosses \in Nat
ASSUME HealthAssumption

RetryMax == 6              \* RETRY_MAX, one hour
Years == RetryMax + 1      \* a wait after the clock was set back
Backoff == <<1, 2, 4, 6>>  \* RETRY_BASE * 2^(attempts - 1), up to RETRY_MAX

VARIABLES
  trouble,  \* what the checks would find
  allowed,  \* PDG_BOT_ALLOWED
  saved,    \* the rows of the file
  oldSchema,   \* the file still has the old schema
  rows,     \* the rows in the memory of the run
  run,      \* what the run does (idle, send, save), the recipients it has left, the
            \* one it has written to, and what it found
  belief,   \* what a recipient last read: a problem list, or Fine
  lost,     \* he read a message that the file does not show as delivered
  losses

healthVars == <<trouble, allowed, saved, oldSchema, rows, run, belief, lost, losses>>

NoRun == [at |-> "idle", left |-> {}, to |-> {}, found |-> Fine]
NonePending == [kind |-> "none", problems |-> Fine, attempts |-> 0, wait |-> 0]
NewRecipient(observed, delivered) ==
  [observed |-> observed, delivered |-> delivered, pending |-> NonePending]

(* A new installation, or the file of the old notifier, which recorded what *)
(* it observed and not what it delivered.                                  *)
HealthInit ==
  /\ trouble \in Trouble \cup {Fine}
  /\ allowed = Recipient
  /\ oldSchema \in BOOLEAN
  /\ \E old \in IF oldSchema THEN Trouble \cup {Fine} ELSE {Fine} :
       /\ saved = [u \in Recipient |-> NewRecipient(old, IF old = Fine THEN Fine ELSE Unknown)]
       /\ belief \in [Recipient -> {Fine, old}]
  /\ rows = saved
  /\ run = NoRun
  /\ lost = [u \in Recipient |-> FALSE]
  /\ losses = 0

-----------------------------------------------------------------------------
(* _decode_state: a row that the program could not have written is an       *)
(* error, and no run gets past it.                                         *)
Consistent(row) ==
  /\ row.pending.attempts <= 4
  /\ row.pending.kind = "none" => row.delivered = row.observed
  /\ row.pending.kind = "problem" =>
       /\ row.observed # Fine /\ row.pending.problems = row.observed
       /\ row.delivered # row.observed
  /\ row.pending.kind = "recovery" =>
       /\ row.observed = Fine /\ row.pending.problems = Fine
       /\ row.delivered \notin {Fine, Unknown}
  /\ row.pending.kind = "resolved" =>
       /\ row.observed = Fine /\ row.pending.problems # Fine
       /\ row.delivered # row.pending.problems

Readable == oldSchema \/ \A u \in DOMAIN saved : Consistent(saved[u])

-----------------------------------------------------------------------------
(* _observe                                                                *)

NotConfirmedAnyway(row) == TRUE
NotConfirmed(row) == row.delivered = Unknown \/ row.delivered # row.observed

NoticeOf(row, problems) ==
  IF problems # Fine
    THEN IF row.delivered = problems THEN NonePending
         ELSE [NonePending EXCEPT !.kind = "problem", !.problems = problems]
  ELSE IF row.observed # Fine /\ NotConfirmed(row)
    THEN [NonePending EXCEPT !.kind = "resolved", !.problems = row.observed]
  ELSE IF row.delivered \notin {Fine, Unknown}
    THEN [NonePending EXCEPT !.kind = "recovery"]
  ELSE NonePending

(* A backward clock correction must not postpone a retry indefinitely.     *)
AnyWait(wait) == wait
Capped(wait) == IF wait > RetryMax THEN RetryMax ELSE wait

StillPendingAnyway(row, problems) == row.pending # NonePending
StillPending(row, problems) == row.observed = problems /\ row.pending # NonePending

Observe(row, problems) ==
  IF StillPending(row, problems)
    THEN [row EXCEPT !.pending.wait = Capped(@)]
    ELSE [row EXCEPT !.observed = problems, !.pending = NoticeOf(row, problems)]

(* A run finds what it finds, writes what it will send, and only then       *)
(* sends.  Who is not allowed any more is forgotten.                       *)
Check ==
  /\ run = NoRun /\ Readable
  /\ rows' = [u \in allowed |->
       Observe(IF u \in DOMAIN saved THEN saved[u] ELSE NewRecipient(Fine, Fine), trouble)]
  /\ saved' = rows'
  /\ oldSchema' = FALSE
  /\ run' = [at |-> "send", left |-> allowed, to |-> {}, found |-> trouble]
  /\ belief' = [u \in Recipient |-> IF u \in allowed THEN belief[u] ELSE Fine]
  /\ lost' = [u \in Recipient |-> u \in allowed /\ lost[u]]
  /\ UNCHANGED <<trouble, allowed, losses>>

-----------------------------------------------------------------------------
(* Sending.                                                                *)

Due(u) == rows[u].pending # NonePending /\ rows[u].pending.wait = 0
Loses == losses < MaxLosses /\ losses' = losses + 1

Skip(u) ==
  /\ run.at = "send" /\ u \in run.left /\ ~Due(u)
  /\ run' = [run EXCEPT !.left = @ \ {u}]
  /\ UNCHANGED <<trouble, allowed, saved, oldSchema, rows, belief, lost, losses>>

Reads(u) ==
  /\ belief' = [belief EXCEPT ![u] =
       IF rows[u].pending.kind = "problem" THEN rows[u].pending.problems ELSE Fine]
  /\ lost' = [lost EXCEPT ![u] = TRUE]

ConfirmedAnyway(receipt) == TRUE
Confirmed(receipt) == receipt

Delivered(row) == [row EXCEPT !.delivered = row.observed, !.pending = NonePending]
Attempts(row) == IF row.pending.attempts < 4 THEN row.pending.attempts + 1 ELSE 4
Failed(row) ==
  [row EXCEPT !.pending.attempts = Attempts(row), !.pending.wait = Backoff[Attempts(row)]]

(* bot.post: accepted with a receipt, accepted and the receipt is lost, or  *)
(* not accepted.                                                           *)
Send(u) ==
  /\ run.at = "send" /\ u \in run.left /\ Due(u)
  /\ \E receipt \in BOOLEAN :
       /\ \/ Reads(u)
          \/ ~receipt /\ UNCHANGED <<belief, lost>>
       /\ IF receipt THEN UNCHANGED losses ELSE Loses
       /\ rows' = [rows EXCEPT ![u] =
            IF Confirmed(receipt) THEN Delivered(@) ELSE Failed(@)]
  /\ run' = [run EXCEPT !.at = "save", !.left = @ \ {u}, !.to = {u}]
  /\ UNCHANGED <<trouble, allowed, saved, oldSchema>>

Save ==
  /\ run.at = "save"
  /\ saved' = rows
  /\ lost' = [u \in Recipient |->
       lost[u] /\ ~(u \in run.to /\ rows[u].pending = NonePending)]
  /\ run' = [run EXCEPT !.at = "send", !.to = {}]
  /\ UNCHANGED <<trouble, allowed, oldSchema, rows, belief, losses>>

CheckEnds ==
  /\ run.at = "send" /\ run.left = {}
  /\ run' = NoRun
  /\ UNCHANGED <<trouble, allowed, saved, oldSchema, rows, belief, lost, losses>>

-----------------------------------------------------------------------------
(* The environment.                                                        *)

TroubleChanges ==
  /\ trouble' \in (Trouble \cup {Fine}) \ {trouble}
  /\ UNCHANGED <<allowed, saved, oldSchema, rows, run, belief, lost, losses>>

CheckDies ==
  /\ run # NoRun /\ Loses
  /\ run' = NoRun
  /\ UNCHANGED <<trouble, allowed, saved, oldSchema, rows, belief, lost>>

Sooner(wait) == IF wait \in 1..RetryMax THEN wait - 1 ELSE wait
WaitsBecome(W(_)) ==
  saved' = [u \in DOMAIN saved |->
    IF saved[u].pending = NonePending THEN saved[u] ELSE [saved[u] EXCEPT !.pending.wait = W(@)]]

TenMinutesPass ==
  /\ run = NoRun
  /\ WaitsBecome(Sooner)
  /\ UNCHANGED <<trouble, allowed, oldSchema, rows, run, belief, lost, losses>>

Later(wait) == Years
ClockSetBack ==
  /\ run = NoRun /\ Loses
  /\ WaitsBecome(Later)
  /\ UNCHANGED <<trouble, allowed, oldSchema, rows, run, belief, lost>>

SetRecipients ==
  /\ run = NoRun /\ Loses
  /\ allowed' \in SUBSET Recipient \ {allowed, {}}
  /\ UNCHANGED <<trouble, saved, oldSchema, rows, run, belief, lost>>

-----------------------------------------------------------------------------
CheckStep == Check \/ CheckEnds \/ Save \/ \E u \in Recipient : Skip(u) \/ Send(u)

HealthNext ==
  CheckStep \/ TroubleChanges \/ CheckDies \/ TenMinutesPass \/ ClockSetBack \/ SetRecipients

(* The timer starts runs, a run goes on, and time passes.                   *)
HealthFairness == WF_healthVars(CheckStep) /\ SF_healthVars(TenMinutesPass)
HealthSpec == HealthInit /\ [][HealthNext]_healthVars
FairHealthSpec == HealthSpec /\ HealthFairness

-----------------------------------------------------------------------------
(* Properties.                                                             *)

(* Whatever happens and wherever a run dies, the next run can read what the *)
(* last one wrote: _decode_state refuses an inconsistent row, and then no   *)
(* run ever sends anything again.                                          *)
StateReadable == Readable

(* What a row calls delivered is what its recipient last read, unless the   *)
(* receipt of that message was lost.                                       *)
DeliveredIsRead ==
  \A u \in DOMAIN saved :
    lost[u] \/ oldSchema \/ saved[u].delivered \in {Unknown, belief[u]}

(* "Do not send an obsolete alarm followed by an unexplained recovery": an  *)
(* alarm is about what this run has found; a plain recovery goes to who     *)
(* read of an alarm, a combined notice to who may not have.                 *)
MessagesFit ==
  [][\A u \in DOMAIN rows : run.at = "send" /\ run'.at = "save" /\ u \in run'.to =>
       /\ rows[u].pending.kind = "problem" => rows[u].pending.problems = run.found
       /\ rows[u].pending.kind = "recovery" =>
            run.found = Fine /\ (belief[u] # Fine \/ lost[u])
       /\ rows[u].pending.kind = "resolved" =>
            /\ run.found = Fine
            /\ \/ belief[u] # rows[u].pending.problems \/ lost[u]
               \/ rows[u].delivered = Unknown
    ]_healthVars

(* When the trouble no longer changes, everybody is told in the end, for    *)
(* all that was lost, died or was set back before.                         *)
HealthSettles ==
  \A p \in Trouble \cup {Fine}, u \in Recipient :
    <>[](trouble = p /\ u \in allowed) =>
      <>[](u \in DOMAIN saved /\ saved[u].delivered = p
             /\ saved[u].pending = NonePending)
=============================================================================
