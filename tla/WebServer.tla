------------------------------ MODULE WebServer ------------------------------
(***************************************************************************)
(* The web server deploy/web/pdg-web.py as a pool of workers: every         *)
(* connection takes a worker, its headers have a deadline, and a login or   *)
(* an export reserves one of few attempts before the password is hashed, in *)
(* one of few slots.                                                       *)
(*                                                                         *)
(* What a request does in the control layer is the other modules' matter;   *)
(* sessions and their cookies are left out.                                *)
(***************************************************************************)
EXTENDS Naturals, Sequences, SequencesExt, FiniteSets

CONSTANTS
  Peer,          \* connections there can be at a time
  Address,       \* the trusted addresses they come from
  MaxWorkers,    \* LimitedThreadingHTTPServer's max_workers: 32
  KdfSlots,      \* LOGIN_KDF_SLOTS: 2
  LoginAttempts, \* LOGIN_RATE_ATTEMPTS, of one address: 5
  AllAttempts,   \* LOGIN_ALL_RATE_ATTEMPTS: 30
  RateWindow,    \* LOGIN_RATE_WINDOW: 15 minutes
  RateMapLimit,  \* RATE_MAP_LIMIT: 1024
  MaxAccepted,   \* bound on the number of connections
  MaxClock       \* bound on the time

ASSUME ServerAssumption ==
  /\ {MaxWorkers, KdfSlots, LoginAttempts, AllAttempts, RateWindow, RateMapLimit}
       \subseteq Nat \ {0}
  /\ {MaxAccepted, MaxClock} \subseteq Nat

VARIABLES
  conn,          \* each connection: how far its worker is
  accepted,      \* how many there have been
  workerSlots,   \* _worker_slots
  passwordSlots, \* _password_slots
  logins,        \* _logins: times of the failures of an address
  allFailures,   \* _all_login_failures
  pending,       \* _pending_logins
  pendingTotal,  \* _pending_login_total
  clock,         \* the time, in units of which RateWindow are 15 minutes
  guesses        \* ghost: when wrong passwords were tried, of all and of an
                 \* address since its failures were last forgotten

poolVars == <<accepted, workerSlots>>
rateVars == <<logins, allFailures, pending, pendingTotal>>
serverVars == <<conn, poolVars, passwordSlots, rateVars, clock, guesses>>

(* cut: the watchdog has shut the connection; result: what became of the    *)
(* attempt to log in.                                                      *)
None == "none"
NoConn == [at |-> "none", ip |-> None, cut |-> FALSE, result |-> None]

ServerInit ==
  /\ conn = [c \in Peer |-> NoConn]
  /\ accepted = 0
  /\ workerSlots = MaxWorkers /\ passwordSlots = KdfSlots
  /\ logins = [a \in Address |-> <<>>]
  /\ allFailures = <<>>
  /\ pending = [a \in Address |-> 0] /\ pendingTotal = 0
  /\ clock = 0
  /\ guesses = [all |-> <<>>, of |-> [a \in Address |-> <<>>]]

Moves(c, at) == conn' = [conn EXCEPT ![c].at = at]

-----------------------------------------------------------------------------
(* The workers.                                                            *)

(* get_request, verify_request and process_request: without a free worker   *)
(* the connection is closed at once, as when its thread cannot start.       *)
TakeIn(c) ==
  /\ conn[c] = NoConn /\ accepted < MaxAccepted
  /\ accepted' = accepted + 1
  /\ \/ /\ workerSlots > 0
        /\ workerSlots' = workerSlots - 1
        /\ \E a \in Address : conn' = [conn EXCEPT ![c] = [NoConn EXCEPT !.at = "headers", !.ip = a]]
     \/ UNCHANGED <<conn, workerSlots>>
  /\ UNCHANGED <<passwordSlots, rateVars, clock, guesses>>

(* _HeaderLimitedReader._expire: the client may send a byte of its headers   *)
(* now and then for ever.                                                  *)
Expire(c) ==
  /\ conn[c].at = "headers" /\ ~conn[c].cut
  /\ conn' = [conn EXCEPT ![c].cut = TRUE]
  /\ UNCHANGED <<poolVars, passwordSlots, rateVars, clock, guesses>>

(* The last header line, or a line that is too long, or a client that went   *)
(* away.  The watchdog may have expired between the last line and           *)
(* finish_headers, which then no longer asks.                              *)
HeadersEnd(c) ==
  /\ conn[c].at = "headers"
  /\ \/ Moves(c, "request")
     \/ Moves(c, "closing")
  /\ UNCHANGED <<poolVars, passwordSlots, rateVars, clock, guesses>>

HeadersFail(c) ==
  /\ conn[c].at = "headers" /\ conn[c].cut
  /\ Moves(c, "closing")
  /\ UNCHANGED <<poolVars, passwordSlots, rateVars, clock, guesses>>

(* _dispatch and _dispatch_api refuse a host, an origin, a target, too many  *)
(* requests, a missing session or a wrong token.                           *)
Refuse(c) ==
  /\ conn[c].at = "request"
  /\ Moves(c, "closing")
  /\ UNCHANGED <<poolVars, passwordSlots, rateVars, clock, guesses>>

(* A static file, or a route to the control layer, which keeps the worker    *)
(* busy for as long as it takes.                                           *)
Serve(c) ==
  /\ conn[c].at = "request"
  /\ Moves(c, "called")
  /\ UNCHANGED <<poolVars, passwordSlots, rateVars, clock, guesses>>

(* _call turns what it returns or raises into an answer.                   *)
CallEnds(c) ==
  /\ conn[c].at = "called"
  /\ Moves(c, "closing")
  /\ UNCHANGED <<poolVars, passwordSlots, rateVars, clock, guesses>>

(* process_request_thread: whatever happened, the worker is free again.     *)
WorkerEnds(c) ==
  /\ conn[c].at = "closing"
  /\ conn' = [conn EXCEPT ![c] = NoConn]
  /\ workerSlots' = workerSlots + 1
  /\ UNCHANGED <<accepted, passwordSlots, rateVars, clock, guesses>>

-----------------------------------------------------------------------------
(* Attempts to log in or to export (_login and _export_config).            *)

(* _prune: the old entries at the front go, up to the first that is not.    *)
Recent(times, now) ==
  LET kept == {i \in 1..Len(times) : times[i] + RateWindow > now} \cup {Len(times) + 1}
  IN  SubSeq(times, Min(kept), Len(times))
Fresh(times) == Recent(times, clock)
FreshOnly == [a \in Address |-> Fresh(logins[a])]

FailedOnly(a) ==
  /\ Len(Fresh(allFailures)) < AllAttempts
  /\ Len(Fresh(logins[a])) < LoginAttempts

MayTry(a) ==
  /\ Len(Fresh(allFailures)) + pendingTotal < AllAttempts
  /\ Len(Fresh(logins[a])) + pending[a] < LoginAttempts

(* reserve_login_attempt.                                                  *)
Reserve(c) ==
  LET a == conn[c].ip
  IN  /\ conn[c].at = "request"
      /\ allFailures' = Fresh(allFailures) /\ logins' = FreshOnly
      /\ IF MayTry(a) THEN /\ Moves(c, "reserved")
                           /\ pending' = [pending EXCEPT ![a] = @ + 1]
                           /\ pendingTotal' = pendingTotal + 1
                      ELSE Moves(c, "closing") /\ UNCHANGED <<pending, pendingTotal>>
      /\ UNCHANGED <<poolVars, passwordSlots, clock, guesses>>

(* The body does not come, is no JSON, or has no password.                  *)
BodyFails(c) ==
  /\ conn[c].at = "reserved"
  /\ conn' = [conn EXCEPT ![c].at = "tried", ![c].result = "malformed"]
  /\ UNCHANGED <<poolVars, passwordSlots, rateVars, clock, guesses>>

(* verify_password takes a slot, or gives up at once if there is none.       *)
Verify(c) ==
  /\ conn[c].at = "reserved"
  /\ IF passwordSlots > 0
       THEN Moves(c, "hashing") /\ passwordSlots' = passwordSlots - 1
       ELSE /\ conn' = [conn EXCEPT ![c].at = "tried", ![c].result = "busy"]
            /\ UNCHANGED passwordSlots
  /\ UNCHANGED <<poolVars, rateVars, clock, guesses>>

HashEnds(c) ==
  /\ conn[c].at = "hashing"
  /\ passwordSlots' = passwordSlots + 1
  /\ \E result \in {"right", "wrong"} :
       /\ conn' = [conn EXCEPT ![c].at = "tried", ![c].result = result]
       /\ guesses' = IF result = "right" THEN guesses
                     ELSE [guesses EXCEPT !.all = Append(@, clock),
                                          !.of[conn[c].ip] = Append(@, clock)]
  /\ UNCHANGED <<poolVars, rateVars, clock>>

(* _record_login_failure_locked: the map of addresses is kept small.        *)
Known(m) == {a \in Address : m[a] # <<>>}
Victims(a) ==
  LET known == Known(FreshOnly)
  IN  IF a \in known \/ Cardinality(known) < RateMapLimit THEN {}
      ELSE {x \in known : \A y \in known : Last(FreshOnly[x]) <= Last(FreshOnly[y])}

Recorded(a, victim) ==
  [x \in Address |-> IF x = a THEN Append(FreshOnly[x], clock)
                     ELSE IF x = victim THEN <<>> ELSE FreshOnly[x]]

ForgetOf(victim) ==
  guesses' = [guesses EXCEPT !.of = [x \in Address |-> IF x = victim THEN <<>> ELSE @[x]]]

(* finish_login_attempt, on every way out.                                 *)
FinishesUnlessMalformed == {"right", "wrong", "busy"}
Finishes == {"right", "wrong", "malformed", "busy"}
FinishAttempt(c) ==
  LET a == conn[c].ip
      result == conn[c].result
  IN  /\ conn[c].at = "tried"
      /\ IF result \in Finishes /\ pending[a] > 0
           THEN /\ pending' = [pending EXCEPT ![a] = @ - 1]
                /\ pendingTotal' = pendingTotal - 1
           ELSE UNCHANGED <<pending, pendingTotal>>
      /\ Moves(c, IF result = "right" THEN "valid" ELSE "closing")
      /\ IF result \in {"wrong", "malformed"}
           THEN /\ allFailures' = Append(Fresh(allFailures), clock)
                /\ \E victim \in IF Victims(a) = {} THEN {None} ELSE Victims(a) :
                     logins' = Recorded(a, victim) /\ ForgetOf(victim)
           ELSE UNCHANGED <<allFailures, logins, guesses>>
      /\ UNCHANGED <<poolVars, passwordSlots, clock>>

(* clear_login_failures, then the session or the exported file.             *)
Welcome(c) ==
  LET a == conn[c].ip
  IN  /\ conn[c].at = "valid"
      /\ logins' = [logins EXCEPT ![a] = <<>>]
      /\ ForgetOf(a)
      /\ Moves(c, "closing")
      /\ UNCHANGED <<poolVars, passwordSlots, allFailures, pending, pendingTotal, clock>>

-----------------------------------------------------------------------------
(* Guesses older than the window are no longer of interest.                *)
Minutes ==
  /\ clock < MaxClock
  /\ clock' = clock + 1
  /\ guesses' = [all |-> Recent(guesses.all, clock'),
                 of |-> [a \in Address |-> Recent(guesses.of[a], clock')]]
  /\ UNCHANGED <<conn, poolVars, passwordSlots, rateVars>>

(* What a worker does on its own; reading the body ends because its length  *)
(* is limited and every read has a timeout.                                *)
WorkerStep(c) ==
  \/ HeadersFail(c) \/ Refuse(c) \/ Serve(c) \/ CallEnds(c) \/ WorkerEnds(c)
  \/ Reserve(c) \/ BodyFails(c) \/ HashEnds(c) \/ FinishAttempt(c) \/ Welcome(c)

ServerNext ==
  \/ \E c \in Peer : TakeIn(c) \/ Expire(c) \/ HeadersEnd(c) \/ Verify(c) \/ WorkerStep(c)
  \/ Minutes

ServerSpec == ServerInit /\ [][ServerNext]_serverVars
FairServerSpec ==
  /\ ServerSpec
  /\ \A c \in Peer : WF_serverVars(WorkerStep(c)) /\ WF_serverVars(Expire(c))

-----------------------------------------------------------------------------
(* Properties.                                                             *)

(* However many attempts run at the same time, and wherever they end, within *)
(* any LOGIN_RATE_WINDOW at most LOGIN_ALL_RATE_ATTEMPTS wrong passwords are *)
(* tried, and from one address at most LOGIN_RATE_ATTEMPTS since it last     *)
(* logged in or was pushed out of the map.                                 *)
GuessesBounded ==
  /\ Len(guesses.all) <= AllAttempts
  /\ \A a \in Address : Len(guesses.of[a]) <= LoginAttempts

(* Once clients stop coming, every worker, every hashing slot and every      *)
(* reserved attempt is given back, though a client may never finish its     *)
(* headers or its body, and whatever way each request ended.               *)
AllReleased ==
  <>[](/\ workerSlots = MaxWorkers /\ passwordSlots = KdfSlots
       /\ \A a \in Address : pending[a] = 0)
=============================================================================
