--------------------------- MODULE AtomicConfig ---------------------------
(***************************************************************************)
(* What the transaction core promises its callers: the configuration       *)
(* changes by whole transactions.  A transaction collects a basis, the     *)
(* contents its candidate was computed from; in one step, and only while   *)
(* the configuration still agrees with the whole basis, all its writes     *)
(* take effect; or it ends without any.  An unfinished or crashed          *)
(* transaction is open: none of its writes is part of the configuration.   *)
(***************************************************************************)
EXTENDS Naturals

CONSTANTS Tx, Target, Value,
          Writes   \* Writes[t] maps the targets t may stage to their contents

VARIABLES conf,    \* the configuration
          status,  \* of each transaction: "none", "open" or "closed"
          basis    \* what each transaction has read

vars == <<conf, status, basis>>

Init ==
  /\ conf \in [Target -> Value]
  /\ status = [t \in Tx |-> "none"]
  /\ basis = [t \in Tx |-> [n \in {} |-> conf[n]]]

Open(t) ==
  /\ status[t] = "none"
  /\ status' = [status EXCEPT ![t] = "open"]
  /\ UNCHANGED <<conf, basis>>

(* A read may see anything: also a content that is about to be rolled back. *)
Read(t) ==
  /\ status[t] = "open"
  /\ \E S \in SUBSET (Target \ DOMAIN basis[t]) : \E seen \in [S -> Value] :
       basis' = [basis EXCEPT ![t] =
         [n \in DOMAIN @ \cup S |-> IF n \in S THEN seen[n] ELSE @[n]]]
  /\ UNCHANGED <<conf, status>>

Commit(t) ==
  /\ status[t] = "open"
  /\ \A n \in DOMAIN basis[t] : conf[n] = basis[t][n]
  /\ conf' = [n \in Target |-> IF n \in DOMAIN basis[t] \cap DOMAIN Writes[t]
                                 THEN Writes[t][n] ELSE conf[n]]
  /\ status' = [status EXCEPT ![t] = "closed"]
  /\ UNCHANGED basis

Cancel(t) ==
  /\ status[t] = "open"
  /\ status' = [status EXCEPT ![t] = "closed"]
  /\ UNCHANGED <<conf, basis>>

Next == \E t \in Tx : Open(t) \/ Read(t) \/ Commit(t) \/ Cancel(t)

Spec == Init /\ [][Next]_vars
=============================================================================
