----------------------------- MODULE WriteOnce ------------------------------
(***************************************************************************)
(* What an idempotency key promises to the clients that repeat a request:  *)
(* the outcome of a key is settled at most once, and whoever is told the   *)
(* outcome of a key is told that one.                                      *)
(* (The promise: a SUCCESS is replayed, IdempotencyService.handleExisting.) *)
(***************************************************************************)
CONSTANTS Clients, Names, Nobody

VARIABLES outcome,  \* for each key, the client whose result is its outcome
          told      \* for each client, the result it was told

writeOnceVars == <<outcome, told>>

WInit ==
  /\ outcome = [n \in Names |-> Nobody]
  /\ told = [c \in Clients |-> Nobody]

Settle(n, c) ==
  /\ outcome[n] = Nobody
  /\ outcome' = [outcome EXCEPT ![n] = c]
  /\ UNCHANGED told

Tell(n, c) ==
  /\ outcome[n] # Nobody
  /\ told[c] = Nobody
  /\ told' = [told EXCEPT ![c] = outcome[n]]
  /\ UNCHANGED outcome

WNext == \E n \in Names, c \in Clients : Settle(n, c) \/ Tell(n, c)

WSpec == WInit /\ [][WNext]_writeOnceVars
=============================================================================
