--------------------------- MODULE OrderedStream ----------------------------
(***************************************************************************)
(* What an outbox promises to the consumers of a sequenced topic, without  *)
(* tables, leases or retries: an event is loaded together with the set of  *)
(* events it must not overtake, is delivered at least once when each of    *)
(* these has been delivered or withdrawn, and may be withdrawn by hand.    *)
(* (The promise: OutboxConfig.sequencedTopics, outbox.types.ts.)           *)
(***************************************************************************)
CONSTANTS Events

VARIABLES loaded,     \* events whose transaction has committed
          after,      \* for each event, what it must not overtake
          delivered,  \* events delivered at least once
          withdrawn   \* events given up by hand

streamVars == <<loaded, after, delivered, withdrawn>>

StreamInit ==
  /\ loaded = {} /\ delivered = {} /\ withdrawn = {}
  /\ after = [e \in Events |-> {}]

\* Loading fixes what an event follows: events loaded before or with it.
Load(S) ==
  /\ S \cap loaded = {}
  /\ loaded' = loaded \cup S
  /\ after' \in [Events -> SUBSET Events]
  /\ \A e \in Events : IF e \in S THEN after'[e] \subseteq loaded' ELSE after'[e] = after[e]
  /\ UNCHANGED <<delivered, withdrawn>>

Deliver(e) ==
  /\ e \in loaded
  /\ after[e] \subseteq delivered \cup withdrawn
  /\ delivered' = delivered \cup {e}
  /\ UNCHANGED <<loaded, after, withdrawn>>

Withdraw(e) ==
  /\ e \in loaded
  /\ withdrawn' = withdrawn \cup {e}
  /\ UNCHANGED <<loaded, after, delivered>>

StreamNext ==
  \/ \E S \in SUBSET Events : Load(S)
  \/ \E e \in Events : Deliver(e) \/ Withdraw(e)

StreamSpec == StreamInit /\ [][StreamNext]_streamVars
=============================================================================
