------------------------------ MODULE BanList ------------------------------
(***************************************************************************)
(* What the stop list promises: a set of banned words that every request   *)
(* changes, and every check consults, at one moment between its call and   *)
(* its return.                                                             *)
(***************************************************************************)
CONSTANTS
  Words,       \* the words that can be banned
  Clients,     \* senders of requests
  Checkers,    \* callers of Check
  Contains,    \* Contains[q]: the words found in query q
  BannedFirst  \* the words banned at the start

Queries == DOMAIN Contains

VARIABLES
  banned,   \* the banned words
  orders,   \* the request of each client: at, op, words and status
  lookups   \* the check of each checker: at, query and verdict

vars == <<banned, orders, lookups>>

Clean(q) == Contains[q] \cap banned = {}

Init ==
  /\ banned = BannedFirst
  /\ orders = [c \in Clients |->
                 [at |-> "idle", op |-> "add", words |-> {}, status |-> 0]]
  /\ lookups \in [Checkers -> [at : {"idle"}, query : Queries, verdict : {TRUE}]]

Call(c, op, ws) ==
  /\ orders[c].at = "idle"
  /\ orders' = [orders EXCEPT ![c] =
                  [at |-> "called", op |-> op, words |-> ws, status |-> 0]]
  /\ UNCHANGED <<banned, lookups>>

(* The words are banned, if there are any. *)
Ban(c) ==
  /\ orders[c].at = "called" /\ orders[c].op = "add"
  /\ banned' = banned \cup orders[c].words
  /\ orders' = [orders EXCEPT ![c] =
                  [at |-> "done", op |-> @.op, words |-> @.words, status |-> 201]]
  /\ UNCHANGED lookups

(* The words are allowed again, if any of them was banned. *)
Unban(c) ==
  /\ orders[c].at = "called" /\ orders[c].op = "delete"
  /\ banned' = banned \ orders[c].words
  /\ orders' = [orders EXCEPT ![c] =
                  [at |-> "done", op |-> @.op, words |-> @.words,
                   status |-> IF @.words \cap banned = {} THEN 404 ELSE 200]]
  /\ UNCHANGED lookups

(* A request without words, or with blank words only, may be refused: one  *)
(* that cannot be decoded with 400, blank words to be added with 422.      *)
Refuse(c) ==
  /\ orders[c].at = "called" /\ orders[c].words = {}
  /\ \E status \in {400, 422} :
        /\ status = 422 => orders[c].op = "add"
        /\ orders' = [orders EXCEPT ![c] =
                        [at |-> "done", op |-> @.op, words |-> @.words, status |-> status]]
  /\ UNCHANGED <<banned, lookups>>

Return(c) ==
  /\ orders[c].at = "done"
  /\ orders' = [orders EXCEPT ![c] =
                  [at |-> "idle", op |-> "add", words |-> {}, status |-> 0]]
  /\ UNCHANGED <<banned, lookups>>

Ask(k, q) ==
  /\ lookups[k].at = "idle"
  /\ lookups' = [lookups EXCEPT ![k] = [at |-> "asked", query |-> q, verdict |-> TRUE]]
  /\ UNCHANGED <<banned, orders>>

Decide(k) ==
  /\ lookups[k].at = "asked"
  /\ lookups' = [lookups EXCEPT ![k] =
                   [at |-> "decided", query |-> @.query, verdict |-> Clean(@.query)]]
  /\ UNCHANGED <<banned, orders>>

Tell(k) ==
  /\ lookups[k].at = "decided"
  /\ lookups' = [lookups EXCEPT ![k] =
                   [at |-> "idle", query |-> @.query, verdict |-> TRUE]]
  /\ UNCHANGED <<banned, orders>>

Next ==
  \/ \E c \in Clients :
        \/ \E op \in {"add", "delete"}, ws \in SUBSET Words : Call(c, op, ws)
        \/ Refuse(c) \/ Ban(c) \/ Unban(c) \/ Return(c)
  \/ \E k \in Checkers :
        \/ \E q \in Queries : Ask(k, q)
        \/ Decide(k) \/ Tell(k)

Spec == Init /\ [][Next]_vars
=============================================================================
