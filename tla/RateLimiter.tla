---------------------------- MODULE RateLimiter ----------------------------
(***************************************************************************)
(* What the anti-fraud filter promises when one consumer calls it: every   *)
(* address is counted in windows of TTL that begin with a search and let   *)
(* Limit of them pass, and an address is forgotten only after CacheSize    *)
(* other addresses have been seen since it was.                            *)
(***************************************************************************)
EXTENDS Integers, FiniteSets

CONSTANTS
  IPs,        \* the addresses that are limited
  Unlimited,  \* the address of events that carry none
  CacheSize,  \* how many addresses are remembered at least
  Limit,      \* searches let through in a window
  TTL         \* length of a window

VARIABLES
  clock,    \* the time
  windows,  \* the open window of each address: start and used
  others,   \* the addresses seen since this one was
  passes    \* passes[ip][t]: searches let through whose time was t

vars == <<clock, windows, others, passes>>

(* No window is open: none of its searches has been let through. *)
None == [start |-> 0, used |-> 0]

Passed(ip, t) == passes' = [passes EXCEPT ![ip][t] = @ + 1]

Init ==
  /\ clock \in Nat
  /\ windows = [ip \in IPs |-> None]
  /\ others = [ip \in IPs |-> {}]
  /\ passes = [ip \in IPs \cup {Unlimited} |-> [t \in DOMAIN passes[ip] |-> 0]]

Tick ==
  /\ clock' = clock + 1
  /\ UNCHANGED <<windows, others, passes>>

(* A search from an address is looked at. *)
See(ip) ==
  /\ others' = [x \in IPs |-> IF x = ip THEN {} ELSE others[x] \cup {ip}]
  /\ UNCHANGED <<clock, windows, passes>>

(* A window opens for an address that has none, perhaps at the expense of  *)
(* one not seen for long.                                                  *)
Admit(ip, now) ==
  /\ windows[ip] = None
  /\ \E forgotten \in {{}} \cup {{x} : x \in IPs \ {ip}} :
        /\ \A x \in forgotten : Cardinality(others[x]) >= CacheSize
        /\ windows' = [x \in IPs |->
                         IF x = ip THEN [start |-> now, used |-> 1]
                         ELSE IF x \in forgotten THEN None ELSE windows[x]]
  /\ Passed(ip, now)
  /\ UNCHANGED <<clock, others>>

(* A window that has run out is replaced by a new one. *)
Reopen(ip, now) ==
  /\ windows[ip] # None
  /\ now > windows[ip].start + TTL
  /\ windows' = [windows EXCEPT ![ip] = [start |-> now, used |-> 1]]
  /\ Passed(ip, now)
  /\ UNCHANGED <<clock, others>>

(* A search passes in an open window; in a full one it is refused, which   *)
(* changes nothing here.                                                   *)
Pass(ip, now) ==
  /\ windows[ip] # None
  /\ now <= windows[ip].start + TTL
  /\ windows[ip].used < Limit
  /\ windows' = [windows EXCEPT ![ip].used = @ + 1]
  /\ Passed(ip, now)
  /\ UNCHANGED <<clock, others>>

PassUnlimited(now) ==
  /\ Passed(Unlimited, now)
  /\ UNCHANGED <<clock, windows, others>>

Next ==
  \/ Tick
  \/ \E ip \in IPs : See(ip)
  \/ \E ip \in IPs, now \in 0 .. clock :
        Admit(ip, now) \/ Reopen(ip, now) \/ Pass(ip, now)
  \/ \E now \in 0 .. clock : PassUnlimited(now)

Spec == Init /\ [][Next]_vars
=============================================================================
