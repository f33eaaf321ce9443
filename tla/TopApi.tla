------------------------------ MODULE TopApi ------------------------------
(***************************************************************************)
(* Readers of the top list: GET /api/v1/top with the raw and the struct    *)
(* handler, while the aggregator worker replaces the list.                 *)
(*                                                                         *)
(* The worker builds every list in memory of its own and publishes it by   *)
(* storing a pointer.  A handler loads the pointer once; the slice it      *)
(* gets from GetTopN or GetTopJSON still is the worker's memory, read item *)
(* by item while the response is made.  heap holds that memory.            *)
(*                                                                         *)
(* A list is known by its place in the order of publication, which stands  *)
(* for UpdatedAt.                                                          *)
(***************************************************************************)
EXTENDS Integers, Sequences, SequencesExt

CONSTANTS
  Modes,         \* values of cfg.Experimental to consider
  Clients,       \* clients; each waits for its answer before it asks again
  Lists,         \* what the worker may publish
  Limits,        \* values of the query parameter limit:
  NoLimit,       \*   left out
  NotANumber,    \*   no integer
  MaxPublished,  \* bound: lists published
  MaxRequests    \* bound: requests

ASSUME TopApiAssumption ==
  /\ Modes \subseteq BOOLEAN
  /\ <<>> \in Lists
  /\ \A list \in Lists : list \in Seq(Range(list))
  /\ Limits \ {NoLimit, NotANumber} \subseteq Int
  /\ MaxPublished \in Nat \ {0}
  /\ MaxRequests \in Nat

VARIABLES
  experimental,  \* cfg.Experimental: RawHandler on TimeIndexedCollector
  heap,          \* the memory of each list
  currentTop,    \* the list the atomic.Value points to
  calls,         \* what each client is doing
  asked,         \* requests so far
  published,     \* history: each list as it was when published
  newest         \* history: the newest list some client has received

vars == <<experimental, heap, currentTop, calls, asked, published, newest>>

NoCall == [at |-> "idle", limit |-> NoLimit, list |-> 0, length |-> 0,
           items |-> <<>>, status |-> 0, floor |-> 0]

-----------------------------------------------------------------------------
(* A bug to test the properties with: the new list is built in the memory  *)
(* of the lists before.                                                    *)
Overwritten(list, old) == [i \in DOMAIN old |-> IF i \in DOMAIN list THEN list[i] ELSE old[i]]

PublishInPlace(list) ==
  /\ Len(published) < MaxPublished
  /\ published' = Append(published, list)
  /\ heap' = Append([v \in DOMAIN heap |-> Overwritten(list, heap[v])], list)
  /\ currentTop' = Len(heap')
  /\ UNCHANGED <<experimental, calls, asked, newest>>

(* StartAggregatorWorker, its last step. *)
Publish(list) ==
  /\ Len(published) < MaxPublished
  /\ published' = Append(published, list)
  /\ heap' = Append(heap, list)
  /\ currentTop' = Len(heap')
  /\ UNCHANGED <<experimental, calls, asked, newest>>

-----------------------------------------------------------------------------
(* A request.                                                              *)

Request(c, limit) ==
  /\ calls[c].at = "idle"
  /\ asked < MaxRequests
  /\ asked' = asked + 1
  /\ calls' = [calls EXCEPT ![c].at = "sent", ![c].limit = limit, ![c].floor = newest]
  /\ UNCHANGED <<experimental, heap, currentTop, published, newest>>

(* A bug to test the properties with: only positive limits are expected. *)
CappedAbove(limit, n) == IF limit >= n THEN n ELSE limit

(* How much of a list of n items GetTopN hands out. *)
Capped(limit, n) == IF limit <= 0 \/ limit >= n THEN n ELSE limit

Finish(c, status) ==
  calls' = [calls EXCEPT ![c].at = "done", ![c].status = status]

(* A bug to test the properties with: the answer to limit 1 is kept apart  *)
(* and is one list behind.                                                 *)
LoadStaleTopOne(c, list) ==
  LET old == IF calls[c].limit = 1 /\ list > 1 THEN list - 1 ELSE list
      n == Len(heap[old])
  IN  calls' = [calls EXCEPT ![c].at = "rendering", ![c].list = old, ![c].length = n]

(* GetTopJSON loads the bytes, GetTopN the envelope, which it cuts. *)
Load(c, list) ==
  LET n == Len(heap[list])
  IN  calls' = [calls EXCEPT
                  ![c].at = "rendering",
                  ![c].list = list,
                  ![c].length = IF experimental THEN n ELSE Capped(calls[c].limit, n)]

(* The generated wrapper cannot bind the parameter. *)
RefuseLimit(c) ==
  /\ calls[c].limit = NotANumber
  /\ Finish(c, 400)

(* StructHandler dereferences a limit that is not there; Recoverer answers *)
(* for it.                                                                 *)
PanicOnNoLimit(c) ==
  /\ calls[c].limit = NoLimit /\ ~experimental
  /\ Finish(c, 500)

GetTopQueries(c) ==
  /\ calls[c].limit # NotANumber
  /\ experimental \/ calls[c].limit # NoLimit
  /\ Load(c, currentTop)

(* A request on its way through wrapper and strict handler. *)
Handle(c) ==
  /\ calls[c].at = "sent"
  /\ RefuseLimit(c) \/ PanicOnNoLimit(c) \/ GetTopQueries(c)
  /\ UNCHANGED <<experimental, heap, currentTop, asked, published, newest>>

(* toAPITopQueryItem and VisitGetTopQueriesResponse. *)
Render(c) ==
  LET call == calls[c]
      i == Len(call.items) + 1
  IN  /\ call.at = "rendering"
      /\ IF i <= call.length
         THEN calls' = [calls EXCEPT ![c].items = Append(@, heap[call.list][i])]
         ELSE Finish(c, 200)
      /\ UNCHANGED <<experimental, heap, currentTop, asked, published, newest>>

(* The response reaches the client. *)
Receive(c) ==
  /\ calls[c].at = "done"
  /\ newest' = IF calls[c].list > newest THEN calls[c].list ELSE newest
  /\ calls' = [calls EXCEPT ![c] = NoCall]
  /\ UNCHANGED <<experimental, heap, currentTop, asked, published>>

-----------------------------------------------------------------------------
(* Both constructors publish an empty list. *)
Init ==
  /\ experimental \in Modes
  /\ heap = << <<>> >>
  /\ currentTop = 1
  /\ calls = [c \in Clients |-> NoCall]
  /\ asked = 0
  /\ published = << <<>> >>
  /\ newest = 0

Next ==
  \/ \E list \in Lists : Publish(list)
  \/ \E c \in Clients :
        \/ \E limit \in Limits : Request(c, limit)
        \/ Handle(c)
        \/ Render(c)
        \/ Receive(c)

Spec == Init /\ [][Next]_vars

-----------------------------------------------------------------------------
(* Properties.                                                             *)

(* The shape of the state: in particular no slice is cut out of bounds. *)
TypeOK ==
  /\ experimental \in Modes
  /\ currentTop = Len(heap)
  /\ asked \in 0 .. MaxRequests
  /\ newest \in 0 .. currentTop
  /\ \A c \in Clients :
        /\ calls[c].at \in {"idle", "sent", "rendering", "done"}
        /\ calls[c].limit \in Limits \cup {NoLimit}
        /\ calls[c].status \in {0, 200, 400, 500}
        /\ calls[c].list \in 0 .. currentTop
        /\ calls[c].list # 0 => calls[c].length \in 0 .. Len(heap[calls[c].list])
        /\ calls[c].floor \in 0 .. currentTop

Answered(c, status) == calls[c].at = "done" /\ calls[c].status = status

(* However often the worker replaced the list while the response was being *)
(* made, the response is the beginning of one list, the one its UpdatedAt  *)
(* belongs to, and all of it unless limit cut it.                          *)
OneList ==
  \A c \in Clients : Answered(c, 200) =>
    LET list == published[calls[c].list]
    IN  /\ IsPrefix(calls[c].items, list)
        /\ calls[c].items = list \/ (~experimental /\ Len(calls[c].items) = calls[c].limit)

(* Time does not run backwards across clients: who asks after somebody has *)
(* received a list receives that one or a newer one.                       *)
NoTimeTravel ==
  \A c \in Clients : Answered(c, 200) => calls[c].list >= calls[c].floor
=============================================================================
