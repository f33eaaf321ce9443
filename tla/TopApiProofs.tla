---------------------------- MODULE TopApiProofs ----------------------------
(***************************************************************************)
(* Proofs about TopApi, for any lists, limits and number of clients: what  *)
(* a client receives is a list as it was published, and no older than what *)
(* it could know.                                                          *)
(***************************************************************************)
EXTENDS TopApi, SequenceTheorems, TLAPS

Items == UNION {Range(list) : list \in Lists}

Copies == Seq(Items)
LimitValues == Limits \cup {NoLimit}
Statuses == {0, 200, 400, 500}

Call == [at : {"idle", "sent", "rendering", "done"}, limit : LimitValues, list : Nat,
         length : Nat, items : Copies, status : Statuses, floor : Nat]

(* A published list is a sequence of items. *)
LEMMA ListIsSeq ==
  ASSUME NEW list \in Lists
  PROVE  list \in Seq(Items)
<1>1. list \in Seq(Range(list)) /\ Range(list) \subseteq Items
  BY TopApiAssumption DEF Items
<1> QED BY <1>1, SeqMonotonic

-----------------------------------------------------------------------------
(* The inductive invariant.                                                *)

(* The memory of a list is what was published, for good. *)
ListsInv ==
  /\ experimental \in Modes
  /\ heap \in Seq(Lists)
  /\ published = heap
  /\ Len(heap) >= 1
  /\ currentTop = Len(heap)
  /\ asked \in 0 .. MaxRequests
  /\ newest \in 0 .. currentTop
  /\ calls \in [Clients -> Call]

(* The items are the first ones of the list. *)
Copied(items, list) ==
  Len(items) <= Len(list) /\ \A i \in 1 .. Len(items) : items[i] = list[i]

(* A call that has loaded a list copies it up to the length it was cut to. *)
Loaded(call) ==
  LET list == heap[call.list]
  IN  /\ call.list >= call.floor
      /\ call.length \in 0 .. Len(list)
      /\ call.length = Len(list) \/ (~experimental /\ call.length = call.limit)
      /\ Len(call.items) <= call.length
      /\ Copied(call.items, list)

CallInv(call) ==
  /\ call.list <= currentTop
  /\ call.floor <= newest
  /\ call.at \in {"idle", "sent"} => call.list = 0 /\ call.items = <<>> /\ call.status = 0
  /\ call.at = "rendering" => call.list # 0
  /\ call.list # 0 => Loaded(call)
  /\ call.at = "done" /\ call.status = 200 => call.list # 0 /\ Len(call.items) = call.length

ApiInv == ListsInv /\ \A c \in Clients : CallInv(calls[c])

(* A list published is a list one can read. *)
LEMMA ListOf ==
  ASSUME ListsInv, NEW v \in 1 .. currentTop
  PROVE  heap[v] \in Lists /\ heap[v] \in Seq(Items) /\ Len(heap[v]) \in Nat
<1>1. heap[v] \in Lists
  BY ElementOfSeq DEF ListsInv
<1>2. heap[v] \in Seq(Items)
  BY <1>1, ListIsSeq
<1> QED BY <1>1, <1>2, LenProperties

(* A step of one client that leaves the lists alone. *)
LEMMA ClientStep ==
  ASSUME ApiInv, NEW c \in Clients, NEW call \in Call,
         calls' = [calls EXCEPT ![c] = call],
         UNCHANGED <<experimental, heap, currentTop, published>>,
         asked' \in 0 .. MaxRequests, newest' \in newest .. currentTop,
         CallInv(call)
  PROVE  ApiInv'
<1>1. /\ calls' \in [Clients -> Call]
      /\ \A d \in Clients : calls'[d] = IF d = c THEN call ELSE calls[d]
  BY DEF ApiInv, ListsInv
<1>2. newest \in Nat /\ newest' \in Nat /\ currentTop \in Nat /\ newest <= newest'
  BY LenProperties DEF ApiInv, ListsInv
<1>3. ListsInv'
  BY <1>1, <1>2 DEF ApiInv, ListsInv
<1>4. ASSUME NEW d \in Clients PROVE CallInv(calls[d])' 
  <2> DEFINE x == calls'[d]
  <2>1. x \in Call /\ CallInv(x)
    BY <1>1 DEF ApiInv, ListsInv
  <2>2. x.floor \in Nat
    BY <2>1 DEF Call
  <2> HIDE DEF x
  <2>3. /\ x.list <= currentTop'
        /\ x.floor <= newest'
        /\ x.at \in {"idle", "sent"} => x.list = 0 /\ x.items = <<>> /\ x.status = 0
        /\ x.at = "rendering" => x.list # 0
        /\ x.at = "done" /\ x.status = 200 => x.list # 0 /\ Len(x.items) = x.length
    BY <1>2, <2>1, <2>2 DEF CallInv
  <2>4. x.list # 0 =>
          LET list == heap'[x.list]
          IN  /\ x.list >= x.floor
              /\ x.length \in 0 .. Len(list)
              /\ x.length = Len(list) \/ (~experimental' /\ x.length = x.limit)
              /\ Len(x.items) <= x.length
              /\ Copied(x.items, list)
    BY <2>1 DEF CallInv, Loaded
  <2> QED BY <2>3, <2>4 DEF CallInv, Loaded, Copied, x
<1> QED BY <1>3, <1>4 DEF ApiInv

(* A client without a request. *)
LEMMA NoCallFits ==
  ASSUME ApiInv
  PROVE  NoCall \in Call /\ CallInv(NoCall)
<1>1. NoCall \in Call
  BY EmptySeq DEF NoCall, Call, Copies, LimitValues, Statuses
<1>2. currentTop \in Nat /\ newest \in Nat
  BY LenProperties DEF ApiInv, ListsInv
<1> QED BY <1>1, <1>2 DEF NoCall, CallInv

(* What the steps of a call write. *)
Sent(old, limit, floor) == [old EXCEPT !.at = "sent", !.limit = limit, !.floor = floor]
Ended(old, status) == [old EXCEPT !.at = "done", !.status = status]
Rendering(old, list, length) ==
  [old EXCEPT !.at = "rendering", !.list = list, !.length = length]

(* A request that was sent. *)
LEMMA SentType ==
  ASSUME NEW old \in Call, NEW limit \in LimitValues, NEW floor \in Nat
  PROVE  /\ Sent(old, limit, floor) \in Call
         /\ Sent(old, limit, floor).at = "sent"
         /\ Sent(old, limit, floor).list = old.list
         /\ Sent(old, limit, floor).items = old.items
         /\ Sent(old, limit, floor).status = old.status
         /\ Sent(old, limit, floor).floor = floor
<1>1. Sent(old, limit, floor) \in Call
  BY DEF Sent, Call
<1> QED BY <1>1 DEF Sent, Call

(* A request that has its answer. *)
LEMMA EndedType ==
  ASSUME NEW old \in Call, NEW status \in Statuses
  PROVE  /\ Ended(old, status) \in Call
         /\ Ended(old, status).at = "done"
         /\ Ended(old, status).status = status
         /\ Ended(old, status).list = old.list
         /\ Ended(old, status).floor = old.floor
         /\ Ended(old, status).length = old.length
         /\ Ended(old, status).items = old.items
         /\ Ended(old, status).limit = old.limit
<1>1. Ended(old, status) \in Call
  BY DEF Ended, Call
<1> QED BY <1>1 DEF Ended, Call

(* Finish writes that answer. *)
LEMMA FinishWrites ==
  ASSUME calls \in [Clients -> Call], NEW c \in Clients, NEW status, Finish(c, status)
  PROVE  calls' = [calls EXCEPT ![c] = Ended(calls[c], status)]
BY DEF Finish, Ended

(* A request whose items are being copied. *)
LEMMA RenderingType ==
  ASSUME NEW old \in Call, NEW list \in Nat, NEW length \in Nat
  PROVE  /\ Rendering(old, list, length) \in Call
         /\ Rendering(old, list, length).at = "rendering"
         /\ Rendering(old, list, length).list = list
         /\ Rendering(old, list, length).length = length
         /\ Rendering(old, list, length).floor = old.floor
         /\ Rendering(old, list, length).items = old.items
         /\ Rendering(old, list, length).limit = old.limit
<1>1. Rendering(old, list, length) \in Call
  BY DEF Rendering, Call
<1> QED BY <1>1 DEF Rendering, Call

(* Sending a request keeps the invariant. *)
LEMMA RequestKeeps ==
  ASSUME ApiInv, NEW c \in Clients, NEW limit \in Limits, Request(c, limit)
  PROVE  ApiInv'
<1> DEFINE old == calls[c]
           call == Sent(old, limit, newest)
<1>1. old \in Call /\ old.at = "idle" /\ CallInv(old)
  BY DEF ApiInv, ListsInv, Request
<1>2. newest \in Nat /\ currentTop \in Nat
  BY LenProperties DEF ApiInv, ListsInv
<1>3. call \in Call /\ CallInv(call)
  <2>1. /\ call \in Call
        /\ call.at = "sent" /\ call.list = old.list /\ call.items = old.items
        /\ call.status = old.status /\ call.floor = newest
    BY <1>1, <1>2, SentType DEF LimitValues
  <2> HIDE DEF call
  <2> QED BY <1>1, <1>2, <2>1 DEF CallInv
<1>4. calls' = [calls EXCEPT ![c] = call]
  BY DEF Request, Sent, ApiInv, ListsInv
<1>5. /\ UNCHANGED <<experimental, heap, currentTop, published, newest>>
      /\ asked' \in 0 .. MaxRequests
  BY TopApiAssumption DEF Request, ApiInv, ListsInv
<1>6. newest' \in newest .. currentTop
  BY <1>2, <1>5 DEF ApiInv, ListsInv
<1> HIDE DEF call
<1> QED BY <1>3, <1>4, <1>5, <1>6, ClientStep

(* A call ends with an answer. *)
LEMMA FinishKeeps ==
  ASSUME ApiInv, NEW c \in Clients, NEW status \in {200, 400, 500}, Finish(c, status),
         UNCHANGED <<experimental, heap, currentTop, asked, published, newest>>,
         calls[c].at \in {"sent", "rendering"},
         status = 200 => calls[c].at = "rendering" /\ Len(calls[c].items) = calls[c].length
  PROVE  ApiInv'
<1> DEFINE old == calls[c]
           call == Ended(old, status)
<1>1. old \in Call /\ CallInv(old)
  BY DEF ApiInv, ListsInv
<1>2. call \in Call
  BY <1>1, EndedType DEF Statuses
<1>3. /\ call.at = "done" /\ call.status = status /\ call.list = old.list
      /\ call.floor = old.floor /\ call.length = old.length /\ call.items = old.items
      /\ call.limit = old.limit
  BY <1>1, EndedType DEF Statuses
<1>4. calls' = [calls EXCEPT ![c] = call]
  BY FinishWrites DEF ApiInv, ListsInv
<1>5. newest \in Nat /\ currentTop \in Nat /\ newest <= currentTop
  BY LenProperties DEF ApiInv, ListsInv
<1> HIDE DEF call
<1>6. CallInv(call)
  BY <1>1, <1>3 DEF CallInv, Loaded
<1>7. newest' \in newest .. currentTop /\ asked' \in 0 .. MaxRequests
  BY <1>5 DEF ApiInv, ListsInv
<1> QED BY <1>2, <1>4, <1>6, <1>7, ClientStep

(* A slice of a list is no longer than the list. *)
LEMMA CappedFits ==
  ASSUME NEW limit \in Int, NEW n \in Nat
  PROVE  /\ Capped(limit, n) \in 0 .. n
         /\ Capped(limit, n) \in {n, limit}
BY DEF Capped

(* Loading the current list to answer from it keeps the invariant. *)
LEMMA LoadKeeps ==
  ASSUME ApiInv, NEW c \in Clients, Load(c, currentTop), calls[c].at = "sent",
         calls[c].limit # NotANumber, experimental \/ calls[c].limit # NoLimit,
         UNCHANGED <<experimental, heap, currentTop, asked, published, newest>>
  PROVE  ApiInv'
<1> DEFINE old == calls[c]
           n == Len(heap[currentTop])
           length == IF experimental THEN n ELSE Capped(old.limit, n)
           call == Rendering(old, currentTop, length)
<1>1. old \in Call /\ CallInv(old) /\ old.items = <<>> /\ old.status = 0
  BY DEF ApiInv, ListsInv, CallInv
<1>2. /\ newest \in Nat /\ currentTop \in Nat /\ newest <= currentTop
      /\ currentTop >= 1
  BY LenProperties DEF ApiInv, ListsInv
<1>3. heap[currentTop] \in Seq(Items) /\ n \in Nat
  BY <1>2, ListOf DEF ApiInv
<1>4. length \in 0 .. n /\ (length = n \/ (~experimental /\ length = old.limit))
  <2>1. CASE experimental
    BY <1>3, <2>1
  <2>2. CASE ~experimental
    <3>1. old.limit \in Int
      BY <1>1, <2>2, TopApiAssumption DEF Call, LimitValues
    <3> QED BY <1>3, <2>2, <3>1, CappedFits
  <2> QED BY <2>1, <2>2
<1> HIDE DEF n, length
<1>5. calls' = [calls EXCEPT ![c] = call]
  BY DEF Load, Rendering, ApiInv, ListsInv, length, n
<1>6. old \in Call /\ currentTop \in Nat /\ length \in Nat
  BY <1>1, <1>2, <1>3, <1>4
<1> HIDE DEF old
<1>7. /\ call \in Call
      /\ call.at = "rendering" /\ call.list = currentTop /\ call.length = length
      /\ call.floor = old.floor /\ call.items = old.items /\ call.limit = old.limit
  BY <1>6, RenderingType
<1> HIDE DEF call
<1>8. CallInv(call)
  <2>1. Len(call.items) = 0 /\ old.floor \in Nat
    BY <1>1, <1>7 DEF Call
  <2>2. currentTop >= call.floor
    BY <1>1, <1>2, <1>7, <2>1 DEF CallInv
  <2>3. Loaded(call)
    BY <1>3, <1>4, <1>7, <2>1, <2>2 DEF Loaded, Copied, n
  <2> QED BY <1>1, <1>2, <1>7, <2>3 DEF CallInv
<1>9. newest' \in newest .. currentTop /\ asked' \in 0 .. MaxRequests
  BY <1>2 DEF ApiInv, ListsInv
<1> QED BY <1>5, <1>7, <1>8, <1>9, ClientStep

(* One more item is copied. *)
LEMMA CopyKeeps ==
  ASSUME ApiInv, NEW c \in Clients, calls[c].at = "rendering",
         Len(calls[c].items) + 1 <= calls[c].length, Render(c)
  PROVE  ApiInv'
<1> DEFINE old == calls[c]
           list == heap[old.list]
           i == Len(old.items) + 1
           call == [old EXCEPT !.items = Append(@, list[i])]
<1>1. old \in Call /\ CallInv(old) /\ old.list # 0 /\ Loaded(old)
  BY DEF ApiInv, ListsInv, CallInv
<1>2. newest \in Nat /\ currentTop \in Nat /\ newest <= currentTop
  BY LenProperties DEF ApiInv, ListsInv
<1>3. list \in Seq(Items) /\ Len(list) \in Nat
  <2>1. old.list \in 1 .. currentTop
    BY <1>1, <1>2 DEF CallInv, Call
  <2> QED BY <2>1, ListOf DEF ApiInv
<1>4. /\ old.items \in Seq(Items) /\ Len(old.items) \in Nat
      /\ old.length \in 0 .. Len(list)
  BY <1>1, LenProperties DEF Call, Copies, Loaded
<1>5. i \in 1 .. Len(list)
  BY <1>3, <1>4
<1>6. list[i] \in Items
  BY <1>3, <1>5, ElementOfSeq
<1>7. /\ Append(old.items, list[i]) \in Seq(Items)
      /\ Len(Append(old.items, list[i])) = i
      /\ \A j \in 1 .. Len(old.items) : Append(old.items, list[i])[j] = old.items[j]
      /\ Append(old.items, list[i])[i] = list[i]
  BY <1>4, <1>6, AppendProperties
<1>8. call \in Call
  <2>1. Append(old.items, list[i]) \in Copies
    BY <1>7 DEF Copies
  <2> QED BY <1>1, <2>1 DEF Call
<1>9. /\ call.at = "rendering" /\ call.list = old.list /\ call.length = old.length
      /\ call.floor = old.floor /\ call.limit = old.limit
      /\ call.items = Append(old.items, list[i]) /\ call.status = old.status
  BY <1>1 DEF Call
<1>10. /\ calls' = [calls EXCEPT ![c] = call]
       /\ UNCHANGED <<experimental, heap, currentTop, asked, published, newest>>
  BY DEF Render, ApiInv, ListsInv
<1> HIDE DEF call
<1>11. Copied(call.items, list)
  <2>1. \A j \in 1 .. i : call.items[j] = list[j]
    BY <1>1, <1>4, <1>7, <1>9 DEF Loaded, Copied
  <2> QED BY <1>5, <1>7, <1>9, <2>1 DEF Copied
<1>12. Loaded(call)
  BY <1>1, <1>7, <1>9, <1>11 DEF Loaded
<1>13. CallInv(call)
  BY <1>1, <1>9, <1>12 DEF CallInv
<1>14. newest' \in newest .. currentTop /\ asked' \in 0 .. MaxRequests
  BY <1>2, <1>10 DEF ApiInv, ListsInv
<1> QED BY <1>8, <1>10, <1>13, <1>14, ClientStep

(* What a handler decides keeps the invariant. *)
LEMMA HandleKeeps ==
  ASSUME ApiInv, NEW c \in Clients, Handle(c)
  PROVE  ApiInv'
<1>1. /\ calls[c].at = "sent"
      /\ UNCHANGED <<experimental, heap, currentTop, asked, published, newest>>
  BY DEF Handle
<1>2. ASSUME NEW status \in {400, 500}, Finish(c, status)
      PROVE  ApiInv'
  BY <1>1, <1>2, FinishKeeps
<1>3. ASSUME Load(c, currentTop), calls[c].limit # NotANumber,
             experimental \/ calls[c].limit # NoLimit
      PROVE  ApiInv'
  BY <1>1, <1>3, LoadKeeps
<1> QED BY <1>2, <1>3 DEF Handle, RefuseLimit, PanicOnNoLimit, GetTopQueries

(* Copying an item, or finding there is none left, keeps the invariant. *)
LEMMA RenderKeeps ==
  ASSUME ApiInv, NEW c \in Clients, Render(c)
  PROVE  ApiInv'
<1>1. /\ calls[c].at = "rendering"
      /\ UNCHANGED <<experimental, heap, currentTop, asked, published, newest>>
  BY DEF Render
<1>2. CASE Len(calls[c].items) + 1 <= calls[c].length
  BY <1>1, <1>2, CopyKeeps
<1>3. CASE ~(Len(calls[c].items) + 1 <= calls[c].length)
  <2>1. calls[c] \in Call /\ Loaded(calls[c])
    BY <1>1 DEF ApiInv, ListsInv, CallInv
  <2>2. calls[c].items \in Seq(Items) /\ calls[c].length \in Nat
    BY <2>1 DEF Call, Copies
  <2>3. Len(calls[c].items) \in Nat
    BY <2>2, LenProperties
  <2>4. Len(calls[c].items) = calls[c].length
    BY <1>3, <2>1, <2>2, <2>3 DEF Loaded
  <2>5. Finish(c, 200)
    BY <1>3 DEF Render
  <2> QED BY <1>1, <2>4, <2>5, FinishKeeps
<1> QED BY <1>2, <1>3

(* A client that takes its response keeps the invariant. *)
LEMMA ReceiveKeeps ==
  ASSUME ApiInv, NEW c \in Clients, Receive(c)
  PROVE  ApiInv'
<1>1. calls[c] \in Call /\ calls[c].list <= currentTop /\ calls[c].list \in Nat
  BY DEF ApiInv, ListsInv, CallInv, Call
<1>2. newest \in Nat /\ currentTop \in Nat /\ newest <= currentTop
  BY LenProperties DEF ApiInv, ListsInv
<1>3. newest' \in newest .. currentTop
  BY <1>1, <1>2 DEF Receive
<1>4. /\ UNCHANGED <<experimental, heap, currentTop, published>>
      /\ asked' \in 0 .. MaxRequests
      /\ calls' = [calls EXCEPT ![c] = NoCall]
  BY DEF Receive, ApiInv, ListsInv
<1> QED BY <1>3, <1>4, NoCallFits, ClientStep

(* A new list leaves the memory of the others alone. *)
LEMMA PublishKeeps ==
  ASSUME ApiInv, NEW list \in Lists, Publish(list)
  PROVE  ApiInv'
<1>1. heap \in Seq(Lists) /\ Len(heap) \in Nat /\ newest \in Nat /\ newest <= currentTop
      /\ currentTop = Len(heap) /\ published = heap
  BY LenProperties DEF ApiInv, ListsInv
<1>2. /\ heap' = Append(heap, list) /\ published' = Append(heap, list)
      /\ currentTop' = Len(heap') /\ UNCHANGED <<experimental, calls, asked, newest>>
  BY <1>1 DEF Publish
<1>3. /\ heap' \in Seq(Lists) /\ Len(heap') = Len(heap) + 1
      /\ \A v \in 1 .. Len(heap) : heap'[v] = heap[v]
  BY <1>1, <1>2, AppendProperties
<1>4. newest' \in 0 .. currentTop' /\ currentTop <= currentTop'
  BY <1>1, <1>2, <1>3
<1>5. ListsInv'
  BY <1>1, <1>2, <1>3, <1>4 DEF ApiInv, ListsInv
<1>6. ASSUME NEW c \in Clients
      PROVE  CallInv(calls[c])'
  <2>1. calls[c] \in Call /\ CallInv(calls[c])
    BY DEF ApiInv, ListsInv
  <2>2. calls[c].list \in Nat /\ calls[c].list <= currentTop
    BY <2>1 DEF Call, CallInv
  <2>3. calls[c].list # 0 => heap'[calls[c].list] = heap[calls[c].list]
    BY <1>1, <1>3, <2>2
  <2>4. calls[c].list # 0 => Loaded(calls[c])'
    BY <1>2, <2>1, <2>3 DEF CallInv, Loaded, Copied
  <2>5. calls[c].list <= currentTop'
    BY <1>1, <1>3, <1>4, <2>2, <1>2
  <2> QED BY <1>2, <2>1, <2>4, <2>5 DEF CallInv
<1> QED BY <1>5, <1>6 DEF ApiInv

(* Lists do not change once they are published, and responses are copied   *)
(* from one of them.                                                       *)
THEOREM ApiInvariant == Spec => []ApiInv
<1>1. Init => ApiInv
  <2> SUFFICES ASSUME Init PROVE ApiInv
    OBVIOUS
  <2>1. heap \in Seq(Lists) /\ Len(heap) = 1
    BY TopApiAssumption DEF Init
  <2>2. NoCall \in Call
    BY EmptySeq DEF NoCall, Call, Copies, LimitValues, Statuses
  <2>3. ListsInv
    BY <2>1, <2>2, TopApiAssumption DEF Init, ListsInv
  <2>4. CallInv(NoCall)
    BY DEF NoCall, CallInv, Init
  <2> QED BY <2>3, <2>4 DEF Init, ApiInv
<1>2. ApiInv /\ [Next]_vars => ApiInv'
  <2> SUFFICES ASSUME ApiInv, [Next]_vars PROVE ApiInv'
    OBVIOUS
  <2>1. CASE Next
    BY <2>1, PublishKeeps, RequestKeeps, HandleKeeps, RenderKeeps, ReceiveKeeps DEF Next
  <2>2. CASE UNCHANGED vars
    BY <2>2 DEF vars, ApiInv, ListsInv, CallInv, Loaded, Copied
  <2> QED BY <2>1, <2>2
<1> QED BY <1>1, <1>2, PTL DEF Spec

(* The shape of the state; no slice is cut out of bounds. *)
THEOREM TypeCorrect == Spec => []TypeOK
<1>1. ApiInv => TypeOK
  <2> SUFFICES ASSUME ApiInv PROVE TypeOK
    OBVIOUS
  <2>1. ASSUME NEW c \in Clients
        PROVE  /\ calls[c].at \in {"idle", "sent", "rendering", "done"}
               /\ calls[c].limit \in Limits \cup {NoLimit}
               /\ calls[c].status \in {0, 200, 400, 500}
               /\ calls[c].list \in 0 .. currentTop
               /\ calls[c].list # 0 => calls[c].length \in 0 .. Len(heap[calls[c].list])
               /\ calls[c].floor \in 0 .. currentTop
    <3>1. calls[c] \in Call /\ CallInv(calls[c])
      BY DEF ApiInv, ListsInv
    <3>2. newest \in Nat /\ newest <= currentTop /\ currentTop \in Nat
      BY LenProperties DEF ApiInv, ListsInv
    <3>3. calls[c].list # 0 => calls[c].length \in 0 .. Len(heap[calls[c].list])
      BY <3>1 DEF CallInv, Loaded
    <3>4. calls[c].list <= currentTop /\ calls[c].floor <= newest
      BY <3>1 DEF CallInv
    <3> QED BY <3>1, <3>2, <3>3, <3>4 DEF Call, LimitValues, Statuses
  <2> QED BY <2>1 DEF ApiInv, ListsInv, TypeOK
<1> QED BY <1>1, ApiInvariant, PTL

(* A response is the beginning of one list as it was published, and all of *)
(* it unless limit cut it, however often the worker replaced the list.     *)
THEOREM ResponseIsOneList == Spec => []OneList
<1>1. ApiInv => OneList
  <2> SUFFICES ASSUME ApiInv, NEW c \in Clients, Answered(c, 200)
               PROVE  LET list == published[calls[c].list]
                      IN  /\ IsPrefix(calls[c].items, list)
                          /\ \/ calls[c].items = list
                             \/ ~experimental /\ Len(calls[c].items) = calls[c].limit
    BY DEF OneList
  <2> DEFINE items == calls[c].items
             list == heap[calls[c].list]
  <2>1. calls[c] \in Call /\ CallInv(calls[c]) /\ published = heap
    BY DEF ApiInv, ListsInv
  <2>2. calls[c].list # 0 /\ Loaded(calls[c]) /\ Len(items) = calls[c].length
    BY <2>1 DEF CallInv, Answered
  <2>3. calls[c].list \in 1 .. currentTop
    BY <2>1, <2>2, LenProperties DEF CallInv, Call, ApiInv, ListsInv
  <2>4. list \in Seq(Items) /\ items \in Seq(Items)
    BY <2>1, <2>3, ListOf DEF ApiInv, Call, Copies
  <2>5. /\ Len(items) <= Len(list) /\ \A i \in 1 .. Len(items) : items[i] = list[i]
        /\ Len(items) = Len(list) \/ (~experimental /\ Len(items) = calls[c].limit)
    BY <2>2 DEF Loaded, Copied
  <2> HIDE DEF items, list
  <2>6. Len(items) \in Nat /\ Len(list) \in Nat
    BY <2>4, LenProperties
  <2>7. IsPrefix(items, list)
    BY <2>4, <2>5, <2>6, SubSeqProperties, SeqEqual DEF IsPrefix
  <2>8. Len(items) = Len(list) => items = list
    BY <2>4, <2>5, <2>6, SeqEqual
  <2> QED BY <2>1, <2>5, <2>7, <2>8 DEF items, list
<1> QED BY <1>1, ApiInvariant, PTL

(* A client that asks after somebody has received a list does not receive  *)
(* an older one.                                                           *)
THEOREM NeverOlder == Spec => []NoTimeTravel
<1>1. ApiInv => NoTimeTravel
  BY DEF ApiInv, CallInv, Loaded, NoTimeTravel, Answered
<1> QED BY <1>1, ApiInvariant, PTL
=============================================================================
