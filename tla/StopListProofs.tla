-------------------------- MODULE StopListProofs --------------------------
(***************************************************************************)
(* Proofs about StopList, for any words, queries, clients and checkers and *)
(* any number of requests and checks.                                      *)
(***************************************************************************)
EXTENDS StopList, TLAPS

-----------------------------------------------------------------------------
(* The shape of the state.                                                 *)

Request == [at : {"idle", "called", "done"},
            op : {"add", "delete"},
            words : SUBSET RawWords,
            status : {0, 200, 201, 400, 404, 500},
            doubt : SUBSET Words]

CheckState == [at : {"idle", "asked", "searching", "answered"},
               query : Queries,
               machine : SUBSET Words,
               verdict : BOOLEAN]

(* Cleaning words of a request gives words. *)
LEMMA Cleaned ==
  ASSUME NEW raws \in SUBSET RawWords
  PROVE  CleanWords(raws) \subseteq Words
BY WordsAssumption DEF CleanWords

(* The words in flight are words. *)
LEMMA InFlightWords ==
  ASSUME TypeOK, NEW op
  PROVE  InFlight(op) \subseteq Words
BY Cleaned DEF TypeOK, InFlight

(* A request that arrives. *)
LEMMA CallType ==
  ASSUME TypeOK, NEW c \in Clients, NEW op \in {"add", "delete"},
         NEW raws \in SUBSET RawWords, Call(c, op, raws)
  PROVE  TypeOK'
<1> USE DEF TypeOK
<1>1. CleanWords(raws) \subseteq Words /\ InFlight(Opposite(op)) \subseteq Words
  BY Cleaned, InFlightWords
<1>2. requests' \in [Clients -> Request]
  <2> SUFFICES ASSUME NEW x \in Clients
               PROVE  requests'[x] \in Request
    BY DEF Call
  <2>1. requests[x] \in Request
    BY DEF Request
  <2> QED BY <1>1, <2>1 DEF Call, Request
<1>3. sent' \in 0 .. MaxRequests
  BY WordsAssumption DEF Call
<1> QED BY <1>2, <1>3 DEF Call, Request

(* Requests that are decided keep the list and the automaton sets of words. *)
LEMMA ChangeType ==
  ASSUME TypeOK, NEW c \in Clients, Refuse(c) \/ Add(c) \/ Delete(c)
  PROVE  TypeOK'
<1> USE DEF TypeOK
<1>1. CleanWords(requests[c].words) \subseteq Words
  BY Cleaned
<1>2. stopWords' \subseteq Words /\ machine' \subseteq Words
  BY <1>1 DEF Refuse, Add, AddStatus, Delete, DeleteStatus, Rebuild
<1>3. \E status \in {200, 201, 400, 404, 500} : Answer(c, status)
  BY DEF Refuse, Add, AddStatus, Delete, DeleteStatus
<1>4. requests' \in [Clients -> Request]
  <2> PICK status \in {200, 201, 400, 404, 500} : Answer(c, status)
    BY <1>3
  <2> SUFFICES ASSUME NEW x \in Clients
               PROVE  requests'[x] \in Request
    BY DEF Answer
  <2>1. requests[x] \in Request /\ requests[c] \in Request
    BY DEF Request
  <2> QED BY <2>1 DEF Answer, Request
<1> QED BY <1>2, <1>4 DEF Refuse, Add, AddStatus, Delete, DeleteStatus, Request

(* A response. *)
LEMMA ReturnType ==
  ASSUME TypeOK, NEW c \in Clients, Return(c)
  PROVE  TypeOK'
<1> USE DEF TypeOK
<1>1. CleanWords(requests[c].words) \subseteq Words
  BY Cleaned
<1>2. requests' \in [Clients -> Request]
  BY DEF Return, NoRequest, Request
<1> QED BY <1>1, <1>2 DEF Return, Request

(* The steps of a check. *)
LEMMA CheckType ==
  ASSUME TypeOK, NEW k \in Checkers,
         \/ \E q \in Queries : BeginCheck(k, q)
         \/ ReadMachine(k) \/ Search(k) \/ EndCheck(k)
  PROVE  TypeOK'
<1> USE DEF TypeOK
<1>1. \A q \in Queries, m \in SUBSET Words : Passes(q, m) \in BOOLEAN
  BY DEF Passes
<1>2. checks' \in [Checkers -> CheckState]
  BY <1>1 DEF BeginCheck, ReadMachine, Search, EndCheck, CheckState
<1>3. asked' \in 0 .. MaxChecks
  BY WordsAssumption DEF BeginCheck, ReadMachine, Search, EndCheck
<1> QED BY <1>2, <1>3 DEF BeginCheck, ReadMachine, Search, EndCheck, CheckState

(* Every step keeps the shape. *)
LEMMA TypeStep ==
  ASSUME TypeOK, [Next]_vars
  PROVE  TypeOK'
<1>1. CASE UNCHANGED vars
  BY <1>1 DEF vars, TypeOK
<1>2. ASSUME NEW c \in Clients, NEW op \in {"add", "delete"},
             NEW raws \in SUBSET RawWords, Call(c, op, raws)
      PROVE  TypeOK'
  BY <1>2, CallType
<1>3. ASSUME NEW c \in Clients, Refuse(c) \/ Add(c) \/ Delete(c) PROVE TypeOK'
  BY <1>3, ChangeType
<1>4. ASSUME NEW c \in Clients, Return(c) PROVE TypeOK'
  BY <1>4, ReturnType
<1>5. ASSUME NEW k \in Checkers,
             \/ \E q \in Queries : BeginCheck(k, q)
             \/ ReadMachine(k) \/ Search(k) \/ EndCheck(k)
      PROVE  TypeOK'
  BY <1>5, CheckType
<1> QED BY <1>1, <1>2, <1>3, <1>4, <1>5 DEF Next

(* The initial state has the shape. *)
LEMMA TypeInit == Init => TypeOK
<1> SUFFICES ASSUME Init PROVE TypeOK
  OBVIOUS
<1>1. stopWords \subseteq Words
  BY Cleaned, WordsAssumption DEF Init
<1>2. NoCheck.query \in Queries /\ AnyQuery \in Queries
  BY WordsAssumption DEF NoCheck, AnyQuery, Queries
<1>3. checks \in [Checkers -> CheckState]
  BY <1>2 DEF Init, NoCheck, CheckState
<1>4. requests \in [Clients -> Request]
  BY DEF Init, NoRequest, Request
<1> QED BY <1>1, <1>3, <1>4, WordsAssumption DEF Init, TypeOK, Request, CheckState

(* The state keeps its shape: in particular list and automaton never hold  *)
(* anything but clean words that are not blank.                            *)
THEOREM TypeCorrect == Spec => []TypeOK
<1>1. TypeOK /\ [Next]_vars => TypeOK'
  BY TypeStep
<1> QED BY <1>1, TypeInit, PTL DEF Spec

-----------------------------------------------------------------------------
(* What administrators are told.                                           *)

Asked(c) == CleanWords(requests[c].words)
Open(c) == requests[c].at # "idle"

(* Every rebuild that succeeds leaves the automaton of the list. *)
MachineCurrent == machine = stopWords

(* Only additions are answered 201, only deletions 200 or 404. *)
StatusFits ==
  \A c \in Clients : Open(c) =>
    /\ requests[c].status = 201 => requests[c].op = "add"
    /\ requests[c].status \in {200, 404} => requests[c].op = "delete"

(* Two open requests that are opposite and share a word both doubt it. *)
DoubtShared ==
  \A c, d \in Clients :
    Open(c) /\ Open(d) /\ requests[c].op # requests[d].op =>
      Asked(c) \cap Asked(d) \subseteq requests[c].doubt

(* What was decided and is not in doubt still holds when it is answered. *)
DoneHolds ==
  \A c \in Clients : requests[c].at = "done" =>
    /\ requests[c].status = 201 => Asked(c) \ requests[c].doubt \subseteq stopWords
    /\ requests[c].status \in {200, 404} =>
         (Asked(c) \ requests[c].doubt) \cap stopWords = {}

(* Nobody is about to undo what was assured or freed. *)
PromisesKept ==
  /\ assured \subseteq stopWords
  /\ freed \cap stopWords = {}
  /\ \A c \in Clients : Open(c) =>
       /\ requests[c].op = "delete" => Asked(c) \cap assured = {}
       /\ requests[c].op = "add" => Asked(c) \cap freed = {}

PromiseInv == TypeOK /\ MachineCurrent /\ StatusFits /\ DoubtShared /\ DoneHolds /\ PromisesKept

(* What a step of a request may do to the words asked for. *)
LEMMA CallKeepsPromises ==
  ASSUME PromiseInv, NEW c \in Clients, NEW op \in {"add", "delete"},
         NEW raws \in SUBSET RawWords, Call(c, op, raws)
  PROVE  MachineCurrent' /\ StatusFits' /\ DoubtShared' /\ DoneHolds' /\ PromisesKept'
<1> USE DEF PromiseInv
<1>1. /\ requests \in [Clients -> Request] /\ requests' \in [Clients -> Request]
      /\ requests[c].at = "idle"
      /\ requests'[c] = [at |-> "called", op |-> op, words |-> raws, status |-> 0,
                         doubt |-> InFlight(Opposite(op))]
      /\ UNCHANGED <<stopWords, machine>>
  <2>1. TypeOK'
    BY CallType
  <2>2. requests \in [Clients -> Request] /\ requests' \in [Clients -> Request]
    BY <2>1 DEF TypeOK, Request
  <2> QED BY <2>2 DEF Call
<1>2. ASSUME NEW d \in Clients, d # c
      PROVE  /\ requests'[d].at = requests[d].at
             /\ requests'[d].op = requests[d].op
             /\ requests'[d].words = requests[d].words
             /\ requests'[d].status = requests[d].status
             /\ requests[d].doubt \subseteq requests'[d].doubt
             /\ Open(d) /\ requests[d].op = Opposite(op) =>
                  CleanWords(raws) \subseteq requests'[d].doubt
  <2>1. requests[d] \in Request
    BY <1>1
  <2> QED BY <1>2, <2>1 DEF Call, Open, Request
<1>3. ASSUME NEW d \in Clients, Open(d), requests[d].op = Opposite(op)
      PROVE  CleanWords(requests[d].words) \subseteq InFlight(Opposite(op))
  BY <1>3 DEF InFlight, Open
<1>4. Opposite(op) # op /\ \A x \in {"add", "delete"} : x # op => x = Opposite(op)
  BY DEF Opposite
<1>5. StatusFits'
  BY <1>1, <1>2 DEF StatusFits, Open
<1>6. DoubtShared'
  <2> SUFFICES ASSUME NEW x \in Clients, NEW d \in Clients,
                      Open(x)', Open(d)', requests'[x].op # requests'[d].op
               PROVE  Asked(x)' \cap Asked(d)' \subseteq requests'[x].doubt
    BY DEF DoubtShared
  <2>1. requests[x].op \in {"add", "delete"} /\ requests[d].op \in {"add", "delete"}
    BY <1>1 DEF Request
  <2>2. CASE x # c /\ d # c
    BY <1>2, <2>2 DEF DoubtShared, Open, Asked
  <2>3. CASE x = c /\ d # c
    <3>1. requests[d].op = Opposite(op) /\ Open(d)
      BY <1>1, <1>2, <1>4, <2>1, <2>3 DEF Open
    <3> QED BY <1>1, <1>2, <1>3, <2>3, <3>1 DEF Asked
  <2>4. CASE x # c /\ d = c
    <3>1. requests[x].op = Opposite(op) /\ Open(x)
      BY <1>1, <1>2, <1>4, <2>1, <2>4 DEF Open
    <3> QED BY <1>1, <1>2, <2>4, <3>1 DEF Asked
  <2>5. CASE x = c /\ d = c
    BY <2>5
  <2> QED BY <2>2, <2>3, <2>4, <2>5
<1>7. DoneHolds'
  <2> SUFFICES ASSUME NEW d \in Clients, requests'[d].at = "done"
               PROVE  /\ requests'[d].status = 201 =>
                           Asked(d)' \ requests'[d].doubt \subseteq stopWords
                      /\ requests'[d].status \in {200, 404} =>
                           (Asked(d)' \ requests'[d].doubt) \cap stopWords = {}
    BY <1>1 DEF DoneHolds
  <2>1. d # c
    BY <1>1
  <2>2. requests[d].at = "done" /\ Asked(d)' = Asked(d)
    BY <1>2, <2>1 DEF Asked
  <2> QED BY <1>2, <2>1, <2>2 DEF DoneHolds
<1>8. PromisesKept'
  <2>1. /\ assured' \subseteq assured /\ freed' \subseteq freed
        /\ op = "delete" => assured' \cap CleanWords(raws) = {}
        /\ op = "add" => freed' \cap CleanWords(raws) = {}
    BY DEF Call
  <2> QED BY <1>1, <1>2, <2>1 DEF PromisesKept, Open, Asked
<1> QED BY <1>1, <1>5, <1>6, <1>7, <1>8 DEF MachineCurrent

(* A request that is refused promises nothing. *)
LEMMA RefuseKeepsPromises ==
  ASSUME PromiseInv, NEW c \in Clients, Refuse(c)
  PROVE  MachineCurrent' /\ StatusFits' /\ DoubtShared' /\ DoneHolds' /\ PromisesKept'
<1> USE DEF PromiseInv
<1>1. requests \in [Clients -> Request]
  BY DEF TypeOK, Request
<1>2. /\ UNCHANGED <<stopWords, machine, assured, freed>>
      /\ requests'[c].status = 400
  BY <1>1 DEF Refuse, Answer
<1>3. \A d \in Clients : /\ Asked(d)' = Asked(d)
                         /\ Open(d)' = Open(d)
                         /\ requests'[d].op = requests[d].op
                         /\ requests'[d].doubt = requests[d].doubt
                         /\ d # c => requests'[d] = requests[d]
  BY <1>1 DEF Refuse, Answer, Asked, Open, Request
<1>4. StatusFits' /\ DoubtShared' /\ PromisesKept'
  <2>1. StatusFits'
    BY <1>2, <1>3 DEF StatusFits
  <2>2. DoubtShared'
    BY <1>3 DEF DoubtShared
  <2>3. PromisesKept'
    BY <1>2, <1>3 DEF PromisesKept
  <2> QED BY <2>1, <2>2, <2>3
<1>5. DoneHolds'
  <2> SUFFICES ASSUME NEW d \in Clients, requests'[d].at = "done"
               PROVE  /\ requests'[d].status = 201 =>
                           Asked(d) \ requests[d].doubt \subseteq stopWords
                      /\ requests'[d].status \in {200, 404} =>
                           (Asked(d) \ requests[d].doubt) \cap stopWords = {}
    BY <1>2, <1>3 DEF DoneHolds
  <2>1. CASE d = c
    BY <1>2, <2>1
  <2>2. CASE d # c
    BY <1>3, <2>2 DEF DoneHolds
  <2> QED BY <2>1, <2>2
<1> QED BY <1>2, <1>4, <1>5 DEF MachineCurrent

(* Add and Delete, when the automaton can always be built. *)
LEMMA ChangeKeepsPromises ==
  ASSUME ~BuildMayFail, PromiseInv, NEW c \in Clients, Add(c) \/ Delete(c)
  PROVE  MachineCurrent' /\ StatusFits' /\ DoubtShared' /\ DoneHolds' /\ PromisesKept'
<1> USE DEF PromiseInv
<1>1. requests \in [Clients -> Request]
  BY DEF TypeOK, Request
<1>2. PICK status \in {200, 201, 404} :
        /\ Answer(c, status)
        /\ requests[c].at = "called"
        /\ machine' = stopWords'
        /\ \/ /\ status = 201 /\ requests[c].op = "add"
              /\ stopWords' = stopWords \cup Asked(c)
           \/ /\ status # 201 /\ requests[c].op = "delete"
              /\ stopWords' = stopWords \ Asked(c)
  <2>1. Builds = {TRUE}
    BY DEF Builds
  <2>2. CASE Add(c)
    BY <2>1, <2>2 DEF Add, AddStatus, Rebuild, MachineCurrent, Asked
  <2>3. CASE Delete(c)
    BY <2>1, <2>3 DEF Delete, DeleteStatus, Rebuild, MachineCurrent, Asked
  <2> QED BY <2>2, <2>3
<1>3. \A d \in Clients : /\ Asked(d)' = Asked(d)
                         /\ Open(d)' = Open(d)
                         /\ requests'[d].op = requests[d].op
                         /\ requests'[d].doubt = requests[d].doubt
                         /\ d # c => requests'[d] = requests[d]
  BY <1>1, <1>2 DEF Answer, Asked, Open, Request
<1>4. requests'[c].at = "done" /\ requests'[c].status = status /\ UNCHANGED <<assured, freed>>
  BY <1>1, <1>2 DEF Answer, Add, AddStatus, Delete, DeleteStatus
<1>5. StatusFits'
  BY <1>2, <1>3, <1>4 DEF StatusFits
<1>6. DoubtShared'
  BY <1>3 DEF DoubtShared
<1>7. DoneHolds'
  <2> SUFFICES ASSUME NEW d \in Clients, requests'[d].at = "done"
               PROVE  /\ requests'[d].status = 201 =>
                           Asked(d) \ requests[d].doubt \subseteq stopWords'
                      /\ requests'[d].status \in {200, 404} =>
                           (Asked(d) \ requests[d].doubt) \cap stopWords' = {}
    BY <1>3 DEF DoneHolds
  <2>1. CASE d = c
    BY <1>2, <1>4, <2>1
  <2>2. CASE d # c
    <3>1. requests'[d] = requests[d] /\ Open(d) /\ Open(c)
      BY <1>2, <1>3, <2>2 DEF Open
    <3>2. requests[d].op # requests[c].op => Asked(d) \cap Asked(c) \subseteq requests[d].doubt
      BY <3>1 DEF DoubtShared
    <3>3. /\ requests[d].status = 201 => requests[d].op = "add"
          /\ requests[d].status \in {200, 404} => requests[d].op = "delete"
      BY <3>1 DEF StatusFits
    <3>4. /\ requests[d].status = 201 => Asked(d) \ requests[d].doubt \subseteq stopWords
          /\ requests[d].status \in {200, 404} =>
               (Asked(d) \ requests[d].doubt) \cap stopWords = {}
      BY <3>1 DEF DoneHolds
    <3> QED BY <1>2, <3>1, <3>2, <3>3, <3>4
  <2> QED BY <2>1, <2>2
<1>8. PromisesKept'
  <2>1. Open(c)
    BY <1>2 DEF Open
  <2> QED BY <1>2, <1>3, <1>4, <2>1 DEF PromisesKept
<1> QED BY <1>2, <1>5, <1>6, <1>7, <1>8 DEF MachineCurrent

(* A response. *)
LEMMA ReturnKeepsPromises ==
  ASSUME PromiseInv, NEW c \in Clients, Return(c)
  PROVE  MachineCurrent' /\ StatusFits' /\ DoubtShared' /\ DoneHolds' /\ PromisesKept'
<1> USE DEF PromiseInv
<1>1. requests \in [Clients -> Request]
  BY DEF TypeOK, Request
<1>2. /\ UNCHANGED <<stopWords, machine>>
      /\ requests[c].at = "done"
      /\ requests'[c].at = "idle"
      /\ \A d \in Clients : d # c => requests'[d] = requests[d]
      /\ Open(c) /\ ~Open(c)'
  BY <1>1 DEF Return, NoRequest, Open
<1>3. \A d \in Clients : Open(d)' => d # c /\ Open(d) /\ Asked(d)' = Asked(d)
  BY <1>2 DEF Open, Asked
<1>4. StatusFits' /\ DoubtShared' /\ DoneHolds'
  BY <1>2, <1>3 DEF StatusFits, DoubtShared, DoneHolds, Open, Asked
<1>5. assured' \subseteq assured \/ /\ requests[c].op = "add"
                                    /\ Asked(c) \ requests[c].doubt \subseteq stopWords
                                    /\ assured' = assured \cup (Asked(c) \ requests[c].doubt)
  BY <1>2 DEF Return, Asked, StatusFits, DoneHolds
<1>6. freed' \subseteq freed \/ /\ requests[c].op = "delete"
                                /\ (Asked(c) \ requests[c].doubt) \cap stopWords = {}
                                /\ freed' = freed \cup (Asked(c) \ requests[c].doubt)
  BY <1>2 DEF Return, Asked, StatusFits, DoneHolds
<1>7. \A d \in Clients : Open(d) /\ requests[d].op # requests[c].op =>
        Asked(d) \cap Asked(c) \subseteq requests[c].doubt
  BY <1>2 DEF DoubtShared
<1>8. PromisesKept'
  BY <1>2, <1>3, <1>5, <1>6, <1>7 DEF PromisesKept
<1> QED BY <1>2, <1>4, <1>8 DEF MachineCurrent

(* The promises hold together, as long as no build fails. *)
THEOREM PromiseInvariant == ~BuildMayFail => (Spec => []PromiseInv)
<1> SUFFICES ASSUME ~BuildMayFail PROVE Spec => []PromiseInv
  OBVIOUS
<1>1. Init => MachineCurrent /\ StatusFits /\ DoubtShared /\ DoneHolds /\ PromisesKept
  BY DEF Init, NoRequest, MachineCurrent, StatusFits, DoubtShared, DoneHolds, PromisesKept, Open
<1>2. ASSUME PromiseInv, TypeOK', [Next]_vars
      PROVE  PromiseInv'
  <2> USE DEF PromiseInv
  <2>1. CASE UNCHANGED <<stopWords, machine, requests, assured, freed>>
    BY <1>2, <2>1 DEF MachineCurrent, StatusFits, DoubtShared, DoneHolds, PromisesKept, Open, Asked
  <2>2. ASSUME NEW c \in Clients, NEW op \in {"add", "delete"},
               NEW raws \in SUBSET RawWords, Call(c, op, raws)
        PROVE  PromiseInv'
    BY <1>2, <2>2, CallKeepsPromises
  <2>3. ASSUME NEW c \in Clients, Add(c) \/ Delete(c) PROVE PromiseInv'
    BY <1>2, <2>3, ChangeKeepsPromises
  <2>4. ASSUME NEW c \in Clients, Return(c) PROVE PromiseInv'
    BY <1>2, <2>4, ReturnKeepsPromises
  <2>5. CASE UNCHANGED vars
    BY <2>1, <2>5 DEF vars
  <2>6. ASSUME NEW k \in Checkers,
               \/ \E q \in Queries : BeginCheck(k, q)
               \/ ReadMachine(k) \/ Search(k) \/ EndCheck(k)
        PROVE  PromiseInv'
    BY <2>1, <2>6 DEF BeginCheck, ReadMachine, Search, EndCheck
  <2>7. ASSUME NEW c \in Clients, Refuse(c) PROVE PromiseInv'
    BY <1>2, <2>7, RefuseKeepsPromises
  <2> QED BY <1>2, <2>2, <2>3, <2>4, <2>5, <2>6, <2>7 DEF Next
<1>3. Spec => []TypeOK
  BY TypeCorrect
<1>4. TypeOK /\ MachineCurrent /\ StatusFits /\ DoubtShared /\ DoneHolds /\ PromisesKept
        <=> PromiseInv
  BY DEF PromiseInv
<1> QED BY <1>1, <1>2, <1>3, <1>4, PTL DEF Spec

(* A word whose addition was answered 201 is in the automaton until its    *)
(* deletion is asked for, whatever else administrators do at the time.     *)
THEOREM AdditionsBan == ~BuildMayFail => (Spec => []AssuredBanned)
<1> SUFFICES ASSUME ~BuildMayFail PROVE Spec => []AssuredBanned
  OBVIOUS
<1>1. Spec => []PromiseInv
  BY PromiseInvariant
<1>2. PromiseInv => AssuredBanned
  BY DEF PromiseInv, MachineCurrent, PromisesKept, AssuredBanned
<1> QED BY <1>1, <1>2, PTL

(* A word whose deletion was answered 200 or 404 is not in the automaton   *)
(* until its addition is asked for.                                        *)
THEOREM DeletionsFree == ~BuildMayFail => (Spec => []FreedAllowed)
<1> SUFFICES ASSUME ~BuildMayFail PROVE Spec => []FreedAllowed
  OBVIOUS
<1>1. Spec => []PromiseInv
  BY PromiseInvariant
<1>2. PromiseInv => FreedAllowed
  BY DEF PromiseInv, MachineCurrent, PromisesKept, FreedAllowed
<1> QED BY <1>1, <1>2, PTL
-----------------------------------------------------------------------------
(* The filter implements BanList.                                          *)

(* A checker with nothing to do has no verdict left over. *)
NothingLeft == \A k \in Checkers : checks[k].at \in {"idle", "asked"} => checks[k].verdict = TRUE

(* Verdicts are reset when a check ends. *)
LEMMA NothingLeftInvariant == Spec => []NothingLeft
<1>1. Init => NothingLeft
  BY DEF Init, NoCheck, NothingLeft
<1>2. TypeOK /\ NothingLeft /\ [Next]_vars => NothingLeft'
  <2> SUFFICES ASSUME TypeOK, NothingLeft, [Next]_vars, NEW k \in Checkers,
                      checks'[k].at \in {"idle", "asked"}
               PROVE  checks'[k].verdict = TRUE
    BY DEF NothingLeft
  <2>1. CASE UNCHANGED checks
    BY <2>1 DEF NothingLeft
  <2>2. ASSUME NEW j \in Checkers,
               \/ \E q \in Queries : BeginCheck(j, q)
               \/ ReadMachine(j) \/ Search(j) \/ EndCheck(j)
        PROVE  checks'[k].verdict = TRUE
    <3>1. checks[k] \in CheckState /\ checks[j] \in CheckState
      BY DEF TypeOK, CheckState
    <3>2. checks \in [Checkers -> CheckState]
      BY DEF TypeOK, CheckState
    <3> QED BY <2>2, <3>1, <3>2
            DEF BeginCheck, ReadMachine, Search, EndCheck, NothingLeft, CheckState
  <2> QED BY <2>1, <2>2 DEF Next, vars, Call, Refuse, Add, Delete, Return
<1> QED BY <1>1, <1>2, TypeCorrect, PTL DEF Spec

(* A request that arrives is a call of the abstract list. *)
LEMMA CallRefines ==
  ASSUME TypeOK, NEW c \in Clients, NEW op \in {"add", "delete"},
         NEW raws \in SUBSET RawWords, Call(c, op, raws)
  PROVE  Bans!Call(c, op, CleanWords(raws))
<1>1. requests \in [Clients -> Request]
  BY DEF TypeOK, Request
<1>2. UNCHANGED <<machine, Lookups>>
  BY DEF Call, Lookups
<1>3. ASSUME NEW x \in Clients
      PROVE  Orders'[x] = IF x = c
                          THEN [at |-> "called", op |-> op, words |-> CleanWords(raws), status |-> 0]
                          ELSE Orders[x]
  <2>1. requests[x] \in Request
    BY <1>1
  <2> QED BY <2>1 DEF Call, Orders, Request
<1>4. Orders' = [Orders EXCEPT ![c] =
        [at |-> "called", op |-> op, words |-> CleanWords(raws), status |-> 0]]
  BY <1>3 DEF Orders
<1> QED BY <1>2, <1>4 DEF Bans!Call, Call, Orders

(* Add and Delete ban and unban; a refused request changes nothing. *)
LEMMA ChangeRefines ==
  ASSUME ~BuildMayFail, TypeOK, MachineCurrent, NEW c \in Clients,
         Refuse(c) \/ Add(c) \/ Delete(c)
  PROVE  Bans!Refuse(c) \/ Bans!Ban(c) \/ Bans!Unban(c)
<1>1. requests \in [Clients -> Request] /\ requests[c] \in Request
  BY DEF TypeOK, Request
<1>2. Builds = {TRUE}
  BY DEF Builds
<1>3. UNCHANGED Lookups
  BY DEF Refuse, Add, Delete, Lookups
<1>4. ASSUME NEW status, Answer(c, status)
      PROVE  Orders' = [Orders EXCEPT ![c] =
               [at |-> "done", op |-> @.op, words |-> @.words, status |-> status]]
  <2>1. ASSUME NEW x \in Clients
        PROVE  Orders'[x] = IF x = c
                            THEN [at |-> "done", op |-> Orders[c].op,
                                  words |-> Orders[c].words, status |-> status]
                            ELSE Orders[x]
    BY <1>1, <1>4 DEF Answer, Orders, Request
  <2> QED BY <2>1 DEF Orders
<1>5. CASE Add(c)
  <2>1. machine' = machine \cup Asked(c) /\ Answer(c, 201)
    BY <1>2, <1>5 DEF Add, AddStatus, Rebuild, MachineCurrent, Asked
  <2>2. Orders[c].at = "called" /\ Orders[c].op = "add" /\ Orders[c].words = Asked(c)
    BY <1>5 DEF Add, Orders, Asked
  <2> QED BY <1>3, <1>4, <2>1, <2>2 DEF Bans!Ban
<1>6. CASE Delete(c)
  <2>1. /\ machine' = machine \ Asked(c)
        /\ Answer(c, IF Asked(c) \cap machine = {} THEN 404 ELSE 200)
    BY <1>2, <1>6 DEF Delete, DeleteStatus, Rebuild, MachineCurrent, Asked
  <2>2. Orders[c].at = "called" /\ Orders[c].op = "delete" /\ Orders[c].words = Asked(c)
    BY <1>6 DEF Delete, Orders, Asked
  <2> QED BY <1>3, <1>4, <2>1, <2>2 DEF Bans!Unban
<1>7. CASE Refuse(c)
  <2>1. Orders[c].at = "called" /\ Orders[c].words = {} /\ UNCHANGED machine
    BY <1>7 DEF Refuse, Orders, CleanWords
  <2>2. Answer(c, 400)
    BY <1>7 DEF Refuse
  <2> QED BY <1>3, <1>4, <2>1, <2>2 DEF Bans!Refuse
<1> QED BY <1>5, <1>6, <1>7

(* A response ends a request. *)
LEMMA ReturnRefines ==
  ASSUME TypeOK, NEW c \in Clients, Return(c)
  PROVE  Bans!Return(c)
<1>1. requests \in [Clients -> Request]
  BY DEF TypeOK, Request
<1>2. CleanWords({}) = {}
  BY DEF CleanWords
<1>3. ASSUME NEW x \in Clients
      PROVE  Orders'[x] = IF x = c THEN [at |-> "idle", op |-> "add", words |-> {}, status |-> 0]
                                   ELSE Orders[x]
  BY <1>1, <1>2 DEF Return, Orders, NoRequest
<1>4. Orders' = [Orders EXCEPT ![c] =
        [at |-> "idle", op |-> "add", words |-> {}, status |-> 0]]
  BY <1>3 DEF Orders
<1> QED BY <1>4 DEF Bans!Return, Return, Orders, Lookups

(* A check asks, decides where it copies the pointer, and tells. *)
LEMMA CheckRefines ==
  ASSUME TypeOK, NothingLeft, NEW k \in Checkers,
         \/ \E q \in Queries : BeginCheck(k, q)
         \/ ReadMachine(k) \/ Search(k) \/ EndCheck(k)
  PROVE  \/ \E q \in Queries : Bans!Ask(k, q)
         \/ Bans!Decide(k) \/ Bans!Tell(k)
         \/ UNCHANGED Bans!vars
<1>1. checks \in [Checkers -> CheckState] /\ checks[k] \in CheckState
  BY DEF TypeOK, CheckState
<1>2. UNCHANGED <<machine, Orders>>
  BY DEF BeginCheck, ReadMachine, Search, EndCheck, Orders
<1>3. ASSUME NEW look,
             \A j \in Checkers : Lookups'[j] = IF j = k THEN look ELSE Lookups[j]
      PROVE  Lookups' = [Lookups EXCEPT ![k] = look]
  BY <1>3 DEF Lookups
<1>4. ASSUME NEW q \in Queries, BeginCheck(k, q)
      PROVE  Bans!Ask(k, q)
  <2>1. \A j \in Checkers : Lookups'[j] = IF j = k
                                          THEN [at |-> "asked", query |-> q, verdict |-> TRUE]
                                          ELSE Lookups[j]
    BY <1>1, <1>4 DEF BeginCheck, Lookups, NothingLeft, CheckState
  <2> QED BY <1>2, <1>3, <1>4, <2>1 DEF Bans!Ask, BeginCheck, Lookups
<1>5. CASE ReadMachine(k)
  <2> DEFINE look == [at |-> "decided", query |-> Lookups[k].query,
                      verdict |-> Bans!Clean(Lookups[k].query)]
  <2>1. \A j \in Checkers : Lookups'[j] = IF j = k THEN look ELSE Lookups[j]
    BY <1>1, <1>5 DEF ReadMachine, Lookups, CheckState, Passes, Bans!Clean
  <2>2. Lookups' = [Lookups EXCEPT ![k] = look]
    BY <1>3, <2>1
  <2> QED BY <1>2, <1>5, <2>2 DEF Bans!Decide, ReadMachine, Lookups
<1>6. CASE Search(k)
  <2>1. \A j \in Checkers : Lookups'[j] = Lookups[j]
    BY <1>1, <1>6 DEF Search, Lookups, CheckState
  <2> QED BY <1>2, <2>1 DEF Bans!vars, Lookups
<1>7. CASE EndCheck(k)
  <2> DEFINE look == [at |-> "idle", query |-> Lookups[k].query, verdict |-> TRUE]
  <2>1. \A j \in Checkers : Lookups'[j] = IF j = k THEN look ELSE Lookups[j]
    BY <1>1, <1>7 DEF EndCheck, Lookups, CheckState
  <2>2. Lookups' = [Lookups EXCEPT ![k] = look]
    BY <1>3, <2>1
  <2> QED BY <1>2, <1>7, <2>2 DEF Bans!Tell, EndCheck, Lookups
<1> QED BY <1>4, <1>5, <1>6, <1>7

(* Requests and checks of the filter, whatever their overlap, are those of *)
(* a set of words that changes and is looked at in single steps.           *)
THEOREM ImplementsBanList == ~BuildMayFail => (Spec => BanSpec)
<1> SUFFICES ASSUME ~BuildMayFail PROVE Spec => BanSpec
  OBVIOUS
<1>1. Init => Bans!Init
  <2> SUFFICES ASSUME Init PROVE Bans!Init
    OBVIOUS
  <2>1. CleanWords({}) = {}
    BY DEF CleanWords
  <2>2. Orders = [c \in Clients |-> [at |-> "idle", op |-> "add", words |-> {}, status |-> 0]]
    BY <2>1 DEF Init, Orders, NoRequest
  <2>3. AnyQuery \in Queries
    BY WordsAssumption DEF AnyQuery, Queries
  <2>4. Lookups \in [Checkers -> [at : {"idle"}, query : Queries, verdict : {TRUE}]]
    BY <2>3 DEF Init, Lookups, NoCheck
  <2> QED BY <2>2, <2>4 DEF Init, Bans!Init, Bans!Queries, Queries
<1>2. TypeOK /\ NothingLeft /\ PromiseInv /\ [Next]_vars => [Bans!Next]_(Bans!vars)
  <2> SUFFICES ASSUME TypeOK, NothingLeft, PromiseInv, [Next]_vars
               PROVE  [Bans!Next]_(Bans!vars)
    OBVIOUS
  <2>1. CASE UNCHANGED vars
    BY <2>1 DEF vars, Bans!vars, Orders, Lookups
  <2>2. ASSUME NEW c \in Clients, NEW op \in {"add", "delete"},
               NEW raws \in SUBSET RawWords, Call(c, op, raws)
        PROVE  Bans!Next
    <3>1. CleanWords(raws) \in SUBSET Words
      BY Cleaned
    <3>2. Bans!Call(c, op, CleanWords(raws))
      BY <2>2, CallRefines
    <3> QED BY <3>1, <3>2 DEF Bans!Next
  <2>3. ASSUME NEW c \in Clients, Refuse(c) \/ Add(c) \/ Delete(c) PROVE Bans!Next
    <3>1. MachineCurrent
      BY DEF PromiseInv
    <3> QED BY <2>3, <3>1, ChangeRefines DEF Bans!Next
  <2>4. ASSUME NEW c \in Clients, Return(c) PROVE Bans!Next
    BY <2>4, ReturnRefines DEF Bans!Next
  <2>5. ASSUME NEW k \in Checkers,
               \/ \E q \in Queries : BeginCheck(k, q)
               \/ ReadMachine(k) \/ Search(k) \/ EndCheck(k)
        PROVE  Bans!Next \/ UNCHANGED Bans!vars
    BY <2>5, CheckRefines DEF Bans!Next, Bans!Queries, Queries
  <2> QED BY <2>1, <2>2, <2>3, <2>4, <2>5 DEF Next
<1>3. Spec => [](TypeOK /\ NothingLeft /\ PromiseInv)
  BY TypeCorrect, NothingLeftInvariant, PromiseInvariant, PTL
<1> QED BY <1>1, <1>2, <1>3, PTL DEF Spec, BanSpec, Bans!Spec
=============================================================================
