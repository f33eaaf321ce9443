------------------------------ MODULE StopList ------------------------------
(***************************************************************************)
(* StopListFilter and the handlers of BaseHandler that change it: a list   *)
(* of words, an automaton built from it, administrators that add and       *)
(* delete words over HTTP and consumers that check queries meanwhile.      *)
(*                                                                         *)
(* Atomicity.  Add and Delete hold the write lock from the first line to   *)
(* the last, so each is one step between the request and its response.     *)
(* Check holds the read lock only to copy the pointer to the automaton and *)
(* searches what it copied: two steps.  Automata are never changed once    *)
(* built.                                                                  *)
(*                                                                         *)
(* An automaton is the set of words it was built from, nil the empty set:  *)
(* none is built from no words.  A query is known by the words it          *)
(* contains as substrings.  The order and repetition of words in the list  *)
(* are left out: nothing reads them.                                       *)
(***************************************************************************)
EXTENDS Integers, FiniteSets

CONSTANTS
  Words,         \* words in their clean form
  Blank,         \* the clean form of a word of spaces, ""
  RawWords,      \* words as they are written in requests and in the config
  CleanForm,     \* CleanForm[r]: strings.ToLower(strings.TrimSpace(r))
  Contains,      \* Contains[q]: the words that occur in the lowered query q
  InitialWords,  \* cfg.StopList.Words
  Clients,       \* senders of HTTP requests
  Checkers,      \* goroutines that call Check
  BuildMayFail,  \* whether the automaton library may report an error
  MaxWords,      \* bound: words in one request
  MaxRequests,   \* bound: HTTP requests
  MaxChecks      \* bound: calls of Check

ASSUME WordsAssumption ==
  /\ Blank \notin Words
  /\ CleanForm \in [RawWords -> Words \cup {Blank}]
  /\ InitialWords \subseteq RawWords
  /\ DOMAIN Contains # {}
  /\ \A q \in DOMAIN Contains : Contains[q] \subseteq Words
  /\ BuildMayFail \in BOOLEAN
  /\ MaxWords \in Nat
  /\ MaxRequests \in Nat
  /\ MaxChecks \in Nat

Queries == DOMAIN Contains
AnyQuery == CHOOSE q \in Queries : TRUE

(* A bug to test the properties with: blank words are not skipped. *)
CleanWordsWithBlank(raws) == {CleanForm[r] : r \in raws}

(* The words of a request or a config, without the blank ones. *)
CleanWords(raws) == {CleanForm[r] : r \in raws} \ {Blank}

VARIABLES
  stopWords,  \* f.stopWords
  machine,    \* f.machine
  requests,   \* what each client is doing
  checks,     \* the locals of Check, for each checker
  sent,       \* requests sent so far
  asked,      \* calls of Check so far
  assured,    \* history: words added, answered, and not being deleted since
  freed       \* history: words deleted, answered, and not being added since

vars == <<stopWords, machine, requests, checks, sent, asked, assured, freed>>

NoRequest == [at |-> "idle", op |-> "add", words |-> {}, status |-> 0, doubt |-> {}]
NoCheck   == [at |-> "idle", query |-> AnyQuery, machine |-> {}, verdict |-> TRUE]

(* Words some unanswered request of kind op is about. *)
InFlight(op) ==
  UNION {CleanWords(requests[c].words) :
           c \in {x \in Clients : requests[x].at # "idle" /\ requests[x].op = op}}

-----------------------------------------------------------------------------
(* A request arrives.  doubt: words an opposite request is or comes in the *)
(* way of before this one is answered.                                     *)

Opposite(op) == IF op = "add" THEN "delete" ELSE "add"

Call(c, op, raws) ==
  /\ requests[c].at = "idle"
  /\ sent < MaxRequests
  /\ sent' = sent + 1
  /\ requests' = [x \in Clients |->
       IF x = c
       THEN [at |-> "called", op |-> op, words |-> raws, status |-> 0,
             doubt |-> InFlight(Opposite(op))]
       ELSE IF requests[x].at # "idle" /\ requests[x].op = Opposite(op)
            THEN [requests[x] EXCEPT !.doubt = @ \cup CleanWords(raws)]
            ELSE requests[x]]
  /\ assured' = IF op = "delete" THEN assured \ CleanWords(raws) ELSE assured
  /\ freed' = IF op = "add" THEN freed \ CleanWords(raws) ELSE freed
  /\ UNCHANGED <<stopWords, machine, checks, asked>>

-----------------------------------------------------------------------------
(* Add and Delete, under the write lock, and the status of the answer.     *)

(* Bugs to test the properties with. *)
RebuildKeepsLast(words, ok) == machine' = IF ok /\ words # {} THEN words ELSE machine
RebuildOmits(words, ok) == machine' = IF ok THEN words \cap stopWords ELSE machine

(* rebuildMachineLocked: an empty list needs no build and cannot fail. *)
Rebuild(words, ok) ==
  /\ words = {} => ok
  /\ machine' = IF ok THEN words ELSE machine

Answer(c, status) ==
  requests' = [requests EXCEPT ![c] =
    [at |-> "done", op |-> @.op, words |-> @.words, status |-> status, doubt |-> @.doubt]]

(* The generated handler cannot decode the body, so no words were sent.    *)
Refuse(c) ==
  /\ requests[c].at = "called" /\ requests[c].words = {}
  /\ Answer(c, 400)
  /\ UNCHANGED <<stopWords, machine, checks, sent, asked, assured, freed>>

(* What the handlers make of an error: found is FALSE for ErrWordsNotFound *)
(* and ok for any other.  A request that can be decoded is not refused,    *)
(* even if all its words are blank.                                        *)
AddStatus(ok) == IF ok THEN 201 ELSE 500
DeleteStatus(found, ok) == IF ~found THEN 404 ELSE IF ok THEN 200 ELSE 500

Builds == IF BuildMayFail THEN BOOLEAN ELSE {TRUE}

Add(c) ==
  LET new == CleanWords(requests[c].words) \ stopWords
  IN  /\ requests[c].at = "called" /\ requests[c].op = "add"
      /\ stopWords' = stopWords \cup new
      /\ IF new = {}
         THEN UNCHANGED machine /\ Answer(c, AddStatus(TRUE))
         ELSE \E ok \in Builds : /\ Rebuild(stopWords', ok)
                                 /\ Answer(c, AddStatus(ok))
      /\ UNCHANGED <<checks, sent, asked, assured, freed>>

Delete(c) ==
  LET old == CleanWords(requests[c].words) \cap stopWords
  IN  /\ requests[c].at = "called" /\ requests[c].op = "delete"
      /\ stopWords' = stopWords \ old
      /\ IF old = {}
         THEN UNCHANGED machine /\ Answer(c, DeleteStatus(FALSE, TRUE))
         ELSE \E ok \in Builds : /\ Rebuild(stopWords', ok)
                                 /\ Answer(c, DeleteStatus(TRUE, ok))
      /\ UNCHANGED <<checks, sent, asked, assured, freed>>

(* The response reaches the client. *)
Return(c) ==
  LET r == requests[c]
      certain == CleanWords(r.words) \ r.doubt
  IN  /\ r.at = "done"
      /\ requests' = [requests EXCEPT ![c] = NoRequest]
      /\ assured' = IF r.status = 201 THEN assured \cup certain ELSE assured
      /\ freed' = IF r.status \in {200, 404} THEN freed \cup certain ELSE freed
      /\ UNCHANGED <<stopWords, machine, checks, sent, asked>>

-----------------------------------------------------------------------------
(* Check.                                                                  *)

BeginCheck(k, q) ==
  /\ checks[k].at = "idle"
  /\ asked < MaxChecks
  /\ asked' = asked + 1
  /\ checks' = [checks EXCEPT ![k].at = "asked", ![k].query = q]
  /\ UNCHANGED <<stopWords, machine, requests, sent, assured, freed>>

ReadMachine(k) ==
  /\ checks[k].at = "asked"
  /\ checks' = [checks EXCEPT ![k].at = "searching", ![k].machine = machine]
  /\ UNCHANGED <<stopWords, machine, requests, sent, asked, assured, freed>>

(* A bug to test the properties with: a word matches the whole query only. *)
PassesWhole(q, m) == Contains[q] \cap m # Contains[q] \/ Contains[q] = {}

Passes(q, m) == Contains[q] \cap m = {}

Search(k) ==
  /\ checks[k].at = "searching"
  /\ checks' = [checks EXCEPT
                  ![k].at = "answered",
                  ![k].machine = {},
                  ![k].verdict = Passes(checks[k].query, checks[k].machine)]
  /\ UNCHANGED <<stopWords, machine, requests, sent, asked, assured, freed>>

EndCheck(k) ==
  /\ checks[k].at = "answered"
  /\ checks' = [checks EXCEPT ![k].at = "idle", ![k].verdict = TRUE]
  /\ UNCHANGED <<stopWords, machine, requests, sent, asked, assured, freed>>

-----------------------------------------------------------------------------
(* NewStopListFilter.  If its build fails the process does not start. *)
Init ==
  /\ stopWords = CleanWords(InitialWords)
  /\ machine = stopWords
  /\ requests = [c \in Clients |-> NoRequest]
  /\ checks = [k \in Checkers |-> NoCheck]
  /\ sent = 0
  /\ asked = 0
  /\ assured = {}
  /\ freed = {}

Next ==
  \/ \E c \in Clients :
        \/ \E op \in {"add", "delete"}, raws \in SUBSET RawWords :
              Cardinality(raws) <= MaxWords /\ Call(c, op, raws)
        \/ Refuse(c)
        \/ Add(c)
        \/ Delete(c)
        \/ Return(c)
  \/ \E k \in Checkers :
        \/ \E q \in Queries : BeginCheck(k, q)
        \/ ReadMachine(k)
        \/ Search(k)
        \/ EndCheck(k)

Spec == Init /\ [][Next]_vars

-----------------------------------------------------------------------------
(* Properties.                                                             *)

(* The shape of the state. *)
TypeOK ==
  /\ stopWords \subseteq Words
  /\ machine \subseteq Words
  /\ requests \in [Clients -> [at : {"idle", "called", "done"},
                               op : {"add", "delete"},
                               words : SUBSET RawWords,
                               status : {0, 200, 201, 400, 404, 500},
                               doubt : SUBSET Words]]
  /\ checks \in [Checkers -> [at : {"idle", "asked", "searching", "answered"},
                              query : Queries,
                              machine : SUBSET Words,
                              verdict : BOOLEAN]]
  /\ sent \in 0 .. MaxRequests
  /\ asked \in 0 .. MaxChecks
  /\ assured \subseteq Words
  /\ freed \subseteq Words

(* The administrator's view of POST: once a word's addition is answered    *)
(* with 201 and nobody has sent its deletion since the addition was sent,  *)
(* the automaton in force holds the word, so every check that looks now    *)
(* drops its queries.  Holds unless a build fails.                         *)
AssuredBanned == assured \subseteq machine

(* The same for DELETE, answered with 200 or 404: the word stops nothing.  *)
FreedAllowed == freed \cap machine = {}

(* api.yaml:68 gives POST the status 422 for a list of words that is not   *)
(* valid, "for example, empty strings were passed", and api.yaml:172 the   *)
(* code VALIDATION_FAILED for it: a request of nothing but blank words     *)
(* must not be told that its words were added.                             *)
BlankWordsRefused ==
  \A c \in Clients :
    LET r == requests[c]
    IN  r.at = "done" /\ r.op = "add" /\ r.words # {} /\ CleanWords(r.words) = {} =>
          r.status # 201

(* The abstract requests and checks: words are clean, and a check that is  *)
(* still searching has its verdict already.                                *)
Orders == [c \in Clients |-> [at     |-> requests[c].at,
                              op     |-> requests[c].op,
                              words  |-> CleanWords(requests[c].words),
                              status |-> requests[c].status]]

Lookups == [k \in Checkers |->
  [at      |-> IF checks[k].at \in {"searching", "answered"} THEN "decided" ELSE checks[k].at,
   query   |-> checks[k].query,
   verdict |-> IF checks[k].at = "searching"
               THEN Passes(checks[k].query, checks[k].machine)
               ELSE checks[k].verdict]]

(* The filter implements BanList: requests and checks overlap in any way,  *)
(* and yet each acts at one moment between its call and its return; a      *)
(* check that is still searching an automaton that has been replaced       *)
(* answers for the moment it copied the pointer.  Holds unless a build     *)
(* fails.  Of a request of blank words BanList lets both answers pass, the *)
(* code's 201 and the 422 of api.yaml; BlankWordsRefused is about them.    *)
Bans == INSTANCE BanList WITH
  BannedFirst <- CleanWords(InitialWords),
  banned      <- machine,
  orders      <- Orders,
  lookups     <- Lookups

BanSpec == Bans!Spec
=============================================================================
