------------------------------ MODULE Service ------------------------------
(***************************************************************************)
(* The process as a whole: start-up and the wait for the broker, the       *)
(* consumer's loop over the topic with its chain of filters, the HTTP      *)
(* server, faults and signals, shutdown, exit codes, crashes and restarts. *)
(*                                                                         *)
(* What the filters decide is AntiFraud's and StopList's subject; here a   *)
(* verdict is free.  So is whether the broker, the port, the requests and  *)
(* the operating system behave.  The topic is a log of NumMessages         *)
(* messages, whose offsets are 1, 2, ...                                   *)
(*                                                                         *)
(* Three goroutines share the process: main (App.Run and main.go), the     *)
(* consumer (Start) and the HTTP server.  They meet in the context that a  *)
(* signal or the first error of the group cancels.                         *)
(***************************************************************************)
EXTENDS Integers, FiniteSets

CONSTANTS
  NumMessages,    \* messages in the topic
  Malformed,      \* offsets of those that are not valid JSON
  Unplaceable,    \* offsets of those whose time stamp has no bucket
  MaxTries,       \* attempts to reach the broker that fit in two minutes
  MaxRequests,    \* bound: HTTP requests in flight
  MaxRebalances,  \* bound: rebalances of the consumer group in one life
  MaxLives,       \* bound: starts of the process
  MayFail,        \* whether broker and port may fail after the start
  MayCrash        \* whether the process may be killed

ASSUME ServiceAssumption ==
  /\ NumMessages \in Nat
  /\ Malformed \subseteq 1 .. NumMessages
  /\ Unplaceable \subseteq 1 .. NumMessages
  /\ MaxTries \in Nat \ {0}
  /\ MaxRequests \in Nat
  /\ MaxRebalances \in Nat
  /\ MaxLives \in Nat \ {0}
  /\ MayFail \in BOOLEAN
  /\ MayCrash \in BOOLEAN

VARIABLES
  main,        \* where main is
  tries,       \* attempts to reach the broker so far
  signalled,   \* an interrupt or SIGTERM was caught
  faulted,     \* a goroutine of the group returned an error first
  exitCode,    \* what main will return, or returned, to the system
  server,      \* the HTTP server
  inFlight,    \* HTTP requests being handled
  loop,        \* where the consumer is
  inHand,      \* the message the consumer is working on, or 0
  next,        \* the offset the reader will deliver next
  handed,      \* the last offset handed over for commit
  committed,   \* the group's offset, kept by the broker
  rebalances,  \* rebalances in this life
  counts,      \* history: how often the collector holds each message
  handled,     \* history: messages whose processing came to its end
  ended        \* lives that are over

mainVars     == <<main, tries, exitCode>>
serverVars   == <<server, inFlight>>
offsetVars   == <<next, handed, committed, rebalances>>
consumerVars == <<loop, inHand, counts, handled>>
processVars  == <<mainVars, signalled, faulted, serverVars, ended>>
vars == <<processVars, consumerVars, offsetVars>>

NoCounts == [m \in 1 .. NumMessages |-> 0]

(* ctx.Done() is closed. *)
Cancelled == signalled \/ faulted

ReaderOpen == main \in {"running", "draining"}

-----------------------------------------------------------------------------
(* The end of a life, which takes the collector with it, and the next one. *)

ProcessEnds(code) ==
  /\ main' = "exited"
  /\ exitCode' = code
  /\ loop' = "none"
  /\ inHand' = 0
  /\ counts' = NoCounts
  /\ ended' = ended + 1
  /\ UNCHANGED <<tries, signalled, faulted, serverVars, handled, offsetVars>>

(* kill -9, out of memory, a lost machine; also a signal before main       *)
(* catches it.                                                             *)
Crash ==
  /\ MayCrash
  /\ main # "exited"
  /\ ProcessEnds(137)

Restart ==
  /\ main = "exited"
  /\ ended < MaxLives
  /\ main' = "loading"
  /\ tries' = 0
  /\ signalled' = FALSE
  /\ faulted' = FALSE
  /\ exitCode' = 0
  /\ server' = "none"
  /\ inFlight' = 0
  /\ rebalances' = 0
  /\ UNCHANGED <<consumerVars, next, handed, committed, ended>>

-----------------------------------------------------------------------------
(* main: start-up.                                                         *)

StepOn(place) ==
  /\ main' = place
  /\ UNCHANGED <<tries, exitCode, signalled, faulted, serverVars, consumerVars, offsetVars, ended>>

(* config.Load reads, decodes and validates; if any of it fails the exit   *)
(* code is 1.                                                              *)
LoadConfig ==
  /\ main = "loading"
  /\ StepOn("assembling") \/ ProcessEnds(1)

(* app.New registers how everything is built; if that fails main logs it   *)
(* and returns, with exit code 0.  Signals are caught from Run on.         *)
NewApp ==
  /\ main = "assembling"
  /\ StepOn("building") \/ ProcessEnds(0)

(* container.Get("http-server"): filters and collector; Get panics if one *)
(* cannot be built.                                                        *)
BuildServer ==
  /\ main = "building"
  /\ StepOn("waiting") \/ ProcessEnds(2)

(* The two minutes are not over.  The bug is one attempt late. *)
InTimeOrLate == tries <= MaxTries
InTime == tries < MaxTries

(* WaitKafkaConsumersGroupReadiness makes an attempt: Dial, then           *)
(* ReadPartitions.  Neither is given the deadline or a context.            *)
AskBroker ==
  /\ main = "waiting"
  /\ InTime
  /\ StepOn("asking")

(* The attempt comes back, however late.  On success main creates the      *)
(* reader, which resumes after the committed offset, and starts both       *)
(* goroutines; a failure may have taken all the time there was.            *)
BrokerAnswers ==
  /\ main = "asking"
  /\ \/ /\ main' = "running"
        /\ server' = "starting"
        /\ loop' = "top"
        /\ next' = committed + 1
        /\ handed' = committed
        /\ UNCHANGED tries
     \/ /\ main' = "waiting"
        /\ tries' \in {tries + 1, MaxTries}
        /\ UNCHANGED <<server, loop, next, handed>>
  /\ UNCHANGED <<exitCode, signalled, faulted, inFlight, inHand, counts, handled,
                 committed, rebalances, ended>>

(* The two minutes are over: panic. *)
GiveUp ==
  /\ main = "waiting"
  /\ ~InTime
  /\ ProcessEnds(2)

-----------------------------------------------------------------------------
(* main: shutdown.                                                         *)

(* <-ctx.Done() returns and Shutdown closes the listener. *)
BeginShutdown ==
  /\ main = "running"
  /\ Cancelled
  /\ main' = "draining"
  /\ server' = "closed"
  /\ UNCHANGED <<tries, exitCode, signalled, faulted, inFlight, consumerVars, offsetVars, ended>>

DrainTo(code) ==
  /\ main = "draining"
  /\ main' = "closing"
  /\ exitCode' = code
  /\ UNCHANGED <<tries, signalled, faulted, serverVars, consumerVars, offsetVars, ended>>

(* Bugs to test the properties with: Close instead of Shutdown, and a      *)
(* Shutdown without a deadline.                                            *)
DrainNothing == DrainTo(0)
DrainUntimed == inFlight = 0 /\ DrainTo(0)

DrainEnds == inFlight = 0 /\ DrainTo(0)

(* ShutdownTimeout is over: the error makes main exit with 1. *)
DrainTimesOut == inFlight > 0 /\ DrainTo(1)

(* container.Delete closes the reader, which commits what it was handed    *)
(* if the broker lets it.                                                  *)
CloseReader ==
  /\ main = "closing"
  /\ main' = "returning"
  /\ committed' \in {committed, handed}
  /\ UNCHANGED <<tries, exitCode, signalled, faulted, serverVars, consumerVars,
                 next, handed, rebalances, ended>>

(* main returns; nobody waits for the consumer. *)
Exit == main = "returning" /\ ProcessEnds(exitCode)

-----------------------------------------------------------------------------
(* What happens to the process from outside.                               *)

Signal ==
  /\ main \notin {"loading", "assembling", "exited"}
  /\ ~signalled
  /\ signalled' = TRUE
  /\ UNCHANGED <<mainVars, faulted, serverVars, consumerVars, offsetVars, ended>>

ServerStarts ==
  /\ server = "starting"
  /\ server' = "serving"
  /\ UNCHANGED <<mainVars, signalled, faulted, inFlight, consumerVars, offsetVars, ended>>

(* ListenAndServe returns an error, which cancels the context. *)
ServerFails ==
  /\ MayFail
  /\ main # "exited"
  /\ server \in {"starting", "serving"}
  /\ server' = "failed"
  /\ faulted' = TRUE
  /\ UNCHANGED <<mainVars, signalled, inFlight, consumerVars, offsetVars, ended>>

RequestArrives ==
  /\ main # "exited"
  /\ server = "serving"
  /\ inFlight < MaxRequests
  /\ inFlight' = inFlight + 1
  /\ UNCHANGED <<mainVars, signalled, faulted, server, consumerVars, offsetVars, ended>>

RequestAnswered ==
  /\ main # "exited"
  /\ inFlight > 0
  /\ inFlight' = inFlight - 1
  /\ UNCHANGED <<mainVars, signalled, faulted, server, consumerVars, offsetVars, ended>>

(* The commit loop of the reader, every CommitInterval.  The bug commits   *)
(* the position of the reader in place of the last offset it handed out.   *)
CommitPosition ==
  /\ ReaderOpen
  /\ handed > committed
  /\ committed' = next
  /\ UNCHANGED <<processVars, consumerVars, next, handed, rebalances>>

Commit ==
  /\ ReaderOpen
  /\ handed > committed
  /\ committed' = handed
  /\ UNCHANGED <<processVars, consumerVars, next, handed, rebalances>>

(* The coordinator times out and the group starts a new generation from    *)
(* the committed offset; commits that were not sent are forgotten.         *)
Rebalance ==
  /\ ReaderOpen
  /\ rebalances < MaxRebalances
  /\ rebalances' = rebalances + 1
  /\ next' = committed + 1
  /\ handed' = committed
  /\ UNCHANGED <<processVars, consumerVars, committed>>

-----------------------------------------------------------------------------
(* The consumer.                                                           *)

(* The select at the head of the loop. *)
CheckDone ==
  /\ loop = "top"
  /\ loop' = IF Cancelled THEN "stopped" ELSE "reading"
  /\ UNCHANGED <<processVars, inHand, counts, handled, offsetVars>>

(* A bug to test the properties with: the reader stays where it is.        *)
ReadMessageAgain ==
  /\ loop = "reading"
  /\ ReaderOpen
  /\ next <= NumMessages
  /\ inHand' = next
  /\ handed' = next
  /\ loop' = "decode"
  /\ UNCHANGED <<processVars, counts, handled, next, committed, rebalances>>

(* ReadMessage returns a message and hands its offset over for commit.  It *)
(* may do so although the context has been cancelled meanwhile.            *)
ReadMessage ==
  /\ loop = "reading"
  /\ ReaderOpen
  /\ next <= NumMessages
  /\ inHand' = next
  /\ handed' = next
  /\ next' = next + 1
  /\ loop' = "decode"
  /\ UNCHANGED <<processVars, counts, handled, committed, rebalances>>

(* ReadMessage returns an error: the context's, or one of its own, which   *)
(* cancels the context.                                                    *)
ReadFails ==
  /\ loop = "reading"
  /\ Cancelled \/ MayFail
  /\ loop' = "stopped"
  /\ faulted' = (faulted \/ ~signalled)
  /\ UNCHANGED <<mainVars, signalled, serverVars, inHand, counts, handled, offsetVars, ended>>

(* On to the next place in the loop, or done with the message. *)
Proceed(place) ==
  /\ loop' = place
  /\ UNCHANGED <<inHand, counts, handled>>

Finish ==
  /\ loop' = "top"
  /\ inHand' = 0
  /\ handled' = handled \cup {inHand}

Dismiss == Finish /\ UNCHANGED counts

(* A bug to test the properties with: a message that cannot be decoded is  *)
(* not passed over.                                                        *)
DecodeAgain ==
  /\ loop = "decode"
  /\ inHand \notin Malformed
  /\ Proceed("antifraud")
  /\ UNCHANGED <<processVars, offsetVars>>

Decode ==
  /\ loop = "decode"
  /\ IF inHand \in Malformed
     THEN Dismiss
     ELSE Proceed("antifraud")
  /\ UNCHANGED <<processVars, offsetVars>>

(* One filter of the chain; if it refuses, the rest of the chain is        *)
(* skipped and the message is done with.                                   *)
Filter(filter, then) ==
  /\ loop = filter
  /\ Proceed(then) \/ Dismiss
  /\ UNCHANGED <<processVars, offsetVars>>

(* The index of a time stamp before 1970 is negative, and there is none    *)
(* for any if a bucket is shorter than a second: Add panics, and nothing   *)
(* recovers in this goroutine.                                             *)
AddPanics ==
  /\ loop = "adding"
  /\ inHand \in Unplaceable
  /\ ProcessEnds(2)

AddQuery ==
  /\ loop = "adding"
  /\ inHand \notin Unplaceable
  /\ counts' = [counts EXCEPT ![inHand] = @ + 1]
  /\ Finish
  /\ UNCHANGED <<processVars, offsetVars>>

-----------------------------------------------------------------------------
Init ==
  /\ main = "loading"
  /\ tries = 0
  /\ signalled = FALSE
  /\ faulted = FALSE
  /\ exitCode = 0
  /\ server = "none"
  /\ inFlight = 0
  /\ loop = "none"
  /\ inHand = 0
  /\ next = 1
  /\ handed = 0
  /\ committed = 0
  /\ rebalances = 0
  /\ counts = NoCounts
  /\ handled = {}
  /\ ended = 0

Main ==
  \/ LoadConfig
  \/ NewApp
  \/ BuildServer
  \/ AskBroker
  \/ GiveUp
  \/ BeginShutdown
  \/ DrainEnds
  \/ DrainTimesOut
  \/ CloseReader
  \/ Exit

Environment ==
  \/ BrokerAnswers
  \/ Signal
  \/ ServerStarts
  \/ ServerFails
  \/ RequestArrives
  \/ RequestAnswered
  \/ Commit
  \/ Rebalance
  \/ Crash
  \/ Restart

(* The steps of the consumer that no one can hold up. *)
Working ==
  \/ CheckDone
  \/ ReadMessage
  \/ Decode
  \/ Filter("antifraud", "stoplist")
  \/ Filter("stoplist", "adding")
  \/ AddQuery
  \/ AddPanics

Next == Main \/ Environment \/ Working \/ ReadFails

Spec == Init /\ [][Next]_vars

(* The goroutines run; the waits of main have deadlines, except for the    *)
(* answer of the broker; the reader delivers what the topic holds and can  *)
(* be closed.  Nothing is assumed of that answer, nor of requests,         *)
(* signals, commits or faults.                                             *)
FairSpec == Spec /\ WF_vars(Main) /\ WF_vars(Working)

-----------------------------------------------------------------------------
(* Properties.                                                             *)

Busy == {"decode", "antifraud", "stoplist", "adding"}

(* The shape of the state. *)
TypeOK ==
  /\ main \in {"loading", "assembling", "building", "waiting", "asking", "running",
               "draining", "closing", "returning", "exited"}
  /\ tries \in 0 .. MaxTries
  /\ signalled \in BOOLEAN
  /\ faulted \in BOOLEAN
  /\ exitCode \in {0, 1, 2, 137}
  /\ server \in {"none", "starting", "serving", "failed", "closed"}
  /\ inFlight \in 0 .. MaxRequests
  /\ loop \in {"none", "top", "reading", "stopped"} \cup Busy
  /\ inHand \in 0 .. NumMessages
  /\ next \in 1 .. NumMessages + 1
  /\ handed \in 0 .. NumMessages
  /\ committed \in 0 .. NumMessages
  /\ rebalances \in 0 .. MaxRebalances
  /\ counts \in [1 .. NumMessages -> Nat]
  /\ handled \subseteq 1 .. NumMessages
  /\ ended \in 0 .. MaxLives

(* Messages the group will not see again and nobody has dealt with. *)
Lost == (1 .. committed) \ (handled \cup {inHand})

(* Offsets are committed ahead of processing (ReadMessage hands them over  *)
(* when it returns), in the background, over rebalances, crashes and       *)
(* shutdowns that do not wait for the consumer; still, a life costs one    *)
(* message at most: the one in hand when it ended.                         *)
LossBound == Cardinality(Lost) <= ended

(* A rebalance takes the group back to the committed offset, and Add does  *)
(* not know a message it has counted: the collector holds one message as   *)
(* often as the group was rebalanced, and once more, but no oftener.       *)
CountedAgain ==
  \A m \in 1 .. NumMessages : counts[m] <= 1 + rebalances

(* A process that exits with 0 has not cut off a request: Shutdown waits   *)
(* for the ones in flight and lets no new one in.                          *)
DrainedCleanly == main = "exited" /\ exitCode = 0 => inFlight = 0

(* A signal, even one caught during the wait for the broker, or a fault    *)
(* ends the process, whatever the requests do.  Only a broker that accepts *)
(* the connection and never answers can prevent that: an attempt has no    *)
(* deadline, and the signal is caught but not looked at.                   *)
StopsInTheEnd == (Cancelled ~> main = "exited") \/ <>[](main = "asking")

Undisturbed == main = "running" /\ ~Cancelled

(* Messages that cannot be decoded, or that a filter refuses, do not hold  *)
(* up those behind them: a process that keeps running deals with the whole *)
(* topic.  A message that makes Add panic ends the process instead, and    *)
(* may do so again after the restart; nothing is said of that.             *)
KeepsReading == <>[]Undisturbed => <>(1 .. NumMessages \subseteq handled \cup Lost)

(* main.go:43 reports "application exited with critical error" and exits   *)
(* with 1 when Run fails: a fault of the consumer or the server ought to   *)
(* be seen in the exit code.                                               *)
FaultReported == main = "exited" /\ faulted /\ ~signalled => exitCode # 0
=============================================================================
