--------------------------- MODULE ServiceProofs ---------------------------
(***************************************************************************)
(* Proofs about Service, for a topic of any length, any number of lives,   *)
(* rebalances and requests, and any faults.                                *)
(***************************************************************************)
EXTENDS Service, FiniteSetTheorems, TLAPS

-----------------------------------------------------------------------------
(* The inductive invariant.                                                *)

(* The places of main before the goroutines are started. *)
Starting == {"loading", "assembling", "building", "waiting", "asking"}

(* The broker is asked in time only, the consumer exists while main is     *)
(* past the wait for it, has a message exactly when it works on one, and   *)
(* lives are counted as they end.                                          *)
OneLife ==
  /\ main = "asking" => InTime
  /\ main # "exited" => ended < MaxLives
  /\ loop = "none" <=> main \in Starting \cup {"exited"}
  /\ inHand # 0 <=> loop \in Busy

(* What is handed over is what was delivered, and commits follow. *)
OffsetsInOrder == handed = next - 1 /\ committed <= handed

(* Of the messages delivered and not committed, all but the one in hand    *)
(* are dealt with: a commit loses nothing by itself.                       *)
DealtWith ==
  loop # "none" => \A m \in (committed + 1) .. handed : m \in handled \cup {inHand}

(* Nothing is in flight before the server is started, and Shutdown has     *)
(* closed the listener before it looks at what is.                         *)
ListenerClosed ==
  /\ main \in Starting => server = "none" /\ inFlight = 0
  /\ main \in {"draining", "closing", "returning"} => server = "closed"
  /\ main \in {"closing", "returning", "exited"} /\ exitCode = 0 => inFlight = 0

LifeInv == TypeOK /\ OneLife /\ OffsetsInOrder /\ DealtWith /\ ListenerClosed

(* Only AddQuery and the end of a life touch the collector. *)
LEMMA CountsTyped ==
  ASSUME TypeOK, OneLife, [Next]_vars
  PROVE  counts' \in [1 .. NumMessages -> Nat]
<1> USE DEF TypeOK, processVars, mainVars, serverVars, offsetVars, consumerVars
<1>1. CASE UNCHANGED counts
  BY <1>1
<1>2. ASSUME NEW code, ProcessEnds(code)
      PROVE  counts' \in [1 .. NumMessages -> Nat]
  BY <1>2 DEF ProcessEnds, NoCounts
<1>3. CASE AddQuery
  BY <1>3 DEF AddQuery, OneLife, Busy
<1>4. CASE Main
  BY <1>1, <1>2, <1>4
     DEF Main, StepOn, LoadConfig, NewApp, BuildServer, AskBroker, GiveUp, BeginShutdown,
         DrainEnds, DrainTimesOut, DrainTo, CloseReader, Exit
<1>5. CASE Environment
  BY <1>1, <1>2, <1>5
     DEF Environment, BrokerAnswers, Signal, ServerStarts, ServerFails, RequestArrives,
         RequestAnswered, Commit, Rebalance, Crash, Restart
<1>6. CASE Working \/ ReadFails
  BY <1>1, <1>2, <1>3, <1>6
     DEF Working, ReadFails, CheckDone, ReadMessage, Decode, Filter, AddPanics, Proceed,
         Dismiss
<1>7. CASE UNCHANGED vars
  BY <1>1, <1>7 DEF vars
<1> QED BY <1>4, <1>5, <1>6, <1>7 DEF Next

(* The invariant holds when the first life begins. *)
LEMMA LifeInit == Init => LifeInv
<1>1. Init => counts \in [1 .. NumMessages -> Nat]
  BY DEF Init, NoCounts
<1>2. Init => TypeOK
  <2> SUFFICES ASSUME Init PROVE TypeOK
    OBVIOUS
  <2>1. counts \in [1 .. NumMessages -> Nat]
    BY <1>1
  <2>2. handled \subseteq 1 .. NumMessages
    BY DEF Init
  <2>3. signalled \in BOOLEAN /\ faulted \in BOOLEAN
    BY Zenon DEF Init
  <2> QED BY <2>1, <2>2, <2>3, ServiceAssumption DEF Init, TypeOK, Busy
<1>3. Init => OneLife /\ OffsetsInOrder /\ DealtWith /\ ListenerClosed
  BY ServiceAssumption
     DEF Init, OneLife, OffsetsInOrder, DealtWith, ListenerClosed, Busy, Starting
<1> QED BY <1>2, <1>3 DEF LifeInv

(* The end of a life, whatever ends it. *)
LEMMA EndKeeps ==
  ASSUME LifeInv, NEW code \in {0, 1, 2, 137}, main # "exited", ProcessEnds(code),
         code = 0 => inFlight = 0, counts' \in [1 .. NumMessages -> Nat]
  PROVE  LifeInv'
BY ServiceAssumption
   DEF ProcessEnds, serverVars, offsetVars,
       LifeInv, TypeOK, OneLife, OffsetsInOrder, DealtWith, ListenerClosed, Busy, Starting

(* The steps of main. *)
LEMMA MainKeeps ==
  ASSUME LifeInv, Main, counts' \in [1 .. NumMessages -> Nat]
  PROVE  LifeInv'
<1>1. CASE LoadConfig /\ ProcessEnds(1)
  BY <1>1, EndKeeps DEF LoadConfig
<1>2. CASE BuildServer /\ ProcessEnds(2)
  BY <1>2, EndKeeps DEF BuildServer
<1>3. CASE GiveUp
  BY <1>3, EndKeeps DEF GiveUp
<1>4. CASE Exit
  <2>1. main = "returning" /\ ProcessEnds(exitCode)
    BY <1>4 DEF Exit
  <2>2. exitCode \in {0, 1, 2, 137}
    BY DEF LifeInv, TypeOK
  <2>3. exitCode = 0 => inFlight = 0
    BY <2>1 DEF LifeInv, ListenerClosed
  <2> QED BY <2>1, <2>2, <2>3, EndKeeps
<1>5. CASE NewApp /\ ProcessEnds(0)
  <2>1. main = "assembling"
    BY <1>5 DEF NewApp
  <2>2. inFlight = 0
    BY <2>1 DEF LifeInv, ListenerClosed, Starting
  <2> QED BY <1>5, <2>1, <2>2, EndKeeps
<1> USE ServiceAssumption
    DEF serverVars, offsetVars, consumerVars,
        LifeInv, TypeOK, OneLife, OffsetsInOrder, DealtWith, ListenerClosed, Busy, Starting
<1>6. ASSUME main \in Starting,
             NEW place \in Starting, StepOn(place), place = "asking" => InTime
      PROVE  LifeInv'
  BY <1>6 DEF StepOn, InTime
<1>7. CASE BeginShutdown
  BY <1>7 DEF BeginShutdown
<1>8. CASE DrainEnds \/ DrainTimesOut
  <2>1. main = "draining" /\ main' = "closing" /\ exitCode' \in {0, 1}
    BY <1>8 DEF DrainEnds, DrainTimesOut, DrainTo
  <2>2. exitCode' = 0 => inFlight = 0
    BY <1>8 DEF DrainEnds, DrainTimesOut, DrainTo
  <2>3. UNCHANGED <<tries, signalled, faulted, serverVars, consumerVars, offsetVars, ended>>
    BY <1>8 DEF DrainEnds, DrainTimesOut, DrainTo
  <2> QED BY <2>1, <2>2, <2>3
<1>9. CASE CloseReader
  <2>1. CASE committed' = committed
    BY <1>9, <2>1 DEF CloseReader
  <2>2. CASE committed' = handed
    BY <1>9, <2>2 DEF CloseReader
  <2> QED BY <1>9, <2>1, <2>2 DEF CloseReader
<1> HIDE DEF LifeInv
<1> QED
  BY <1>1, <1>2, <1>3, <1>4, <1>5, <1>6, <1>7, <1>8, <1>9
     DEF Main, LoadConfig, NewApp, BuildServer, AskBroker, Starting

(* What comes from outside. *)
LEMMA EnvironmentKeeps ==
  ASSUME LifeInv, Environment, counts' \in [1 .. NumMessages -> Nat]
  PROVE  LifeInv'
<1>1. CASE Crash
  BY <1>1, EndKeeps DEF Crash
<1> USE ServiceAssumption
    DEF processVars, mainVars, serverVars, offsetVars, consumerVars,
        LifeInv, TypeOK, OneLife, OffsetsInOrder, DealtWith, ListenerClosed, Busy, Starting, InTime
<1>2. CASE Signal
  BY <1>2 DEF Signal
<1>3. CASE ServerStarts
  BY <1>3 DEF ServerStarts
<1>4. CASE ServerFails
  BY <1>4 DEF ServerFails
<1>5. CASE RequestArrives
  BY <1>5 DEF RequestArrives
<1>6. CASE RequestAnswered
  BY <1>6 DEF RequestAnswered
<1>7. CASE Commit
  BY <1>7 DEF Commit
<1>8. CASE Rebalance
  BY <1>8 DEF Rebalance, ReaderOpen
<1>9. CASE Restart
  <2>1. signalled' \in BOOLEAN /\ faulted' \in BOOLEAN
    BY <1>9, Zenon DEF Restart
  <2> QED BY <1>9, <2>1 DEF Restart
<1>10. CASE BrokerAnswers
  <2>1. TypeOK'
    <3>1. tries' \in 0 .. MaxTries
      BY <1>10 DEF BrokerAnswers, InTime
    <3> QED BY <1>10, <3>1 DEF BrokerAnswers
  <2>2. OneLife' /\ OffsetsInOrder' /\ DealtWith' /\ ListenerClosed'
    BY <1>10 DEF BrokerAnswers
  <2> QED BY <2>1, <2>2
<1> QED
  BY <1>1, <1>2, <1>3, <1>4, <1>5, <1>6, <1>7, <1>8, <1>9, <1>10 DEF Environment

(* The end of a pass of the loop. *)
LEMMA FinishKeeps ==
  ASSUME LifeInv, loop \in Busy, Finish, counts' \in [1 .. NumMessages -> Nat],
         UNCHANGED <<processVars, offsetVars>>
  PROVE  LifeInv'
<1> USE DEF processVars, mainVars, serverVars, offsetVars, LifeInv, Busy, Starting
<1>1. inHand \in 1 .. NumMessages
  BY DEF OneLife, TypeOK
<1>2. TypeOK'
  <2>1. handled' \subseteq 1 .. NumMessages
    BY <1>1 DEF TypeOK, Finish
  <2>2. loop' = "top" /\ inHand' \in 0 .. NumMessages
    BY ServiceAssumption DEF Finish
  <2> QED BY <2>1, <2>2 DEF TypeOK
<1>3. OneLife' /\ OffsetsInOrder' /\ ListenerClosed'
  BY DEF Finish, OneLife, OffsetsInOrder, ListenerClosed
<1>4. DealtWith'
  BY DEF Finish, DealtWith, OneLife
<1> QED BY <1>2, <1>3, <1>4

(* The steps of the consumer. *)
LEMMA ConsumerKeeps ==
  ASSUME LifeInv, Working \/ ReadFails, counts' \in [1 .. NumMessages -> Nat]
  PROVE  LifeInv'
<1>0. CASE AddPanics
  <2>1. main # "exited"
    BY <1>0 DEF AddPanics, LifeInv, OneLife
  <2> QED BY <1>0, <2>1, EndKeeps DEF AddPanics
<1> USE ServiceAssumption
    DEF processVars, mainVars, serverVars, offsetVars,
        LifeInv, TypeOK, OneLife, OffsetsInOrder, DealtWith, ListenerClosed, Busy, Starting
<1>1. CASE CheckDone
  BY <1>1 DEF CheckDone
<1>2. CASE ReadMessage
  BY <1>2 DEF ReadMessage
<1>3. CASE Decode /\ Dismiss
  BY <1>3, FinishKeeps DEF Decode, Dismiss
<1>4. CASE Decode /\ Proceed("antifraud")
  BY <1>4 DEF Decode, Proceed
<1>5. ASSUME NEW filter \in {"antifraud", "stoplist"},
             NEW then \in {"stoplist", "adding"}, Filter(filter, then)
      PROVE  LifeInv'
  <2>1. CASE Dismiss
    BY <1>5, <2>1, FinishKeeps DEF Filter, Dismiss
  <2>2. CASE Proceed(then)
    BY <1>5, <2>2 DEF Filter, Proceed
  <2> QED BY <1>5, <2>1, <2>2 DEF Filter
<1>6. CASE AddQuery
  BY <1>6, FinishKeeps DEF AddQuery
<1>7. CASE ReadFails
  BY <1>7 DEF ReadFails
<1> HIDE DEF LifeInv
<1> QED BY <1>0, <1>1, <1>2, <1>3, <1>4, <1>5, <1>6, <1>7 DEF Working, Decode

(* The life of the process: consumer, offsets and listener are where main  *)
(* needs them.                                                             *)
THEOREM LifeInvariant == Spec => []LifeInv
<1>1. LifeInv /\ [Next]_vars => LifeInv'
  <2> SUFFICES ASSUME LifeInv, [Next]_vars PROVE LifeInv'
    OBVIOUS
  <2>1. counts' \in [1 .. NumMessages -> Nat]
    BY CountsTyped DEF LifeInv
  <2>2. CASE Next
    BY <2>1, <2>2, MainKeeps, EnvironmentKeeps, ConsumerKeeps DEF Next
  <2>3. CASE UNCHANGED vars
    BY <2>1, <2>3
       DEF vars, processVars, mainVars, serverVars, offsetVars, consumerVars, LifeInv, TypeOK,
           OneLife, OffsetsInOrder, DealtWith, ListenerClosed, Busy, Starting, InTime
  <2> QED BY <2>2, <2>3
<1> QED BY <1>1, LifeInit, PTL DEF Spec

(* The shape of the state. *)
THEOREM TypeCorrect == Spec => []TypeOK
<1>1. LifeInv => TypeOK
  BY DEF LifeInv
<1> QED BY <1>1, LifeInvariant, PTL

(* A process that exits with 0 has answered every request it took. *)
THEOREM ExitsDrained == Spec => []DrainedCleanly
<1>1. LifeInv => DrainedCleanly
  BY DEF LifeInv, ListenerClosed, DrainedCleanly
<1> QED BY <1>1, LifeInvariant, PTL

-----------------------------------------------------------------------------
(* What is lost.                                                           *)

(* A step within a life loses nothing; the end of a life loses at most the *)
(* message in hand.                                                        *)
LEMMA LostStep ==
  ASSUME LifeInv, [Next]_vars
  PROVE  \/ ended' = ended /\ Lost' \subseteq Lost
         \/ ended' = ended + 1 /\ Lost' \subseteq Lost \cup {inHand}
<1> USE DEF LifeInv, processVars, mainVars, serverVars, offsetVars, consumerVars, Lost
<1>1. ASSUME NEW code, ProcessEnds(code)
      PROVE  ended' = ended + 1 /\ Lost' \subseteq Lost \cup {inHand}
  BY <1>1 DEF ProcessEnds
<1>2. CASE UNCHANGED <<ended, committed, handled, inHand>>
  BY <1>2
<1>3. ASSUME Finish, UNCHANGED <<ended, committed>>
      PROVE  ended' = ended /\ Lost' \subseteq Lost
  BY <1>3 DEF Finish, TypeOK
<1>4. CASE Commit \/ CloseReader
  <2>1. loop # "none" /\ committed \in Nat /\ handed \in Nat /\ committed <= handed
    BY <1>4 DEF Commit, CloseReader, ReaderOpen, OneLife, Starting, TypeOK, OffsetsInOrder
  <2>2. committed' \in {committed, handed} /\ UNCHANGED <<ended, handled, inHand>>
    BY <1>4 DEF Commit, CloseReader
  <2> QED BY <2>1, <2>2 DEF DealtWith
<1>5. CASE ReadMessage
  <2>1. inHand = 0 /\ next > committed /\ committed \in Nat /\ next \in Nat
    BY <1>5 DEF ReadMessage, OneLife, OffsetsInOrder, TypeOK, Busy
  <2>2. inHand' = next /\ UNCHANGED <<ended, handled, committed>>
    BY <1>5 DEF ReadMessage
  <2> QED BY <2>1, <2>2
<1>6. CASE Main
  BY <1>1, <1>2, <1>4, <1>6
     DEF Main, StepOn, LoadConfig, NewApp, BuildServer, AskBroker, GiveUp, BeginShutdown,
         DrainEnds, DrainTimesOut, DrainTo, Exit
<1>7. CASE Environment
  BY <1>1, <1>2, <1>4, <1>7
     DEF Environment, BrokerAnswers, Signal, ServerStarts, ServerFails, RequestArrives,
         RequestAnswered, Rebalance, Crash, Restart
<1>8. CASE Working \/ ReadFails
  BY <1>1, <1>2, <1>3, <1>5, <1>8
     DEF Working, ReadFails, CheckDone, Decode, Filter, AddQuery, AddPanics, Proceed, Dismiss
<1>9. CASE UNCHANGED vars
  BY <1>2, <1>9 DEF vars
<1> QED BY <1>6, <1>7, <1>8, <1>9 DEF Next

(* Whatever crashes, signals, faults and rebalances do, and however far    *)
(* commits are ahead, a life costs at most one message.                    *)
THEOREM AtMostOnePerLife == Spec => []LossBound
<1>1. ASSUME TypeOK PROVE IsFiniteSet(Lost) /\ Cardinality(Lost) \in Nat
  <2>1. IsFiniteSet(1 .. committed)
    BY <1>1, FS_Interval DEF TypeOK
  <2>2. IsFiniteSet(Lost)
    BY <2>1, FS_Subset DEF Lost
  <2> QED BY <2>2, FS_CardinalityType
<1>2. Init => LossBound
  <2> SUFFICES ASSUME Init PROVE LossBound
    OBVIOUS
  <2>1. Lost = {}
    BY DEF Init, Lost
  <2> QED BY <2>1, FS_EmptySet DEF Init, LossBound
<1>3. LifeInv /\ LifeInv' /\ LossBound /\ [Next]_vars => LossBound'
  <2> SUFFICES ASSUME LifeInv, LifeInv', LossBound, [Next]_vars
               PROVE  Cardinality(Lost') <= ended'
    BY DEF LossBound
  <2>1. /\ IsFiniteSet(Lost) /\ Cardinality(Lost) \in Nat /\ Cardinality(Lost) <= ended
        /\ ended \in Nat
    <3>1. TypeOK
      BY DEF LifeInv
    <3>2. ended \in Nat
      BY <3>1 DEF TypeOK
    <3> QED BY <1>1, <3>1, <3>2 DEF LossBound
  <2>2. CASE ended' = ended /\ Lost' \subseteq Lost
    <3>1. Cardinality(Lost') <= Cardinality(Lost) /\ Cardinality(Lost') \in Nat
      BY <2>1, <2>2, FS_Subset, FS_CardinalityType
    <3> QED BY <2>1, <2>2, <3>1
  <2>3. CASE ended' = ended + 1 /\ Lost' \subseteq Lost \cup {inHand}
    <3>1. /\ IsFiniteSet(Lost \cup {inHand})
          /\ Cardinality(Lost \cup {inHand}) <= Cardinality(Lost) + 1
      <4>1. /\ IsFiniteSet(Lost \cup {inHand})
            /\ Cardinality(Lost \cup {inHand}) =
                 IF inHand \in Lost THEN Cardinality(Lost) ELSE Cardinality(Lost) + 1
        BY <2>1, FS_AddElement, Zenon
      <4> QED BY <2>1, <4>1
    <3>2. /\ Cardinality(Lost') <= Cardinality(Lost \cup {inHand})
          /\ Cardinality(Lost') \in Nat /\ Cardinality(Lost \cup {inHand}) \in Nat
      BY <2>3, <3>1, FS_Subset, FS_CardinalityType
    <3> QED BY <2>1, <2>3, <3>1, <3>2
  <2> QED BY <2>2, <2>3, LostStep
<1> QED BY <1>2, <1>3, LifeInvariant, PTL DEF Spec

-----------------------------------------------------------------------------
(* What is counted again.                                                  *)

(* How often a message has been delivered to this life and counted or is   *)
(* still on its way: once for each generation of the group, and not yet in *)
(* this one if the reader has not come to it.                              *)
Deliveries(m) == counts[m] + (IF inHand = m THEN 1 ELSE 0)

DeliveryInv ==
  /\ loop = "none" => counts = NoCounts
  /\ \A m \in 1 .. NumMessages :
       Deliveries(m) <= rebalances + (IF m < next THEN 1 ELSE 0)

(* Every step keeps to it: what is read again a rebalance explains. *)
LEMMA DeliveryStep ==
  ASSUME LifeInv, DeliveryInv, [Next]_vars
  PROVE  DeliveryInv'
<1> USE ServiceAssumption
    DEF LifeInv, DeliveryInv, Deliveries, TypeOK, OneLife, OffsetsInOrder, Busy, Starting,
        processVars, mainVars, serverVars, offsetVars, consumerVars
<1>1. ASSUME NEW code, ProcessEnds(code)
      PROVE  DeliveryInv'
  BY <1>1 DEF ProcessEnds, NoCounts
<1>2. CASE UNCHANGED <<inHand, counts, next, rebalances>> /\ (loop' = "none" => loop = "none")
  BY <1>2
<1>3. CASE BrokerAnswers \/ Restart
  <2>1. main \in {"asking", "exited"}
    BY <1>3 DEF BrokerAnswers, Restart
  <2>2. counts = NoCounts /\ inHand = 0
    BY <2>1
  <2>3. counts' = NoCounts /\ inHand' = 0 /\ rebalances' \in Nat /\ next' \in Nat
    BY <1>3, <2>2 DEF BrokerAnswers, Restart
  <2>4. \A m \in 1 .. NumMessages : NoCounts[m] = 0
    BY DEF NoCounts
  <2> QED BY <2>3, <2>4
<1>4. CASE Rebalance
  BY <1>4 DEF Rebalance
<1>5. CASE ReadMessage
  BY <1>5 DEF ReadMessage
<1>6. ASSUME loop \in Busy, Dismiss, UNCHANGED <<next, rebalances>>
      PROVE  DeliveryInv'
  BY <1>6 DEF Dismiss, Finish
<1>7. CASE AddQuery
  <2>1. inHand \in 1 .. NumMessages \/ inHand = 0
    OBVIOUS
  <2> QED BY <1>7, <2>1 DEF AddQuery, Finish
<1>8. CASE Main
  BY <1>1, <1>2, <1>8
     DEF Main, StepOn, LoadConfig, NewApp, BuildServer, AskBroker, GiveUp, BeginShutdown,
         DrainEnds, DrainTimesOut, DrainTo, CloseReader, Exit
<1>9. CASE Environment
  BY <1>1, <1>2, <1>3, <1>4, <1>9
     DEF Environment, Signal, ServerStarts, ServerFails, RequestArrives, RequestAnswered,
         Commit, Crash
<1>10. CASE Working \/ ReadFails
  BY <1>1, <1>2, <1>5, <1>6, <1>7, <1>10
     DEF Working, ReadFails, CheckDone, Decode, Filter, AddPanics, Proceed
<1>11. CASE UNCHANGED vars
  BY <1>2, <1>11 DEF vars
<1> QED BY <1>8, <1>9, <1>10, <1>11 DEF Next

(* However commits, rebalances and the consumer interleave, a message is   *)
(* counted again only by a rebalance.                                      *)
THEOREM RecountedByRebalance == Spec => []CountedAgain
<1>1. Init => DeliveryInv
  BY ServiceAssumption DEF Init, DeliveryInv, Deliveries, NoCounts
<1>2. LifeInv /\ DeliveryInv => CountedAgain
  BY DEF LifeInv, TypeOK, DeliveryInv, Deliveries, CountedAgain
<1> QED BY <1>1, <1>2, DeliveryStep, LifeInvariant, PTL DEF Spec
=============================================================================
