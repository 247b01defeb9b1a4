------------------------- MODULE SseSessionProofs -------------------------
(***************************************************************************)
(* What a consumer that resumes after the last id it was handed sees over  *)
(* any number of iterators, for every log, budget, bound and schedule.     *)
(* The steps within an iterator are those of SseStreamProofs; what is new  *)
(* is the step from one iterator to the next.                              *)
(***************************************************************************)
EXTENDS SseSession, SseStreamProofs

LEMMA WithinIsNext == Within => [Next]_vars /\ UNCHANGED origin
BY DEF Within, Next, Loop, Environment

LEMMA SessionSteps ==
  [SessionNext]_sessionVars =>
    \/ [Next]_vars /\ UNCHANGED origin
    \/ Interrupted
    \/ NewIterator
BY WithinIsNext DEF SessionNext, Waiting, sessionVars

\* What an interruption leaves alone.
LEMMA InterruptedQuiet ==
  Interrupted => /\ UNCHANGED <<call, log, published, base, pos, sent, current_id, attempts,
                                backoff, buffer, delivered, slept, tries, origin>>
                 /\ pc' = "ended" /\ raised' = "GeneratorExit"
                 /\ faults < MaxFaults /\ faults' = faults + 1
BY DEF Interrupted, Fault

(* Within an iterator the arguments stay and the id only grows.            *)
LEMMA IdGrows ==
  ASSUME Ordered, [Next]_vars
  PROVE  call' = call /\ log' = log /\ current_id <= current_id'
<1> USE SseAssumption
<1>a. TypeOK /\ BlockOK /\ current_id \in Nat /\ (Reads => current_id < pos) /\ pos \in Nat
  BY DEF Ordered, TypeOK
<1>1. CASE ReceiveBlank
  <2>1. pc = "reading" /\ Dispatch(buffer, "reading", "yielded") /\ UNCHANGED <<call, log>>
    BY <1>1 DEF ReceiveBlank, Sending
  <2>2. Skips \/ Hands \/ Chokes
    BY <1>a, <2>1, DispatchCases
  <2>3. QED BY <1>a, <2>1, <2>2 DEF Skips, Hands, Chokes, Reads
<1>2. CASE SyncEof
  <2>1. pc = "reading" /\ Dispatch(buffer, "connecting", "yieldedLast") /\ UNCHANGED <<call, log>>
    BY <1>2 DEF SyncEof, MayClose
  <2>2. Skips \/ Hands \/ Chokes
    BY <1>a, <2>1, DispatchCases
  <2>3. QED BY <1>a, <2>1, <2>2 DEF Skips, Hands, Chokes, Reads
<1>3. CASE UNCHANGED <<call, log, current_id>>
  BY <1>a, <1>3
<1>4. CASE Refused \/ Dropped
  BY <1>a, <1>4, TransportErrorType DEF Refused, Dropped
<1>5. QED
  BY <1>1, <1>2, <1>3, <1>4 DEF Next, Loop, Environment, Publish, Connect, ErrorStatus, Wake,
     ReceiveField, AsyncEof, Resume, Abandon, Done, vars, server, client

-----------------------------------------------------------------------------
(* Order. *)

SessionOrdered == Ordered /\ call.last_event_id <= current_id

(* The id a consumer resumes after is not beyond what its last iterator    *)
(* had recorded, and not before anything it was handed.                    *)
LEMMA LastSeenBounds ==
  ASSUME SessionOrdered, NEW id \in 0..MaxEvents, LastSeen(id)
  PROVE  /\ id <= current_id
         /\ \A i \in DOMAIN delivered : HasId(log[delivered[i].of]) => delivered[i].of <= id
<1> USE SseAssumption
<1>a. /\ delivered \in Seq([of : 1..MaxEvents, whole : BOOLEAN])
      /\ DOMAIN delivered = 1..Len(delivered) /\ Len(delivered) \in Nat
      /\ current_id \in Nat
  BY DEF SessionOrdered, Ordered, TypeOK
<1>b. \A i \in DOMAIN delivered : delivered[i].of \in 1..MaxEvents
  BY DeliveredEntry DEF SessionOrdered, Ordered
<1>1. CASE /\ \A i \in DOMAIN delivered : ~WithId(i)
           /\ id = call.last_event_id
  BY <1>1 DEF WithId, SessionOrdered
<1>2. CASE \E i \in DOMAIN delivered :
             /\ WithId(i) /\ id = delivered[i].of
             /\ \A j \in DOMAIN delivered : i < j => ~WithId(j)
  <2>1. PICK i \in DOMAIN delivered :
               /\ WithId(i) /\ id = delivered[i].of
               /\ \A j \in DOMAIN delivered : i < j => ~WithId(j)
    BY <1>2
  <2>2. id <= current_id
    BY <2>1 DEF WithId, SessionOrdered, Ordered, NotBeyond
  <2>3. ASSUME NEW j \in DOMAIN delivered, HasId(log[delivered[j].of])
        PROVE  delivered[j].of <= id
    <3>1. WithId(j)
      BY <2>3 DEF WithId
    <3>2. ~(i < j)
      BY <2>1, <3>1
    <3>3. j < i \/ j = i
      BY <1>a, <3>2
    <3>4. CASE j < i
      BY <1>b, <2>1, <2>3, <3>4 DEF WithId, SessionOrdered, Ordered, InOrder
    <3>5. QED BY <1>b, <2>1, <3>3, <3>4
  <2>4. QED BY <2>2, <2>3
<1>3. QED BY <1>1, <1>2 DEF LastSeen

(* What a new iterator starts from.                                        *)
LEMMA NewIteratorStart ==
  ASSUME TypeOK, NewIterator
  PROVE  \E id \in 0..MaxEvents :
           /\ LastSeen(id)
           /\ call'.last_event_id = id /\ current_id' = id
           /\ call'.max_reconnect_attempts = call.max_reconnect_attempts
           /\ call'.flavour = call.flavour
           /\ call' \in [flavour : Flavours, last_event_id : ResumeIds,
                         max_reconnect_attempts : Budgets]
           /\ UNCHANGED <<log, published, base, pos, sent, faults, delivered, origin>>
           /\ pc' = "connecting" /\ buffer' = {} /\ slept' = <<>> /\ backoff' = InitialBackoff
           /\ attempts' = 0 /\ tries' = 0 /\ raised' = "none"
<1>1. PICK id \in ResumeIds :
        /\ LastSeen(id)
        /\ call' = [call EXCEPT !.last_event_id = id]
        /\ FreshIterator(id)
  BY DEF NewIterator
<1>2. call \in [flavour : Flavours, last_event_id : ResumeIds, max_reconnect_attempts : Budgets]
  BY DEF TypeOK
<1>3. /\ call'.last_event_id = id
      /\ call'.max_reconnect_attempts = call.max_reconnect_attempts
      /\ call'.flavour = call.flavour
      /\ call' \in [flavour : Flavours, last_event_id : ResumeIds,
                    max_reconnect_attempts : Budgets]
  BY <1>1, <1>2
<1>4. UNCHANGED <<log, published, base, pos, sent, faults, delivered, origin>>
  BY DEF NewIterator
<1>5. id \in 0..MaxEvents
  BY SessionAssumption
<1>6. QED BY <1>1, <1>3, <1>4, <1>5 DEF FreshIterator

LEMMA NewIteratorType == TypeOK /\ NewIterator => TypeOK'
<1> SUFFICES ASSUME TypeOK, NewIterator PROVE TypeOK'
  OBVIOUS
<1>1. PICK id \in 0..MaxEvents :
        /\ call' \in [flavour : Flavours, last_event_id : ResumeIds,
                     max_reconnect_attempts : Budgets]
        /\ current_id' = id
        /\ UNCHANGED <<log, published, base, pos, sent, faults, delivered>>
        /\ pc' = "connecting" /\ buffer' = {} /\ slept' = <<>> /\ backoff' = InitialBackoff
        /\ attempts' = 0 /\ tries' = 0 /\ raised' = "none"
  <2>1. PICK id \in 0..MaxEvents :
        /\ current_id' = id
        /\ call' \in [flavour : Flavours, last_event_id : ResumeIds,
                     max_reconnect_attempts : Budgets]
        /\ UNCHANGED <<log, published, base, pos, sent, faults, delivered, origin>>
        /\ pc' = "connecting" /\ buffer' = {} /\ slept' = <<>> /\ backoff' = InitialBackoff
        /\ attempts' = 0 /\ tries' = 0 /\ raised' = "none"
    BY NewIteratorStart, Zenon
  <2>2. QED BY <2>1
<1>2. slept' \in Seq(Nat)
  BY <1>1
<1>3. InitialBackoff \in Nat
  BY SseAssumption
<1>4. QED BY <1>1, <1>2, <1>3 DEF TypeOK

LEMMA InterruptedType == TypeOK /\ Interrupted => TypeOK'
BY InterruptedQuiet, SseAssumption DEF TypeOK

LEMMA SessionOrderedStep == SessionOrdered /\ [SessionNext]_sessionVars => SessionOrdered'
<1> SUFFICES ASSUME SessionOrdered, [SessionNext]_sessionVars PROVE SessionOrdered'
  OBVIOUS
<1> USE SseAssumption
<1>a. Ordered /\ TypeOK /\ call.last_event_id <= current_id
  BY DEF SessionOrdered, Ordered
<1>b. /\ call.last_event_id \in Nat /\ current_id \in Nat
      /\ published \in Nat /\ current_id <= published
  <2>1. call.last_event_id \in ResumeIds
    BY <1>a DEF TypeOK
  <2>2. current_id \in Nat /\ published \in Nat /\ current_id <= published
    BY <1>a DEF TypeOK, Ordered
  <2>3. call.last_event_id \in 0..MaxEvents
    BY <2>1, SessionAssumption
  <2>4. QED BY <2>2, <2>3
<1>1. CASE [Next]_vars
  <2>1. Ordered'
    BY <1>1, <1>a, OrderedStep
  <2>2. current_id' \in Nat
    BY <2>1 DEF Ordered, TypeOK
  <2>3. QED BY <1>1, <1>a, <1>b, <2>1, <2>2, IdGrows DEF SessionOrdered
<1>2. CASE Interrupted
  <2>1. TypeOK'
    BY <1>2, <1>a, InterruptedType
  <2>2. NotBeyond' /\ InOrder'
    BY <1>2, <1>a, <1>b, OrderQuiet, InterruptedQuiet
  <2>3. QED
    BY <1>2, <1>a, <2>1, <2>2, InterruptedQuiet DEF SessionOrdered, Ordered, BlockOK, Reads
<1>3. CASE NewIterator
  <2>1. PICK id \in 0..MaxEvents :
           /\ LastSeen(id)
           /\ call'.last_event_id = id /\ current_id' = id
           /\ UNCHANGED <<log, published, delivered>>
           /\ pc' = "connecting"
    BY <1>3, <1>a, NewIteratorStart
  <2>2. TypeOK'
    BY <1>3, <1>a, NewIteratorType
  <2>3. /\ id <= current_id
        /\ \A i \in DOMAIN delivered : HasId(log[delivered[i].of]) => delivered[i].of <= id
    BY <2>1, LastSeenBounds
  <2>4. NotBeyond'
    BY <2>1, <2>3 DEF NotBeyond
  <2>5. InOrder'
    BY <1>a, <2>1 DEF Ordered, InOrder
  <2>6. current_id' <= published'
    BY <1>b, <2>1, <2>3
  <2>7. QED BY <2>1, <2>2, <2>4, <2>5, <2>6 DEF SessionOrdered, Ordered, BlockOK, Reads
<1>4. QED BY <1>1, <1>2, <1>3, SessionSteps

LEMMA SessionOrderedInit == SessionInit => SessionOrdered
<1> SUFFICES ASSUME SessionInit PROVE SessionOrdered
  OBVIOUS
<1>1. Ordered
  BY OrderedInit DEF SessionInit
<1>2. current_id = call.last_event_id /\ current_id \in Nat
  BY <1>1, SseAssumption DEF SessionInit, Init, Ordered, TypeOK
<1>3. QED BY <1>1, <1>2 DEF SessionOrdered

(* However many iterators a consumer goes through, no event with an id is  *)
(* handed out twice or after a later one.                                  *)
THEOREM SessionOrder == SessionSpec => []InOrder
<1>1. SessionOrdered => InOrder BY DEF SessionOrdered, Ordered
<1>2. QED BY <1>1, SessionOrderedInit, SessionOrderedStep, PTL DEF SessionSpec

-----------------------------------------------------------------------------
(* Completeness. *)

(* Where the next iterator may start: not before the feed began, and with  *)
(* no id only while the consumer never had one.                            *)
StartOK ==
  /\ call.last_event_id = 0 \/ base <= call.last_event_id
  /\ call.last_event_id = 0 => origin = 0

HandedDeliverable == \A i \in DOMAIN delivered : Deliverable(log[delivered[i].of])

Kept == SessionOrdered /\ Complete /\ StartOK /\ HandedDeliverable

(* Within an iterator: what is handed out is the event being read, and the *)
(* start of the feed moves only while no id is held.                       *)
LEMMA HandsOrNot ==
  ASSUME Ordered, [Next]_vars
  PROVE  UNCHANGED delivered \/ Hands
<1>a. TypeOK /\ BlockOK
  BY DEF Ordered
<1>1. CASE ReceiveBlank
  <2>1. pc = "reading" /\ Dispatch(buffer, "reading", "yielded")
    BY <1>1 DEF ReceiveBlank, Sending
  <2>2. QED BY <1>a, <2>1, DispatchCases DEF Skips, Chokes
<1>2. CASE SyncEof
  <2>1. pc = "reading" /\ Dispatch(buffer, "connecting", "yieldedLast")
    BY <1>2 DEF SyncEof, MayClose
  <2>2. QED BY <1>a, <2>1, DispatchCases DEF Skips, Chokes
<1>3. CASE Refused \/ Dropped
  BY <1>a, <1>3, TransportErrorType DEF Refused, Dropped
<1>4. CASE UNCHANGED delivered
  BY <1>4
<1>5. QED
  BY <1>1, <1>2, <1>3, <1>4 DEF Next, Loop, Environment, Publish, Connect, ErrorStatus, Wake,
     ReceiveField, AsyncEof, Resume, Abandon, Done, vars, client

LEMMA BaseMoves ==
  ASSUME Ordered, [Next]_vars
  PROVE  UNCHANGED base \/ current_id = 0
BY DEF Next, Loop, Environment, Publish, Connect, OpenFrom, Refused, ErrorStatus, Wake,
       ReceiveField, ReceiveBlank, Dropped, SyncEof, AsyncEof, Resume, Abandon, Done,
       vars, server

LEMMA HandedInit == Init => HandedDeliverable
BY DEF Init, HandedDeliverable

LEMMA HandedStep ==
  ASSUME Ordered, HandedDeliverable, [Next]_vars
  PROVE  HandedDeliverable'
<1>a. TypeOK /\ log' = log
  BY IdGrows DEF Ordered
<1>1. CASE UNCHANGED delivered
  BY <1>a, <1>1 DEF HandedDeliverable
<1>2. CASE Hands
  <2> DEFINE e == [of |-> pos, whole |-> Whole(buffer, pos)]
  <2>1. /\ DOMAIN delivered = 1..Len(delivered) /\ Len(delivered) \in Nat
        /\ DOMAIN delivered' = 1..Len(delivered) + 1
        /\ \A i \in DOMAIN delivered : delivered'[i] = delivered[i]
        /\ delivered'[Len(delivered) + 1] = e
    BY <1>a, <1>2, Appended DEF Hands
  <2>2. e.of = pos /\ Deliverable(log[pos])
    BY <1>2 DEF Hands
  <2>3. \A i \in DOMAIN delivered' : i \in DOMAIN delivered \/ i = Len(delivered) + 1
    BY <2>1
  <2> HIDE DEF e
  <2>4. QED BY <1>a, <2>1, <2>2, <2>3 DEF HandedDeliverable
<1>3. QED BY <1>1, <1>2, HandsOrNot

(* A new iterator starts within what was handed out, and not before the    *)
(* feed did.                                                               *)
LEMMA KeptRestarts ==
  ASSUME Kept, NewIterator, Ordered'
  PROVE  Complete' /\ StartOK' /\ HandedDeliverable'
<1>1. PICK id \in 0..MaxEvents :
        /\ LastSeen(id)
        /\ call'.last_event_id = id /\ current_id' = id
        /\ UNCHANGED <<log, base, delivered, origin>>
        /\ pc' = "connecting"
  <2>1. TypeOK
    BY DEF Kept, Complete, Ordered
  <2>2. PICK id \in 0..MaxEvents :
           /\ LastSeen(id)
           /\ call'.last_event_id = id /\ current_id' = id
           /\ call'.max_reconnect_attempts = call.max_reconnect_attempts
           /\ call'.flavour = call.flavour
           /\ call' \in [flavour : Flavours, last_event_id : ResumeIds,
                         max_reconnect_attempts : Budgets]
           /\ UNCHANGED <<log, published, base, pos, sent, faults, delivered, origin>>
           /\ pc' = "connecting" /\ buffer' = {} /\ slept' = <<>> /\ backoff' = InitialBackoff
           /\ attempts' = 0 /\ tries' = 0 /\ raised' = "none"
    BY <2>1, NewIteratorStart, Zenon
  <2>3. QED BY <2>2
<1>2. id <= current_id /\ current_id \in Nat /\ base \in Nat
  <2>1. id <= current_id
    BY <1>1, LastSeenBounds DEF Kept
  <2>2. QED BY <2>1 DEF Kept, Complete, Ordered, TypeOK
<1>3. (id = 0 \/ base <= id) /\ (id = 0 => origin = 0)
  <2>1. CASE id = call.last_event_id
    BY <2>1 DEF Kept, StartOK
  <2>2. CASE \E i \in DOMAIN delivered : WithId(i) /\ id = delivered[i].of
    <3>1. PICK i \in DOMAIN delivered : WithId(i) /\ id = delivered[i].of
      BY <2>2
    <3>2. log[id] = "attestation"
      BY <3>1 DEF WithId, Kept, HandedDeliverable, Deliverable, HasId
    <3>3. base < id
      BY <3>1, <3>2 DEF Kept, Complete, SinceBase
    <3>4. QED BY <1>2, <3>3
  <2>3. QED BY <1>1, <2>1, <2>2 DEF LastSeen
<1>4. StartOK' /\ HandedDeliverable'
  BY <1>1, <1>3 DEF StartOK, HandedDeliverable, Kept
<1>5. NoLoss'
  <2>1. \A p \in 1..MaxEvents : Delivered(p)' <=> Delivered(p)
    BY <1>1 DEF Delivered
  <2>2. QED BY <1>1, <1>2, <2>1 DEF Kept, Complete, NoLoss
<1>6. DeliveredWhole' /\ SinceBase'
  BY <1>1 DEF Kept, Complete, DeliveredWhole, SinceBase
<1>7. QED BY <1>1, <1>3, <1>4, <1>5, <1>6 DEF Complete, Reads

LEMMA KeptInit == SessionInit => Kept
<1> SUFFICES ASSUME SessionInit PROVE Kept
  OBVIOUS
<1>1. SessionOrdered /\ Complete /\ HandedDeliverable
  BY SessionOrderedInit, CompleteInit, HandedInit DEF SessionInit
<1>2. base = call.last_event_id /\ origin = call.last_event_id /\ base \in Nat
  BY <1>1 DEF SessionInit, Init, SessionOrdered, Ordered, TypeOK
<1>3. QED BY <1>1, <1>2 DEF Kept, StartOK

LEMMA KeptStep ==
  ASSUME Polite
  PROVE  Kept /\ [SessionNext]_sessionVars => Kept'
<1> SUFFICES ASSUME Kept, [SessionNext]_sessionVars PROVE Kept'
  OBVIOUS
<1>a. Ordered /\ SessionOrdered' /\ Ordered'
  BY SessionOrderedStep DEF Kept, SessionOrdered
<1>1. CASE [Next]_vars /\ UNCHANGED origin
  <2>1. Complete' /\ HandedDeliverable'
    BY <1>1, <1>a, CompleteStep, HandedStep DEF Kept
  <2>2. call' = call /\ (UNCHANGED base \/ current_id = 0)
    BY <1>1, <1>a, IdGrows, BaseMoves
  <2>3. current_id = 0 => call.last_event_id = 0
    BY DEF Kept, Complete
  <2>4. StartOK'
    BY <1>1, <2>2, <2>3 DEF Kept, StartOK
  <2>5. QED BY <1>a, <2>1, <2>4 DEF Kept
<1>2. CASE Interrupted
  <2>1. /\ UNCHANGED <<call, log, base, delivered, current_id, origin>>
        /\ pc' = "ended"
    BY <1>2, InterruptedQuiet
  <2>2. Rest'
    BY <2>1, RestQuiet DEF Kept
  <2>3. QED
    BY <1>a, <2>1, <2>2 DEF Kept, Complete, Rest, Reads, StartOK, HandedDeliverable
<1>3. CASE NewIterator
  BY <1>3, <1>a, KeptRestarts DEF Kept
<1>4. QED BY <1>1, <1>2, <1>3, SessionSteps

(* Nothing up to the id that will be replayed was skipped, whoever ended   *)
(* the iterators before this one.                                          *)
THEOREM SessionNothingLost ==
  ASSUME Polite
  PROVE  SessionSpec => []NoLoss
<1>1. Kept /\ [SessionNext]_sessionVars => Kept' BY KeptStep
<1>2. Kept => NoLoss BY DEF Kept, Complete
<1>3. QED BY <1>1, <1>2, KeptInit, PTL DEF SessionSpec

-----------------------------------------------------------------------------
(* Refinement. *)

LEMMA SessionFeedStep ==
  ASSUME Polite
  PROVE  Kept /\ [SessionNext]_sessionVars => [SessionFeed!FeedNext]_(SessionFeed!feed)
<1> SUFFICES ASSUME Kept, [SessionNext]_sessionVars
             PROVE  SessionFeed!FeedNext \/ UNCHANGED <<origin, log, published, base, delivered>>
  BY DEF SessionFeed!feed
<1>1. CASE [Next]_vars /\ UNCHANGED origin
  <2>1. Complete /\ Ordered
    BY DEF Kept, Complete
  <2>2. [Feed!FeedNext]_(Feed!feed)
    BY <1>1, <2>1, FeedStep
  <2>3. CASE UNCHANGED Feed!feed
    BY <1>1, <2>3 DEF Feed!feed
  <2>4. CASE Feed!FeedPublish
    BY <1>1, <2>4 DEF Feed!FeedPublish, SessionFeed!FeedNext, SessionFeed!FeedPublish
  <2>5. CASE Feed!Begin
    <3>1. origin = 0
      BY <2>5 DEF Feed!Begin, Kept, StartOK
    <3>2. QED
      BY <1>1, <2>5, <3>1 DEF Feed!Begin, Feed!Got, Feed!Attestations, SessionFeed!FeedNext,
         SessionFeed!Begin, SessionFeed!Got, SessionFeed!Attestations
  <2>6. ASSUME NEW p \in 1..MaxEvents, Feed!HandHeartbeat(p)
        PROVE  SessionFeed!FeedNext
    <3>1. SessionFeed!HandHeartbeat(p)
      BY <1>1, <2>6 DEF Feed!HandHeartbeat, Feed!Hand, SessionFeed!HandHeartbeat, SessionFeed!Hand
    <3>2. QED BY <3>1 DEF SessionFeed!FeedNext
  <2>7. ASSUME NEW p \in 1..MaxEvents, Feed!HandAttestation(p)
        PROVE  SessionFeed!FeedNext
    <3>1. SessionFeed!HandAttestation(p)
      BY <1>1, <2>7 DEF Feed!HandAttestation, Feed!Hand, Feed!Got, Feed!Attestations,
         SessionFeed!HandAttestation, SessionFeed!Hand, SessionFeed!Got, SessionFeed!Attestations
    <3>2. QED BY <3>1 DEF SessionFeed!FeedNext
  <2>8. QED BY <2>2, <2>3, <2>4, <2>5, <2>6, <2>7 DEF Feed!FeedNext
<1>2. CASE Interrupted
  BY <1>2, InterruptedQuiet
<1>3. CASE NewIterator
  BY <1>3 DEF NewIterator
<1>4. QED BY <1>1, <1>2, <1>3, SessionSteps

LEMMA SessionFeedStart == SessionInit => SessionFeed!FeedInit
BY SessionAssumption DEF SessionInit, Init, SessionFeed!FeedInit

(* A consumer that resumes after the last id it was handed sees the feed   *)
(* that has neither connections nor iterators, for every log and budget    *)
(* and every way its iterators may end.                                    *)
THEOREM SessionFollowsFeed ==
  ASSUME Polite
  PROVE  SessionSpec => SessionImplementsFeed
<1>1. Kept /\ [SessionNext]_sessionVars => Kept' BY KeptStep
<1>2. Kept /\ [SessionNext]_sessionVars => [SessionFeed!FeedNext]_(SessionFeed!feed)
  BY SessionFeedStep
<1>3. QED
  BY <1>1, <1>2, KeptInit, SessionFeedStart, PTL
  DEF SessionSpec, SessionImplementsFeed, SessionFeed!FeedSpec

-----------------------------------------------------------------------------
(* Events of an unlisted name. *)

\* No event between the start of the feed and position n bears one.
ClearTo(n) == \A q \in 1..MaxEvents : base < q /\ q <= n => log[q] # "unmodelled"

ClearRead == \A q \in 1..MaxEvents : base < q /\ q < pos => log[q] # "unmodelled"

NoneSeen == \A i \in DOMAIN delivered : ~WithId(i)

(* An iterator at work has met none; one that met one has ended, and what  *)
(* the consumer resumes after lies before it.                              *)
Clear ==
  /\ SessionOrdered
  /\ HandedDeliverable
  /\ pc # "ended" => ClearTo(current_id)
  /\ Reads => ClearRead
  /\ UnmodelledIsNotSkipped
  /\ NoneSeen /\ call.last_event_id # 0 => base = call.last_event_id

LEMMA ClearInit == SessionInit => Clear
<1> SUFFICES ASSUME SessionInit PROVE Clear
  OBVIOUS
<1>1. SessionOrdered /\ HandedDeliverable
  BY SessionOrderedInit, HandedInit DEF SessionInit
<1>2. /\ base = current_id /\ base = call.last_event_id /\ pc = "connecting"
      /\ DOMAIN delivered = {} /\ base \in Nat
  BY <1>1 DEF SessionInit, Init, SessionOrdered, Ordered, TypeOK
<1>3. ClearTo(current_id)
  BY <1>2 DEF ClearTo
<1>4. UnmodelledIsNotSkipped
  BY <1>2 DEF UnmodelledIsNotSkipped, WithId
<1>5. QED BY <1>1, <1>2, <1>3, <1>4 DEF Clear, Reads

(* A step that hands out nothing, moves no id and reads no further.        *)
LEMMA ClearQuiet ==
  ASSUME Clear, SessionOrdered', HandedDeliverable',
         UNCHANGED <<call, log, base, current_id, delivered>>,
         pc' # "ended" => pc # "ended", Reads' => Reads /\ pos' = pos
  PROVE  Clear'
<1>1. (pc # "ended" => ClearTo(current_id))' /\ (Reads => ClearRead)'
  BY DEF Clear, ClearTo, ClearRead
<1>2. UnmodelledIsNotSkipped'
  BY DEF Clear, UnmodelledIsNotSkipped, WithId
<1>3. (NoneSeen /\ call.last_event_id # 0 => base = call.last_event_id)'
  BY DEF Clear, NoneSeen, WithId
<1>4. QED BY <1>1, <1>2, <1>3 DEF Clear

(* An event of an unlisted name has data, so that a whole one is not       *)
(* skipped for having none.                                                *)
LEMMA UnmodelledHasData ==
  ASSUME TypeOK, NEW p \in 1..MaxEvents, log[p] = "unmodelled"
  PROVE  DataOf(Wire(p, Len(Fields(log[p])))) # {}
<1>1. Fields(log[p]) = <<"event", "id", "data", "rest">>
  BY DEF Fields
<1>2. Len(Fields(log[p])) = 4 /\ Fields(log[p])[3] = "data"
  BY <1>1
<1>3. 3 \in 1..4
  OBVIOUS
<1>4. Line(p, "data") \in Wire(p, Len(Fields(log[p])))
  BY <1>2, <1>3, Zenon DEF Wire
<1>5. Line(p, "data").field \in {"data", "rest"}
  BY DEF Line
<1>6. QED BY <1>4, <1>5 DEF DataOf

(* Handing out the event at pos, everything before it being clear.         *)
LEMMA ClearHands ==
  ASSUME Clear, pc = "reading", Hands, SessionOrdered', HandedDeliverable',
         UNCHANGED <<call, log, base>>, Reads' => pos' = pos + 1
  PROVE  Clear'
<1> DEFINE e == [of |-> pos, whole |-> Whole(buffer, pos)]
<1>a. TypeOK /\ TypeOK' /\ HandedDeliverable
  BY DEF Clear, SessionOrdered, Ordered
<1>b. pos \in Nat /\ pos' \in Nat /\ base \in Nat /\ current_id \in Nat /\ current_id < pos
  BY <1>a DEF TypeOK, Clear, SessionOrdered, Ordered, Reads
<1>1. /\ DOMAIN delivered = 1..Len(delivered) /\ Len(delivered) \in Nat
      /\ DOMAIN delivered' = 1..Len(delivered) + 1
      /\ \A i \in DOMAIN delivered : delivered'[i] = delivered[i]
      /\ delivered'[Len(delivered) + 1] = e
  BY <1>a, Appended DEF Hands
<1>2. ClearRead /\ ClearTo(current_id)
  BY DEF Clear, Reads
<1>3. \A q \in 1..MaxEvents : base < q /\ q <= pos => log[q] # "unmodelled"
  <2> SUFFICES ASSUME NEW q \in 1..MaxEvents, base < q, q <= pos
               PROVE  log[q] # "unmodelled"
    OBVIOUS
  <2>1. CASE q = pos
    BY <2>1 DEF Hands, Deliverable
  <2>2. CASE q < pos
    BY <1>2, <2>2 DEF ClearRead
  <2>3. QED BY <1>b, <2>1, <2>2
<1>4. current_id' \in {current_id, pos}
  BY DEF Hands
<1>5. ClearTo(current_id)' /\ (Reads => ClearRead)'
  BY <1>b, <1>3, <1>4 DEF ClearTo, ClearRead
<1>6. UnmodelledIsNotSkipped'
  <2> SUFFICES ASSUME NEW i \in DOMAIN delivered', NEW q \in 1..MaxEvents, WithId(i)',
                      base < q, q < delivered'[i].of
               PROVE  log[q] # "unmodelled"
    BY DEF UnmodelledIsNotSkipped, WithId
  <2>1. CASE i \in DOMAIN delivered
    <3>1. delivered'[i] = delivered[i]
      BY <1>1, <2>1
    <3>2. WithId(i)
      BY <2>1, <3>1 DEF WithId
    <3>3. UnmodelledIsNotSkipped /\ q < delivered[i].of
      BY <3>1 DEF Clear
    <3>4. QED BY <2>1, <3>2, <3>3, Zenon DEF UnmodelledIsNotSkipped
  <2>2. CASE i = Len(delivered) + 1
    <3>1. delivered'[i].of = pos
      BY <1>1, <2>2
    <3>2. q < pos
      BY <3>1
    <3>3. q <= pos
      BY <1>b, <3>2
    <3>4. QED BY <1>3, <3>3
  <2>3. QED BY <1>1, <2>1, <2>2
<1>7. (NoneSeen /\ call.last_event_id # 0 => base = call.last_event_id)'
  <2>1. NoneSeen' => NoneSeen
    BY <1>1 DEF NoneSeen, WithId
  <2>2. QED BY <2>1 DEF Clear
<1>8. QED BY <1>5, <1>6, <1>7 DEF Clear

(* A step of the iterator.                                                 *)
LEMMA ClearWithin ==
  ASSUME Clear, [Next]_vars, SessionOrdered', HandedDeliverable'
  PROVE  Clear'
<1> USE DEF server, client
<1>a. /\ Ordered /\ TypeOK /\ BlockOK
      /\ call' = call /\ log' = log
  BY IdGrows DEF Clear, SessionOrdered, Ordered
<1>b. /\ current_id \in Nat /\ base \in Nat /\ pos \in Nat
      /\ call.last_event_id \in Nat /\ call.last_event_id <= current_id
  <2>1. call.last_event_id \in 0..MaxEvents
    BY <1>a, SessionAssumption DEF TypeOK
  <2>2. QED BY <1>a, <2>1 DEF TypeOK, Clear, SessionOrdered
<1>1. CASE Publish \/ Wake \/ ReceiveField \/ Resume \/ Done \/ UNCHANGED vars
  <2>1. UNCHANGED <<base, current_id, delivered, pos>>
    BY <1>1 DEF Publish, Wake, ReceiveField, Resume, Done, vars
  <2>2. (pc' # "ended" => pc # "ended") /\ (Reads' => Reads)
    BY <1>1 DEF Publish, Wake, ReceiveField, Sending, Resume, Done, vars, Reads
  <2>3. QED BY <1>a, <2>1, <2>2, ClearQuiet
<1>2. CASE Refused \/ Dropped \/ ErrorStatus \/ AsyncEof \/ Abandon
  <2>1. CASE Refused \/ Dropped
    <3>1. UNCHANGED <<base, current_id, delivered, pos>> /\ pc' \in {"sleeping", "ended"}
      BY <1>a, <2>1, TransportErrorType DEF Refused, Dropped
    <3>2. (pc' # "ended" => pc # "ended") /\ ~Reads'
      BY <2>1, <3>1 DEF Refused, Dropped, Reads
    <3>3. QED BY <1>a, <3>1, <3>2, ClearQuiet
  <2>2. CASE ErrorStatus \/ AsyncEof \/ Abandon
    <3>1. UNCHANGED <<base, current_id, delivered, pos>>
      BY <2>2 DEF ErrorStatus, AsyncEof, Abandon
    <3>2. (pc' # "ended" => pc # "ended") /\ ~Reads'
      BY <2>2 DEF ErrorStatus, AsyncEof, MayClose, Abandon, Reads
    <3>3. QED BY <1>a, <3>1, <3>2, ClearQuiet
  <2>3. QED BY <1>2, <2>1, <2>2
<1>3. CASE Connect
  <2>1. /\ UNCHANGED <<current_id, delivered>>
        /\ pc = "connecting" /\ ClearTo(current_id)
    BY <1>3 DEF Connect, Clear
  <2>2. CASE current_id # 0
    <3>1. base' = base /\ pos' = current_id + 1
      BY <1>3, <2>2 DEF Connect, OpenFrom
    <3>2. ClearTo(current_id)' /\ ClearRead'
      BY <1>a, <1>b, <2>1, <3>1 DEF ClearTo, ClearRead
    <3>3. UnmodelledIsNotSkipped'
      BY <1>a, <2>1, <3>1 DEF Clear, UnmodelledIsNotSkipped, WithId
    <3>4. (NoneSeen /\ call.last_event_id # 0 => base = call.last_event_id)'
      BY <1>a, <2>1, <3>1 DEF Clear, NoneSeen, WithId
    <3>5. QED BY <3>2, <3>3, <3>4 DEF Clear
  <2>3. CASE current_id = 0
    <3>1. PICK b \in 0..published : base' = b /\ pos' = b + 1
      BY <1>3, <2>3 DEF Connect, OpenFrom
    <3>2. ClearTo(current_id)' /\ ClearRead'
      BY <2>1, <2>3, <3>1 DEF ClearTo, ClearRead
    <3>3. \A i \in DOMAIN delivered : ~HasId(log[delivered[i].of])
      <4>1. \A i \in DOMAIN delivered : delivered[i].of \in 1..MaxEvents
        BY <1>a, DeliveredEntry
      <4>2. QED BY <1>a, <2>3, <4>1 DEF Ordered, NotBeyond
    <3>4. UnmodelledIsNotSkipped'
      BY <1>a, <2>1, <3>3 DEF UnmodelledIsNotSkipped, WithId
    <3>5. call.last_event_id = 0
      BY <1>b, <2>3
    <3>6. QED BY <1>a, <3>2, <3>4, <3>5 DEF Clear
  <2>4. QED BY <2>2, <2>3
<1>4. CASE ReceiveBlank
  <2>1. pc = "reading" /\ Dispatch(buffer, "reading", "yielded")
    BY <1>4 DEF ReceiveBlank, Sending
  <2>2. \/ DataOf(buffer) = {} /\ Skips /\ pc' = "reading"
        \/ DataOf(buffer) # {} /\ Hands /\ pc' = "yielded"
        \/ DataOf(buffer) # {} /\ Chokes /\ pc' = "ended"
    BY <1>a, <2>1, DispatchCases
  <2>3. /\ UNCHANGED <<log, base>> /\ pos' = pos + 1 /\ pos \in 1..MaxEvents
        /\ buffer = Wire(pos, Len(Fields(log[pos])))
    <3>1. /\ UNCHANGED <<log, base>> /\ pos' = pos + 1 /\ sent = Len(Fields(log[pos]))
          /\ pos <= published
      BY <1>4 DEF ReceiveBlank, Sending
    <3>2. pos \in 1..MaxEvents
      BY <1>a, <2>1, <3>1, SseAssumption DEF TypeOK
    <3>3. buffer = Wire(pos, sent)
      BY <1>a, <2>1 DEF BlockOK
    <3>4. QED BY <3>1, <3>2, <3>3
  <2>4. CASE DataOf(buffer) = {} /\ Skips /\ pc' = "reading"
    <3>1. log[pos] # "unmodelled"
      BY <1>a, <2>3, <2>4, UnmodelledHasData
    <3>2. ClearRead /\ ClearTo(current_id)
      BY <2>1 DEF Clear, Reads
    <3>3. ClearRead' /\ ClearTo(current_id)'
      BY <1>b, <2>3, <2>4, <3>1, <3>2 DEF Skips, ClearRead, ClearTo
    <3>4. UnmodelledIsNotSkipped'
      BY <2>3, <2>4 DEF Skips, Clear, UnmodelledIsNotSkipped, WithId
    <3>5. (NoneSeen /\ call.last_event_id # 0 => base = call.last_event_id)'
      BY <1>a, <2>3, <2>4 DEF Skips, Clear, NoneSeen, WithId
    <3>6. QED BY <3>3, <3>4, <3>5 DEF Clear
  <2>5. CASE Hands
    BY <1>a, <2>1, <2>3, <2>5, ClearHands
  <2>6. CASE Chokes /\ pc' = "ended"
    <3>1. UnmodelledIsNotSkipped'
      BY <2>3, <2>6 DEF Chokes, Clear, UnmodelledIsNotSkipped, WithId
    <3>2. (NoneSeen /\ call.last_event_id # 0 => base = call.last_event_id)'
      BY <1>a, <2>3, <2>6 DEF Chokes, Clear, NoneSeen, WithId
    <3>3. QED BY <2>6, <3>1, <3>2 DEF Clear, Reads
  <2>7. QED BY <2>2, <2>4, <2>5, <2>6
<1>5. CASE SyncEof
  <2>1. pc = "reading" /\ Dispatch(buffer, "connecting", "yieldedLast")
    BY <1>5 DEF SyncEof, MayClose
  <2>2. \/ Skips /\ pc' = "connecting"
        \/ Hands /\ pc' = "yieldedLast"
        \/ Chokes /\ pc' = "ended"
    BY <1>a, <2>1, DispatchCases
  <2>3. UNCHANGED <<log, base>>
    BY <1>5 DEF SyncEof
  <2>4. CASE Skips /\ pc' = "connecting"
    BY <1>a, <2>1, <2>3, <2>4, ClearQuiet DEF Skips, Reads
  <2>5. CASE Hands /\ pc' = "yieldedLast"
    BY <1>a, <2>1, <2>3, <2>5, ClearHands DEF Reads
  <2>6. CASE Chokes /\ pc' = "ended"
    <3>1. UnmodelledIsNotSkipped'
      BY <2>3, <2>6 DEF Chokes, Clear, UnmodelledIsNotSkipped, WithId
    <3>2. (NoneSeen /\ call.last_event_id # 0 => base = call.last_event_id)'
      BY <1>a, <2>3, <2>6 DEF Chokes, Clear, NoneSeen, WithId
    <3>3. QED BY <2>6, <3>1, <3>2 DEF Clear, Reads
  <2>7. QED BY <2>2, <2>4, <2>5, <2>6
<1>6. QED
  BY <1>1, <1>2, <1>3, <1>4, <1>5 DEF Next, Loop, Environment

(* A new iterator starts before the event that ended the last one.         *)
LEMMA ClearRestarts ==
  ASSUME Clear, NewIterator, SessionOrdered', HandedDeliverable'
  PROVE  Clear'
<1>1. PICK id \in 0..MaxEvents :
        /\ LastSeen(id)
        /\ call'.last_event_id = id /\ current_id' = id
        /\ UNCHANGED <<log, base, delivered>>
        /\ pc' = "connecting"
  <2>1. TypeOK
    BY DEF Clear, SessionOrdered, Ordered
  <2>2. PICK id \in 0..MaxEvents :
           /\ LastSeen(id)
           /\ call'.last_event_id = id /\ current_id' = id
           /\ call'.max_reconnect_attempts = call.max_reconnect_attempts
           /\ call'.flavour = call.flavour
           /\ call' \in [flavour : Flavours, last_event_id : ResumeIds,
                         max_reconnect_attempts : Budgets]
           /\ UNCHANGED <<log, published, base, pos, sent, faults, delivered, origin>>
           /\ pc' = "connecting" /\ buffer' = {} /\ slept' = <<>> /\ backoff' = InitialBackoff
           /\ attempts' = 0 /\ tries' = 0 /\ raised' = "none"
    BY <2>1, NewIteratorStart, Zenon
  <2>3. QED BY <2>2
<1>2. \A i : WithId(i)' <=> WithId(i)
  BY <1>1 DEF WithId
<1>3. UnmodelledIsNotSkipped'
  BY <1>1, <1>2 DEF Clear, UnmodelledIsNotSkipped
<1>4. CASE NoneSeen /\ id = call.last_event_id
  <2>1. id # 0 => base = id
    BY <1>4 DEF Clear
  <2>2. ClearTo(current_id)'
    <3>1. base \in Nat
      BY DEF Clear, SessionOrdered, Ordered, TypeOK
    <3>2. QED BY <1>1, <2>1, <3>1 DEF ClearTo
  <2>3. QED BY <1>1, <1>3, <2>1, <2>2 DEF Clear, Reads
<1>5. CASE \E i \in DOMAIN delivered : WithId(i) /\ id = delivered[i].of
  <2>1. PICK i \in DOMAIN delivered : WithId(i) /\ id = delivered[i].of
    BY <1>5
  <2>2. log[id] # "unmodelled"
    BY <2>1 DEF Clear, HandedDeliverable, Deliverable
  <2>3. \A q \in 1..MaxEvents : base < q /\ q < id => log[q] # "unmodelled"
    BY <2>1 DEF Clear, UnmodelledIsNotSkipped
  <2>4. ClearTo(current_id)'
    BY <1>1, <2>2, <2>3 DEF ClearTo
  <2>5. ~NoneSeen'
    BY <1>1, <1>2, <2>1 DEF NoneSeen
  <2>6. QED BY <1>1, <1>3, <2>4, <2>5 DEF Clear, Reads
<1>6. QED BY <1>1, <1>4, <1>5 DEF LastSeen, NoneSeen

LEMMA ClearStep == Clear /\ [SessionNext]_sessionVars => Clear'
<1> SUFFICES ASSUME Clear, [SessionNext]_sessionVars PROVE Clear'
  OBVIOUS
<1>a. Ordered /\ SessionOrdered' /\ HandedDeliverable
  BY SessionOrderedStep DEF Clear, SessionOrdered
<1>1. CASE [Next]_vars
  BY <1>1, <1>a, HandedStep, ClearWithin
<1>2. CASE Interrupted
  <2>1. /\ UNCHANGED <<call, log, base, current_id, delivered>>
        /\ pc' = "ended"
    BY <1>2, InterruptedQuiet
  <2>2. HandedDeliverable'
    BY <1>a, <2>1 DEF HandedDeliverable
  <2>3. QED BY <1>a, <2>1, <2>2, ClearQuiet DEF Reads
<1>3. CASE NewIterator
  <2>1. HandedDeliverable'
    BY <1>3, <1>a DEF NewIterator, HandedDeliverable
  <2>2. QED BY <1>3, <1>a, <2>1, ClearRestarts
<1>4. QED BY <1>1, <1>2, <1>3, SessionSteps

(* No iterator passes over an event of a name StreamEvent does not list,   *)
(* for every log and however the server closes its responses.              *)
THEOREM SessionStopsAtUnmodelled == SessionSpec => []UnmodelledIsNotSkipped
<1>1. Clear => UnmodelledIsNotSkipped BY DEF Clear
<1>2. QED BY <1>1, ClearInit, ClearStep, PTL DEF SessionSpec
=============================================================================
