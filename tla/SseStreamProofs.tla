-------------------------- MODULE SseStreamProofs --------------------------
(***************************************************************************)
(* What holds of stream_attestations() for every log, every budget, every  *)
(* bound and every schedule of connections, cuts and closes.               *)
(***************************************************************************)
EXTENDS SseStream, TLAPS

FieldNames == {"event", "id", "data", "rest"}

\* The block made of the first n lines of the event at p.
Wire(p, n) == {Line(p, Fields(log[p])[j]) : j \in 1..n}

(* What an event looks like on the wire: at most four lines, each a field. *)
LEMMA FieldsType ==
  ASSUME NEW kind \in Kinds
  PROVE  /\ Fields(kind) \in Seq(FieldNames)
         /\ Len(Fields(kind)) \in 0..4
         /\ \A j \in 1..Len(Fields(kind)) : Fields(kind)[j] \in FieldNames
<1>1. CASE kind = "attestation" BY <1>1 DEF Fields, FieldNames
<1>2. CASE kind = "unmodelled" BY <1>2 DEF Fields, FieldNames
<1>3. CASE kind = "heartbeat" BY <1>3 DEF Fields, FieldNames
<1>4. CASE kind = "idOnly" BY <1>4 DEF Fields, FieldNames
<1>5. CASE kind = "keepalive" BY <1>5 DEF Fields, FieldNames
<1>6. QED BY <1>1, <1>2, <1>3, <1>4, <1>5 DEF Kinds

LEMMA EntryType ==
  ASSUME NEW S, NEW s \in Seq(S), NEW i \in DOMAIN s
  PROVE  s[i] \in S
OBVIOUS

LEMMA AppendType ==
  ASSUME NEW S, NEW s \in Seq(S), NEW e \in S
  PROVE  Append(s, e) \in Seq(S)
OBVIOUS

(* Dispatch yields an event of the block or none, records an id of the     *)
(* block or keeps the one held, and goes on in one of three places.        *)
LEMMA DispatchEffect ==
  ASSUME TypeOK, NEW idle, NEW suspended,
         Dispatch(buffer, idle, suspended)
  PROVE  /\ current_id' \in 0..MaxEvents
         /\ delivered' \in Seq([of : 1..MaxEvents, whole : BOOLEAN])
         /\ raised' \in {raised, "ValidationError"}
         /\ pc' \in {idle, suspended, "ended"}
<1>1. \A l \in buffer : l.of \in 1..MaxEvents
  BY DEF TypeOK
<1>2. CASE /\ DataOf(buffer) = {}
           /\ pc' = idle
           /\ UNCHANGED <<current_id, delivered, raised>>
  BY <1>2 DEF TypeOK
<1>3. CASE DataOf(buffer) # {} /\ ~(DataOf(buffer) = {})
  <2>1. current_id' \in 0..MaxEvents
    <3>1. \A q \in IdsOf(buffer) : q \in 0..MaxEvents
      BY <1>1 DEF IdsOf
    <3>2. QED BY <3>1, <1>3 DEF Dispatch, TypeOK
  <2>2. PICK l \in DataOf(buffer) :
          \/ /\ Named(buffer)
             /\ delivered' = Append(delivered, [of |-> l.of, whole |-> Whole(buffer, l.of)])
             /\ pc' = suspended
             /\ UNCHANGED raised
          \/ /\ ~Named(buffer)
             /\ pc' = "ended" /\ raised' = "ValidationError"
             /\ UNCHANGED delivered
    BY <1>3 DEF Dispatch
  <2>3. [of |-> l.of, whole |-> Whole(buffer, l.of)] \in [of : 1..MaxEvents, whole : BOOLEAN]
    BY <1>1 DEF DataOf, Whole
  <2>4. delivered' \in Seq([of : 1..MaxEvents, whole : BOOLEAN])
    <3>1. delivered \in Seq([of : 1..MaxEvents, whole : BOOLEAN])
      BY DEF TypeOK
    <3>2. CASE delivered' = Append(delivered, [of |-> l.of, whole |-> Whole(buffer, l.of)])
      BY <3>1, <3>2, <2>3, AppendType
    <3>3. CASE delivered' = delivered
      BY <3>1, <3>3
    <3>4. QED BY <2>2, <3>2, <3>3
  <2>5. QED BY <2>1, <2>2, <2>4
<1>4. QED BY <1>2, <1>3 DEF Dispatch

-----------------------------------------------------------------------------
(* Types. *)

(* TypeOK is an invariant of the specification: each action, and what      *)
(* Dispatch and OnTransportError do for it, keeps every variable in range. *)
LEMMA TypeInit == Init => TypeOK
<1> SUFFICES ASSUME Init PROVE TypeOK
  OBVIOUS
<1> USE SseAssumption DEF Init
<1>1. call.last_event_id \in 0..MaxEvents
  OBVIOUS
<1>2. delivered \in Seq([of : 1..MaxEvents, whole : BOOLEAN]) /\ slept \in Seq(Nat)
  OBVIOUS
<1>3. QED BY <1>1, <1>2 DEF TypeOK

LEMMA TransportErrorType ==
  ASSUME TypeOK, OnTransportError
  PROVE  /\ attempts' \in Nat /\ backoff' \in Nat /\ slept' \in Seq(Nat)
         /\ pc' \in {"sleeping", "ended"}
         /\ raised' \in {raised, "TransportError"}
         /\ current_id' = current_id /\ buffer' = buffer /\ delivered' = delivered
<1> USE SseAssumption
<1>1. Min2(backoff, MaxBackoff) \in Nat /\ Min2(2 * backoff, MaxBackoff) \in Nat
  BY DEF Min2, TypeOK
<1>2. attempts' \in Nat
  BY DEF TypeOK, OnTransportError
<1>3. slept \in Seq(Nat) /\ backoff \in Nat
  BY DEF TypeOK
<1>4. CASE UNCHANGED <<backoff, slept>>
  <2>1. pc' = "ended" \/ pc' = "sleeping"
    BY DEF OnTransportError
  <2>2. raised' = raised \/ raised' = "TransportError"
    BY DEF OnTransportError
  <2>3. QED BY <1>2, <1>3, <1>4, <2>1, <2>2 DEF OnTransportError
<1>5. CASE /\ slept' = Append(slept, Min2(backoff, MaxBackoff))
           /\ backoff' = Min2(2 * backoff, MaxBackoff)
           /\ pc' = "sleeping" /\ UNCHANGED raised
  BY <1>1, <1>2, <1>3, <1>5, AppendType DEF OnTransportError
<1>6. QED BY <1>4, <1>5 DEF OnTransportError

LEMMA TypeStep == TypeOK /\ [Next]_vars => TypeOK'
<1> SUFFICES ASSUME TypeOK, [Next]_vars PROVE TypeOK'
  OBVIOUS
<1> USE SseAssumption
<1> USE DEF server, client
<1>1. CASE Publish
  BY <1>1 DEF Publish, TypeOK
<1>2. CASE Connect
  <2>1. base' \in 0..MaxEvents /\ pos' \in 0..MaxEvents + 1 /\ pos' > 0
    BY <1>2 DEF Connect, OpenFrom, TypeOK
  <2>2. slept' \in Seq(Nat) /\ buffer' = {}
    BY <1>2 DEF Connect
  <2>3. QED BY <1>2, <2>1, <2>2 DEF Connect, TypeOK
<1>3. CASE Refused
  <2>1. OnTransportError
    BY <1>3 DEF Refused
  <2>2. faults' \in 0..MaxFaults /\ tries' \in Nat
    BY <1>3 DEF Refused, Fault, TypeOK
  <2>3. QED BY <1>3, <2>1, <2>2, TransportErrorType DEF Refused, TypeOK
<1>4. CASE ErrorStatus
  BY <1>4 DEF ErrorStatus, Fault, TypeOK
<1>5. CASE Wake
  BY <1>5 DEF Wake, TypeOK
<1>6. CASE ReceiveField
  <2>1. pos \in 1..MaxEvents
    BY <1>6 DEF ReceiveField, Sending, TypeOK
  <2>2. log[pos] \in Kinds
    BY <2>1 DEF TypeOK
  <2>3. sent \in 0..4 /\ sent < Len(Fields(log[pos]))
    BY <1>6 DEF ReceiveField, TypeOK
  <2>4. sent + 1 \in 1..Len(Fields(log[pos])) /\ sent' \in 0..4
    BY <1>6, <2>2, <2>3, FieldsType DEF ReceiveField
  <2>5. Fields(log[pos])[sent + 1] \in FieldNames
    BY <2>2, <2>4, FieldsType
  <2>6. buffer' \subseteq [of : 1..MaxEvents, field : {"event", "id", "data", "rest"}]
    BY <1>6, <2>1, <2>5 DEF ReceiveField, Line, FieldNames, TypeOK
  <2>7. QED BY <1>6, <2>4, <2>6 DEF ReceiveField, TypeOK
<1>7. CASE ReceiveBlank
  <2>1. Dispatch(buffer, "reading", "yielded")
    BY <1>7 DEF ReceiveBlank
  <2>2. /\ pos' \in 0..MaxEvents + 1 /\ pos' > 0 /\ sent' \in 0..4
        /\ buffer' \subseteq [of : 1..MaxEvents, field : {"event", "id", "data", "rest"}]
    BY <1>7 DEF ReceiveBlank, Sending, TypeOK
  <2>3. /\ pc' \in {"reading", "yielded", "ended"}
        /\ raised' \in {"none", "TransportError", "ResponseNotRead", "ValidationError",
                       "GeneratorExit"}
    BY <2>1, DispatchEffect DEF TypeOK
  <2>4. /\ current_id' \in 0..MaxEvents
        /\ delivered' \in Seq([of : 1..MaxEvents, whole : BOOLEAN])
    BY <2>1, DispatchEffect
  <2>5. QED BY <1>7, <2>2, <2>3, <2>4 DEF ReceiveBlank, TypeOK
<1>8. CASE Dropped
  <2>1. OnTransportError
    BY <1>8 DEF Dropped
  <2>2. faults' \in 0..MaxFaults
    BY <1>8 DEF Dropped, Fault, TypeOK
  <2>3. QED BY <1>8, <2>1, <2>2, TransportErrorType DEF Dropped, TypeOK
<1>9. CASE SyncEof
  <2>1. Dispatch(buffer, "connecting", "yieldedLast")
    BY <1>9 DEF SyncEof
  <2>2. faults' \in 0..MaxFaults
    BY <1>9 DEF SyncEof, MayClose, Fault, TypeOK
  <2>3. /\ pc' \in {"connecting", "yieldedLast", "ended"}
        /\ raised' \in {"none", "TransportError", "ResponseNotRead", "ValidationError",
                       "GeneratorExit"}
    BY <2>1, DispatchEffect DEF TypeOK
  <2>4. /\ current_id' \in 0..MaxEvents
        /\ delivered' \in Seq([of : 1..MaxEvents, whole : BOOLEAN])
    BY <2>1, DispatchEffect
  <2>5. QED BY <1>9, <2>2, <2>3, <2>4 DEF SyncEof, TypeOK
<1>10. CASE AsyncEof
  BY <1>10 DEF AsyncEof, MayClose, Fault, TypeOK
<1>11. CASE Resume
  BY <1>11 DEF Resume, TypeOK
<1>12. CASE Abandon
  BY <1>12 DEF Abandon, TypeOK
<1>13. CASE Done \/ UNCHANGED vars
  BY <1>13 DEF Done, vars, TypeOK
<1>14. QED
  BY <1>1, <1>2, <1>3, <1>4, <1>5, <1>6, <1>7, <1>8, <1>9, <1>10, <1>11, <1>12, <1>13
  DEF Next, Loop, Environment

(* TypeOK holds of every behaviour of the stream, whatever the budget, the *)
(* kinds of event and the closes of the server.                            *)
THEOREM TypeCorrect == Spec => []TypeOK
<1>1. Init => TypeOK BY TypeInit
<1>2. TypeOK /\ [Next]_vars => TypeOK' BY TypeStep
<1>3. QED BY <1>1, <1>2, PTL DEF Spec

-----------------------------------------------------------------------------
(* Blocks. *)

(* While lines are read, and while the consumer holds an event, the buffer *)
(* is what this connection has sent of the event at pos, and nothing else. *)
BlockOK ==
  pc \in {"reading", "yielded"} =>
    /\ buffer = Wire(pos, sent)
    /\ pos <= published + 1
    /\ sent # 0 => pos <= published /\ sent <= Len(Fields(log[pos]))

(* A block that is part of an event tells its position, has its id once it *)
(* has any of its data, and has the name of its kind.                      *)
LEMMA WireBlock ==
  ASSUME TypeOK, NEW p \in 1..MaxEvents, NEW n \in Nat, n <= Len(Fields(log[p])),
         DataOf(Wire(p, n)) # {}
  PROVE  /\ \A l \in DataOf(Wire(p, n)) : l.of = p
         /\ IdsOf(Wire(p, n)) = IF HasId(log[p]) THEN {p} ELSE {}
         /\ Named(Wire(p, n)) <=> Deliverable(log[p])
         /\ log[p] \in {"attestation", "unmodelled", "heartbeat"}
<1> USE SseAssumption
<1>1. log[p] \in Kinds
  BY DEF TypeOK
<1>2. \A l \in Wire(p, n) : l.of = p
  BY DEF Wire, Line
<1>3. PICK j \in 1..n : Fields(log[p])[j] \in {"data", "rest"}
  BY DEF DataOf, Wire, Line
<1>4. log[p] \in {"attestation", "unmodelled", "heartbeat"}
  <2>1. CASE log[p] = "keepalive"
    BY <2>1, <1>3 DEF Fields
  <2>2. CASE log[p] = "idOnly"
    <3>1. j \in 1..2
      BY <2>2, <1>3 DEF Fields
    <3>2. QED BY <2>2, <3>1, <1>3 DEF Fields
  <2>3. QED BY <1>1, <2>1, <2>2 DEF Kinds
<1>5. Line(p, "event") \in Wire(p, n)
  <2>1. Fields(log[p])[1] = "event"
    BY <1>4 DEF Fields
  <2>2. QED BY <2>1, <1>3 DEF Wire
<1>6. IdsOf(Wire(p, n)) = IF HasId(log[p]) THEN {p} ELSE {}
  <2>1. CASE HasId(log[p])
    <3>1. /\ log[p] \in {"attestation", "unmodelled"}
          /\ Fields(log[p]) = <<"event", "id", "data", "rest">>
      BY <2>1, <1>4 DEF HasId, Fields
    <3>2. j # 1 /\ Fields(log[p])[2] = "id"
      BY <3>1, <1>3
    <3>3. Line(p, "id") \in Wire(p, n)
      BY <3>2, <1>3 DEF Wire
    <3>4. QED BY <2>1, <3>3, <1>2 DEF IdsOf, Line
  <2>2. CASE ~HasId(log[p])
    <3>1. Fields(log[p]) = <<"event", "data", "rest">>
      BY <2>2, <1>4 DEF HasId, Fields
    <3>2. \A l \in Wire(p, n) : l.field # "id"
      BY <3>1 DEF Wire, Line
    <3>3. QED BY <2>2, <3>2 DEF IdsOf
  <2>3. QED BY <2>1, <2>2
<1>7. Named(Wire(p, n)) <=> Deliverable(log[p])
  BY <1>2, <1>5 DEF Named, Line
<1>8. QED BY <1>2, <1>4, <1>6, <1>7 DEF DataOf

(* A whole event with data gives a whole block.                            *)
LEMMA WholeBlock ==
  ASSUME TypeOK, NEW p \in 1..MaxEvents, Deliverable(log[p])
  PROVE  /\ DataOf(Wire(p, Len(Fields(log[p])))) # {}
         /\ Whole(Wire(p, Len(Fields(log[p]))), p)
<1> DEFINE W == Wire(p, Len(Fields(log[p])))
<1>1. \E j, k \in 1..Len(Fields(log[p])) :
        Fields(log[p])[j] = "data" /\ Fields(log[p])[k] = "rest"
  <2>1. CASE log[p] = "attestation"
    <3>1. Fields(log[p]) = <<"event", "id", "data", "rest">>
      BY <2>1 DEF Fields
    <3>2. Len(Fields(log[p])) = 4 /\ Fields(log[p])[3] = "data" /\ Fields(log[p])[4] = "rest"
      BY <3>1
    <3>3. 3 \in 1..4 /\ 4 \in 1..4
      OBVIOUS
    <3>4. QED BY <3>2, <3>3, Zenon
  <2>2. CASE log[p] = "heartbeat"
    <3>1. Fields(log[p]) = <<"event", "data", "rest">>
      BY <2>2 DEF Fields
    <3>2. Len(Fields(log[p])) = 3 /\ Fields(log[p])[2] = "data" /\ Fields(log[p])[3] = "rest"
      BY <3>1
    <3>3. 2 \in 1..3 /\ 3 \in 1..3
      OBVIOUS
    <3>4. QED BY <3>2, <3>3, Zenon
  <2>3. QED BY <2>1, <2>2 DEF Deliverable
<1>2. Line(p, "data") \in W /\ Line(p, "rest") \in W
  BY <1>1 DEF Wire
<1>3. \A l \in W : l = Line(p, l.field)
  BY DEF Wire, Line
<1>4. Line(p, "data").field = "data" /\ Line(p, "rest").field = "rest"
  BY DEF Line
<1>5. DataOf(W) = {Line(p, "data"), Line(p, "rest")}
  <2> HIDE DEF W
  <2> QED BY <1>2, <1>3, <1>4 DEF DataOf
<1>6. QED BY <1>5 DEF Whole

(* What Dispatch does with a block that is part of the event at pos.       *)
Skips == UNCHANGED <<current_id, delivered>>

Hands ==
  /\ pos \in 1..MaxEvents /\ pos <= published
  /\ Deliverable(log[pos])
  /\ current_id' = IF HasId(log[pos]) THEN pos ELSE current_id
  /\ delivered' = Append(delivered, [of |-> pos, whole |-> Whole(buffer, pos)])

Chokes ==
  /\ pos \in 1..MaxEvents /\ pos <= published
  /\ ~Deliverable(log[pos])
  /\ current_id' = pos
  /\ UNCHANGED delivered

LEMMA DispatchCases ==
  ASSUME TypeOK, BlockOK, pc = "reading", NEW idle, NEW suspended,
         Dispatch(buffer, idle, suspended)
  PROVE  \/ DataOf(buffer) = {} /\ Skips /\ pc' = idle
         \/ DataOf(buffer) # {} /\ Hands /\ pc' = suspended
         \/ DataOf(buffer) # {} /\ Chokes /\ pc' = "ended"
<1> USE SseAssumption
<1>1. CASE DataOf(buffer) = {}
  BY <1>1 DEF Dispatch, Skips
<1>2. CASE DataOf(buffer) # {}
  <2>1. buffer = Wire(pos, sent)
    BY DEF BlockOK
  <2>2. sent # 0
    BY <1>2, <2>1 DEF Wire, DataOf, TypeOK
  <2>3. pos \in 1..MaxEvents /\ pos <= published /\ sent \in Nat /\ sent <= Len(Fields(log[pos]))
    BY <2>2 DEF BlockOK, TypeOK
  <2>4. /\ \A l \in DataOf(buffer) : l.of = pos
        /\ IdsOf(buffer) = IF HasId(log[pos]) THEN {pos} ELSE {}
        /\ Named(buffer) <=> Deliverable(log[pos])
        /\ log[pos] \in {"attestation", "unmodelled", "heartbeat"}
    BY <1>2, <2>1, <2>3, WireBlock
  <2>5. current_id' = IF HasId(log[pos]) THEN pos ELSE current_id
    BY <1>2, <2>4 DEF Dispatch
  <2>6. PICK l \in DataOf(buffer) :
          \/ /\ Named(buffer)
             /\ delivered' = Append(delivered, [of |-> l.of, whole |-> Whole(buffer, l.of)])
             /\ pc' = suspended
             /\ UNCHANGED raised
          \/ /\ ~Named(buffer)
             /\ pc' = "ended" /\ raised' = "ValidationError"
             /\ UNCHANGED delivered
    BY <1>2 DEF Dispatch
  <2>7. l.of = pos
    BY <2>4, <2>6
  <2>8. CASE Named(buffer)
    BY <1>2, <2>3, <2>4, <2>5, <2>6, <2>7, <2>8 DEF Hands
  <2>9. CASE ~Named(buffer)
    <3>1. log[pos] = "unmodelled"
      BY <2>4, <2>9 DEF Deliverable
    <3>2. current_id' = pos
      BY <2>5, <3>1 DEF HasId
    <3>3. QED BY <1>2, <2>3, <2>4, <2>6, <2>9, <3>2 DEF Chokes
  <2>10. QED BY <2>8, <2>9
<1>3. QED BY <1>1, <1>2

-----------------------------------------------------------------------------
(* Order. *)

(* InOrder is not inductive: it needs that what is read lies beyond the id *)
(* replayed, and that nothing given to the consumer does.                  *)
Reads == pc \in {"reading", "yielded"}

NotBeyond ==
  \A i \in DOMAIN delivered :
    HasId(log[delivered[i].of]) => delivered[i].of <= current_id

Ordered ==
  /\ TypeOK
  /\ BlockOK
  /\ current_id <= published
  /\ Reads => current_id < pos
  /\ NotBeyond
  /\ InOrder

LEMMA DeliveredEntry ==
  ASSUME TypeOK, NEW i \in DOMAIN delivered
  PROVE  delivered[i] \in [of : 1..MaxEvents, whole : BOOLEAN] /\ delivered[i].of \in 1..MaxEvents
<1>1. delivered \in Seq([of : 1..MaxEvents, whole : BOOLEAN])
  BY DEF TypeOK
<1>2. delivered[i] \in [of : 1..MaxEvents, whole : BOOLEAN]
  BY <1>1, EntryType
<1>3. QED BY <1>2

(* What an Append does to the history.                                     *)
LEMMA Appended ==
  ASSUME TypeOK, NEW e, delivered' = Append(delivered, e)
  PROVE  /\ DOMAIN delivered = 1..Len(delivered) /\ Len(delivered) \in Nat
         /\ DOMAIN delivered' = 1..Len(delivered) + 1
         /\ \A i \in DOMAIN delivered : delivered'[i] = delivered[i]
         /\ delivered'[Len(delivered) + 1] = e
<1>1. delivered \in Seq([of : 1..MaxEvents, whole : BOOLEAN])
  BY DEF TypeOK
<1>2. QED BY <1>1

(* A step that hands nothing out and moves no id keeps the order.          *)
LEMMA OrderQuiet ==
  ASSUME Ordered, UNCHANGED <<log, delivered>>, current_id' \in Nat, current_id <= current_id'
  PROVE  NotBeyond' /\ InOrder'
<1>1. NotBeyond'
  <2>1. \A i \in DOMAIN delivered : delivered[i].of \in 1..MaxEvents
    BY DeliveredEntry DEF Ordered
  <2>2. current_id \in Nat
    BY DEF Ordered, TypeOK
  <2>3. QED BY <2>1, <2>2 DEF Ordered, NotBeyond
<1>2. InOrder'
  BY DEF Ordered, InOrder
<1>3. QED BY <1>1, <1>2

(* Handing out the event being read keeps it.                              *)
LEMMA OrderHands ==
  ASSUME Ordered, TypeOK', pc = "reading", Hands, log' = log
  PROVE  NotBeyond' /\ InOrder'
<1> DEFINE e == [of |-> pos, whole |-> Whole(buffer, pos)]
<1>1. /\ DOMAIN delivered = 1..Len(delivered) /\ Len(delivered) \in Nat
      /\ DOMAIN delivered' = 1..Len(delivered) + 1
      /\ \A i \in DOMAIN delivered : delivered'[i] = delivered[i]
      /\ delivered'[Len(delivered) + 1] = e
  BY Appended DEF Ordered, Hands
<1>2. \A i \in DOMAIN delivered : delivered[i].of \in 1..MaxEvents
  BY DeliveredEntry DEF Ordered
<1>3. pos \in Nat /\ current_id \in Nat /\ current_id < pos
  BY DEF Ordered, TypeOK, Reads
<1>4. current_id' = IF HasId(log[pos]) THEN pos ELSE current_id
  BY DEF Hands
<1>5. \A i \in DOMAIN delivered : HasId(log[delivered[i].of]) => delivered[i].of <= current_id
  BY DEF Ordered, NotBeyond
<1>6. NotBeyond'
  <2> SUFFICES ASSUME NEW i \in DOMAIN delivered', HasId(log[delivered'[i].of])
               PROVE  delivered'[i].of <= current_id'
    BY DEF NotBeyond
  <2>1. CASE i \in DOMAIN delivered
    BY <2>1, <1>1, <1>2, <1>3, <1>4, <1>5
  <2>2. CASE i = Len(delivered) + 1
    BY <2>2, <1>1, <1>3, <1>4
  <2>3. QED BY <2>1, <2>2, <1>1
<1>7. InOrder'
  <2> SUFFICES ASSUME NEW i \in DOMAIN delivered', NEW j \in DOMAIN delivered', i < j,
                      HasId(log[delivered'[i].of]), HasId(log[delivered'[j].of])
               PROVE  delivered'[i].of < delivered'[j].of
    BY DEF InOrder
  <2>1. i \in DOMAIN delivered
    BY <1>1
  <2>2. CASE j \in DOMAIN delivered
    BY <2>1, <2>2, <1>1 DEF Ordered, InOrder
  <2>3. CASE j = Len(delivered) + 1
    BY <2>1, <2>3, <1>1, <1>2, <1>3, <1>5
  <2>4. QED BY <2>2, <2>3, <1>1
<1>8. QED BY <1>6, <1>7

LEMMA OrderedInit == Init => Ordered
<1> SUFFICES ASSUME Init PROVE Ordered
  OBVIOUS
<1>1. TypeOK
  BY TypeInit
<1>2. DOMAIN delivered = {}
  BY DEF Init
<1>3. NotBeyond /\ InOrder
  BY <1>2 DEF NotBeyond, InOrder
<1>4. current_id <= published
  BY <1>1 DEF Init, TypeOK
<1>5. pc = "connecting"
  BY DEF Init
<1>6. QED BY <1>1, <1>3, <1>4, <1>5 DEF Ordered, BlockOK, Reads

LEMMA OrderedStep == Ordered /\ [Next]_vars => Ordered'
<1> SUFFICES ASSUME Ordered, [Next]_vars PROVE Ordered'
  OBVIOUS
<1> USE SseAssumption
<1> USE DEF server, client
<1>a. TypeOK /\ TypeOK'
  BY TypeStep DEF Ordered
<1>b. /\ current_id \in Nat /\ current_id' \in Nat /\ published \in Nat /\ published' \in Nat
      /\ pos \in Nat /\ pos' \in Nat /\ sent \in Nat /\ current_id <= published
  BY <1>a DEF TypeOK, Ordered
<1>1. CASE Publish
  <2>1. NotBeyond' /\ InOrder'
    BY <1>1, <1>b, OrderQuiet DEF Publish
  <2>2. BlockOK'
    BY <1>1, <1>b DEF Publish, Ordered, BlockOK, Wire
  <2>3. QED BY <1>1, <1>a, <1>b, <2>1, <2>2 DEF Publish, Ordered, Reads
<1>2. CASE Connect
  <2>1. NotBeyond' /\ InOrder'
    BY <1>2, <1>b, OrderQuiet DEF Connect
  <2>2. buffer' = {} /\ sent' = 0 /\ Wire(pos, sent)' = {}
    BY <1>2 DEF Connect, Wire
  <2>3. pos' <= published + 1 /\ current_id < pos'
    BY <1>2, <1>b DEF Connect, OpenFrom
  <2>4. QED BY <1>2, <1>a, <1>b, <2>1, <2>2, <2>3 DEF Connect, Ordered, BlockOK, Reads
<1>3. CASE Refused \/ Dropped
  <2>1. /\ pc' \in {"sleeping", "ended"}
        /\ UNCHANGED <<log, delivered, current_id, published>>
    BY <1>3, <1>a, TransportErrorType DEF Refused, Dropped
  <2>2. NotBeyond' /\ InOrder'
    BY <1>b, <2>1, OrderQuiet
  <2>3. QED BY <1>a, <1>b, <2>1, <2>2 DEF Ordered, BlockOK, Reads
<1>4. CASE ErrorStatus \/ Wake \/ AsyncEof \/ Abandon
  <2>1. /\ pc' \in {"connecting", "ended"}
        /\ UNCHANGED <<log, delivered, current_id, published>>
    BY <1>4 DEF ErrorStatus, Wake, AsyncEof, Abandon
  <2>2. NotBeyond' /\ InOrder'
    BY <1>b, <2>1, OrderQuiet
  <2>3. QED BY <1>a, <1>b, <2>1, <2>2 DEF Ordered, BlockOK, Reads
<1>5. CASE ReceiveField
  <2>1. NotBeyond' /\ InOrder'
    BY <1>5, <1>b, OrderQuiet DEF ReceiveField
  <2>2. buffer = Wire(pos, sent) /\ pos <= published + 1 /\ current_id < pos
    BY <1>5 DEF ReceiveField, Sending, Ordered, BlockOK, Reads
  <2>3. buffer' = Wire(pos, sent + 1)
    <3>1. \A j \in 1..sent + 1 : j \in 1..sent \/ j = sent + 1
      BY <1>b
    <3>2. QED BY <1>5, <1>b, <2>2, <3>1 DEF ReceiveField, Wire
  <2>4. sent' <= Len(Fields(log[pos])) /\ pos <= published
    <3>1. pos \in 1..MaxEvents
      BY <1>5, <1>a DEF ReceiveField, Sending, TypeOK
    <3>2. Len(Fields(log[pos])) \in 0..4
      BY <3>1, <1>a, FieldsType DEF TypeOK
    <3>3. QED BY <1>5, <1>b, <3>2 DEF ReceiveField, Sending
  <2>5. BlockOK'
    BY <1>5, <1>b, <2>2, <2>3, <2>4 DEF ReceiveField, BlockOK, Wire
  <2>6. QED BY <1>5, <1>a, <1>b, <2>1, <2>2, <2>5 DEF ReceiveField, Ordered, Reads
<1>6. CASE ReceiveBlank
  <2>1. pc = "reading" /\ BlockOK /\ Dispatch(buffer, "reading", "yielded")
    BY <1>6 DEF ReceiveBlank, Sending, Ordered
  <2>2. \/ DataOf(buffer) = {} /\ Skips /\ pc' = "reading"
        \/ DataOf(buffer) # {} /\ Hands /\ pc' = "yielded"
        \/ DataOf(buffer) # {} /\ Chokes /\ pc' = "ended"
    BY <1>a, <2>1, DispatchCases
  <2>3. /\ UNCHANGED <<log, published>> /\ buffer' = {} /\ sent' = 0 /\ pos' = pos + 1
        /\ pos <= published /\ current_id < pos
    BY <1>6, <2>1 DEF ReceiveBlank, Sending, Ordered, Reads
  <2>4. BlockOK'
    BY <2>3, <1>b DEF BlockOK, Wire
  <2>5. current_id' \in {current_id, pos}
    BY <2>2 DEF Skips, Hands, Chokes
  <2>6. NotBeyond' /\ InOrder'
    <3>1. CASE Hands
      BY <1>a, <2>1, <2>3, <3>1, OrderHands
    <3>2. CASE UNCHANGED delivered
      BY <1>b, <2>3, <2>5, <3>2, OrderQuiet
    <3>3. QED BY <2>2, <3>1, <3>2 DEF Skips, Chokes
  <2>7. current_id' <= published' /\ current_id' < pos'
    BY <1>b, <2>3, <2>5
  <2>8. QED BY <1>a, <2>4, <2>6, <2>7 DEF Ordered
<1>7. CASE SyncEof
  <2>1. pc = "reading" /\ BlockOK /\ Dispatch(buffer, "connecting", "yieldedLast")
    BY <1>7 DEF SyncEof, MayClose, Ordered
  <2>2. \/ DataOf(buffer) = {} /\ Skips /\ pc' = "connecting"
        \/ DataOf(buffer) # {} /\ Hands /\ pc' = "yieldedLast"
        \/ DataOf(buffer) # {} /\ Chokes /\ pc' = "ended"
    BY <1>a, <2>1, DispatchCases
  <2>3. UNCHANGED <<log, published>> /\ current_id < pos
    BY <1>7, <2>1 DEF SyncEof, Ordered, Reads
  <2>4. NotBeyond' /\ InOrder'
    <3>1. CASE Hands
      BY <1>a, <2>1, <2>3, <3>1, OrderHands
    <3>2. CASE UNCHANGED delivered
      BY <1>b, <2>2, <2>3, <3>2, OrderQuiet DEF Skips, Hands, Chokes
    <3>3. QED BY <2>2, <3>1, <3>2 DEF Skips, Chokes
  <2>5. current_id' <= published' /\ pc' \in {"connecting", "yieldedLast", "ended"}
    BY <1>b, <2>2, <2>3 DEF Skips, Hands, Chokes
  <2>6. QED BY <1>a, <2>4, <2>5 DEF Ordered, BlockOK, Reads
<1>8. CASE Resume
  <2>1. NotBeyond' /\ InOrder'
    BY <1>8, <1>b, OrderQuiet DEF Resume
  <2>2. BlockOK'
    BY <1>8 DEF Resume, Ordered, BlockOK, Wire
  <2>3. QED BY <1>8, <1>a, <1>b, <2>1, <2>2 DEF Resume, Ordered, Reads
<1>9. CASE Done \/ UNCHANGED vars
  <2>1. NotBeyond' /\ InOrder'
    BY <1>9, <1>b, OrderQuiet DEF Done, vars
  <2>2. BlockOK'
    BY <1>9 DEF Done, vars, Ordered, BlockOK, Wire
  <2>3. QED BY <1>9, <1>a, <1>b, <2>1, <2>2 DEF Done, vars, Ordered, Reads
<1>10. QED
  BY <1>1, <1>2, <1>3, <1>4, <1>5, <1>6, <1>7, <1>8, <1>9 DEF Next, Loop, Environment

(* No event with an id is handed out twice or late, for every log, every   *)
(* schedule of faults and every way the server may close a response.       *)
THEOREM OrderCorrect == Spec => []InOrder
<1>1. Ordered => InOrder BY DEF Ordered
<1>2. QED BY <1>1, OrderedInit, OrderedStep, PTL DEF Spec

-----------------------------------------------------------------------------
(* Completeness. *)

\* No response to the sync client is closed in good order inside an event.
Polite == CleanCloses["sync"] # "anywhere"

(* NoLoss is not inductive either: it needs that everything between the    *)
(* start of the feed and the event being read was handed out.  The last    *)
(* two conjuncts are for the refinement.                                   *)
ReadUpTo ==
  \A p \in 1..MaxEvents : base < p /\ p < pos /\ Deliverable(log[p]) => Delivered(p)

SinceBase ==
  \A i \in DOMAIN delivered :
    log[delivered[i].of] = "attestation" => base < delivered[i].of

Complete ==
  /\ Ordered
  /\ current_id = 0 \/ base <= current_id
  /\ Reads => base < pos /\ ReadUpTo
  /\ NoLoss
  /\ DeliveredWhole
  /\ SinceBase
  /\ current_id = 0 => call.last_event_id = 0

(* What Complete says that Ordered does not, as a step must restore it.    *)
Rest == NoLoss /\ DeliveredWhole /\ SinceBase

LEMMA RestQuiet ==
  ASSUME Complete, UNCHANGED <<log, delivered, base, current_id>>
  PROVE  Rest'
<1>1. NoLoss'
  BY DEF Complete, NoLoss, Delivered
<1>2. DeliveredWhole' /\ SinceBase'
  BY DEF Complete, DeliveredWhole, SinceBase
<1>3. QED BY <1>1, <1>2 DEF Rest

(* Handing out a whole event completes everything up to it.                *)
LEMMA RestHands ==
  ASSUME Complete, pc = "reading", Hands, Whole(buffer, pos), UNCHANGED <<log, base>>
  PROVE  Rest' /\ (\A p \in 1..MaxEvents :
                     base < p /\ p <= pos /\ Deliverable(log[p]) => Delivered(p)')
<1> DEFINE e == [of |-> pos, whole |-> TRUE]
<1>1. TypeOK /\ delivered' = Append(delivered, e)
  BY DEF Complete, Ordered, Hands
<1>2. /\ DOMAIN delivered = 1..Len(delivered) /\ Len(delivered) \in Nat
      /\ DOMAIN delivered' = 1..Len(delivered) + 1
      /\ \A i \in DOMAIN delivered : delivered'[i] = delivered[i]
      /\ delivered'[Len(delivered) + 1] = e
  BY <1>1, Appended
<1>3. \A i \in DOMAIN delivered' : i \in DOMAIN delivered \/ delivered'[i] = e
  BY <1>2
<1>4. pos \in Nat /\ base \in Nat /\ current_id \in Nat /\ current_id < pos /\ base < pos /\ ReadUpTo
  BY <1>1 DEF TypeOK, Complete, Ordered, Reads
<1>5. \A p \in 1..MaxEvents : Delivered(p) \/ p = pos => Delivered(p)'
  <2> SUFFICES ASSUME NEW p \in 1..MaxEvents, Delivered(p) \/ p = pos
               PROVE  \E i \in DOMAIN delivered' : delivered'[i] = [of |-> p, whole |-> TRUE]
    BY DEF Delivered
  <2>1. CASE Delivered(p)
    <3>1. PICK i \in DOMAIN delivered : delivered[i] = [of |-> p, whole |-> TRUE]
      BY <2>1 DEF Delivered
    <3>2. delivered'[i] = [of |-> p, whole |-> TRUE]
      BY <1>2, <3>1
    <3>3. i \in DOMAIN delivered'
      BY <1>2
    <3>4. QED BY <3>2, <3>3, Zenon
  <2>2. CASE p = pos
    <3>1. Len(delivered) + 1 \in DOMAIN delivered'
      BY <1>2
    <3>2. QED BY <1>2, <2>2, <3>1
  <2>3. QED BY <2>1, <2>2
<1>6. \A p \in 1..MaxEvents : base < p /\ p <= pos /\ Deliverable(log[p]) => Delivered(p)'
  BY <1>4, <1>5 DEF ReadUpTo
<1>7. current_id' <= pos /\ current_id' \in Nat
  BY <1>4 DEF Hands
<1>8. NoLoss'
  BY <1>4, <1>6, <1>7 DEF NoLoss
<1>9. DeliveredWhole'
  BY <1>2, <1>3 DEF Complete, DeliveredWhole
<1>10. SinceBase'
  BY <1>2, <1>3, <1>4 DEF Complete, SinceBase
<1>11. QED BY <1>6, <1>8, <1>9, <1>10 DEF Rest

LEMMA CompleteInit == Init => Complete
<1> SUFFICES ASSUME Init PROVE Complete
  OBVIOUS
<1>1. Ordered
  BY OrderedInit
<1>2. DOMAIN delivered = {} /\ pc = "connecting" /\ base = current_id /\ current_id = call.last_event_id
  BY DEF Init
<1>3. base \in Nat
  BY <1>1 DEF Ordered, TypeOK
<1>4. NoLoss
  BY <1>2, <1>3 DEF NoLoss
<1>5. DeliveredWhole /\ SinceBase
  BY <1>2 DEF DeliveredWhole, SinceBase
<1>6. QED BY <1>1, <1>2, <1>3, <1>4, <1>5 DEF Complete, Reads

LEMMA CompleteStep ==
  ASSUME Polite
  PROVE  Complete /\ [Next]_vars => Complete'
<1> SUFFICES ASSUME Complete, [Next]_vars PROVE Complete'
  OBVIOUS
<1> USE SseAssumption
<1> USE DEF server, client
<1>a. Ordered /\ Ordered' /\ TypeOK /\ TypeOK' /\ call' = call
  <2>1. Ordered /\ Ordered'
    BY OrderedStep DEF Complete
  <2>2. call' = call
    BY DEF Next, Loop, Environment, Publish, Connect, Refused, ErrorStatus, Wake, ReceiveField,
           ReceiveBlank, Dropped, SyncEof, AsyncEof, Resume, Abandon, Done, vars
  <2>3. QED BY <2>1, <2>2 DEF Ordered
<1>b. /\ current_id \in Nat /\ current_id' \in Nat /\ base \in Nat /\ base' \in Nat
      /\ pos \in Nat /\ pos' \in Nat
  BY <1>a DEF TypeOK
<1>1. CASE Publish \/ Wake \/ ReceiveField \/ Resume \/ Done \/ UNCHANGED vars
  <2>1. /\ UNCHANGED <<log, delivered, base, current_id, pos>>
        /\ Reads' => Reads
    BY <1>1 DEF Publish, Wake, ReceiveField, Sending, Resume, Done, vars, Reads
  <2>2. Rest'
    BY <2>1, RestQuiet
  <2>3. Reads' => (base < pos /\ ReadUpTo)'
    BY <2>1 DEF Complete, ReadUpTo, Delivered
  <2>4. QED BY <1>a, <2>1, <2>2, <2>3 DEF Complete, Rest
<1>2. CASE Refused \/ Dropped \/ ErrorStatus \/ AsyncEof \/ Abandon
  <2>1. /\ UNCHANGED <<log, delivered, base, current_id>>
        /\ ~Reads'
    <3>1. CASE Refused \/ Dropped
      BY <1>a, <3>1, TransportErrorType DEF Refused, Dropped, Reads
    <3>2. CASE ErrorStatus \/ AsyncEof \/ Abandon
      BY <3>2 DEF ErrorStatus, AsyncEof, Abandon, Reads
    <3>3. QED BY <1>2, <3>1, <3>2
  <2>2. Rest'
    BY <2>1, RestQuiet
  <2>3. QED BY <1>a, <2>1, <2>2 DEF Complete, Rest
<1>3. CASE Connect
  <2>1. UNCHANGED <<log, delivered, current_id>>
    BY <1>3 DEF Connect
  <2>2. CASE current_id # 0
    <3>1. base' = base /\ pos' = current_id + 1
      BY <1>3, <2>2 DEF Connect, OpenFrom
    <3>2. Rest'
      BY <2>1, <3>1, RestQuiet
    <3>3. (base < pos /\ ReadUpTo)'
      BY <1>b, <2>1, <2>2, <3>1 DEF Complete, ReadUpTo, NoLoss, Delivered
    <3>4. QED BY <1>a, <2>1, <2>2, <3>1, <3>2, <3>3 DEF Complete, Rest
  <2>3. CASE current_id = 0
    <3>1. PICK b \in 0..published : base' = b /\ pos' = b + 1
      BY <1>3, <2>3 DEF Connect, OpenFrom
    <3>2. (base < pos /\ ReadUpTo)'
      BY <3>1 DEF ReadUpTo
    <3>3. NoLoss'
      BY <1>b, <2>1, <2>3 DEF NoLoss
    <3>4. DeliveredWhole'
      BY <2>1 DEF Complete, DeliveredWhole
    <3>5. \A i \in DOMAIN delivered : log[delivered[i].of] # "attestation"
      <4>1. \A i \in DOMAIN delivered : delivered[i].of \in 1..MaxEvents
        BY <1>a, DeliveredEntry
      <4>2. QED BY <4>1, <2>3 DEF Complete, Ordered, NotBeyond, HasId
    <3>6. SinceBase'
      BY <2>1, <3>5 DEF SinceBase
    <3>7. QED BY <1>a, <2>1, <2>3, <3>2, <3>3, <3>4, <3>6 DEF Complete
  <2>4. QED BY <2>2, <2>3
<1>4. CASE ReceiveBlank
  <2>1. pc = "reading" /\ BlockOK /\ Dispatch(buffer, "reading", "yielded")
    BY <1>4, <1>a DEF ReceiveBlank, Sending, Ordered
  <2>2. \/ DataOf(buffer) = {} /\ Skips /\ pc' = "reading"
        \/ DataOf(buffer) # {} /\ Hands /\ pc' = "yielded"
        \/ DataOf(buffer) # {} /\ Chokes /\ pc' = "ended"
    BY <1>a, <2>1, DispatchCases
  <2>3. /\ UNCHANGED <<log, base>> /\ pos' = pos + 1
        /\ pos \in 1..MaxEvents /\ current_id < pos /\ base < pos /\ ReadUpTo
        /\ buffer = Wire(pos, Len(Fields(log[pos])))
    BY <1>4, <1>a, <1>b, <2>1
    DEF ReceiveBlank, Sending, Complete, Ordered, Reads, BlockOK, TypeOK
  <2>4. Deliverable(log[pos]) => DataOf(buffer) # {} /\ Whole(buffer, pos)
    BY <1>a, <2>3, WholeBlock
  <2>5. CASE DataOf(buffer) = {} /\ Skips
    <3>1. Rest'
      BY <2>3, <2>5, RestQuiet DEF Skips
    <3>2. (base < pos /\ ReadUpTo)'
      BY <1>b, <2>3, <2>4, <2>5 DEF Skips, ReadUpTo, Delivered
    <3>3. QED BY <1>a, <2>3, <2>5, <3>1, <3>2 DEF Complete, Rest, Skips
  <2>6. CASE Hands
    <3>1. Whole(buffer, pos)
      BY <2>4, <2>6 DEF Hands
    <3>2. Rest' /\ \A p \in 1..MaxEvents :
                     base < p /\ p <= pos /\ Deliverable(log[p]) => Delivered(p)'
      BY <2>1, <2>3, <2>6, <3>1, RestHands
    <3>3. (base < pos /\ ReadUpTo)'
      BY <1>b, <2>3, <3>2 DEF ReadUpTo
    <3>4. current_id' = 0 \/ base <= current_id'
      BY <1>b, <2>3, <2>6 DEF Hands, Complete
    <3>5. current_id' = 0 => call.last_event_id = 0
      BY <1>b, <2>3, <2>6 DEF Hands, Complete
    <3>6. QED BY <1>a, <2>3, <3>2, <3>3, <3>4, <3>5 DEF Complete, Rest
  <2>7. CASE Chokes /\ pc' = "ended"
    <3>1. current_id' = pos /\ delivered' = delivered /\ ~Deliverable(log[pos])
      BY <2>7 DEF Chokes
    <3>2. NoLoss'
      BY <1>b, <2>3, <3>1 DEF NoLoss, ReadUpTo, Delivered
    <3>3. DeliveredWhole' /\ SinceBase'
      BY <2>3, <3>1 DEF Complete, DeliveredWhole, SinceBase
    <3>4. QED BY <1>a, <1>b, <2>3, <2>7, <3>1, <3>2, <3>3 DEF Complete, Reads
  <2>8. QED BY <2>2, <2>5, <2>6, <2>7
<1>5. CASE SyncEof
  <2>1. sent = 0 /\ pc = "reading" /\ Dispatch(buffer, "connecting", "yieldedLast")
    BY <1>5 DEF SyncEof, MayClose, Polite
  <2>2. DataOf(buffer) = {}
    BY <1>a, <2>1 DEF Ordered, BlockOK, Wire, DataOf
  <2>3. Skips /\ pc' = "connecting"
    BY <2>1, <2>2 DEF Dispatch, Skips
  <2>4. Rest'
    BY <1>5, <2>3, RestQuiet DEF SyncEof, Skips
  <2>5. QED BY <1>5, <1>a, <2>3, <2>4 DEF SyncEof, Complete, Rest, Skips, Reads
<1>6. QED
  BY <1>1, <1>2, <1>3, <1>4, <1>5 DEF Next, Loop, Environment

(* If the server closes responses to the sync client between events only,  *)
(* nothing up to the replayed id was skipped, whatever else goes wrong.    *)
THEOREM NothingLost ==
  ASSUME Polite
  PROVE  Spec => []NoLoss
<1>1. Complete /\ [Next]_vars => Complete' BY CompleteStep
<1>2. Complete => NoLoss BY DEF Complete
<1>3. QED BY <1>1, <1>2, CompleteInit, PTL DEF Spec

(* Under the same condition every event handed out is whole.               *)
THEOREM NothingTorn ==
  ASSUME Polite
  PROVE  Spec => []DeliveredWhole
<1>1. Complete /\ [Next]_vars => Complete' BY CompleteStep
<1>2. Complete => DeliveredWhole BY DEF Complete
<1>3. QED BY <1>1, <1>2, CompleteInit, PTL DEF Spec

-----------------------------------------------------------------------------
(* Refinement. *)

FeedUnchanged == UNCHANGED <<call.last_event_id, log, published, base, delivered>>

LEMMA FeedStep ==
  ASSUME Polite
  PROVE  Complete /\ [Next]_vars => [Feed!FeedNext]_(Feed!feed)
<1> SUFFICES ASSUME Complete, [Next]_vars
             PROVE  Feed!FeedNext \/ FeedUnchanged
  BY DEF Feed!feed, FeedUnchanged
<1> USE SseAssumption
<1> USE DEF server, client
<1>a. Complete' /\ Ordered /\ TypeOK /\ call' = call
  <2>1. Complete'
    BY CompleteStep
  <2>2. call' = call
    BY DEF Next, Loop, Environment, Publish, Connect, Refused, ErrorStatus, Wake, ReceiveField,
           ReceiveBlank, Dropped, SyncEof, AsyncEof, Resume, Abandon, Done, vars
  <2>3. QED BY <2>1, <2>2 DEF Complete, Ordered
<1>1. CASE Publish
  BY <1>1, <1>a DEF Publish, Feed!FeedNext, Feed!FeedPublish
<1>2. CASE Wake \/ ReceiveField \/ Resume \/ Done \/ UNCHANGED vars
  BY <1>2, <1>a DEF Wake, ReceiveField, Resume, Done, vars, FeedUnchanged
<1>3. CASE Refused \/ Dropped
  BY <1>3, <1>a, TransportErrorType DEF Refused, Dropped, FeedUnchanged
<1>4. CASE ErrorStatus \/ AsyncEof \/ Abandon
  BY <1>4, <1>a DEF ErrorStatus, AsyncEof, Abandon, FeedUnchanged
<1>5. CASE Connect
  <2>1. CASE current_id # 0
    BY <1>5, <1>a, <2>1 DEF Connect, OpenFrom, FeedUnchanged
  <2>2. CASE current_id = 0
    <3>1. call.last_event_id = 0 /\ base' \in 0..published
      BY <1>5, <2>2 DEF Complete, Connect, OpenFrom
    <3>2. \A i \in DOMAIN delivered : log[delivered[i].of] # "attestation"
      <4>1. \A i \in DOMAIN delivered : delivered[i].of \in 1..MaxEvents
        BY <1>a, DeliveredEntry
      <4>2. QED BY <4>1, <1>a, <2>2 DEF Ordered, NotBeyond, HasId
    <3>3. Feed!Got \cap Feed!Attestations = {}
      BY <3>2 DEF Feed!Got, Feed!Attestations
    <3>4. QED BY <1>5, <1>a, <3>1, <3>3 DEF Connect, Feed!FeedNext, Feed!Begin
  <2>3. QED BY <2>1, <2>2
<1>6. CASE ReceiveBlank
  <2>1. pc = "reading" /\ BlockOK /\ Dispatch(buffer, "reading", "yielded")
    BY <1>6, <1>a DEF ReceiveBlank, Sending, Ordered
  <2>2. Skips \/ Hands \/ Chokes
    BY <1>a, <2>1, DispatchCases
  <2>3. /\ UNCHANGED <<log, base, published>>
        /\ pos \in 1..MaxEvents /\ current_id < pos /\ base < pos /\ ReadUpTo
        /\ buffer = Wire(pos, Len(Fields(log[pos])))
    BY <1>6, <1>a, <2>1
    DEF ReceiveBlank, Sending, Complete, Ordered, Reads, BlockOK, TypeOK
  <2>4. CASE Skips \/ Chokes
    BY <1>a, <2>3, <2>4 DEF Skips, Chokes, FeedUnchanged
  <2>5. CASE Hands
    <3>1. Whole(buffer, pos) /\ Deliverable(log[pos])
      BY <1>a, <2>3, <2>5, WholeBlock DEF Hands
    <3>2. Feed!Hand(pos)
      BY <1>a, <2>3, <2>5, <3>1 DEF Hands, Feed!Hand
    <3>3. CASE log[pos] = "heartbeat"
      BY <2>3, <3>2, <3>3 DEF Feed!FeedNext, Feed!HandHeartbeat
    <3>4. CASE log[pos] = "attestation"
      <4>1. \A q \in Feed!Attestations : base < q /\ q < pos => q \in Feed!Got
        BY <2>3 DEF ReadUpTo, Deliverable, Delivered, Feed!Attestations, Feed!Got
      <4>2. \A q \in Feed!Got \cap Feed!Attestations : base < q /\ q < pos
        <5> SUFFICES ASSUME NEW i \in DOMAIN delivered, log[delivered[i].of] = "attestation"
                     PROVE  base < delivered[i].of /\ delivered[i].of < pos
          BY DEF Feed!Got, Feed!Attestations
        <5>1. base < delivered[i].of
          BY DEF Complete, SinceBase
        <5>2. delivered[i].of <= current_id
          BY <1>a DEF Ordered, NotBeyond, HasId
        <5>3. delivered[i].of \in Nat /\ current_id \in Nat /\ pos \in Nat
          BY <1>a, DeliveredEntry DEF TypeOK
        <5>4. QED BY <5>1, <5>2, <5>3, <2>3
      <4>3. {q \in Feed!Attestations : base < q /\ q < pos} = Feed!Got \cap Feed!Attestations
        BY <4>1, <4>2
      <4>4. pos \in Feed!Attestations
        BY <2>3, <3>4 DEF Feed!Attestations
      <4>5. QED BY <2>3, <3>2, <4>3, <4>4 DEF Feed!FeedNext, Feed!HandAttestation
    <3>5. QED BY <3>1, <3>3, <3>4 DEF Deliverable
  <2>6. QED BY <2>2, <2>4, <2>5
<1>7. CASE SyncEof
  <2>1. sent = 0 /\ pc = "reading" /\ Dispatch(buffer, "connecting", "yieldedLast")
    BY <1>7 DEF SyncEof, MayClose, Polite
  <2>2. DataOf(buffer) = {}
    BY <1>a, <2>1 DEF Ordered, BlockOK, Wire, DataOf
  <2>3. delivered' = delivered
    BY <2>1, <2>2 DEF Dispatch
  <2>4. QED BY <1>7, <1>a, <2>3 DEF SyncEof, FeedUnchanged
<1>8. QED
  BY <1>1, <1>2, <1>3, <1>4, <1>5, <1>6, <1>7 DEF Next, Loop, Environment

LEMMA FeedStart == Init => Feed!FeedInit
BY SseAssumption DEF Init, Feed!FeedInit

(* The client with its connections, cuts and retries implements the feed   *)
(* that has none: whatever happens below, the consumer gets the            *)
(* attestations after its starting point once each, whole and in order.    *)
THEOREM StreamImplementsFeed ==
  ASSUME Polite
  PROVE  Spec => ImplementsFeed
<1>1. Complete /\ [Next]_vars => Complete' BY CompleteStep
<1>2. Complete /\ [Next]_vars => [Feed!FeedNext]_(Feed!feed) BY FeedStep
<1>3. QED
  BY <1>1, <1>2, CompleteInit, FeedStart, PTL DEF Spec, ImplementsFeed, Feed!FeedSpec

-----------------------------------------------------------------------------
(* Reconnects. *)

\* The next sleep, as far as the sleeps of this outage determine it.
NextSleep ==
  backoff = IF slept = <<>> THEN InitialBackoff ELSE Min2(2 * slept[Len(slept)], MaxBackoff)

Schedule == TypeOK /\ BackoffSchedule /\ NextSleep

LEMMA ScheduleInit == Init => Schedule
<1> SUFFICES ASSUME Init PROVE BackoffSchedule /\ NextSleep
  BY TypeInit DEF Schedule
<1>1. slept = <<>> /\ backoff = InitialBackoff
  BY DEF Init
<1>2. QED BY <1>1 DEF BackoffSchedule, NextSleep

(* A transport error appends the sleep the schedule asks for.              *)
LEMMA ScheduleFails ==
  ASSUME Schedule, OnTransportError
  PROVE  (BackoffSchedule /\ NextSleep)'
<1> USE SseAssumption
<1>1. CASE UNCHANGED <<backoff, slept>>
  BY <1>1 DEF Schedule, BackoffSchedule, NextSleep
<1>2. CASE /\ slept' = Append(slept, Min2(backoff, MaxBackoff))
           /\ backoff' = Min2(2 * backoff, MaxBackoff)
  <2> DEFINE last == Min2(backoff, MaxBackoff)
  <2>1. slept \in Seq(Nat) /\ backoff \in Nat /\ last \in Nat
    BY DEF Schedule, TypeOK, Min2
  <2>2. /\ Len(slept) \in Nat /\ Len(slept') = Len(slept) + 1 /\ slept'[Len(slept) + 1] = last
        /\ slept'[Len(slept')] = last
    BY <1>2, <2>1
  <2>3. \A i \in 1..Len(slept) : slept'[i] = slept[i] /\ slept[i] \in Nat
    BY <1>2, <2>1
  <2>4. \A i \in 1..Len(slept) :
          slept[i] = IF i = 1 THEN Min2(InitialBackoff, MaxBackoff)
                     ELSE Min2(2 * slept[i - 1], MaxBackoff)
    <3>1. DOMAIN slept = 1..Len(slept)
      BY <2>1
    <3>2. BackoffSchedule
      BY DEF Schedule
    <3>3. QED BY <3>1, <3>2, Zenon DEF BackoffSchedule
  <2>5. CASE slept = <<>>
    <3>1. Len(slept) = 0 /\ backoff = InitialBackoff
      BY <2>5 DEF Schedule, NextSleep
    <3>2. DOMAIN slept' = {1} /\ slept'[1] = Min2(InitialBackoff, MaxBackoff)
      BY <1>2, <2>1, <2>2, <3>1
    <3>3. BackoffSchedule'
      BY <3>2 DEF BackoffSchedule
    <3>4. Min2(2 * backoff, MaxBackoff) = Min2(2 * last, MaxBackoff)
      BY <2>1 DEF Min2
    <3>5. slept' # <<>> /\ Len(slept') = 1
      BY <2>2, <3>1
    <3>6. QED BY <1>2, <2>2, <3>1, <3>3, <3>4, <3>5 DEF NextSleep
  <2>6. CASE slept # <<>>
    <3>1. Len(slept) \in Nat \ {0}
      BY <2>1, <2>6
    <3>2. backoff = Min2(2 * slept[Len(slept)], MaxBackoff)
      BY <2>6 DEF Schedule, NextSleep
    <3>3. slept[Len(slept)] \in Nat
      BY <2>3, <3>1
    <3>4. last = Min2(2 * slept[Len(slept)], MaxBackoff)
      BY <3>2, <3>3 DEF Min2
    <3>5. \A i \in 1..Len(slept) + 1 :
            slept'[i] = IF i = 1 THEN Min2(InitialBackoff, MaxBackoff)
                        ELSE Min2(2 * slept'[i - 1], MaxBackoff)
      <4> TAKE i \in 1..Len(slept) + 1
      <4>1. CASE i = Len(slept) + 1
        <5>1. slept'[i] = last /\ i # 1 /\ i - 1 = Len(slept) /\ slept'[i - 1] = slept[Len(slept)]
          BY <4>1, <2>2, <2>3, <3>1
        <5>2. QED BY <5>1, <3>4
      <4>2. CASE i \in 1..Len(slept)
        <5>1. i # 1 => i - 1 \in 1..Len(slept)
          BY <4>2, <2>1
        <5>2. QED BY <4>2, <5>1, <2>3, <2>4
      <4>3. QED BY <4>1, <4>2, <3>1
    <3>6. DOMAIN slept' = 1..Len(slept) + 1
      BY <1>2, <2>1
    <3>7. BackoffSchedule'
      BY <3>5, <3>6 DEF BackoffSchedule
    <3>8. Min2(2 * backoff, MaxBackoff) = Min2(2 * last, MaxBackoff)
      BY <2>1 DEF Min2
    <3>9. slept' # <<>>
      BY <2>2, <3>1
    <3>10. QED BY <1>2, <2>2, <3>7, <3>8, <3>9 DEF NextSleep
  <2>7. QED BY <2>5, <2>6
<1>3. QED BY <1>1, <1>2 DEF OnTransportError

LEMMA ScheduleStep == Schedule /\ [Next]_vars => Schedule'
<1> SUFFICES ASSUME Schedule, [Next]_vars PROVE (BackoffSchedule /\ NextSleep)'
  BY TypeStep DEF Schedule
<1>1. CASE Connect
  <2>1. slept' = <<>> /\ backoff' = InitialBackoff
    BY <1>1 DEF Connect
  <2>2. QED BY <2>1 DEF BackoffSchedule, NextSleep
<1>2. CASE Refused \/ Dropped
  BY <1>2, ScheduleFails DEF Refused, Dropped
<1>3. CASE UNCHANGED <<slept, backoff>>
  BY <1>3 DEF Schedule, BackoffSchedule, NextSleep
<1>4. QED
  BY <1>1, <1>2, <1>3 DEF Next, Loop, Environment, Publish, ErrorStatus, Wake, ReceiveField,
     ReceiveBlank, SyncEof, AsyncEof, Resume, Abandon, Done, vars, client

(* The sleeps follow the schedule for every initial value and cap.         *)
THEOREM BackoffCorrect == Spec => []BackoffSchedule
<1>1. Schedule => BackoffSchedule BY DEF Schedule
<1>2. QED BY <1>1, ScheduleInit, ScheduleStep, PTL DEF Spec

\* No response ends in good order.
NeverClosed == \A f \in {"sync", "async"} : CleanCloses[f] = "never"

\* Each failure pays for the connection that follows it.
Paid ==
  LET limit == call.max_reconnect_attempts
  IN  /\ pc \in {"connecting", "sleeping"} => tries = attempts
      /\ pc \in {"reading", "yielded"} => tries = attempts + 1
      /\ pc # "yieldedLast"
      /\ limit # None /\ pc # "ended" => attempts <= limit
      /\ limit # None => tries <= limit + 1

Budgeted == TypeOK /\ Paid

LEMMA BudgetInit == Init => Budgeted
<1> SUFFICES ASSUME Init PROVE Paid
  BY TypeInit DEF Budgeted
<1>1. call.max_reconnect_attempts # None => call.max_reconnect_attempts \in Nat
  BY SseAssumption DEF Init
<1>2. QED BY <1>1 DEF Init, Paid

LEMMA BudgetStep ==
  ASSUME NeverClosed
  PROVE  Budgeted /\ [Next]_vars => Budgeted'
<1> SUFFICES ASSUME Budgeted, [Next]_vars PROVE Paid'
  BY TypeStep DEF Budgeted
<1> USE SseAssumption
<1>a. /\ call.max_reconnect_attempts # None => call.max_reconnect_attempts \in Nat
      /\ call.flavour \in {"sync", "async"}
      /\ tries \in Nat /\ attempts \in Nat
  BY DEF Budgeted, TypeOK
<1>1. CASE Connect
  BY <1>1, <1>a DEF Connect, Budgeted, Paid
<1>2. CASE Refused
  BY <1>2, <1>a DEF Refused, OnTransportError, Exhausted, Budgeted, Paid
<1>3. CASE Dropped
  BY <1>3, <1>a DEF Dropped, OnTransportError, Exhausted, Budgeted, Paid
<1>4. CASE ErrorStatus
  BY <1>4, <1>a DEF ErrorStatus, Budgeted, Paid
<1>5. CASE ReceiveBlank
  <2>1. pc' \in {"reading", "yielded", "ended"} /\ pc = "reading"
    BY <1>5, DispatchEffect DEF ReceiveBlank, Sending, Budgeted
  <2>2. UNCHANGED <<call, tries, attempts>>
    BY <1>5 DEF ReceiveBlank
  <2>3. QED BY <2>1, <2>2, <1>a DEF Budgeted, Paid
<1>6. CASE SyncEof \/ AsyncEof
  BY <1>6, <1>a DEF SyncEof, AsyncEof, MayClose, NeverClosed
<1>7. CASE Resume
  BY <1>7, <1>a DEF Resume, Budgeted, Paid
<1>8. CASE Wake \/ Abandon
  BY <1>8, <1>a DEF Wake, Abandon, Budgeted, Paid
<1>9. CASE Publish \/ ReceiveField \/ Done \/ UNCHANGED vars
  <2>1. UNCHANGED <<call, tries, attempts, pc>>
    BY <1>9 DEF Publish, ReceiveField, Done, vars, client
  <2>2. QED BY <2>1 DEF Budgeted, Paid
<1>10. QED
  BY <1>1, <1>2, <1>3, <1>4, <1>5, <1>6, <1>7, <1>8, <1>9 DEF Next, Loop, Environment

(* While no response is closed in good order, max_reconnect_attempts       *)
(* bounds the connections of an iterator, whatever the limit.              *)
THEOREM BudgetKept ==
  ASSUME NeverClosed
  PROVE  Spec => []ReconnectBudget
<1>1. Budgeted /\ [Next]_vars => Budgeted' BY BudgetStep
<1>2. Budgeted => ReconnectBudget BY DEF Budgeted, Paid, ReconnectBudget
<1>3. QED BY <1>1, <1>2, BudgetInit, PTL DEF Spec
-----------------------------------------------------------------------------
(* Progress, but for fairness: between two faults a stream comes nearer to *)
(* the end of what is published.                                           *)
Phase == [ended |-> 0, reading |-> 1, yielded |-> 1, connecting |-> 2,
          sleeping |-> 3, yieldedLast |-> 3][pc]

\* What this connection may still bring: events, the lines of one, and a resumption.
Ahead ==
  10 * (MaxEvents + 1 - pos) + 2 * (4 - sent) + (IF pc = "yielded" THEN 1 ELSE 0)

Nearer ==
  /\ Ahead \in Nat
  /\ Phase' < Phase \/ (Phase' = Phase /\ Ahead' < Ahead)

\* The server, the network or the log: the faults and the events are bounded.
Renewed ==
  \/ faults' = faults + 1
  \/ published' = published + 1 /\ Phase' = Phase /\ Ahead' = Ahead

LEMMA StepNearer ==
  ASSUME TypeOK, Next, ~UNCHANGED vars
  PROVE  Nearer \/ Renewed
<1>t. /\ pos \in 0..MaxEvents + 1 /\ sent \in 0..4 /\ MaxEvents \in Nat
      /\ published \in 0..MaxEvents
      /\ pc \in {"connecting", "sleeping", "reading", "yielded", "yieldedLast", "ended"}
  BY SseAssumption DEF TypeOK
<1>a. Ahead \in Nat
  BY <1>t DEF Ahead
<1>1. ASSUME Phase' < Phase
      PROVE  Nearer
  BY <1>a, <1>1 DEF Nearer
<1>2. CASE Publish
  <2>1. published' = published + 1 /\ UNCHANGED <<pc, pos, sent>>
    BY <1>2 DEF Publish, client
  <2>2. QED BY <2>1 DEF Renewed, Phase, Ahead
<1>3. CASE Refused \/ ErrorStatus \/ Dropped \/ SyncEof \/ AsyncEof
  BY <1>3 DEF Refused, ErrorStatus, Dropped, SyncEof, AsyncEof, MayClose, Fault, Renewed
<1>4. CASE Connect
  <2>1. pc = "connecting" /\ pc' = "reading"
    BY <1>4 DEF Connect
  <2>2. QED BY <1>1, <2>1 DEF Phase
<1>5. CASE Wake
  <2>1. pc = "sleeping" /\ pc' = "connecting"
    BY <1>5 DEF Wake
  <2>2. QED BY <1>1, <2>1 DEF Phase
<1>6. CASE Abandon
  <2>1. pc # "ended" /\ pc' = "ended"
    BY <1>6 DEF Abandon
  <2>2. QED BY <1>t, <1>1, <2>1 DEF Phase
<1>7. CASE Resume
  <2>1. CASE pc = "yieldedLast" /\ pc' = "connecting"
    BY <1>1, <2>1 DEF Phase
  <2>2. CASE pc = "yielded" /\ pc' = "reading"
    <3>1. pos' = pos /\ sent' = sent
      BY <1>7 DEF Resume, server
    <3>2. QED BY <1>t, <1>a, <2>2, <3>1 DEF Nearer, Phase, Ahead
  <2>3. QED BY <1>7, <2>1, <2>2 DEF Resume
<1>8. CASE ReceiveField
  <2>1. pc = "reading" /\ pc' = "reading" /\ pos' = pos /\ sent' = sent + 1
    BY <1>8 DEF ReceiveField, Sending
  <2>2. QED BY <1>t, <1>a, <2>1 DEF Nearer, Phase, Ahead
<1>9. CASE ReceiveBlank
  <2>1. pc = "reading" /\ pos' = pos + 1 /\ sent' = 0
    BY <1>9 DEF ReceiveBlank, Sending
  <2>2. pc' \in {"reading", "yielded", "ended"}
    BY <1>9, DispatchEffect DEF ReceiveBlank
  <2>3. CASE pc' = "ended"
    BY <1>1, <2>1, <2>3 DEF Phase
  <2>4. CASE pc' \in {"reading", "yielded"}
    <3>1. Phase' = Phase
      BY <2>1, <2>4 DEF Phase
    <3>2. Ahead' < Ahead
      BY <1>t, <2>1 DEF Ahead
    <3>3. QED BY <1>a, <3>1, <3>2 DEF Nearer
  <2>5. QED BY <2>2, <2>3, <2>4
<1>10. QED
  BY <1>2, <1>3, <1>4, <1>5, <1>6, <1>7, <1>8, <1>9 DEF Next, Loop, Environment, Done

(***************************************************************************)
(* The loop never goes round by itself: every step of the generator comes  *)
(* nearer to the end of what is published, and only a fault, a response    *)
(* that ends in good order included, takes it further away (client.py:     *)
(* 232-258, 364-427).                                                      *)
(***************************************************************************)
THEOREM StreamAdvances == Spec => [][Nearer \/ Renewed]_vars
<1>1. TypeOK /\ [Next]_vars => TypeOK'
  BY TypeStep
<1>2. TypeOK /\ [Next]_vars => [Nearer \/ Renewed]_vars
  BY StepNearer
<1>3. QED BY <1>1, <1>2, TypeInit, PTL DEF Spec
=============================================================================
