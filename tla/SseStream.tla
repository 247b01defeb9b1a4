----------------------------- MODULE SseStream -----------------------------
(***************************************************************************)
(* stream_attestations() of Client and AsyncClient (client.py) over the    *)
(* line framing of _internal/http.py, together with the part of its        *)
(* environment it depends on: an event log served over SSE, a connection   *)
(* that may be refused, cut or closed in good order at any line, and a     *)
(* consumer that pulls events and may abandon the iterator.                *)
(*                                                                         *)
(* The log is fixed by Init and published one event at a time.  The id of  *)
(* the event at position p is p itself; 0 is "no id", which the code tells *)
(* from an id by truthiness (client.py:235, 245).                          *)
(***************************************************************************)
EXTENDS Naturals, Sequences

CONSTANTS
  None,            \* max_reconnect_attempts=None: no limit
  Flavours,        \* the clients considered, a subset of {"sync", "async"}
  ResumeIds,       \* values of the last_event_id argument; 0 is None
  Budgets,         \* values of the max_reconnect_attempts argument
  InitialBackoff,  \* DEFAULT_RECONNECT_INITIAL_SECONDS
  MaxBackoff,      \* DEFAULT_RECONNECT_MAX_SECONDS
  EventKinds,      \* kinds of event the log may hold, a subset of Kinds
  CleanCloses,     \* per flavour, where the server ends a response in good
                   \* order: "never", "betweenEvents" or "anywhere"
  MaxEvents,       \* bound: length of the log
  MaxFaults        \* bound: refusals, cuts, closes and error responses

(***************************************************************************)
(* Kinds of event.  "attestation": id and data, a name in StreamEvent's    *)
(* Literal.  "heartbeat": data but no id.  "idOnly": an id and no data.    *)
(* "unmodelled": id and data under a name the Literal does not list.       *)
(* "keepalive": nothing but a blank line.                                  *)
(***************************************************************************)
Kinds == {"attestation", "heartbeat", "idOnly", "unmodelled", "keepalive"}

ASSUME SseAssumption ==
  /\ None \notin Nat
  /\ Flavours \subseteq {"sync", "async"}
  /\ MaxEvents \in Nat /\ MaxFaults \in Nat
  /\ ResumeIds \subseteq 0..MaxEvents
  /\ Budgets \subseteq Nat \cup {None}
  /\ InitialBackoff \in Nat /\ MaxBackoff \in Nat
  /\ EventKinds \subseteq Kinds
  /\ CleanCloses \in [{"sync", "async"} -> {"never", "betweenEvents", "anywhere"}]

VARIABLES
  call,        \* the arguments of stream_attestations, and which client runs it
  log,         \* external: position -> kind of event
  published,   \* external: how much of the log exists yet
  base,        \* external: the position after which the consumer's feed begins
  pos,         \* external: the event whose lines this connection is sending
  sent,        \* external: how many of its lines have arrived
  faults,      \* external: faults so far, bounded by MaxFaults
  pc,          \* where the generator is
  current_id,  \* id replayed as last-event-id
  attempts,    \* transport failures so far
  backoff,     \* next sleep, in seconds
  buffer,      \* lines of the block being read
  delivered,   \* history: the StreamEvents yielded
  slept,       \* history: the sleeps since the last good connection
  tries,       \* history: calls of self._http.stream
  raised       \* the exception that ended the generator

server == <<log, published, base, pos, sent, faults>>
client == <<pc, current_id, attempts, backoff, buffer, delivered, slept, tries, raised>>
vars == <<call, server, client>>

Min2(a, b) == IF a < b THEN a ELSE b

-----------------------------------------------------------------------------
(* What an event looks like on the wire. *)

Fields(kind) ==
  CASE kind = "attestation" -> <<"event", "id", "data", "rest">>
    [] kind = "unmodelled"  -> <<"event", "id", "data", "rest">>
    [] kind = "heartbeat"   -> <<"event", "data", "rest">>
    [] kind = "idOnly"      -> <<"event", "id">>
    [] kind = "keepalive"   -> <<>>

HasId(kind) == kind \in {"attestation", "idOnly", "unmodelled"}

\* The events a consumer can be given: those with data whose name StreamEvent accepts.
Deliverable(kind) == kind \in {"attestation", "heartbeat"}

Line(p, field) == [of |-> p, field |-> field]

\* parse_sse_block: the id and data fields of a block; a block without data is None.
DataOf(block) == {l \in block : l.field \in {"data", "rest"}}

IdsOf(block) == {l.of : l \in {m \in block : m.field = "id"}}

\* json.loads succeeds on the joined data lines only if none is missing or foreign;
\* otherwise the event carries {"raw": ...}.
Whole(block, p) == DataOf(block) = {Line(p, "data"), Line(p, "rest")}

\* Mutant: the Literal has lost the name of the attestations.
NamedHeartbeat(block) == \E l \in block : l.field = "event" /\ log[l.of] = "heartbeat"

\* StreamEvent(event=...): a block with no event line is named "message", which the
\* Literal does not list either.
Named(block) == \E l \in block : l.field = "event" /\ Deliverable(log[l.of])

-----------------------------------------------------------------------------
Init ==
  /\ call \in [flavour : Flavours, last_event_id : ResumeIds,
               max_reconnect_attempts : Budgets]
  /\ log \in [1..MaxEvents -> EventKinds]
  /\ published = call.last_event_id
  /\ base = call.last_event_id
  /\ pos = 0 /\ sent = 0 /\ faults = 0
  /\ pc = "connecting"
  /\ current_id = call.last_event_id
  /\ attempts = 0
  /\ backoff = InitialBackoff
  /\ buffer = {}
  /\ delivered = <<>> /\ slept = <<>> /\ tries = 0
  /\ raised = "none"

Fault == faults < MaxFaults /\ faults' = faults + 1

Publish ==
  /\ published < MaxEvents
  /\ published' = published + 1
  /\ UNCHANGED <<call, log, base, pos, sent, faults, client>>

-----------------------------------------------------------------------------
(* One pass of the while loop: open the stream. *)

\* The server resumes after the replayed id; without one it starts where it likes.
OpenFrom ==
  IF current_id # 0
  THEN base' = base /\ pos' = current_id + 1
  ELSE \E b \in 0..published : base' = b /\ pos' = b + 1

\* Mutant: the good connection does not reset the backoff.
ConnectKeepsBackoff ==
  /\ pc = "connecting"
  /\ OpenFrom
  /\ sent' = 0
  /\ slept' = <<>>
  /\ buffer' = {}
  /\ tries' = tries + 1
  /\ pc' = "reading"
  /\ UNCHANGED <<call, log, published, faults, current_id, attempts, backoff, delivered,
                 raised>>

Connect ==
  /\ pc = "connecting"
  /\ OpenFrom
  /\ sent' = 0
  /\ backoff' = InitialBackoff
  /\ slept' = <<>>
  /\ buffer' = {}
  /\ tries' = tries + 1
  /\ pc' = "reading"
  /\ UNCHANGED <<call, log, published, faults, current_id, attempts, delivered, raised>>

\* Mutant: one reconnect too many.
ExhaustedLate(failures) ==
  call.max_reconnect_attempts # None /\ failures > call.max_reconnect_attempts + 1

Exhausted(failures) ==
  call.max_reconnect_attempts # None /\ failures > call.max_reconnect_attempts

\* except (TransportError, RemoteProtocolError): count, give up or sleep and double.
OnTransportError ==
  /\ attempts' = attempts + 1
  /\ \/ /\ Exhausted(attempts + 1)
        /\ pc' = "ended" /\ raised' = "TransportError"
        /\ UNCHANGED <<backoff, slept>>
     \/ /\ ~Exhausted(attempts + 1)
        /\ pc' = "sleeping"
        /\ slept' = Append(slept, Min2(backoff, MaxBackoff))
        /\ backoff' = Min2(2 * backoff, MaxBackoff)
        /\ UNCHANGED raised
  /\ UNCHANGED <<current_id, buffer, delivered>>

Refused ==
  /\ pc = "connecting" /\ Fault
  /\ tries' = tries + 1
  /\ OnTransportError
  /\ UNCHANGED <<call, log, published, base, pos, sent>>

\* Mutant: httpx's own raise_for_status.
ErrorStatusOfHttpx ==
  /\ pc = "connecting" /\ Fault
  /\ tries' = tries + 1
  /\ pc' = "ended" /\ raised' = "HTTPStatusError"
  /\ UNCHANGED <<call, log, published, base, pos, sent,
                 current_id, attempts, backoff, buffer, delivered, slept>>

\* raise_for_status on a non-2xx answer.  map_response_to_error first asks for
\* response.json(), whose body a streamed response has not read: httpx raises
\* ResponseNotRead, which is no ValueError, so no DeepidvApiError is ever built.
ErrorStatus ==
  /\ pc = "connecting" /\ Fault
  /\ tries' = tries + 1
  /\ pc' = "ended" /\ raised' = "ResponseNotRead"
  /\ UNCHANGED <<call, log, published, base, pos, sent,
                 current_id, attempts, backoff, buffer, delivered, slept>>

Wake ==
  /\ pc = "sleeping"
  /\ pc' = "connecting"
  /\ UNCHANGED <<call, server, current_id, attempts, backoff, buffer, delivered,
                 slept, tries, raised>>

-----------------------------------------------------------------------------
(* Reading lines. *)

Sending == pc = "reading" /\ pos <= published

\* Mutant: the id is recorded when its line arrives, not when its event is complete.
ReceiveFieldEagerId ==
  /\ Sending
  /\ sent < Len(Fields(log[pos]))
  /\ sent' = sent + 1
  /\ LET field == Fields(log[pos])[sent + 1]
     IN  /\ buffer' = buffer \cup {Line(pos, field)}
         /\ current_id' = IF field = "id" THEN pos ELSE current_id
  /\ UNCHANGED <<call, log, published, base, pos, faults, pc, attempts, backoff,
                 delivered, slept, tries, raised>>

\* A line that is not blank joins the buffer.
ReceiveField ==
  /\ Sending
  /\ sent < Len(Fields(log[pos]))
  /\ sent' = sent + 1
  /\ buffer' = buffer \cup {Line(pos, Fields(log[pos])[sent + 1])}
  /\ UNCHANGED <<call, log, published, base, pos, faults, pc, current_id, attempts,
                 backoff, delivered, slept, tries, raised>>

\* Mutant: an event without an id clears the one held.
DispatchUnguardedId(block, idle, suspended) ==
  \/ /\ DataOf(block) = {}
     /\ pc' = idle
     /\ UNCHANGED <<current_id, delivered, raised>>
  \/ /\ DataOf(block) # {}
     /\ IF IdsOf(block) = {} THEN current_id' = 0 ELSE current_id' \in IdsOf(block)
     /\ \E l \in DataOf(block) :
          \/ /\ Named(block)
             /\ delivered' = Append(delivered, [of |-> l.of, whole |-> Whole(block, l.of)])
             /\ pc' = suspended
             /\ UNCHANGED raised
          \/ /\ ~Named(block)
             /\ pc' = "ended" /\ raised' = "ValidationError"
             /\ UNCHANGED delivered

\* Mutant: an event StreamEvent rejects is passed over.
DispatchSkipsUnnamed(block, idle, suspended) ==
  \/ /\ DataOf(block) = {} \/ ~Named(block)
     /\ pc' = idle
     /\ UNCHANGED <<current_id, delivered, raised>>
  \/ /\ DataOf(block) # {} /\ Named(block)
     /\ IF IdsOf(block) = {} THEN UNCHANGED current_id ELSE current_id' \in IdsOf(block)
     /\ \E l \in DataOf(block) :
          delivered' = Append(delivered, [of |-> l.of, whole |-> Whole(block, l.of)])
     /\ pc' = suspended
     /\ UNCHANGED raised

\* A finished block: no data, and it is dropped before its id is looked at;
\* otherwise the id is recorded and then the event is built and yielded.
\* `idle` and `suspended` are where the generator goes on in each case.
Dispatch(block, idle, suspended) ==
  \/ /\ DataOf(block) = {}
     /\ pc' = idle
     /\ UNCHANGED <<current_id, delivered, raised>>
  \/ /\ DataOf(block) # {}
     /\ IF IdsOf(block) = {} THEN UNCHANGED current_id ELSE current_id' \in IdsOf(block)
     /\ \E l \in DataOf(block) :
          \/ /\ Named(block)
             /\ delivered' = Append(delivered, [of |-> l.of, whole |-> Whole(block, l.of)])
             /\ pc' = suspended
             /\ UNCHANGED raised
          \/ /\ ~Named(block)
             /\ pc' = "ended" /\ raised' = "ValidationError"
             /\ UNCHANGED delivered

\* The blank line that ends a block; one with nothing before it is skipped.
ReceiveBlank ==
  /\ Sending
  /\ sent = Len(Fields(log[pos]))
  /\ pos' = pos + 1 /\ sent' = 0
  /\ buffer' = {}
  /\ Dispatch(buffer, "reading", "yielded")
  /\ UNCHANGED <<call, log, published, base, faults, attempts, backoff, slept, tries>>

\* Mutant: what was read before the cut is flushed as an event.
DroppedFlushes ==
  /\ pc = "reading" /\ Fault
  /\ Dispatch(buffer, "connecting", "yieldedLast")
  /\ UNCHANGED <<call, log, published, base, pos, sent, attempts, backoff, buffer,
                 slept, tries>>

Dropped ==
  /\ pc = "reading" /\ Fault
  /\ OnTransportError
  /\ UNCHANGED <<call, log, published, base, pos, sent, tries>>

MayClose ==
  /\ pc = "reading" /\ Fault
  /\ CleanCloses[call.flavour] # "never"
  /\ sent = 0 \/ CleanCloses[call.flavour] = "anywhere"

\* iter_sse_blocks flushes what it holds when the lines run out, and the loop goes
\* round again at once: no exception, so neither attempts nor a sleep.
SyncEof ==
  /\ call.flavour = "sync"
  /\ MayClose
  /\ Dispatch(buffer, "connecting", "yieldedLast")
  /\ UNCHANGED <<call, log, published, base, pos, sent, attempts, backoff, buffer,
                 slept, tries>>

\* Mutant: the async loop flushes as the sync one does.
AsyncEofFlushes ==
  /\ call.flavour = "async"
  /\ MayClose
  /\ Dispatch(buffer, "connecting", "yieldedLast")
  /\ UNCHANGED <<call, log, published, base, pos, sent, attempts, backoff, buffer,
                 slept, tries>>

\* Mutant: the iterator ends with the response.
AsyncEofStops ==
  /\ call.flavour = "async"
  /\ MayClose
  /\ pc' = "ended"
  /\ UNCHANGED <<call, log, published, base, pos, sent, current_id, attempts, backoff,
                 buffer, delivered, slept, tries, raised>>

\* The async loop has no such flush: an unfinished block is forgotten.
AsyncEof ==
  /\ call.flavour = "async"
  /\ MayClose
  /\ pc' = "connecting"
  /\ UNCHANGED <<call, log, published, base, pos, sent, current_id, attempts, backoff,
                 buffer, delivered, slept, tries, raised>>

-----------------------------------------------------------------------------
(* The consumer: asks for the next event; or abandons the iterator, which a task      *)
(* cancelled or a thread interrupted elsewhere than at a yield does too.              *)

Resume ==
  /\ \/ pc = "yielded" /\ pc' = "reading"
     \/ pc = "yieldedLast" /\ pc' = "connecting"
  /\ UNCHANGED <<call, server, current_id, attempts, backoff, buffer, delivered,
                 slept, tries, raised>>

Abandon ==
  /\ pc # "ended"
  /\ pc' = "ended" /\ raised' = "GeneratorExit"
  /\ UNCHANGED <<call, server, current_id, attempts, backoff, buffer, delivered,
                 slept, tries>>

Done == pc = "ended" /\ UNCHANGED vars

Loop ==
  \/ Connect \/ Wake \/ ReceiveField \/ ReceiveBlank \/ Resume

Environment ==
  \/ Publish \/ Refused \/ ErrorStatus \/ Dropped \/ SyncEof \/ AsyncEof \/ Abandon

Next == Loop \/ Environment \/ Done

Spec == Init /\ [][Next]_vars

\* The event loop or thread runs the generator on, lines that were sent arrive, and
\* the consumer keeps asking.  Nothing is assumed of the environment but that its
\* faults are finite.
Fairness ==
  /\ WF_vars(Connect)
  /\ WF_vars(Wake)
  /\ WF_vars(ReceiveField \/ ReceiveBlank)
  /\ WF_vars(Resume)

FairSpec == Spec /\ Fairness

-----------------------------------------------------------------------------
(* Properties. *)

Delivered(p) == \E i \in DOMAIN delivered : delivered[i] = [of |-> p, whole |-> TRUE]

(***************************************************************************)
(* Types of the variables, and what each value of pc means for the history *)
(* and the exception (client.py:232-258).                                  *)
(***************************************************************************)
TypeOK ==
  /\ call \in [flavour : Flavours, last_event_id : ResumeIds,
               max_reconnect_attempts : Budgets]
  /\ log \in [1..MaxEvents -> EventKinds]
  /\ published \in 0..MaxEvents
  /\ base \in 0..MaxEvents
  /\ pos \in 0..MaxEvents + 1 /\ sent \in 0..4
  /\ pc \in {"reading", "yielded"} => pos > 0
  /\ faults \in 0..MaxFaults
  /\ pc \in {"connecting", "sleeping", "reading", "yielded", "yieldedLast", "ended"}
  /\ current_id \in 0..MaxEvents
  /\ attempts \in Nat /\ backoff \in Nat /\ tries \in Nat
  /\ buffer \subseteq [of : 1..MaxEvents, field : {"event", "id", "data", "rest"}]
  /\ delivered \in Seq([of : 1..MaxEvents, whole : BOOLEAN])
  /\ slept \in Seq(Nat)
  /\ raised \in {"none", "TransportError", "ResponseNotRead", "ValidationError",
                 "GeneratorExit"}

(***************************************************************************)
(* However often the connection is cut and reopened, no event that has an  *)
(* id is handed out twice or after a later one (client.py:235, 245).       *)
(***************************************************************************)
InOrder ==
  \A i, j \in DOMAIN delivered :
    i < j /\ HasId(log[delivered[i].of]) /\ HasId(log[delivered[j].of])
      => delivered[i].of < delivered[j].of

(***************************************************************************)
(* The id replayed to the server never runs ahead of what the consumer was *)
(* given: every deliverable event from the start of its feed up to         *)
(* current_id has been yielded, and complete (client.py:245-251, 388-399). *)
(* An event it runs ahead of would never be sent again.                    *)
(***************************************************************************)
NoLoss ==
  \A p \in 1..MaxEvents :
    base < p /\ p <= current_id /\ Deliverable(log[p]) => Delivered(p)

(***************************************************************************)
(* No event is built from part of its lines, wherever the connection ends  *)
(* (http.py:110-121, client.py:378-401).                                   *)
(***************************************************************************)
DeliveredWhole == \A i \in DOMAIN delivered : delivered[i].whole

(***************************************************************************)
(* max_reconnect_attempts bounds the reconnects of one iterator: 0 means a *)
(* single connection (client.py:226, README.md:57).                        *)
(***************************************************************************)
ReconnectBudget ==
  call.max_reconnect_attempts # None => tries <= call.max_reconnect_attempts + 1

(***************************************************************************)
(* During one outage every sleep is twice the one before, up to the cap,   *)
(* and an outage after a good connection starts over (client.py:224, 240,  *)
(* 256-257).                                                               *)
(***************************************************************************)
BackoffSchedule ==
  \A i \in DOMAIN slept :
    slept[i] = IF i = 1 THEN Min2(InitialBackoff, MaxBackoff)
               ELSE Min2(2 * slept[i - 1], MaxBackoff)

(***************************************************************************)
(* A non-2xx answer to the stream request is raised as the typed exception *)
(* of raise_for_status (http.py:66, errors.py:3), as for every other call. *)
(***************************************************************************)
ErrorIsTyped == raised # "ResponseNotRead"

(***************************************************************************)
(* Once the consumer holds an id, every attestation published after it is  *)
(* handed out, through any finite number of faults, unless the iterator    *)
(* was abandoned or failed with an exception: it never stops silently      *)
(* (client.py:232-258).                                                    *)
(***************************************************************************)
EventuallyDelivered ==
  \A p \in 1..MaxEvents :
    (0 < current_id /\ current_id < p /\ p <= published /\ log[p] = "attestation")
      ~> (Delivered(p) \/ raised # "none")

(***************************************************************************)
(* The reconnecting client implements the feed without connections: ids,   *)
(* buffers and backoff never show in what is delivered.                    *)
(***************************************************************************)
Feed == INSTANCE EventFeed WITH resume <- call.last_event_id, got <- delivered

ImplementsFeed == Feed!FeedSpec
=============================================================================
