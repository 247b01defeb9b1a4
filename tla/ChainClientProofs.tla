------------------------- MODULE ChainClientProofs -------------------------
(***************************************************************************)
(* What holds of the request path for any number of clients and calls, any *)
(* way they share httpx clients and any registry.                          *)
(***************************************************************************)
EXTENDS ChainClient, FiniteSetTheorems, TLAPS

-----------------------------------------------------------------------------
(* Operators. *)

LEMMA AcceptType ==
  ASSUME NEW method
  PROVE  Accept(method) \in {"application/json", "application/octet-stream", "text/event-stream"}
BY Zenon DEF Accept

(* The table of errors.py, one exception for each status code.             *)
LEMMA ErrorTable ==
  ASSUME NEW code \in Nat
  PROVE  /\ code \in {401, 403} => MapResponseToError(code) = "DeepidvAuthError"
         /\ code = 404 => MapResponseToError(code) = "DeepidvNotFoundError"
         /\ code = 429 => MapResponseToError(code) = "DeepidvRateLimitError"
         /\ code \in 500..599 => MapResponseToError(code) = "DeepidvServerError"
         /\ code \notin {401, 403, 404, 429} \cup (500..599)
              => MapResponseToError(code) = "DeepidvApiError"
<1>1. CASE code \in {401, 403}
  BY <1>1 DEF MapResponseToError
<1>2. CASE code = 404
  BY <1>2 DEF MapResponseToError
<1>3. CASE code = 429
  BY <1>3 DEF MapResponseToError
<1>4. CASE code \in 500..599
  BY <1>4 DEF MapResponseToError
<1>5. CASE code \notin {401, 403, 404, 429} \cup (500..599)
  BY <1>5 DEF MapResponseToError
<1>6. QED BY <1>1, <1>2, <1>3, <1>4, <1>5

LEMMA MapType ==
  ASSUME NEW code \in Nat
  PROVE  MapResponseToError(code) \in ApiErrors
BY ErrorTable DEF ApiErrors

LEMMA ParseErrorType ==
  ASSUME NEW method, NEW body
  PROVE  ParseError(method, body) \in {None, "JSONDecodeError", "ValidationError"}
BY Zenon DEF ParseError

LEMMA FiltersType ==
  ASSUME NEW f \in [revoked : RevokedFilters, cursor : 0..MaxRecords]
  PROVE  /\ FiltersToParams(f) \in Params
         /\ FiltersToParams(f).cursor = f.cursor
         /\ FiltersToParams(f).revoked =
              IF f.revoked = None THEN "absent" ELSE IF f.revoked THEN "true" ELSE "false"
<1>1. f.revoked \in BOOLEAN \cup {None} /\ f.cursor \in 0..MaxRecords
  BY ChainClientAssumption
<1>2. None # TRUE /\ None # FALSE
  BY ChainClientAssumption
<1>3. CASE f.revoked = None
  BY <1>1, <1>2, <1>3, Zenon DEF FiltersToParams, Params
<1>4. QED BY <1>1, <1>2, <1>3 DEF FiltersToParams, Params

\* The summaries of a set of rows, as they stand in the registry.
Summaries(R) == {[of |-> p, revoked |-> p \in revoked] : p \in R}

(* There are as many as there are rows.                                    *)
LEMMA SummariesType ==
  ASSUME NEW R \in SUBSET (1..MaxRecords)
  PROVE  /\ Summaries(R) \in SUBSET [of : 1..MaxRecords, revoked : BOOLEAN]
         /\ IsFiniteSet(Summaries(R))
         /\ Cardinality(Summaries(R)) = Cardinality(R)
         /\ {s.of : s \in Summaries(R)} = R
         /\ \A s \in Summaries(R) : s.revoked <=> s.of \in revoked
<1> DEFINE summary(p) == [of |-> p, revoked |-> p \in revoked]
<1>1. \A p : summary(p).of = p /\ (summary(p).revoked <=> p \in revoked)
  OBVIOUS
<1>2. \A p \in R : summary(p) \in [of : 1..MaxRecords, revoked : BOOLEAN]
  <2> TAKE p \in R
  <2>1. (p \in revoked) \in BOOLEAN
    OBVIOUS
  <2>2. QED BY <2>1
<1>3. Summaries(R) = {summary(p) : p \in R}
  BY DEF Summaries
<1> HIDE DEF summary
<1>4. IsFiniteSet(R)
  <2>1. IsFiniteSet(1..MaxRecords)
    BY ChainClientAssumption, FS_Interval
  <2>2. QED BY <2>1, FS_Subset
<1>5. /\ IsFiniteSet(Summaries(R))
      /\ Cardinality(Summaries(R)) <= Cardinality(R)
  <2> DEFINE f == [p \in R |-> summary(p)]
  <2>1. f \in Surjection(R, Summaries(R))
    BY <1>3 DEF Surjection
  <2>2. QED BY <1>4, <2>1, FS_Surjection
<1>6. Cardinality(R) <= Cardinality(Summaries(R))
  <2> DEFINE f == [s \in Summaries(R) |-> s.of]
  <2>1. f \in Surjection(Summaries(R), R)
    BY <1>1, <1>3 DEF Surjection
  <2>2. QED BY <1>5, <2>1, FS_Surjection
<1>7. Cardinality(R) \in Nat /\ Cardinality(Summaries(R)) \in Nat
  BY <1>4, <1>5, FS_CardinalityType
<1>8. {s.of : s \in Summaries(R)} = R
  <2>1. \A s \in Summaries(R) : s.of \in R
    BY <1>1, <1>3
  <2>2. \A p \in R : summary(p) \in Summaries(R) /\ summary(p).of = p
    BY <1>1, <1>3
  <2>3. QED BY <2>1, <2>2
<1>9. \A s \in Summaries(R) : s.revoked <=> s.of \in revoked
  BY <1>1, <1>3
<1>10. QED BY <1>2, <1>3, <1>5, <1>6, <1>7, <1>8, <1>9

-----------------------------------------------------------------------------
(* Types. *)

LEMMA TypeInit == Init => TypeOK
<1> SUFFICES ASSUME Init PROVE TypeOK
  OBVIOUS
<1>1. headers \in [Clients -> Headers]
  BY DEF Init, DefaultHeaders, Headers
<1>2. request \in [Calls -> [headers : Headers, params : Params \cup {None}] \cup {None}]
  BY DEF Init
<1>3. filters \in [revoked : RevokedFilters, cursor : 0..MaxRecords]
  BY ChainClientAssumption DEF Init
<1>4. cursor \in [Calls -> 0..MaxRecords] /\ total \in [Calls -> Nat]
  BY ChainClientAssumption DEF Init
<1>5. status \in [Calls -> Statuses \cup {0, 200}] /\ raised \in [Calls -> Exceptions \cup {None}]
  BY DEF Init
<1>6. listed \in [Calls -> SUBSET [of : 1..MaxRecords, revoked : BOOLEAN]]
      /\ due \in [Calls -> SUBSET (1..MaxRecords)]
  BY DEF Init
<1>7. /\ pc \in [Calls -> {"ready", "prepared", "sent", "streaming", "done"}]
      /\ \A t \in Calls : pc[t] = "ready" /\ cursor[t] = 0
  BY DEF Init
<1>8. minted \in 0..MaxRecords /\ revoked \subseteq 1..minted
  BY ChainClientAssumption DEF Init
<1>9. QED
  BY <1>1, <1>2, <1>3, <1>4, <1>5, <1>6, <1>7, <1>8 DEF Init, TypeOK, Searches

\* What the assumptions say of a call and its client.
LEMMA PlanType ==
  ASSUME TypeOK, NEW t \in Calls
  PROVE  Client(t) \in Clients /\ Method(t) \in Methods
<1>1. plan \in [Calls -> [client : Clients, method : Methods]]
  BY ChainClientAssumption DEF TypeOK
<1>2. QED BY <1>1 DEF Client, Method

LEMMA ListParamsType ==
  ASSUME TypeOK, NEW t \in Calls
  PROVE  /\ ListParams(t) \in Params
         /\ ListParams(t).revoked = FiltersToParams(filters).revoked
         /\ filters.cursor = 0 => ListParams(t).cursor = cursor[t]
<1>1. filters \in [revoked : RevokedFilters, cursor : 0..MaxRecords] /\ cursor[t] \in 0..MaxRecords
  BY DEF TypeOK
<1>2. FiltersToParams(filters) \in Params /\ FiltersToParams(filters).cursor = filters.cursor
  BY <1>1, FiltersType
<1>3. QED BY <1>1, <1>2 DEF ListParams, Params

LEMMA RequestType ==
  ASSUME TypeOK, NEW t \in Calls
  PROVE  /\ RequestOf(t) \in [headers : Headers, params : Params \cup {None}]
         /\ Pages(t) => RequestOf(t).params = ListParams(t) /\ ListParams(t) \in Params
<1>1. headers[Client(t)] \in Headers
  BY PlanType DEF TypeOK
<1>2. ListParams(t) \in Params
  BY ListParamsType
<1>3. Method(t) = "stream" => cursor[t] \in {0, 1}
  BY DEF TypeOK
<1>4. Accept(Method(t)) \in {"application/json", "application/octet-stream", "text/event-stream"}
  BY AcceptType
<1>5. [headers[Client(t)] EXCEPT !.accept = Accept(Method(t)),
         !.last_event_id = IF Method(t) = "stream" /\ cursor[t] # 0 THEN cursor[t] ELSE @]
      \in Headers
  BY <1>1, <1>3, <1>4 DEF Headers
<1>6. QED BY <1>2, <1>5 DEF RequestOf

\* The rows a page covers begin here and go down to `last`.
First(t) == IF request[t].params.cursor = 0 THEN minted ELSE request[t].params.cursor - 1

Rows(t, last) == {q \in last..First(t) : Wanted(request[t].params, q)}

(* What the service answers a search with.                                 *)
LEMMA PagedAnswer ==
  ASSUME TypeOK, NEW t \in Calls, Paged(t)
  PROVE  /\ pc[t] = "sent" /\ Pages(t) /\ First(t) \in 0..MaxRecords
         /\ \E last \in 1..MaxRecords, next \in 0..MaxRecords :
              /\ (next = last /\ First(t) # 0) \/ (next = 0 /\ last = 1)
              /\ last <= First(t) \/ (First(t) = 0 /\ last = 1)
              /\ Rows(t, last) \in SUBSET (1..MaxRecords)
              /\ TakePage(t, Summaries(Rows(t, last)), next)
         /\ due' = IF cursor[t] = 0
                   THEN [due EXCEPT ![t] = {p \in 1..minted : Wanted(request[t].params, p)}]
                   ELSE due
         /\ status' = [status EXCEPT ![t] = 200]
         /\ UNCHANGED <<configuration, headers, filters, closed, withdrawn, registry, request>>
<1>1. pc[t] = "sent" /\ Pages(t) /\ t \in Searches
  BY DEF Paged, Searches
<1>2. request[t].params.cursor \in 0..MaxRecords
  BY <1>1 DEF TypeOK, Params
<1>3. minted \in 0..MaxRecords /\ MaxRecords \in Nat
  BY ChainClientAssumption DEF TypeOK
<1>4. First(t) \in 0..MaxRecords
  BY <1>2, <1>3 DEF First
<1>5. PICK last \in 1..MaxRecords, next \in 0..MaxRecords :
        /\ (next = last /\ First(t) # 0) \/ (next = 0 /\ last = 1)
        /\ last <= First(t) \/ (First(t) = 0 /\ last = 1)
        /\ TakePage(t, Summaries(Rows(t, last)), next)
  BY DEF Paged, First, Rows, Summaries
<1>6. Rows(t, last) \in SUBSET (1..MaxRecords)
  BY <1>3, <1>4 DEF Rows
<1>7. \E last_ \in 1..MaxRecords, next_ \in 0..MaxRecords :
        /\ (next_ = last_ /\ First(t) # 0) \/ (next_ = 0 /\ last_ = 1)
        /\ last_ <= First(t) \/ (First(t) = 0 /\ last_ = 1)
        /\ Rows(t, last_) \in SUBSET (1..MaxRecords)
        /\ TakePage(t, Summaries(Rows(t, last_)), next_)
  BY <1>5, <1>6, Zenon
<1>8. QED BY <1>1, <1>4, <1>7 DEF Paged

Places == {"ready", "prepared", "sent", "streaming", "done"}

LEMMA EndType ==
  ASSUME TypeOK, NEW t \in Calls, NEW exception \in Exceptions \cup {None}, End(t, exception)
  PROVE  /\ pc' \in [Calls -> Places] /\ raised' \in [Calls -> Exceptions \cup {None}]
         /\ \A u \in Calls : pc'[u] \in {pc[u], "done"}
BY DEF End, TypeOK, Places

(* A step that touches no request and none of what a search holds.         *)
LEMMA TypeMoves ==
  ASSUME TypeOK,
         UNCHANGED <<configuration, headers, filters, closed, withdrawn, registry, request, search>>,
         pc' \in [Calls -> Places],
         raised' \in [Calls -> Exceptions \cup {None}],
         status' \in [Calls -> Statuses \cup {0, 200}],
         \A u \in Calls : pc'[u] \in {"prepared", "sent"} => pc[u] \in {"prepared", "sent"}
  PROVE  TypeOK'
<1> USE DEF configuration, registry, search
<1>1. \A u \in Searches' : u \in Searches /\ u \in Calls
  BY DEF Searches, Pages, Method
<1>2. \A u \in Searches' : pc'[u] \in {"prepared", "sent"} => request'[u].params \in Params'
  BY <1>1 DEF TypeOK, Params
<1>3. \A u \in Calls : Method(u)' = "stream" => cursor'[u] \in {0, 1}
  BY DEF TypeOK, Method
<1>4. QED BY <1>2, <1>3 DEF TypeOK, Places, Headers, Params

(* One that touches nothing of a call.                                     *)
LEMMA TypeAround ==
  ASSUME TypeOK,
         UNCHANGED <<configuration, headers, filters, pc, request, search, status, raised>>,
         closed' \subseteq Clients \cup {Injected}, withdrawn' \in BOOLEAN,
         minted' \in 0..MaxRecords, revoked' \subseteq 1..minted'
  PROVE  TypeOK'
<1> USE DEF configuration, search
<1>1. \A u \in Searches' : u \in Searches /\ u \in Calls
  BY DEF Searches, Pages, Method
<1>2. \A u \in Searches' : pc'[u] \in {"prepared", "sent"} => request'[u].params \in Params'
  BY <1>1 DEF TypeOK, Params
<1>3. \A u \in Calls : Method(u)' = "stream" => cursor'[u] \in {0, 1}
  BY DEF TypeOK, Method
<1>4. QED BY <1>2, <1>3 DEF TypeOK, Headers, Params

LEMMA TypePrepare ==
  ASSUME TypeOK, NEW t \in Calls, Prepare(t)
  PROVE  TypeOK'
<1> USE DEF configuration, registry, search
<1>1. RequestOf(t) \in [headers : Headers, params : Params \cup {None}]
  BY RequestType
<1>2. request' = [request EXCEPT ![t] = RequestOf(t)] /\ pc' = [pc EXCEPT ![t] = "prepared"]
  BY DEF Prepare
<1>3. /\ request \in [Calls -> [headers : Headers, params : Params \cup {None}] \cup {None}]
      /\ pc \in [Calls -> Places]
  BY DEF TypeOK, Places
<1>4. /\ request' \in [Calls -> [headers : Headers, params : Params \cup {None}] \cup {None}]
      /\ pc' \in [Calls -> Places]
  BY <1>1, <1>2, <1>3 DEF Places
<1>5. UNCHANGED <<plan, http, headers, filters, closed, withdrawn, minted, revoked, cursor, listed,
                  total, due, status, raised>>
  BY DEF Prepare
<1>6. \A u \in Calls : /\ Pages(u)' <=> Pages(u)
                       /\ Method(u)' = Method(u)
  BY <1>5 DEF Pages, Method
<1>7. \A u \in Searches' : pc'[u] \in {"prepared", "sent"} => request'[u].params \in Params
  <2> SUFFICES ASSUME NEW u \in Calls, Pages(u), pc'[u] \in {"prepared", "sent"}
               PROVE  request'[u].params \in Params
    BY <1>6 DEF Searches
  <2>1. CASE u = t
    BY <1>2, <1>3, <2>1, RequestType
  <2>2. CASE u # t
    BY <1>2, <1>3, <2>2 DEF TypeOK, Searches
  <2>3. QED BY <2>1, <2>2
<1>8. \A u \in Calls : Method(u)' = "stream" => cursor'[u] \in {0, 1}
  BY <1>5, <1>6 DEF TypeOK
<1>9. QED BY <1>4, <1>5, <1>7, <1>8 DEF TypeOK, Places, Headers, Params

LEMMA TypePaged ==
  ASSUME TypeOK, NEW t \in Calls, Paged(t)
  PROVE  TypeOK'
<1> USE DEF configuration, registry
<1>1. PICK last \in 1..MaxRecords, next \in 0..MaxRecords :
        /\ Rows(t, last) \in SUBSET (1..MaxRecords)
        /\ TakePage(t, Summaries(Rows(t, last)), next)
  BY PagedAnswer
<1> DEFINE items == Summaries(Rows(t, last))
<1>2. /\ items \in SUBSET [of : 1..MaxRecords, revoked : BOOLEAN]
      /\ Cardinality(items) \in Nat
  BY <1>1, SummariesType, FS_CardinalityType
<1>3. TakePage(t, items, next)
  BY <1>1
<1> HIDE DEF items
<1>4. /\ pc[t] = "sent" /\ Pages(t)
      /\ due' = IF cursor[t] = 0
                THEN [due EXCEPT ![t] = {p \in 1..minted : Wanted(request[t].params, p)}]
                ELSE due
      /\ status' = [status EXCEPT ![t] = 200]
      /\ UNCHANGED <<plan, http, headers, filters, closed, withdrawn, minted, revoked, request>>
  BY PagedAnswer
<1>5. listed' \in [Calls -> SUBSET [of : 1..MaxRecords, revoked : BOOLEAN]]
  BY <1>2, <1>3 DEF TakePage, TypeOK
<1>6. total' \in [Calls -> Nat]
  BY <1>2, <1>3 DEF TakePage, TypeOK
<1>7. cursor' \in [Calls -> 0..MaxRecords] /\ cursor' = [cursor EXCEPT ![t] = next]
  BY <1>3 DEF TakePage, TypeOK
<1>8. due' \in [Calls -> SUBSET (1..MaxRecords)]
  <2>1. {p \in 1..minted : Wanted(request[t].params, p)} \in SUBSET (1..MaxRecords)
    BY ChainClientAssumption DEF TypeOK
  <2>2. QED BY <1>4, <2>1 DEF TypeOK
<1>9. status' \in [Calls -> Statuses \cup {0, 200}]
  BY <1>4 DEF TypeOK
<1>10. /\ pc' \in [Calls -> Places] /\ raised' \in [Calls -> Exceptions \cup {None}]
       /\ \A u \in Calls : pc'[u] \in {pc[u], "done", "ready"}
  BY <1>3 DEF TakePage, End, TypeOK, Places
<1>11. \A u \in Calls : /\ Pages(u)' <=> Pages(u)
                        /\ Method(u)' = Method(u)
  BY <1>4 DEF Pages, Method
<1>12. \A u \in Searches' : pc'[u] \in {"prepared", "sent"} => request'[u].params \in Params
  BY <1>4, <1>10, <1>11 DEF TypeOK, Searches
<1>13. \A u \in Calls : Method(u)' = "stream" => cursor'[u] \in {0, 1}
  <2>1. Method(t) # "stream"
    BY <1>4 DEF Pages
  <2>2. QED BY <1>7, <1>11, <2>1 DEF TypeOK
<1>14. QED
  BY <1>4, <1>5, <1>6, <1>7, <1>8, <1>9, <1>10, <1>12, <1>13 DEF TypeOK, Places, Headers, Params

\* The steps of a call that neither make a request nor take a page or an event.
Moves(t) ==
  Send(t) \/ Rejected(t) \/ Answered(t) \/ StreamAnswered(t) \/ OnTransportError(t) \/ Cancel(t)

(* They move the call along or end it.                                     *)
LEMMA MovesType ==
  ASSUME TypeOK, NEW t \in Calls, Moves(t)
  PROVE  /\ UNCHANGED <<configuration, headers, filters, closed, withdrawn, registry, request, search>>
         /\ pc' \in [Calls -> Places]
         /\ raised' \in [Calls -> Exceptions \cup {None}]
         /\ status' \in [Calls -> Statuses \cup {0, 200}]
         /\ \A u \in Calls : pc'[u] \in {"prepared", "sent"} => pc[u] \in {"prepared", "sent"}
         /\ \A u \in Calls : u # t => pc'[u] = pc[u] /\ raised'[u] = raised[u] /\ status'[u] = status[u]
<1>1. /\ pc \in [Calls -> Places]
      /\ raised \in [Calls -> Exceptions \cup {None}]
      /\ status \in [Calls -> Statuses \cup {0, 200}]
  BY DEF TypeOK, Places
<1>2. CASE Send(t)
  <2>1. CASE End(t, "RuntimeError")
    BY <1>1, <1>2, <2>1 DEF Send, End, Places, Exceptions
  <2>2. CASE pc' = [pc EXCEPT ![t] = "sent"] /\ UNCHANGED raised
    BY <1>1, <1>2, <2>2 DEF Send, Places
  <2>3. QED BY <1>2, <2>1, <2>2 DEF Send
<1>3. CASE Rejected(t)
  <2>1. PICK code \in Statuses :
          /\ status' = [status EXCEPT ![t] = code]
          /\ End(t, MapResponseToError(code))
          /\ UNCHANGED <<configuration, headers, filters, closed, withdrawn, registry, request, search>>
    BY <1>3 DEF Rejected
  <2>2. MapResponseToError(code) \in Exceptions
    BY MapType, ChainClientAssumption DEF Exceptions
  <2>3. QED BY <1>1, <2>1, <2>2 DEF End, Places
<1>4. CASE Answered(t)
  <2>1. PICK code \in Statuses, body \in Bodies :
          /\ status' = [status EXCEPT ![t] = code]
          /\ End(t, ParseError(Method(t), body))
          /\ UNCHANGED <<configuration, headers, filters, closed, withdrawn, registry, request, search>>
    BY <1>4 DEF Answered
  <2>2. ParseError(Method(t), body) \in Exceptions \cup {None}
    BY ParseErrorType DEF Exceptions
  <2>3. QED BY <1>1, <2>1, <2>2 DEF End, Places
<1>5. CASE StreamAnswered(t)
  <2>1. PICK code \in Statuses :
          /\ status' = [status EXCEPT ![t] = code]
          /\ \/ pc' = [pc EXCEPT ![t] = "streaming"] /\ UNCHANGED raised
             \/ End(t, "ResponseNotRead")
          /\ UNCHANGED <<configuration, headers, filters, closed, withdrawn, registry, request, search>>
    BY <1>5 DEF StreamAnswered
  <2>2. QED BY <1>1, <2>1 DEF End, Places, Exceptions
<1>6. CASE OnTransportError(t)
  BY <1>1, <1>6 DEF OnTransportError, End, Places, Exceptions
<1>7. CASE Cancel(t)
  BY <1>1, <1>7 DEF Cancel, End, Places, Exceptions
<1>8. QED BY <1>2, <1>3, <1>4, <1>5, <1>6, <1>7 DEF Moves

LEMMA TypeStreamEvent ==
  ASSUME TypeOK, NEW t \in Calls, StreamEvent(t)
  PROVE  TypeOK'
<1> USE DEF configuration, registry
<1>1. cursor' = [cursor EXCEPT ![t] = 1]
  BY DEF StreamEvent
<1>2. cursor' \in [Calls -> 0..MaxRecords]
  BY <1>1, ChainClientAssumption DEF TypeOK
<1>3. UNCHANGED <<plan, http, headers, filters, closed, withdrawn, minted, revoked, pc, request,
                  listed, total, due, status, raised>>
  BY DEF StreamEvent
<1>4. \A u \in Calls : /\ Pages(u)' <=> Pages(u)
                       /\ Method(u)' = Method(u)
  BY <1>3 DEF Pages, Method
<1>5. \A u \in Searches' : pc'[u] \in {"prepared", "sent"} => request'[u].params \in Params
  BY <1>3, <1>4 DEF TypeOK, Searches
<1>6. \A u \in Calls : Method(u)' = "stream" => cursor'[u] \in {0, 1}
  BY <1>1, <1>4 DEF TypeOK
<1>7. QED BY <1>2, <1>3, <1>5, <1>6 DEF TypeOK, Headers, Params

\* Nothing of a call changes.
Same(t) ==
  /\ pc'[t] = pc[t] /\ request'[t] = request[t] /\ cursor'[t] = cursor[t]
  /\ listed'[t] = listed[t] /\ total'[t] = total[t] /\ due'[t] = due[t]
  /\ status'[t] = status[t] /\ raised'[t] = raised[t]

\* The steps of everyone but the calls.
Environment ==
  (\E c \in Clients : Close(c)) \/ Withdraw \/ Mint \/ Revoke \/ UNCHANGED vars

(* They leave the calls alone; the registry only grows, and the httpx      *)
(* client of the application is closed by the application.                 *)
LEMMA EnvironmentType ==
  ASSUME TypeOK, Environment
  PROVE  /\ UNCHANGED <<configuration, headers, filters, pc, request, search, status, raised>>
         /\ closed' \subseteq Clients \cup {Injected} /\ withdrawn' \in BOOLEAN
         /\ minted' \in 0..MaxRecords /\ minted <= minted'
         /\ revoked' \subseteq 1..minted' /\ revoked \subseteq revoked'
         /\ Injected \in closed' => Injected \in closed \/ withdrawn'
         /\ withdrawn => withdrawn'
<1>1. /\ closed \subseteq Clients \cup {Injected} /\ withdrawn \in BOOLEAN
      /\ minted \in 0..MaxRecords /\ revoked \subseteq 1..minted
  BY DEF TypeOK
<1>2. CASE \E c \in Clients : Close(c)
  <2>1. PICK c \in Clients : Close(c)
    BY <1>2
  <2>2. closed' = closed \cup {c} /\ Injected # c
    BY <2>1, ChainClientAssumption DEF Close, OwnsHttp
  <2>3. UNCHANGED <<configuration, headers, filters, withdrawn, registry, pc, request, search, status, raised>>
    BY <2>1 DEF Close
  <2>4. QED BY <1>1, <2>2, <2>3 DEF registry
<1>3. CASE Withdraw
  BY <1>1, <1>3 DEF Withdraw, registry
<1>4. CASE Mint
  <2>1. /\ UNCHANGED <<configuration, headers, filters, closed, withdrawn, revoked, pc, request, search, status, raised>>
        /\ minted' = minted + 1 /\ minted < MaxRecords
    BY <1>4 DEF Mint
  <2>2. minted' \in 0..MaxRecords /\ minted <= minted' /\ 1..minted \subseteq 1..minted'
    BY <1>1, <2>1, ChainClientAssumption
  <2>3. QED BY <1>1, <2>1, <2>2
<1>5. CASE Revoke
  <2>1. /\ UNCHANGED <<configuration, headers, filters, closed, withdrawn, minted, pc, request, search, status, raised>>
        /\ \E p \in 1..minted : revoked' = revoked \cup {p}
    BY <1>5 DEF Revoke
  <2>2. QED BY <1>1, <2>1, ChainClientAssumption
<1>6. CASE UNCHANGED vars
  BY <1>1, <1>6, ChainClientAssumption DEF vars, registry
<1>7. QED BY <1>2, <1>3, <1>4, <1>5, <1>6 DEF Environment

(* A step is one of a call or one of everyone else.                        *)
LEMMA StepCases ==
  ASSUME [Next]_vars
  PROVE  \/ \E t \in Calls : Prepare(t) \/ Moves(t) \/ StreamEvent(t) \/ Paged(t)
         \/ Environment
<1>1. CASE Next
  <2>1. CASE \E t \in Calls : Call(t) \/ Stream(t) \/ Dropped(t) \/ BrokenByClose(t) \/ Cancel(t)
    <3>1. PICK t \in Calls : Call(t) \/ Stream(t) \/ Dropped(t) \/ BrokenByClose(t) \/ Cancel(t)
      BY <2>1
    <3>2. Prepare(t) \/ Moves(t) \/ StreamEvent(t) \/ Paged(t)
      BY <3>1 DEF Call, Stream, Dropped, BrokenByClose, Moves
    <3>3. QED BY <3>2
  <2>2. CASE (\E c \in Clients : Close(c)) \/ Withdraw \/ Mint \/ Revoke \/ Quiet
    BY <2>2 DEF Quiet, Environment
  <2>3. QED BY <1>1, <2>1, <2>2 DEF Next
<1>2. QED BY <1>1 DEF Environment

LEMMA TypeStep ==
  ASSUME TypeOK, [Next]_vars
  PROVE  TypeOK'
<1>1. CASE \E t \in Calls : Prepare(t) \/ Moves(t) \/ StreamEvent(t) \/ Paged(t)
  <2>1. PICK t \in Calls : Prepare(t) \/ Moves(t) \/ StreamEvent(t) \/ Paged(t)
    BY <1>1
  <2>2. CASE Moves(t)
    BY <2>2, MovesType, TypeMoves
  <2>3. QED BY <2>1, <2>2, TypePrepare, TypeStreamEvent, TypePaged
<1>2. CASE Environment
  BY <1>2, EnvironmentType, TypeAround
<1>3. QED BY <1>1, <1>2, StepCases

(***************************************************************************)
(* The types of the variables, and the exceptions a call may end with      *)
(* (client.py:149-258, http.py:47-62).                                     *)
(***************************************************************************)
THEOREM TypeCorrect == Spec => []TypeOK
<1>1. TypeOK /\ [Next]_vars => TypeOK'
  BY TypeStep
<1>2. QED BY <1>1, TypeInit, PTL DEF Spec

-----------------------------------------------------------------------------
(* One call at a time. *)

(* Who uses which httpx client, the default headers and the filter of the  *)
(* caller stay as they are; a call changes by a step of its own or not.    *)
LEMMA CallStep ==
  ASSUME TypeOK, [Next]_vars, NEW u \in Calls
  PROVE  /\ UNCHANGED <<configuration, headers, filters>>
         /\ Prepare(u) \/ Moves(u) \/ StreamEvent(u) \/ Paged(u) \/ Same(u)
<1>1. CASE \E t \in Calls : Prepare(t) \/ Moves(t) \/ StreamEvent(t) \/ Paged(t)
  <2>1. PICK t \in Calls : Prepare(t) \/ Moves(t) \/ StreamEvent(t) \/ Paged(t)
    BY <1>1
  <2>2. UNCHANGED <<configuration, headers, filters>>
    BY <2>1, MovesType, PagedAnswer DEF Prepare, StreamEvent
  <2>3. ASSUME u # t
        PROVE  Same(u)
    <3>1. CASE Prepare(t)
      BY <2>3, <3>1 DEF Prepare, search, Same, TypeOK
    <3>2. CASE Moves(t)
      BY <2>3, <3>2, MovesType DEF search, Same
    <3>3. CASE StreamEvent(t)
      BY <2>3, <3>3 DEF StreamEvent, Same, TypeOK
    <3>4. CASE Paged(t)
      <4>1. /\ \E items, next : TakePage(t, items, next)
            /\ due'[u] = due[u] /\ status'[u] = status[u] /\ request'[u] = request[u]
        BY <2>3, <3>4, PagedAnswer DEF TypeOK
      <4>2. QED BY <2>3, <4>1 DEF TakePage, End, Same, TypeOK
    <3>5. QED BY <2>1, <3>1, <3>2, <3>3, <3>4
  <2>4. QED BY <2>1, <2>2, <2>3
<1>2. CASE Environment
  BY <1>2, EnvironmentType DEF search, Same
<1>3. QED BY <1>1, <1>2, StepCases

-----------------------------------------------------------------------------
(* Requests. *)

\* A request is what RequestOf would make of the state the client is in now, and the
\* client still has the headers it was built with.
Current ==
  /\ headers = [c \in Clients |-> DefaultHeaders(c)]
  /\ filters.cursor = 0
  /\ \A t \in Calls : pc[t] \in {"prepared", "sent"} => request[t] = RequestOf(t)

LEMMA CurrentInit == Init => Current
<1>1. Init => filters.cursor = 0
  BY DEF Init
<1>2. QED BY <1>1 DEF Init, Current

LEMMA RequestKept ==
  ASSUME UNCHANGED <<configuration, headers, filters>>, NEW t \in Calls, cursor'[t] = cursor[t]
  PROVE  RequestOf(t)' = RequestOf(t)
BY DEF configuration, RequestOf, ListParams, FiltersToParams, Pages, Method, Client

LEMMA CurrentStep ==
  ASSUME TypeOK, Current, [Next]_vars
  PROVE  Current'
<1>1. UNCHANGED <<headers, filters>>
  BY CallStep, StepCases, EnvironmentType, MovesType, PagedAnswer DEF Prepare, StreamEvent
<1>2. ASSUME NEW t \in Calls, pc'[t] \in {"prepared", "sent"}
      PROVE  request'[t] = RequestOf(t)'
  <2>1. UNCHANGED <<configuration, headers, filters>>
    BY CallStep
  <2>2. CASE Prepare(t)
    <3>1. cursor' = cursor /\ request'[t] = RequestOf(t)
      BY <2>2 DEF Prepare, search, TypeOK
    <3>2. QED BY <2>1, <3>1, RequestKept
  <2>3. CASE Moves(t)
    <3>1. cursor' = cursor /\ request' = request /\ pc[t] \in {"prepared", "sent"}
      BY <1>2, <2>3, MovesType DEF search
    <3>2. QED BY <2>1, <3>1, RequestKept DEF Current
  <2>4. ASSUME StreamEvent(t)
        PROVE  FALSE
    BY <1>2, <2>4 DEF StreamEvent
  <2>5. ASSUME Paged(t)
        PROVE  FALSE
    BY <1>2, <2>5, PagedAnswer DEF TakePage, End, TypeOK
  <2>6. CASE Same(t)
    <3>1. cursor'[t] = cursor[t] /\ request'[t] = request[t] /\ pc[t] \in {"prepared", "sent"}
      BY <1>2, <2>6 DEF Same
    <3>2. QED BY <2>1, <3>1, RequestKept DEF Current
  <2>7. QED BY <2>2, <2>3, <2>4, <2>5, <2>6, CallStep
<1>3. QED BY <1>1, <1>2 DEF Current, DefaultHeaders

LEMMA CurrentImplies == TypeOK /\ Current => HeadersAreOwn
<1> SUFFICES ASSUME TypeOK, Current, NEW t \in Calls, pc[t] \in {"prepared", "sent"}
             PROVE  request[t].headers =
                      [authorization |-> Client(t), accept |-> Accept(Method(t)),
                       last_event_id |-> IF Method(t) = "stream" THEN cursor[t] ELSE 0]
  BY DEF HeadersAreOwn
<1>1. request[t] = RequestOf(t)
  BY DEF Current
<1>2. headers[Client(t)] =
        [authorization |-> Client(t), accept |-> "application/json", last_event_id |-> 0]
  BY PlanType DEF Current, DefaultHeaders
<1> DEFINE base == headers[Client(t)]
           accept == Accept(Method(t))
           id == IF Method(t) = "stream" THEN cursor[t] ELSE 0
<1>3. request[t].headers =
        [base EXCEPT
           !.accept = accept,
           !.last_event_id = IF Method(t) = "stream" /\ cursor[t] # 0 THEN cursor[t] ELSE @]
  BY <1>1 DEF RequestOf
<1>4. base \in [authorization : {Client(t)}, accept : {"application/json"}, last_event_id : {0}]
  BY <1>2
<1> HIDE DEF base, accept
<1>5. request[t].headers = [base EXCEPT !.accept = accept, !.last_event_id = id]
  BY <1>3, <1>4
<1> HIDE DEF id
<1>6. request[t].headers \in [authorization : {Client(t)}, accept : {accept}, last_event_id : {id}]
  BY <1>4, <1>5
<1>7. request[t].headers = [authorization |-> Client(t), accept |-> accept, last_event_id |-> id]
  BY <1>6
<1>8. QED BY <1>7 DEF accept, id

(***************************************************************************)
(* A request carries the key of its own client, the accept header of its   *)
(* own method and an id to resume after only if it is a stream that has    *)
(* one, whatever other calls of the same client are doing (client.py:      *)
(* 158-159, 233-236, 305-306, 375-378).                                    *)
(***************************************************************************)
THEOREM RequestsAreOwn == Spec => []HeadersAreOwn
<1>1. Init => TypeOK /\ Current
  BY TypeInit, CurrentInit
<1>2. TypeOK /\ Current /\ [Next]_vars => (TypeOK /\ Current)'
  BY TypeStep, CurrentStep
<1>3. QED BY <1>1, <1>2, CurrentImplies, PTL DEF Spec

-----------------------------------------------------------------------------
(* Closing. *)

\* Of the httpx clients that are shared only the application closes any.
Owned == Injected \in closed => withdrawn

LEMMA OwnedStep ==
  ASSUME TypeOK, Owned, [Next]_vars
  PROVE  Owned' /\ (withdrawn => withdrawn')
<1>1. CASE \E t \in Calls : Prepare(t) \/ Moves(t) \/ StreamEvent(t) \/ Paged(t)
  <2>1. UNCHANGED <<closed, withdrawn>>
    BY <1>1, MovesType, PagedAnswer DEF Prepare, StreamEvent
  <2>2. QED BY <2>1 DEF Owned
<1>2. CASE Environment
  BY <1>2, EnvironmentType DEF Owned
<1>3. QED BY <1>1, <1>2, StepCases

(* How a call comes to be refused.                                         *)
LEMMA Refused ==
  ASSUME TypeOK, [Next]_vars, NEW t \in Calls,
         raised'[t] = "RuntimeError", raised[t] # "RuntimeError"
  PROVE  Http(t) \in closed
<1>1. pc \in [Calls -> Places] /\ raised \in [Calls -> Exceptions \cup {None}]
  BY DEF TypeOK, Places
<1>2. None # "RuntimeError"
  BY ChainClientAssumption DEF Exceptions
<1>3. ASSUME NEW exception, End(t, exception)
      PROVE  exception = "RuntimeError"
  BY <1>1, <1>3 DEF End
<1>4. CASE Moves(t)
  <2>1. CASE Send(t)
    BY <2>1 DEF Send
  <2>2. ASSUME Rejected(t)
        PROVE  FALSE
    <3>1. PICK code \in Statuses : End(t, MapResponseToError(code))
      BY <2>2 DEF Rejected
    <3>2. MapResponseToError(code) \in ApiErrors
      BY MapType, ChainClientAssumption
    <3>3. QED BY <1>3, <3>1, <3>2 DEF ApiErrors
  <2>3. ASSUME Answered(t)
        PROVE  FALSE
    <3>1. PICK body \in Bodies : End(t, ParseError(Method(t), body))
      BY <2>3 DEF Answered
    <3>2. QED BY <1>2, <1>3, <3>1, ParseErrorType
  <2>4. ASSUME StreamAnswered(t)
        PROVE  FALSE
    <3>1. UNCHANGED raised \/ End(t, "ResponseNotRead")
      BY <2>4 DEF StreamAnswered
    <3>2. QED BY <1>3, <3>1
  <2>5. ASSUME OnTransportError(t)
        PROVE  FALSE
    <3>1. UNCHANGED raised \/ End(t, "TransportError")
      BY <2>5 DEF OnTransportError
    <3>2. QED BY <1>3, <3>1
  <2>6. ASSUME Cancel(t)
        PROVE  FALSE
    <3>1. End(t, "CancelledError")
      BY <2>6 DEF Cancel
    <3>2. QED BY <1>3, <3>1
  <2>7. QED BY <1>4, <2>1, <2>2, <2>3, <2>4, <2>5, <2>6 DEF Moves
<1>5. ASSUME Paged(t)
      PROVE  FALSE
  <2>1. UNCHANGED raised \/ End(t, None)
    BY <1>5, PagedAnswer DEF TakePage
  <2>2. QED BY <1>2, <1>3, <2>1
<1>6. ASSUME Prepare(t) \/ StreamEvent(t) \/ Same(t)
      PROVE  FALSE
  BY <1>6 DEF Prepare, StreamEvent, Same
<1>7. QED BY <1>4, <1>5, <1>6, CallStep

LEMMA ClosedByOwnerStep ==
  ASSUME TypeOK, Owned, ClosedByOwner, [Next]_vars
  PROVE  ClosedByOwner'
<1> SUFFICES ASSUME NEW t \in Calls, raised'[t] = "RuntimeError"
             PROVE  OwnsHttp(Client(t))' \/ withdrawn'
  BY DEF ClosedByOwner
<1>1. OwnsHttp(Client(t))' = OwnsHttp(Client(t))
  BY CallStep DEF configuration, OwnsHttp, Client
<1>2. CASE raised[t] = "RuntimeError"
  BY <1>1, <1>2, OwnedStep DEF ClosedByOwner
<1>3. CASE raised[t] # "RuntimeError"
  <2>1. http[Client(t)] \in closed
    BY <1>3, Refused DEF Http
  <2>2. http[Client(t)] \in {Client(t), Injected}
    BY PlanType, ChainClientAssumption DEF TypeOK
  <2>3. CASE http[Client(t)] = Client(t)
    BY <1>1, <2>3 DEF OwnsHttp
  <2>4. CASE http[Client(t)] = Injected
    BY <2>1, <2>4, OwnedStep DEF Owned
  <2>5. QED BY <2>2, <2>3, <2>4
<1>4. QED BY <1>2, <1>3

(***************************************************************************)
(* A call finds its httpx client closed only if that client was its own    *)
(* and closed itself, or if the application closed the one it injected:    *)
(* clients that share one never take it from each other                    *)
(* (client.py:128-132, 145-147, 275-279, 292-294).                         *)
(***************************************************************************)
THEOREM OnlyOwnersClose == Spec => []ClosedByOwner
<1>1. Init => TypeOK /\ Owned /\ ClosedByOwner
  <2>1. Init => Owned
    BY DEF Init, Owned
  <2>2. Init => ClosedByOwner
    BY ChainClientAssumption DEF Init, ClosedByOwner, Exceptions
  <2>3. QED BY <2>1, <2>2, TypeInit
<1>2. TypeOK /\ Owned /\ ClosedByOwner /\ [Next]_vars => (TypeOK /\ Owned /\ ClosedByOwner)'
  BY TypeStep, OwnedStep, ClosedByOwnerStep
<1>3. QED BY <1>1, <1>2, PTL DEF Spec

-----------------------------------------------------------------------------
(* Errors. *)

Call2xx(t) == raised[t] = None /\ status[t] \in 200..299 \cup {0}

\* A call that has not ended has had no answer but 2xx.
Open == \A t \in Calls : pc[t] # "done" /\ Method(t) # "stream" => Call2xx(t)

\* What ErrorsAreTyped says of one call.
Typed(t) ==
  /\ raised[t] \in ApiErrors <=> status[t] \notin 200..299 \cup {0}
  /\ raised[t] = "DeepidvAuthError" <=> status[t] \in {401, 403}
  /\ raised[t] = "DeepidvNotFoundError" <=> status[t] = 404
  /\ raised[t] = "DeepidvRateLimitError" <=> status[t] = 429
  /\ raised[t] = "DeepidvServerError" <=> status[t] \in 500..599

LEMMA TypedOf ==
  ASSUME NEW t \in Calls, raised[t] \notin ApiErrors, status[t] \in 200..299 \cup {0}
  PROVE  Typed(t)
BY DEF Typed, ApiErrors

LEMMA TypedStep ==
  ASSUME TypeOK, Open, [Next]_vars, NEW t \in Calls, Method(t) # "stream", Typed(t)
  PROVE  Typed(t)' /\ (pc'[t] # "done" => Call2xx(t)')
<1>1. /\ pc \in [Calls -> Places] /\ raised \in [Calls -> Exceptions \cup {None}]
      /\ status \in [Calls -> Statuses \cup {0, 200}]
  BY DEF TypeOK, Places
<1>2. None \notin ApiErrors
  BY ChainClientAssumption DEF Exceptions
<1>3. ASSUME pc[t] # "done", UNCHANGED status, NEW exception, exception \notin ApiErrors,
             End(t, exception) \/ (UNCHANGED raised /\ exception = None)
      PROVE  Typed(t)' /\ (pc'[t] # "done" => Call2xx(t)')
  <2>1. raised[t] = None /\ status'[t] \in 200..299 \cup {0}
    BY <1>3 DEF Open, Call2xx
  <2>2. raised'[t] = exception /\ (pc'[t] # "done" => raised'[t] = None)
    BY <1>1, <1>3, <2>1 DEF End
  <2>3. raised'[t] \notin ApiErrors
    BY <1>3, <2>2
  <2>4. Typed(t)'
    BY <2>1, <2>3 DEF Typed, ApiErrors
  <2>5. QED BY <2>1, <2>2, <2>4 DEF Call2xx
<1>4. CASE Prepare(t)
  BY <1>2, <1>3, <1>4 DEF Prepare
<1>5. CASE Moves(t)
  <2>1. CASE Send(t)
    <3>1. pc[t] # "done" /\ UNCHANGED status /\ (UNCHANGED raised \/ End(t, "RuntimeError"))
      BY <2>1 DEF Send
    <3>2. QED BY <1>2, <1>3, <3>1 DEF ApiErrors
  <2>2. CASE Rejected(t)
    <3>1. PICK code \in Statuses : /\ ~Success(code)
                                  /\ status' = [status EXCEPT ![t] = code]
                                  /\ End(t, MapResponseToError(code))
      BY <2>2 DEF Rejected
    <3>2. /\ status'[t] = code /\ code \in 100..999 /\ code \notin 200..299
          /\ raised'[t] = MapResponseToError(code) /\ pc'[t] = "done"
      BY <1>1, <3>1, ChainClientAssumption DEF End, Success
    <3>3. code \in Nat
      BY <3>2
    <3>4. MapResponseToError(code) \in ApiErrors
      BY <3>3, MapType
    <3>5. /\ MapResponseToError(code) = "DeepidvAuthError" <=> code \in {401, 403}
          /\ MapResponseToError(code) = "DeepidvNotFoundError" <=> code = 404
          /\ MapResponseToError(code) = "DeepidvRateLimitError" <=> code = 429
          /\ MapResponseToError(code) = "DeepidvServerError" <=> code \in 500..599
      BY <3>3, ErrorTable
    <3>6. QED BY <3>2, <3>4, <3>5 DEF Typed
  <2>3. CASE Answered(t)
    <3>1. PICK code \in Statuses, body \in Bodies :
            /\ Success(code)
            /\ status' = [status EXCEPT ![t] = code]
            /\ End(t, ParseError(Method(t), body))
      BY <2>3 DEF Answered
    <3>2. status'[t] \in 200..299 /\ pc'[t] = "done" /\ raised'[t] \notin ApiErrors
      BY <1>1, <1>2, <3>1, ParseErrorType DEF End, Success, ApiErrors
    <3>3. QED BY <3>2 DEF Typed, ApiErrors
  <2>4. CASE OnTransportError(t)
    <3>1. pc[t] # "done" /\ UNCHANGED status /\ End(t, "TransportError")
      BY <2>4 DEF OnTransportError
    <3>2. QED BY <1>3, <3>1 DEF ApiErrors
  <2>5. CASE Cancel(t)
    <3>1. pc[t] # "done" /\ UNCHANGED status /\ End(t, "CancelledError")
      BY <2>5 DEF Cancel
    <3>2. QED BY <1>3, <3>1 DEF ApiErrors
  <2>6. QED BY <1>5, <2>1, <2>2, <2>3, <2>4, <2>5 DEF Moves, StreamAnswered
<1>6. CASE StreamEvent(t)
  BY <1>2, <1>3, <1>6 DEF StreamEvent
<1>7. CASE Paged(t)
  <2>1. /\ pc[t] # "done" /\ status'[t] = 200
        /\ UNCHANGED raised \/ End(t, None)
    BY <1>1, <1>7, PagedAnswer DEF TakePage
  <2>2. raised'[t] = None
    BY <1>1, <2>1 DEF End, Open, Call2xx
  <2>3. QED BY <1>2, <2>1, <2>2 DEF Typed, Call2xx, ApiErrors
<1>8. CASE Same(t)
  BY <1>8 DEF Same, Typed, Call2xx, Open
<1>9. QED BY <1>4, <1>5, <1>6, <1>7, <1>8, CallStep

(***************************************************************************)
(* A call that was not a stream ends with a typed error if and only if     *)
(* its last answer was not 2xx, and then with the one the error hierarchy  *)
(* documents for it (errors.py:38-61, http.py:47-69).                      *)
(***************************************************************************)
THEOREM TypedErrors == Spec => []ErrorsAreTyped
<1> DEFINE AllTyped == \A t \in Calls : Method(t) # "stream" => Typed(t)
<1>1. Init => TypeOK /\ Open /\ AllTyped
  <2>1. Init => \A t \in Calls : raised[t] = None /\ status[t] = 0
    BY DEF Init
  <2>2. None \notin ApiErrors
    BY ChainClientAssumption DEF Exceptions
  <2>3. QED BY <2>1, <2>2, TypeInit, TypedOf DEF Open, Call2xx
<1>2. TypeOK /\ Open /\ AllTyped /\ [Next]_vars => (TypeOK /\ Open /\ AllTyped)'
  <2> SUFFICES ASSUME TypeOK, Open, AllTyped, [Next]_vars
               PROVE  TypeOK' /\ Open' /\ AllTyped'
    OBVIOUS
  <2>1. \A t \in Calls : Method(t)' = Method(t)
    BY CallStep DEF configuration, Method
  <2>2. \A t \in Calls : Method(t) # "stream" => Typed(t)' /\ (pc'[t] # "done" => Call2xx(t)')
    BY TypedStep
  <2>3. QED BY <2>1, <2>2, TypeStep DEF Open
<1>3. AllTyped => ErrorsAreTyped
  BY DEF Typed, ErrorsAreTyped
<1> HIDE DEF AllTyped
<1>4. QED BY <1>1, <1>2, <1>3, PTL DEF Spec

-----------------------------------------------------------------------------
(* Searches. *)

Positions(t) == {s.of : s \in listed[t]}

\* Where a search stands: it lists downwards and has found nothing before its first page.
Scan(t) ==
  /\ cursor[t] = 0 /\ pc[t] # "done" => listed[t] = {} /\ total[t] = 0 /\ due[t] = {}
  /\ \A s \in listed[t] : cursor[t] <= s.of
  /\ \A s \in listed[t] : Matches(s.revoked)
  /\ total[t] = Cardinality(Positions(t))
  /\ Method(t) = "search" /\ pc[t] = "done" /\ raised[t] = None => cursor[t] = 0
  /\ pc[t] # "done" => raised[t] = None
  /\ pc[t] # "streaming"

\* What a search has to list: due to match for good, once it matched.
Gapless(t) ==
  /\ filters.revoked = TRUE => due[t] \subseteq revoked
  /\ \A p \in due[t] : cursor[t] <= p /\ Matches(p \in revoked) => p \in Positions(t)

Scanned == \A t \in Searches : Scan(t) /\ Gapless(t)

LEMMA ScannedInit == Init => Scanned
<1> SUFFICES ASSUME Init, NEW t \in Calls
             PROVE  Scan(t) /\ Gapless(t)
  BY DEF Scanned, Searches
<1>1. /\ cursor[t] = 0 /\ listed[t] = {} /\ total[t] = 0 /\ due[t] = {}
      /\ pc[t] = "ready" /\ raised[t] = None
  BY DEF Init
<1>2. Positions(t) = {}
  BY <1>1 DEF Positions
<1>3. QED BY <1>1, <1>2, FS_EmptySet DEF Scan, Gapless

(* What the filter asks for is what the service looks for.                 *)
LEMMA WantedMatches ==
  ASSUME TypeOK, Current, NEW t \in Calls, pc[t] = "sent", Pages(t), NEW p
  PROVE  /\ Wanted(request[t].params, p) <=> Matches(p \in revoked)
         /\ request[t].params.cursor = cursor[t]
<1>1. request[t].params = ListParams(t)
  BY RequestType DEF Current
<1>2. /\ request[t].params.cursor = cursor[t]
      /\ request[t].params.revoked = FiltersToParams(filters).revoked
  BY <1>1, ListParamsType DEF Current
<1>3. filters \in [revoked : RevokedFilters, cursor : 0..MaxRecords]
  BY DEF TypeOK
<1>4. FiltersToParams(filters).revoked =
        IF filters.revoked = None THEN "absent" ELSE IF filters.revoked THEN "true" ELSE "false"
  BY <1>3, FiltersType
<1>5. filters.revoked \in BOOLEAN \cup {None} /\ None \notin BOOLEAN
  BY <1>3, ChainClientAssumption
<1>6. (p \in revoked) \in BOOLEAN
  OBVIOUS
<1>7. CASE filters.revoked = None
  BY <1>2, <1>4, <1>7 DEF Wanted, Matches
<1>8. CASE filters.revoked = TRUE
  <2>1. request[t].params.revoked = "true" /\ None # TRUE
    BY <1>2, <1>4, <1>5, <1>8
  <2>2. Wanted(request[t].params, p) <=> p \in revoked
    BY <2>1 DEF Wanted
  <2>3. Matches(p \in revoked) <=> p \in revoked
    BY <2>1, <1>8 DEF Matches
  <2>4. QED BY <1>2, <2>2, <2>3
<1>9. CASE filters.revoked = FALSE
  <2>1. request[t].params.revoked = "false" /\ None # FALSE
    BY <1>2, <1>4, <1>5, <1>9
  <2>2. Wanted(request[t].params, p) <=> p \notin revoked
    BY <2>1 DEF Wanted
  <2>3. Matches(p \in revoked) <=> p \notin revoked
    <3>1. Matches(p \in revoked) <=> FALSE = (p \in revoked)
      BY <2>1, <1>9 DEF Matches
    <3>2. QED BY <3>1
  <2>4. QED BY <1>2, <2>2, <2>3
<1>10. QED BY <1>5, <1>7, <1>8, <1>9

(* The pages of a search do not overlap and leave nothing out between them.*)
LEMMA ScanPaged ==
  ASSUME TypeOK, Current, NEW t \in Searches, Scan(t), Gapless(t), Paged(t)
  PROVE  Scan(t)' /\ Gapless(t)'
<1>1. /\ pc[t] = "sent" /\ Pages(t) /\ t \in Calls /\ First(t) \in 0..MaxRecords
      /\ UNCHANGED <<plan, filters, minted, revoked>>
  BY PagedAnswer DEF Searches, configuration, registry
<1>2. PICK last \in 1..MaxRecords, next \in 0..MaxRecords :
        /\ (next = last /\ First(t) # 0) \/ (next = 0 /\ last = 1)
        /\ last <= First(t) \/ (First(t) = 0 /\ last = 1)
        /\ Rows(t, last) \in SUBSET (1..MaxRecords)
        /\ TakePage(t, Summaries(Rows(t, last)), next)
  BY <1>1, PagedAnswer
<1> DEFINE rows == Rows(t, last)
           items == Summaries(rows)
<1>3. First(t) = IF cursor[t] = 0 THEN minted ELSE cursor[t] - 1
  BY <1>1, WantedMatches DEF First
<1>4. \A p : p \in rows <=> p \in last..First(t) /\ Matches(p \in revoked)
  BY <1>1, WantedMatches DEF Rows
<1>5. /\ Cardinality(items) = Cardinality(rows)
      /\ {s.of : s \in items} = rows
      /\ \A s \in items : s.revoked <=> s.of \in revoked
      /\ items \in SUBSET [of : 1..MaxRecords, revoked : BOOLEAN]
  BY <1>2, SummariesType
<1>6. /\ cursor \in [Calls -> 0..MaxRecords] /\ total \in [Calls -> Nat]
      /\ listed \in [Calls -> SUBSET [of : 1..MaxRecords, revoked : BOOLEAN]]
      /\ due \in [Calls -> SUBSET (1..MaxRecords)]
      /\ pc \in [Calls -> Places] /\ raised \in [Calls -> Exceptions \cup {None}]
      /\ minted \in 0..MaxRecords
  BY DEF TypeOK, Places
<1>7. /\ listed'[t] = listed[t] \cup items
      /\ total'[t] = total[t] + Cardinality(items)
      /\ cursor'[t] = next
      /\ raised[t] = None
  BY <1>1, <1>2, <1>6 DEF TakePage, Scan
<1>8. /\ next = 0 => pc'[t] = "done"
      /\ pc'[t] # "streaming"
      /\ pc'[t] = "done" => next = 0 \/ Method(t) # "search"
      /\ raised'[t] = None
  BY <1>1, <1>2, <1>6, <1>7 DEF TakePage, End
<1>9. Method(t)' = Method(t) /\ \A r : Matches(r)' <=> Matches(r)
  BY <1>1 DEF Method, Matches
<1>10. MaxRecords \in Nat /\ cursor[t] \in 0..MaxRecords
  BY <1>1, <1>6, ChainClientAssumption
<1> HIDE DEF rows, items
<1>11. \A s \in items : s.of \in rows /\ Matches(s.revoked)
  <2> TAKE s \in items
  <2>1. s.of \in rows
    BY <1>5
  <2>2. (s.of \in revoked) = s.revoked
    BY <1>5
  <2>3. QED BY <1>4, <2>1, <2>2
<1>12. \A p \in rows : p \in 1..MaxRecords /\ last <= p /\ p <= First(t)
  BY <1>1, <1>2, <1>4, <1>10
<1>13. \A s \in listed[t] : s.of \in 1..MaxRecords /\ First(t) < s.of
  <2>1. CASE cursor[t] = 0
    BY <1>1, <2>1 DEF Scan
  <2>2. CASE cursor[t] # 0
    <3> TAKE s \in listed[t]
    <3>1. s.of \in 1..MaxRecords
      BY <1>1, <1>6
    <3>2. cursor[t] <= s.of
      BY DEF Scan
    <3>3. First(t) = cursor[t] - 1
      BY <1>3, <2>2
    <3>4. QED BY <1>10, <3>1, <3>2, <3>3
  <2>3. QED BY <2>1, <2>2
<1>14. Positions(t)' = Positions(t) \cup rows /\ Positions(t) \cap rows = {}
  <2>1. Positions(t)' = Positions(t) \cup rows
    BY <1>5, <1>7 DEF Positions
  <2>2. \A p \in Positions(t) : p \in 1..MaxRecords /\ First(t) < p
    BY <1>13 DEF Positions
  <2>3. Positions(t) \cap rows = {}
    BY <1>1, <1>10, <1>12, <2>2
  <2>4. QED BY <2>1, <2>3
<1>15. total'[t] = Cardinality(Positions(t)')
  <2>1. rows \subseteq 1..MaxRecords /\ Positions(t) \subseteq 1..MaxRecords
    BY <1>12, <1>13 DEF Positions
  <2>2. IsFiniteSet(1..MaxRecords)
    BY <1>10, FS_Interval
  <2>3. IsFiniteSet(rows) /\ IsFiniteSet(Positions(t))
    BY <2>1, <2>2, FS_Subset
  <2>4. Cardinality(Positions(t) \cup rows)
          = Cardinality(Positions(t)) + Cardinality(rows) - Cardinality(Positions(t) \cap rows)
    BY <2>3, FS_Union
  <2>5. Cardinality(Positions(t) \cap rows) = 0
    BY <1>14, FS_EmptySet
  <2>6. Cardinality(Positions(t)) \in Nat /\ Cardinality(rows) \in Nat
    BY <2>3, FS_CardinalityType
  <2>7. QED BY <1>5, <1>7, <1>14, <2>4, <2>5, <2>6 DEF Scan
<1>16. Scan(t)'
  <2>1. \A s \in listed'[t] : cursor'[t] <= s.of /\ Matches(s.revoked)
    <3> SUFFICES ASSUME NEW s \in listed'[t]
                 PROVE  next <= s.of /\ Matches(s.revoked)
      BY <1>7
    <3>1. CASE s \in items
      BY <1>2, <1>10, <1>11, <1>12, <3>1
    <3>2. CASE s \in listed[t]
      <4>1. Matches(s.revoked) /\ s.of \in 1..MaxRecords /\ First(t) < s.of
        BY <1>13, <3>2 DEF Scan
      <4>2. QED BY <1>1, <1>2, <1>10, <4>1
    <3>3. QED BY <1>7, <3>1, <3>2
  <2>2. QED BY <1>7, <1>8, <1>9, <1>15, <2>1 DEF Scan
<1>17. Gapless(t)'
  <2>1. due'[t] = IF cursor[t] = 0 THEN {p \in 1..minted : Matches(p \in revoked)} ELSE due[t]
    <3>1. \A p : Wanted(request[t].params, p) <=> Matches(p \in revoked)
      BY <1>1, WantedMatches
    <3>2. QED BY <1>1, <1>6, <3>1, PagedAnswer
  <2>2. ASSUME filters.revoked = TRUE
        PROVE  due'[t] \subseteq revoked
    <3>1. TRUE # None
      BY ChainClientAssumption
    <3>2. \A p : Matches(p \in revoked) => p \in revoked
      BY <2>2, <3>1 DEF Matches
    <3>3. QED BY <2>1, <2>2, <3>2 DEF Gapless
  <2>3. ASSUME NEW p \in due'[t], next <= p, Matches(p \in revoked)
        PROVE  p \in Positions(t) \cup rows
    <3>1. p \in 1..MaxRecords
      BY <1>1, <1>6, <1>10, <2>1, <2>3
    <3>2. last <= p
      BY <1>2, <1>10, <2>3, <3>1
    <3>3. CASE p <= First(t)
      BY <1>1, <1>4, <2>3, <3>1, <3>2, <3>3
    <3>4. CASE First(t) < p
      <4>1. cursor[t] # 0
        BY <1>3, <1>6, <2>1, <2>3, <3>1, <3>4
      <4>2. cursor[t] <= p /\ p \in due[t]
        BY <1>3, <1>10, <2>1, <2>3, <3>1, <3>4, <4>1
      <4>3. QED BY <2>3, <4>2 DEF Gapless
    <3>5. QED BY <1>1, <1>10, <3>1, <3>3, <3>4
  <2>4. QED BY <1>1, <1>7, <1>8, <1>9, <1>14, <2>2, <2>3 DEF Gapless
<1>18. QED BY <1>16, <1>17

(* A step that takes no page, of the call or of others.                    *)
LEMMA ScanMoves ==
  ASSUME TypeOK, NEW t \in Searches, Scan(t), Gapless(t),
         UNCHANGED <<configuration, filters>>, revoked \subseteq revoked',
         cursor'[t] = cursor[t], listed'[t] = listed[t], total'[t] = total[t], due'[t] = due[t],
         pc'[t] # "streaming", pc'[t] # "done" => pc[t] # "done" /\ raised'[t] = None,
         pc'[t] = "done" /\ raised'[t] = None => pc[t] = "done" /\ raised[t] = None
  PROVE  Scan(t)' /\ Gapless(t)'
<1>1. Method(t)' = Method(t) /\ (\A r : Matches(r)' <=> Matches(r)) /\ filters' = filters
  BY DEF configuration, Method, Matches
<1>2. Positions(t)' = Positions(t)
  BY DEF Positions
<1>3. Scan(t)'
  BY <1>1, <1>2 DEF Scan
<1>4. filters.revoked = TRUE => due[t] \subseteq revoked'
  BY DEF Gapless
<1>5. ASSUME NEW p \in due[t], cursor[t] <= p, Matches(p \in revoked')
      PROVE  p \in Positions(t)
  <2>1. CASE Matches(p \in revoked)
    BY <1>5, <2>1 DEF Gapless
  <2>2. CASE ~Matches(p \in revoked)
    <3>1. p \in revoked' /\ p \notin revoked
      BY <1>5, <2>2
    <3>2. (p \in revoked') = TRUE
      BY <3>1
    <3>3. filters.revoked = TRUE \/ filters.revoked = None
      BY <1>5, <3>2 DEF Matches
    <3>4. CASE filters.revoked = TRUE
      BY <3>1, <3>4 DEF Gapless
    <3>5. CASE filters.revoked = None
      BY <2>2, <3>5 DEF Matches
    <3>6. QED BY <3>3, <3>4, <3>5
  <2>3. QED BY <2>1, <2>2
<1>6. Gapless(t)'
  BY <1>1, <1>2, <1>4, <1>5 DEF Gapless
<1>7. QED BY <1>3, <1>6

LEMMA ScannedStep ==
  ASSUME TypeOK, Current, Scanned, [Next]_vars
  PROVE  Scanned'
<1>1. /\ pc \in [Calls -> Places] /\ raised \in [Calls -> Exceptions \cup {None}]
      /\ None \notin Exceptions
  BY ChainClientAssumption DEF TypeOK, Places
<1>2. revoked \subseteq revoked'
  <2>1. CASE \E t \in Calls : Prepare(t) \/ Moves(t) \/ StreamEvent(t) \/ Paged(t)
    BY <2>1, MovesType, PagedAnswer DEF Prepare, StreamEvent, registry
  <2>2. QED BY <2>1, EnvironmentType, StepCases
<1>3. ASSUME NEW t \in Calls, Pages(t)
      PROVE  Scan(t)' /\ Gapless(t)'
  <2>1. t \in Searches /\ Scan(t) /\ Gapless(t)
    BY <1>3 DEF Scanned, Searches
  <2>2. UNCHANGED <<configuration, filters>>
    BY CallStep
  <2>3. CASE Prepare(t)
    <3>1. /\ pc[t] # "done" /\ pc'[t] = "prepared" /\ raised'[t] = raised[t]
          /\ UNCHANGED search
      BY <1>1, <2>3 DEF Prepare
    <3>2. QED BY <1>2, <2>1, <2>2, <3>1, ScanMoves DEF search, Scan
  <2>4. CASE Moves(t)
    <3>1. /\ pc[t] # "done" /\ UNCHANGED search
          /\ \/ pc'[t] \notin {"done", "streaming"} /\ UNCHANGED raised
             \/ pc'[t] = "done" /\ raised'[t] # None
      <4>1. UNCHANGED search /\ pc[t] # "done"
        BY <2>4, MovesType DEF Moves, Send, Rejected, Answered, StreamAnswered, OnTransportError, Cancel
      <4>2. CASE Send(t)
        BY <1>1, <4>1, <4>2 DEF Send, End, Exceptions
      <4>3. CASE Rejected(t)
        <5>1. PICK code \in Statuses : End(t, MapResponseToError(code))
          BY <4>3 DEF Rejected
        <5>2. MapResponseToError(code) \in Exceptions
          BY MapType, ChainClientAssumption DEF Exceptions
        <5>3. QED BY <1>1, <4>1, <5>1, <5>2 DEF End
      <4>4. CASE Answered(t)
        <5>1. PICK body \in Bodies : End(t, ParseError(Method(t), body)) /\ ParseError(Method(t), body) # None
          BY <1>3, <4>4 DEF Answered
        <5>2. QED BY <1>1, <4>1, <5>1 DEF End
      <4>5. CASE OnTransportError(t)
        BY <1>1, <4>1, <4>5 DEF OnTransportError, End, Exceptions
      <4>6. CASE Cancel(t)
        BY <1>1, <4>1, <4>6 DEF Cancel, End, Exceptions
      <4>7. QED BY <1>3, <2>4, <4>1, <4>2, <4>3, <4>4, <4>5, <4>6 DEF Moves, StreamAnswered, Pages
    <3>2. QED BY <1>2, <2>1, <2>2, <3>1, MovesType, ScanMoves DEF search, Scan
  <2>5. ASSUME StreamEvent(t)
        PROVE  FALSE
    BY <2>1, <2>5 DEF StreamEvent, Scan
  <2>6. CASE Paged(t)
    BY <2>1, <2>6, ScanPaged
  <2>7. CASE Same(t)
    BY <1>2, <2>1, <2>2, <2>7, ScanMoves DEF Same, Scan
  <2>8. QED BY <2>3, <2>4, <2>5, <2>6, <2>7, CallStep
<1>4. \A t \in Calls : Pages(t)' <=> Pages(t)
  BY CallStep DEF configuration, Pages, Method
<1>5. QED BY <1>3, <1>4 DEF Scanned, Searches

LEMMA ScannedAlways == Spec => [](TypeOK /\ Scanned)
<1>1. Init => TypeOK /\ Current /\ Scanned
  BY TypeInit, CurrentInit, ScannedInit
<1>2. TypeOK /\ Current /\ Scanned /\ [Next]_vars => (TypeOK /\ Current /\ Scanned)'
  BY TypeStep, CurrentStep, ScannedStep
<1>3. QED BY <1>1, <1>2, PTL DEF Spec

(***************************************************************************)
(* Every summary a search lists matches the caller's filter, one that is   *)
(* False included (client.py:59-72).                                       *)
(***************************************************************************)
THEOREM SearchMatches == Spec => []ListedMatches
<1>1. Scanned => ListedMatches
  BY DEF Scanned, Scan, ListedMatches
<1>2. QED BY <1>1, ScannedAlways, PTL

(***************************************************************************)
(* A search counts no attestation twice, whatever is minted between its    *)
(* pages (registry_search_async.py:17-33, client.py:173-176).              *)
(***************************************************************************)
THEOREM SearchCounts == Spec => []CountIsExact
<1>1. Scanned => CountIsExact
  BY DEF Scanned, Scan, Positions, CountIsExact
<1>2. QED BY <1>1, ScannedAlways, PTL

(***************************************************************************)
(* A search leaves no gap: what matched when its first page came, and      *)
(* still matches, is listed as far as the search has come, and all of it   *)
(* once it returns (registry_search_async.py:30-33, registry_search.py:    *)
(* 48-51, client.py:66-72).                                                *)
(***************************************************************************)
THEOREM SearchIsComplete == Spec => []ListedAll
<1>1. TypeOK /\ Scanned => ListedAll
  <2> SUFFICES ASSUME TypeOK, Scanned, NEW t \in Searches, NEW p \in due[t],
                      Reached(t) <= p, Matches(p \in revoked)
               PROVE  \E s \in listed[t] : s.of = p
    BY DEF ListedAll
  <2>1. Scan(t) /\ Gapless(t)
    BY DEF Scanned
  <2>2. p \in 1..MaxRecords /\ cursor[t] \in 0..MaxRecords
    BY DEF TypeOK, Searches
  <2>3. cursor[t] <= p
    BY <2>1, <2>2, ChainClientAssumption DEF Scan, Reached
  <2>4. p \in Positions(t)
    BY <2>1, <2>3 DEF Gapless
  <2>5. QED BY <2>4 DEF Positions
<1>2. QED BY <1>1, ScannedAlways, PTL
-----------------------------------------------------------------------------
(* Termination, but for fairness: each step of a call descends.            *)
Own(t) == Call(t) \/ Stream(t) \/ Dropped(t) \/ BrokenByClose(t) \/ Cancel(t)

\* The calls of which CallsEnd speaks.
Ending(t) == Method(t) # "stream" \/ Http(t) \in closed

\* The rows below which the next page begins.
Below(t) == IF cursor[t] = 0 THEN MaxRecords + 1 ELSE cursor[t]

\* An upper bound of the steps left to a call.
Left(t) ==
  IF pc[t] = "done" THEN 0
  ELSE IF Method(t) = "stream"
  THEN [prepared |-> 1, ready |-> 2, sent |-> 3, streaming |-> 3][pc[t]]
  ELSE 3 * Below(t) + [sent |-> 0, prepared |-> 1, ready |-> 2, streaming |-> 0][pc[t]]

Advances(t) ==
  /\ Left(t) \in Nat
  /\ Left(t)' < Left(t) \/ (Left(t)' = Left(t) /\ ~Own(t))

LEMMA LeftType ==
  ASSUME TypeOK, NEW t \in Calls
  PROVE  /\ Below(t) \in 1..MaxRecords + 1
         /\ Left(t) \in Nat /\ (Left(t) = 0 <=> pc[t] = "done")
<1>1. pc[t] \in {"ready", "prepared", "sent", "streaming", "done"} /\ cursor[t] \in 0..MaxRecords
  BY DEF TypeOK
<1>2. Below(t) \in 1..MaxRecords + 1
  BY <1>1, ChainClientAssumption DEF Below
<1>3. QED BY <1>1, <1>2, ChainClientAssumption DEF Left

(* A search goes down the registry: each page begins below the last.       *)
LEMMA PageDescends ==
  ASSUME TypeOK, Current, NEW t \in Calls, Paged(t), Method(t)' = Method(t)
  PROVE  Left(t)' < Left(t)
<1>1. pc[t] = "sent" /\ Pages(t) /\ Method(t) # "stream"
  BY PagedAnswer DEF Pages
<1>2. PICK last \in 1..MaxRecords, next \in 0..MaxRecords :
        /\ (next = last /\ First(t) # 0) \/ (next = 0 /\ last = 1)
        /\ last <= First(t) \/ (First(t) = 0 /\ last = 1)
        /\ TakePage(t, Summaries(Rows(t, last)), next)
  BY PagedAnswer
<1>3. First(t) = IF cursor[t] = 0 THEN minted ELSE cursor[t] - 1
  BY <1>1, WantedMatches DEF First
<1>4. cursor[t] \in 0..MaxRecords /\ minted \in 0..MaxRecords /\ MaxRecords \in Nat
  BY ChainClientAssumption DEF TypeOK
<1>5. cursor'[t] = next /\ (pc'[t] = "done" \/ (pc'[t] = "ready" /\ next # 0))
  BY <1>2 DEF TakePage, End, TypeOK
<1>6. Below(t) \in 1..MaxRecords + 1 /\ Left(t) = 3 * Below(t)
  BY <1>1, LeftType DEF Left
<1>7. CASE pc'[t] = "done"
  BY <1>6, <1>4, <1>7 DEF Left
<1>8. CASE pc'[t] = "ready" /\ next # 0
  <2>1. Below(t)' = next
    BY <1>5, <1>8 DEF Below
  <2>2. next <= First(t) /\ First(t) < Below(t)
    BY <1>2, <1>3, <1>4, <1>8 DEF Below
  <2>3. Left(t)' = 3 * next + 2
    BY <1>1, <1>8, <2>1 DEF Left
  <2>4. next < Below(t)
    BY <1>2, <1>3, <1>4, <1>6, <2>2
  <2>5. QED BY <1>2, <1>4, <1>6, <2>3, <2>4
<1>9. QED BY <1>5, <1>7, <1>8

\* Only streams wait for events.
Streaming == \A t \in Calls : pc[t] = "streaming" => Method(t) = "stream"

LEMMA StreamingStep ==
  ASSUME TypeOK, Streaming, [Next]_vars
  PROVE  Streaming'
<1> SUFFICES ASSUME NEW t \in Calls, pc'[t] = "streaming"
             PROVE  Method(t)' = "stream"
  BY DEF Streaming
<1>1. Method(t)' = Method(t) /\ pc \in [Calls -> Places]
  BY CallStep DEF configuration, Method, TypeOK, Places
<1>2. CASE Moves(t) /\ pc[t] # "streaming"
  BY <1>1, <1>2 DEF Moves, Send, Rejected, Answered, StreamAnswered, OnTransportError, Cancel, End
<1>3. CASE pc[t] = "streaming"
  BY <1>1, <1>3 DEF Streaming
<1>4. ASSUME Prepare(t) \/ Paged(t)
      PROVE  FALSE
  BY <1>1, <1>4 DEF Prepare, Paged, TakePage, End
<1>5. CASE StreamEvent(t) \/ Same(t)
  BY <1>3, <1>5 DEF StreamEvent, Same
<1>6. QED BY <1>2, <1>3, <1>4, <1>5, CallStep

(* The other steps bring a call nearer to its end; the loop of a stream    *)
(* does once no request of it can be sent any more.                        *)
LEMMA MoveDescends ==
  ASSUME TypeOK, Streaming, NEW t \in Calls, Ending(t),
         Prepare(t) \/ Moves(t) \/ StreamEvent(t),
         UNCHANGED configuration
  PROVE  Left(t)' < Left(t)
<1>1. pc \in [Calls -> Places] /\ Method(t)' = Method(t)
  BY DEF TypeOK, Places, configuration, Method
<1>2. Below(t) \in 1..MaxRecords + 1 /\ MaxRecords \in Nat /\ Left(t) \in Nat
      /\ (Left(t) = 0 <=> pc[t] = "done")
  BY LeftType, ChainClientAssumption
<1>3. ASSUME cursor'[t] = cursor[t]
      PROVE  Below(t)' = Below(t)
  BY <1>3 DEF Below
<1>4. ASSUME pc[t] # "done", pc'[t] = "done"
      PROVE  Left(t)' < Left(t)
  BY <1>2, <1>4 DEF Left
<1>5. CASE Prepare(t)
  <2>1. pc[t] = "ready" /\ pc'[t] = "prepared" /\ cursor'[t] = cursor[t]
    BY <1>1, <1>5 DEF Prepare, search
  <2>2. QED BY <1>1, <1>2, <1>3, <2>1 DEF Left
<1>6. CASE Moves(t)
  <2>1. cursor'[t] = cursor[t]
    BY <1>6, MovesType DEF search
  <2>2. CASE Send(t)
    <3>1. /\ pc[t] = "prepared"
          /\ pc'[t] = "done" \/ (pc'[t] = "sent" /\ Method(t) # "stream")
      BY <1>1, <2>2 DEF Send, End, Ending
    <3>2. QED BY <1>1, <1>2, <1>3, <1>4, <2>1, <3>1 DEF Left
  <2>3. CASE Rejected(t) \/ Answered(t) \/ Cancel(t)
    <3>1. pc[t] # "done" /\ pc'[t] = "done"
      BY <1>1, <2>3 DEF Rejected, Answered, Cancel, End
    <3>2. QED BY <1>4, <3>1
  <2>4. ASSUME StreamAnswered(t)
        PROVE  FALSE
    BY <2>4 DEF StreamAnswered, Ending
  <2>5. CASE OnTransportError(t)
    <3>1. /\ pc[t] \in {"sent", "streaming"}
          /\ pc'[t] = "done" \/ (pc'[t] = "ready" /\ Method(t) = "stream")
      BY <1>1, <2>5 DEF OnTransportError, End
    <3>2. QED BY <1>1, <1>2, <1>4, <3>1 DEF Left
  <2>6. QED BY <1>6, <2>2, <2>3, <2>4, <2>5 DEF Moves
<1>7. CASE StreamEvent(t)
  <2>1. pc[t] = "streaming" /\ pc'[t] = "streaming" /\ Http(t) \notin closed
    BY <1>7 DEF StreamEvent
  <2>2. QED BY <2>1 DEF Ending, Streaming
<1>8. QED BY <1>5, <1>6, <1>7

LEMMA AllAdvance ==
  ASSUME TypeOK, Current, Streaming, [Next]_vars, NEW t \in Calls, Ending(t)
  PROVE  Ending(t)' /\ Advances(t)
<1>1. UNCHANGED configuration /\ Method(t)' = Method(t) /\ Http(t)' = Http(t)
  BY CallStep DEF configuration, Method, Http, Client
<1>2. Ending(t)'
  <2>1. closed \subseteq closed'
    <3>1. CASE \E u \in Calls : Prepare(u) \/ Moves(u) \/ StreamEvent(u) \/ Paged(u)
      BY <3>1, MovesType, PagedAnswer DEF Prepare, StreamEvent
    <3>2. CASE Environment
      BY <3>2 DEF Environment, Close, Withdraw, Mint, Revoke, vars
    <3>3. QED BY <3>1, <3>2, StepCases
  <2>2. QED BY <1>1, <2>1 DEF Ending
<1>3. Left(t) \in Nat
  BY LeftType
<1>4. CASE Prepare(t) \/ Moves(t) \/ StreamEvent(t) \/ Paged(t)
  <2>1. Left(t)' < Left(t)
    BY <1>1, <1>4, MoveDescends, PageDescends
  <2>2. QED BY <1>2, <1>3, <2>1 DEF Advances
<1>5. CASE Same(t) /\ ~ (Prepare(t) \/ Moves(t) \/ StreamEvent(t) \/ Paged(t))
  <2>1. Left(t)' = Left(t)
    BY <1>1, <1>5 DEF Same, Left, Below
  <2>2. ~Own(t)
    BY <1>5 DEF Own, Call, Stream, Dropped, BrokenByClose, Moves
  <2>3. QED BY <1>2, <1>3, <2>1, <2>2 DEF Advances
<1>6. QED BY <1>4, <1>5, CallStep

(***************************************************************************)
(* A call that has to end only ever comes nearer to it: its own steps use  *)
(* up the pages left of its search, or the way through one request, and no *)
(* step of anyone else takes it back; so does the reconnect loop of a      *)
(* stream from when its httpx client is closed (client.py:145-147,         *)
(* 232-258, registry_search_async.py:30-33).                               *)
(***************************************************************************)
THEOREM CallsAdvance == Spec => [][\A t \in Calls : Ending(t) => Ending(t)' /\ Advances(t)]_vars
<1>1. Init => TypeOK /\ Current /\ Streaming
  <2>1. Init => Streaming
    BY DEF Init, Streaming
  <2>2. QED BY <2>1, TypeInit, CurrentInit
<1>2. TypeOK /\ Current /\ Streaming /\ [Next]_vars => (TypeOK /\ Current /\ Streaming)'
  BY TypeStep, CurrentStep, StreamingStep
<1>3. TypeOK /\ Current /\ Streaming /\ [Next]_vars
        => [\A t \in Calls : Ending(t) => Ending(t)' /\ Advances(t)]_vars
  BY AllAdvance
<1>4. QED BY <1>1, <1>2, <1>3, PTL DEF Spec
=============================================================================
