---------------------------- MODULE ChainClient ----------------------------
(***************************************************************************)
(* The request path of Client and AsyncClient (client.py): calls that run  *)
(* concurrently on clients, which own an httpx client or share one given   *)
(* to them, over a registry that changes between the pages of a search.    *)
(* The search is the loop of examples/registry_search_async.py             *)
(* (page_through).  An event stream is followed up to its request and its  *)
(* breaks only; what it reads is the subject of SseStream.                 *)
(*                                                                         *)
(* Attestations are numbered in the order they were minted and the service *)
(* lists the newest first.  A cursor is the last position scanned; 0 is    *)
(* None, and "" too: both are falsy (registry_search_async.py:30).         *)
(***************************************************************************)
EXTENDS Naturals, FiniteSets

CONSTANTS
  None,         \* an absent argument, filter or exception
  Clients,      \* Client / AsyncClient objects
  Injected,     \* the httpx client of the application, passed as http_client
  Calls,        \* the calls in progress: tasks or threads
  Plans,        \* what the calls are: a set of functions to a client and a method
  Sharings,     \* who uses which httpx client: a set of functions from clients
  RevokedFilters, \* values of the filter "revoked": None, TRUE, FALSE
  Statuses,     \* status codes the service may answer
  PageRows,     \* bound: rows the service scans for one page
  MaxRecords,   \* bound: length of the registry
  MaxRevoked    \* bound: how many of them are revoked

\* The methods: list_registry for one page, and in a loop for a search; get_* (one
\* object each), list_sths, download_bundle and stream_attestations.
Methods == {"list", "search", "get", "sths", "bundle", "stream"}

\* The exceptions of errors.py, and all that a call may end with.
ApiErrors == {"DeepidvApiError", "DeepidvAuthError", "DeepidvNotFoundError",
              "DeepidvRateLimitError", "DeepidvServerError"}

Exceptions == {"RuntimeError", "TransportError", "CancelledError", "JSONDecodeError",
               "ValidationError", "ResponseNotRead"} \cup ApiErrors

ASSUME ChainClientAssumption ==
  /\ None \notin BOOLEAN /\ None \notin Exceptions
  /\ Injected \notin Clients
  /\ Plans \subseteq [Calls -> [client : Clients, method : Methods]]
  /\ Sharings \subseteq [Clients -> Clients \cup {Injected}]
  /\ \A h \in Sharings : \A c \in Clients : h[c] \in {c, Injected}
  /\ RevokedFilters \subseteq BOOLEAN \cup {None}
  /\ Statuses \subseteq 100..999
  /\ PageRows \in Nat /\ MaxRecords \in Nat \ {0}
  /\ MaxRevoked \in Nat

VARIABLES
  plan,      \* call -> its client and method
  http,      \* client -> the httpx client it uses (self._http)
  headers,   \* client -> its default headers (self.headers)
  filters,   \* the caller's filter dict, which its searches share
  closed,    \* external: httpx clients that are closed
  withdrawn, \* external: whether the application closed the one it injected
  minted,    \* external: length of the registry
  revoked,   \* external: positions revoked
  pc,        \* call -> where it is
  request,   \* call -> the headers and params of its request
  cursor,    \* call -> where the search goes on; the id a stream resumes after
  listed,    \* call -> the summaries the search printed
  total,     \* call -> how many it counted
  due,       \* history: call -> what it should list, as its first page came
  status,    \* history: call -> last status answered to it; 0 is none
  raised     \* call -> the exception that ended it

configuration == <<plan, http>>
registry == <<minted, revoked>>
search == <<cursor, listed, total, due>>
vars == <<configuration, headers, filters, closed, withdrawn, registry,
                 pc, request, search, status, raised>>

Client(t) == plan[t].client
Method(t) == plan[t].method
Pages(t) == Method(t) \in {"list", "search"}
Http(t) == http[Client(t)]

-----------------------------------------------------------------------------
(* Construction. *)

\* build_default_headers.  The key a client was given is named after it.
DefaultHeaders(c) ==
  [authorization |-> c, accept |-> "application/json", last_event_id |-> 0]

\* self._owns_http: no http_client was passed.
OwnsHttp(c) == http[c] = c

Init ==
  /\ plan \in Plans
  /\ http \in Sharings
  /\ headers = [c \in Clients |-> DefaultHeaders(c)]
  /\ filters \in [revoked : RevokedFilters, cursor : {0}]
  /\ closed = {} /\ withdrawn = FALSE
  /\ minted = 0 /\ revoked = {}
  /\ pc = [t \in Calls |-> "ready"]
  /\ request = [t \in Calls |-> None]
  /\ cursor = [t \in Calls |-> 0]
  /\ listed = [t \in Calls |-> {}]
  /\ total = [t \in Calls |-> 0]
  /\ due = [t \in Calls |-> {}]
  /\ status = [t \in Calls |-> 0]
  /\ raised = [t \in Calls |-> None]

-----------------------------------------------------------------------------
(* Sending. *)

Accept(method) ==
  CASE method = "bundle" -> "application/octet-stream"
    [] method = "stream" -> "text/event-stream"
    [] OTHER -> "application/json"

\* Mutant: a filter that is false is dropped with those that are None.
FiltersToParamsDropFalse(f) ==
  [revoked |-> IF f.revoked = TRUE THEN "true" ELSE "absent", cursor |-> f.cursor]

\* _filters_to_params: a dict of its own, without what is None, booleans in lower case.
FiltersToParams(f) ==
  [revoked |-> CASE f.revoked = None -> "absent"
                 [] f.revoked = TRUE -> "true"
                 [] f.revoked = FALSE -> "false",
   cursor |-> f.cursor]

\* Mutant: the cursor is taken for a filter that is None on every page.
ListParamsWithoutCursor(t) == FiltersToParams(filters)

\* list_registry: the filters, and the cursor if there is one.
ListParams(t) ==
  IF cursor[t] = 0 THEN FiltersToParams(filters)
  ELSE [FiltersToParams(filters) EXCEPT !.cursor = cursor[t]]

\* The request of a call: its headers, copied from those of its client, and params.
RequestOf(t) ==
  [headers |-> [headers[Client(t)] EXCEPT
                  !.accept = Accept(Method(t)),
                  !.last_event_id = IF Method(t) = "stream" /\ cursor[t] # 0
                                    THEN cursor[t] ELSE @],
   params |-> IF Pages(t) THEN ListParams(t) ELSE None]

\* Mutant: `headers = self.headers`, without a copy.
PrepareInPlace(t) ==
  /\ pc[t] = "ready"
  /\ request' = [request EXCEPT ![t] = RequestOf(t)]
  /\ headers' = [headers EXCEPT ![Client(t)] = RequestOf(t).headers]
  /\ pc' = [pc EXCEPT ![t] = "prepared"]
  /\ UNCHANGED <<configuration, filters, closed, withdrawn, registry,
                 search, status, raised>>

\* Mutant: `params = filters`, so that the cursor is put into the caller's dict.
PrepareFiltersInPlace(t) ==
  /\ pc[t] = "ready"
  /\ request' = [request EXCEPT ![t] = RequestOf(t)]
  /\ filters' = IF Pages(t) /\ cursor[t] # 0
                THEN [filters EXCEPT !.cursor = cursor[t]] ELSE filters
  /\ pc' = [pc EXCEPT ![t] = "prepared"]
  /\ UNCHANGED <<configuration, headers, closed, withdrawn, registry,
                 search, status, raised>>

Prepare(t) ==
  /\ pc[t] = "ready"
  /\ request' = [request EXCEPT ![t] = RequestOf(t)]
  /\ pc' = [pc EXCEPT ![t] = "prepared"]
  /\ UNCHANGED <<configuration, headers, filters, closed, withdrawn, registry,
                 search, status, raised>>

\* The call ends, with a value (None) or with an exception.
End(t, exception) ==
  /\ pc' = [pc EXCEPT ![t] = "done"]
  /\ raised' = [raised EXCEPT ![t] = exception]

\* Mutant: a stream takes the closed client for a transport error and tries again.
SendRetries(t) ==
  /\ pc[t] = "prepared"
  /\ pc' = [pc EXCEPT ![t] = IF Http(t) \notin closed THEN "sent" ELSE "ready"]
  /\ UNCHANGED <<configuration, headers, filters, closed, withdrawn, registry,
                 request, search, status, raised>>

\* self._http.request / .stream: httpx refuses a client that was closed.
Send(t) ==
  /\ pc[t] = "prepared"
  /\ IF Http(t) \notin closed
     THEN pc' = [pc EXCEPT ![t] = "sent"] /\ UNCHANGED raised
     ELSE End(t, "RuntimeError")
  /\ UNCHANGED <<configuration, headers, filters, closed, withdrawn, registry,
                 request, search, status>>

-----------------------------------------------------------------------------
(* Answers. *)

\* Mutant: redirects pass for answers.
SuccessBelow400(code) == code \in 200..399

Success(code) == code \in 200..299

\* Mutant: what the table does not list is left to httpx.
MapResponseToHttpxError(code) ==
  CASE code \in {401, 403} -> "DeepidvAuthError"
    [] code = 404 -> "DeepidvNotFoundError"
    [] code = 429 -> "DeepidvRateLimitError"
    [] code \in 500..599 -> "DeepidvServerError"
    [] OTHER -> "HTTPStatusError"

\* map_response_to_error.
MapResponseToError(code) ==
  CASE code \in {401, 403} -> "DeepidvAuthError"
    [] code = 404 -> "DeepidvNotFoundError"
    [] code = 429 -> "DeepidvRateLimitError"
    [] code \in 500..599 -> "DeepidvServerError"
    [] code \notin {401, 403, 404, 429} \cup (500..599) -> "DeepidvApiError"

\* What a 2xx body may hold: the object of the method (for list_sths one with
\* "items"), an array of such objects, other JSON, or no JSON at all.
Bodies == {"object", "array", "other", "text"}

\* response.json() and _parse_model, None if both succeed; list_sths takes the items
\* bare as well, download_bundle takes what comes.
ParseError(method, body) ==
  CASE method = "bundle" \/ body = "object" -> None
    [] method = "sths" /\ body = "array" -> None
    [] body = "text" -> "JSONDecodeError"
    [] OTHER -> "ValidationError"

\* raise_for_status, for a call that is not a stream.
Rejected(t) ==
  \E code \in Statuses :
    /\ pc[t] = "sent" /\ Method(t) # "stream" /\ Http(t) \notin closed
    /\ ~Success(code)
    /\ status' = [status EXCEPT ![t] = code]
    /\ End(t, MapResponseToError(code))
    /\ UNCHANGED <<configuration, headers, filters, closed, withdrawn, registry,
                 request, search>>

\* A 2xx answer of a call that has one request, or of list_registry if it makes no page.
Answered(t) ==
  \E code \in Statuses, body \in Bodies :
    /\ pc[t] = "sent" /\ Method(t) # "stream" /\ Http(t) \notin closed
    /\ Success(code)
    /\ Pages(t) => ParseError(Method(t), body) # None
    /\ status' = [status EXCEPT ![t] = code]
    /\ End(t, ParseError(Method(t), body))
    /\ UNCHANGED <<configuration, headers, filters, closed, withdrawn, registry,
                 request, search>>

\* The service: what the params ask for.
Wanted(params, p) ==
  params.revoked = "absent" \/ (params.revoked = "true" <=> p \in revoked)

\* Mutant: a page without items ends the search.
TakePageUntilEmpty(t, items, next) ==
  /\ listed' = [listed EXCEPT ![t] = @ \cup items]
  /\ total' = [total EXCEPT ![t] = @ + Cardinality(items)]
  /\ cursor' = [cursor EXCEPT ![t] = next]
  /\ IF Method(t) = "search" /\ items # {} /\ next # 0
     THEN pc' = [pc EXCEPT ![t] = "ready"] /\ UNCHANGED raised
     ELSE End(t, None)

\* What becomes of a page: the loop prints and counts its items, and goes on after its
\* cursor or returns; a caller of list_registry holds all three.
TakePage(t, items, next) ==
  /\ listed' = [listed EXCEPT ![t] = @ \cup items]
  /\ total' = [total EXCEPT ![t] = @ + Cardinality(items)]
  /\ cursor' = [cursor EXCEPT ![t] = next]
  /\ IF Method(t) = "search" /\ next # 0
     THEN pc' = [pc EXCEPT ![t] = "ready"] /\ UNCHANGED raised
     ELSE End(t, None)

\* The service scans rows last..from and answers those wanted, with a cursor unless
\* it knows there are no more.
Paged(t) ==
  LET params == request[t].params
      from == IF params.cursor = 0 THEN minted ELSE params.cursor - 1
  IN  /\ pc[t] = "sent" /\ Pages(t) /\ Http(t) \notin closed
      /\ \E last \in 1..MaxRecords, next \in 0..MaxRecords :
           /\ last <= from \/ (from = 0 /\ last = 1)
           /\ from < last + PageRows
           /\ (next = last /\ from # 0) \/ (next = 0 /\ last = 1)
           /\ TakePage(t, {[of |-> p, revoked |-> p \in revoked] :
                             p \in {q \in last..from : Wanted(params, q)}}, next)
      /\ due' = IF cursor[t] = 0
                THEN [due EXCEPT ![t] = {p \in 1..minted : Wanted(params, p)}]
                ELSE due
      /\ status' = [status EXCEPT ![t] = 200]
      /\ UNCHANGED <<configuration, headers, filters, closed, withdrawn, registry,
                 request>>

\* A stream is opened, or refused: as SseStream!ErrorStatus, with no typed exception.
StreamAnswered(t) ==
  \E code \in Statuses :
    /\ pc[t] = "sent" /\ Method(t) = "stream" /\ Http(t) \notin closed
    /\ status' = [status EXCEPT ![t] = code]
    /\ IF Success(code)
       THEN pc' = [pc EXCEPT ![t] = "streaming"] /\ UNCHANGED raised
       ELSE End(t, "ResponseNotRead")
    /\ UNCHANGED <<configuration, headers, filters, closed, withdrawn, registry,
                 request, search>>

\* The first event with an id.
StreamEvent(t) ==
  /\ pc[t] = "streaming" /\ Http(t) \notin closed /\ cursor[t] = 0
  /\ cursor' = [cursor EXCEPT ![t] = 1]
  /\ UNCHANGED <<configuration, headers, filters, closed, withdrawn, registry,
                 pc, request, listed, total, due, status, raised>>

\* A TransportError: it ends a call with one request and a search; a stream goes round
\* its loop, or has no reconnects left.
OnTransportError(t) ==
  /\ pc[t] \in {"sent", "streaming"}
  /\ \/ End(t, "TransportError")
     \/ Method(t) = "stream" /\ pc' = [pc EXCEPT ![t] = "ready"] /\ UNCHANGED raised
  /\ UNCHANGED <<configuration, headers, filters, closed, withdrawn, registry,
                 request, search, status>>

Dropped(t) == OnTransportError(t)

\* Closing the httpx client breaks what is in flight on it.
BrokenByClose(t) ==
  /\ Http(t) \in closed
  /\ OnTransportError(t)

-----------------------------------------------------------------------------
(* Everyone else. *)

\* A task is cancelled, a thread interrupted, an iterator abandoned.
Cancel(t) ==
  /\ pc[t] # "done"
  /\ End(t, "CancelledError")
  /\ UNCHANGED <<configuration, headers, filters, closed, withdrawn, registry,
                 request, search, status>>

\* Mutant: _owns_http is not looked at.
CloseAny(c) ==
  /\ closed' = closed \cup {http[c]}
  /\ UNCHANGED <<configuration, headers, filters, withdrawn, registry, pc, request,
                 search, status, raised>>

\* close() / aclose(), called or by __exit__ / __aexit__: at any moment, so also while
\* calls are in flight, as when asyncio.gather raises for one of them.
Close(c) ==
  /\ OwnsHttp(c)
  /\ closed' = closed \cup {http[c]}
  /\ UNCHANGED <<configuration, headers, filters, withdrawn, registry, pc, request,
                 search, status, raised>>

\* The application closes what it injected.
Withdraw ==
  /\ Injected \in {http[c] : c \in Clients} \ closed
  /\ withdrawn' = TRUE
  /\ closed' = closed \cup {Injected}
  /\ UNCHANGED <<configuration, headers, filters, registry, pc, request,
                 search, status, raised>>

\* Bound: the registry changes only while a search is in progress.
Watched == \E t \in Calls : Pages(t) /\ pc[t] # "done"

Mint ==
  /\ Watched
  /\ minted < MaxRecords
  /\ minted' = minted + 1
  /\ UNCHANGED <<configuration, headers, filters, closed, withdrawn, revoked,
                 pc, request, search, status, raised>>

Revoke ==
  /\ Watched
  /\ Cardinality(revoked) < MaxRevoked
  /\ \E p \in 1..minted : p \notin revoked /\ revoked' = revoked \cup {p}
  /\ UNCHANGED <<configuration, headers, filters, closed, withdrawn, minted,
                 pc, request, search, status, raised>>

\* Nothing is left but streams that wait for the next event.
Quiet ==
  /\ \A t \in Calls : pc[t] \in {"done", "streaming"}
  /\ UNCHANGED vars

Call(t) == Prepare(t) \/ Send(t) \/ Rejected(t) \/ Answered(t) \/ Paged(t)

Stream(t) == StreamAnswered(t) \/ StreamEvent(t)

Next ==
  \/ \E t \in Calls : Call(t) \/ Stream(t) \/ Dropped(t) \/ BrokenByClose(t) \/ Cancel(t)
  \/ \E c \in Clients : Close(c)
  \/ Withdraw \/ Mint \/ Revoke \/ Quiet

Spec == Init /\ [][Next]_vars

\* Tasks and threads run, and a request is answered or times out (timeout=30.0); the
\* request of a stream has timeout=None and may wait for ever, unless its httpx client
\* is closed.
Fairness ==
  \A t \in Calls : WF_vars(Call(t)) /\ WF_vars(BrokenByClose(t))

FairSpec == Spec /\ Fairness

-----------------------------------------------------------------------------
(* Properties. *)

Searches == {t \in Calls : Pages(t)}

Headers == [authorization : Clients,
            accept : {"application/json", "application/octet-stream", "text/event-stream"},
            last_event_id : {0, 1}]

Params == [revoked : {"absent", "true", "false"}, cursor : 0..MaxRecords]

(***************************************************************************)
(* Types of the variables, and the exceptions a call may end with          *)
(* (client.py:149-258, http.py:47-62).                                     *)
(***************************************************************************)
TypeOK ==
  /\ plan \in Plans
  /\ http \in Sharings
  /\ headers \in [Clients -> Headers]
  /\ filters \in [revoked : RevokedFilters, cursor : 0..MaxRecords]
  /\ closed \subseteq Clients \cup {Injected}
  /\ withdrawn \in BOOLEAN
  /\ minted \in 0..MaxRecords /\ revoked \subseteq 1..minted
  /\ pc \in [Calls -> {"ready", "prepared", "sent", "streaming", "done"}]
  /\ request \in [Calls -> [headers : Headers, params : Params \cup {None}] \cup {None}]
  /\ \A t \in Searches : pc[t] \in {"prepared", "sent"} => request[t].params \in Params
  /\ cursor \in [Calls -> 0..MaxRecords]
  /\ \A t \in Calls : Method(t) = "stream" => cursor[t] \in {0, 1}
  /\ listed \in [Calls -> SUBSET [of : 1..MaxRecords, revoked : BOOLEAN]]
  /\ total \in [Calls -> Nat]
  /\ due \in [Calls -> SUBSET (1..MaxRecords)]
  /\ status \in [Calls -> Statuses \cup {0, 200}]
  /\ raised \in [Calls -> Exceptions \cup {None}]

(***************************************************************************)
(* A call finds its httpx client closed only if that client was its own    *)
(* and closed itself, or if the application closed the one it injected:    *)
(* clients that share one never take it from each other                    *)
(* (client.py:128-132, 145-147, 275-279, 292-294).                         *)
(***************************************************************************)
ClosedByOwner ==
  \A t \in Calls : raised[t] = "RuntimeError" => OwnsHttp(Client(t)) \/ withdrawn

(***************************************************************************)
(* A request carries the key of its own client, the accept header of its   *)
(* own method and an id to resume after only if it is a stream that has    *)
(* one, whatever other calls of the same client are doing (client.py:      *)
(* 158-159, 233-236, 305-306, 375-378).                                    *)
(***************************************************************************)
HeadersAreOwn ==
  \A t \in Calls : pc[t] \in {"prepared", "sent"} =>
    request[t].headers =
      [authorization |-> Client(t), accept |-> Accept(Method(t)),
       last_event_id |-> IF Method(t) = "stream" THEN cursor[t] ELSE 0]

\* What the caller's filter asks for, said of a summary.
Matches(isRevoked) == filters.revoked \in {None, isRevoked}

(***************************************************************************)
(* Every summary a search lists matches the caller's filter, one that is   *)
(* False included (client.py:59-72).                                       *)
(***************************************************************************)
ListedMatches == \A t \in Searches : \A s \in listed[t] : Matches(s.revoked)

(***************************************************************************)
(* A search counts no attestation twice: the total it returns is the       *)
(* number of attestations it listed, though new ones push the registry     *)
(* along between its pages (registry_search_async.py:17-33,                *)
(* client.py:173-176).                                                     *)
(***************************************************************************)
CountIsExact ==
  \A t \in Searches : total[t] = Cardinality({s.of : s \in listed[t]})

\* How far down a call has come: a search that returns claims to be at the end, and so
\* does a page without a cursor.
Reached(t) ==
  IF cursor[t] = 0 \/ (Method(t) = "search" /\ pc[t] = "done" /\ raised[t] = None)
  THEN 1 ELSE cursor[t]

(***************************************************************************)
(* A search leaves no gap: what matched when its first page came, and      *)
(* still matches, is listed as far as the search has come, which is to the *)
(* end once it returns; pages without items, searches that share a filter  *)
(* and attestations minted or revoked meanwhile make no difference         *)
(* (registry_search_async.py:30-33, registry_search.py:48-51,              *)
(* client.py:66-72).                                                       *)
(***************************************************************************)
ListedAll ==
  \A t \in Searches : \A p \in due[t] :
    Reached(t) <= p /\ Matches(p \in revoked) => \E s \in listed[t] : s.of = p

(***************************************************************************)
(* A call that was not a stream ends with a typed error if and only if     *)
(* its last answer was not 2xx, and then with the one the error hierarchy  *)
(* documents for it (errors.py:38-61, http.py:47-69).                      *)
(***************************************************************************)
ErrorsAreTyped ==
  \A t \in Calls :
    LET code == status[t]
    IN  Method(t) # "stream" =>
          /\ raised[t] \in ApiErrors <=> code \notin 200..299 \cup {0}
          /\ raised[t] = "DeepidvAuthError" <=> code \in {401, 403}
          /\ raised[t] = "DeepidvNotFoundError" <=> code = 404
          /\ raised[t] = "DeepidvRateLimitError" <=> code = 429
          /\ raised[t] = "DeepidvServerError" <=> code \in 500..599

(***************************************************************************)
(* Every call ends, a search for all its pages, and so does a stream once  *)
(* its httpx client is closed: its reconnect loop does not outlive the     *)
(* client (client.py:145-147, 232-258).                                    *)
(***************************************************************************)
CallsEnd ==
  \A t \in Calls : (Method(t) # "stream" \/ Http(t) \in closed) ~> pc[t] = "done"
=============================================================================
