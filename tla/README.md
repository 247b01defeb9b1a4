# A verification development for deepidv-chain-python

TLA+ models of `deepidv_chain`, the Python SDK of the deepidv chain layer, with
TLC runs and TLAPS proofs about them. Paths below are relative to
`src/deepidv_chain/` unless they name another directory of the repository.

## 1. The system

The package is a client library. It keeps nothing on disk and starts no thread; what
makes it hard is the network on one side and data it must not trust on the other.

| Component | State | Operations | Talks to |
|---|---|---|---|
| Attestation stream: `stream_attestations` of `Client` and `AsyncClient` (`client.py:216-258`, `363-408`), `iter_sse_blocks`, `parse_sse_block` (`_internal/http.py:82-121`) | per iterator: `current_id`, `attempts`, `backoff`, the lines of the block being read, an open response | open or reopen the stream, read a line, finish a block, yield an event, sleep, give up | the SSE endpoint, the code that iterates, the error mapping |
| Bundle verifier: `verify_bundle` (`verify.py`) | rows of checks so far; the authenticated members | ten checks in a fixed order, `_finalize` | manifest, ECDSA, JCS hashes, Merkle verifiers |
| Merkle verifiers (`crypto/merkle.py`) | position `fn`, last position `sn`, digests | `verify_inclusion`, `verify_consistency` | called by the bundle verifier and by users |
| REST calls and client life (`client.py:59-214`, `261-361`) | headers, base URL, the httpx client and whether it is owned | one request per call, pages by cursor, `close` | the API, error mapping, pydantic types |
| HTTP error mapping (`_internal/http.py:23-79`, `errors.py`) | none | status to exception, default headers | httpx responses |
| Manifest (`crypto/manifest.py`) | none | parse, render | bundle verifier |
| ECDSA (`crypto/ecdsa_verify.py`) | none | decode a signature, load a key, verify | bundle verifier |
| JCS, envelope hash, STH payload (`crypto/jcs.py`, `envelope_hash.py`, `sth_hash.py`) | none | canonicalise, hash | bundle verifier; the other SDKs, by parity |
| Types (`types/`) | frozen pydantic models | validation | everything |
| Examples (`examples/`), workflows (`.github/`) | - | scripts and hosted configuration | the public surface |

What makes each correct, and where it is hard:

* **Stream.** Connections are refused, cut inside an event, or closed in good order;
  an id is replayed so that the server resumes. Correct means: each attestation once,
  whole, in order, no gap; retries within their budget and paced; typed errors; never
  a silent stop. It is hard because the id, the event and the lines between them
  arrive separately and the connection may end between any two, and because the same
  loop is written twice, once per client, with different line framing.
* **Verifier.** Correct means: valid exactly for a bundle with no defect; nothing is
  parsed before its bytes are authenticated; every row is true of the bundle; the
  salt never surfaces; no exception. It is hard because of its partial failures: every
  field of every member may have a shape some later check does not expect, and
  handlers are written for some exceptions only.
* **Merkle verifiers.** Correct means: what RFC 6962 defines is accepted, nothing else
  is, and every call returns. Hard at the edges: incomplete levels, full subtrees,
  short and long paths, size 0 and 1.
* **REST calls.** Each page is read at another moment; an injected httpx client
  belongs to the caller; errors carry the status.
* **Pure functions.** JCS must agree with ECMAScript's number and key order rules,
  manifests with `sha256sum`, signatures with two text encodings.

`PROJECT.json` lists the hazards behind these at the lines where they bite.

## 2. Modules

| Module | Models | How |
|---|---|---|
| `EventFeed` | what the code that iterates is promised | abstract: a log grows, events are handed out; no connection, id or retry |
| `SseStream` | the stream, both clients | one action per branch of the loop; the server, the network and the consumer are the environment |
| `SseSession` | a consumer that begins another iterator when one ends | extends `SseStream` with `NewIterator` and `Interrupted` |
| `ChainClient` | the request path of both clients: concurrent calls, pages, shared httpx clients | one action per step of a call; the service, the network and the application are the environment |
| `VerifyBundle` | `verify_bundle` | one action per check; a bundle is the condition of each of its parts |
| `MerkleDigest` | `leaf_hash`, `_node_hash` | abstract: two constant operators, and what collision-free means |
| `MerkleVerify` | `verify_inclusion`, `verify_consistency` | one action per iteration of each loop, over any digests |
| `MerkleTree` | RFC 6962 trees and proofs, as recursive functions | external: the reference the code says it mirrors |
| `MerkleLog` | what the log proves and the code accepts of it | composes `MerkleVerify` with `MerkleTree` and states what one means for the other |
| `JcsEncode` | how `jcs.py` writes numbers | pure operators, beside ECMAScript's rule |
| `SseStreamProofs`, `SseSessionProofs`, `ChainClientProofs`, `VerifyBundleProofs`, `MerkleVerifyProofs`, `MerkleTreeProofs`, `MerkleLogProofs`, `JcsEncodeProofs` | - | theorems about the module each is named after |
| `MCSseStream`, `MCSseSession`, `MCChainClient`, `MCVerifyBundle`, `MCMerkle`, `MCJcsEncode` | - | instances for TLC |

Operators whose comment starts with "Mutant:" are deliberate bugs. They are used by no
specification; each shows that some property can fail (`PROJECT.json`, "mutants").

### SseStream

`pc` is where the generator is: `connecting` (line 238), `reading` (line 241, in the
`for`), `yielded` (suspended at the `yield`), `yieldedLast` (suspended at the `yield` of
a block that was flushed when the lines ran out), `sleeping` (line 256), `ended`.
`current_id`, `attempts`, `backoff` and `buffer` are the code's variables; `delivered`,
`slept` and `tries` are histories; `raised` is the exception that left the generator.
The headers sent are `current_id`; what the server does with them is `OpenFrom`.

| Action | Code |
|---|---|
| `Connect` | 233-241: the answer is 2xx, the backoff is reset, reading begins |
| `Refused`, `Dropped`, both by `OnTransportError` | 252-258: a transport error before, or after, the answer |
| `ErrorStatus` | 239: an answer that is not 2xx |
| `Wake` | 256-258 |
| `ReceiveField`, `ReceiveBlank` | the framing: `iter_sse_blocks`, or 384-401 in the async client |
| `Dispatch` | 242-251: parse, record the id, decode the data, build the event, yield |
| `SyncEof`, `AsyncEof` | the lines run out: `http.py:120-121` flushes, 384-401 does not |
| `Resume`, `Abandon` | the consumer's `next()`, or `close`, cancellation, interruption |
| `Publish` | the log grows |

The event at position p of the log has p as its id. An event is its lines: `event`,
`id`, `data`, `rest` (a second data line, so that a block may hold its data in part). A
heartbeat has no id, `idOnly` has no data, `unmodelled` has a name that `StreamEvent`
refuses (or data that is JSON but no object: the same exception, in the same place,
ends the iterator), `keepalive` is a blank line. The server sends what follows the replayed id,
and starts where it likes without one. Lines are atomic: a response that ends inside a
line, from which the sync client would also read a shortened id, is not modelled.

### SseSession

An iterator ends by an exception, a spent budget, `close`, or with its process. What it
knew, `current_id` included, is gone; the consumer calls `stream_attestations` again with
the id of the last event it was handed (`LastSeen`) as its `last_event_id`
(`client.py:219`); that a consumer does so is assumed of it. `delivered` and `log` go on, everything that is a
local of the generator starts afresh (`FreshIterator`). `Interrupted` may strike at any
step, so also between the recording of an id (line 246) and the `yield`. All iterators
together implement the same `EventFeed` as one does (`SessionImplementsFeed`).

### ChainClient

A call has a client and a method. It goes from `ready` over `prepared` (its headers and
params are built, `client.py:154-159`, `173-177`) and `sent` to `done`, a stream over
`streaming`; `raised` is the exception that ended it, `None` for a value. The methods are those of
the code; `list` is one call of `list_registry`, `search` the loop around it of
`registry_search_async.py:17-33`. What the code shares between calls is shared here: the
headers of a client, the caller's filter dict and the httpx client, which is the client's
own (`_owns_http`) or `Injected`.

| Action | Code |
|---|---|
| `Prepare` | headers copied and extended, params built: `_request`, `list_registry`, `_filters_to_params` |
| `Send` | `self._http.request` / `.stream`; httpx refuses a closed client with `RuntimeError` |
| `Rejected` | `raise_for_status` and `map_response_to_error` |
| `Answered` | a 2xx body through `response.json()` and `_parse_model`, of every method |
| `Paged`, with `TakePage` | one page of the service and what the loop does with it |
| `StreamAnswered`, `StreamEvent` | the beginning of a stream; the rest is `SseStream` |
| `OnTransportError` (`Dropped`, `BrokenByClose`) | a transport error, from the network or from closing the httpx client |
| `Close`, `Cancel`, `Withdraw` | `close` / `aclose`, a cancelled task, the application closing what it injected |
| `Mint`, `Revoke` | the registry changes |

Attestations are numbered as they are minted and listed newest first; a cursor is the
last position the service looked at, so new ones do not shift it. That is how the code
uses the service, and it is external. A page may hold fewer rows than were looked at,
none included, and still have a cursor. How many times a stream may reconnect is left
open (`OnTransportError` may end it or go round), since `SseStream` counts.

### JcsEncode

A float is the count of its shortest digits and the position of its point: `repr` and
ECMAScript both take the shortest digits that read back as the float, so only the forms they put
them in can differ. `Repr` is Python's, `EcmaScriptForm` ECMAScript's, `StripExponent` the
substitution at line 113, `EncodeFloat` the branches of `_encode_number`. An int is its
value: `Encode` writes its exact digits (`jcs.py:60-61`), while ECMAScript has the double
it becomes (`Double`, over the spacing `Ulp`) and writes the shortest decimal that
reads back as that double (`Shortest`). `jcs.py:14` speaks for the safe-integer range only, and
so does the property (`Claimed`).

### VerifyBundle

The state is `pc` (the check to be made), `checks` (the rows), `result` and `raised`.
A bundle maps each part to a condition, `"ok"` or a defect. The conditions are
those that the code tells apart by a branch, an exception it catches or one it does not
(`null`, for instance, is a tree size that does not convert at line 215 and does at 226):
`leafIndex` may be numeric and out of range (`MerkleVerificationError`, caught), not
numeric (`ValueError`, caught), or mistyped (`TypeError`, not caught). Where several
defects meet, the order of evaluation in the code decides, and the guards of
`CheckInclusion` keep it. The hash, signature and Merkle computations are conditions
here ("other", "invalid", "wrong"); `MerkleVerify` models the last in full. An index or a size that is not the
signed tree's may still lead to the signed root (`MerkleIndex`), and `tree_size` of the proof
is compared with nothing: these are the conditions `displaced` and `unsigned`, with which
a bundle is valid, and `ValidIsSound` names them (`Unbound`). It says nothing of the issuer key,
about which code and comment disagree (section 5). `Found` says of each row which
defects it is there to tell of; `RowsAreTruthful` compares the rows made with it, and
`EveryProblemIsReported` those not made. The key the signatures
are verified with is the one in the bundle; whose it is, the code leaves to its caller.

### MerkleVerify, MerkleTree and MerkleLog

`fn`, `sn`, `low` (`h`, or `fr_hash`) and `high` (`tr_hash`) are the code's variables,
`rest` the siblings left. `Trim` is the `while` at line 105, `Walk` an iteration of a
`for` (51, 119), `Climb` one of the inner `while` (59, 125). The two functions share
`Walk`, `Climb` and `Finish`, which differ by `request.op` just where the code does:
only `verify_consistency` stops climbing at 0 (`Climbs`). Hexadecimal decoding of siblings
is left out.

The digests are constants, of which nothing is assumed. TLC gives them terms
(`TermLeaf`, `TermNode`), two of which are equal only if what was hashed is. The theorems for which
that matters have it as a hypothesis, `CollisionFree`; SHA-256 is taken to satisfy it, and that
it can be satisfied at all is the lemma `TermsDoNotCollide`.

`MerkleTree` is RFC 6962, section 2.1, word for word but for two things. Its ranges
D[a:b] are cuts `<<a, b>>` of one log, so that a tree and its parts are values of one function; and the flag
of SUBPROOF is TRUE exactly for the cuts that begin at entry 0, so it is left out. `Split`
gets at "the largest power of two smaller than n" by halving; `MCMerkle!SplitIsLargestPower` has TLC compare
it with those words.

`MerkleLog` says of each call what its verdict means for logs: an honest proof is
accepted (`HonestInclusionAccepted`, `HonestConsistencyAccepted`), and what is
accepted is a member (`AcceptedIsMember`) or a past (`AcceptedIsPast`) of the log,
whatever sizes and index were stated. It need not be what was stated (finding 6),
unless the path reached the root's level (`FullProofIsExact`).

## 3. Runs

| Run | What it asks | Bounds |
|---|---|---|
| `SseDelivery` | `InOrder`, `NoLoss`, `DeliveredWhole`, `EventuallyDelivered`, and `ImplementsFeed`: `EventFeed` is implemented | 3 events of any of 5 kinds, 2 faults, both clients, with or without an id to start from |
| `SseRetry` | across iterators: `ReconnectBudget`, `BackoffSchedule`, `UnmodelledIsNotSkipped`, `SessionImplementsFeed`, `SessionDelivers` | 3 events, each an attestation or of an unlisted name, 5 faults, budgets none, 0, 2; sleeps from 1 to 6; no response that ends in good order (`SseBudgetOff` has those) |
| `ClientCalls` | `ClosedByOwner`, `HeadersAreOwn`, `ListedMatches`, `CountIsExact`, `ListedAll`, `ErrorsAreTyped`, `CallsEnd` | 2 calls (the pairs of `MCPlans`) on 2 clients, with own or shared httpx clients; 3 attestations, 1 revoked, 2 rows to a page; a status code of each class |
| `VerifyVerdict` | `ValidIsSound`, `GenuineIsValid`, `RowsAreTruthful`, `ParsedOnlyAuthenticated`, `SaltNeverSurfaces` | every bundle with at most 2 defects |
| `MerkleProofs` | `HonestInclusionAccepted`, `HonestConsistencyAccepted`, `AcceptedIsMember`, `AcceptedIsPast`, `FullProofIsExact`, `NeverSpins`, `Terminates` | trees up to 5 leaves, two histories that part after 2; every size and index from -1, every leaf and root, every proof, longer or shorter by one |
| `SseBudgetOff`, `SseErrorStatus`, `SseTruncated`, `VerifyRaises`, `VerifyFirstOnly`, `MerkleIndex`, `JcsNumbers` | each a statement of the repository about itself that the code does not meet | the smallest instance that shows it; `JcsNumbers` has every float of 1 to 17 digits from 1e-10 to 1e23, and ints up to 1100 with 2^53 and 1e21 scaled to 16 and 1000 |

Why the bounds are enough. Three events give an event before, one after and one in
between two with ids; two faults give a fault during the recovery from another. With
sleeps scaled to 1, 2, 4, 6 five failures reach the cap and stay there, and they exhaust
a budget of 2 and begin a second iterator on its way. Two calls are enough for what calls
can do to each other, as everything they share is shared by two; the pairs put a search
beside another user of its filter and a stream beside every other kind of call. Three
attestations in pages of two rows make two pages, with minting and a revocation before,
between and after them. Two defects let each meet any
other, before or after it; a third could only be hidden by the first that ends the
call. Five leaves are the least with an incomplete level that climbs twice (5 = 4 + 1),
and the fork after 2 lies on, before and after a power of two. The caps on growth are
`MaxEvents` and `MaxFaults`, and `MaxRecords`, `MaxRevoked` and `Watched` (the registry
changes only while a search is in progress).

The `TypeOK`s also say which exceptions can leave the code, and that of `VerifyBundle`
that it returns either a result with every row made or an exception.

**Assumption on the server.** `SseDelivery` lets a response end in good order at any
line for the async client, but only between events for the sync one. `SseTruncated`
shows what happens to the sync client otherwise; the theorems carry the same
assumption by name (`Polite`).

**Fairness** (`SseStream!Fairness`, `SseSession!SessionFairSpec`, `ChainClient!Fairness`,
`MerkleVerify!FairSpec`). Weak fairness on
opening the stream, on waking from a sleep, on reading lines that were sent, and on
the consumer asking for the next event: a thread or an event loop runs the generator
on, and sleeping ends. The environment is owed nothing but that its faults are finite
(`MaxFaults`); without that, no client could deliver. Reading is the weakest part:
the request has no timeout (`client.py:238`), so on a half-open connection the code
waits for ever and nothing it does repairs it. In a session the consumer begins another
iterator when one ended. A call of `ChainClient` runs on, and its request is answered
or times out (by default after 30 s, `client.py:122`); of a stream's request nothing is assumed,
for it has no timeout, but that closing the httpx client breaks it. A function that is
called runs on.

`EventuallyDelivered` speaks of attestations after an id the consumer holds. Before it
holds one the server may start anywhere after a reconnect, as `EventFeed!Begin` says.
`SessionDelivers` adds the condition that no event of an unlisted name lies between: such
an event ends every iterator that reaches it, and a consumer that resumes where it was
meets it again.

## 4. What is proved

For every value of the constants. What is taken for granted are the named assumptions on
constants, all of which TLC evaluates in the runs, and the hypotheses written in a
theorem: `Polite` (servers), `CollisionFree` (digests), and that a path is a sequence.

* **SseStreamProofs.** `TypeCorrect`, `OrderCorrect`, and under `Polite`, `NothingLost`,
  `NothingTorn` and `StreamImplementsFeed`, for any log, any number of faults and of
  reconnects. The properties are not inductive: while
  a block is half read, nothing they mention says what the buffer may hold. `Ordered`
  adds that while lines are read the buffer is exactly what this connection has sent of
  the event at `pos` (`BlockOK`), that `pos` lies beyond `current_id`, and that nothing
  with an id that was handed out does. `Complete` adds that every deliverable event
  from `base` to `pos` was handed out, that no attestation from before `base` was, and
  what `base` and `current_id` are to each other. With them every finished block is one whole event (lemma
  `WholeBlock`), so `Dispatch` reduces to three cases (`DispatchCases`). The refinement
  then maps `ReceiveBlank` and the closes to handing out an event or to a stutter,
  `Connect` without an id to `Begin`, and everything else to a stutter.
  `BackoffCorrect` and, for servers that never close in good order, `BudgetKept`:
  `Schedule` ties `backoff` to the last sleep, and `Paid` the requests made to `attempts`.
  `StreamAdvances`: every step of the generator comes nearer to the end of what is published, in the
  order of `Nearer` (how far it is from reading, then the lines ahead); only a fault takes it
  back, so it never goes round by itself. Ending a response in good order is such a fault: against it
  the code itself has nothing (finding 2).
* **SseSessionProofs.** `SessionOrder`, and under `Polite`, `SessionNothingLost` and
  `SessionFollowsFeed`, over any number of iterators. A step within an iterator is a step
  of `SseStream`, so its invariants carry over; what is new is that they survive
  `NewIterator`, which forgets `current_id`. For that `SessionOrdered` and `Kept` add that
  the argument an iterator began with is never ahead of what was handed out and that
  only deliverable events were. `SessionStopsAtUnmodelled` needs no `Polite`: `Clear` says that
  everything from `base` up to what was handed out or is being read is of a listed name.
* **ChainClientProofs.** All safety properties of `ChainClient`, for any clients, calls,
  plans, ways to share httpx clients, status codes, page sizes and registries. `CallStep` says
  that a step is one of a given call or leaves that call alone, so that each
  invariant is proved one call at a time: `Current` (a request is what `RequestOf` would
  make now, and no client's headers nor the filter ever change) for `HeadersAreOwn`,
  `Owned` for `ClosedByOwner`, `Open` for `ErrorsAreTyped`, and `Scan` and `Gapless` for the
  searches: a search lists downwards to its cursor, each page lies below it (so that the
  union of the pages is disjoint, which makes the count exact), and what is due above it is listed.
  That no revocation falsifies `Gapless` rests on revocations being final.
  `CallsAdvance` is about the calls of which `CallsEnd` speaks: each of their steps lowers `Left`,
  a number of steps at most left to them, and no step of anyone else raises it. A search
  lowers it because a page begins below the last cursor, which needs `Current` (the request that is
  answered is the one of this page); a stream whose httpx client is closed because it cannot
  get past `Send` again.
* **VerifyBundleProofs.** Types and all five properties, for any bundles, so for any number of defects
  at once. `VerdictSound` (a valid verdict means no defect but those of `Unbound` and of the issuer
  key) rests on `Sound`, which says at each `pc` what the checks that passed have found out; each
  check adds its part. The other four rest on `Contract`: the rows are those of
  `ContractRows` one after another as a good bundle gets them (`Expected`), one that failed is the
  last, as its check returns, and what it looks for was there (`Found`), and from the fifth row on
  the manifest and its signature are good. `RowsTruthful` needs in addition that a row that passed
  leaves nothing its check looks for (`PassesTrue`). One lemma (`PassCase`) covers every check
  that passes or fails, another (`Appending`) the rows they leave.
* **MerkleVerifyProofs.** `WalkTyped` and `WalkNeverSpins`, for every index, size and path
  and any digests. That `verify_inclusion` never enters its inner loop at position 0
  follows from `fn <= sn` and the test of `sn` at line 53; the inner loop itself has no such
  test, and the same argument shows that of `verify_consistency` would not need the one it has at 125.
  `WalkDescends`, for paths of any length: every step begins a later phase of the
  call, uses a sibling up, or halves a position that is not 0. The three are ordered
  lexicographically over natural numbers, so a call that goes on ends; only fairness is left to TLC.
* **MerkleTreeProofs.** What the two halves of the argument need of RFC 6962. TLAPS must be
  shown that a recursive function is the solution of its equation: the set of the sizes up
  to which it is has no least element outside (`Induction`, on sets of numbers, for want of an induction
  over formulas). Then, geometry: the node at position `i` of the level whose nodes have `p`
  leaves is the cut `Cover(p, i, n)`, cut off at the end of the tree; if `i` is odd it is the
  right part of the node above, if even and not the last the left part (`AboveOdd`, `AboveEven`),
  and the even last one is the node above (`AboveLast`). So the levels that have a single node at the
  right edge, on which the code climbs, are those where the RFC's recursion does nothing. Last,
  what a node's path begins with is what the walk to it has consumed (`PathGrows`, `SubproofGrows`).
* **MerkleLogProofs.** All five properties of `MerkleLog`, for any set of logs,
  any number of leaves, any requests.
  If digests do not collide: `OnlyMembersAccepted` rests on `Member` (as long as the digest in hand is a
  subtree of any log, the leaf is in that subtree), `OnlyPrefixesAccepted` on `Past` (if the two
  digests in hand are subtrees of two logs, the older is a prefix of the newer). Neither
  knows where in a tree the walk is, so both hold for any stated index and size.
  `FullPathsExact` does know: `Under` says that the walk is at the node above the stated leaf, and
  that, should the digest in hand be the one of that node, what led there was right.
  Whatever the digests: `AuditPathsAccepted` and `ConsistencyProofsAccepted` rest on `Honest`: the
  digests in hand are those of the nodes the walk is at, and the siblings used up are exactly
  the path those nodes have.
* **JcsEncodeProofs.** `FloatsAgree` says exactly which floats are written as ECMAScript
  does, for any number of digits and any magnitude: it delimits the finding of `JcsNumbers`.
  `SafeIntsAgree` and `OddIntsDiffer` do so for ints: in the safe range every one is, beyond
  it no odd one. Of 2^53 and 10^21 only `Format` is assumed, that the first is even and the second no
  smaller. The recursive functions are shown to solve their equations by the lemma `Recursion`; then
  `UlpBinade` says that a value at or beyond 2^53 lies in a binade whose spacing is even.

Only model-checked: liveness (`EventuallyDelivered`, `SessionDelivers`, `CallsEnd`,
`Terminates`), which TLAPS does not prove. What of it needs no fairness is proved:
`WalkDescends` for `Terminates`, `CallsAdvance` for `CallsEnd`, `StreamAdvances` for
`EventuallyDelivered` say that whatever runs on comes nearer to its end; that it does run on, when it is
not waiting for someone, is left to TLC.

## 5. What the code does otherwise than it says

1. `SseErrorStatus`: an error answer to the stream request is not turned into a typed
   exception. `map_response_to_error` asks a response that was not read for its JSON
   (`http.py:30`), and httpx raises `ResponseNotRead`.
2. `SseBudgetOff`: `max_reconnect_attempts=0` is documented to disable reconnects
   (`client.py:226`, `README.md:57`); after a response that ends in good order the loop opens
   the next one, uncounted and without a sleep.
3. `SseTruncated`: the two clients differ in more than `await`
   (`docs/handoffs/M08-luka-verification.md:245`): the sync one flushes an unfinished event
   when the response ends, with its id, and never sees the rest.
4. `VerifyRaises`: "never raises for a malformed bundle" (`verify.py:95`); many
   malformed members do raise.
5. `VerifyFirstOnly`: the rows are there "so callers can surface every problem at once"
   (`verify.py:96`, and `docs/handoffs/M08-luka-verification.md:323-324`, "rather than failing
   on the first"); the first check that fails returns, and what the later ones would find, be it
   independent of the first, has no row.
6. `MerkleIndex`: a path that ends below the root of the stated tree is accepted
   for another index: leaf 2 at index 1 of 3, with the node of leaves 0 and 1 as its path.
   `FullProofIsExact` shows that the missing comparison of `sn` with 0 is all there is to it, in
   `verify_consistency` too.
7. `JcsNumbers`: numbers are said to be written as ECMAScript does (`jcs.py:13`). Whole
   floats from 1e16 to 1e21 and floats from 1e-6 to 1e-4 are not (`1e+16`, `1e-5`). Of ints
   the claim covers the safe range, where it holds; beyond it, 9007199254740993 for one is
   written exactly where ECMAScript rounds.

Also seen, with no run: the issuer key check is called "record only" and non-gating
(`verify.py:263`, `docs/handoffs/M08-luka-verification.md:334-335`), and its failed row makes
the verdict invalid, so no property says which it should be; an unreadable archive reports a skipped timestamp
check that has no row (`verify.py:107`); the tree size the result reports is the signed one
while the proof was walked in a tree of the size the proof states (`verify.py:215`, `290`); `attempts` is never reset, so the budget is one of
the whole life of the iterator; `client.py:8-10` says both clients close their httpx
instances, which an injected one is exempt from; the user agent is said to be appended
(`README.md:115`) and replaces the default; a 2xx answer with a body that is no JSON or of
another shape raises `JSONDecodeError` or pydantic's `ValidationError`, not one of
`errors.py`.

## 6. Plan

Done: the stream with its abstract feed, and its consumer over several iterators; the
verifier; the Merkle walks, proved against the trees of RFC 6962; the request path with its
searches; the number rules; measures that descend for the walks, the calls and the stream.
Next, the same over several iterators of a session, where an event of an unlisted name is
what never lets it advance.

### Not modelled

`render_manifest`, the key order and string escapes of `jcs.py`, the text encodings
of a signature, the hexadecimal of digests, paths, URLs, `limit` and the parsing of
`retry-after`: conversions without state, in which no property of the system
distinguishes more than the outcomes that are modelled. The pydantic models of the REST answers:
data without behaviour. The workflows: no code of the program. The cryptography
and httpx libraries: their outcomes are the environment. The time a
sleep takes: only its length is recorded. A timeout of a stream that hangs: the code has none.
