---------------------------- MODULE SseSession ----------------------------
(***************************************************************************)
(* A consumer of stream_attestations() that outlives its iterator.  When   *)
(* one ends, by an exception or because the task, thread or process that   *)
(* ran it did, the consumer calls stream_attestations again with           *)
(* last_event_id set to the id of the last event it was handed.  What a    *)
(* generator knew beyond that dies with it.                                *)
(*                                                                         *)
(* `call` are the arguments of the iterator at work, `delivered` what all  *)
(* of them handed out.                                                     *)
(***************************************************************************)
EXTENDS SseStream

VARIABLE origin   \* the last_event_id of the first iterator

sessionVars == <<vars, origin>>

ASSUME SessionAssumption == ResumeIds = 0..MaxEvents

SessionInit == Init /\ origin = call.last_event_id

-----------------------------------------------------------------------------
(* Between iterators. *)

WithId(i) == i \in DOMAIN delivered /\ HasId(log[delivered[i].of])

\* The id of the last event handed out that had one; before that, what the last
\* iterator was asked to resume after.
LastSeen(id) ==
  \/ /\ \E i \in DOMAIN delivered :
          /\ WithId(i) /\ id = delivered[i].of
          /\ \A j \in DOMAIN delivered : i < j => ~WithId(j)
  \/ /\ \A i \in DOMAIN delivered : ~WithId(i)
     /\ id = call.last_event_id

\* Mutant: the argument is not looked at.
FreshIteratorFromNow(id) ==
  /\ pc' = "connecting"
  /\ current_id' = 0
  /\ attempts' = 0
  /\ backoff' = InitialBackoff
  /\ buffer' = {}
  /\ slept' = <<>> /\ tries' = 0 /\ raised' = "none"

\* A generator's locals at its start.
FreshIterator(id) ==
  /\ pc' = "connecting"
  /\ current_id' = id
  /\ attempts' = 0
  /\ backoff' = InitialBackoff
  /\ buffer' = {}
  /\ slept' = <<>> /\ tries' = 0 /\ raised' = "none"

NewIterator ==
  /\ pc = "ended"
  /\ \E id \in ResumeIds :
       /\ LastSeen(id)
       /\ call' = [call EXCEPT !.last_event_id = id]
       /\ FreshIterator(id)
  /\ UNCHANGED <<log, published, base, pos, sent, faults, delivered, origin>>

\* The iterator is abandoned, or its task, thread or process ends.
Interrupted ==
  /\ pc # "ended" /\ Fault
  /\ pc' = "ended" /\ raised' = "GeneratorExit"
  /\ UNCHANGED <<call, log, published, base, pos, sent, current_id, attempts, backoff,
                 buffer, delivered, slept, tries, origin>>

Within ==
  /\ Loop \/ Publish \/ Refused \/ ErrorStatus \/ Dropped \/ SyncEof \/ AsyncEof
  /\ UNCHANGED origin

\* The connection is open and everything was published and read.
Waiting ==
  /\ pc = "reading" /\ pos > published /\ published = MaxEvents
  /\ UNCHANGED sessionVars

SessionNext == Within \/ Interrupted \/ NewIterator \/ Waiting

SessionSpec == SessionInit /\ [][SessionNext]_sessionVars

\* The fairness of one iterator, and a consumer that always begins another.
SessionFairSpec ==
  SessionSpec
  /\ WF_sessionVars(Connect /\ UNCHANGED origin)
  /\ WF_sessionVars(Wake /\ UNCHANGED origin)
  /\ WF_sessionVars((ReceiveField \/ ReceiveBlank) /\ UNCHANGED origin)
  /\ WF_sessionVars(Resume /\ UNCHANGED origin)
  /\ WF_sessionVars(NewIterator)

-----------------------------------------------------------------------------
(* Properties. *)

(***************************************************************************)
(* A consumer that resumes after the last id it was handed sees one feed,  *)
(* whatever ended the iterators in between: nothing twice, nothing out of  *)
(* order and no gap (client.py:231, 245-251).                              *)
(***************************************************************************)
SessionFeed == INSTANCE EventFeed WITH resume <- origin, got <- delivered

SessionImplementsFeed == SessionFeed!FeedSpec

(***************************************************************************)
(* The ids handed out after an event whose name StreamEvent does not list  *)
(* are none: it is never passed over in silence, by the iterator it ends   *)
(* or by one that resumes (client.py:245-251, api.py:124).                 *)
(***************************************************************************)
UnmodelledIsNotSkipped ==
  \A i \in DOMAIN delivered, q \in 1..MaxEvents :
    WithId(i) /\ base < q /\ q < delivered[i].of => log[q] # "unmodelled"

(***************************************************************************)
(* Once the consumer holds an id, every attestation published later is     *)
(* handed out, through any finite number of faults, crashes and            *)
(* exhausted iterators, unless an event of an unlisted name lies in        *)
(* between: that one ends every iterator that reaches it, for good         *)
(* (client.py:232-258).                                                    *)
(***************************************************************************)
SessionDelivers ==
  \A p \in 1..MaxEvents :
    /\ 0 < current_id /\ current_id < p /\ p <= published /\ log[p] = "attestation"
    /\ \A q \in base + 1..p : log[q] # "unmodelled"
    ~> Delivered(p)
=============================================================================
