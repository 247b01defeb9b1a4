----------------------------- MODULE EventFeed -----------------------------
(***************************************************************************)
(* What stream_attestations() promises the code that iterates over it,     *)
(* with no connection in sight: a log of events grows, and the consumer is *)
(* handed the attestations after its starting point once each, whole, in   *)
(* order and without a gap.  Heartbeats may be missed or repeated.         *)
(***************************************************************************)
EXTENDS Naturals, Sequences

CONSTANTS
  MaxEvents,   \* bound: length of the log
  EventKinds   \* kinds of event the log may hold

VARIABLES
  resume,     \* the last_event_id the consumer asked for; 0 is none
  log,        \* position -> kind of event
  published,  \* how much of the log exists
  base,       \* the position after which the consumer's feed begins
  got         \* the events handed to the consumer

feed == <<resume, log, published, base, got>>

Attestations == {p \in 1..MaxEvents : log[p] = "attestation"}

Got == {got[i].of : i \in DOMAIN got}

FeedInit ==
  /\ resume \in 0..MaxEvents
  /\ log \in [1..MaxEvents -> EventKinds]
  /\ published = resume
  /\ base = resume
  /\ got = <<>>

FeedPublish ==
  /\ published < MaxEvents
  /\ published' = published + 1
  /\ UNCHANGED <<resume, log, base, got>>

\* Without an id to resume after, the feed begins wherever the service chooses, and
\* may do so again until the consumer holds an id.
Begin ==
  /\ resume = 0
  /\ Got \cap Attestations = {}
  /\ base' \in 0..published
  /\ UNCHANGED <<resume, log, published, got>>

Hand(p) ==
  /\ base < p /\ p <= published
  /\ got' = Append(got, [of |-> p, whole |-> TRUE])
  /\ UNCHANGED <<resume, log, published, base>>

HandHeartbeat(p) == log[p] = "heartbeat" /\ Hand(p)

\* The next attestation: all those before it, and none after it, were handed out.
HandAttestation(p) ==
  /\ p \in Attestations
  /\ {q \in Attestations : base < q /\ q < p} = Got \cap Attestations
  /\ Hand(p)

FeedNext ==
  \/ FeedPublish
  \/ Begin
  \/ \E p \in 1..MaxEvents : HandHeartbeat(p) \/ HandAttestation(p)

FeedSpec == FeedInit /\ [][FeedNext]_feed
=============================================================================
