--------------------------- MODULE MCChainClient ---------------------------
(* An instance of ChainClient for TLC. *)
EXTENDS ChainClient

Of(client, method) == [client |-> client, method |-> method]

\* The pairs of calls: a search beside another call that uses the same filter dict, and
\* a stream beside every other method, on one client or on two.
MCPlans ==
  {<<Of("a", "search"), Of("a", "list")>>, <<Of("a", "stream"), Of("b", "get")>>,
   <<Of("a", "stream"), Of("b", "sths")>>, <<Of("a", "stream"), Of("a", "bundle")>>,
   <<Of("a", "stream"), Of("a", "stream")>>}

\* Both clients own their httpx client, or both were given that of the application.
MCSharings ==
  {[c \in Clients |-> c], [c \in Clients |-> Injected]}

\* No filter, and both values of one.
MCRevokedFilters == {None, TRUE, FALSE}
=============================================================================
