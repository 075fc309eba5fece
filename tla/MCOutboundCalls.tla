-------------------------- MODULE MCOutboundCalls --------------------------
(* Constants of module OutboundCalls for TLC.                              *)
EXTENDS OutboundCalls

\* Attempts of one call: two for an application of the user, the reference
\* application's and the provider's retries reduced alike.
Attempts == [t \in Transports |-> 2]

=============================================================================
