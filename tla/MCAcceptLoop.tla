---------------------------- MODULE MCAcceptLoop ----------------------------
(***************************************************************************)
(* AcceptLoop for TLC, with the claim of src/src/bin/server.rs about       *)
(* shutdown and the weaker fairness under which the code does not keep it. *)
(***************************************************************************)
EXTENDS AcceptLoop, TLC

AllKinds == {"kcp", "quinn", "slipstream", "client"}
JustQuinn == {"quinn"}

\* Connections may last for ever, which is what the drain's limit is for.
LongConnections == Spec /\ LoopFairness /\ BindFairness

\* "stops accepting new connections and waits up to --shutdown-drain-secs": the
\* process ends after the signal, whatever the connections do.
SignalEndsProcess == signalled ~> pc \in {"exited", "failed"}
=============================================================================
