------------------------ MODULE MCSlipstreamServer ------------------------
(***************************************************************************)
(* SlipstreamServer for TLC: its constants are given values in the .cfg    *)
(* files, its properties are those of the component.                       *)
(***************************************************************************)
EXTENDS SlipstreamServer

\* The tasks write and do not read, no peer ends its stream, and the accept loop goes
\* on: what a task sends depends on none of these, and two connections with writers
\* fit.
WriteNext == Next /\ UNCHANGED <<readVars, finIn, accept>>

WriteSpec == Init /\ [][WriteNext]_vars /\ Fairness
=============================================================================
