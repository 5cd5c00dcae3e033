----------------------------- MODULE MCPipeline -----------------------------
(***************************************************************************)
(* Configurations for Pipeline: one lists both streams, one lists none and *)
(* disables the second.                                                    *)
(***************************************************************************)
EXTENDS Pipeline

Listed == [want |-> {1, 2}, disabled |-> {}, cached |-> 0]
OneDisabled == [want |-> {}, disabled |-> {2}, cached |-> 0]
BothConfs == {Listed, OneDisabled}
=============================================================================
