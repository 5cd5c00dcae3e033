---------------------------- MODULE MCDispatcher ----------------------------
(***************************************************************************)
(* Two threads that queue actions, one of which waits for its own.         *)
(***************************************************************************)
EXTENDS Dispatcher

OneWaits ==
    [t \in Callers |-> IF t = "t1" THEN {"waiting", "invoke"}
                       ELSE {"invoke", "blocking", "flush"}]
=============================================================================
