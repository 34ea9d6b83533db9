---------------------------- MODULE MCLifecycle ----------------------------
(* Two processes and two requests; one token. *)
EXTENDS Lifecycle

MCConfigs ==
    {[cache |-> "memory", auth |-> "memory"],
     [cache |-> "badger", auth |-> "badger"]}

==============================================================================
