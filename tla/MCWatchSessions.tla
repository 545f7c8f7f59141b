-------------------------- MODULE MCWatchSessions ---------------------------
(* Two agents over one registry, or one agent and the command line.        *)
EXTENDS WatchSessions, TLC

ConsumersDef ==
    {ClientKey(k) : k \in Conns} \cup {UnknownKey(k) : k \in Conns} \cup CtrlKeys \cup AnonKeys

TasksDef == Conns \cup CtrlConns
=============================================================================
