------------------------------ MODULE MCTopics ------------------------------
(***************************************************************************)
(* A small instance of Topics for TLC.                                     *)
(***************************************************************************)
EXTENDS Topics, TLC
CONSTANTS c1, c2

\* A topic, one level below it, and the patterns for either.
Logs == <<"/topic/logs">>
LogsError == <<"/topic/logs", "error">>
LogsAny == <<"/topic/logs", "*">>

MCDestinations == {Logs, LogsError, LogsAny}
MCTargets == (c1 :> {Logs, LogsError}) @@ (c2 :> {})
MCPatterns == (c1 :> {LogsError}) @@ (c2 :> {LogsAny})
MCRelays == [c \in {c1, c2} |-> {LogsError}]
MCStarred == {"*", "/topic/*"}
=====
