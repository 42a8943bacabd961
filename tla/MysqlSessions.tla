--------------------------- MODULE MysqlSessions ---------------------------
(***************************************************************************)
(* The MySQL adapter on a pool it shares with the application.  Every      *)
(* session has settings of its own that the application may change while   *)
(* it has the connection, and a replaced connection may reach another      *)
(* server.  Each operation begins its transaction (or is called inside the *)
(* caller's), probes the session it is on, and only then touches the       *)
(* tables.                                                                 *)
(***************************************************************************)
EXTENDS Naturals

CONSTANTS
    Connections,
    Servers             \* <<comment, major, minor>> of the servers that may answer

VARIABLES
    session,      \* [Connections -> Session]
    oneShot,      \* the level SET TRANSACTION named for the next transaction, or "none"
    begun,        \* isolation of the open transaction, or "none"
    named,        \* whether SET TRANSACTION named the open transaction's level
    op            \* [Connections -> the operation there and its progress]

transaction == <<begun, named>>
vars == <<session, oneShot, transaction, op>>

Isolations == {"REPEATABLE-READ", "READ-COMMITTED"}

Session ==
    [server : Servers, time_zone : {"UTC", "SYSTEM"},
     sql_mode : {{"STRICT_TRANS_TABLES"}, {}, {"STRICT_ALL_TABLES", "NO_AUTO_VALUE_ON_ZERO"}},
     transaction_isolation : Isolations, character_set : {"utf8mb4", "latin1"}]

\* An operation is "owned" (claim, mutation), "snapshot" or "caller".
Idle == [kind |-> "none", at |-> "idle"]

-----------------------------------------------------------------------------
(* Detection.                                                              *)

AtLeast(server, major, minor) ==
    server[2] > major \/ (server[2] = major /\ server[3] >= minor)

kind(server) ==
    IF server[1] = "mariadb" THEN "MariaDb"
    ELSE IF server[1] = "mysql" THEN "MySql" ELSE "unidentified"

supported(k, server) ==
    CASE k = "MySql" -> AtLeast(server, 8, 4)
      [] k = "MariaDb" -> AtLeast(server, 11, 8)

capabilities(k, server) ==
    [skip_locked |-> IF k = "MySql" THEN server[2] >= 8 ELSE AtLeast(server, 10, 6),
     enforced_checks |-> IF k = "MySql" THEN server[2] >= 8 ELSE AtLeast(server, 10, 2),
     repeatable_read_snapshot |-> TRUE]

detect_on_connection_any_isolation(s) ==
    /\ kind(s.server) # "unidentified"
    /\ supported(kind(s.server), s.server)
    /\ s.time_zone = "UTC"
    /\ capabilities(kind(s.server), s.server).skip_locked
    /\ capabilities(kind(s.server), s.server).enforced_checks
    /\ {"STRICT_TRANS_TABLES", "STRICT_ALL_TABLES"} \cap s.sql_mode # {}
    /\ "NO_AUTO_VALUE_ON_ZERO" \notin s.sql_mode
    /\ s.character_set = "utf8mb4"

detect_on_connection(s) ==
    /\ kind(s.server) # "unidentified"
    /\ supported(kind(s.server), s.server)
    /\ s.time_zone = "UTC"
    /\ capabilities(kind(s.server), s.server).skip_locked
    /\ capabilities(kind(s.server), s.server).enforced_checks
    /\ {"STRICT_TRANS_TABLES", "STRICT_ALL_TABLES"} \cap s.sql_mode # {}
    /\ "NO_AUTO_VALUE_ON_ZERO" \notin s.sql_mode
    /\ s.transaction_isolation = "REPEATABLE-READ"
    /\ s.character_set = "utf8mb4"

-----------------------------------------------------------------------------
Init ==
    /\ \E server \in Servers :
         session = [c \in Connections |->
                      [server |-> server, time_zone |-> "UTC",
                       sql_mode |-> {"STRICT_TRANS_TABLES"},
                       transaction_isolation |-> "REPEATABLE-READ",
                       character_set |-> "utf8mb4"]]
    /\ oneShot = [c \in Connections |-> "none"]
    /\ begun = [c \in Connections |-> "none"]
    /\ named = [c \in Connections |-> FALSE]
    /\ op = [c \in Connections |-> Idle]

\* SET SESSION, on a connection no operation has at the moment.  Setting the
\* isolation also discards a level named for the next transaction.
SetSession(c, field, value) ==
    /\ op[c] = Idle
    /\ session' = [session EXCEPT ![c][field] = value]
    /\ oneShot' = IF field = "transaction_isolation" THEN [oneShot EXCEPT ![c] = "none"] ELSE oneShot
    /\ UNCHANGED <<transaction, op>>

\* SET TRANSACTION ISOLATION LEVEL, which the server refuses inside a transaction:
\* the level holds for the next transaction, and @@transaction_isolation does not
\* show it.  The pool hands the connection out as it came back.
SetTransaction(c, isolation) ==
    /\ op[c] = Idle /\ begun[c] = "none"
    /\ oneShot' = [oneShot EXCEPT ![c] = isolation]
    /\ UNCHANGED <<session, transaction, op>>

\* A transaction runs at the level named for it, if there is one.
Begin(c) ==
    /\ op[c] = Idle /\ begun[c] = "none"
    /\ begun' = [begun EXCEPT ![c] = IF oneShot[c] = "none"
                                       THEN session[c].transaction_isolation ELSE oneShot[c]]
    /\ named' = [named EXCEPT ![c] = oneShot[c] # "none"]
    /\ oneShot' = [oneShot EXCEPT ![c] = "none"]
    /\ UNCHANGED session

End(c) ==
    /\ begun' = [begun EXCEPT ![c] = "none"]
    /\ named' = [named EXCEPT ![c] = FALSE]

\* The pool closes a connection and opens another, perhaps to another server.
Reconnect(c, server) ==
    /\ op[c] = Idle
    /\ session' = [session EXCEPT ![c] =
                     [server |-> server, time_zone |-> "UTC",
                      sql_mode |-> {"STRICT_TRANS_TABLES"},
                      transaction_isolation |-> "REPEATABLE-READ",
                      character_set |-> "utf8mb4"]]
    /\ oneShot' = [oneShot EXCEPT ![c] = "none"]
    /\ End(c)
    /\ UNCHANGED op

\* The caller opens a transaction and later ends it.
CallerBegin(c) == Begin(c) /\ UNCHANGED op
CallerEnd(c) ==
    /\ op[c] = Idle /\ begun[c] # "none"
    /\ End(c)
    /\ UNCHANGED <<session, oneShot, op>>

\* A claim, a mutation or a snapshot begins its transaction on a pooled connection.
PoolBegin(c, k) ==
    /\ Begin(c)
    /\ op' = [op EXCEPT ![c] = [kind |-> k, at |-> "detect"]]

\* enqueue, import or finalize inside the caller's transaction.
Call(c) ==
    /\ op[c] = Idle /\ begun[c] # "none"
    /\ op' = [op EXCEPT ![c] = [kind |-> "caller", at |-> "detect"]]
    /\ UNCHANGED <<session, oneShot, transaction>>

Refuse(c) ==
    /\ op' = [op EXCEPT ![c] = Idle]
    /\ IF op[c].kind = "caller" THEN UNCHANGED transaction ELSE End(c)
    /\ UNCHANGED <<session, oneShot>>

\* Detection probes the operation's own connection.
Probe(c) == detect_on_connection(session[c])

Detect(c) ==
    /\ op[c].at = "detect"
    /\ \/ /\ Probe(c)
          /\ op' = [op EXCEPT ![c].at = "work"]
          /\ UNCHANGED <<session, oneShot, transaction>>
       \/ ~Probe(c) /\ Refuse(c)

\* The statements ran; the operation's own transaction ends with it.
Finish(c) == op[c].at = "work" /\ Refuse(c)

Next ==
    \E c \in Connections :
        \/ \E field \in {"time_zone", "sql_mode", "transaction_isolation", "character_set"} :
               \E value \in {s[field] : s \in Session} : SetSession(c, field, value)
        \/ \E server \in Servers : Reconnect(c, server)
        \/ \E isolation \in Isolations : SetTransaction(c, isolation)
        \/ CallerBegin(c)
        \/ CallerEnd(c)
        \/ \E k \in {"owned", "snapshot"} : PoolBegin(c, k)
        \/ Call(c)
        \/ Detect(c)
        \/ Finish(c)

Spec == Init /\ [][Next]_vars

-----------------------------------------------------------------------------
(* Whatever the application did to its sessions and whichever server the   *)
(* pool reached, no statement of an operation runs where it would go wrong:*)
(* instants would shift (time zone), a bad value would be stored cut       *)
(* (strict mode), a row id could be 0, text would be recoded, CHECKs or    *)
(* SKIP LOCKED would be missing.                                           *)
WorkIsSafe ==
    \A c \in Connections :
        op[c].at = "work" =>
            /\ session[c].time_zone = "UTC" /\ session[c].character_set = "utf8mb4"
            /\ session[c].sql_mode = {"STRICT_TRANS_TABLES"}
            /\ \/ session[c].server[1] = "mysql" /\ AtLeast(session[c].server, 8, 4)
               \/ session[c].server[1] = "mariadb" /\ AtLeast(session[c].server, 11, 8)

(* A claim, a mutation or a snapshot pager runs at REPEATABLE READ, the     *)
(* level its probe reads after it began, except in a transaction whose     *)
(* level the application had named with SET TRANSACTION: the probe reads   *)
(* the session's level and cannot tell.                                    *)
RunsAsProbed ==
    \A c \in Connections :
        op[c].at = "work" /\ op[c].kind # "caller" /\ ~named[c] => begun[c] = "REPEATABLE-READ"
=============================================================================
