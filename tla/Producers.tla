------------------------------- MODULE Producers -------------------------------
(***************************************************************************)
(* The producers of the MySQL/MariaDB and of the SQLite adapter, side by   *)
(* side: a behaviour is one of the one or of the other.                    *)
(***************************************************************************)
EXTENDS MysqlProducer

VARIABLES
  adapter,  \* "mysql" or "sqlite"
  mode      \* SqliteProducer

Sqlite == INSTANCE SqliteProducer

ProducersInit == Init /\ Sqlite!Init /\ adapter \in {"mysql", "sqlite"}

MysqlNext == adapter = "mysql" /\ Next /\ UNCHANGED mode

SqliteNext == adapter = "sqlite" /\ Sqlite!Next /\ UNCHANGED <<locals, locks>>

producervars == <<vars, mode, adapter>>

ProducersNext == (MysqlNext \/ SqliteNext) /\ UNCHANGED adapter

ProducersSpec == ProducersInit /\ [][ProducersNext]_producervars

\* Either adapter's tables, locks and transactions are consistent with what every
\* open transaction has read and was told (IInv of MysqlProducer and SqliteProducer).
ProducersInv == IF adapter = "mysql" THEN IInv ELSE Sqlite!IInv

\* What a transaction was told still holds when it commits: accepted calls and
\* conflicts name the stored event, a replayed import the stored delivery.
\* SQLite's write transaction settles every call; MySQL's does so unless an earlier
\* call has fixed the read view of an enqueue.
Answered ==
  /\ AnswersStand
  /\ ReplayHeld
  /\ IF adapter = "sqlite" THEN OutcomeResolved ELSE ResolvedInNewView
===============================================================================
