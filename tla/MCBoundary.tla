------------------------------ MODULE MCBoundary ------------------------------
(***************************************************************************)
(* The parts of Boundary, and the text of SQLite's timestamps              *)
(* (SqliteTimestamp), for TLC: in a behaviour one part moves and the others*)
(* keep an initial state.                                                  *)
(***************************************************************************)
EXTENDS Boundary, SqliteTimestamp, TLC

CONSTANT c2

VARIABLE part

\* Servers on both sides of each minimum, and one that only resembles MySQL.
MCServers ==
    {<<"mysql", 8, 0>>, <<"mysql", 8, 4>>, <<"mariadb", 10, 4>>, <<"mariadb", 11, 8>>,
     <<"percona", 8, 4>>}

keyVars == <<rows, answer>>
storedVars == <<now, row>>
sessionVars == <<session, oneShot, begun, named, op>>
scopeVars == <<rls, setting, tx, deliveries, last>>
codecVars == <<phase, content, storedIn, columns>>

\* An untouched delivery.
PendingRow ==
  [state |-> "pending", available_at |-> 0, attempts |-> 0, claim_token |-> NULL,
   claimed_by |-> NULL, claim_expires_at |-> NULL, last_failure |-> <<NULL, NULL>>,
   delivered_at |-> NULL, quarantined_at |-> NULL, quarantine_reason |-> NULL]

\* The second row of TenantScopes is tenant b's, and is never claimed.
OtherRows == {Scopes!Nothing} \union [tenant : {"b"}, state : {"pending"}]

MCInit ==
  /\ part \in {"keys", "stored", "sessions", "scopes", "codec", "timestamps"}
  /\ Init /\ TimestampInit
  /\ adapter \in IF part \in {"stored", "scopes"} THEN Stored!Adapters ELSE {"postgres"}
  /\ IF part = "stored" THEN Stored!Init ELSE now = 0 /\ row = PendingRow
  /\ Sessions!Init /\ (part # "sessions" => \A c \in Connections : session[c].server = <<"mysql", 8, 4>>)
  /\ Scopes!Init /\ (part # "scopes" => ~rls)
  /\ Codec!Init /\ (part # "codec" => content.identity = 1)

MCNext ==
  /\ \/ part = "keys" /\ Next /\ UNCHANGED <<storedVars, sessionVars, scopeVars, codecVars, timestampvars, adapter>>
     \/ part = "stored" /\ Stored!Next /\ UNCHANGED <<keyVars, sessionVars, scopeVars, codecVars, timestampvars>>
     \/ part = "sessions" /\ Sessions!Next /\ session'[c2] = session[c2] /\ oneShot'[c2] = "none" /\ UNCHANGED <<keyVars, storedVars, scopeVars, codecVars, timestampvars, adapter>>
     \/ part = "scopes" /\ Scopes!Next /\ deliveries'[2].new \in OtherRows /\ UNCHANGED <<keyVars, storedVars, sessionVars, codecVars, timestampvars>>
     \/ part = "codec" /\ Codec!Next /\ UNCHANGED <<keyVars, storedVars, sessionVars, scopeVars, timestampvars, adapter>>
     \/ part = "timestamps" /\ TimestampNext /\ UNCHANGED <<keyVars, storedVars, sessionVars, scopeVars, codecVars, adapter>>
  /\ UNCHANGED part

allVars == <<keyVars, storedVars, sessionVars, scopeVars, codecVars, timestampvars, adapter, part>>

MCSpec == MCInit /\ [][MCNext]_allVars
===============================================================================
