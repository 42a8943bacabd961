---------------------------- MODULE EventCodec ----------------------------
(***************************************************************************)
(* An event from its builder to the database and back.  A producer collects*)
(* extensions, fills a builder in any order, and builds with a size limit. *)
(* An adapter writes the built event to a row.  Every later read (a claim, *)
(* a page, a duplicate enqueue) hydrates the row again, validating it as   *)
(* if it had been built anew, and a duplicate enqueue compares it.         *)
(*                                                                         *)
(* Texts are short names, sizes small numbers; a time counts half          *)
(* microseconds, so that an odd one is finer than the databases keep.      *)
(***************************************************************************)
EXTENDS Naturals, FiniteSets, Functions

CONSTANTS
    NULL,
    Times,                \* times a caller may pass
    Epoch, MaxTime,       \* 1970-01-01 and the last microsecond of the year 9999
    IdLengths,            \* lengths of a source and event id together
    MAX_IDENTITY_BYTES,
    DEFAULT_LIMIT, MAX_LIMIT   \* EventSizeLimit::default() and the largest one

VARIABLES
    phase,        \* "extensions", "builder", "built", "refused", "stored"
    content,      \* EventContent of the builder, then of the event
    adapter, row  \* where the event went, and its columns

vars == <<phase, content, adapter, row>>

Adapters == {"postgres", "mysql", "sqlite"}
Error == [error |-> TRUE]

-----------------------------------------------------------------------------
(* Extensions: names, typed values, the durable encoding.                  *)

Reserved == {"id", "source", "type", "specversion", "subject", "time",
             "datacontenttype", "dataschema", "data", "partitionkey"}

\* ExtensionName::new refuses the names CloudEvents gives a meaning of their own.
ExtensionName(name) == name \notin Reserved

\* ExtensionValue: a type and the text of its value.
ValuesOf(name) ==
    CASE name = "traceparent" -> {<<"string", "parent">>, <<"string", "garbled">>, <<"integer", "7">>}
      [] name = "tracestate" -> {<<"string", "vendor=1">>, <<"string", "garbled">>}
      [] OTHER -> {<<"boolean", "true">>, <<"string", "true">>}

Names == {"traceparent", "tracestate", "flag", "partitionkey"}

NoExtensions == [n \in {} |-> NULL]

\* The texts validate_traceparent and validate_tracestate accept.
ValidTrace(name) == IF name = "traceparent" THEN {"parent"} ELSE {"vendor=1"}

validate_trace_extension(exts, name) ==
    name \in DOMAIN exts =>
        exts[name][1] = "string" /\ exts[name][2] \in ValidTrace(name)

validate_trace_context(exts) ==
    /\ "tracestate" \in DOMAIN exts => "traceparent" \in DOMAIN exts
    /\ validate_trace_extension(exts, "traceparent")
    /\ validate_trace_extension(exts, "tracestate")

\* tagged_json keeps the type beside the text; structured_json_value drops it
\* but for the JSON type of a boolean or an integer.
tagged_json(value) == [type |-> value[1], value |-> value[2]]

canonical_json(exts) == [n \in DOMAIN exts |-> tagged_json(exts[n])]

from_canonical_json(encoded) ==
    LET exts == [n \in DOMAIN encoded |-> <<encoded[n].type, encoded[n].value>>]
    IN  IF /\ \A n \in DOMAIN encoded : ExtensionName(n)
           /\ validate_trace_context(exts)
           /\ canonical_json(exts) = encoded
        THEN exts ELSE Error

-----------------------------------------------------------------------------
(* Event content and its validation.                                       *)

\* The optional text attributes; `identity' is the length of source and id.
Optional == {"subject", "dataschema", "partitionkey"}

EventContent(length) ==
    [identity |-> length, texts |-> [n \in Optional |-> NULL], time |-> NULL,
     datacontenttype |-> NULL, extensions |-> NoExtensions, data |-> NULL]

\* EventData: kind and number of bytes.  JSON text is never empty, and the same
\* value may be spelled with more bytes than its canonical form.
CanonicalBytes == 1
JsonData == {[kind |-> "json", bytes |-> CanonicalBytes], [kind |-> "json", bytes |-> 2]}
EventData == JsonData \cup {[kind |-> "binary", bytes |-> n] : n \in {0, 2}}
ContentTypes == {"application/json", "text/plain"}
is_json(datacontenttype) == datacontenttype = "application/json"

validate_instant(t) == Epoch <= t /\ t <= MaxTime /\ t % 2 = 0

\* The context attributes an event has.
Attributes(c) ==
    {"id", "source", "type", "specversion"}
      \cup {n \in {"time", "datacontenttype"} : c[n] # NULL}
      \cup {n \in Optional : c.texts[n] # NULL}

\* Sizes: one unit for an attribute, three in binary mode, where each byte may be
\* percent-encoded; base64 lengthens binary data in structured mode, which also
\* spells JSON canonically and needs a Content-Type header.
structured_size(c) ==
    1 + Cardinality(Attributes(c)) + Cardinality(DOMAIN c.extensions) +
    IF c.data = NULL THEN 0
    ELSE IF c.data.kind = "json" THEN CanonicalBytes ELSE 2 * c.data.bytes

binary_size(c) ==
    3 * (Cardinality(Attributes(c)) + Cardinality(DOMAIN c.extensions)) +
    IF c.data = NULL THEN 0 ELSE c.data.bytes

portable_size(c) ==
    IF structured_size(c) > binary_size(c) THEN structured_size(c) ELSE binary_size(c)

validate_content(c, limit) ==
    /\ c.identity <= MAX_IDENTITY_BYTES
    /\ c.time # NULL => validate_instant(c.time)
    /\ validate_trace_context(c.extensions)
    /\ c.data # NULL =>
          /\ c.data.bytes > 0 => c.datacontenttype # NULL
          /\ c.data.kind = "json" => is_json(c.datacontenttype)
    /\ portable_size(c) <= limit

-----------------------------------------------------------------------------
(* The row of each adapter, and what is read back from it.                 *)

\* PostgreSQL and MySQL keep microseconds; SQLite keeps the RFC 3339 text.
Microseconds(t) == IF t = NULL THEN NULL ELSE t - (t % 2)

Columns(c, occurred_at) ==
    [identity |-> c.identity, occurred_at |-> occurred_at,
     datacontenttype |-> c.datacontenttype, texts |-> c.texts,
     extensions |-> canonical_json(c.extensions),
     data_kind |-> IF c.data = NULL THEN NULL ELSE c.data.kind,
     data |-> IF c.data = NULL THEN NULL ELSE c.data.bytes]

pg_columns(c) == Columns(c, Microseconds(c.time))
mysql_columns(c) == Columns(c, Microseconds(c.time))
sqlite_columns(c) == Columns(c, c.time)

columns(a, c) ==
    CASE a = "postgres" -> pg_columns(c)
      [] a = "mysql" -> mysql_columns(c)
      [] a = "sqlite" -> sqlite_columns(c)

\* The CHECK constraints of dovecote_events.
Insertable(r) ==
    /\ r.identity <= MAX_IDENTITY_BYTES
    /\ (r.data_kind = NULL) <=> (r.data = NULL)
    /\ r.data = NULL \/ r.data = 0 \/ r.datacontenttype # NULL

\* The builder calls every hydrate_event makes, with the largest limit.
Rebuilt(r, time) ==
    LET exts == from_canonical_json(r.extensions)
        c == [identity |-> r.identity, time |-> time,
              datacontenttype |-> r.datacontenttype, texts |-> r.texts,
              extensions |-> exts,
              data |-> IF r.data_kind = NULL THEN NULL
                       ELSE [kind |-> r.data_kind, bytes |-> r.data]]
    IN  IF exts # Error /\ (r.data_kind = NULL <=> r.data = NULL)
             /\ validate_content(c, MAX_LIMIT)
        THEN c ELSE Error

pg_hydrate_event(r) == Rebuilt(r, r.occurred_at)
mysql_hydrate_event(r) == Rebuilt(r, r.occurred_at)
sqlite_hydrate_event(r) == Rebuilt(r, r.occurred_at)

hydrate_event(a, r) ==
    CASE a = "postgres" -> pg_hydrate_event(r)
      [] a = "mysql" -> mysql_hydrate_event(r)
      [] a = "sqlite" -> sqlite_hydrate_event(r)

\* same_event compares column by column.
Same_but_type(c, r, occurred_at) ==
    /\ c.identity = r.identity
    /\ occurred_at = r.occurred_at
    /\ c.texts = r.texts
    /\ canonical_json(c.extensions) = r.extensions
    /\ (IF c.data = NULL THEN NULL ELSE c.data.kind) = r.data_kind
    /\ (IF c.data = NULL THEN NULL ELSE c.data.bytes) = r.data

Same(c, r, occurred_at) ==
    /\ c.identity = r.identity
    /\ occurred_at = r.occurred_at
    /\ c.datacontenttype = r.datacontenttype
    /\ c.texts = r.texts
    /\ canonical_json(c.extensions) = r.extensions
    /\ (IF c.data = NULL THEN NULL ELSE c.data.kind) = r.data_kind
    /\ (IF c.data = NULL THEN NULL ELSE c.data.bytes) = r.data

pg_same_event(c, r) == Same(c, r, c.time)
mysql_same_event(c, r) == Same(c, r, c.time)
sqlite_same_event(c, r) == Same(c, r, c.time)

same_event(a, c, r) ==
    CASE a = "postgres" -> pg_same_event(c, r)
      [] a = "mysql" -> mysql_same_event(c, r)
      [] a = "sqlite" -> sqlite_same_event(c, r)

-----------------------------------------------------------------------------
(* Projections of a stored event for a transport.                          *)

\* A JSON object: a later member of the same name replaces an earlier one.
structured_json(c) ==
    [n \in Attributes(c) \cup DOMAIN c.extensions |->
        IF n \in DOMAIN c.extensions THEN <<"extension", c.extensions[n][2]>>
        ELSE <<"attribute", n>>]

\* A list of pairs: nothing is replaced.
binary_attributes(c) ==
    {<<n, <<"attribute", n>>>> : n \in Attributes(c) \ {"datacontenttype"}}
      \cup {<<n, <<"extension", c.extensions[n][2]>>>> : n \in DOMAIN c.extensions}

-----------------------------------------------------------------------------
Init ==
    /\ phase = "extensions"
    /\ content \in {EventContent(length) : length \in IdLengths}
    /\ adapter = NULL /\ row = NULL

\* Extensions::insert keeps the entry a duplicate name already has.
Insert(name, value) ==
    /\ phase = "extensions"
    /\ ExtensionName(name) /\ name \notin DOMAIN content.extensions
    /\ content' = [content EXCEPT !.extensions =
                     [n \in DOMAIN @ \cup {name} |-> IF n = name THEN value ELSE @[n]]]
    /\ UNCHANGED <<phase, adapter, row>>

\* NewEventBuilder::extensions takes the finished set.
extensions ==
    /\ phase = "extensions" /\ phase' = "builder"
    /\ UNCHANGED <<content, adapter, row>>

Set(field, value) ==
    /\ phase = "builder"
    /\ content' = [content EXCEPT ![field] = value]
    /\ UNCHANGED <<phase, adapter, row>>

time(t) == Set("time", t)
datacontenttype(ct) == Set("datacontenttype", ct)

\* subject, dataschema and partitionkey.
text(name) ==
    /\ phase = "builder"
    /\ content' = [content EXCEPT !.texts[name] = "text"]
    /\ UNCHANGED <<phase, adapter, row>>

data(d) == Set("data", d)

\* json_data replaces data and content type together.
json_data(d) ==
    /\ phase = "builder"
    /\ content' = [content EXCEPT !.data = d, !.datacontenttype = "application/json"]
    /\ UNCHANGED <<phase, adapter, row>>

build_with_limit(limit) ==
    /\ phase = "builder"
    /\ phase' = IF validate_content(content, limit) THEN "built" ELSE "refused"
    /\ UNCHANGED <<content, adapter, row>>

\* The INSERT of enqueue or import.
Store(a) ==
    /\ phase = "built" /\ Insertable(columns(a, content))
    /\ phase' = "stored" /\ adapter' = a /\ row' = columns(a, content)
    /\ UNCHANGED content

\* The next event.
StartOver ==
    /\ phase \in {"refused", "stored"}
    /\ phase' = "extensions" /\ adapter' = NULL /\ row' = NULL
    /\ content' = EventContent(content.identity)

Next ==
    \/ \E name \in Names : \E value \in ValuesOf(name) : Insert(name, value)
    \/ extensions
    \/ \E t \in Times : time(t)
    \/ \E ct \in ContentTypes : datacontenttype(ct)
    \/ \E name \in Optional : text(name)
    \/ \E d \in EventData : data(d)
    \/ \E d \in JsonData : json_data(d)
    \/ \E limit \in {DEFAULT_LIMIT, MAX_LIMIT} : build_with_limit(limit)
    \/ \E a \in Adapters : Store(a)
    \/ StartOver

Spec == Init /\ [][Next]_vars

-----------------------------------------------------------------------------
(* Every event the builder accepts is a row each database accepts: no      *)
(* validated event fails its INSERT on a CHECK constraint.                 *)
BuiltIsInsertable ==
    phase = "built" => \A a \in Adapters : Insertable(columns(a, content))

(* Whatever was stored is read back as the event that was built, in every  *)
(* adapter and whatever limit it was built with.                           *)
RoundTrip == phase = "stored" => hydrate_event(adapter, row) = content

\* The events that differ from c in at most one field.
Variants(c) ==
    {[c EXCEPT !.time = t] : t \in Times \cup {NULL}}
      \cup {[c EXCEPT !.datacontenttype = ct] : ct \in ContentTypes \cup {NULL}}
      \cup {[c EXCEPT !.texts = v] : v \in [Optional -> {"text", NULL}]}
      \cup {[c EXCEPT !.data = d] : d \in EventData \cup {NULL}}
      \cup {[c EXCEPT !.extensions = [n \in DOMAIN @ |-> IF n = "flag" THEN v ELSE @[n]]] :
                v \in ValuesOf("flag")}
      \cup {[c EXCEPT !.extensions = Restrict(@, DOMAIN @ \ {n})] : n \in Names}

(* A second enqueue of the identity is recognised as the same event exactly*)
(* when its content is the same: a replay is never an IdempotencyConflict, *)
(* and no difference, not even in an extension's type, goes unnoticed.     *)
SameExactly ==
    phase = "stored" =>
        \A c \in Variants(content) :
            validate_content(c, MAX_LIMIT) =>
                (same_event(adapter, c, row) <=> c = content)

(* The structured and the binary projection of a stored event carry the    *)
(* same attributes: no extension hides an attribute of the event.          *)
ProjectionsAgree ==
    phase = "stored" =>
        {<<n, structured_json(content)[n]>> :
            n \in DOMAIN structured_json(content) \ {"datacontenttype"}}
          = binary_attributes(content)
=============================================================================
