--------------------------- MODULE Capabilities ------------------------------
(***************************************************************************)
(* What an instruction needs before it reaches the host (rfn/vm.py _cap)   *)
(* and when a declared capability covers it (rfn/host.py _scope_allows).   *)
(* A need is a function from the keys of a scope to values, empty where    *)
(* nothing is named; a declared scope has some of the keys.  An instruction*)
(* has the need of its target (need), for copy and move also that of the   *)
(* other path, and for db.exec whether the statement registered under its  *)
(* id begins with select.  Prefixes, paths and names are sequences of      *)
(* tokens, hosts and namespaces are tokens, targets a set of tokens.       *)
(***************************************************************************)
EXTENDS Naturals, Sequences, SequencesExt

CONSTANTS Star,     \* the scope "*"
          Sep       \* the token / (or \)

(* The families of _cap, by the capability that they assert.               *)
CacheReads == {"cache.get", "cache.has", "cache.ttl", "buffer.take", "buffer.latest"}
CacheWrites == {"cache.set", "cache.del", "cache.incr", "cache.clear",
                "buffer.push", "buffer.clear"}
DbReads == {"db.get", "db.has", "db.get_blob", "db.select_one", "db.select_all"}
DbWrites == {"db.put", "db.del", "db.put_blob", "db.expire", "db.upsert",
             "db.delete_where", "db.begin", "db.commit", "db.rollback"}
HttpServerOps == {"http.req_method", "http.req_path", "http.req_query",
                  "http.req_header", "http.req_json", "http.req_bytes"}
HttpClientOps == {"http.get", "http.post_json", "http.post_bytes"}
InjectOps == {"inject.send", "inject.send_hex"}
QueryOps == {"query.send", "query.where", "query.singleflight", "query.singleflight_where"}
SessionOps == {"session.disconnect"}
ScheduleOps == {"schedule.after", "schedule.every", "schedule.cron", "schedule.cancel",
                "schedule.exists", "schedule.next"}
EventOps == {"event.emit"}
AuditOps == {"audit.write", "audit.metric"}
RouteOps == {"route.resolve", "schema.encode", "schema.decode", "schema.decode_info",
             "schema.fields"}
FileReads == {"file.exists", "file.is_file", "file.is_dir", "file.stat", "file.list",
              "file.read_text", "file.read_bytes"}
FileWrites == {"file.write_text", "file.append_text", "file.write_bytes", "file.mkdir",
               "file.remove"}

HostOps == UNION {CacheReads, CacheWrites, DbReads, DbWrites, HttpServerOps, HttpClientOps,
    InjectOps, QueryOps, SessionOps, ScheduleOps, EventOps, AuditOps, RouteOps,
    FileReads, FileWrites, {"file.copy", "file.move", "db.exec"}}

(* Who asserts what: the capabilities of most instructions.                *)
Table == {
    <<"cache.read", CacheReads>>, <<"cache.write", CacheWrites>>,
    <<"db.read", DbReads>>, <<"db.write", DbWrites>>,
    <<"http.server", HttpServerOps>>, <<"http.client", HttpClientOps>>,
    <<"inject.send", InjectOps>>, <<"inject.query", QueryOps>>,
    <<"session.control", SessionOps>>, <<"schedule.write", ScheduleOps>>,
    <<"event.emit", EventOps>>,
    <<"file.read", FileReads>>, <<"file.write", FileWrites>>}
Needed(op) == {a[1] : a \in {b \in Table : op \in b[2]}}
(* What one instruction asserts, all before it acts, each with its own     *)
(* need: two paths to copy and move, and for a registered statement what   *)
(* it begins with.                                                         *)
Asserted(i) ==
    CASE i.op = "file.copy" -> {<<"file.read", i.need>>, <<"file.write", i.other>>}
      [] i.op = "file.move" -> {<<"file.write", i.need>>, <<"file.write", i.other>>}
      [] i.op = "db.exec" -> {<<IF i.selects THEN "db.read" ELSE "db.write", i.need>>}
      [] OTHER -> {<<n, i.need>> : n \in Needed(i.op)}

(* The only ones a function without side effects may declare.              *)
ReadCaps == {"db.read", "cache.read", "file.read"}

-----------------------------------------------------------------------------
(* One key of a scope.                                                     *)

UnderPath(actual, expected) ==
    IF actual # <<>> /\ Last(actual) = Star THEN IsPrefix(Front(actual), expected)
    ELSE expected = actual \/ IsPrefix(Append(actual, Sep), expected)
KeyAllows(key, actual, expected) ==
    CASE actual = Star -> TRUE
      [] actual # Star /\ key \in {"prefix", "job_prefix"} -> IsPrefix(actual, expected)
      [] actual # Star /\ key = "path" -> UnderPath(actual, expected)
      [] actual # Star /\ key = "targets" -> Star \in actual \/ expected \subseteq actual
      [] OTHER -> actual = expected
(* A key that the declaration leaves out allows everything.                *)
ScopeAllows(scope, need) ==
    \A key \in DOMAIN need \cap DOMAIN scope : KeyAllows(key, scope[key], need[key])

(* assert_capability: one declaration must cover the whole of a need.      *)
Holds(caps, i) ==
    \A a \in Asserted(i) : \E c \in caps : c.name = a[1] /\ ScopeAllows(c.scope, a[2])
(* What the host does for an instruction may fail on its own.              *)
HostError(op) ==
    CASE op = "db.exec" -> "E_PERMISSION"
      [] op \in EventOps -> "E_PERMISSION"
      [] op \in HttpClientOps -> "E_HTTP"
      [] op \in FileReads \cup FileWrites \cup {"file.copy", "file.move"} -> "E_FILE"
      [] OTHER -> "E_FAIL"

-----------------------------------------------------------------------------
(* For the properties: what the host does for an instruction, read off its *)
(* methods and not off what is asserted for them, and the right that the   *)
(* manual's table names for it.                                            *)
Alters(i) ==
    \/ i.op \in {"cache.set", "cache.del", "cache.incr", "cache.clear", "buffer.push",
                 "buffer.clear", "db.put", "db.del", "db.upsert", "db.delete_where",
                 "db.put_blob", "db.expire", "db.begin", "db.commit", "db.rollback",
                 "inject.send", "inject.send_hex", "query.send", "query.where",
                 "query.singleflight", "query.singleflight_where", "session.disconnect",
                 "schedule.after", "schedule.every", "schedule.cron", "schedule.cancel",
                 "event.emit", "file.write_text", "file.append_text", "file.write_bytes",
                 "file.mkdir", "file.remove", "file.copy", "file.move"}
    \/ i.op = "db.exec" /\ ~i.selects
Right(i, read, write) == IF Alters(i) THEN write ELSE read
Uses(i) ==
    CASE i.op \in CacheReads \cup CacheWrites -> {<<Right(i, "cache.read", "cache.write"), i.need>>}
      [] i.op \in DbReads \cup DbWrites \cup {"db.exec"} ->
           {<<Right(i, "db.read", "db.write"), i.need>>}
      [] i.op \in FileReads \cup FileWrites -> {<<Right(i, "file.read", "file.write"), i.need>>}
      [] i.op = "file.copy" -> {<<"file.read", i.need>>, <<"file.write", i.other>>}
      [] i.op = "file.move" -> {<<"file.write", i.need>>, <<"file.write", i.other>>}
      [] i.op \in {"http.get", "http.post_json", "http.post_bytes"} -> {<<"http.client", i.need>>}
      [] i.op \in {"inject.send", "inject.send_hex"} -> {<<"inject.send", i.need>>}
      [] i.op \in QueryOps -> {<<"inject.query", i.need>>}
      [] i.op = "session.disconnect" -> {<<"session.control", i.need>>}
      [] i.op \in ScheduleOps -> {<<"schedule.write", i.need>>}
      [] i.op = "event.emit" -> {<<"event.emit", i.need>>}
      [] OTHER -> {}
=============================================================================
