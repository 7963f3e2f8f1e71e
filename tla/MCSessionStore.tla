--------------------------- MODULE MCSessionStore ---------------------------
(* Instances of SessionStore and of ObserverReport, one of the two at a    *)
(* time: a session and its tokens; and what the report makes of every log  *)
(* of one kind of traffic.                                                 *)
EXTENDS SessionStore, ObserverReport

VARIABLE part

SessionsInit ==
  /\ part \in {"sessions", "report"}
  /\ SessionInit /\ ReportInit
  /\ part = "sessions" => topic = "files"

SessionsPart == part = "sessions" /\ SessionNext /\ UNCHANGED <<reportVars, part>>

ReportPart == part = "report" /\ ReportNext /\ UNCHANGED <<sessionVars, part>>

SessionsSpec ==
  SessionsInit /\ [][SessionsPart \/ ReportPart]_<<sessionVars, reportVars, part>>

(* What a client sends and is answered, by the checks that look at it.     *)
Plain == [t |-> 0, method |-> "GET", path |-> "other", query |-> "", status |-> 200, code |-> "",
          retry |-> 0, authorization |-> FALSE, origin |-> FALSE, id |-> "", body |-> "",
          replayed |-> FALSE, limit |-> -1, sent |-> {}, known |-> {}, download |-> FALSE]

Post == [Plain EXCEPT !.method = "POST"]
Search(id, body, status) ==
  [Post EXCEPT !.path = "searches", !.id = id, !.body = body, !.status = status,
               !.replayed = status = 200]
Delete(id) == [Plain EXCEPT !.method = "DELETE", !.path = "searches", !.id = id, !.status = 204]
Failing(r, status, code) == [r EXCEPT !.status = status, !.code = code]
Refused(path, status, retry) == [Plain EXCEPT !.path = path, !.status = status, !.retry = retry]

Traffic ==
  [auth |-> {[Post EXCEPT !.path = "refresh"],
             Failing([Post EXCEPT !.path = "refresh"], 401, "refresh_reused"),
             [Post EXCEPT !.path = "logout", !.status = 204]},
   bearer |-> {Failing([Plain EXCEPT !.authorization = TRUE], 401, "session_revoked"),
               [Plain EXCEPT !.authorization = TRUE, !.origin = TRUE],
               [Post EXCEPT !.path = "refresh"]},
   search |-> {Search("s1", "q", 202), Search("s1", "q", 200), Search("s2", "q", 202),
               Delete("s1")},
   slots |-> {Search("s2", "q", 202), Failing(Search("", "q", 429), 429, "too_many_searches")},
   retry |-> {Refused("a", 200, 0), Refused("a", 429, 1), Refused("b", 429, 2)},
   refusals |-> {Refused("a", 200, 0), Refused("a", 503, 3), Refused("a", 404, 0)},
   pages |-> {[Plain EXCEPT !.query = "cursor"],
              Failing([Plain EXCEPT !.query = "cursor"], 422, "invalid_cursor"),
              [Plain EXCEPT !.limit = 600]},
   polls |-> {[Plain EXCEPT !.path = "health"],
              Failing([Plain EXCEPT !.path = "estimate"], 429, "estimate_rate_limited")},
   documents |-> {[Plain EXCEPT !.path = "case", !.known = {<<"title", 1>>, <<"status", 1>>}],
                  [Plain EXCEPT !.path = "case", !.method = "PATCH", !.sent = {<<"title", 1>>},
                                !.known = {<<"title", 2>>, <<"status", 1>>}],
                  [Plain EXCEPT !.path = "case", !.method = "PATCH", !.sent = {<<"title", 2>>},
                                !.status = 428, !.known = {<<"code", 1>>}],
                  Failing([Post EXCEPT !.path = "imports"], 422, "checksum_mismatch")},
   files |-> {[Plain EXCEPT !.path = "file", !.download = TRUE], [Plain EXCEPT !.path = "enrich"]},
   streams |-> {}, sockets |-> {}]

Event(kind) == [t |-> 0, kind |-> kind, resumes |-> FALSE, code |-> 0, reason |-> ""]

StreamEvents ==
  [name \in DOMAIN Traffic |->
     CASE name = "streams" ->
            {Event("sse_open"), [Event("sse_open") EXCEPT !.resumes = TRUE], Event("sse_close")}
       [] name = "sockets" ->
            {Event("ws_open"), Event("ws_subscribe"), [Event("ws_close") EXCEPT !.code = 4408],
             [Event("ws_rejected") EXCEPT !.reason = "ticket_reuse"]}
       [] OTHER -> {}]
=============================================================================
