--------------------------- MODULE DetectionFeed ---------------------------
(***************************************************************************)
(* The detection feed of one signed-in session of the web app              *)
(* (lib/detections/upstream.ts), reading the event stream of               *)
(* DetectionStream and announcing it to every tab that is attached         *)
(* (app/api/detections/stream/route.ts).                                   *)
(*                                                                         *)
(* The feed is one loop: open a stream from the resume point, read frames  *)
(* to the end of it, pause, open again.  A connection the feed has dropped *)
(* goes on at the server until the server notices.                         *)
(***************************************************************************)
EXTENDS DetectionStream

CONSTANTS
  Me,      \* the token family of the session
  Tabs,    \* the tabs of its user
  MaxCuts  \* bound: opens and reads that fail, and expiries by an administrator

NoStream == "none"

ASSUME FeedConstants ==
  /\ Me \in Families
  /\ MaxCuts \in Nat
  /\ NoStream \notin Streams

VARIABLES
  session,    \* the entry of the session store: "in", "leaving" (logout is under way), "out"
  tokenStale, \* the access token held there has been expired by an administrator
  loop,       \* run(): "off", "opening", "reading", "pausing"
  conn,       \* the stream it reads
  resumeFrom, \* the last detection it knows of
  stopped,    \* stop() was called
  readers,    \* the tabs attached to it
  grace,      \* graceTimer is set
  cuts,       \* how many of them there were
  start,      \* history: where the feed began
  announced,  \* history: every detection announced, in order
  excused     \* history: what a reset or a full queue took away

feed == <<session, tokenStale, loop, conn, resumeFrom, stopped, readers, grace, cuts,
          start, announced, excused>>
feedVars == <<vars, feed>>

FeedTypeOK ==
  /\ StreamTypeOK
  /\ session \in {"in", "leaving", "out"}
  /\ tokenStale \in BOOLEAN
  /\ loop \in {"off", "opening", "reading", "pausing"}
  /\ conn \in Streams \cup {NoStream} /\ (conn # NoStream <=> loop = "reading")
  /\ resumeFrom \in 0..None /\ start \in 0..None
  /\ stopped \in BOOLEAN /\ grace \in BOOLEAN
  /\ readers \subseteq Tabs
  /\ cuts \in 0..MaxCuts
  /\ announced \in Seq(Seqs) /\ excused \subseteq Seqs

FeedInit ==
  /\ StreamInit
  /\ session = "in" /\ tokenStale = FALSE /\ cuts = 0
  /\ loop = "off" /\ conn = NoStream /\ resumeFrom = None /\ stopped = FALSE
  /\ readers = {} /\ grace = FALSE
  /\ start = None /\ announced = << >> /\ excused = {}

-----------------------------------------------------------------------------
(* The tabs.                                                               *)

(* GET /api/detections/stream: the feed of the session, started if it does *)
(* not run.  A feed that was stopped is found and does not start again.    *)
Attach(t) ==
  /\ session # "out"
  /\ t \notin readers
  /\ readers' = readers \cup {t}
  /\ grace' = FALSE
  /\ loop' = IF loop = "off" /\ ~stopped THEN "opening" ELSE loop
  /\ UNCHANGED <<vars, session, tokenStale, conn, resumeFrom, stopped, cuts, start,
                 announced, excused>>

Detach(t) ==
  /\ t \in readers
  /\ readers' = readers \ {t}
  /\ grace' = (grace \/ (readers' = {} /\ ~stopped))
  /\ UNCHANGED <<vars, session, tokenStale, loop, conn, resumeFrom, stopped, cuts, start,
                 announced, excused>>

(* What the queue of the connection had no room for.                       *)
Lost == IF conn = NoStream THEN {} ELSE stream[conn].lost

HaltsHolding ==
  /\ stopped' = TRUE /\ grace' = FALSE
  /\ loop' = "off" /\ UNCHANGED conn
  /\ excused' = excused \cup Lost

(* stop(): the connection is aborted and the loop ends for good.           *)
Halts ==
  /\ stopped' = TRUE /\ grace' = FALSE
  /\ loop' = "off" /\ conn' = NoStream
  /\ excused' = excused \cup Lost

GraceEnds ==
  /\ grace
  /\ IF readers = {} THEN Halts
                     ELSE grace' = FALSE /\ UNCHANGED <<stopped, loop, conn, excused>>
  /\ UNCHANGED <<vars, session, tokenStale, resumeFrom, readers, cuts, start, announced>>

-----------------------------------------------------------------------------
(* The loop.                                                               *)

OpenStreamAfresh ==
  /\ loop = "opening"
  /\ session # "out" /\ ~tokenStale
  /\ \E s \in Streams : Connect(s, Me, None) /\ conn' = s
  /\ loop' = "reading"
  /\ UNCHANGED <<session, tokenStale, resumeFrom, stopped, readers, grace, cuts, start,
                 announced, excused>>

(* The store hands out its token; the request is authorised.               *)
OpenStream ==
  /\ loop = "opening"
  /\ session # "out" /\ ~tokenStale
  /\ \E s \in Streams : Connect(s, Me, resumeFrom) /\ conn' = s
  /\ loop' = "reading"
  /\ UNCHANGED <<session, tokenStale, resumeFrom, stopped, readers, grace, cuts, start,
                 announced, excused>>

(* SessionGone from the store, or a 401 from the API.                      *)
OpenRefused ==
  /\ loop = "opening"
  /\ session = "out" \/ Me \notin signedIn \/ tokenStale
  /\ Halts
  /\ UNCHANGED <<vars, session, tokenStale, resumeFrom, readers, cuts, start, announced>>

OpenFails ==
  /\ loop = "opening"
  /\ cuts < MaxCuts /\ cuts' = cuts + 1
  /\ loop' = "pausing"
  /\ UNCHANGED <<vars, session, tokenStale, conn, resumeFrom, stopped, readers, grace, start,
                 announced, excused>>

Drops ==
  /\ conn' = NoStream /\ loop' = "pausing"
  /\ excused' = excused \cup Lost

Hears(kind) ==
  /\ loop = "reading"
  /\ Used(conn) /\ stream[conn].wire # << >> /\ Head(stream[conn].wire).kind = kind
  /\ TakeFrame(conn)
  /\ UNCHANGED <<session, tokenStale, stopped, readers, grace, cuts>>

(* The comment names the head, for a feed that has no resume point yet.    *)
HearOpen ==
  /\ Hears("open")
  /\ IF resumeFrom = None
       THEN /\ resumeFrom' = Head(stream[conn].wire).head
            /\ start' = resumeFrom'
       ELSE UNCHANGED <<resumeFrom, start>>
  /\ UNCHANGED <<loop, conn, announced, excused>>

HearReset ==
  /\ Hears("reset")
  /\ resumeFrom' = Head(stream[conn].wire).last
  /\ excused' = excused \cup Between(resumeFrom, resumeFrom')
  /\ UNCHANGED <<loop, conn, start, announced>>

HearDetectionForgets ==
  /\ Hears("detection")
  /\ announced' = Append(announced, Head(stream[conn].wire).seq)
  /\ UNCHANGED <<resumeFrom, loop, conn, start, excused>>

HearDetection ==
  LET seq == Head(stream[conn].wire).seq IN
  /\ Hears("detection")
  /\ resumeFrom' = IF resumeFrom = None \/ seq > resumeFrom THEN seq ELSE resumeFrom
  /\ announced' = Append(announced, seq)
  /\ UNCHANGED <<loop, conn, start, excused>>

HearReauth ==
  /\ Hears("reauth")
  /\ Drops
  /\ UNCHANGED <<resumeFrom, start, announced>>

HearEndStops ==
  /\ loop = "reading"
  /\ stream[conn].phase = "over" /\ stream[conn].wire = << >>
  /\ ClientGone(conn)
  /\ conn' = NoStream /\ loop' = "off"
  /\ excused' = excused \cup Lost
  /\ UNCHANGED <<session, tokenStale, resumeFrom, stopped, readers, grace, cuts, start, announced>>

HearEnd ==
  /\ loop = "reading"
  /\ stream[conn].phase = "over" /\ stream[conn].wire = << >>
  /\ ClientGone(conn)
  /\ Drops
  /\ UNCHANGED <<session, tokenStale, resumeFrom, stopped, readers, grace, cuts, start, announced>>

(* The connection breaks: what was on its way is lost, and the server will *)
(* notice in its own time.                                                 *)
Cut ==
  /\ loop = "reading"
  /\ cuts < MaxCuts /\ cuts' = cuts + 1
  /\ Drops
  /\ UNCHANGED <<vars, session, tokenStale, resumeFrom, stopped, readers, grace, start, announced>>

(* reconnectDelay has passed.                                              *)
DelayOver ==
  /\ loop = "pausing"
  /\ loop' = "opening"
  /\ UNCHANGED <<vars, session, tokenStale, conn, resumeFrom, stopped, readers, grace, cuts,
                 start, announced, excused>>

Hear == HearOpen \/ HearReset \/ HearDetection \/ HearReauth \/ HearEnd
Runs == OpenStream \/ OpenRefused \/ Hear \/ DelayOver

-----------------------------------------------------------------------------
(* The session.                                                            *)

(* POST /api/auth/logout, in its three steps: the feed is stopped and      *)
(* forgotten, the family is revoked, the session is dropped.  Tabs of the  *)
(* feed that is forgotten are told it stopped; one that attaches next gets *)
(* a new feed.                                                             *)
LogoutStopsFeed ==
  /\ session = "in"
  /\ session' = "leaving"
  /\ loop' = "off" /\ conn' = NoStream /\ resumeFrom' = None /\ stopped' = FALSE
  /\ readers' = {} /\ grace' = FALSE
  /\ start' = None /\ announced' = << >> /\ excused' = {}
  /\ UNCHANGED <<vars, tokenStale, cuts>>

LogoutRevokes ==
  /\ session = "leaving"
  /\ Revoke(Me)
  /\ UNCHANGED feed

LogoutDrops ==
  /\ session = "leaving"
  /\ session' = "out"
  /\ UNCHANGED <<vars, tokenStale, loop, conn, resumeFrom, stopped, readers, grace, cuts,
                 start, announced, excused>>

(* POST /__admin/expire-tokens: every stream's token, and the one the      *)
(* store believes to be fresh.  Another call that is refused refreshes it. *)
ExpireTokens ==
  /\ cuts < MaxCuts /\ cuts' = cuts + 1
  /\ ~tokenStale /\ tokenStale' = TRUE
  /\ stream' = [s \in Streams |-> IF Used(s) THEN [stream[s] EXCEPT !.expired = TRUE] ELSE Unused]
  /\ UNCHANGED <<released, bus, signedIn, hooks, session, loop, conn, resumeFrom, stopped,
                 readers, grace, start, announced, excused>>

TokenRefreshed ==
  /\ tokenStale /\ session # "out" /\ Me \in signedIn
  /\ tokenStale' = FALSE
  /\ UNCHANGED <<vars, session, loop, conn, resumeFrom, stopped, readers, grace, cuts, start,
                 announced, excused>>

Backend ==
  /\ World \/ \E s \in Streams \ {conn} : ClientGone(s)
  /\ UNCHANGED feed

(* What the event loop of the API does by itself.                          *)
ServerRuns ==
  /\ Pump \/ \E s \in Streams : Serve(s) \/ (s # conn /\ ClientGone(s))
  /\ UNCHANGED feed

FeedNext ==
  \/ Backend
  \/ \E t \in Tabs : Attach(t) \/ Detach(t)
  \/ GraceEnds
  \/ Runs \/ OpenFails \/ Cut
  \/ LogoutStopsFeed \/ LogoutRevokes \/ LogoutDrops
  \/ ExpireTokens \/ TokenRefreshed

FeedSpec == FeedInit /\ [][FeedNext]_feedVars

(* The server's tasks run and notice dead connections, the pump keeps      *)
(* waking, the loop of the feed runs.  Rotation and expiry are not fair,   *)
(* and may happen as often as they like.                                   *)
FeedFairSpec ==
  /\ FeedSpec
  /\ WF_feedVars(ServerRuns)
  /\ WF_feedVars(Runs)

-----------------------------------------------------------------------------
(* Properties.                                                             *)

(* Across rotations, re-authentications, cuts and resumes every detection  *)
(* is announced at most once, in order (merge.ts need not repair it).      *)
AnnouncedInOrder ==
  \A i, j \in DOMAIN announced : i < j => announced[i] < announced[j]

(* What the feed counts as known it has announced, but for what a reset    *)
(* frame declared or an overflowing queue dropped.                         *)
NothingMissed ==
  start # None =>
    Wants[Me] \cap Between(start, resumeFrom) \subseteq Range(announced) \cup excused \cup Lost

(* What the feed announced is in order, once, and without a hole it was    *)
(* not told of, across all the streams it was put together from.           *)
FeedIsWhole ==
  /\ FeedTypeOK
  /\ AnnouncedInOrder
  /\ NothingMissed

Promise ==
  INSTANCE FeedPromise
  WITH LastSeq <- MaxSeq, Wanted <- Wants[Me], latest <- released, excused <- excused \cup Lost

(* The feed is what its tabs take it for: one list of detections in order  *)
(* that has a hole only where one was declared or a queue was full, and    *)
(* that catches up with the capture however often the server rotates or    *)
(* re-authenticates the stream, until it is stopped.                       *)
FeedKeepsItsPromise == Promise!PromiseSpec

(* upstream.ts:14 "One live feed per signed-in session": a tab that is     *)
(* attached in a session that is signed in has a feed that runs.           *)
OneLiveFeed ==
  (session = "in" /\ Me \in signedIn /\ readers # {}) => ~stopped
=============================================================================
