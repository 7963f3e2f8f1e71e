---------------------------- MODULE CaptureStore ----------------------------
(***************************************************************************)
(* The generated capture (world/world.py): sessions in blocks of one       *)
(* sensor and one hour, made when they are first read and kept; the        *)
(* schedule of beacons one sensor carries, drawn up as far as anybody has  *)
(* read (world/incident.py); imported captures, which are sensors of their *)
(* own; the ledger of detections, built hour by hour                       *)
(* (world/detections.py); and the routes that open a session, its packets, *)
(* its files and the sessions like it (api/sessions.py).                   *)
(*                                                                         *)
(* What chance decides when a block is made is a constant: the sessions    *)
(* the generator drafts, the gaps between beacons (drawn over and over),   *)
(* the delay of a detection.                                               *)
(***************************************************************************)
EXTENDS Integers, Sequences, FiniteSets, SequencesExt, FiniteSetsExt

CONSTANTS
    BuiltInSensors, \* the sensors the capture begins with, in order of their index
    ImportNames,    \* the sensors imports become, in order
    SensorIndex,    \* sensor -> its index
    Lag,            \* sensor -> how far behind the clock it is
    Scripted,       \* the sensor that carries the beacons
    Drafts,         \* sensor -> hour -> the sequence of sessions drafted
    Outages,        \* the set of <<start, end>> in which Scripted saw nothing
    BeaconStart, BeaconGap, \* when the first beacon is, and the sequence of gaps that follow
    FiresFrom,      \* BEACON_DETECTION_FROM - 1
    DedupeTime,     \* BEACON_DEDUPE_MS
    BeaconDraft,    \* what a beacon looks like
    Delay,          \* the delay of a detection, by its row's start
    MinuteTime, HourTime, DataStart, Epoch, MaxNow,
    MinuteSpan, OrdinalSpan, \* ids: minutes of a sensor, sessions of a minute
    FirstImportIndex, ImportHorizon, \* the last time an import may reach
    Captures,       \* import id -> [first, last, sessions]
    ImportDraft,    \* what an imported session looks like
    Retention,      \* PCAP_RETENTION_MS
    PcapCacheSize,
    RelatedPage, RelatedWindows,
    AskedIds        \* the ids clients ask for

\* The hours an id can name.
IdHours == 0 .. (MinuteSpan - 1) \div (HourTime \div MinuteTime)

\* Ids have room: sensors have indexes of their own, which imports continue, and
\* a minute has ordinals for all that is drafted for its hour and the beacons in
\* it (encode_session_id refuses what is out of range).
ASSUME CaptureAssumption ==
    /\ {MinuteTime, HourTime, MinuteSpan, OrdinalSpan, PcapCacheSize, RelatedPage} \subseteq Nat \ {0}
    /\ {DataStart, Epoch, MaxNow, BeaconStart, DedupeTime, FiresFrom, FirstImportIndex} \subseteq Nat
    /\ HourTime % MinuteTime = 0
    /\ DataStart % HourTime = 0 /\ DataStart < Epoch /\ Epoch <= MaxNow
    /\ BeaconGap \in Seq(Nat \ {0}) /\ BeaconGap # <<>>
    /\ \A sensor \in ToSet(BuiltInSensors) :
          /\ Lag[sensor] \in Nat
          /\ \A start \in DOMAIN Delay : Delay[start] > 0 /\ Lag[sensor] + Delay[start] < HourTime
          /\ SensorIndex[sensor] \in 0 .. FirstImportIndex - 1
          /\ \A other \in ToSet(BuiltInSensors) :
                SensorIndex[other] = SensorIndex[sensor] => other = sensor
          /\ \A hour \in IdHours : LET drafts == Drafts[sensor][hour] IN
                /\ drafts \in Seq(ToSet(drafts))
                /\ Len(drafts) + (HourTime - 1) \div Min(ToSet(BeaconGap)) + 1 <= OrdinalSpan
                /\ \A i \in DOMAIN drafts : "start" \in DOMAIN drafts[i] /\ drafts[i].start \in Nat
    /\ "start" \in DOMAIN BeaconDraft
    /\ ImportNames \in Seq(ToSet(ImportNames)) /\ ToSet(ImportNames) \cap ToSet(BuiltInSensors) = {}
    /\ IsFiniteSet(DOMAIN Captures) /\ Cardinality(DOMAIN Captures) <= Len(ImportNames)
    /\ \A import \in DOMAIN Captures : Captures[import].sessions \in Int
    /\ AskedIds \subseteq Nat

VARIABLES
    now,     \* the capture clock
    beacons, \* [times, firing, lastFire]: the schedule so far
    blocks,  \* <<sensor, hour>> -> the rows of a block that has been read
    imports, \* the imports that are registered, in order
    ledger,  \* [all, next]: the detections so far and the next hour to build
    pcaps,   \* row id -> the row its cached packets were written from
    walk     \* a client that pages through the sessions like one of them

cvars == <<now, beacons, blocks, imports, ledger, pcaps, walk>>

\* A page that nothing follows has no cursor.
NoCursor == <<>>

\* promised: the rows that were there to be read when the walk began; reset:
\* whether the imports were taken away since.
NoWalk == [row |-> 0, half |-> 0, cursor |-> NoCursor, seen |-> <<>>, promised |-> {},
           over |-> FALSE, reset |-> FALSE]

-----------------------------------------------------------------------------
(* Ids (world/ids.py): sensor, minute and place in the minute, in that     *)
(* order of weight.                                                        *)

EncodeSessionId(index, minute, ordinal) == (index * MinuteSpan + minute) * OrdinalSpan + ordinal

IndexOf(id)  == id \div (OrdinalSpan * MinuteSpan)
MinuteOf(id) == (id \div OrdinalSpan) % MinuteSpan

HourOf(time) == time \div HourTime

\* A function, and another one where it has no value.
Over(f, g) == [x \in DOMAIN f \cup DOMAIN g |-> IF x \in DOMAIN f THEN f[x] ELSE g[x]]

BuiltIn == ToSet(BuiltInSensors)
FirstHour    == HourOf(DataStart)

-----------------------------------------------------------------------------
(* The beacons.  The n-th one fires a detection when enough came before it *)
(* and the last that fired is long past (0: none has).                     *)

ConsiderFire(schedule, time) ==
    LET n == Len(schedule.times) IN
    IF n < FiresFrom \/ (schedule.lastFire # 0 /\ time - schedule.lastFire < DedupeTime)
    THEN schedule
    ELSE [schedule EXCEPT !.lastFire = time, !.firing = @ \cup {n + 1}]

AddBeacon(schedule, time) ==
    LET considered == ConsiderFire(schedule, time)
    IN  [considered EXCEPT !.times = Append(@, time)]

NoBeacons == [times |-> <<>>, firing |-> {}, lastFire |-> 0]

Gap(n) == BeaconGap[((n - 1) % Len(BeaconGap)) + 1]

Extended(schedule, first, until) ==
    IF schedule.times = <<>> THEN AddBeacon(schedule, first)
    ELSE IF Last(schedule.times) <= until
    THEN AddBeacon(schedule, Last(schedule.times) + Gap(Len(schedule.times)))
    ELSE schedule

\* The schedule that begins at a time, drawn up past another.  Each beacon is
\* later than the one before, which bounds how many there are to add.
ExtendBeacons(schedule, first, until) ==
    LET most == Max({1, (until - first) \div Min(ToSet(BeaconGap)) + 2})
        after[n \in 0 .. most] == IF n = 0 THEN schedule ELSE Extended(after[n - 1], first, until)
    IN  after[most]

\* Those of an hour, of rows in the order of time: they follow each other.
OfHour(rows, hour) ==
    LET due == {i \in DOMAIN rows : HourOf(rows[i].start) = hour}
    IN  [k \in 1 .. Cardinality(due) |-> rows[Min(due) + k - 1]]

BeaconRows(schedule, hour) ==
    OfHour([i \in DOMAIN schedule.times |->
               [BeaconDraft EXCEPT !.start = schedule.times[i],
                                   !.rules = IF i \in schedule.firing THEN @ ELSE <<>>]], hour)

-----------------------------------------------------------------------------
(* Blocks (world/background.py).                                           *)

OutsideOutages(outages, sensor, drafts) ==
    Restrict(drafts, {i \in DOMAIN drafts : ~ \E o \in outages : /\ sensor = Scripted
                                                                 /\ o[1] <= drafts[i].start
                                                                 /\ drafts[i].start < o[2]})

ClampToHourEarly(drafts, hour) ==
    [i \in DOMAIN drafts |-> [drafts[i] EXCEPT !.start = IF @ < hour * HourTime THEN hour * HourTime ELSE @]]

\* A draft that strays out of its hour is moved to the end of it.
ClampToHour(drafts, hour) ==
    [i \in DOMAIN drafts |->
        [drafts[i] EXCEPT !.start = IF @ >= (hour + 1) * HourTime THEN (hour + 1) * HourTime - 1
                                    ELSE IF @ < hour * HourTime THEN hour * HourTime ELSE @]]

\* Drafts have their places by their start, then by their number.
Sooner(a, b) == a[1] < b[1] \/ (a[1] = b[1] /\ a[2] < b[2])

\* Ids count the rows of each minute.
Finalise(drafts, sensor, index) ==
    LET places == {<<drafts[i].start, i>> : i \in DOMAIN drafts}
        place(k) == CHOOSE a \in places : Cardinality({b \in places : Sooner(b, a)}) = k - 1
        minute(a) == a[1] \div MinuteTime
        ordinal(a) == Cardinality({b \in places : Sooner(b, a) /\ minute(b) = minute(a)})
        row(a) == Over([id |-> EncodeSessionId(index, minute(a), ordinal(a)), sensor |-> sensor], drafts[a[2]])
    IN  [k \in 1 .. Cardinality(places) |-> row(place(k))]

\* The block of a built-in sensor, made with a schedule drawn up past it.
BuiltBlock(schedule, sensor, hour) ==
    LET scripted == IF sensor = Scripted THEN BeaconRows(schedule, hour) ELSE <<>>
        drafts == OutsideOutages(Outages, sensor, Drafts[sensor][hour] \o scripted)
    IN  Finalise(ClampToHour(drafts, hour), sensor, SensorIndex[sensor])

\* Blocks that are read: those not kept yet are made, in any order.
LoadBehind(keys) ==
    LET new  == {key \in keys : key[1] \in BuiltIn /\ key[2] >= FirstHour} \ DOMAIN blocks
        past == IF new = {} THEN beacons
                ELSE ExtendBeacons(beacons, BeaconStart, Max({key[2] * HourTime : key \in new}))
    IN  /\ beacons' = past
        /\ blocks' = Over(blocks, [key \in new |-> BuiltBlock(past, key[1], key[2])])

Load(keys) ==
    LET new  == {key \in keys : key[1] \in BuiltIn /\ key[2] >= FirstHour} \ DOMAIN blocks
        ends == {(key[2] + 1) * HourTime : key \in {k \in new : k[1] = Scripted}}
        past == IF ends = {} \/ Max(ends) <= BeaconStart THEN beacons
                ELSE ExtendBeacons(beacons, BeaconStart, Max(ends))
    IN  /\ beacons' = past
        /\ blocks' = Over(blocks, [key \in new |-> BuiltBlock(past, key[1], key[2])])

-----------------------------------------------------------------------------
(* Imports.  The n-th import registered is the n-th of ImportNames.        *)

IsImport(sensor) == \E n \in DOMAIN imports : ImportNames[n] = sensor

\* The place of a sensor among the imports.
ImportOf(sensor) == CHOOSE n \in DOMAIN imports : ImportNames[n] = sensor

IndexOfSensor(sensor) ==
    IF IsImport(sensor) THEN FirstImportIndex + ImportOf(sensor) - 1 ELSE SensorIndex[sensor]

Sensors == BuiltIn \cup {ImportNames[n] : n \in DOMAIN imports}

\* A window the wrong way round is turned, and cut to the times there are.
ImportWindow(capture) ==
    LET first == Max({0, Min({capture.first, capture.last})})
    IN  <<first, Max({first, Min({Max({capture.first, capture.last}), ImportHorizon})})>>

ImportRows(n, import) ==
    LET window == ImportWindow(Captures[import])
        span   == Max({1, window[2] - window[1]})
        count  == Max({1, Captures[import].sessions})
    IN  Finalise([i \in 1 .. count |->
                     [ImportDraft[import] EXCEPT
                        !.start = window[1] + ((i - 1) * span) \div count]],
                 ImportNames[n], FirstImportIndex + n - 1)

\* Registering an import again answers the sensor it has.
RegisterImport(import) ==
    /\ imports' = IF import \in ToSet(imports) THEN imports ELSE Append(imports, import)
    /\ UNCHANGED <<now, beacons, blocks, ledger, pcaps, walk>>

\* A reset of the state takes the imports away.
ClearImports ==
    /\ imports # <<>>
    /\ imports' = <<>>
    /\ walk' = IF walk = NoWalk THEN walk ELSE [walk EXCEPT !.reset = TRUE]
    /\ UNCHANGED <<now, beacons, blocks, ledger, pcaps>>

-----------------------------------------------------------------------------
(* Reading rows.                                                           *)

VisibleUntil(sensor) ==
    IF IsImport(sensor) THEN ImportWindow(Captures[imports[ImportOf(sensor)]])[2] ELSE now - Lag[sensor]

\* A block as the next read of it would find it.
Block(sensor, hour) ==
    IF IsImport(sensor)
    THEN OfHour(ImportRows(ImportOf(sensor), imports[ImportOf(sensor)]), hour)
    ELSE IF hour < FirstHour THEN <<>>
    ELSE IF <<sensor, hour>> \in DOMAIN blocks THEN blocks[<<sensor, hour>>]
    ELSE BuiltBlock(ExtendBeacons(beacons, BeaconStart, (hour + 1) * HourTime), sensor, hour)

\* The hours a window of a sensor's rows is read from.
HoursRead(sensor, start, end) ==
    LET cut == Min({end, VisibleUntil(sensor) + 1})
        low == Max({start, DataStart})
    IN  IF sensor \notin Sensors \/ cut <= low THEN {}
        ELSE {hour \in FirstHour .. HourOf(VisibleUntil(sensor)) :
                low < (hour + 1) * HourTime /\ hour * HourTime < cut}

Rows(sensor, start, end) ==
    LET hours == HoursRead(sensor, start, end)
        cut   == Min({end, VisibleUntil(sensor) + 1})
    IN  FlattenSeq([i \in 1 .. Cardinality(hours) |->
            SelectSeq(Block(sensor, Min(hours) + i - 1),
                      LAMBDA r : start <= r.start /\ r.start < cut)])

RowsDesc(sensor, start, end) == Reverse(Rows(sensor, start, end))

\* raw_row, as a set of at most one row, and the block it is looked for in.
BlockOfId(id) ==
    {<<sensor, MinuteOf(id) \div (HourTime \div MinuteTime)>> :
        sensor \in {s \in Sensors : IndexOfSensor(s) = IndexOf(id)}}

RawRow(id) == UNION {{r \in ToSet(Block(key[1], key[2])) : r.id = id} : key \in BlockOfId(id)}

Row(id) == {r \in RawRow(id) : r.start <= VisibleUntil(r.sensor)}

\* Any route that goes through the rows of a window.
ReadRows(sensor, start, end) ==
    /\ Load({sensor} \X HoursRead(sensor, start, end))
    /\ UNCHANGED <<now, imports, ledger, pcaps, walk>>

-----------------------------------------------------------------------------
(* The ledger of detections.                                               *)

Release(row) == row.start + Lag[row.sensor] + Delay[row.start]

\* What the rows of a block have to tell.
DetectionsIn(rows) ==
    FlattenSeq([i \in DOMAIN rows |->
        [k \in DOMAIN rows[i].rules |->
            [time |-> Release(rows[i]), sensor |-> SensorIndex[rows[i].sensor],
             session |-> rows[i].id, rule |-> k]]])

Earlier(a, b) ==
    LET key(d) == <<d.time, d.sensor, d.session, d.rule>> IN
    \E i \in 1 .. 4 : key(a)[i] < key(b)[i] /\ \A j \in 1 .. i - 1 : key(a)[j] = key(b)[j]

\* The detections whose time is in an hour, from the rows of that hour and
\* of the one before.
CandidatesOfTheHour(hour) ==
    FlattenSeq([i \in DOMAIN BuiltInSensors |-> DetectionsIn(Block(BuiltInSensors[i], hour))])

Candidates(hour) ==
    FlattenSeq([i \in DOMAIN BuiltInSensors |->
        DetectionsIn(Block(BuiltInSensors[i], hour - 1))
        \o DetectionsIn(Block(BuiltInSensors[i], hour))])

BuildHour(hour) ==
    SortSeq(SelectSeq(Candidates(hour), LAMBDA d : HourOf(d.time) = hour), Earlier)

Ensured(book, hour) ==
    IF book.next > hour THEN book
    ELSE [all  |-> book.all \o FlattenSeq([i \in 1 .. hour - book.next + 1 |-> BuildHour(book.next + i - 1)]),
          next |-> hour + 1]

\* The blocks the ledger reads to be good up to now.
LedgerReads ==
    IF ledger.next > HourOf(now) THEN {}
    ELSE BuiltIn \X ((ledger.next - 1) .. HourOf(now))

Ensure == ledger' = Ensured(ledger, HourOf(now))

Until(book, time) == SelectSeq(book.all, LAMBDA d : d.time <= time)

ReadDetections ==
    /\ Ensure
    /\ Load(LedgerReads)
    /\ UNCHANGED <<now, imports, pcaps, walk>>

-----------------------------------------------------------------------------
(* The routes of one session.                                              *)

\* GET /sessions/{id} looks the row up, and its detections in the ledger.
GetSession(id) ==
    /\ Load(BlockOfId(id) \cup (IF Row(id) = {} THEN {} ELSE LedgerReads))
    /\ IF Row(id) = {} THEN UNCHANGED ledger ELSE Ensure
    /\ UNCHANGED <<now, imports, pcaps, walk>>

PcapStatusByAge(row) ==
    IF row.start < Epoch - Retention THEN "expired" ELSE "available"

PcapStatus(row) ==
    CASE IsImport(row.sensor)           -> "not_captured"
      [] row.start < Epoch - Retention  -> "expired"
      [] OTHER                          -> "available"

\* The packets are written once and kept; a full cache is emptied first.
GetPcap(id) ==
    /\ \E row \in Row(id) :
          /\ PcapStatus(row) = "available"
          /\ pcaps' = IF id \in DOMAIN pcaps THEN pcaps
                      ELSE Over(IF Cardinality(DOMAIN pcaps) >= PcapCacheSize THEN <<>> ELSE pcaps,
                                [asked \in {id} |-> row])
    /\ Load(BlockOfId(id))
    /\ UNCHANGED <<now, imports, ledger, walk>>

\* A carved file is named after its session and its place there.
FileOf(file) ==
    UNION {IF file.ordinal \in DOMAIN r.files THEN {r.files[file.ordinal]} ELSE {} :
              r \in Row(file.session)}

\* GET /sessions/{id}/files/{file}: the one seeded file that could not be
\* carved is looked for before those that were removed.
FileAnswer(id, file) ==
    CASE Row(id) = {} -> "session_not_found"
      [] Row(id) # {} /\ (FileOf(file) = {} \/ file.session # id) -> "file_not_found"
      [] OTHER -> LET kind == CHOOSE f \in FileOf(file) : TRUE IN
                  CASE kind = "trap"   -> "extraction_failed"
                    [] kind = "purged" -> "file_purged"
                    [] OTHER           -> "sent"

-----------------------------------------------------------------------------
(* GET /sessions/{id}/related, page by page: the cursor is the place of    *)
(* the last row of the page before.                                        *)

BeforeByTime(row, cursor) == cursor = NoCursor \/ row.start < cursor[1]

Before(row, cursor) ==
    cursor = NoCursor \/ row.start < cursor[1] \/ (row.start = cursor[1] /\ row.id < cursor[2])

\* The rows a page is chosen from, newest first.
RelatedTo(row, half) ==
    SelectSeq(RowsDesc(row.sensor, row.start - half, row.start + half + 1),
              LAMBDA r : r.id # row.id /\ {r.src, r.dst} = {row.src, row.dst})

PageOf(left) ==
    [ids  |-> [i \in 1 .. Min({RelatedPage, Len(left)}) |-> left[i].id],
     next |-> IF Len(left) > RelatedPage THEN <<left[RelatedPage].start, left[RelatedPage].id>>
              ELSE NoCursor]

RelatedAnswer(row, half, cursor) ==
    PageOf(SelectSeq(RelatedTo(row, half), LAMBDA r : Before(r, cursor)))

BlocksRelated(row, half) ==
    {row.sensor} \X HoursRead(row.sensor, row.start - half, row.start + half + 1)

\* A walk that has come to a page.
Walked(at, page) ==
    [at EXCEPT !.cursor = page.next, !.seen = @ \o page.ids, !.over = page.next = NoCursor]

ListRelated(id, half) ==
    /\ walk = NoWalk
    /\ \E row \in Row(id) :
          /\ walk' = Walked([NoWalk EXCEPT !.row = id, !.half = half,
                                           !.promised = {r.id : r \in ToSet(RelatedTo(row, half))}],
                            RelatedAnswer(row, half, NoCursor))
          /\ Load(BlockOfId(id) \cup BlocksRelated(row, half))
    /\ UNCHANGED <<now, imports, ledger, pcaps>>

\* A walk whose session is gone (an import that was cleared) ends there.
NextRelated ==
    /\ walk # NoWalk /\ ~ walk.over
    /\ IF Row(walk.row) = {}
       THEN walk' = NoWalk /\ Load(BlockOfId(walk.row))
       ELSE \E row \in Row(walk.row) :
              /\ walk' = Walked(walk, RelatedAnswer(row, walk.half, walk.cursor))
              /\ Load(BlockOfId(walk.row) \cup BlocksRelated(row, walk.half))
    /\ UNCHANGED <<now, imports, ledger, pcaps>>

Leave ==
    /\ walk.over
    /\ walk' = NoWalk
    /\ UNCHANGED <<now, beacons, blocks, imports, ledger, pcaps>>

-----------------------------------------------------------------------------
Tick ==
    /\ now < MaxNow
    /\ now' = now + 1
    /\ UNCHANGED <<beacons, blocks, imports, ledger, pcaps, walk>>

CaptureInit ==
    /\ now = Epoch
    /\ beacons = NoBeacons
    /\ blocks = <<>>
    /\ imports = <<>>
    /\ ledger = [all |-> <<>>, next |-> FirstHour]
    /\ pcaps = <<>>
    /\ walk = NoWalk

Reading ==
    \/ \E sensor \in BuiltIn : \E hour \in FirstHour .. HourOf(MaxNow) :
           ReadRows(sensor, hour * HourTime, (hour + 1) * HourTime)
    \/ ReadDetections
    \/ \E id \in AskedIds : GetSession(id)

Paging ==
    \/ \E id \in AskedIds : \E half \in RelatedWindows : ListRelated(id, half)
    \/ NextRelated \/ Leave

Fetching ==
    \/ \E id \in AskedIds : GetPcap(id)
    \/ \E import \in DOMAIN Captures : RegisterImport(import)
    \/ ClearImports

CaptureNext == Tick \/ Reading \/ Paging \/ Fetching

CaptureSpec == CaptureInit /\ [][CaptureNext]_cvars

-----------------------------------------------------------------------------
\* A block as the first to read anything would find it.
FreshBlock(sensor, hour) ==
    BuiltBlock(ExtendBeacons(NoBeacons, BeaconStart, (hour + 1) * HourTime), sensor, hour)

\* A block is the same whoever reads it first and whatever was read before:
\* the schedule of beacons has been drawn up past it (SimWorld._block,
\* Incident._extend_beacons).
BlocksDontDependOnOrder == \A key \in DOMAIN blocks : blocks[key] = FreshBlock(key[1], key[2])

\* The packets kept for an id are those of the session that has it, also after
\* imports were cleared and others took their place (SimWorld.pcap).
PcapIsOfTheRow == \A id \in DOMAIN pcaps : Row(id) = {pcaps[id]}

(* There is one capture, whoever reads what part of it first: its blocks   *)
(* are those a first reader finds, and the packets kept for an id are of   *)
(* the one session that has it.                                            *)
CaptureIsOne ==
    /\ BlocksDontDependOnOrder
    /\ PcapIsOfTheRow
=============================================================================
