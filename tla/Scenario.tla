------------------------------ MODULE Scenario ------------------------------
(***************************************************************************)
(* The incident the capture tells (world/incident.py): its stages, each    *)
(* drawn at random around a time before the epoch but never too soon after *)
(* the stage before; the sessions of each stage, filed by sensor and hour; *)
(* and the truth the world keeps of them (SimWorld.truth), against which   *)
(* the answers of an analyst are measured.  The scripted sessions only:    *)
(* the background of a block is left out.                                  *)
(***************************************************************************)
EXTENDS CaptureStore

CONSTANTS
    Draws,   \* what chance may decide: shift, jitter of each stage, wait and
             \* length, offsets of the lookups and of the denied share, sizes, and
             \* how long each upload lasts
    Ahead,   \* stage -> how long before the epoch it is meant to begin
    Pause,   \* stage -> the least time after the stage before it
    MassReadTime, MassReadSearched, \* 20 minutes of reads, searched for 21
    GapTime, \* CAPTURE_GAP_MINUTES
    HeadOffice, DataCentre, \* the sensors beside Scripted
    HoursAsked \* the hours that are read

VARIABLES
    draw,     \* what chance decided
    schedule, \* the beacons, as far as they are drawn up
    truth     \* what the world says happened, once it was asked

svars == <<draw, schedule, truth>>

-----------------------------------------------------------------------------
Params(d) ==
    LET planned(stage) == Epoch - Ahead[stage] + d.shift + d.jitter[stage]
        email   == planned("email")
        contact == Max({email + Pause["contact"], planned("contact")})
        smb     == Max({contact + d.wait + Pause["smb"], planned("smb")})
        exfil   == Max({smb + Pause["exfil"], planned("exfil")})
        gap     == Max({exfil + d.length + Pause["gap"], planned("gap")})
    IN  [email |-> email, contact |-> contact, beacon |-> contact + d.wait, smb |-> smb,
         exfil |-> exfil, exfilEnd |-> exfil + d.length, gap |-> gap, gapEnd |-> gap + GapTime]

\* How long a session lasts is asked of uploads only.
ScriptedRow(sensor, tag, start, up, rules) ==
    [sensor |-> sensor, tag |-> tag, start |-> start, up |-> up, rules |-> rules]

EmailRows(d) ==
    <<ScriptedRow(HeadOffice, "email", Params(d).email, 1, <<"lookalike_sender">>)>>

\* A lookup that is answered, and two that are not.
FirstContactRows(d) ==
    LET p == Params(d) IN
    [i \in 1 .. 3 |-> ScriptedRow(Scripted, "contact", p.contact + (<<0>> \o d.lookups)[i], 0, <<>>)]

DeniedRow(d) == ScriptedRow(DataCentre, "denied", Params(d).smb + d.denied, 0, <<>>)

SmbRows(d) ==
    LET p == Params(d) IN
    [i \in 1 .. d.files |->
        ScriptedRow(DataCentre, "smb", p.smb + ((i - 1) * MassReadTime) \div d.files, 0,
                    IF i = 1 THEN <<"smb_mass_read">> ELSE <<>>)]
    \o <<DeniedRow(d)>>

\* Uploads begin one after the other and may overlap, so that the last to
\* begin need not be the last to end.
ExfilRows(d) ==
    LET p == Params(d)
        start(i) == p.exfil + ((i - 1) * Max({1, p.exfilEnd - p.exfil})) \div Len(d.uploads)
    IN  [i \in 1 .. Len(d.uploads) |->
            Over(ScriptedRow(Scripted, "exfil", start(i), d.uploads[i], <<>>),
                 [end |-> start(i) + d.lasts[i]])]

StaticRows(d) == EmailRows(d) \o FirstContactRows(d) \o SmbRows(d) \o ExfilRows(d)

RowsFor(d, beaconsSoFar, sensor, hour) ==
    SelectSeq(StaticRows(d), LAMBDA r : r.sensor = sensor /\ HourOf(r.start) = hour)
    \o (IF sensor = Scripted THEN BeaconRows(beaconsSoFar, hour) ELSE <<>>)

ScriptedBlock(d, beaconsSoFar, sensor, hour) ==
    LET p   == Params(d)
        gap == {<<p.gap, p.gapEnd>>}
    IN  Finalise(ClampToHour(OutsideOutages(gap, sensor, RowsFor(d, beaconsSoFar, sensor, hour)), hour),
                 sensor, SensorIndex[sensor])

-----------------------------------------------------------------------------
(* The truth.                                                              *)

Tagged(d, beaconsSoFar, sensor, time, tag) ==
    SelectSeq(ScriptedBlock(d, beaconsSoFar, sensor, HourOf(time)), LAMBDA r : r.tag = tag)

BeaconRow(d, beaconsSoFar, time) ==
    SelectSeq(Tagged(d, beaconsSoFar, Scripted, time, "beacon"), LAMBDA r : r.start = time)

\* The first beacon whose packets are still kept, if there is one.
FirstRetainedBeacon(d, beaconsSoFar) ==
    LET p == Params(d)
        kept == SelectSeq(beaconsSoFar.times, LAMBDA t :
                    t >= Epoch - Retention /\ (t < p.gap \/ t >= p.gapEnd))
        found(i) == BeaconRow(d, beaconsSoFar, kept[i]) # <<>>
    IN  IF \E i \in DOMAIN kept : found(i)
        THEN BeaconRow(d, beaconsSoFar,
                       kept[CHOOSE i \in DOMAIN kept : found(i) /\ \A j \in 1 .. i - 1 : ~ found(j)])
        ELSE <<>>

\* Counted in the blocks of every hour the reads may be in.
SmbFileCountOfTheHour(d, beaconsSoFar) ==
    Len(Tagged(d, beaconsSoFar, DataCentre, Params(d).smb, "smb"))

SmbFileCount(d, beaconsSoFar) ==
    MapThenSumSet(LAMBDA hour : Len(Tagged(d, beaconsSoFar, DataCentre, hour * HourTime, "smb")),
                  HourOf(Params(d).smb) .. HourOf(Params(d).smb + MassReadSearched))

ExfilTotals(d) ==
    LET rows == ExfilRows(d)
    IN  [bytes |-> FoldLeft(LAMBDA n, r : n + r.up, 0, rows), sessions |-> Len(rows),
         start |-> Min({rows[i].start : i \in DOMAIN rows}),
         end   |-> Max({rows[i].end : i \in DOMAIN rows})]

IdOf(rows) == IF rows = <<>> THEN 0 ELSE Head(rows).id

BuildTruth(d, beaconsSoFar) ==
    [email   |-> IdOf(Tagged(d, beaconsSoFar, HeadOffice, Params(d).email, "email")),
     first   |-> IdOf(Tagged(d, beaconsSoFar, Scripted, Params(d).contact, "contact")),
     firing  |-> IdOf(BeaconRow(d, beaconsSoFar, beaconsSoFar.times[FiresFrom + 1])),
     kept    |-> IdOf(FirstRetainedBeacon(d, beaconsSoFar)),
     files   |-> SmbFileCount(d, beaconsSoFar),
     exfil   |-> ExfilTotals(d)]

-----------------------------------------------------------------------------
NoTruth == <<>>

DrawnPast(time) == ExtendBeacons(schedule, Params(draw).beacon, time)

\* Someone reads an hour of the scripted sensor.
ReadScripted(hour) ==
    /\ schedule' = IF (hour + 1) * HourTime <= Params(draw).beacon THEN schedule
                   ELSE DrawnPast((hour + 1) * HourTime)
    /\ UNCHANGED <<draw, truth>>

\* The truth is built when it is first asked for, and kept.
TellTruth ==
    /\ truth = NoTruth
    /\ schedule' = DrawnPast(Epoch)
    /\ truth' = BuildTruth(draw, DrawnPast(Epoch))
    /\ UNCHANGED draw

ScenarioInit ==
    /\ draw \in Draws
    /\ schedule = NoBeacons
    /\ truth = NoTruth

ScenarioNext ==
    \/ \E hour \in HoursAsked : ReadScripted(hour)
    \/ TellTruth

ScenarioSpec == ScenarioInit /\ [][ScenarioNext]_svars
=============================================================================
