----------------------------- MODULE Background -----------------------------
(***************************************************************************)
(* How a block of a sensor and an hour is made (world/background.py): the  *)
(* traffic of an ordinary hour, some of it marked with detections; the     *)
(* false leads, a port scan, check-ins of an updater and a nightly backup, *)
(* made for each hour on its own; two files the exercise needs; and the    *)
(* sessions of the incident, less what an outage takes.  What chance       *)
(* decides is left open, one pass of the marking loop at a time.  The      *)
(* order and ids of the rows (finalise) are those of CaptureStore.         *)
(***************************************************************************)
EXTENDS Integers, Sequences, FiniteSets, SequencesExt, FiniteSetsExt

CONSTANTS
    Ordinary,    \* <<sensor, hour>> -> the set of lists of drafts it may begin with
    BlockTime,   \* an hour
    LocalHour,   \* <<sensor, hour>> -> the hour of the day there
    Office, DataHall, \* HQ_CORE and DC_EAST
    ScanHours, ScanTargets, ScanPorts, ScanBegin,
    VendorHosts, VendorDetectors, \* hosts that check in; those among them that look suspicious
    VendorAnchor, VendorPeriod, VendorSlip, \* host -> offset; the period; tick -> how late
    BackupHours, BackupsPerHour,
    Slots,       \* "trap" and "odd" -> the <<sensor, hour>> the file goes to
    Staged,      \* <<sensor, hour>> -> the drafts the incident adds
    SensorOutages, \* the set of [sensor, start, end] in which a sensor saw nothing
    FewestMarks  \* the least number of passes, and all there are in a small block

VARIABLES
    making, \* the block being made: its key, drafts and the passes left
    made    \* <<sensor, hour>> -> its drafts

bvars == <<making, made>>

NoBlock == [key |-> <<>>, drafts |-> <<>>, left |-> 0]

BackgroundRules == {"cleartext_credentials", "rare_user_agent", "dns_tunnel_suspected"}

-----------------------------------------------------------------------------
(* What is drafted: of a file where it is from, and its name.              *)

DraftOf(protocol, start) ==
    [protocol |-> protocol, start |-> start, tag |-> "", host |-> "", rules |-> <<>>, files |-> <<>>,
     method |-> "", status |-> 0, reasons |-> {}, rcode |-> ""]

DnsDrafts(start) ==
    {[DraftOf("dns", start) EXCEPT !.rcode = rcode] : rcode \in {"NOERROR", "NXDOMAIN", "SERVFAIL"}}
    \cup {[DraftOf("dns", start) EXCEPT !.rcode = "NXDOMAIN", !.reasons = {"nxdomain_burst"}]}

\* A download carries its file when all of it was sent.
HttpDrafts(start) ==
    {[DraftOf("http", start) EXCEPT
        !.method = method, !.status = status,
        !.files = IF download /\ status = 200 /\ method = "GET"
                  THEN <<[source |-> "http_body", name |-> "download"]>> ELSE <<>>] :
        method \in {"GET", "POST", "HEAD"}, status \in {200, 404}, download \in BOOLEAN}

PrinterDrafts(start) ==
    {[DraftOf("http", start) EXCEPT !.method = "GET", !.status = status, !.reasons = {"cleartext_auth"}] :
        status \in {200, 401}}

-----------------------------------------------------------------------------
(* Detections.                                                             *)

Eligible(draft, rule) ==
    CASE rule = "cleartext_credentials" -> draft.protocol = "http" /\ "cleartext_auth" \in draft.reasons
      [] rule = "rare_user_agent"       -> draft.protocol = "http" /\ draft.tag = ""
      [] OTHER                          -> draft.protocol = "dns" /\ draft.rcode = "NOERROR"

\* One pass: a rule, a draft it may mark, and nothing when it did already.
MarkedAgain(draft, rule) == [draft EXCEPT !.rules = Append(@, rule)]

Marked(draft, rule) ==
    IF rule \in ToSet(draft.rules) THEN draft ELSE [draft EXCEPT !.rules = Append(@, rule)]

Available(drafts) == {rule \in BackgroundRules : \E i \in DOMAIN drafts : Eligible(drafts[i], rule)}

Passes(drafts) == IF Available(drafts) = {} THEN 0 ELSE FewestMarks

-----------------------------------------------------------------------------
(* False leads.                                                            *)

\* Target after target, port after port; the first port of each tells.
PortScan(hourStart) ==
    FlattenSeq([target \in 1 .. ScanTargets |-> [port \in 1 .. ScanPorts |->
        [DraftOf("tcp", hourStart + ScanBegin + (target - 1) * ScanPorts + port - 1) EXCEPT
            !.tag = "scan", !.reasons = {"port_scan"},
            !.rules = IF port = 1 THEN <<"port_scan">> ELSE <<>>]]])

\* A host checks in every VendorPeriod, counted from its own offset and not
\* from the hour.
VendorTicksFromTheHour(host, hourStart) ==
    {tick \in hourStart + VendorAnchor[host] .. hourStart + BlockTime - 1 :
        (tick - hourStart - VendorAnchor[host]) % VendorPeriod = 0}

VendorTicks(host, hourStart) ==
    LET first == hourStart + ((VendorAnchor[host] - hourStart) % VendorPeriod)
    IN  {tick \in first .. hourStart + BlockTime - 1 : (tick - first) % VendorPeriod = 0}

VendorBeacons(hourStart) ==
    LET beacon(host, tick) ==
            [DraftOf("tls", tick + VendorSlip[tick]) EXCEPT
                !.tag = "vendor", !.host = host,
                !.rules = IF /\ host \in VendorDetectors
                             /\ ((tick - VendorAnchor[host]) \div VendorPeriod) % 2 = 0
                          THEN <<"periodic_tls_beacon">> ELSE <<>>]
        of(host) == LET ticks == SetToSortSeq(VendorTicks(host, hourStart), <)
                    IN  [i \in DOMAIN ticks |-> beacon(host, ticks[i])]
    IN  FlattenSeq([i \in DOMAIN VendorHosts |-> of(VendorHosts[i])])

NightlyBackup(hourStart) ==
    [i \in 1 .. BackupsPerHour |->
        [DraftOf("tls", hourStart + (i - 1) * (BlockTime \div BackupsPerHour)) EXCEPT
            !.tag = "backup", !.reasons = {"high_volume_out"}]]

Herrings(key) ==
    LET hourStart == key[2] * BlockTime IN
    CASE key[1] = Office ->
           (IF LocalHour[key] \in ScanHours THEN PortScan(hourStart) ELSE <<>>) \o VendorBeacons(hourStart)
      [] key[1] = DataHall /\ LocalHour[key] \in BackupHours -> NightlyBackup(hourStart)
      [] OTHER -> <<>>

-----------------------------------------------------------------------------
(* The files the exercise needs: they take the place of the first          *)
(* download, or go with the first GET, which then succeeded.               *)

Indexes(drafts, Test(_)) == SelectSeq([i \in DOMAIN drafts |-> i], LAMBDA i : Test(drafts[i]))

DownloadCarrier(drafts) ==
    LET downloads == Indexes(drafts, LAMBDA d : d.files # <<>> /\ Head(d.files).source = "http_body")
        gets      == Indexes(drafts, LAMBDA d : d.protocol = "http" /\ d.method = "GET")
    IN  IF downloads # <<>> THEN <<Head(downloads)>> ELSE IF gets # <<>> THEN <<Head(gets)>> ELSE <<>>

SeedFileOnly(key, file, drafts) ==
    LET carrier == DownloadCarrier(drafts) IN
    IF Slots[file] # key \/ carrier = <<>> THEN drafts
    ELSE [drafts EXCEPT ![Head(carrier)].files = <<[source |-> "http_body", name |-> file]>>]

SeedFile(key, file, drafts) ==
    LET carrier == DownloadCarrier(drafts) IN
    IF Slots[file] # key \/ carrier = <<>> THEN drafts
    ELSE [drafts EXCEPT ![Head(carrier)].status = 200,
                        ![Head(carrier)].files = <<[source |-> "http_body", name |-> file]>>]

SeedSpecialFiles(key, drafts) == SeedFile(key, "odd", SeedFile(key, "trap", drafts))

\* What the sensor saw; times that stray are looked at as they were drawn.
OutsideSensorOutages(key, drafts) ==
    SelectSeq(drafts, LAMBDA d : ~ \E o \in SensorOutages :
                                      o.sensor = key[1] /\ o.start <= d.start /\ d.start < o.end)

\* A start that strays out of the hour is moved to its end.
Clamped(key, drafts) ==
    [i \in DOMAIN drafts |->
        [drafts[i] EXCEPT !.start = Min({Max({@, key[2] * BlockTime}), (key[2] + 1) * BlockTime - 1})]]

-----------------------------------------------------------------------------
BeginBlock ==
    /\ making = NoBlock
    /\ \E key \in DOMAIN Ordinary \ DOMAIN made : \E drafts \in Ordinary[key] :
          making' = [key |-> key, drafts |-> drafts, left |-> Passes(drafts)]
    /\ UNCHANGED made

MarkDetections ==
    /\ making.left > 0
    /\ \E rule \in Available(making.drafts) : \E i \in DOMAIN making.drafts :
          /\ Eligible(making.drafts[i], rule)
          /\ making' = [making EXCEPT !.drafts[i] = Marked(@, rule), !.left = @ - 1]
    /\ UNCHANGED made

FinishBlock ==
    /\ making # NoBlock /\ making.left = 0
    /\ LET key     == making.key
           traffic == SeedSpecialFiles(key, making.drafts \o Herrings(key)) \o Staged[key]
       IN  made' = made @@ (key :> Clamped(key, OutsideSensorOutages(key, traffic)))
    /\ making' = NoBlock

BackgroundInit == making = NoBlock /\ made = <<>>

BackgroundNext == BeginBlock \/ MarkDetections \/ FinishBlock

BackgroundSpec == BackgroundInit /\ [][BackgroundNext]_bvars
=============================================================================
