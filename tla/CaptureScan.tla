---------------------------- MODULE CaptureScan ----------------------------
(***************************************************************************)
(* The scanner an upload goes through as it arrives                        *)
(* (workspace/imports.py, CaptureScanner): chunks of any size, in which it *)
(* looks for the magic, the file header, and the header of every record,   *)
(* whose payload it skips.  It wants the times of the first and the last   *)
(* record.  A record header is two bytes here: its time and the length of  *)
(* its payload.                                                            *)
(***************************************************************************)
EXTENDS Integers, Sequences, FiniteSetsExt

CONSTANTS
    Bytes,      \* what a byte may be
    Magics,     \* PCAP_MAGICS: the first bytes of a file -> its kind
    HeaderSize, \* of a pcap file, its magic included
    MaxRecord,  \* MAX_RECORD_BYTES
    MaxUploadBytes,  \* MAX_UPLOAD_BYTES
    MaxChunk

ASSUME ScanConstants ==
    /\ Bytes \subseteq Nat
    /\ {HeaderSize, MaxRecord, MaxUploadBytes, MaxChunk} \subseteq Nat
    /\ \A magic \in DOMAIN Magics : Magics[magic] # ""

VARIABLES
    uploaded, \* the bytes that arrived so far
    scan,     \* what the scanner makes of them
    verdict   \* "", "too_large" or "not_a_capture"

uvars == <<uploaded, scan, verdict>>

MagicSize  == 2
RecordSize == 2

NoTime == -1

NewScan == [state |-> "magic", buffer |-> <<>>, skip |-> 0, size |-> 0, kind |-> "",
            decided |-> FALSE, first |-> NoTime, last |-> NoTime]

-----------------------------------------------------------------------------
Dropped(buffer, n) == SubSeq(buffer, n + 1, Len(buffer))

ReadMagic(s) ==
    LET magic == SubSeq(s.buffer, 1, MagicSize)
        kind  == IF magic \in DOMAIN Magics THEN Magics[magic] ELSE ""
    IN  [s EXCEPT !.decided = TRUE, !.kind = kind,
                  !.state = IF kind = "pcap" THEN "header" ELSE "done"]

\* The magic is still in front of the header.
ReadHeader(s) == [s EXCEPT !.buffer = Dropped(@, HeaderSize), !.state = "record"]

ReadRecord(s) ==
    LET time == s.buffer[1]
        captured == s.buffer[2]
    IN  IF captured > MaxRecord THEN [s EXCEPT !.state = "done"]
        ELSE [s EXCEPT !.first = IF @ = NoTime THEN time ELSE @, !.last = time,
                       !.buffer = Dropped(@, RecordSize),
                       !.skip = captured, !.state = "payload"]

ReadPayloadPart(s) ==
    LET take == Min({s.skip, Len(s.buffer)})
    IN  [s EXCEPT !.buffer = Dropped(@, take), !.skip = 0, !.state = "record"]

ReadPayload(s) ==
    LET take == Min({s.skip, Len(s.buffer)})
    IN  [s EXCEPT !.buffer = Dropped(@, take), !.skip = @ - take,
                  !.state = IF take < s.skip THEN @ ELSE "record"]

\* One turn of the loop: what is not there in full waits.
Turn(s) ==
    CASE s.state = "magic" /\ Len(s.buffer) >= MagicSize   -> ReadMagic(s)
      [] s.state = "header" /\ Len(s.buffer) >= HeaderSize -> ReadHeader(s)
      [] s.state = "record" /\ Len(s.buffer) >= RecordSize -> ReadRecord(s)
      [] s.state = "payload"                               -> ReadPayload(s)
      [] OTHER                                             -> s

\* The loop of _parse, as far as what is buffered goes: a turn that does
\* anything takes a byte or leaves the scanner nearer to one that does, so that
\* after this many another would do nothing.
Turns(s) == 2 * Len(s.buffer) + 3

Parsed(s) ==
    LET after[n \in 0 .. Turns(s)] == IF n = 0 THEN s ELSE Turn(after[n - 1])
    IN  after[Turns(s)]

Fed(s, chunk) ==
    LET sized == [s EXCEPT !.size = @ + Len(chunk)]
    IN  IF s.state = "done" THEN sized
        ELSE Parsed([sized EXCEPT !.buffer = @ \o chunk])

-----------------------------------------------------------------------------
ScanInit == uploaded = <<>> /\ scan = NewScan /\ verdict = ""

\* UploadCollector.on_part_data: a chunk that is too much is not scanned, and
\* a file that turns out to be no capture is refused at once.
PartData(chunk) ==
    /\ verdict = ""
    /\ IF scan.size + Len(chunk) > MaxUploadBytes
       THEN verdict' = "too_large" /\ UNCHANGED <<uploaded, scan>>
       ELSE /\ scan' = Fed(scan, chunk)
            /\ uploaded' = uploaded \o chunk
            /\ verdict' = IF scan'.decided /\ scan'.kind = "" THEN "not_a_capture" ELSE ""

ScanNext == \E n \in 1 .. MaxChunk : \E chunk \in [1 .. n -> Bytes] : PartData(chunk)

ScanSpec == ScanInit /\ [][ScanNext]_uvars
-----------------------------------------------------------------------------
\* A file that is read in one go: a record is read at a place if its header is
\* there and its payload not too long, and then the next one begins behind it.
Reads(file, i) == i + 1 \in DOMAIN file /\ file[i + 1] <= MaxRecord

Place(file) ==
    LET at[k \in 0 .. Len(file)] ==
          IF k = 0 THEN HeaderSize + 1
          ELSE LET i == at[k - 1]
               IN  IF Reads(file, i) THEN i + RecordSize + file[i + 1] ELSE i
    IN  at

\* Its records, numbered from 0.
Records(file) == {k \in 0 .. Len(file) : Reads(file, Place(file)[k])}

\* However an upload is cut into chunks (CaptureScanner.feed), the scanner
\* knows what reading its bytes in one go would tell: how many they are, the
\* times of the first and the last record, and whether they are a capture.
ScanReadsTheFile ==
    LET magic == SubSeq(uploaded, 1, MagicSize)
        known == Len(uploaded) >= MagicSize /\ magic \in DOMAIN Magics
        read == IF known /\ Magics[magic] = "pcap" THEN Records(uploaded) ELSE {}
        time(k) == uploaded[Place(uploaded)[k]]
    IN  /\ scan.size = Len(uploaded)
        /\ scan.first = (IF read = {} THEN NoTime ELSE time(0))
        /\ scan.last = (IF read = {} THEN NoTime ELSE time(Max(read)))
        /\ verdict = "not_a_capture" <=> Len(uploaded) >= MagicSize /\ ~ known
=============================================================================
