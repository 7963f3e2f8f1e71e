------------------------------ MODULE Imports ------------------------------
(***************************************************************************)
(* Imported captures (workspace/imports.py, api/imports.py).  An upload is *)
(* read in parts with a pause after each, so uploads overlap; all that     *)
(* follows the last part is one action.  A poll every 250 ms, and every    *)
(* GET, moves the jobs on, in the order they were made.  _free_mono is     *)
(* never assigned: a job counts its time from its creation.                *)
(***************************************************************************)
EXTENDS Integers, FiniteSets, Sequences, SequencesExt

CONSTANTS
  Captures,     \* files by their SHA-256
  SizeOf,       \* capture -> parts its body has
  NotCaptures,      \* captures whose magic bytes are not pcap or pcapng
  Seconds,      \* capture -> index_duration_s, in ticks
  MaxUpload,    \* MAX_UPLOAD_BYTES, in parts
  UploadOffers,       \* uploads a client may send: capture, meta, key, and whether their length is declared
  Uploads,      \* requests in flight, and the last answer of each client
  ImportKeys,         \* idempotency keys
  MaxAge        \* bound: the age of a job

ASSUME ImportConstants ==
  /\ NotCaptures \subseteq Captures
  /\ UploadOffers \subseteq [capture: Captures, meta: {"ok", "wrong digest", "invalid", "missing"},
                      key: ImportKeys \cup {"none"}, declared: BOOLEAN]
  /\ SizeOf \in [Captures -> Nat \ {0}] /\ Seconds \in [Captures -> Nat \ {0}]
  /\ {MaxUpload, MaxAge} \subseteq Nat
  /\ \A c \in Captures : Seconds[c] <= MaxAge

VARIABLES
  uploads,  \* requests: what they carry, how far they got, what they were answered
  jobs,     \* _records, in order of creation
  sensors,  \* World._imports: the captures registered, in order
  keys      \* the idempotency store: key -> fingerprint and job

importVars == <<uploads, jobs, sensors, keys>>

NoImportKey == "none"
Metas == {"ok", "wrong digest", "invalid", "missing"}
Replies == {"none", "too_large", "not_a_capture", "missing", "invalid", "checksum_mismatch",
            "idempotency_key_mismatch", "replayed", "duplicate", "accepted"}

Upload == [capture: Captures, meta: Metas, key: ImportKeys \cup {NoImportKey}, read: Nat,
           reply: Replies, job: Nat, sensor: Nat]
Job == [capture: Captures, sensor: Nat \ {0}, state: {"received", "indexing", "ready"},
        age: 0..MaxAge]

ImportTypeOK ==
  /\ \A u \in DOMAIN uploads : uploads[u] \in Upload
  /\ DOMAIN uploads \subseteq Uploads
  /\ jobs \in Seq(Job)
  /\ sensors \in Seq(Captures)
  /\ DOMAIN keys \subseteq ImportKeys
  /\ \A k \in DOMAIN keys : keys[k] \in [capture: Captures, job: DOMAIN jobs]

ImportInit ==
  /\ uploads = [u \in {} |-> 0]
  /\ jobs = <<>>
  /\ sensors = <<>>
  /\ keys = [k \in {} |-> 0]

-----------------------------------------------------------------------------
(* Reading the body.                                                       *)

Answered(u, reply, job, sensor) ==
  uploads' = [uploads EXCEPT ![u].reply = reply, ![u].job = job, ![u].sensor = sensor]

(* Content-Length is looked at before the body, when there is one.         *)
Begun(offer) ==
  [capture |-> offer.capture, meta |-> offer.meta, key |-> offer.key, read |-> 0, job |-> 0, sensor |-> 0,
   reply |-> IF offer.declared /\ SizeOf[offer.capture] > MaxUpload THEN "too_large" ELSE "none"]

Begin(u, offer) ==
  /\ u \in DOMAIN uploads => uploads[u].reply # "none"
  /\ uploads' = [v \in DOMAIN uploads \cup {u} |-> IF v = u THEN Begun(offer) ELSE uploads[v]]
  /\ UNCHANGED <<jobs, sensors, keys>>

Reading(u) == uploads[u].reply = "none" /\ uploads[u].read < SizeOf[uploads[u].capture]

(* on_part_data: the size so far, then the magic bytes.                    *)
Part(u) ==
  /\ Reading(u)
  /\ uploads' = [uploads EXCEPT
       ![u].read = @ + 1,
       ![u].reply = IF uploads[u].read + 1 > MaxUpload THEN "too_large"
                    ELSE IF uploads[u].capture \in NotCaptures THEN "not_a_capture"
                    ELSE "none"]
  /\ UNCHANGED <<jobs, sensors, keys>>

-----------------------------------------------------------------------------
(* The jobs.                                                               *)

Progressed(job, state) == [job EXCEPT !.state = state]

(* tick(): finished jobs become sensors until one is not finished; that    *)
(* one is indexing, and those behind it wait.                              *)
Done(j) == jobs[j].state = "ready" \/ jobs[j].age >= Seconds[jobs[j].capture]

FirstWaiting == IF \A j \in DOMAIN jobs : Done(j) THEN Len(jobs) + 1
                ELSE CHOOSE j \in DOMAIN jobs : ~Done(j) /\ \A i \in 1..j - 1 : Done(i)

Finished == {j \in 1..FirstWaiting - 1 : jobs[j].state # "ready"}

SensorOfJob(j) == Len(sensors) + 1

(* register_import numbers the sensors as it meets them.                   *)
SensorOf(j) == Len(sensors) + Cardinality({i \in Finished : i <= j})

Ticked ==
  [j \in DOMAIN jobs |->
     IF j \in Finished THEN [jobs[j] EXCEPT !.state = "ready", !.sensor = SensorOf(j)]
     ELSE IF j = FirstWaiting THEN Progressed(jobs[j], "indexing")
     ELSE jobs[j]]

(* The k-th of the finished jobs.                                          *)
FinishedAs(k) == CHOOSE j \in Finished : Cardinality({i \in Finished : i <= j}) = k

Registered == sensors \o [k \in 1..Cardinality(Finished) |-> jobs[FinishedAs(k)].capture]

PollImports ==
  /\ jobs' = Ticked
  /\ sensors' = Registered
  /\ UNCHANGED <<uploads, keys>>

SameReady(c) == SelectInSeq(jobs, LAMBDA job : job.capture = c /\ job.state = "ready")

Same(c) == SelectInSeq(jobs, LAMBDA job : job.capture = c)

Accepted(u) ==
  LET c == uploads[u].capture
      n == Len(jobs) + 1
  IN  /\ jobs' = Append(jobs, [capture |-> c, sensor |-> n, state |-> "received", age |-> 0])
      /\ keys' = IF uploads[u].key = NoImportKey THEN keys
                 ELSE [k \in DOMAIN keys \cup {uploads[u].key} |->
                         IF k = uploads[u].key THEN [capture |-> c, job |-> n] ELSE keys[k]]
      /\ Answered(u, "accepted", n, n)
      /\ UNCHANGED sensors

(* The whole body is there: its form, its digest, the idempotency key, an  *)
(* earlier import of the same bytes, and only then a job of its own.       *)
Finish(u) ==
  LET upload == uploads[u]
      hit == upload.key \in DOMAIN keys
  IN  /\ upload.reply = "none" /\ ~Reading(u)
      /\ \/ /\ upload.meta # "ok"
            /\ Answered(u, IF upload.meta = "wrong digest" THEN "checksum_mismatch" ELSE upload.meta, 0, 0)
            /\ UNCHANGED <<jobs, sensors, keys>>
         \/ /\ upload.meta = "ok" /\ hit
            /\ IF keys[upload.key].capture # upload.capture
               THEN Answered(u, "idempotency_key_mismatch", 0, 0) /\ UNCHANGED <<jobs, sensors>>
               ELSE /\ jobs' = Ticked /\ sensors' = Registered
                    /\ Answered(u, "replayed", keys[upload.key].job, Ticked[keys[upload.key].job].sensor)
            /\ UNCHANGED keys
         \/ /\ upload.meta = "ok" /\ ~hit
            /\ IF Same(upload.capture) # 0
               THEN /\ Answered(u, "duplicate", Same(upload.capture), jobs[Same(upload.capture)].sensor)
                    /\ UNCHANGED <<jobs, sensors, keys>>
               ELSE Accepted(u)

AgeJobs ==
  /\ \E j \in DOMAIN jobs : jobs[j].age < MaxAge
  /\ jobs' = [j \in DOMAIN jobs |-> [jobs[j] EXCEPT !.age = IF @ < MaxAge THEN @ + 1 ELSE @]]
  /\ UNCHANGED <<uploads, sensors, keys>>

ResetKeepsKeys ==
  /\ jobs # <<>>
  /\ jobs' = <<>> /\ sensors' = <<>>
  /\ uploads' = [u \in {v \in DOMAIN uploads : uploads[v].reply = "none"} |-> uploads[u]]
  /\ UNCHANGED keys

(* An admin reset; requests in flight go on with the store they find.      *)
ResetImports ==
  /\ jobs # <<>>
  /\ jobs' = <<>> /\ sensors' = <<>>
  /\ keys' = [k \in {} |-> 0]
  /\ uploads' = [u \in {v \in DOMAIN uploads : uploads[v].reply = "none"} |-> uploads[u]]

ImportNext ==
  \/ \E u \in Uploads, offer \in UploadOffers : Begin(u, offer)
  \/ \E u \in DOMAIN uploads : Part(u) \/ Finish(u)
  \/ PollImports \/ AgeJobs \/ ResetImports

ImportSpec == ImportInit /\ [][ImportNext]_importVars

-----------------------------------------------------------------------------
(* However uploads of the same bytes overlap, a capture is imported once.  *)
OneImportPerCapture ==
  \A i, j \in DOMAIN jobs : jobs[i].capture = jobs[j].capture => i = j

(* The sensor named in the first answer is the one the import becomes,     *)
(* though the world numbers it only when it is ready.                      *)
SensorAsAnnounced ==
  /\ \A u \in DOMAIN uploads : uploads[u].reply \in {"accepted", "replayed", "duplicate"} =>
       uploads[u].sensor = jobs[uploads[u].job].sensor
  /\ \A j \in DOMAIN jobs : jobs[j].state = "ready" => sensors[jobs[j].sensor] = jobs[j].capture

(* Overlapping uploads of a capture make one import, under the sensor its  *)
(* first answer named.                                                     *)
ImportSafety ==
  /\ ImportTypeOK
  /\ OneImportPerCapture
  /\ SensorAsAnnounced

(* The state walks received, indexing, ready (api/imports.py:134).         *)
StateWalks ==
  [][\A j \in DOMAIN jobs \cap DOMAIN jobs' :
       jobs'[j].capture = jobs[j].capture /\ jobs[j].state = "received" => jobs'[j].state # "ready"]_importVars
=============================================================================
