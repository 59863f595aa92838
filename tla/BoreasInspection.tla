-------------------------- MODULE BoreasInspection --------------------------
(***************************************************************************)
(* How a Boreas sequence is read: the scans by the adapter (boreas_v1.py)   *)
(* and by the native inspector (boreas_inspector.cpp), which goes on to the *)
(* trajectory and the poses of the lidar.  Files may change meanwhile.      *)
(***************************************************************************)
EXTENDS TimeArithmetic, Sequences, FiniteSets

CONSTANTS
    Byte,
    SequencesOnDisk,  \* [scans, gps, poses]: what may be on the disk
    RecordBytes,      \* bytes of a lidar record
    ChunkBytes,       \* most bytes a read returns, a multiple of RecordBytes
    MaxFrameBytes,
    MaxFrames,
    MaxChanges,       \* bound on changes of the files
    Decode(_)         \* a record's time offset in nanoseconds, or Refused

ASSUME ReadingAssumption ==
    /\ RecordBytes \in Nat \ {0} /\ ChunkBytes \in Nat \ {0} /\ ChunkBytes % RecordBytes = 0
    /\ MaxFrameBytes \in Nat /\ MaxFrames \in Nat /\ MaxChanges \in Nat
    /\ \A d \in SequencesOnDisk :
         /\ DOMAIN d.scans \subseteq Nat /\ \A m \in DOMAIN d.scans : d.scans[m] \in Seq(Byte)
         /\ d.gps \in Seq([negative : BOOLEAN, seconds : Nat, tenths : 0..(10 * Second - 1)])
         /\ d.poses \in Seq(Nat)

VARIABLES
    disk,      \* the files: scans[m] has the bytes of the scan at m microseconds,
               \* gps and poses the times of the rows
    changes,
    program,   \* "adapter" or "inspector"
    reading,   \* where it is
    sizes,     \* the scans that the adapter has enumerated, with their sizes
    awaiting,  \* the scans still to be read
    scan,      \* the scan at hand
    scanned,   \* scanned[m]: the summary of each scan that was read
    rows       \* the rows of the trajectory or of the poses, as far as they were read

inspectionVars == <<disk, changes, program, reading, sizes, awaiting, scan, scanned, rows>>

Lesser(a, b) == IF b < a THEN b ELSE a
Greater(a, b) == IF b > a THEN b ELSE a

(***************************************************************************)
(* The scan at hand has the size it was opened with, the bytes read so far *)
(* (content), those not yet decoded (block) and the records' accumulators. *)
(***************************************************************************)
\* The accumulators before the first record and after one at a time.
NoPoints == [count |-> 0, first |-> MaxTime, last |-> MinTime, previous |-> MinTime, ordered |-> TRUE]

NoScan == [at |-> 0, size |-> 0, content |-> <<>>, block |-> <<>>, summary |-> NoPoints]

WithPoint(s, time) ==
    [count |-> s.count + 1, first |-> Lesser(s.first, time), last |-> Greater(s.last, time),
     previous |-> time, ordered |-> s.ordered /\ time >= s.previous]

NoSequence == [scans |-> <<>>, gps |-> <<>>, poses |-> <<>>]

NoRows == [count |-> 0, previous |-> MinTime, matches |-> 0]

RefuseSequence == reading' = "refused" /\ UNCHANGED <<awaiting, scan, scanned, rows>>

UnchangedFiles == UNCHANGED <<disk, changes, program, sizes>>

\* qualify_boreas_adapter or inspect_boreas_sequence, on any sequence.
BeginInspection ==
    /\ reading = "idle"
    /\ disk' \in SequencesOnDisk /\ program' \in {"adapter", "inspector"}
    /\ reading' = "directory"
    /\ UNCHANGED <<changes, sizes, awaiting, scan, scanned, rows>>

\* The scans of the directory, at least one; the inspector bounds their number.
NotListed ==
    \/ DOMAIN disk.scans = {}
    \/ program = "inspector" /\ Cardinality(DOMAIN disk.scans) > MaxFrames

ListScans ==
    /\ reading = "directory"
    /\ IF NotListed THEN RefuseSequence
       ELSE /\ reading' = IF program = "adapter" THEN "views" ELSE "frames"
            /\ awaiting' = DOMAIN disk.scans /\ UNCHANGED <<scan, scanned, rows>>
    /\ UnchangedFiles

\* A scan may be read: a bounded whole number of records, and a time in its name.
Admissible(m, size) ==
    /\ size # 0 /\ size <= MaxFrameBytes /\ size % RecordBytes = 0
    /\ FromMicroseconds(m) # Refused

\* frames(): the adapter takes all sizes before it reads any scan.
EnumerateScan ==
    /\ reading = "views"
    /\ \E m \in awaiting \ DOMAIN sizes :
         /\ \A k \in awaiting \ DOMAIN sizes : m <= k
         /\ LET size == Len(disk.scans[m])
            IN  IF ~Admissible(m, size) THEN RefuseSequence /\ sizes' = sizes
                ELSE /\ sizes' = [k \in DOMAIN sizes \cup {m} |-> IF k = m THEN size ELSE sizes[k]]
                     /\ reading' = IF awaiting \subseteq DOMAIN sizes' THEN "frames" ELSE "views"
                     /\ UNCHANGED <<awaiting, scan, scanned, rows>>
    /\ UNCHANGED <<disk, changes, program>>

BeginScan(m, size, next) ==
    /\ reading' = next
    /\ scan' = [NoScan EXCEPT !.at = m, !.size = size]
    /\ awaiting' = awaiting \ {m}
    /\ UNCHANGED <<scanned, rows>>

\* initialize_lidar_frame: the inspector takes the size of the scan it comes to.
OpenScan ==
    /\ reading = "frames"
    /\ \E m \in awaiting :
         /\ \A k \in awaiting : m <= k
         /\ IF program = "adapter" THEN BeginScan(m, sizes[m], "opened")
            ELSE IF Admissible(m, Len(disk.scans[m])) THEN BeginScan(m, Len(disk.scans[m]), "bytes")
            ELSE RefuseSequence
    /\ UnchangedFiles

\* _records: the file has still the size it was enumerated with.
CheckSize ==
    /\ reading = "opened"
    /\ IF Len(disk.scans[scan.at]) # scan.size THEN RefuseSequence
       ELSE reading' = "bytes" /\ UNCHANGED <<awaiting, scan, scanned, rows>>
    /\ UnchangedFiles

Unread == Len(disk.scans[scan.at]) - Len(scan.content)

\* read(): the next bytes behind those read before, from the file as it is now.
Chunk(n) == SubSeq(disk.scans[scan.at], Len(scan.content) + 1, Len(scan.content) + n)

Take(n) == scan' = [scan EXCEPT !.content = @ \o Chunk(n), !.block = @ \o Chunk(n)]

\* iter_boreas_lidar_records: chunks of any size; what is not a whole record
\* waits for the next one.
ReadChunk ==
    /\ reading = "bytes" /\ program = "adapter"
    /\ Len(scan.block) < RecordBytes
    /\ \E n \in 1..Lesser(ChunkBytes, Unread) :
         IF Len(scan.content) + n > MaxFrameBytes THEN RefuseSequence
         ELSE Take(n) /\ UNCHANGED <<reading, awaiting, scanned, rows>>
    /\ UnchangedFiles

\* inspect_lidar, consume_lidar_records: a buffer at a time, of whole records and
\* no more of them than there should be.
FillBuffer ==
    /\ reading = "bytes" /\ program = "inspector"
    /\ scan.block = <<>> /\ Unread > 0
    /\ LET n == Lesser(ChunkBytes, Unread)
       IN  IF \/ n % RecordBytes # 0
              \/ n \div RecordBytes > scan.size \div RecordBytes - scan.summary.count
           THEN RefuseSequence
           ELSE Take(n) /\ UNCHANGED <<reading, awaiting, scanned, rows>>
    /\ UnchangedFiles

\* The absolute time of a record, if it can be decoded and represented.
PointTime(m, record) ==
    LET offset == Decode(record)
    IN  IF offset \notin Int64 THEN Refused ELSE CheckedSum(FromMicroseconds(m), offset)

\* decode_boreas_lidar_record, scan_lidar_frame, consume_lidar_records
ConsumeRecord ==
    /\ reading = "bytes"
    /\ Len(scan.block) >= RecordBytes
    /\ LET time == PointTime(scan.at, SubSeq(scan.block, 1, RecordBytes))
       IN  IF time = Refused THEN RefuseSequence
           ELSE /\ scan' = [scan EXCEPT !.block = SubSeq(@, RecordBytes + 1, Len(@)),
                                        !.summary = WithPoint(@, time)]
                /\ UNCHANGED <<reading, awaiting, scanned, rows>>
    /\ UnchangedFiles

\* The end of the file: no part of a record is left, and none is missing.
EndScan ==
    /\ reading = "bytes"
    /\ Unread <= 0 /\ Len(scan.block) < RecordBytes
    /\ IF scan.block # <<>> \/ scan.summary.count # scan.size \div RecordBytes
       THEN RefuseSequence
       ELSE /\ scanned' = [m \in DOMAIN scanned \cup {scan.at} |->
                             IF m = scan.at THEN [content |-> scan.content, summary |-> scan.summary]
                             ELSE scanned[m]]
            /\ reading' = IF awaiting # {} THEN "frames"
                          ELSE IF program = "adapter" THEN "accepted" ELSE "gps"
            /\ UNCHANGED <<awaiting, scan, rows>>
    /\ UnchangedFiles

(***************************************************************************)
(* The rows of the trajectory, in decimal seconds, and of the poses, in     *)
(* microseconds, have times that do not decrease.                          *)
(***************************************************************************)
\* The first and the last point of all scans.
OverlapsScans(time) ==
    \E m, k \in DOMAIN scanned : scanned[m].summary.first <= time /\ time <= scanned[k].summary.last

Row(time, matching) ==
    IF time = Refused \/ time < rows.previous
    THEN RefuseSequence
    ELSE /\ rows' = [count |-> rows.count + 1, previous |-> time,
                     matches |-> rows.matches + (IF matching THEN 1 ELSE 0)]
         /\ UNCHANGED <<reading, awaiting, scan, scanned>>

\* inspect_trajectory: rows between the first and the last point are counted.
ReadGpsRow ==
    /\ reading = "gps" /\ rows.count < Len(disk.gps)
    /\ LET time == FromDecimalSeconds(disk.gps[rows.count + 1])
       IN  Row(time, time # Refused /\ OverlapsScans(time))
    /\ UnchangedFiles

EndGps ==
    /\ reading = "gps" /\ rows.count >= Len(disk.gps)
    /\ IF rows.count = 0 \/ rows.matches = 0 THEN RefuseSequence
       ELSE reading' = "poses" /\ rows' = NoRows /\ UNCHANGED <<awaiting, scan, scanned>>
    /\ UnchangedFiles

\* inspect_lidar_poses: poses at the midpoint of a scan are counted.
ReadPoseRow ==
    /\ reading = "poses" /\ rows.count < Len(disk.poses)
    /\ LET time == FromMicroseconds(disk.poses[rows.count + 1])
       IN  Row(time, \E m \in DOMAIN scanned : time = FromMicroseconds(m))
    /\ UnchangedFiles

EndPoses ==
    /\ reading = "poses" /\ rows.count >= Len(disk.poses)
    /\ IF rows.count = 0 THEN RefuseSequence
       ELSE reading' = "accepted" /\ UNCHANGED <<awaiting, scan, scanned, rows>>
    /\ UnchangedFiles

\* Somebody writes over the scans, in place.
Overwrite ==
    /\ reading \notin {"idle", "accepted", "refused"} /\ changes < MaxChanges
    /\ \E d \in SequencesOnDisk :
         /\ DOMAIN d.scans = DOMAIN disk.scans
         /\ disk' = [scans |-> d.scans, gps |-> disk.gps, poses |-> disk.poses]
    /\ changes' = changes + 1
    /\ UNCHANGED <<program, reading, sizes, awaiting, scan, scanned, rows>>

InspectionInit ==
    /\ disk = NoSequence /\ changes = 0
    /\ program = "adapter" /\ reading = "idle"
    /\ sizes = NoSequence.scans
    /\ awaiting = {} /\ scan = NoScan /\ scanned = NoSequence.scans /\ rows = NoRows

InspectionNext ==
    \/ BeginInspection \/ ListScans \/ EnumerateScan \/ OpenScan \/ CheckSize \/ ReadChunk
    \/ FillBuffer \/ ConsumeRecord \/ EndScan
    \/ ReadGpsRow \/ EndGps \/ ReadPoseRow \/ EndPoses \/ Overwrite

InspectionSpec == InspectionInit /\ [][InspectionNext]_inspectionVars

(***************************************************************************)
(* Properties.                                                             *)
(***************************************************************************)
\* The records of some bytes, and their times as integers.
Record(bytes, i) == SubSeq(bytes, RecordBytes * (i - 1) + 1, RecordBytes * i)

TimeOf(m, bytes, i) == m * Microsecond + Decode(Record(bytes, i))

\* Bytes that are a scan at m microseconds.
IsScan(m, bytes) ==
    /\ bytes # <<>> /\ Len(bytes) <= MaxFrameBytes /\ Len(bytes) % RecordBytes = 0
    /\ m * Microsecond \in Int64
    /\ \A i \in 1..(Len(bytes) \div RecordBytes) :
         Decode(Record(bytes, i)) \in Int64 /\ TimeOf(m, bytes, i) \in Int64

\* What a summary says of such bytes.
Measures(s, m, bytes) ==
    LET records == 1..(Len(bytes) \div RecordBytes)
    IN  /\ s.count = Len(bytes) \div RecordBytes
        /\ \E i \in records : s.first = TimeOf(m, bytes, i)
        /\ \E i \in records : s.last = TimeOf(m, bytes, i)
        /\ \A i \in records : s.first <= TimeOf(m, bytes, i) /\ TimeOf(m, bytes, i) <= s.last
        /\ s.ordered <=> \A i, j \in records : i < j => TimeOf(m, bytes, i) <= TimeOf(m, bytes, j)

\* Rows whose times are representable and do not decrease.
TimesInOrder(times) ==
    /\ times # <<>> /\ \A i \in DOMAIN times : times[i] \in Int64
    /\ \A i, j \in DOMAIN times : i < j => times[i] <= times[j]

GpsTimes == [i \in DOMAIN disk.gps |-> NearestNanosecond(disk.gps[i])]
PoseTimes == [i \in DOMAIN disk.poses |-> disk.poses[i] * Microsecond]

\* However the bytes came in and whoever wrote to the files meanwhile, a scan in
\* the summary measures exactly the bytes read, to the nanosecond and without a
\* wrap; both programs refuse what is not a scan and nothing else, but that the
\* inspector bounds the number of scans, and refuses rows out of order or out of
\* range and those that overlap no scan (_records, scan_lidar_frame,
\* consume_lidar_records, inspect_trajectory, checked_add).
InspectionIsExact ==
    /\ \A m \in DOMAIN scanned :
         IsScan(m, scanned[m].content) /\ Measures(scanned[m].summary, m, scanned[m].content)
    /\ reading \in {"gps", "poses", "accepted"} => DOMAIN scanned = DOMAIN disk.scans
    /\ reading = "accepted" /\ program = "inspector" =>
         /\ TimesInOrder(GpsTimes) /\ TimesInOrder(PoseTimes)
         /\ \E i \in DOMAIN GpsTimes : OverlapsScans(GpsTimes[i])
         /\ rows.matches = Cardinality({i \in DOMAIN PoseTimes :
                                          \E m \in DOMAIN scanned : PoseTimes[i] = m * Microsecond})
    /\ reading = "refused" /\ changes = 0 =>
         \/ NotListed \/ \E m \in DOMAIN disk.scans : ~IsScan(m, disk.scans[m])
         \/ program = "inspector"
            /\ (~TimesInOrder(GpsTimes) \/ ~TimesInOrder(PoseTimes) \/ \A i \in DOMAIN GpsTimes : ~OverlapsScans(GpsTimes[i]))
=============================================================================
