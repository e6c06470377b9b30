---------------------------- MODULE TelemetryArchive ----------------------------
(* Raw readings and where they are kept: ingest into monthly partitions       *)
(* (telemetry.service.ts), the maintenance that builds partitions ahead       *)
(* (telemetry-partition-maintenance.service.ts), and the pass that exports a  *)
(* month past its hot days, reads the object back, and asks the database to   *)
(* drop the partition (telemetry-archive.service.ts and the function          *)
(* drop_archived_telemetry_partition of 1760300000000-TelemetryArchive).      *)
(*                                                                            *)
(* Time is a month number.  A reading is a natural number: its place in the   *)
(* keyset order (source_timestamp, id).  The checksum of an export is the set *)
(* of readings it is taken over.  Nothing keeps two passes apart but a flag   *)
(* in one process, which POST platform/telemetry-archives/run does not look   *)
(* at: Passes are the passes that may be under way at once.                   *)
EXTENDS Naturals, Sequences, FiniteSets

CONSTANTS
    Readings,   \* the readings loggers may send, natural numbers
    Tenants,
    MonthOf,    \* [Readings -> Nat], from source_timestamp
    TenantOf,   \* [Readings -> Tenants], what the sensor map says of the logger
    Passes,
    Hot,        \* HOT_DAYS, in whole months
    Ahead,      \* MAINTENANCE_HORIZON_MONTHS
    Backfill,   \* MAX_BACKFILL_MONTHS
    CHUNK,      \* rows one query of the export reads
    Horizon,    \* bound: the last month reached
    Budget      \* bound: how often each of Faults may happen

Faults == {"arrival", "storage", "crash"}

ASSUME ReadingsAssumption == /\ Tenants # {}
                             /\ Readings \subseteq Nat
                             /\ IsFiniteSet(Readings)
                             /\ MonthOf \in [Readings -> Nat]
                             /\ TenantOf \in [Readings -> Tenants]
ASSUME BoundsAssumption == /\ Hot \in Nat /\ Ahead \in Nat /\ Backfill \in Nat
                           /\ Horizon \in Nat /\ CHUNK \in Nat \ {0}
                           /\ Budget \in [Faults -> Nat]

Months == (0 .. Horizon + Ahead) \cup {MonthOf[r] : r \in Readings}

VARIABLES
    now,        \* the current month
    partitions, \* the months telemetry_reading has a partition for
    table,      \* the rows of telemetry_reading
    received,   \* every reading ingest ever accepted
    archive,    \* telemetry_archive: the parts of a month and account, in order
    bucket,     \* the object store: the rows in the file under each key
    dropped,    \* the months in telemetry_partition_drop
    pass,       \* what each pass is at, and what it holds
    left        \* how often each fault may still happen

vars == <<now, partitions, table, received, archive, bucket, dropped, pass, left>>
data == <<partitions, table, received, archive, bucket, dropped>>

Rows(m, t) == {r \in table : MonthOf[r] = m /\ TenantOf[r] = t}

Where == {"idle", "month", "tenant", "read", "put", "save", "get", "stamp"}
NoFile == {}

\* A pass: the months still to do, the one it is at, the rows it counted for
\* the accounts still to do, the account and part it is at, the rows it read
\* from the table, and what it read back from the bucket.
PassState == [at : Where, months : SUBSET Months, month : Months,
              counts : [Tenants -> Nat], tenant : Tenants, part : Nat,
              rows : SUBSET Readings, got : SUBSET Readings]

NoCounts == [t \in Tenants |-> 0]

\* A pass that is not under way.
Idle == [at |-> "idle", months |-> {}, month |-> 0, counts |-> NoCounts,
         tenant |-> CHOOSE t \in Tenants : TRUE, part |-> 0, rows |-> {}, got |-> NoFile]

Part == [row_count : Nat, checksum : SUBSET Readings, verified : BOOLEAN]

\* One type invariant: the columns' types, and a row is in a partition.
TypeOK ==
    /\ now \in 0 .. Horizon
    /\ partitions \subseteq Months
    /\ table \subseteq received
    /\ received \subseteq Readings
    /\ \A r \in table : MonthOf[r] \in partitions
    /\ archive \in [Months \X Tenants -> Seq(Part)]
    /\ DOMAIN bucket \subseteq Months \X Tenants \X Nat
    /\ \A k \in DOMAIN bucket : bucket[k] \subseteq Readings
    /\ dropped \subseteq Months
    /\ pass \in [Passes -> PassState]
    /\ left \in [Faults -> Nat]

Init ==
    /\ now = 0
    /\ partitions = 0 .. Ahead
    /\ table = {}
    /\ received = {}
    /\ archive = [k \in Months \X Tenants |-> <<>>]
    /\ bucket = [k \in {} |-> {}]
    /\ dropped = {}
    /\ pass = [p \in Passes |-> Idle]
    /\ left = Budget

Spend(f) == left[f] > 0 /\ left' = [left EXCEPT ![f] = @ - 1]

----------------------------------------------------------------------------
(* Ingest and the partitions                                                *)

\* The month turns.
Tick == /\ now < Horizon
        /\ now' = now + 1
        /\ UNCHANGED <<data, pass, left>>

\* A reading from before this is refused rather than stored.
OldestAllowed == IF now > Backfill THEN now - Backfill ELSE 0

\* Ingest trusts the maintenance to have built the partition.
EnsuredAhead(r) == partitions

\* ensure_telemetry_partition, for the month of every row before the insert.
Ensured(r) == partitions \cup {MonthOf[r]}

\* A reading arrives, for the first time or again: the dedupe index knows
\* only the rows that are still in the table.
Ingest(r) ==
    /\ Spend("arrival")
    /\ MonthOf[r] >= OldestAllowed
    /\ r \notin table
    /\ partitions' = Ensured(r)
    /\ table' = table \cup {r}
    /\ received' = received \cup {r}
    /\ UNCHANGED <<now, archive, bucket, dropped, pass>>

\* The daily maintenance asserts that the next months exist.
EnsureUpcoming ==
    /\ partitions' = partitions \cup {m \in Months : now <= m /\ m < now + Ahead}
    /\ UNCHANGED <<now, table, received, archive, bucket, dropped, pass, left>>

----------------------------------------------------------------------------
(* The archive pass                                                         *)

\* Partitions whose whole month ended before the hot days.
Eligible == {m \in partitions : m + 1 + Hot <= now}

Start(p) ==
    /\ pass[p].at = "idle"
    /\ Eligible # {}
    /\ pass' = [pass EXCEPT ![p].at = "month", ![p].months = Eligible]
    /\ UNCHANGED <<now, data, left>>

Finish(p) ==
    /\ pass[p].at = "month"
    /\ pass[p].months = {}
    /\ pass' = [pass EXCEPT ![p] = Idle]
    /\ UNCHANGED <<now, data, left>>

\* The next month, oldest first: its rows are counted by account.
CountRows(p) ==
    /\ pass[p].at = "month"
    /\ \E m \in pass[p].months :
         /\ \A n \in pass[p].months : m <= n
         /\ pass' = [pass EXCEPT ![p].at = "tenant", ![p].months = @ \ {m}, ![p].month = m,
                                 ![p].counts = [t \in Tenants |-> Cardinality(Rows(m, t))]]
    /\ UNCHANGED <<now, data, left>>

\* What is left of the month fails; the next pass tries it again.
MonthFails(p) == pass' = [pass EXCEPT ![p] = [Idle EXCEPT !.at = "month", !.months = pass[p].months]]

\* A part that failed its verification counts as an archive.
ArchivedUnverified(parts, n) == parts # <<>> /\ parts[Len(parts)].row_count = n

\* The latest part is verified and holds as many rows as were counted.
Archived(parts, n) ==
    /\ parts # <<>>
    /\ parts[Len(parts)].verified
    /\ parts[Len(parts)].row_count = n

\* An export is retried under the part number of the last one.
SamePart(parts) == IF parts = <<>> THEN 1 ELSE Len(parts)

NextPart(parts) == Len(parts) + 1

\* One account of the month: left alone, or exported as the next part.
TakeTenant(p) ==
    /\ pass[p].at = "tenant"
    /\ \E t \in Tenants :
         /\ pass[p].counts[t] > 0
         /\ LET parts == archive[<<pass[p].month, t>>]
            IN  IF Archived(parts, pass[p].counts[t])
                THEN pass' = [pass EXCEPT ![p].counts[t] = 0]
                ELSE pass' = [pass EXCEPT ![p].at = "read", ![p].counts[t] = 0, ![p].tenant = t,
                                          ![p].part = NextPart(parts), ![p].rows = {}]
    /\ UNCHANGED <<now, data, left>>

\* The rows a query finds behind the cursor, at most CHUNK of them and the
\* oldest: each query sees the table as it is by then.
Chunk(found, c) ==
    /\ c = found \/ Cardinality(c) = CHUNK
    /\ Cardinality(c) <= CHUNK
    /\ \A r \in c, s \in found \ c : r < s

Behind(p) == {r \in Rows(pass[p].month, pass[p].tenant) : \A s \in pass[p].rows : s < r}

ReadChunk(p) ==
    /\ pass[p].at = "read"
    /\ \E c \in SUBSET Behind(p) :
         /\ Chunk(Behind(p), c)
         /\ pass' = [pass EXCEPT ![p].rows = @ \cup c,
                                 ![p].at = IF Cardinality(c) < CHUNK THEN "put" ELSE @]
    /\ UNCHANGED <<now, data, left>>

Key(p) == <<pass[p].month, pass[p].tenant, pass[p].part>>

\* The file goes to its key, over whatever is there.
Store(p, rows) ==
    /\ pass[p].at = "put"
    /\ bucket' = [k \in DOMAIN bucket \cup {Key(p)} |->
                     IF k = Key(p) THEN rows ELSE bucket[k]]
    /\ pass' = [pass EXCEPT ![p].at = "save"]
    /\ UNCHANGED <<now, partitions, table, received, archive, dropped>>

Put(p) == Store(p, pass[p].rows) /\ UNCHANGED left

\* The store keeps less than it was sent: what the verification is there for.
PutTruncated(p) ==
    /\ Spend("storage")
    /\ \E r \in pass[p].rows : Store(p, pass[p].rows \ {r})

\* The store refuses a write or a read.
PutFails(p) ==
    /\ pass[p].at = "put"
    /\ Spend("storage")
    /\ MonthFails(p)
    /\ UNCHANGED <<now, data>>

Record(rows) == [row_count |-> Cardinality(rows), checksum |-> rows, verified |-> FALSE]

\* The part is recorded, unverified; uq_telemetry_archive_part refuses a part
\* that another pass has recorded first.
Save(p) ==
    /\ pass[p].at = "save"
    /\ LET k == <<pass[p].month, pass[p].tenant>>
       IN  IF pass[p].part > Len(archive[k])
           THEN /\ archive' = [archive EXCEPT ![k] = Append(@, Record(pass[p].rows))]
                /\ pass' = [pass EXCEPT ![p].at = "get"]
           ELSE MonthFails(p) /\ UNCHANGED archive
    /\ UNCHANGED <<now, partitions, table, received, bucket, dropped, left>>

\* The object is read back.
Get(p) ==
    /\ pass[p].at = "get"
    /\ pass' = [pass EXCEPT ![p].at = "stamp", ![p].got = bucket[Key(p)]]
    /\ UNCHANGED <<now, data, left>>

GetFails(p) ==
    /\ pass[p].at = "get"
    /\ Spend("storage")
    /\ MonthFails(p)
    /\ UNCHANGED <<now, data>>

Matches(part, got) == part.row_count = Cardinality(got) /\ part.checksum = got

\* The parts with one of them stamped.
Stamped(parts, i) ==
    [j \in DOMAIN parts |-> [parts[j] EXCEPT !.verified = @ \/ j = i]]

\* The part is stamped verified, or the month fails.
Stamp(p) ==
    /\ pass[p].at = "stamp"
    /\ LET k == <<pass[p].month, pass[p].tenant>>
       IN  IF Matches(archive[k][pass[p].part], pass[p].got)
           THEN /\ archive' = [archive EXCEPT ![k] = Stamped(@, pass[p].part)]
                /\ pass' = [pass EXCEPT ![p].at = "tenant", ![p].part = 0,
                                        ![p].rows = {}, ![p].got = NoFile]
           ELSE MonthFails(p) /\ UNCHANGED archive
    /\ UNCHANGED <<now, partitions, table, received, bucket, dropped, left>>

\* The newest verified part of an account holds exactly that many rows.
ProvedBy(parts, n) ==
    \E i \in DOMAIN parts :
        /\ parts[i].verified
        /\ parts[i].row_count = n
        /\ \A j \in DOMAIN parts : parts[j].verified => j <= i

Proved(m) == \A t \in Tenants :
                 Rows(m, t) # {} => ProvedBy(archive[<<m, t>>], Cardinality(Rows(m, t)))

\* The log of drops without its primary key.
LoggedAgain(m) == TRUE

\* A partition is dropped under its name once: partition_name is the primary
\* key of the log, and the INSERT is part of the transaction.
NotLogged(m) == m \notin dropped

Drop(p) ==
    /\ pass[p].at = "tenant"
    /\ \A t \in Tenants : pass[p].counts[t] = 0
    /\ LET m == pass[p].month
       IN  IF m \in partitions /\ Proved(m) /\ NotLogged(m)
           THEN /\ table' = {r \in table : MonthOf[r] # m}
                /\ partitions' = partitions \ {m}
                /\ dropped' = dropped \cup {m}
           ELSE UNCHANGED <<table, partitions, dropped>>
    /\ MonthFails(p)
    /\ UNCHANGED <<now, received, archive, bucket, left>>

\* The process dies in mid-pass; what it wrote stays.
Crash(p) ==
    /\ pass[p].at # "idle"
    /\ Spend("crash")
    /\ pass' = [pass EXCEPT ![p] = Idle]
    /\ UNCHANGED <<now, data>>

PassStep(p) ==
    \/ Start(p) \/ Finish(p) \/ CountRows(p) \/ TakeTenant(p) \/ ReadChunk(p)
    \/ Put(p) \/ Save(p) \/ Get(p) \/ Stamp(p) \/ Drop(p)

Next ==
    \/ Tick \/ EnsureUpcoming
    \/ \E r \in Readings : Ingest(r)
    \/ \E p \in Passes : PassStep(p) \/ PutTruncated(p) \/ PutFails(p) \/ GetFails(p) \/ Crash(p)

Spec == Init /\ [][Next]_vars

\* The timer starts pass after pass, and a pass that is under way goes on.
FairSpec == Spec /\ WF_vars(Tick) /\ \A p \in Passes : WF_vars(PassStep(p))

----------------------------------------------------------------------------
(* Properties                                                               *)

\* In an object that a verified part describes.
Kept(r) ==
    \E i \in DOMAIN archive[<<MonthOf[r], TenantOf[r]>>] :
        /\ archive[<<MonthOf[r], TenantOf[r]>>][i].verified
        /\ <<MonthOf[r], TenantOf[r], i>> \in DOMAIN bucket
        /\ r \in bucket[<<MonthOf[r], TenantOf[r], i>>]

\* No reading that was accepted is ever lost: it is in the table, or in an
\* object of its month and account that was read back and recorded.  Late
\* readings, crashes between any two steps, and a month that is exported
\* again must not lose one (drop_archived_telemetry_partition, archiveMonth).
NothingLost == \A r \in received : r \in table \/ Kept(r)

\* A part recorded as verified is what its object holds, for ever: no later
\* export, of this pass or of the next after a crash, writes over the object
\* (exportTenantMonth's key and part).
VerifiedIsTrue ==
    \A m \in Months, t \in Tenants : \A i \in DOMAIN archive[<<m, t>>] :
        archive[<<m, t>>][i].verified =>
            /\ <<m, t, i>> \in DOMAIN bucket
            /\ Matches(archive[<<m, t>>][i], bucket[<<m, t, i>>])

\* The months that get past their hot days within the horizon.
AgeingMonths == {m \in Months : m + 1 + Hot <= Horizon}

\* A month past its hot days leaves the database in the end, whatever failed
\* on the way and however late its readings were (run: "the next pass tries
\* again").
OldMonthIsDropped ==
    \A m \in AgeingMonths : (m \in partitions /\ m + 1 + Hot <= now) ~> m \in dropped

\* What run's comment says of every month past the hot days, the ones a late
\* reading brought back after the drop included.
OldMonthStaysOut ==
    \A m \in AgeingMonths : (m \in partitions /\ m + 1 + Hot <= now) ~> m \notin partitions
================================================================================
