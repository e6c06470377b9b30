------------------------- MODULE TelemetryArchive_proofs -------------------------
(***************************************************************************)
(* What TelemetryArchive promises for any readings, accounts, months,      *)
(* chunk sizes and faults: its types, however many passes overlap; and     *)
(* with one pass at a time, that a verified part is what its object holds  *)
(* and that no reading is lost.                                            *)
(*                                                                         *)
(* The inductive invariant adds to the checked ones where the rows of a    *)
(* part come from (Sourced), that a part counts its rows (Counted), and    *)
(* what a pass has in hand (InHand).                                       *)
(***************************************************************************)
EXTENDS TelemetryArchive, FiniteSetTheorems, TLAPS

--------------------------------------------------------------------------------
(* Types. *)

\* A pass that is not under way is of the type of passes.
LEMMA IdleType == Idle \in PassState /\ NoCounts \in [Tenants -> Nat]
  <1>1. 0 \in Months
    BY BoundsAssumption DEF Months
  <1>2. (CHOOSE t \in Tenants : TRUE) \in Tenants
    BY ReadingsAssumption
  <1>3. NoCounts \in [Tenants -> Nat]
    BY DEF NoCounts
  <1> QED
    BY <1>1, <1>2, <1>3 DEF Idle, PassState, Where, NoFile

\* Every set of rows is finite, and counts.
LEMMA RowsFinite ==
  ASSUME TypeOK, NEW m, NEW t
  PROVE  /\ Rows(m, t) \in SUBSET Readings
         /\ IsFiniteSet(Rows(m, t))
         /\ Cardinality(Rows(m, t)) \in Nat
  <1>1. Rows(m, t) \in SUBSET Readings
    BY DEF TypeOK, Rows
  <1>2. IsFiniteSet(Rows(m, t))
    BY <1>1, ReadingsAssumption, FS_Subset
  <1> QED
    BY <1>1, <1>2, FS_CardinalityType

\* Any readings can be counted.
LEMMA ReadingsFinite ==
  ASSUME NEW S \in SUBSET Readings
  PROVE  IsFiniteSet(S) /\ Cardinality(S) \in Nat
  BY ReadingsAssumption, FS_Subset, FS_CardinalityType

\* A reading's month and account are among those modelled.
LEMMA PlaceOfReading ==
  ASSUME NEW r \in Readings
  PROVE  MonthOf[r] \in Months /\ TenantOf[r] \in Tenants /\ MonthOf[r] \in Nat
  BY ReadingsAssumption DEF Months

\* A pass whose month fails keeps its type, and so does every other.
LEMMA MonthFailsType ==
  ASSUME TypeOK, NEW p \in Passes, MonthFails(p)
  PROVE  pass' \in [Passes -> PassState]
  <1>1. pass[p].months \in SUBSET Months /\ pass \in [Passes -> PassState]
    BY DEF TypeOK, PassState
  <1>2. [Idle EXCEPT !.at = "month", !.months = pass[p].months] \in PassState
    BY <1>1, IdleType DEF PassState, Where
  <1> QED
    BY <1>1, <1>2 DEF MonthFails

\* A fault that happens leaves its budget a natural number.
LEMMA SpendType ==
  ASSUME TypeOK, NEW f \in Faults, Spend(f)
  PROVE  left' \in [Faults -> Nat]
  <1>1. left \in [Faults -> Nat] /\ left[f] \in Nat
    BY DEF TypeOK
  <1>2. left[f] - 1 \in Nat
    BY <1>1 DEF Spend
  <1> QED
    BY <1>1, <1>2 DEF Spend

\* A part that is stamped verified is a part, and the others are as they were.
LEMMA StampedParts ==
  ASSUME NEW parts \in Seq(Part), NEW i \in Nat
  PROVE  /\ Stamped(parts, i) \in Seq(Part)
         /\ DOMAIN Stamped(parts, i) = DOMAIN parts
         /\ Len(Stamped(parts, i)) = Len(parts)
         /\ \A j \in DOMAIN parts :
                /\ Stamped(parts, i)[j].row_count = parts[j].row_count
                /\ Stamped(parts, i)[j].checksum = parts[j].checksum
                /\ Stamped(parts, i)[j].verified <=> (parts[j].verified \/ j = i)
  <1>1. DOMAIN parts = 1 .. Len(parts) /\ \A j \in 1 .. Len(parts) : parts[j] \in Part
    OBVIOUS
  <1>2. Stamped(parts, i) =
          [j \in 1 .. Len(parts) |-> [parts[j] EXCEPT !.verified = parts[j].verified \/ j = i]]
    BY <1>1 DEF Stamped
  <1>3. ASSUME NEW j \in 1 .. Len(parts)
        PROVE  /\ Stamped(parts, i)[j] \in Part
               /\ Stamped(parts, i)[j].row_count = parts[j].row_count
               /\ Stamped(parts, i)[j].checksum = parts[j].checksum
               /\ Stamped(parts, i)[j].verified <=> (parts[j].verified \/ j = i)
    <2>1. parts[j] \in Part
      BY <1>1
    <2>2. Stamped(parts, i)[j] = [parts[j] EXCEPT !.verified = parts[j].verified \/ j = i]
      BY <1>2
    <2>3. (parts[j].verified \/ j = i) \in BOOLEAN
      OBVIOUS
    <2> QED
      BY <2>1, <2>2, <2>3 DEF Part
  <1>4. Stamped(parts, i) \in Seq(Part) /\ Len(Stamped(parts, i)) = Len(parts)
    BY <1>2, <1>3
  <1> QED
    BY <1>1, <1>2, <1>3, <1>4

\* A pass that records, reads back or stamps a part has stored its object.
Stored == \A p \in Passes : pass[p].at \in {"save", "get", "stamp"} => Key(p) \in DOMAIN bucket

\* Everything but the passes and the clock, where a step changes no data.
LEMMA SameData ==
  ASSUME TypeOK, UNCHANGED data, now' \in 0 .. Horizon, pass' \in [Passes -> PassState],
         left' \in [Faults -> Nat]
  PROVE  TypeOK'
  BY DEF TypeOK, data

\* The first state has its types: the upcoming partitions, no archive, no pass.
LEMMA InitTypeOK == Init => TypeOK
  <1> SUFFICES ASSUME Init PROVE TypeOK
    OBVIOUS
  <1> USE BoundsAssumption
  <1>1. now \in 0 .. Horizon /\ partitions \subseteq Months
    BY DEF Init, Months
  <1>2. archive \in [Months \X Tenants -> Seq(Part)]
    BY DEF Init
  <1>3. pass \in [Passes -> PassState]
    BY IdleType DEF Init
  <1>4. DOMAIN bucket = {}
    BY DEF Init
  <1> QED
    BY <1>1, <1>2, <1>3, <1>4 DEF Init, TypeOK

\* Every step keeps the types, whatever other passes are doing.
LEMMA NextTypeOK ==
  ASSUME TypeOK, Stored, [Next]_vars
  PROVE  TypeOK'
  <1> USE ReadingsAssumption, BoundsAssumption
  <1>1. CASE Tick
    <2>1. now' \in 0 .. Horizon
      BY <1>1 DEF Tick, TypeOK
    <2> QED
      BY <1>1, <2>1, SameData DEF Tick, TypeOK
  <1>2. CASE EnsureUpcoming
    BY <1>2 DEF EnsureUpcoming, TypeOK
  <1>3. ASSUME NEW r \in Readings, Ingest(r) PROVE TypeOK'
    <2>1. left' \in [Faults -> Nat]
      BY <1>3, SpendType DEF Ingest, Faults
    <2>2. partitions' \subseteq Months /\ partitions \subseteq partitions' /\ MonthOf[r] \in partitions'
      BY <1>3, PlaceOfReading DEF Ingest, Ensured, TypeOK
    <2>3. /\ table' = table \cup {r} /\ received' = received \cup {r}
          /\ UNCHANGED <<now, archive, bucket, dropped, pass>>
      BY <1>3 DEF Ingest
    <2> QED
      BY <2>1, <2>2, <2>3 DEF TypeOK
  <1>4. ASSUME NEW p \in Passes, PassStep(p) PROVE TypeOK'
    <2> DEFINE k == <<pass[p].month, pass[p].tenant>>
    <2>0. /\ pass \in [Passes -> PassState] /\ pass[p] \in PassState
          /\ k \in Months \X Tenants /\ archive[k] \in Seq(Part)
          /\ archive \in [Months \X Tenants -> Seq(Part)]
      BY DEF TypeOK, PassState
    <2>1. CASE Start(p)
      <3>1. pass' \in [Passes -> PassState]
        BY <2>0, <2>1 DEF Start, Eligible, PassState, Where, TypeOK
      <3> QED
        BY <2>1, <3>1, SameData DEF Start, TypeOK
    <2>2. CASE Finish(p)
      <3>1. pass' \in [Passes -> PassState]
        BY <2>0, <2>2, IdleType DEF Finish
      <3> QED
        BY <2>2, <3>1, SameData DEF Finish, TypeOK
    <2>3. CASE CountRows(p)
      <3>1. PICK m \in pass[p].months :
               pass' = [pass EXCEPT ![p].at = "tenant", ![p].months = @ \ {m}, ![p].month = m,
                                 ![p].counts = [t \in Tenants |-> Cardinality(Rows(m, t))]]
        BY <2>3 DEF CountRows
      <3>2. [t \in Tenants |-> Cardinality(Rows(m, t))] \in [Tenants -> Nat]
        BY RowsFinite
      <3>3. m \in Months
        BY <2>0 DEF PassState
      <3>4. pass' \in [Passes -> PassState]
        BY <2>0, <3>1, <3>2, <3>3 DEF PassState, Where
      <3> QED
        BY <2>3, <3>4, SameData DEF CountRows, TypeOK
    <2>4. CASE TakeTenant(p)
      <3>1. pass' \in [Passes -> PassState]
        <4>1. PICK t \in Tenants :
                LET parts == archive[<<pass[p].month, t>>]
                IN  IF Archived(parts, pass[p].counts[t])
                    THEN pass' = [pass EXCEPT ![p].counts[t] = 0]
                    ELSE pass' = [pass EXCEPT ![p].at = "read", ![p].counts[t] = 0, ![p].tenant = t,
                                              ![p].part = NextPart(parts), ![p].rows = {}]
          BY <2>4 DEF TakeTenant
        <4>2. archive[<<pass[p].month, t>>] \in Seq(Part)
          BY <2>0 DEF PassState
        <4>3. NextPart(archive[<<pass[p].month, t>>]) \in Nat
          BY <4>2 DEF NextPart
        <4>4. [pass[p].counts EXCEPT ![t] = 0] \in [Tenants -> Nat]
          BY <2>0 DEF PassState
        <4>5. CASE pass' = [pass EXCEPT ![p].counts[t] = 0]
          <5>1. pass' = [pass EXCEPT ![p] = [pass[p] EXCEPT !.counts = [pass[p].counts EXCEPT ![t] = 0]]]
            BY <4>5
          <5>2. [pass[p] EXCEPT !.counts = [pass[p].counts EXCEPT ![t] = 0]] \in PassState
            BY <2>0, <4>4 DEF PassState
          <5> QED
            BY <2>0, <5>1, <5>2
        <4>6. CASE pass' = [pass EXCEPT ![p].at = "read", ![p].counts[t] = 0, ![p].tenant = t,
                               ![p].part = NextPart(archive[<<pass[p].month, t>>]), ![p].rows = {}]
          <5> DEFINE q == [pass[p] EXCEPT !.at = "read", !.counts = [pass[p].counts EXCEPT ![t] = 0],
                             !.tenant = t, !.part = NextPart(archive[<<pass[p].month, t>>]), !.rows = {}]
          <5>1. pass' = [pass EXCEPT ![p] = q]
            BY <2>0, <4>6 DEF PassState
          <5>2. q \in PassState
            BY <2>0, <4>3, <4>4 DEF PassState, Where
          <5> HIDE DEF q
          <5> QED
            BY <2>0, <5>1, <5>2
        <4> QED
          BY <4>1, <4>5, <4>6
      <3> QED
        BY <2>4, <3>1, SameData DEF TakeTenant, TypeOK
    <2>5. CASE ReadChunk(p)
      <3>1. PICK c \in SUBSET Behind(p) :
               pass' = [pass EXCEPT ![p].rows = @ \cup c,
                                    ![p].at = IF Cardinality(c) < CHUNK THEN "put" ELSE @]
        BY <2>5 DEF ReadChunk
      <3>2. c \subseteq Readings
        BY RowsFinite DEF Behind
      <3>3. pass' \in [Passes -> PassState]
        BY <2>0, <3>1, <3>2 DEF PassState, Where
      <3> QED
        BY <2>5, <3>3, SameData DEF ReadChunk, TypeOK
    <2>6. CASE Put(p)
      <3>1. pass' \in [Passes -> PassState]
        BY <2>0, <2>6 DEF Put, Store, PassState, Where
      <3>2. pass[p].rows \in SUBSET Readings /\ Key(p) \in Months \X Tenants \X Nat
        BY <2>0 DEF PassState, Key
      <3> QED
        BY <2>6, <3>1, <3>2 DEF Put, Store, TypeOK
    <2>7. CASE Save(p)
      <3>1. CASE pass[p].part > Len(archive[k])
        <4>1. Record(pass[p].rows) \in Part
          BY <2>0, ReadingsFinite DEF Record, Part, PassState
        <4>a. /\ archive' = [archive EXCEPT ![k] = Append(archive[k], Record(pass[p].rows))]
              /\ pass' = [pass EXCEPT ![p].at = "get"]
          BY <2>7, <3>1 DEF Save
        <4>b. Append(archive[k], Record(pass[p].rows)) \in Seq(Part)
          BY <2>0, <4>1
        <4>2. archive' \in [Months \X Tenants -> Seq(Part)]
          BY <2>0, <4>a, <4>b
        <4>3. pass' \in [Passes -> PassState]
          BY <2>0, <4>a DEF PassState, Where
        <4> QED
          BY <2>7, <4>2, <4>3 DEF Save, TypeOK
      <3>2. CASE ~(pass[p].part > Len(archive[k]))
        <4>1. MonthFails(p) /\ UNCHANGED archive
          BY <2>7, <3>2 DEF Save
        <4> QED
          BY <2>7, <4>1, MonthFailsType DEF Save, TypeOK
      <3> QED
        BY <3>1, <3>2
    <2>8. CASE Get(p)
      <3>1. bucket[Key(p)] \in SUBSET Readings
        BY <2>8 DEF Get, Stored, TypeOK
      <3>2. pass' \in [Passes -> PassState]
        BY <2>0, <2>8, <3>1 DEF Get, PassState, Where
      <3> QED
        BY <2>8, <3>2, SameData DEF Get, TypeOK
    <2>9. CASE Stamp(p)
      <3>1. CASE Matches(archive[k][pass[p].part], pass[p].got)
        <4>1. archive' = [archive EXCEPT ![k] = Stamped(archive[k], pass[p].part)]
          BY <2>9, <3>1 DEF Stamp
        <4>2. Stamped(archive[k], pass[p].part) \in Seq(Part)
          BY <2>0, StampedParts DEF PassState
        <4>3. archive' \in [Months \X Tenants -> Seq(Part)]
          BY <2>0, <4>1, <4>2
        <4>5. pass' = [pass EXCEPT ![p].at = "tenant", ![p].part = 0,
                                   ![p].rows = {}, ![p].got = {}]
          BY <2>9, <3>1 DEF Stamp, NoFile
        <4>4. pass' \in [Passes -> PassState]
          BY <2>0, <4>5 DEF PassState, Where
        <4> QED
          BY <2>9, <4>3, <4>4 DEF Stamp, TypeOK
      <3>2. CASE ~Matches(archive[k][pass[p].part], pass[p].got)
        <4>1. MonthFails(p) /\ UNCHANGED archive
          BY <2>9, <3>2 DEF Stamp
        <4> QED
          BY <2>9, <4>1, MonthFailsType DEF Stamp, TypeOK
      <3> QED
        BY <3>1, <3>2
    <2>10. CASE Drop(p)
      <3>1. pass' \in [Passes -> PassState]
        BY <2>10, MonthFailsType DEF Drop
      <3> DEFINE m == pass[p].month
      <3>2. m \in Months
        BY <2>0 DEF PassState
      <3>3. \/ UNCHANGED <<table, partitions, dropped>>
            \/ /\ table' = {r \in table : MonthOf[r] # m}
               /\ partitions' = partitions \ {m}
               /\ dropped' = dropped \cup {m}
        BY <2>10 DEF Drop
      <3>4. UNCHANGED <<now, received, archive, bucket, left>>
        BY <2>10 DEF Drop
      <3>5. CASE UNCHANGED <<table, partitions, dropped>>
        BY <3>1, <3>4, <3>5 DEF TypeOK
      <3>6. CASE /\ table' = {r \in table : MonthOf[r] # m}
                 /\ partitions' = partitions \ {m}
                 /\ dropped' = dropped \cup {m}
        BY <3>1, <3>2, <3>4, <3>6 DEF TypeOK
      <3> QED
        BY <3>3, <3>5, <3>6
    <2> QED
      BY <1>4, <2>1, <2>2, <2>3, <2>4, <2>5, <2>6, <2>7, <2>8, <2>9, <2>10 DEF PassStep
  <1>5. ASSUME NEW p \in Passes, PutTruncated(p) PROVE TypeOK'
    <2>1. PICK r \in pass[p].rows : Store(p, pass[p].rows \ {r})
      BY <1>5 DEF PutTruncated
    <2>2. left' \in [Faults -> Nat]
      BY <1>5, SpendType DEF PutTruncated, Faults
    <2>3. pass[p] \in PassState /\ pass \in [Passes -> PassState]
      BY DEF TypeOK
    <2>4. pass' \in [Passes -> PassState]
      BY <2>1, <2>3 DEF Store, PassState, Where
    <2>5. pass[p].rows \ {r} \in SUBSET Readings /\ Key(p) \in Months \X Tenants \X Nat
      BY <2>3 DEF PassState, Key
    <2> QED
      BY <2>1, <2>2, <2>4, <2>5 DEF Store, TypeOK
  <1>6. ASSUME NEW p \in Passes, PutFails(p) \/ GetFails(p) PROVE TypeOK'
    <2>1. Spend("storage") /\ MonthFails(p) /\ UNCHANGED <<now, data>>
      BY <1>6 DEF PutFails, GetFails
    <2>2. left' \in [Faults -> Nat]
      BY <2>1, SpendType DEF Faults
    <2> QED
      BY <2>1, <2>2, MonthFailsType, SameData DEF TypeOK
  <1>7. ASSUME NEW p \in Passes, Crash(p) PROVE TypeOK'
    <2>1. left' \in [Faults -> Nat]
      BY <1>7, SpendType DEF Crash, Faults
    <2>2. pass' \in [Passes -> PassState]
      BY <1>7, IdleType DEF Crash, TypeOK
    <2> QED
      BY <1>7, <2>1, <2>2, SameData DEF Crash, TypeOK
  <1>8. CASE UNCHANGED vars
    BY <1>8 DEF vars, TypeOK
  <1>9. CASE Next
    <2>1. CASE \E r \in Readings : Ingest(r)
      BY <1>3, <2>1
    <2>2. CASE \E p \in Passes : PassStep(p) \/ PutTruncated(p) \/ PutFails(p) \/ GetFails(p) \/ Crash(p)
      BY <1>4, <1>5, <1>6, <1>7, <2>2
    <2> QED
      BY <1>1, <1>2, <1>9, <2>1, <2>2 DEF Next
  <1> QED
    BY <1>8, <1>9

\* A pass keeps the key of the object it stored until its part is stamped, and
\* no step of another pass takes an object out of the bucket.
LEMMA NextStored ==
  ASSUME TypeOK, Stored, [Next]_vars
  PROVE  Stored'
  <1> DEFINE St(q) == pass[q].at \in {"save", "get", "stamp"} => Key(q) \in DOMAIN bucket
  <1>1. \A q \in Passes : St(q)
    BY DEF Stored
  <1>2. pass \in [Passes -> PassState]
    BY DEF TypeOK
  <1>3. SUFFICES ASSUME NEW q \in Passes PROVE St(q)'
    BY DEF Stored
  <1>4. ASSUME UNCHANGED <<bucket, pass>> PROVE St(q)'
    BY <1>1, <1>4 DEF Key
  <1>5. ASSUME NEW p \in Passes, UNCHANGED bucket, pass' = [pass EXCEPT ![p] = pass'[p]],
               pass'[p].at \in {"save", "get", "stamp"} =>
                  /\ pass[p].at \in {"save", "get", "stamp"}
                  /\ Key(p)' = Key(p)
        PROVE  St(q)'
    <2>1. CASE q = p
      BY <1>1, <1>5, <2>1
    <2>2. CASE q # p
      BY <1>1, <1>2, <1>5, <2>2 DEF Key
    <2> QED
      BY <2>1, <2>2
  <1>6. ASSUME NEW p \in Passes, UNCHANGED bucket, MonthFails(p) PROVE St(q)'
    <2>1. pass'[p] = [Idle EXCEPT !.at = "month", !.months = pass[p].months]
      BY <1>2, <1>6 DEF MonthFails
    <2>2. pass'[p].at = "month" /\ pass' = [pass EXCEPT ![p] = pass'[p]]
      BY <1>2, <1>6, <2>1 DEF MonthFails, Idle
    <2> QED
      BY <1>5, <1>6, <2>2
  <1>7. ASSUME NEW p \in Passes, NEW rows, Store(p, rows) PROVE St(q)'
    <2>1. /\ pass' = [pass EXCEPT ![p].at = "save"]
          /\ DOMAIN bucket' = DOMAIN bucket \cup {Key(p)}
      BY <1>7 DEF Store
    <2>2. CASE q = p
      BY <1>2, <2>1, <2>2 DEF Key, PassState
    <2>3. CASE q # p
      BY <1>1, <1>2, <2>1, <2>3 DEF Key
    <2> QED
      BY <2>2, <2>3
  <1>8. ASSUME NEW p \in Passes, PassStep(p) PROVE St(q)'
    <2>1. CASE Start(p) \/ CountRows(p) \/ TakeTenant(p) \/ ReadChunk(p)
      <3>1. UNCHANGED bucket
        BY <2>1 DEF Start, CountRows, TakeTenant, ReadChunk, data
      <3>2. pass[p].at \notin {"save", "get", "stamp"} /\ pass[p] \in PassState
        BY <1>2, <2>1 DEF Start, CountRows, TakeTenant, ReadChunk
      <3>3. pass' = [pass EXCEPT ![p] = pass'[p]] /\ pass'[p].at \notin {"save", "get", "stamp"}
        <4>1. CASE Start(p)
          BY <1>2, <3>2, <4>1 DEF Start, PassState
        <4>2. CASE CountRows(p)
          BY <1>2, <3>2, <4>2 DEF CountRows, PassState
        <4>3. CASE TakeTenant(p)
          BY <1>2, <3>2, <4>3 DEF TakeTenant, PassState
        <4>4. CASE ReadChunk(p)
          BY <1>2, <3>2, <4>4 DEF ReadChunk, PassState
        <4> QED
          BY <2>1, <4>1, <4>2, <4>3, <4>4
      <3> QED
        BY <1>5, <3>1, <3>3
    <2>2. CASE Finish(p)
      <3>1. pass' = [pass EXCEPT ![p] = Idle] /\ UNCHANGED bucket
        BY <2>2 DEF Finish, data
      <3>2. pass'[p] = Idle /\ pass'[p].at = "idle"
        BY <1>2, <3>1 DEF Idle
      <3> QED
        BY <1>5, <3>1, <3>2
    <2>3. CASE Put(p)
      BY <1>7, <2>3 DEF Put
    <2>4. CASE Save(p)
      <3>1. UNCHANGED bucket /\ pass[p].at = "save"
        BY <2>4 DEF Save
      <3>2. CASE pass' = [pass EXCEPT ![p].at = "get"]
        <4>1. pass'[p] = [pass[p] EXCEPT !.at = "get"]
          BY <1>2, <3>2
        <4>2. Key(p)' = Key(p) /\ pass' = [pass EXCEPT ![p] = pass'[p]]
          BY <1>2, <3>2, <4>1 DEF Key, PassState
        <4> QED
          BY <1>5, <3>1, <4>2
      <3>3. CASE MonthFails(p)
        BY <1>6, <3>1, <3>3
      <3> QED
        BY <2>4, <3>2, <3>3 DEF Save
    <2>5. CASE Get(p)
      <3>1. UNCHANGED bucket /\ pass[p].at = "get"
        BY <2>5 DEF Get, data
      <3>2. pass' = [pass EXCEPT ![p].at = "stamp", ![p].got = bucket[Key(p)]]
        BY <2>5 DEF Get
      <3>3. pass'[p] = [pass[p] EXCEPT !.at = "stamp", !.got = bucket[Key(p)]]
        BY <1>2, <3>2 DEF PassState
      <3>4. Key(p)' = Key(p)
        BY <1>2, <3>3 DEF Key, PassState
      <3>5. pass' = [pass EXCEPT ![p] = [pass[p] EXCEPT !.at = "stamp", !.got = bucket[Key(p)]]]
        BY <1>2, <3>2 DEF PassState
      <3>6. pass' = [pass EXCEPT ![p] = pass'[p]]
        BY <1>2, <3>3, <3>5
      <3> QED
        BY <1>5, <3>1, <3>4, <3>6
    <2>6. CASE Stamp(p)
      <3>1. UNCHANGED bucket
        BY <2>6 DEF Stamp
      <3>2. CASE pass' = [pass EXCEPT ![p].at = "tenant", ![p].part = 0,
                                      ![p].rows = {}, ![p].got = {}]
        <4>1. pass'[p].at = "tenant" /\ pass' = [pass EXCEPT ![p] = pass'[p]]
          BY <1>2, <3>2 DEF PassState
        <4> QED
          BY <1>5, <3>1, <4>1
      <3>3. CASE MonthFails(p)
        BY <1>6, <3>1, <3>3
      <3> QED
        BY <2>6, <3>2, <3>3 DEF Stamp, NoFile
    <2>7. CASE Drop(p)
      BY <1>6, <2>7 DEF Drop
    <2> QED
      BY <1>8, <2>1, <2>2, <2>3, <2>4, <2>5, <2>6, <2>7 DEF PassStep
  <1>9. ASSUME NEW p \in Passes, PutTruncated(p) \/ PutFails(p) \/ GetFails(p) \/ Crash(p) PROVE St(q)'
    <2>1. CASE PutTruncated(p)
      <3>1. PICK r \in pass[p].rows : Store(p, pass[p].rows \ {r})
        BY <2>1 DEF PutTruncated
      <3> QED
        BY <1>7, <3>1
    <2>2. CASE PutFails(p) \/ GetFails(p)
      BY <1>6, <2>2 DEF PutFails, GetFails, data
    <2>3. CASE Crash(p)
      <3>1. pass' = [pass EXCEPT ![p] = Idle] /\ UNCHANGED bucket
        BY <2>3 DEF Crash, data
      <3>2. pass'[p] = Idle /\ pass'[p].at = "idle"
        BY <1>2, <3>1 DEF Idle
      <3> QED
        BY <1>5, <3>1, <3>2
    <2> QED
      BY <1>9, <2>1, <2>2, <2>3
  <1>10. CASE Tick \/ EnsureUpcoming \/ (\E r \in Readings : Ingest(r)) \/ UNCHANGED vars
    BY <1>4, <1>10 DEF Tick, EnsureUpcoming, Ingest, vars, data
  <1> QED
    BY <1>8, <1>9, <1>10 DEF Next

\* The types of everything hold whatever the number of passes that overlap.
THEOREM TypeCorrect == Spec => []TypeOK
  <1>1. Init => TypeOK /\ Stored
    <2> SUFFICES ASSUME Init PROVE TypeOK /\ Stored
      OBVIOUS
    <2>1. \A p \in Passes : pass[p].at = "idle"
      BY DEF Init, Idle
    <2> QED
      BY <2>1, InitTypeOK DEF Stored
  <1>2. TypeOK /\ Stored /\ [Next]_vars => TypeOK' /\ Stored'
    BY NextTypeOK, NextStored
  <1> QED
    BY <1>1, <1>2, PTL DEF Spec

--------------------------------------------------------------------------------
(* With one pass at a time: a verified part is what its object holds, and no  *)
(* reading is lost.                                                           *)

\* No two passes are under way at once: what the scheduler's flag gives, as
\* long as nobody asks for a run besides it and there is one instance.
OnePass == \A p, q \in Passes : p = q

\* A part says how many rows its checksum is taken over.
Counted ==
  \A k \in Months \X Tenants : \A i \in DOMAIN archive[k] :
     archive[k][i].row_count = Cardinality(archive[k][i].checksum)

\* Until its month is dropped, a part was taken from rows still in the table.
Sourced ==
  \A m \in Months, t \in Tenants : m \notin dropped =>
     \A i \in DOMAIN archive[<<m, t>>] : archive[<<m, t>>][i].checksum \subseteq Rows(m, t)

\* What a pass has in hand: the next part, rows of its month, a part it saved,
\* and what the bucket held when it read it back.
Parts(p) == archive[<<pass[p].month, pass[p].tenant>>]

InHand(p) ==
  /\ pass[p].at \in {"read", "put", "save"} =>
        /\ pass[p].part = Len(Parts(p)) + 1
        /\ pass[p].month \notin dropped =>
              pass[p].rows \subseteq Rows(pass[p].month, pass[p].tenant)
  /\ pass[p].at \in {"get", "stamp"} => pass[p].part \in DOMAIN Parts(p)
  /\ pass[p].at = "stamp" => pass[p].got = bucket[Key(p)]

Held == \A p \in Passes : InHand(p)

Inv == TypeOK /\ Stored /\ Counted /\ Sourced /\ Held /\ VerifiedIsTrue /\ NothingLost

\* A pass that is between parts has nothing in hand.
LEMMA NothingInHand ==
  ASSUME NEW p, pass[p].at \in {"idle", "month", "tenant"}
  PROVE  InHand(p)
  BY DEF InHand

\* Nothing was received, archived or dropped yet.
LEMMA InitInv == Init => Counted /\ Sourced /\ Held /\ VerifiedIsTrue /\ NothingLost
  <1> SUFFICES ASSUME Init PROVE Counted /\ Sourced /\ Held /\ VerifiedIsTrue /\ NothingLost
    OBVIOUS
  <1>1. \A k \in Months \X Tenants : DOMAIN archive[k] = {}
    BY DEF Init
  <1>2. \A p \in Passes : pass[p].at = "idle"
    BY DEF Init, Idle
  <1>3. Held
    BY <1>2, NothingInHand DEF Held
  <1>4. NothingLost
    BY DEF Init, NothingLost
  <1> QED
    BY <1>1, <1>3, <1>4 DEF Counted, Sourced, VerifiedIsTrue

\* Steps that change no row, part or object leave all but what is in hand alone.
LEMMA SameRows ==
  ASSUME Inv, UNCHANGED <<table, received, archive, bucket, dropped>>
  PROVE  Counted' /\ Sourced' /\ VerifiedIsTrue' /\ NothingLost'
  <1>1. \A m, t : Rows(m, t)' = Rows(m, t)
    BY DEF Rows
  <1>2. \A r : Kept(r)' <=> Kept(r)
    BY DEF Kept
  <1> QED
    BY <1>1, <1>2 DEF Inv, Counted, Sourced, VerifiedIsTrue, NothingLost, Matches

\* A month whose drop was proved has every one of its rows in a verified object.
LEMMA DropKeeps ==
  ASSUME Inv, NEW m \in Months, m \notin dropped, Proved(m),
         NEW r \in table, MonthOf[r] = m
  PROVE  Kept(r)
  <1> DEFINE t == TenantOf[r]
             parts == archive[<<m, t>>]
  <1>1. r \in Readings /\ t \in Tenants
    BY PlaceOfReading DEF Inv, TypeOK
  <1>2. r \in Rows(m, t)
    BY DEF Rows
  <1>3. PICK i \in DOMAIN parts : parts[i].verified /\ parts[i].row_count = Cardinality(Rows(m, t))
    BY <1>1, <1>2 DEF Proved, ProvedBy
  <1>4. /\ <<m, t, i>> \in DOMAIN bucket
        /\ parts[i].checksum = bucket[<<m, t, i>>]
    BY <1>1, <1>3 DEF Inv, VerifiedIsTrue, Matches
  <1>5. parts[i].row_count = Cardinality(parts[i].checksum)
    <2>1. <<m, t>> \in Months \X Tenants
      BY <1>1
    <2> QED
      BY <2>1 DEF Inv, Counted
  <1>6. parts[i].checksum \subseteq Rows(m, t)
    BY <1>1 DEF Inv, Sourced
  <1>7. parts[i].checksum = Rows(m, t)
    BY <1>3, <1>5, <1>6, RowsFinite, FS_Subset DEF Inv
  <1> QED
    BY <1>2, <1>3, <1>4, <1>7 DEF Kept

\* An object is stored under a key that no recorded part has.
LEMMA StoreSafe ==
  ASSUME OnePass, Inv, NEW p \in Passes, NEW rows, Store(p, rows)
  PROVE  Counted' /\ Sourced' /\ Held' /\ VerifiedIsTrue' /\ NothingLost'
  <1>1. /\ pass' = [pass EXCEPT ![p].at = "save"] /\ pass[p].at = "put"
        /\ bucket' = [k \in DOMAIN bucket \cup {Key(p)} |-> IF k = Key(p) THEN rows ELSE bucket[k]]
        /\ UNCHANGED <<table, received, archive, dropped>>
    BY DEF Store
  <1>2. /\ pass \in [Passes -> PassState] /\ pass[p] \in PassState
        /\ archive \in [Months \X Tenants -> Seq(Part)]
    BY DEF Inv, TypeOK
  <1>3. \A m, t : Rows(m, t)' = Rows(m, t)
    BY <1>1 DEF Rows
  <1>4. pass[p].part = Len(Parts(p)) + 1 /\ pass[p].part \notin DOMAIN Parts(p)
    <2>1. pass[p].part = Len(Parts(p)) + 1
      BY <1>1 DEF Inv, Held, InHand
    <2>2. Parts(p) \in Seq(Part)
      BY <1>2 DEF Parts, PassState
    <2> QED
      BY <2>1, <2>2
  <1>5. \A m, t : \A i \in DOMAIN archive[<<m, t>>] : <<m, t, i>> # Key(p)
    BY <1>4 DEF Key, Parts
  <1>6. \A m, t : \A i \in DOMAIN archive[<<m, t>>] : <<m, t, i>> \in DOMAIN bucket =>
           <<m, t, i>> \in DOMAIN bucket' /\ bucket'[<<m, t, i>>] = bucket[<<m, t, i>>]
    BY <1>1, <1>5
  <1>7. Counted' /\ Sourced'
    BY <1>1, <1>3 DEF Inv, Counted, Sourced
  <1>8. Held'
    <2>1. pass'[p] = [pass[p] EXCEPT !.at = "save"]
      BY <1>1, <1>2
    <2>2. /\ pass'[p].at = "save" /\ pass'[p].part = pass[p].part
          /\ pass'[p].month = pass[p].month /\ pass'[p].tenant = pass[p].tenant
          /\ pass'[p].rows = pass[p].rows
      BY <1>2, <2>1 DEF PassState
    <2>3. InHand(p)
      BY DEF Inv, Held
    <2>4. InHand(p)'
      BY <1>1, <1>3, <2>2, <2>3 DEF InHand, Parts
    <2> QED
      BY <2>4 DEF Held, OnePass
  <1>9. VerifiedIsTrue'
    BY <1>1, <1>6 DEF Inv, VerifiedIsTrue, Matches
  <1>10. NothingLost'
    <2>1. \A r : Kept(r) => Kept(r)'
      BY <1>1, <1>6 DEF Kept
    <2> QED
      BY <1>1, <2>1 DEF Inv, NothingLost
  <1> QED
    BY <1>7, <1>8, <1>9, <1>10

\* A part is recorded behind the ones there are, unverified.
LEMMA SaveSafe ==
  ASSUME OnePass, Inv, NEW p \in Passes, Save(p)
  PROVE  Counted' /\ Sourced' /\ Held' /\ VerifiedIsTrue' /\ NothingLost'
  <1> DEFINE k == <<pass[p].month, pass[p].tenant>>
             part == Record(pass[p].rows)
  <1>1. /\ pass \in [Passes -> PassState] /\ pass[p] \in PassState
        /\ archive \in [Months \X Tenants -> Seq(Part)]
        /\ k \in Months \X Tenants /\ archive[k] \in Seq(Part)
    BY DEF Inv, TypeOK, PassState
  <1>2. /\ pass[p].at = "save" /\ pass[p].part = Len(archive[k]) + 1
        /\ pass[p].month \notin dropped =>
              pass[p].rows \subseteq Rows(pass[p].month, pass[p].tenant)
    BY DEF Save, Inv, Held, InHand, Parts
  <1>3. pass[p].part > Len(archive[k])
    BY <1>1, <1>2
  <1>4. /\ archive' = [archive EXCEPT ![k] = Append(archive[k], part)]
        /\ pass' = [pass EXCEPT ![p].at = "get"]
        /\ UNCHANGED <<table, received, bucket, dropped>>
    BY <1>3 DEF Save
  <1>5. /\ part.verified = FALSE /\ part.checksum = pass[p].rows
        /\ part.row_count = Cardinality(part.checksum)
    BY DEF Record
  <1>6. part \in Part
    BY <1>1, ReadingsFinite DEF Record, Part, PassState
  <1>7. /\ DOMAIN archive'[k] = DOMAIN archive[k] \cup {Len(archive[k]) + 1}
        /\ \A i \in DOMAIN archive[k] : archive'[k][i] = archive[k][i]
        /\ archive'[k][Len(archive[k]) + 1] = part
    <2>1. archive'[k] = Append(archive[k], part)
      BY <1>1, <1>4
    <2> HIDE DEF part, k
    <2> QED
      BY <1>1, <1>6, <2>1
  <1>8. \A j \in Months \X Tenants : j # k => archive'[j] = archive[j]
    BY <1>1, <1>4
  <1>9. \A j \in Months \X Tenants : \A i \in DOMAIN archive'[j] :
           \/ i \in DOMAIN archive[j] /\ archive'[j][i] = archive[j][i]
           \/ j = k /\ archive'[j][i] = part
    BY <1>7, <1>8
  <1>10. \A j \in Months \X Tenants : \A i \in DOMAIN archive[j] :
           i \in DOMAIN archive'[j] /\ archive'[j][i] = archive[j][i]
    BY <1>7, <1>8
  <1>11. \A m, t : Rows(m, t)' = Rows(m, t)
    BY <1>4 DEF Rows
  <1> HIDE DEF part
  <1>12. Counted'
    BY <1>5, <1>9 DEF Inv, Counted
  <1>13. Sourced'
    <2> SUFFICES ASSUME NEW m \in Months, NEW t \in Tenants, m \notin dropped',
                        NEW i \in DOMAIN archive'[<<m, t>>]
                 PROVE  archive'[<<m, t>>][i].checksum \subseteq Rows(m, t)'
      BY DEF Sourced
    <2>1. <<m, t>> \in Months \X Tenants
      OBVIOUS
    <2>2. CASE i \in DOMAIN archive[<<m, t>>] /\ archive'[<<m, t>>][i] = archive[<<m, t>>][i]
      BY <1>4, <1>11, <2>2 DEF Inv, Sourced
    <2>3. CASE <<m, t>> = k /\ archive'[<<m, t>>][i] = part
      BY <1>2, <1>4, <1>5, <1>11, <2>3
    <2> QED
      BY <1>9, <2>1, <2>2, <2>3
  <1>14. Held'
    <2>1. pass'[p] = [pass[p] EXCEPT !.at = "get"]
      BY <1>1, <1>4
    <2>2. /\ pass'[p].at = "get" /\ pass'[p].part = pass[p].part
          /\ pass'[p].month = pass[p].month /\ pass'[p].tenant = pass[p].tenant
      BY <1>1, <2>1 DEF PassState
    <2>3. InHand(p)'
      BY <1>2, <1>7, <2>2 DEF InHand, Parts
    <2> QED
      BY <2>3 DEF Held, OnePass
  <1>15. VerifiedIsTrue'
    <2> SUFFICES ASSUME NEW m \in Months, NEW t \in Tenants, NEW i \in DOMAIN archive'[<<m, t>>],
                        archive'[<<m, t>>][i].verified
                 PROVE  <<m, t, i>> \in DOMAIN bucket' /\
                        Matches(archive'[<<m, t>>][i], bucket'[<<m, t, i>>])
      BY DEF VerifiedIsTrue, Matches
    <2>1. <<m, t>> \in Months \X Tenants
      OBVIOUS
    <2>2. i \in DOMAIN archive[<<m, t>>] /\ archive'[<<m, t>>][i] = archive[<<m, t>>][i]
      BY <1>5, <1>9, <2>1
    <2> QED
      BY <1>4, <2>2 DEF Inv, VerifiedIsTrue
  <1>16. NothingLost'
    <2>1. ASSUME NEW r \in received, Kept(r) PROVE Kept(r)'
      <3>1. <<MonthOf[r], TenantOf[r]>> \in Months \X Tenants
        BY PlaceOfReading DEF Inv, TypeOK
      <3> QED
        BY <1>4, <1>10, <2>1, <3>1 DEF Kept
    <2> QED
      BY <1>4, <2>1 DEF Inv, NothingLost
  <1> QED
    BY <1>12, <1>13, <1>14, <1>15, <1>16

\* A part is stamped only when its object was just read back and matched.
LEMMA StampSafe ==
  ASSUME OnePass, Inv, NEW p \in Passes, Stamp(p)
  PROVE  Counted' /\ Sourced' /\ Held' /\ VerifiedIsTrue' /\ NothingLost'
  <1> DEFINE k == <<pass[p].month, pass[p].tenant>>
             n == pass[p].part
  <1>1. /\ pass \in [Passes -> PassState] /\ pass[p] \in PassState
        /\ archive \in [Months \X Tenants -> Seq(Part)]
        /\ k \in Months \X Tenants /\ archive[k] \in Seq(Part) /\ n \in Nat
    BY DEF Inv, TypeOK, PassState
  <1>2. /\ pass[p].at = "stamp" /\ pass[p].got = bucket[Key(p)] /\ Key(p) \in DOMAIN bucket
    BY DEF Stamp, Inv, Held, InHand, Stored
  <1>3. UNCHANGED <<table, received, bucket, dropped>>
    BY DEF Stamp
  <1>4. CASE Matches(archive[k][n], pass[p].got)
    <2>1. /\ archive' = [archive EXCEPT ![k] = Stamped(archive[k], n)]
          /\ pass' = [pass EXCEPT ![p].at = "tenant", ![p].part = 0,
                                  ![p].rows = {}, ![p].got = {}]
      BY <1>4 DEF Stamp, NoFile
    <2>2. pass'[p].at = "tenant"
      BY <1>1, <2>1 DEF PassState
    <2>3. \A j \in Months \X Tenants : DOMAIN archive'[j] = DOMAIN archive[j]
      <3>1. DOMAIN Stamped(archive[k], n) = DOMAIN archive[k]
        BY <1>1, StampedParts
      <3>2. archive'[k] = Stamped(archive[k], n)
        BY <1>1, <2>1
      <3>3. \A j \in Months \X Tenants : j # k => archive'[j] = archive[j]
        BY <1>1, <2>1
      <3> QED
        BY <3>1, <3>2, <3>3
    <2>4. \A j \in Months \X Tenants : \A i \in DOMAIN archive[j] :
             /\ archive'[j][i].row_count = archive[j][i].row_count
             /\ archive'[j][i].checksum = archive[j][i].checksum
             /\ archive[j][i].verified => archive'[j][i].verified
             /\ archive'[j][i].verified => archive[j][i].verified \/ (j = k /\ i = n)
      <3> SUFFICES ASSUME NEW j \in Months \X Tenants, NEW i \in DOMAIN archive[j]
                   PROVE  /\ archive'[j][i].row_count = archive[j][i].row_count
                          /\ archive'[j][i].checksum = archive[j][i].checksum
                          /\ archive[j][i].verified => archive'[j][i].verified
                          /\ archive'[j][i].verified => archive[j][i].verified \/ (j = k /\ i = n)
        OBVIOUS
      <3>1. CASE j = k
        <4>1. archive'[j] = Stamped(archive[k], n)
          BY <1>1, <2>1, <3>1
        <4> HIDE DEF k, n
        <4> QED
          BY <1>1, <3>1, <4>1, StampedParts
      <3>2. CASE j # k
        BY <1>1, <2>1, <3>2
      <3> QED
        BY <3>1, <3>2
    <2>5. \A m, t : Rows(m, t)' = Rows(m, t)
      BY <1>3 DEF Rows
    <2>6. Counted'
      BY <2>3, <2>4 DEF Inv, Counted
    <2>7. Sourced'
      <3> SUFFICES ASSUME NEW m \in Months, NEW t \in Tenants, m \notin dropped',
                          NEW i \in DOMAIN archive'[<<m, t>>]
                   PROVE  archive'[<<m, t>>][i].checksum \subseteq Rows(m, t)'
        BY DEF Sourced
      <3>1. <<m, t>> \in Months \X Tenants
        OBVIOUS
      <3> QED
        BY <1>3, <2>3, <2>4, <2>5, <3>1 DEF Inv, Sourced
    <2>8. Held'
      <3>1. InHand(p)'
        BY <2>2 DEF InHand
      <3> QED
        BY <3>1 DEF Held, OnePass
    <2>9. VerifiedIsTrue'
      <3> SUFFICES ASSUME NEW m \in Months, NEW t \in Tenants, NEW i \in DOMAIN archive'[<<m, t>>],
                          archive'[<<m, t>>][i].verified
                   PROVE  <<m, t, i>> \in DOMAIN bucket' /\
                          Matches(archive'[<<m, t>>][i], bucket'[<<m, t, i>>])
        BY DEF VerifiedIsTrue, Matches
      <3>1. <<m, t>> \in Months \X Tenants /\ i \in DOMAIN archive[<<m, t>>]
        BY <2>3
      <3>2. CASE archive[<<m, t>>][i].verified
        BY <1>3, <2>4, <3>1, <3>2 DEF Inv, VerifiedIsTrue, Matches
      <3>3. CASE <<m, t>> = k /\ i = n
        <4>1. Key(p) = <<m, t, i>>
          BY <3>3 DEF Key
        <4>2. Matches(archive[<<m, t>>][i], bucket[<<m, t, i>>]) /\ <<m, t, i>> \in DOMAIN bucket
          BY <1>2, <1>4, <3>3, <4>1
        <4> QED
          BY <1>3, <2>4, <3>1, <4>2 DEF Matches
      <3> QED
        BY <2>4, <3>1, <3>2, <3>3
    <2>10. NothingLost'
      <3>1. ASSUME NEW r \in received, Kept(r) PROVE Kept(r)'
        <4>1. <<MonthOf[r], TenantOf[r]>> \in Months \X Tenants
          BY PlaceOfReading DEF Inv, TypeOK
        <4> QED
          BY <1>3, <2>3, <2>4, <3>1, <4>1 DEF Kept
      <3> QED
        BY <1>3, <3>1 DEF Inv, NothingLost
    <2> QED
      BY <2>6, <2>7, <2>8, <2>9, <2>10
  <1>5. CASE ~Matches(archive[k][n], pass[p].got)
    <2>1. MonthFails(p) /\ UNCHANGED archive
      BY <1>5 DEF Stamp
    <2>2. pass'[p] = [Idle EXCEPT !.at = "month", !.months = pass[p].months]
      BY <1>1, <2>1 DEF MonthFails
    <2>3. pass'[p].at = "month"
      BY <2>2 DEF Idle
    <2>4. Held'
      BY <2>3, NothingInHand DEF Held, OnePass, InHand
    <2> QED
      BY <1>3, <2>1, <2>4, SameRows
  <1> QED
    BY <1>4, <1>5

\* The rows of a month leave the table only when each is in a verified object.
LEMMA DropSafe ==
  ASSUME OnePass, Inv, NEW p \in Passes, Drop(p)
  PROVE  Counted' /\ Sourced' /\ Held' /\ VerifiedIsTrue' /\ NothingLost'
  <1> DEFINE m == pass[p].month
  <1>1. /\ pass \in [Passes -> PassState] /\ pass[p] \in PassState /\ m \in Months
    BY DEF Inv, TypeOK, PassState
  <1>2. UNCHANGED <<received, archive, bucket>> /\ MonthFails(p)
    BY DEF Drop
  <1>3. pass'[p].at = "month"
    <2>1. pass'[p] = [Idle EXCEPT !.at = "month", !.months = pass[p].months]
      BY <1>1, <1>2 DEF MonthFails
    <2> QED
      BY <2>1 DEF Idle
  <1>4. Held'
    <2>1. InHand(p)'
      BY <1>3 DEF InHand
    <2> QED
      BY <2>1 DEF Held, OnePass
  <1>5. CASE m \in partitions /\ Proved(m) /\ NotLogged(m)
    <2>1. table' = {r \in table : MonthOf[r] # m} /\ dropped' = dropped \cup {m}
      BY <1>5 DEF Drop
    <2>2. Counted' /\ VerifiedIsTrue'
      BY <1>2 DEF Inv, Counted, VerifiedIsTrue, Matches
    <2>3. \A o \in Months : \A t : o \notin dropped' => Rows(o, t)' = Rows(o, t)
      BY <2>1 DEF Rows
    <2>4. Sourced'
      BY <1>2, <2>1, <2>3 DEF Inv, Sourced
    <2>5. ASSUME NEW r \in received PROVE r \in table' \/ Kept(r)
      <3>1. CASE r \in table /\ MonthOf[r] = m
        BY <1>1, <1>5, <3>1, DropKeeps DEF NotLogged
      <3>2. CASE r \in table /\ MonthOf[r] # m
        BY <2>1, <3>2
      <3>3. CASE r \notin table
        BY <3>3 DEF Inv, NothingLost
      <3> QED
        BY <3>1, <3>2, <3>3
    <2>6. \A r : Kept(r)' <=> Kept(r)
      BY <1>2 DEF Kept
    <2>7. NothingLost'
      BY <1>2, <2>5, <2>6 DEF NothingLost
    <2> QED
      BY <1>4, <2>2, <2>4, <2>7
  <1>6. CASE ~(m \in partitions /\ Proved(m) /\ NotLogged(m))
    <2>1. UNCHANGED <<table, dropped>>
      BY <1>6 DEF Drop
    <2> QED
      BY <1>2, <1>4, <2>1, SameRows
  <1> QED
    BY <1>5, <1>6

\* A reading that arrives only adds to the table.
LEMMA IngestSafe ==
  ASSUME Inv, NEW r \in Readings, Ingest(r)
  PROVE  Counted' /\ Sourced' /\ Held' /\ VerifiedIsTrue' /\ NothingLost'
  <1>1. /\ table' = table \cup {r} /\ received' = received \cup {r}
        /\ UNCHANGED <<archive, bucket, dropped, pass>>
    BY DEF Ingest
  <1>2. \A m, t : Rows(m, t) \subseteq Rows(m, t)'
    BY <1>1 DEF Rows
  <1>3. Counted' /\ VerifiedIsTrue'
    BY <1>1 DEF Inv, Counted, VerifiedIsTrue, Matches
  <1>4. Sourced'
    <2> SUFFICES ASSUME NEW m \in Months, NEW t \in Tenants, m \notin dropped,
                        NEW i \in DOMAIN archive[<<m, t>>]
                 PROVE  archive[<<m, t>>][i].checksum \subseteq Rows(m, t)'
      BY <1>1 DEF Sourced
    <2>1. archive[<<m, t>>][i].checksum \subseteq Rows(m, t)
      BY DEF Inv, Sourced
    <2> QED
      BY <1>2, <2>1
  <1>5. Held'
    <2> SUFFICES ASSUME NEW p \in Passes PROVE InHand(p)'
      BY DEF Held
    <2>1. InHand(p)
      BY DEF Inv, Held
    <2> QED
      BY <1>1, <1>2, <2>1 DEF InHand, Parts, Key
  <1>6. NothingLost'
    <2>1. \A s : Kept(s)' <=> Kept(s)
      BY <1>1 DEF Kept
    <2> QED
      BY <1>1, <2>1 DEF Inv, NothingLost
  <1> QED
    BY <1>3, <1>4, <1>5, <1>6

\* The steps of a pass that change nothing but the pass.
LEMMA PassSafe ==
  ASSUME OnePass, Inv, NEW p \in Passes, UNCHANGED data,
         pass'[p].at \in {"idle", "month", "tenant"} \/ InHand(p)'
  PROVE  Counted' /\ Sourced' /\ Held' /\ VerifiedIsTrue' /\ NothingLost'
  <1>1. InHand(p)'
    BY DEF InHand
  <1>2. Held'
    BY <1>1 DEF Held, OnePass
  <1> QED
    BY <1>2, SameRows DEF data

\* An account is taken up at its next part, with no rows yet.
LEMMA TakeTenantSafe ==
  ASSUME OnePass, Inv, NEW p \in Passes, TakeTenant(p)
  PROVE  Counted' /\ Sourced' /\ Held' /\ VerifiedIsTrue' /\ NothingLost'
  <1>1. pass \in [Passes -> PassState] /\ pass[p] \in PassState /\ UNCHANGED data
    BY DEF Inv, TypeOK, TakeTenant
  <1>2. PICK t \in Tenants :
          LET parts == archive[<<pass[p].month, t>>]
          IN  IF Archived(parts, pass[p].counts[t])
              THEN pass' = [pass EXCEPT ![p].counts[t] = 0]
              ELSE pass' = [pass EXCEPT ![p].at = "read", ![p].counts[t] = 0, ![p].tenant = t,
                                        ![p].part = NextPart(parts), ![p].rows = {}]
    BY DEF TakeTenant
  <1>3. CASE pass' = [pass EXCEPT ![p].counts[t] = 0]
    <2>1. pass'[p].at = "tenant"
      BY <1>1, <1>3 DEF TakeTenant, PassState
    <2> QED
      BY <1>1, <2>1, PassSafe
  <1>4. CASE pass' = [pass EXCEPT ![p].at = "read", ![p].counts[t] = 0, ![p].tenant = t,
                         ![p].part = NextPart(archive[<<pass[p].month, t>>]), ![p].rows = {}]
    <2>1. pass'[p] = [pass[p] EXCEPT !.at = "read", !.counts = [pass[p].counts EXCEPT ![t] = 0],
                         !.tenant = t, !.part = NextPart(archive[<<pass[p].month, t>>]), !.rows = {}]
      BY <1>1, <1>4 DEF PassState
    <2>2. /\ pass'[p].at = "read" /\ pass'[p].tenant = t /\ pass'[p].month = pass[p].month
          /\ pass'[p].part = Len(archive[<<pass[p].month, t>>]) + 1 /\ pass'[p].rows = {}
      BY <1>1, <2>1 DEF PassState, NextPart
    <2>3. InHand(p)'
      BY <1>1, <2>2 DEF InHand, Parts, data
    <2> QED
      BY <1>1, <2>3, PassSafe
  <1> QED
    BY <1>2, <1>3, <1>4

\* What a query reads is of the month and the account.
LEMMA ReadChunkSafe ==
  ASSUME OnePass, Inv, NEW p \in Passes, ReadChunk(p)
  PROVE  Counted' /\ Sourced' /\ Held' /\ VerifiedIsTrue' /\ NothingLost'
  <1>1. pass \in [Passes -> PassState] /\ pass[p] \in PassState /\ UNCHANGED data
    BY DEF Inv, TypeOK, ReadChunk
  <1>2. PICK c \in SUBSET Behind(p) :
          pass' = [pass EXCEPT ![p].rows = @ \cup c,
                               ![p].at = IF Cardinality(c) < CHUNK THEN "put" ELSE @]
    BY DEF ReadChunk
  <1>3. pass'[p] = [pass[p] EXCEPT !.rows = pass[p].rows \cup c,
                                   !.at = IF Cardinality(c) < CHUNK THEN "put" ELSE pass[p].at]
    BY <1>1, <1>2 DEF PassState
  <1>4. /\ pass'[p].at \in {"read", "put"} /\ pass'[p].part = pass[p].part
        /\ pass'[p].month = pass[p].month /\ pass'[p].tenant = pass[p].tenant
        /\ pass'[p].rows = pass[p].rows \cup c
    BY <1>1, <1>3 DEF PassState, ReadChunk
  <1>5. c \subseteq Rows(pass[p].month, pass[p].tenant)
    BY DEF Behind
  <1>6. InHand(p) /\ pass[p].at = "read"
    BY DEF Inv, Held, ReadChunk
  <1>7. \A m, t : Rows(m, t)' = Rows(m, t)
    BY <1>1 DEF Rows, data
  <1>8. InHand(p)'
    BY <1>1, <1>4, <1>5, <1>6, <1>7 DEF InHand, Parts, data
  <1> QED
    BY <1>1, <1>8, PassSafe

\* What is read back is what the bucket holds.
LEMMA GetSafe ==
  ASSUME OnePass, Inv, NEW p \in Passes, Get(p)
  PROVE  Counted' /\ Sourced' /\ Held' /\ VerifiedIsTrue' /\ NothingLost'
  <1>1. pass \in [Passes -> PassState] /\ pass[p] \in PassState /\ UNCHANGED data
    BY DEF Inv, TypeOK, Get
  <1>2. pass' = [pass EXCEPT ![p].at = "stamp", ![p].got = bucket[Key(p)]]
    BY DEF Get
  <1>3. pass'[p] = [pass[p] EXCEPT !.at = "stamp", !.got = bucket[Key(p)]]
    BY <1>1, <1>2 DEF PassState
  <1>4. /\ pass'[p].at = "stamp" /\ pass'[p].part = pass[p].part
        /\ pass'[p].month = pass[p].month /\ pass'[p].tenant = pass[p].tenant
        /\ pass'[p].got = bucket[Key(p)]
    BY <1>1, <1>3 DEF PassState
  <1>5. InHand(p) /\ pass[p].at = "get"
    BY DEF Inv, Held, Get
  <1>6. InHand(p)'
    BY <1>1, <1>4, <1>5 DEF InHand, Parts, Key, data
  <1> QED
    BY <1>1, <1>6, PassSafe

\* Every step of one pass, beside readings that arrive and months that turn,
\* keeps the invariant.
LEMMA NextSafe ==
  ASSUME OnePass, Inv, [Next]_vars
  PROVE  Counted' /\ Sourced' /\ Held' /\ VerifiedIsTrue' /\ NothingLost'
  <1> DEFINE Safe == Counted' /\ Sourced' /\ Held' /\ VerifiedIsTrue' /\ NothingLost'
  <1>1. pass \in [Passes -> PassState]
    BY DEF Inv, TypeOK
  <1>2. ASSUME NEW p \in Passes, UNCHANGED data, MonthFails(p) \/ pass' = [pass EXCEPT ![p] = Idle]
        PROVE  Safe
    <2>1. pass'[p].at \in {"idle", "month"}
      <3>1. CASE MonthFails(p)
        <4>1. pass'[p] = [Idle EXCEPT !.at = "month", !.months = pass[p].months]
          BY <1>1, <3>1 DEF MonthFails
        <4> QED
          BY <4>1 DEF Idle
      <3>2. CASE pass' = [pass EXCEPT ![p] = Idle]
        <4>1. pass'[p] = Idle
          BY <1>1, <3>2
        <4> QED
          BY <4>1 DEF Idle
      <3> QED
        BY <1>2, <3>1, <3>2
    <2> QED
      BY <1>2, <2>1, PassSafe
  <1>3. ASSUME NEW p \in Passes, PassStep(p) PROVE Safe
    <2>1. CASE Start(p)
      <3>1. pass'[p].at = "month" /\ UNCHANGED data
        BY <1>1, <2>1 DEF Start, PassState
      <3> QED
        BY <3>1, PassSafe
    <2>2. CASE Finish(p)
      BY <1>2, <2>2 DEF Finish
    <2>3. CASE CountRows(p)
      <3>1. pass'[p].at = "tenant" /\ UNCHANGED data
        BY <1>1, <2>3 DEF CountRows, PassState
      <3> QED
        BY <3>1, PassSafe
    <2> QED
      BY <1>3, <2>1, <2>2, <2>3, TakeTenantSafe, ReadChunkSafe, GetSafe, SaveSafe, StampSafe,
         DropSafe, StoreSafe DEF PassStep, Put
  <1>4. ASSUME NEW p \in Passes, PutTruncated(p) \/ PutFails(p) \/ GetFails(p) \/ Crash(p) PROVE Safe
    <2>1. CASE PutTruncated(p)
      <3>1. PICK r \in pass[p].rows : Store(p, pass[p].rows \ {r})
        BY <2>1 DEF PutTruncated
      <3> QED
        BY <3>1, StoreSafe
    <2>2. CASE PutFails(p) \/ GetFails(p) \/ Crash(p)
      BY <1>2, <2>2 DEF PutFails, GetFails, Crash
    <2> QED
      BY <1>4, <2>1, <2>2
  <1>5. CASE Tick \/ EnsureUpcoming \/ UNCHANGED vars
    <2>1. UNCHANGED <<table, received, archive, bucket, dropped, pass>>
      BY <1>5 DEF Tick, EnsureUpcoming, vars, data
    <2>2. \A m, t : Rows(m, t)' = Rows(m, t)
      BY <2>1 DEF Rows
    <2>3. Held'
      BY <2>1, <2>2 DEF Inv, Held, InHand, Parts, Key
    <2> QED
      BY <2>1, <2>3, SameRows
  <1>6. CASE \E r \in Readings : Ingest(r)
    BY <1>6, IngestSafe
  <1> QED
    BY <1>3, <1>4, <1>5, <1>6 DEF Next

\* With one pass at a time the inductive invariant holds in every reachable state.
LEMMA Invariance == OnePass => (Spec => []Inv)
  <1> SUFFICES ASSUME OnePass PROVE Spec => []Inv
    OBVIOUS
  <1>1. Init => Inv
    <2> SUFFICES ASSUME Init PROVE Inv
      OBVIOUS
    <2>1. Stored
      BY DEF Init, Idle, Stored
    <2> QED
      BY <2>1, InitTypeOK, InitInv DEF Inv
  <1>2. Inv /\ [Next]_vars => Inv'
    BY NextTypeOK, NextStored, NextSafe DEF Inv
  <1> QED
    BY <1>1, <1>2, PTL DEF Spec

\* With one pass at a time a verified part is what its object holds, for ever,
\* whatever fails, crashes or arrives in between (exportTenantMonth).
THEOREM VerifiedForEver == OnePass => (Spec => []VerifiedIsTrue)
  <1>1. Inv => VerifiedIsTrue
    BY DEF Inv
  <1> QED
    BY <1>1, Invariance, PTL

\* With one pass at a time no accepted reading is lost: a month is dropped only
\* when every row of it is in an object that was read back
\* (drop_archived_telemetry_partition).
THEOREM NoReadingLost == OnePass => (Spec => []NothingLost)
  <1>1. Inv => NothingLost
    BY DEF Inv
  <1> QED
    BY <1>1, Invariance, PTL
================================================================================
