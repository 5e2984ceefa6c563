---------------------------- MODULE ReporterProofs --------------------------
(***************************************************************************)
(* Proofs about Reporter, for every set of schedules and rates, any number *)
(* of reports, and any of them lost.                                       *)
(***************************************************************************)
EXTENDS Reporter, Induction

-----------------------------------------------------------------------------
(* A snapshot, and what is remembered of it.                               *)
Row == [ts : Int, wtc : Int]

Taken == [row : Row, arrived : BOOLEAN]

(* The ring has the latest snapshots, the newest first; valid_count is the *)
(* number of them.                                                         *)
RingInv ==
    /\ taken \in Seq(Taken)
    /\ old \in [1 .. 3 -> Row]
    /\ valid_count = (IF Len(taken) < 3 THEN Len(taken) ELSE 3)
    /\ \A i \in 1 .. valid_count : old[i] = taken[(Len(taken) + 1) - i].row

(* Reports have brought what they held, and nothing else.                  *)
ReceivedInv == LossesAreMadeUpFor /\ OnlySnapshotsAreSent

(* The thread reckons from the last report, unless a jitter has come since.*)
TimesInv ==
    /\ now \in Int /\ current_unix_time \in Int /\ g_metrics \in Row
    /\ last_report_time \in Int /\ next_report_time \in Int /\ reported \in Int
    /\ report_jitter \in Int
    /\ current_schedule \in Schedules \cup {NULL}
    /\ ~rejittered => last_report_time = reported

IInv == RingInv /\ ReceivedInv /\ TimesInv

-----------------------------------------------------------------------------
LEMMA InitIInv == Init => IInv
<1> SUFFICES ASSUME Init
             PROVE  IInv
  OBVIOUS
<1> USE DEF Init, Zero, Row
<1>1. taken \in Seq(Taken) /\ Len(taken) = 0
  OBVIOUS
<1>2. RingInv
  BY <1>1 DEF RingInv
<1>3. ReceivedInv
  BY <1>1 DEF ReceivedInv, LossesAreMadeUpFor, OnlySnapshotsAreSent
<1>4. TimesInv
  <2>1. ~rejittered => last_report_time = reported
    OBVIOUS
  <2>2. g_metrics \in Row
    OBVIOUS
  <2>3. /\ now \in Int /\ current_unix_time \in Int /\ report_jitter \in Int
        /\ last_report_time \in Int /\ next_report_time \in Int /\ reported \in Int
        /\ current_schedule \in Schedules \cup {NULL}
    BY ReporterAssumption
  <2> HIDE DEF Init
  <2> QED
    BY <2>1, <2>2, <2>3 DEF TimesInv
<1> QED
  BY <1>2, <1>3, <1>4 DEF IInv

(* A report is put before the two rows that are kept, and brings all of    *)
(* them or none.                                                           *)
LEMMA ReportKeepsRing ==
    ASSUME IInv, BuildAndSend
    PROVE  RingInv' /\ ReceivedInv'
<1> DEFINE n == Len(taken)
<1> USE DEF IInv, RingInv
<1>1. Snapshot \in Row
  BY DEF TimesInv, Snapshot, Row
<1>2. PICK arrived \in BOOLEAN :
        /\ taken' = Append(taken, [row |-> Snapshot, arrived |-> arrived])
        /\ received' = received \cup (IF arrived THEN {old'[i] : i \in 1 .. valid_count'} ELSE {})
  BY DEF BuildAndSend
<1>3. /\ taken' \in Seq(Taken)
      /\ Len(taken') = n + 1 /\ n \in Nat
      /\ \A i \in 1 .. n : taken'[i] = taken[i]
      /\ taken'[n + 1] = [row |-> Snapshot, arrived |-> arrived]
  <2> DEFINE new == [row |-> Snapshot, arrived |-> arrived]
  <2>1. new \in Taken
    BY <1>1 DEF Taken
  <2> HIDE DEF new
  <2>2. /\ Append(taken, new) \in Seq(Taken)
        /\ Len(Append(taken, new)) = n + 1 /\ n \in Nat
        /\ \A i \in 1 .. n : Append(taken, new)[i] = taken[i]
        /\ Append(taken, new)[n + 1] = new
    BY <2>1
  <2>3. taken' = Append(taken, new)
    BY <1>2 DEF new
  <2> QED
    BY <2>2, <2>3 DEF new
<1>4. old' = <<Snapshot, old[1], old[2]>> /\ old' \in [1 .. 3 -> Row]
  BY <1>1 DEF BuildAndSend, Rotate
<1>5. valid_count' = IF n + 1 < 3 THEN n + 1 ELSE 3
  BY <1>3 DEF BuildAndSend, ValidCount
<1>6. \A i \in 1 .. valid_count' : old'[i] = taken'[(n + 2) - i].row
  <2> SUFFICES ASSUME NEW i \in 1 .. valid_count'
               PROVE  old'[i] = taken'[(n + 2) - i].row
    OBVIOUS
  <2>1. i \in 1 .. 3 /\ i <= n + 1 /\ (i # 1 => i - 1 \in 1 .. valid_count)
    BY <1>3, <1>5
  <2>2. CASE i = 1
    BY <1>3, <1>4, <2>2
  <2>3. CASE i # 1
    <3>1. old'[i] = old[i - 1]
      BY <1>4, <2>1, <2>3
    <3>2. old[i - 1] = taken[(n + 1) - (i - 1)].row
      BY <2>1, <2>3
    <3>3. (n + 1) - (i - 1) = (n + 2) - i /\ (n + 2) - i \in 1 .. n
      BY <1>3, <2>1, <2>3
    <3> QED
      BY <1>3, <3>1, <3>2, <3>3
  <2> QED
    BY <2>2, <2>3
<1>7. RingInv'
  BY <1>3, <1>4, <1>5, <1>6
<1>8. OnlySnapshotsAreSent'
  <2> SUFFICES ASSUME NEW row \in received'
               PROVE  \E i \in 1 .. n + 1 : row = taken'[i].row
    BY <1>3 DEF OnlySnapshotsAreSent
  <2>1. CASE row \in received
    <3>1. PICK i \in 1 .. n : row = taken[i].row
      BY <1>3, <2>1 DEF ReceivedInv, OnlySnapshotsAreSent
    <3> QED
      BY <1>3, <3>1
  <2>2. CASE row \notin received
    <3>1. PICK i \in 1 .. valid_count' : row = old'[i]
      BY <1>2, <2>2
    <3>2. (n + 2) - i \in 1 .. n + 1
      BY <1>3, <1>5
    <3> QED
      BY <1>6, <3>1, <3>2
  <2> QED
    BY <2>1, <2>2
<1>9. LossesAreMadeUpFor'
  <2> SUFFICES ASSUME NEW i \in 1 .. n + 1, NEW j \in 1 .. n + 1,
                      i <= j, j <= i + 2, taken'[j].arrived
               PROVE  taken'[i].row \in received'
    BY <1>3 DEF LossesAreMadeUpFor
  <2>1. CASE j <= n
    BY <1>2, <1>3, <2>1 DEF ReceivedInv, LossesAreMadeUpFor
  <2>2. CASE j = n + 1
    <3>1. arrived
      BY <1>3, <2>2
    <3>2. (n + 2) - i \in 1 .. valid_count'
      BY <1>3, <1>5, <2>2
    <3>3. old'[(n + 2) - i] = taken'[i].row
      BY <1>3, <1>6, <3>2
    <3> QED
      BY <1>2, <3>1, <3>2, <3>3
  <2> QED
    BY <1>3, <2>1, <2>2
<1> QED
  BY <1>7, <1>8, <1>9 DEF ReceivedInv

(* No other step touches the ring or brings a row.                         *)
LEMMA OthersKeepRing ==
    ASSUME IInv, UNCHANGED <<old, valid_count, taken, received>>
    PROVE  RingInv' /\ ReceivedInv'
BY DEF IInv, RingInv, ReceivedInv, LossesAreMadeUpFor, OnlySnapshotsAreSent

LEMMA NextIInv == IInv /\ [Next]_vars => IInv'
<1> SUFFICES ASSUME IInv, [Next]_vars
             PROVE  IInv'
  OBVIOUS
<1> USE ReporterAssumption
    DEF TimesInv, connection, request, schedule, metrics, history, thread
<1>0. TimesInv
  BY DEF IInv
<1>1. CASE Report
  <2>1. RingInv' /\ ReceivedInv'
    BY <1>1, ReportKeepsRing DEF Report
  <2>2. TimesInv'
    BY <1>0, <1>1 DEF Report, BuildAndSend, Snapshot, Row
  <2> QED
    BY <2>1, <2>2 DEF IInv
<1>2. CASE Start
  <2>1. TimesInv'
    BY <1>0, <1>2 DEF Start, CallFirewall, Row
  <2> QED
    BY <1>2, <2>1, OthersKeepRing DEF Start, IInv
<1>3. CASE Look
  <2>1. g_metrics' \in Row
    BY <1>0, <1>3 DEF Look, CallFirewall, Row
  <2>2. last_report_time' \in Int /\ report_jitter' \in Int
    BY <1>0, <1>3 DEF Look, Rejitter, Jitters, Rate
  <2>3. ~rejittered' => last_report_time' = reported'
    BY <1>0, <1>3 DEF Look
  <2>4. TimesInv'
    BY <1>0, <1>3, <2>1, <2>2, <2>3 DEF Look
  <2> QED
    BY <1>3, <2>4, OthersKeepRing DEF Look, IInv
<1>4. CASE Sleep
  <2>1. TimesInv'
    BY <1>0, <1>4 DEF Sleep, Rate
  <2> QED
    BY <1>4, <2>1, OthersKeepRing DEF Sleep, IInv
<1>5. CASE ReportWithoutId \/ NoReport
  <2>1. TimesInv'
    BY <1>0, <1>5 DEF ReportWithoutId, NoReport
  <2> QED
    BY <1>5, <2>1, OthersKeepRing DEF ReportWithoutId, NoReport, IInv
<1>6. CASE Main
  <2> USE DEF Main, Import, Receive, Swap, Connect, Retry, SetDeviceId, SetLibpd
  <2>1. TimesInv'
    BY <1>0, <1>6
  <2> QED
    BY <1>6, <2>1, OthersKeepRing DEF IInv
<1>7. CASE Broker \/ Tick \/ UNCHANGED vars
  <2>1. TimesInv'
    BY <1>0, <1>7 DEF Broker, Tick, vars
  <2> QED
    BY <1>7, <2>1, OthersKeepRing DEF Broker, Tick, vars, IInv
<1> QED
  BY <1>1, <1>2, <1>3, <1>4, <1>5, <1>6, <1>7 DEF Next, Thread

THEOREM Invariance == Spec => []IInv
  BY InitIInv, NextIInv, PTL DEF Spec

-----------------------------------------------------------------------------
(***************************************************************************)
(* A snapshot arrives unless its report and the next two are all lost,     *)
(* those included that are made before there is a connection.              *)
(***************************************************************************)
THEOREM TwoLossesDoNoHarm == Spec => []LossesAreMadeUpFor
<1>1. IInv => LossesAreMadeUpFor
  BY DEF IInv, ReceivedInv
<1> QED
  BY <1>1, Invariance, PTL

(***************************************************************************)
(* No row is sent that is not a snapshot, from the first report on.        *)
(***************************************************************************)
THEOREM NothingBogusIsSent == Spec => []OnlySnapshotsAreSent
<1>1. IInv => OnlySnapshotsAreSent
  BY DEF IInv, ReceivedInv
<1> QED
  BY <1>1, Invariance, PTL

(***************************************************************************)
(* Between two reports, for whatever reasons the thread wakes up, passes   *)
(* the time it reckoned with, unless a jitter has moved it.                *)
(***************************************************************************)
THEOREM ReportsAreApart == Spec => ReportsKeepTheirDistance
<1> DEFINE Apart == taken' # taken /\ ~rejittered =>
                        current_unix_time - reported >= next_report_time - last_report_time
<1>1. IInv /\ [Next]_vars => [Apart]_vars
  <2> SUFFICES ASSUME IInv, [Next]_vars, taken' # taken, ~rejittered
               PROVE  current_unix_time - reported >= next_report_time - last_report_time
    OBVIOUS
  <2>1. Report
    BY DEF Next, Main, Thread, Import, Connect, Retry, SetDeviceId, SetLibpd, Receive, Start,
           Look, ReportWithoutId, NoReport, Sleep, Broker, Tick, vars, history
  <2>2. next_report_time <= current_unix_time /\ last_report_time = reported
    BY <2>1 DEF Report, IsDue, IInv, TimesInv
  <2> QED
    BY <2>2 DEF IInv, TimesInv
<1> QED
  BY <1>1, Invariance, PTL DEF Spec, ReportsKeepTheirDistance

-----------------------------------------------------------------------------
(***************************************************************************)
(* The sleeps of the back-off: powers of two grow with their exponents, so *)
(* no sleep is longer than the last one, where the exponent starts again.  *)
(***************************************************************************)
LEMMA PowerOfTwoIs ==
    /\ PowerOfTwo[0] = 1
    /\ \A k \in Nat : PowerOfTwo[k] \in Nat /\ PowerOfTwo[k + 1] = 2 * PowerOfTwo[k]
<1> DEFINE Double == [x \in Nat |-> 2 * x]
           Powers(f) == [k \in Nat |-> IF k = 0 THEN 1 ELSE 2 * f[k - 1]]
<1>0. Double \in [Nat -> Nat] /\ 1 \in Nat
  OBVIOUS
<1> HIDE DEF Double
<1>1. PICK f : IsOrbit(f, Nat, 1, Double)
  BY <1>0, NatRecursionExists
<1>2. f = Powers(f)
  <2>1. \A k \in Nat : k # 0 => f[k] = 2 * f[k - 1]
    <3> SUFFICES ASSUME NEW k \in Nat, k # 0
                 PROVE  f[k] = 2 * f[k - 1]
      OBVIOUS
    <3>1. k - 1 \in Nat /\ (k - 1) + 1 = k
      OBVIOUS
    <3>2. f[(k - 1) + 1] = Double[f[k - 1]] /\ f[k - 1] \in Nat
      BY <1>1, <3>1 DEF IsOrbit
    <3> QED
      BY <3>1, <3>2 DEF Double
  <2>2. \A k \in Nat : f[k] = IF k = 0 THEN 1 ELSE 2 * f[k - 1]
    BY <1>1, <2>1 DEF IsOrbit
  <2>3. f = [k \in Nat |-> f[k]]
    BY <1>1 DEF IsOrbit
  <2>4. [k \in Nat |-> f[k]] = Powers(f)
    BY <2>2
  <2> QED
    BY <2>3, <2>4
<1>3. PowerOfTwo = Powers(PowerOfTwo)
  <2>1. \E g : g = Powers(g)
    BY <1>2
  <2>2. PowerOfTwo = CHOOSE g : g = Powers(g)
    BY DEF PowerOfTwo
  <2> QED
    BY <2>1, <2>2
<1> HIDE DEF Powers
<1>4. PowerOfTwo[0] = 1 /\ \A k \in Nat : PowerOfTwo[k + 1] = 2 * PowerOfTwo[k]
  <2>1. \A k \in Nat : Powers(PowerOfTwo)[k] = IF k = 0 THEN 1 ELSE 2 * PowerOfTwo[k - 1]
    BY DEF Powers
  <2>2. \A k \in Nat : PowerOfTwo[k] = IF k = 0 THEN 1 ELSE 2 * PowerOfTwo[k - 1]
    BY <1>3, <2>1
  <2>3. \A k \in Nat : k + 1 \in Nat /\ k + 1 # 0 /\ (k + 1) - 1 = k
    OBVIOUS
  <2> QED
    BY <2>2, <2>3
<1>5. ASSUME NEW n \in Nat
      PROVE  PowerOfTwo[n] \in Nat
  <2> DEFINE T == {i \in 0 .. n : PowerOfTwo[i] \in Nat}
  <2>1. 0 \in T
    BY <1>4
  <2>2. \A i \in 0 .. n - 1 : i \in T => i + 1 \in T
    BY <1>4
  <2>3. 0 .. n \subseteq T
    <3> HIDE DEF T
    <3> QED
      BY <2>1, <2>2, RangeInduction
  <2> QED
    BY <2>3
<1> QED
  BY <1>4, <1>5

LEMMA PowersGrow ==
    ASSUME NEW k \in Nat, NEW n \in Nat, k <= n
    PROVE  PowerOfTwo[k] <= PowerOfTwo[n]
<1> DEFINE d == n - k
           T == {i \in 0 .. d : PowerOfTwo[k] <= PowerOfTwo[k + i]}
<1>1. d \in Nat /\ k + d = n
  OBVIOUS
<1> HIDE DEF d
<1>2. 0 \in T
  BY <1>1, PowerOfTwoIs
<1>3. ASSUME NEW i \in 0 .. d - 1, i \in T
      PROVE  i + 1 \in T
  <2>1. k + i \in Nat /\ (k + i) + 1 = k + (i + 1) /\ i + 1 \in 0 .. d
    BY <1>1
  <2>2. PowerOfTwo[k + i] \in Nat /\ PowerOfTwo[(k + i) + 1] = 2 * PowerOfTwo[k + i]
        /\ PowerOfTwo[k] \in Nat
    BY <2>1, PowerOfTwoIs
  <2>3. PowerOfTwo[k] <= PowerOfTwo[k + i]
    BY <1>3
  <2>4. PowerOfTwo[k] <= 2 * PowerOfTwo[k + i]
    BY <2>2, <2>3
  <2> QED
    BY <2>1, <2>2, <2>4
<1>4. 0 .. d \subseteq T
  <2> HIDE DEF T
  <2> QED
    BY <1>1, <1>2, <1>3, RangeInduction
<1> QED
  BY <1>1, <1>4

LEMMA RetriesAreBounded ==
    ASSUME NEW k \in FirstRetry .. LastRetry
    PROVE  /\ RetryTime(k) \in Int /\ RetryTime(k) >= 0
           /\ RetryTime(k) <= RetryTime(LastRetry)
           /\ NextRetry(k) \in FirstRetry .. LastRetry
<1>1. k \in Nat /\ k <= LastRetry /\ LastRetry \in Nat /\ FirstRetry \in Nat /\ FirstRetry <= LastRetry
  BY ReporterAssumption
<1>2. PowerOfTwo[0] <= PowerOfTwo[k] /\ PowerOfTwo[k] <= PowerOfTwo[LastRetry]
  BY <1>1, PowersGrow
<1>3. PowerOfTwo[0] = 1 /\ PowerOfTwo[k] \in Nat /\ PowerOfTwo[LastRetry] \in Nat
  BY <1>1, PowerOfTwoIs
<1>4. RetryTime(k) \in Int /\ RetryTime(k) >= 0 /\ RetryTime(k) <= RetryTime(LastRetry)
  BY <1>2, <1>3 DEF RetryTime
<1>5. k = LastRetry => RetryTime(k) >= RetryTime(LastRetry)
  BY <1>4
<1>6. NextRetry(k) \in FirstRetry .. LastRetry
  BY <1>1, <1>5 DEF NextRetry
<1> QED
  BY <1>4, <1>6

-----------------------------------------------------------------------------
(***************************************************************************)
(* Types.  The time of a snapshot is one the clock has shown.              *)
(***************************************************************************)
LEMMA RatesAreNumbers ==
    ASSUME TypeOK
    PROVE  /\ Rate \in Nat /\ Rate \in {0} \cup {x.report_rate_s : x \in Schedules}
           /\ last_report_rate \in Nat
           /\ report_jitter <= last_report_rate
<1>1. Rate \in Nat /\ Rate \in {0} \cup {x.report_rate_s : x \in Schedules}
  BY ReporterAssumption DEF TypeOK, Rate
<1>2. last_report_rate \in Nat
  BY ReporterAssumption DEF TypeOK
<1>3. report_jitter <= last_report_rate
  BY <1>2 DEF TypeOK
<1> QED
  BY <1>1, <1>2, <1>3

(* What the clock and the schedule are, and what the thread makes of them. *)
LEMMA NextTypeOK == TypeOK /\ [Next]_vars => TypeOK'
<1> SUFFICES ASSUME TypeOK, [Next]_vars
             PROVE  TypeOK'
  OBVIOUS
<1> USE DEF connection, request, schedule, metrics, history, thread
<1>0. now \in Nat /\ now <= MaxTime /\ MaxTime \in Nat
  BY ReporterAssumption DEF TypeOK
<1>1. CASE Report
  <2>1. Snapshot \in Rows
    BY <1>0 DEF TypeOK, Rows, Snapshot
  <2>2. old' \in [1 .. 3 -> Rows]
    BY <1>1, <2>1 DEF Report, BuildAndSend, Rotate, TypeOK
  <2>3. valid_count' \in 0 .. 3
    BY <1>1 DEF Report, BuildAndSend, ValidCount, TypeOK
  <2>4. g_metrics' \in Rows /\ reported' \in 0 .. now /\ last_report_time' \in Int
        /\ threadPC' = "sleep" /\ now' = now
    BY <1>1, <2>1 DEF Report, BuildAndSend, TypeOK
  <2>5. {broker', g_device_id', g_libpd', rejittered'} \subseteq BOOLEAN
    BY <1>1 DEF Report, BuildAndSend, TypeOK
  <2>6. UNCHANGED <<connection, request, current_unix_time, next_report_time,
                    last_report_rate, report_jitter>>
    BY <1>1 DEF Report
  <2> QED
    BY <2>2, <2>3, <2>4, <2>5, <2>6 DEF TypeOK
<1>2. CallFirewall => g_metrics' \in Rows
  <2> SUFFICES ASSUME CallFirewall
               PROVE  g_metrics' \in Rows
    OBVIOUS
  <2>1. g_metrics.wtc \in Nat /\ CounterRange \in Nat /\ CounterRange > 0 /\ g_metrics \in Rows
    BY ReporterAssumption DEF TypeOK, Rows
  <2>2. (g_metrics.wtc + 1) % CounterRange \in 0 .. CounterRange - 1
    BY <2>1
  <2> QED
    BY <2>1, <2>2 DEF CallFirewall, Rows
<1>3. CASE Start
  BY <1>0, <1>2, <1>3 DEF Start, TypeOK
<1>4. CASE Look
  <2>1. g_metrics' \in Rows
    BY <1>2, <1>4 DEF Look, TypeOK
  <2>2. /\ last_report_time' \in Int
        /\ last_report_rate' \in {0} \cup {x.report_rate_s : x \in Schedules}
        /\ report_jitter' \in Nat /\ (report_jitter' = 0 \/ report_jitter' < last_report_rate')
        /\ rejittered' \in BOOLEAN
    <3>1. CASE UNCHANGED <<last_report_rate, last_report_time, report_jitter, rejittered>>
      BY <3>1 DEF TypeOK
    <3>2. CASE ~UNCHANGED <<last_report_rate, last_report_time, report_jitter, rejittered>>
      <4>1. /\ last_report_rate' = Rate /\ rejittered' = TRUE
            /\ report_jitter' \in Jitters(Rate) /\ Rejitter(report_jitter')
        BY <1>4, <3>2 DEF Look
      <4>2. Rate \in Nat /\ Rate \in {0} \cup {x.report_rate_s : x \in Schedules}
        BY RatesAreNumbers
      <4>3. report_jitter' \in Nat /\ (report_jitter' = 0 \/ report_jitter' < Rate)
        BY <4>1, <4>2 DEF Jitters
      <4>4. last_report_time' \in Int
        BY <4>1, <4>3 DEF Rejitter, TypeOK
      <4> QED
        BY <4>1, <4>2, <4>3, <4>4
    <3> QED
      BY <3>1, <3>2
  <2>3. current_unix_time' \in 0 .. now'
    BY <1>0, <1>4 DEF Look, TypeOK
  <2> QED
    BY <1>4, <2>1, <2>2, <2>3 DEF Look, TypeOK
<1>5. CASE Sleep
  <2>1. next_report_time' \in Int
    BY <1>5, RatesAreNumbers, ReporterAssumption DEF Sleep, TypeOK
  <2> QED
    BY <1>5, <2>1 DEF Sleep, TypeOK
<1>6. CASE ReportWithoutId \/ NoReport
  BY <1>6 DEF ReportWithoutId, NoReport, TypeOK
<1>7. CASE Connect
  <2>1. RetryTime(c) \in Nat /\ NextRetry(c) \in FirstRetry .. LastRetry
    BY RetriesAreBounded DEF TypeOK
  <2>2. c' \in FirstRetry .. LastRetry /\ retry_at' \in Nat
    BY <1>0, <1>7, <2>1 DEF Connect, TypeOK
  <2> QED
    BY <1>7, <2>2 DEF Connect, TypeOK
<1>8. CASE Import \/ \E x \in Schedules \cup {NULL} : Receive(x)
  <2>1. since' \in 0 .. now' /\ now' = now
    BY <1>0, <1>8 DEF Import, Receive, Swap, TypeOK
  <2>2. messages' \in 0 .. MaxMessages
    BY <1>8, ReporterAssumption DEF Import, Receive, TypeOK
  <2>3. current_schedule' \in Schedules \cup {NULL}
        /\ threadPC' \in {"start", "woken", "report", "sleep", "asleep", "dead"}
        /\ mainPC' \in {"connect", "ready"}
    BY <1>8 DEF Import, Receive, Swap, Wakes, TypeOK
  <2> QED
    BY <1>8, <2>1, <2>2, <2>3 DEF Import, Receive, TypeOK
<1>9. CASE Retry \/ SetDeviceId \/ SetLibpd
  BY <1>9 DEF Retry, SetDeviceId, SetLibpd, TypeOK
<1>10. CASE Broker
  BY <1>0, <1>10 DEF Broker, TypeOK
<1>11. CASE Tick
  <2>1. now' \in 0 .. MaxTime /\ now' = now + 1
    BY <1>0, <1>11 DEF Tick
  <2>2. up_since' \in 0 .. now' /\ since' \in 0 .. now' /\ current_unix_time' \in 0 .. now'
        /\ reported' \in 0 .. now'
    BY <1>0, <1>11, <2>1 DEF Tick, TypeOK
  <2> QED
    BY <1>11, <2>1, <2>2 DEF Tick, TypeOK
<1>12. CASE UNCHANGED vars
  BY <1>12 DEF vars, TypeOK
<1> QED
  BY <1>1, <1>3, <1>4, <1>5, <1>6, <1>7, <1>8, <1>9, <1>10, <1>11, <1>12 DEF Next, Main, Thread

(***************************************************************************)
(* The variables of the report keep their types, the jitter among them:    *)
(* less than the rate it is for.                                           *)
(***************************************************************************)
THEOREM TypeCorrect == Spec => []TypeOK
<1>1. Init => TypeOK
  <2> SUFFICES ASSUME Init
               PROVE  TypeOK
    OBVIOUS
  <2>1. Zero \in Rows
    BY ReporterAssumption DEF Zero, Rows
  <2>2. old \in [1 .. 3 -> Rows]
    BY <2>1 DEF Init
  <2>3. {broker, g_device_id, g_libpd, rejittered} \subseteq BOOLEAN
    BY DEF Init
  <2> QED
    BY <2>1, <2>2, <2>3, ReporterAssumption DEF Init, TypeOK
<1> QED
  BY <1>1, NextTypeOK, PTL DEF Spec

-----------------------------------------------------------------------------
(***************************************************************************)
(* The back-off.  A sleep ends when it should, and a parodus that is there *)
(* while main_loop() sleeps has come during this sleep.                    *)
(***************************************************************************)
LongestRetry == RetryTime(LastRetry)

BackoffInv ==
    /\ mainPC = "backoff" =>
          /\ now <= retry_at /\ retry_at - now <= LongestRetry
          /\ broker => retry_at - up_since <= LongestRetry
    /\ mainPC \in {"import", "connect"} /\ broker => now - up_since <= LongestRetry

THEOREM ParodusIsFound == Spec => []BrokerIsFound
<1>1. LongestRetry \in Int /\ LongestRetry >= 0
  <2>1. LastRetry \in FirstRetry .. LastRetry
    BY ReporterAssumption
  <2> QED
    BY <2>1, RetriesAreBounded DEF LongestRetry
<1>2. Init => BackoffInv
  BY <1>1 DEF Init, BackoffInv
<1>3. TypeOK /\ BackoffInv /\ [Next]_vars => BackoffInv'
  <2> SUFFICES ASSUME TypeOK, BackoffInv, [Next]_vars
               PROVE  BackoffInv'
    OBVIOUS
  <2> USE DEF connection, request, schedule, metrics, history, thread
  <2>0. now \in Int /\ up_since \in Int /\ retry_at \in Int /\ up_since <= now
    BY ReporterAssumption DEF TypeOK
  <2>1. CASE Connect
    <3>1. RetryTime(c) \in Int /\ RetryTime(c) >= 0 /\ RetryTime(c) <= LongestRetry
      BY RetriesAreBounded DEF TypeOK, LongestRetry
    <3>2. CASE broker
      BY <2>1, <3>2 DEF Connect, BackoffInv
    <3>3. CASE ~broker
      BY <1>1, <2>0, <2>1, <3>1, <3>3 DEF Connect, BackoffInv
    <3> QED
      BY <3>2, <3>3
  <2>2. CASE Retry
    BY <1>1, <2>0, <2>2 DEF Retry, BackoffInv
  <2>3. CASE Broker
    BY <1>1, <2>0, <2>3 DEF Broker, BackoffInv
  <2>4. CASE Tick
    BY <1>1, <2>0, <2>4 DEF Tick, BackoffInv
  <2>5. CASE Import
    BY <2>5 DEF Import, BackoffInv
  <2>8. ASSUME NEW x \in Schedules \cup {NULL}, Receive(x)
        PROVE  BackoffInv'
    BY <2>8 DEF Receive, BackoffInv
  <2>6. CASE SetDeviceId \/ SetLibpd
    BY <2>6 DEF SetDeviceId, SetLibpd, BackoffInv
  <2>7. CASE Thread \/ UNCHANGED vars
    <3>1. UNCHANGED <<now, mainPC, retry_at, broker, up_since>>
      BY <2>7 DEF Thread, Start, Look, Report, ReportWithoutId, NoReport, Sleep, vars
    <3> QED
      BY <3>1 DEF BackoffInv
  <2> QED
    BY <2>1, <2>2, <2>3, <2>4, <2>5, <2>6, <2>7, <2>8 DEF Next, Main
<1>4. TypeOK /\ BackoffInv => BrokerIsFound
  <2> SUFFICES ASSUME TypeOK, BackoffInv, IsConnecting, broker
               PROVE  now - up_since <= LongestRetry
    BY DEF BrokerIsFound, LongestRetry
  <2>1. now \in Int /\ up_since \in Int /\ retry_at \in Int
    BY ReporterAssumption DEF TypeOK
  <2> QED
    BY <1>1, <2>1 DEF IsConnecting, BackoffInv
<1> QED
  BY <1>2, <1>3, <1>4, TypeCorrect, PTL DEF Spec

-----------------------------------------------------------------------------
(***************************************************************************)
(* The silence.  The thread reckons from the last report and at most the   *)
(* jitter there is, and while it sleeps its deadline is that of the        *)
(* schedule in force.                                                      *)
(***************************************************************************)
SilenceInv ==
    /\ last_report_time <= reported + report_jitter
    /\ threadPC = "asleep" /\ Rate > 0 => next_report_time = last_report_time + Rate

LEMMA NextSilence == TypeOK /\ SilenceInv /\ [Next]_vars => SilenceInv'
<1> SUFFICES ASSUME TypeOK, SilenceInv, [Next]_vars
             PROVE  SilenceInv'
  OBVIOUS
<1> USE DEF connection, request, schedule, metrics, history, thread
<1>0. /\ last_report_time \in Int /\ reported \in Int /\ report_jitter \in Nat /\ now \in Int
      /\ current_unix_time \in Int
  BY ReporterAssumption DEF TypeOK
<1>1. CASE Report
  BY <1>0, <1>1 DEF Report, BuildAndSend, SilenceInv
<1>2. CASE Start
  BY <1>0, <1>2 DEF Start, SilenceInv
<1>3. CASE Look
  <2>1. CASE UNCHANGED <<last_report_rate, last_report_time, report_jitter, rejittered>>
    BY <1>3, <2>1 DEF Look, SilenceInv
  <2>2. CASE ~UNCHANGED <<last_report_rate, last_report_time, report_jitter, rejittered>>
    <3>1. report_jitter' \in Jitters(Rate) /\ Rejitter(report_jitter')
      BY <1>3, <2>2 DEF Look
    <3>2. report_jitter' \in Int
      BY <3>1, RatesAreNumbers DEF Jitters
    <3>3. last_report_time' = last_report_time - report_jitter + report_jitter'
      BY <3>1 DEF Rejitter
    <3>4. last_report_time <= reported + report_jitter
      BY DEF SilenceInv
    <3>5. \A j \in Int : last_report_time - report_jitter + j <= reported + j
      BY <1>0, <3>4
    <3>6. last_report_time' <= reported + report_jitter'
      BY <3>2, <3>3, <3>5, Zenon
    <3> QED
      BY <1>3, <3>6 DEF Look, SilenceInv
  <2> QED
    BY <2>1, <2>2
<1>4. CASE Sleep
  <2>1. Rate' = Rate
    BY <1>4 DEF Sleep, Rate
  <2> QED
    BY <1>4, <2>1 DEF Sleep, SilenceInv
<1>5. CASE ReportWithoutId \/ NoReport
  BY <1>5 DEF ReportWithoutId, NoReport, SilenceInv
<1>6. CASE Import \/ \E x \in Schedules \cup {NULL} : Receive(x)
  <2>1. UNCHANGED <<last_report_time, next_report_time, reported, report_jitter>>
        /\ (UNCHANGED <<current_schedule, threadPC>> \/ threadPC' \in {"start", "woken"})
    BY <1>6 DEF Import, Receive, Swap, Wakes
  <2> QED
    BY <2>1 DEF SilenceInv, Rate
<1>7. CASE Connect \/ Retry \/ SetDeviceId \/ SetLibpd \/ Broker \/ Tick \/ UNCHANGED vars
  <2>1. UNCHANGED <<last_report_time, next_report_time, reported, report_jitter,
                    current_schedule, threadPC>>
    BY <1>7 DEF Connect, Retry, SetDeviceId, SetLibpd, Broker, Tick, vars
  <2> QED
    BY <2>1 DEF SilenceInv, Rate
<1> QED
  BY <1>1, <1>2, <1>3, <1>4, <1>5, <1>6, <1>7 DEF Next, Main, Thread

(***************************************************************************)
(* No time passes beyond a rate and a jitter without a report, whatever    *)
(* the schedules that follow each other ask for.                           *)
(***************************************************************************)
THEOREM SilenceIsBounded == Spec => ReportsKeepComing
<1> DEFINE Kept == now' # now /\ Rate > 0 =>
                       now' <= Latest(since, reported + Rate + last_report_rate) + MaxDelay
<1>1. Init => SilenceInv
  BY DEF Init, SilenceInv
<1>2. TypeOK /\ SilenceInv /\ [Next]_vars => [Kept]_vars
  <2> SUFFICES ASSUME TypeOK, SilenceInv, [Next]_vars, now' # now, Rate > 0
               PROVE  now' <= Latest(since, reported + Rate + last_report_rate) + MaxDelay
    OBVIOUS
  <2>1. Tick
    BY DEF Next, Main, Thread, Import, Connect, Retry, SetDeviceId, SetLibpd, Receive, Start,
           Look, Report, ReportWithoutId, NoReport, Sleep, Broker, vars
  <2>2. /\ now \in Int /\ since \in Int /\ reported \in Int /\ MaxDelay \in Int
        /\ next_report_time \in Int /\ last_report_time \in Int
        /\ Rate \in Int /\ last_report_rate \in Int /\ report_jitter \in Int
        /\ report_jitter <= last_report_rate
    BY ReporterAssumption, RatesAreNumbers DEF TypeOK
  <2>3. now' = now + 1
    BY <2>1 DEF Tick
  <2>4. CASE threadPC = "asleep"
    <3>1. now < next_report_time + MaxDelay
      BY <2>1, <2>4 DEF Tick
    <3>2. next_report_time = last_report_time + Rate /\ last_report_time <= reported + report_jitter
      BY <2>4 DEF SilenceInv
    <3>3. now' <= reported + Rate + last_report_rate + MaxDelay
      BY <2>2, <2>3, <3>1, <3>2
    <3> QED
      BY <2>2, <2>3, <3>3 DEF Latest
  <2>5. CASE threadPC # "asleep"
    <3>1. now < since + MaxDelay
      BY <2>1, <2>5 DEF Tick
    <3> QED
      BY <2>2, <2>3, <3>1 DEF Latest
  <2> QED
    BY <2>4, <2>5
<1> QED
  BY <1>1, <1>2, NextSilence, TypeCorrect, PTL DEF Spec, ReportsKeepComing
=============================================================================
