------------------------------- MODULE Reporter -------------------------------
(***************************************************************************)
(* The periodic report: when the scheduler thread of src/src/scheduler.c   *)
(* makes one, what src/src/aker_metrics.c puts into it, and the connection *)
(* it is sent over, which main_loop() of src/src/main.c sets up meanwhile. *)
(*                                                                         *)
(* The thread holds schedule_lock during a turn of its loop, so a schedule *)
(* arrives only between two turns; aker_metric_init() takes no lock and    *)
(* interleaves with them.  The thread may wake up at any time - for an     *)
(* event, a notification, a signal or nothing - and does so at most        *)
(* MaxDelay late; time that passes during a turn is the same as time that  *)
(* passes after it.  What a schedule prescribes is any of its lists.  A    *)
(* report may be lost on its way.  Of the counters in a report one is kept *)
(* here, that of firewall calls, besides the time of the snapshot; the     *)
(* others are incremented in the same places.                              *)
(***************************************************************************)
EXTENDS Integers, Sequences

CONSTANTS
    Schedules,      \* [report_rate_s, lists]: the rate, and what it may block
    NULL, NoList,
    Never,          \* next_report_time without reports, INT_MAX
    FirstRetry,     \* the first and the last exponent of the back-off of
    LastRetry,      \* main_loop(), 2 and 9
    CounterRange,   \* 2^32
    EarlyWakeUps,   \* bound on when the thread wakes up for no report
    MaxTime, MaxDelay, MaxMessages, MaxReports      \* bounds

ASSUME ReporterAssumption ==
    /\ NULL \notin Schedules
    /\ \A s \in Schedules : s.report_rate_s \in Nat /\ s.lists # {}
    /\ FirstRetry \in Nat /\ LastRetry \in Nat /\ FirstRetry <= LastRetry
    /\ CounterRange \in Nat \ {0} /\ EarlyWakeUps \subseteq Nat
    /\ MaxTime \in Nat /\ MaxDelay \in Nat /\ MaxMessages \in Nat /\ MaxReports \in Nat
    /\ Never \in Nat /\ Never > MaxTime

VARIABLES
    now,
    mainPC,                 \* of the main thread
    c, retry_at,            \* its back-off
    broker, up_since,       \* whether parodus answers, and since when
    g_device_id, g_libpd,   \* whether aker_metric_init() has set them
    messages,
    current_schedule,
    since,                  \* history: when it arrived
    threadPC,               \* of the scheduler thread
    current_unix_time,
    current_blocked_macs,
    last_report_time, next_report_time,
    last_report_rate, report_jitter,
    g_metrics,
    old, valid_count,       \* the ring of build_and_send_wrp()
    reported,               \* history: when the last report was made
    rejittered,             \* history: a jitter was calculated since then
    taken,                  \* history: each snapshot, and whether the report
                            \* it was taken for has arrived
    received                \* history: the rows that have arrived

connection == <<mainPC, c, retry_at, broker, up_since, g_device_id, g_libpd>>
request    == <<current_schedule, since, messages>>
schedule   == <<last_report_time, next_report_time, last_report_rate, report_jitter>>
metrics    == <<g_metrics, old, valid_count>>
history    == <<reported, rejittered, taken, received>>
thread     == <<threadPC, current_unix_time, current_blocked_macs>>
vars       == <<now, connection, request, thread, schedule, metrics, history>>

Zero == [ts |-> 0, wtc |-> 0]

Init ==
    /\ now = 0
    /\ mainPC = "import" /\ c = FirstRetry /\ retry_at = 0
    /\ broker \in BOOLEAN /\ up_since = 0
    /\ g_device_id = FALSE /\ g_libpd = FALSE
    /\ messages = 0
    /\ current_schedule = NULL /\ since = 0
    /\ threadPC = "start" /\ current_unix_time = 0 /\ current_blocked_macs = NoList
    /\ last_report_time = 0 /\ next_report_time = Never
    /\ last_report_rate = 0 /\ report_jitter = 0
    /\ g_metrics = Zero
    /\ old = <<Zero, Zero, Zero>> /\ valid_count = 0
    /\ reported = 0 /\ rejittered = FALSE /\ taken = << >> /\ received = {}

-----------------------------------------------------------------------------
(* The main thread.                                                        *)

HasLock == threadPC \in {"report", "sleep"}

Wakes == IF threadPC = "start" THEN "start" ELSE "woken"

Swap(x) ==
    /\ ~HasLock /\ threadPC # "dead"
    /\ current_schedule' = x
    /\ since' = now
    /\ threadPC' = Wakes

(* import_existing_schedule() finds a schedule or none.                    *)
Import ==
    /\ mainPC = "import"
    /\ mainPC' = "connect"
    /\ \/ \E x \in Schedules : Swap(x)
       \/ UNCHANGED <<current_schedule, since, threadPC>>
    /\ UNCHANGED <<now, c, retry_at, broker, up_since, g_device_id, g_libpd, messages,
                   current_unix_time, current_blocked_macs, schedule, metrics, history>>

(* A request, in the loop that follows a successful libparodus_init().     *)
Receive(x) ==
    /\ mainPC = "ready"
    /\ messages < MaxMessages
    /\ messages' = messages + 1
    /\ Swap(x)
    /\ UNCHANGED <<now, connection, current_unix_time, current_blocked_macs, schedule,
                   metrics, history>>

(* 1 << k; a function, which proofs can be given about.                   *)
PowerOfTwo[k \in Nat] == IF k = 0 THEN 1 ELSE 2 * PowerOfTwo[k - 1]

RetryTime(k) == PowerOfTwo[k] - 1

(* Mutation of NextRetry: the exponent goes on growing.                    *)
NextRetryUnbounded(k) == k + 1

(* After the longest sleep the back-off starts again.                      *)
NextRetry(k) == IF RetryTime(k) >= RetryTime(LastRetry) THEN FirstRetry ELSE k + 1

Connect ==
    /\ mainPC = "connect"
    /\ IF broker
       THEN mainPC' = "set_device_id" /\ UNCHANGED <<c, retry_at>>
       ELSE /\ mainPC' = "backoff"
            /\ retry_at' = now + RetryTime(c)
            /\ c' = NextRetry(c)
    /\ UNCHANGED <<now, broker, up_since, g_device_id, g_libpd, request, thread, schedule,
                   metrics, history>>

Retry ==
    /\ mainPC = "backoff"
    /\ now >= retry_at
    /\ mainPC' = "connect"
    /\ UNCHANGED <<now, c, retry_at, broker, up_since, g_device_id, g_libpd, request, thread,
                   schedule, metrics, history>>

(* aker_metric_init(): two assignments, under no lock.                     *)
SetDeviceId ==
    /\ mainPC = "set_device_id"
    /\ g_device_id' = TRUE
    /\ mainPC' = "set_libpd"
    /\ UNCHANGED <<now, c, retry_at, broker, up_since, g_libpd, request, thread, schedule,
                   metrics, history>>

SetLibpd ==
    /\ mainPC = "set_libpd"
    /\ g_libpd' = TRUE
    /\ mainPC' = "ready"
    /\ UNCHANGED <<now, c, retry_at, broker, up_since, g_device_id, request, thread, schedule,
                   metrics, history>>

IsConnecting == mainPC \in {"import", "connect", "backoff"}

(* Parodus comes and goes; only libparodus_init() depends on it here.      *)
Broker ==
    /\ mainPC = "backoff"
    /\ broker' = ~broker
    /\ up_since' = now
    /\ UNCHANGED <<now, mainPC, c, retry_at, g_device_id, g_libpd, request, thread, schedule,
                   metrics, history>>

-----------------------------------------------------------------------------
(* The scheduler thread.                                                   *)

(* call_firewall() and the metrics that go with it.                        *)
CallFirewall == g_metrics' = [g_metrics EXCEPT !.wtc = (@ + 1) % CounterRange]

Start ==
    /\ threadPC = "start"
    /\ CallFirewall
    /\ last_report_time' = now
    /\ reported' = now
    /\ threadPC' = "woken"
    /\ UNCHANGED <<now, connection, request, current_unix_time, current_blocked_macs,
                   next_report_time, last_report_rate, report_jitter, old, valid_count,
                   rejittered, taken, received>>

Rate == IF current_schedule = NULL THEN 0 ELSE current_schedule.report_rate_s

(* Mutation of Jitters: the remainder is counted from 1.                   *)
JittersFromOne(rate) == IF rate = 0 THEN {0} ELSE 1 .. rate

(* calculate_report_jitter()                                               *)
Jitters(rate) == IF rate = 0 THEN {0} ELSE 0 .. rate - 1

(* Mutation of Rejitter: the jitter there was is kept.                     *)
RejitterOnTop(jitter) == last_report_time' = last_report_time + jitter

Rejitter(jitter) == last_report_time' = last_report_time - report_jitter + jitter

(* The first part of a turn.  The rate is looked at only when the list     *)
(* has changed.                                                            *)
Look ==
    /\ \/ threadPC = "woken"
       \/ threadPC = "asleep" /\ (now >= next_report_time \/ now \in EarlyWakeUps)
    /\ current_unix_time' = IF current_schedule = NULL THEN current_unix_time ELSE now
    /\ current_blocked_macs' \in (IF current_schedule = NULL THEN {NoList} ELSE current_schedule.lists)
    /\ IF current_blocked_macs' # current_blocked_macs THEN CallFirewall ELSE UNCHANGED g_metrics
    /\ IF /\ current_blocked_macs' # current_blocked_macs
          /\ current_schedule # NULL /\ last_report_rate # Rate
       THEN /\ last_report_rate' = Rate
            /\ \E jitter \in Jitters(Rate) : Rejitter(jitter) /\ report_jitter' = jitter
            /\ rejittered' = TRUE
       ELSE UNCHANGED <<last_report_rate, last_report_time, report_jitter, rejittered>>
    /\ threadPC' = "report"
    /\ UNCHANGED <<now, connection, request, next_report_time, old, valid_count, reported,
                   taken, received>>

Snapshot == [g_metrics EXCEPT !.ts = current_unix_time]

(* Mutation of Rotate: the newer snapshot is moved first.                  *)
RotateForward(row) == <<row, old[1], old[1]>>

Rotate(row) == <<row, old[1], old[2]>>

(* Mutation of ValidCount: all three rows are sent from the start.         *)
ValidCountOfAll == 3

ValidCount == IF valid_count < 3 THEN valid_count + 1 ELSE 3

(* build_and_send_wrp(); pack_string() reads the device id without a check.*)
BuildAndSend ==
    /\ g_device_id
    /\ g_metrics' = Snapshot
    /\ old' = Rotate(Snapshot)
    /\ valid_count' = ValidCount
    /\ \E arrived \in IF g_libpd THEN BOOLEAN ELSE {FALSE} :
        /\ taken' = Append(taken, [row |-> Snapshot, arrived |-> arrived])
        /\ received' = received \cup (IF arrived THEN {old'[i] : i \in 1 .. valid_count'} ELSE {})
    /\ reported' = current_unix_time
    /\ rejittered' = FALSE

IsDue == next_report_time <= current_unix_time

(* Mutation of Report: the time of the report is not kept.                 *)
ReportAgain ==
    /\ threadPC = "report"
    /\ Len(taken) < MaxReports
    /\ IsDue /\ BuildAndSend
    /\ threadPC' = "sleep"
    /\ UNCHANGED <<now, connection, request, current_unix_time, current_blocked_macs,
                   schedule>>

Report ==
    /\ threadPC = "report"
    /\ Len(taken) < MaxReports
    /\ IsDue /\ BuildAndSend
    /\ last_report_time' = current_unix_time
    /\ threadPC' = "sleep"
    /\ UNCHANGED <<now, connection, request, current_unix_time, current_blocked_macs,
                   next_report_time, last_report_rate, report_jitter>>

(* strlen(NULL) ends the process.                                          *)
ReportWithoutId ==
    /\ threadPC = "report"
    /\ IsDue /\ ~g_device_id
    /\ threadPC' = "dead"
    /\ UNCHANGED <<now, connection, request, current_unix_time, current_blocked_macs,
                   schedule, metrics, history>>

NoReport ==
    /\ threadPC = "report"
    /\ ~IsDue
    /\ threadPC' = "sleep"
    /\ UNCHANGED <<now, connection, request, current_unix_time, current_blocked_macs,
                   schedule, metrics, history>>

Sleep ==
    /\ threadPC = "sleep"
    /\ next_report_time' = IF Rate > 0 THEN last_report_time + Rate ELSE Never
    /\ threadPC' = "asleep"
    /\ UNCHANGED <<now, connection, request, current_unix_time, current_blocked_macs,
                   last_report_time, last_report_rate, report_jitter, metrics, history>>

(* sleep() of the main thread ends on time, and the scheduler thread is at *)
(* most MaxDelay late.                                                     *)
Tick ==
    /\ now < MaxTime
    /\ mainPC = "ready" \/ (mainPC = "backoff" /\ now < retry_at)
    /\ \/ threadPC = "asleep" /\ now < next_report_time + MaxDelay
       \/ threadPC = "woken" /\ now < since + MaxDelay
    /\ now' = now + 1
    /\ UNCHANGED <<connection, request, thread, schedule, metrics, history>>

Main ==
    \/ Import \/ Connect \/ Retry \/ SetDeviceId \/ SetLibpd
    \/ \E x \in Schedules \cup {NULL} : Receive(x)

Thread == Start \/ Look \/ Report \/ ReportWithoutId \/ NoReport \/ Sleep

Next == Main \/ Thread \/ Broker \/ Tick

Spec == Init /\ [][Next]_vars

-----------------------------------------------------------------------------
(* Properties.                                                             *)

Rows == [ts : 0 .. MaxTime, wtc : 0 .. CounterRange - 1]

(* The type of every variable; a jitter is less than the rate it is for.   *)
TypeOK ==
    /\ now \in 0 .. MaxTime /\ up_since \in 0 .. now /\ since \in 0 .. now
    /\ mainPC \in {"import", "connect", "backoff", "set_device_id", "set_libpd", "ready"}
    /\ c \in FirstRetry .. LastRetry /\ retry_at \in Nat
    /\ {broker, g_device_id, g_libpd, rejittered} \subseteq BOOLEAN
    /\ messages \in 0 .. MaxMessages
    /\ current_schedule \in Schedules \cup {NULL}
    /\ threadPC \in {"start", "woken", "report", "sleep", "asleep", "dead"}
    /\ current_unix_time \in 0 .. now /\ reported \in 0 .. now
    /\ last_report_time \in Int /\ next_report_time \in Int
    /\ last_report_rate \in {0} \cup {s.report_rate_s : s \in Schedules}
    /\ report_jitter \in Nat /\ (report_jitter = 0 \/ report_jitter < last_report_rate)
    /\ g_metrics \in Rows
    /\ old \in [1 .. 3 -> Rows] /\ valid_count \in 0 .. 3

(* "Rotate the 3 we're keeping for redundancy": a snapshot reaches the     *)
(* receiver unless its own report and the two after it are all lost, those *)
(* included that are made before there is a connection.                    *)
LossesAreMadeUpFor ==
    \A i, j \in DOMAIN taken :
        i <= j /\ j <= i + 2 /\ taken[j].arrived => taken[i].row \in received

(* "Only send the number of valid rows to prevent bogus metrics data from  *)
(* being sent": every row that arrives is a snapshot that was taken.       *)
OnlySnapshotsAreSent ==
    received \subseteq {taken[i].row : i \in DOMAIN taken}

(* No time passes for a device whose schedule asks for reports beyond one  *)
(* rate and one jitter without a report, however often schedules, and with *)
(* them the rate and the jitter, have changed since the last one.  The     *)
(* jitter is less than the rate it was calculated for, which need not be   *)
(* that of the schedule in force; when a shorter one replaces it late, the *)
(* report is due at once.                                                  *)
Latest(t, u) == IF t > u THEN t ELSE u

ReportsKeepComing ==
    [][now' # now /\ Rate > 0 =>
          now' <= Latest(since, reported + Rate + last_report_rate) + MaxDelay]_vars

(* Two reports are as far apart as the thread reckoned when it went to     *)
(* sleep, though it wakes up in between for events and requests; only a    *)
(* new jitter may move a report.                                           *)
ReportsKeepTheirDistance ==
    [][taken' # taken /\ ~rejittered =>
          current_unix_time - reported >= next_report_time - last_report_time]_vars

(* Parodus is found within one longest sleep from when it is there, how    *)
(* long it may have been away.                                             *)
BrokerIsFound ==
    IsConnecting /\ broker => now - up_since <= RetryTime(LastRetry)

(* "Send it if we can": that no connection has been made keeps a report    *)
(* from being sent, and nothing else from being done.                      *)
ReportsNeedNoConnection == threadPC # "dead"
=============================================================================
