# aker in TLA+

aker is a daemon that blocks devices of a home network by a schedule. It gets the
schedule as a msgpack payload in a CRUD request, keeps it in a file, and runs a
firewall script whenever the list of MAC addresses to block changes. This directory
holds TLA+ models of it, TLC configurations that check them on small instances, and
TLAPS proofs of theorems about them. Paths below are relative to `src/src/`.

## Inventory

Two threads run. The **main thread** (main.c) imports the schedule on disk and then
receives requests, one at a time. The **scheduler thread** (scheduler.c) evaluates the
schedule, calls the firewall, sends reports and notifications, and sleeps. They share
`current_schedule` and `current_blocked_macs` under `schedule_lock`, a condition
variable, the metrics under a mutex of their own, and, under no lock at all, the `TZ`
of the process.

| component | state | operations | hard behaviour | what makes it correct |
| --- | --- | --- | --- | --- |
| schedule.c | two sorted event lists, a table of MACs | insert, finalize, block list at a time, next event | wrap of the week, two lists with different clocks, boundaries | the list blocks what the latest event says; no change is slept through |
| time.c | TZ of the process | Unix time to time of week, set the zone | shared by both threads, daylight saving time | a schedule is evaluated in its own zone |
| decode.c | a schedule under construction | one step per key of a map | partial failure, several maps, any order | a schedule is handed out exactly when the return code is 0 |
| scheduler.c | shared schedule, block list, timeline, deadline | hand-over (main thread), the loop (scheduler thread) | interleaving, signals, freed memory, time-outs | no use after free, no lost wake-up, the firewall has the list |
| process_data.c, aker_md5.c | data file, md5 file | create, update, retrieve, delete, verify | crashes and failing calls between any two steps | what was acknowledged survives |
| wrp_interface.c | none | dispatch of a request, clean-up | every combination of type and endpoint | a refused request changes nothing |
| main.c | none | start, import, connect with back-off, request loop | start after a crash, failing receive | import before the first request |
| aker_notification.c | timelines of blocking periods per MAC | build, look up, send what is due, next time | rebuilding, late wake-ups, duplicates, boundaries of periods | a notification is sent once, and when the state changes |
| aker_metrics.c | counters, ring of three snapshots | count, report | report before initialisation | counts are what happened |
| aker_rbus.c | a counter | increment, reset by both sides | wrap-around, reset against increment | the counter counts since the reset |
| aker_msgpack.c, cli.c, schedule_print.c, aker_help.c, aker_log.h, aker_mem.c, md5.c | none | formats, text, wrappers, third-party digest | none | |

How they interact: main.c → wrp_interface.c → process_data.c → `process_schedule_data()`
of scheduler.c → decode.c → schedule.c; the scheduler thread → schedule.c, time.c,
aker_notification.c, aker_metrics.c, aker_rbus.c. `RETRIEVE now` reads
`current_blocked_macs` under the lock. PROJECT.json lists every component with what is
modelled of it, and every hazard at its line.

## Plan

1. Done: `Schedule`, `Decode`, `Enforcement`, `Scheduler`, `Requests`, `Store` with its
   refinement by `Requests`, `Timeline`, `Notifier` (with batches and the counter of
   aker_rbus.c), `Reporter` (report, ring of snapshots, connection back-off).
2. Done: proofs about each of them, in eight modules (see "What is proved"). Every
   invariant and action property that a passing run checks is a theorem, some under hypotheses that are
   named there.
3. Not planned: one module with both `Requests` and `Scheduler`. They meet in
   `process_schedule_data()` only; `Requests` keeps of it that the schedule is in force, which is what
   `Scheduler` shows of a hand-over, so that the product would check nothing that the
   parts do not.

## Modules

* **Schedule** - pure operators. A linked list of `schedule_event_t` is a sequence of
  `[time, block]`; `block` holds indexes into the MAC table, counted from 1, and a block
  list is the sequence of MACs, `<< >>` for NULL. `InsertEvent` (with `InsertPosition`
  and `IsRefused`) is `insert_event()`, `FinalizeWeekly` is `finalize_schedule()`,
  `GetBlockedAtTime` with `Reached` and `BlockList` is `get_blocked_at_time()`,
  `GetNextUnixtime` is `get_next_unixtime()`. `Weekly` stands for
  `convert_unix_time_to_weekly()` over a constant operator `UTCOffset(zone, t)`.
* **Decode** - `decode_schedule()`: `pc` says whether the parser stands at an object, in
  the keys of a map or at the end; one action per kind of key, `Map`, `NotAMap`,
  `EndOfMap`, `Unreadable` and `Return`. The payload is chosen key by key, so
  every order and repetition of keys within the bounds occurs.
* **Enforcement** - the abstract specification of the scheduler: policies are installed,
  decided on, applied; a policy is never replaced between decision and application.
* **Scheduler** - the two threads. Main: `ReceiveSchedule`, `ReceiveInvalid`,
  `ReceiveDelete` (each `process_schedule_data()` up to the lock), `Swap`, `Signal`,
  `Destroy`. Thread: `Start`, `Lock`, `Evaluate`, `Apply`, `CallFirewall`,
  `UpdateTimeline`, `Sleep`, `Timeout`/`EarlyWakeUp`, `Unlock`, one turn of the loop of
  `scheduler_thread()`. `heap` maps addresses to schedules, so that freeing and reusing
  an address is visible. `tm` is the deadline of `pthread_cond_timedwait()`, which
  releases the lock and sleeps in one step. `unseen` is a history variable: a swap that
  the thread has not looked at.
* **Induction** - least elements, induction over an initial part of the numbers, and the existence
  of recursive functions: what the proofs about walks and folds rest on.
* **ScheduleProofs**, **TimelineProofs** - lemmas about the operators of the module named: what an
  insertion, a walk, a deadline, a list of periods or a batch is, for lists of any length.
* **DecodeProofs**, **SchedulerProofs**, **RequestsProofs**, **ReporterProofs**, **NotifierProofs** -
  theorems about the module named.
* **Requests** - the main thread from a request to its response, and the two files:
  `Receive`, the switch of `process_crud()` as `Unhandled`, `Reject`, `Retrieve`,
  `ProcessUpdate`, `ProcessDelete`, each file system call of `process_update()` and
  `process_delete()` as a step, `Reply`, `Send`; `Crash` at any moment, then `Verify` and
  `Import`. The calls that may fail are the values of `Faults`. `DataReads` and `Md5Reads` are
  what `read_file_from_disk()` may bring: the file, a part of it, or nothing; `Verify`, `Import` and `Retrieve`
  each read anew. A part of a payload is `Torn`, which does not decode, or one of its
  `Parts`, which does: `decode_schedule()` accepts a whole map and ignores that the next one is cut off.
  `acknowledged`, `unacknowledged`, `before`, `unnoticed` (a call failed whose result the
  code does not look at) and `misread` (so did a read of the start that put in force what is in force) are
  history.
* **Store** - the abstract specification of `Requests`: a value is put, then promised; a restart
  finds what was promised or put since, or, together with an alarm or if it was misled, nothing or a
  piece of that. `alarm` stands for `md5_err_count`, `blind` for `unnoticed`, `misled` for `misread`. A
  restart that was misled changes nothing in what the next one finds.
* **Reporter** - the periodic report. Main thread: `Import`, `Connect`, `Retry` (the loop around
  `libparodus_init()` with its back-off), `SetDeviceId` and `SetLibpd` (the two assignments
  of `aker_metric_init()`, under no lock), `Receive`. Scheduler thread: `Start`, `Look` (list and
  jitter), `Report`, `ReportWithoutId` or `NoReport`, `Sleep` (the next report time). `Rotate` is the ring
  of three snapshots. Its lists are any of those a schedule may prescribe; `Broker` lets
  parodus come and go. `reported`, `rejittered`, `taken` and `received` are history.
* **Timeline** - pure operators for the timelines of aker_notification.c.
  `TimelineEvents` expands the weekly events over two calendar weeks (`AddWeeks`, `IsIncluded`),
  adds the absolute ones (`AddAbsolute`, `IsRecent`) and merges them one by one (`AddEvents`,
  `InsertEventSorted`);
  `BuildPeriodsForMac` walks over them with the local variables of
  `build_periods_for_mac()` as a record, one case of `NextEvent` per branch
  (`StartPeriod`, `ReaffirmPeriod`, `EndPeriod`). A period keeps its four flags as the set
  `done`. `Pending`, `IsAnnounced`, `BatchesOf` with `AddMac` and `AddToBatch`, and `MarkDone` are
  `send_pending_notifications_with_state_check()`; a batch holds at most `BatchSize` MACs (256),
  and the list of its MACs has room for `ArrayRoom` of them (`Events`). `Waits` is the condition of
  `get_next_notification_time()`. The loops are recursive functions, not operators, so that
  they can be proved about.
* **Notifier** - the part of the loop of `scheduler_thread()` that deals with timelines:
  `Receive`, `Wake`, `UpdateTimeline`, `SendPending`, `Rebuild`, `Sleep`. It is a module of its own, beside
  `Scheduler`, because it needs a clock of more than two weeks and no interleaving: the
  lock is held from `Wake` to `Sleep`. `g_notification_count` is the counter of aker_rbus.c:
  `SendPending` increments it once for each event, `UpdateTimeline` resets it for a new
  schedule, and `NotificationCountSetHandler` for a client of the bus, at any time. `sent`,
  `earlier` (sent from timelines since rebuilt), `lateness` and `client_reset` are history.
* **MCDecode**, **MCScheduler**, **MCRequests**, **MCNotifier**, **MCReporter** - small values for the constants.

Operators whose comment says "Mutation of ..." are not used by any specification; each is a
plausible bug, and the property it is paired with in PROJECT.json fails under it.

## Runs that pass

* `decode` (MCDecode.cfg): buffers of at most two maps and four keys, tables of at most two
  entries among four weekly or three absolute events (time 0, an event with no MAC, one
  whose index is outside the table) or a malformed one, two zones two hours apart.
  `TypeOK`: return codes, and a schedule exactly with 0. `WeeklyEventRules`: a weekly
  schedule blocks what its latest event says, by a definition that knows neither order
  nor the prepended event. `AbsoluteWindowRules`: between two absolute events the
  weekly table is without effect. `WakesForEveryChange`: `get_next_unixtime()` is never
  later than the next change of the block list, for schedules of one kind. A week of six
  seconds and probes over more than two weeks contain every order of two events, `now`, the end
  of the week and the zone shift, which is all the operators compare.
* `scheduler` (MCScheduler.cfg): one zone, two addresses, three kinds of schedule (weekly
  with and without a zone, absolute), three requests, seven moments over a week of four
  seconds. Three requests are what it takes to replace a schedule twice while the thread
  is anywhere in its loop; two addresses are the most that are allocated at once.
  `SchedulesAreOwned` (no use after free, double free or leak), `ScheduleIsStableUnderLock`,
  `FirewallMatchesBlocked`, `NoLostWakeup`, `SleepsNoLongerThanListIsRight` (the list in force
  is right at every moment up to the deadline), `EnabledMeansBlocked` (the metric claims
  blocked devices only while there are some, though both threads set it). Under `FairSpec`: `SwapIsSeen`,
  `FirewallConverges`, and `ImplementsEnforcement`, the refinement of `Enforcement` with its
  fairness.
* `requests` (MCRequests.cfg): two payloads, one of them the first map of the other, and a malformed
  one, every type and endpoint,
  three requests, two crashes, and failing opens, writes, short writes, unflushed writes, removes and
  reads. `AcknowledgedSurvives`: between two requests the files have what was last acknowledged, and
  memory too, unless a read of the last start failed. `NothingIsLostSilently`: if memory has less than was sent, an
  md5 error was counted or a read of the last start failed. `RefusalsChangeNothing`, and
  `ImplementsStore`, the refinement of `Store`: what is in force changes by a request or a
  restart only, and what is acknowledged is what is in force. Two payloads tell old from new; two crashes
  interrupt an update and the request after it, or a start that was misled and the next one.
* `notifier` (MCNotifier.cfg): a week of eight seconds, announcements two ahead, one
  second of tolerated delay, a rebuild at ten sevenths of a week; two schedules out of
  eighteen (weekly ones whose blocks lie within a week, over its end, or go on for several
  events; pauses; pauses that tie, enclose or outlive a weekly block; four MACs at once), in two zones, received in the
  first five seconds, and a thread up to two seconds late. Seventeen seconds see the rebuild and what
  follows it. A batch takes three MACs and a list has room for two, so that four MACs fill
  the one and are too many for the other. `PeriodsAreOrdered`: periods of a MAC are not empty and never touch, for all
  schedules. `RemembersWhatWasSent`: a timeline announces nothing twice. `AnnouncesTheTruth`:
  what is announced is what the firewall does, by `get_blocked_at_time()`, which
  shares nothing with the timeline; `AnnouncesItsWeeks`: and everything it does
  is announced. Both are claimed of schedules of one kind: where both kinds are in force the code
  means to treat them differently from the firewall, and `AnnouncesItsWeeks` of at most
  `ArrayRoom` MACs. A late thread is excused from an end, from a block it slept through, and from a
  STARTING_SOON for which it wakes up in an earlier block, when `is_mac_blocked_in_timeline()`
  tells it that the MAC is blocked already. `SleepMissesNothing`: nothing falls due before the deadline, and what a full
  batch did not take brings the deadline forward, except for the end of a period in that very second:
  `get_next_notification_time()` has done with the period (aker_notification.c:1737). The four MACs
  of one schedule begin and end together, so that this happens. `CountIsOfSchedule`: the counter forgets the events of an
  earlier schedule, and has counted one for each type and time announced since,
  unless a client has reset it.
* `reporter` (MCReporter.cfg): two of four schedules with rates 2, 6 and 0 over eight seconds, four
  reports of which any may be lost, a thread up to one second late and woken twice for something
  else, a back-off of one and three seconds. Four reports fill the ring of three and push one
  out; eight seconds hold two turns of the back-off, or two of the longer rate.
  `LossesAreMadeUpFor`: a snapshot arrives unless its report and the next two are lost, reports made
  before there is a connection included. `OnlySnapshotsAreSent`: no row is bogus.
  `ReportsKeepComing`: the clock never goes past the last report, or the change of the rate, by more
  than a rate and a jitter, however often the rate changes. `ReportsKeepTheirDistance`: nothing but a new jitter brings a report
  closer than the thread reckoned. `BrokerIsFound`: parodus is found within one longest
  sleep.

Deadlock checking is off where the number of requests or the clock is bounded, since a
behaviour then ends.

## Runs that end in a counterexample

Each states what a comment or text of the source says; PROJECT.json quotes it.

* `decode_absolute_end`: an absolute event in the future takes effect early, at its time of
  week; the last absolute event comes back in later weeks, or is forgotten at the roll-over.
* `decode_next_mixed`: a pending absolute event hides earlier weekly ones from
  `get_next_unixtime()`, so that the thread sleeps through them.
* `scheduler_reuse`: the thread recognises a new schedule by its address; one that takes the
  address of a schedule freed meanwhile is not new to it, and the timeline stays old.
* `scheduler_race`: the thread sets the TZ of the schedule it holds after the main thread has
  set that of the next one; the next one is then evaluated in the wrong zone.
* `requests_conflict`: after a crash in an update the file is empty, nothing is in
  force, and CREATE answers "Schedule already present".
* `notifier_duplicate`: a timeline that has become ten days old is rebuilt after its
  notifications were sent, with cleared flags; since the first turn after ten days is
  one at which something is due, that is sent again at once. The thread is never late here.
* `reporter_unconnected`: a report that falls due before parodus was reached for the first time
  packs a device id that has not been set, and `strlen(NULL)` ends the process.

Known deviations that the models contain and no run is spent on: `NextEventIsFound`
also fails for an event at Sunday 00:00:00 and across a change of daylight saving time;
`RulesApplyUntilNewSchedule` also fails with a refused payload that names another zone
(`ReceiveInvalid`); `insert_event()` accepts a duplicate that is not at the head of the list
(`IsRefused`); a second map in a buffer leaves a stale event before the week
(`FinalizeWeekly`); `schedule_enabled` stays 0 if a delete and a create of the same list come in one turn of the
thread (`Destroy` after the unlock, `Apply` only on a change); a write that fails in `fclose()` is acknowledged and a DELETE whose files
stay is a success (`unnoticed` in `Requests`); a start reads the data file once to verify it and once more to
import it, and if the second read fails (process_data.c:164-188) nothing is in force until the next start, although
the log says that data and signature were verified and `md5_err_count` is 0 (`Import`, excepted in the
properties by `misread`; without the exception `NothingIsLostSilently` fails); an update answered 533 or 534 is in
force (`ProcessUpdate` before `OpenData`); every start without a file counts an md5 error
(`Verify`); a block that began in an earlier week is unknown to a timeline
(`IsIncluded`, excepted in the properties by `IsCarriedOver`); a thread late by one to five seconds
skips an ENDED (`Pending`: the period is over), although so much delay is allowed; the payload of all responses but those to RETRIEVE is leaked (`Send`).
A timeline ends with the calendar week after the one it was built in, so that up to three days
before its rebuild, and in a block over its end, nothing is announced (`TimelineEvents`;
aker_notification.h:31 says two weeks). A batch of more than about a hundred MACs is given up although its
MACs are marked as announced (`Events`); what a full batch did not take is left for
the next turn, and forgotten if that is late, or if it is an end, for which no turn comes (`MarkDone`,
`Waits`); MACs announced at one time are split
into several events when the walk comes to other times between them (`AddToBatch`). The rate is
looked at only when the list changes, so the jitter may be that of an older schedule
(`Look`); taking it back after a report brings the next report closer than the rate (`Rejitter`);
the turn that sees a rate of 0 may still report, although "Never report if disabled"
(`IsDue`, before `Sleep`), and a report without a schedule has the time of the last turn that had one
(`Snapshot`). Not in a model: the rows of a report are all packed with the UTC offset of the moment;
`main_loop()` inspects an uninitialised message if the first `libparodus_receive()` fails
without setting it (main.c:343); the header says that incrementing the counter publishes an event, which
the code does not.

## Fairness

`FairSpec` asks weak fairness of every step of the scheduler thread and of `Signal` and
`Destroy`: the threads are POSIX threads on a preemptive kernel. `Swap` gets strong fairness, since
the mutex is only available again and again: the thread holds it except while it sleeps and at
the top of its loop, and a waiting main thread gets it eventually. There is no fairness on requests, on
the clock, or on `EarlyWakeUp`; the deadline wakes the thread only if time gets there.

## What is proved

Each theorem holds for every value of the constants: any schedules, payloads, zones, faults,
rates and batch sizes, and any bounds. It rests on the named assumptions of the modules and on
the hypotheses it states; PROJECT.json lists the theorems. The schedules and zones of the runs
`scheduler` and `notifier` satisfy the hypotheses of the theorems about them. In every module
that has states the argument is an inductive invariant, `IInv`; its parts are named below.

**Schedule** (`ScheduleProofs`, lemmas). `insert_event()` keeps a list in order of time
(`InsertKeepsSorted`), and a weekly list of one map is complete after `finalize_schedule()`
(`FinalizeWeeklyIsFinal`: in order, of one week, and with the last event also a week earlier unless
the week starts with an event).
The walk of `get_blocked_at_time()` ends at one event only (`ReachedIs`). `get_next_unixtime()`
is a number not before `now` (`NextUnixtimeIs`), and the block list is the same at every moment before it
(`AbsoluteListLasts`, `WeeklyListLasts`).

**Decode** (`DecodeProofs`). `TypeCorrect` and `AbsoluteWindowsHold` have no hypotheses:
`ProgressInv` follows the parser through maps and keys, `AbsoluteInv` says that the absolute list
is in order all the time. `WeeklyEventsRule` and `WakesInTime` ask for weekly times of one week: the code
takes any number (decode.c:257). `WeeklyInv` says that the weekly list is in order until
its first map ends and final then; a second map would insert an event before the week again, so the
properties speak of payloads of one map. `WakesInTime` also asks for zones that keep their offset,
and moments before `INT_MAX`.

**Scheduler** (`SchedulerProofs`). `TypeCorrect`, `OwnershipHolds`, `FirewallIsReported`,
`WakeupIsNotLost`, `EnabledIsTrue` and `ScheduleIsStable` follow from `Invariance`. `IInv`
conjoins `TypeOK`, `SchedulesAreOwned`, `LockInv`, `ListInv` and `NoLostWakeup`. `LockInv` says that the
lock is held exactly in the body of the loop, and that while it is held no swap is unseen; without the
second part `NoLostWakeup` is not inductive, since `Sleep` releases the lock and must know that
nothing was swapped meanwhile. `ListInv` says that the list is empty before the loop, and that the
firewall may lag behind `current_blocked_macs`, and the metric behind the list, only between
`Evaluate` and `CallFirewall`.

In one zone (`OneZone`) the list is what the rules prescribe when the thread has looked at them
(`DecidedInv`), hence `RulesApplyInOneZone`, and every step is one of `Enforcement` or none
(`EnforcementIsImplemented`, the safety part of the refinement). `DeadlineIsRight` says that the thread
never sleeps past a change of the list. It needs four hypotheses, each with a counterexample where it
fails: one zone (`scheduler_race`); no daylight saving time (the distance to a weekly event is
reckoned with the offset of now); schedules of one kind, with a final weekly list and no event at
Sunday 00:00:00 (`IsServed`; `decode_next_mixed` is a schedule of both kinds; an event at 0 is no target when
the search wraps); and a clock before `INT_MAX`, which `get_next_unixtime()` takes for "never".
That weekly lists are final is what `DecodeProofs` shows of `decode_schedule()`.

**Requests** (`RequestsProofs`). `TypeCorrect`, `AcknowledgedIsKept`, `LossIsNoticed`,
`RefusalsAreHarmless`, and `StoreIsImplemented`, the refinement of `Store` (which states no
fairness, so that all of it is safety). The properties speak of the moments between two requests;
`IInv` says what holds at each step in between: `UpdateInv` and `DeleteInv` that the request in
progress is in force and not yet acknowledged, `ResultInv` that `rv` says of the files what is true of
them, as far as the code has looked, `FilesInv` that the data file never holds a schedule that was
neither acknowledged nor sent later nor is a part of one that was, `MemoryInv` the same of memory, `StartInv` that a start
whose file has no such schedule has counted an error, or was misled by a read. `IsForgotten` is the one exception: what a
DELETE acknowledged as gone and `remove()` left behind. The only thing asked of `Parts` is that a part of a part is a part.
Each step of `Requests` is then a step of the store or none (`StepImplementsStep`); the import is a `Recover`, whatever
was read.

**Reporter** (`ReporterProofs`). `TypeCorrect`, `TwoLossesDoNoHarm`, `NothingBogusIsSent`,
`ReportsAreApart`, `SilenceIsBounded` and `ParodusIsFound`. `RingInv` says that the ring has the latest
snapshots, newest first, and that `valid_count` is their number; the rows in a report are then known.
`TimesInv` says that `last_report_time` is the time of the last report unless a jitter came since;
`SilenceInv` that the thread reckons from the last report and at most one jitter; `BackoffInv` that a
parodus that is there while `main_loop()` sleeps came during this sleep, which needs that powers of two grow.

**Timeline and Notifier** (`TimelineProofs`, `NotifierProofs`), for schedules with event lists and
a MAC table, in zones that have an offset at every time, before `INT_MAX` (`AreWellFormed`).
`TypeCorrect`: `TurnInv` says that a timeline is brought up to date before it is used and
that a turn has one time, and without it neither the table of periods nor the delay of a wake-up
stays within its bounds. `NothingIsSleptOver`: `DeadlineInv` says that the thread sleeps no
longer than `get_next_notification_time()` told it, which is no later than what any period waits for
(`NextNotificationTimeIs`); what would be sent is waited for, the end in the second of the turn excepted.

`PeriodsAreApart` and `NothingIsSentAgain` ask in addition for lists without two events at one time,
final weekly lists (payloads of one map) and zones that keep their offset (`AreApart`). The list of events is then in order, absolute events
before weekly ones at one time (`TimelineEventsAre`), and weekly events of different weeks at one time
say the same (`WeeklyTies`: the prepended event falls on the last one of the week before). `WalkInv` says of each event in the walk that
the periods so far are over, that the open one began after them, and that a weekly event that ends or
begins a period agrees with all others of that second (`BuildPeriodsAre`). Since
the periods are apart, type and time of a notification tell its period and its kind (`NotificationTells`), and
sending it marks that one (`MarkDoneIs`). The hypothesis is needed: `insert_event()` refuses a
duplicate at the head of a list only, and a list that blocks a MAC at a second in which it is also
released, in this order or the other, makes two periods that touch; then an end and a start in one second
contradict each other. `CounterStartsAtZero` is the first half of `CountIsOfSchedule`, and more, as it
holds at every moment: events are not empty (`BatchIs`), so that nothing counts that announces nothing.
`CounterTellsOfTheSchedule` is all of it, if the counter does not reach `CountRange` between two
schedules (`CounterDoesNotWrap`; it is false once the counter wraps around). `CountsPairs` says that
types and times are no more than events: an event has one type and one time (`EventsTellOnePairEach`).

`TellsTheTruth` compares two computations over the same lists that share nothing: the walk of
`build_periods_for_mac()` over two weeks of events, and the look-up of `get_blocked_at_time()`
with the weekly clock. It is proved in five steps, for a MAC and the set B of the times at which the
firewall blocks it. (1) The list of events holds exactly the events that are included
(`TimelineEventsAdds`). (2) It tells of B: B changes at no other time than that of an event, and
each event says what B is from then on (`IsToldBy`; `WeeklyIsTold`, `AbsoluteIsTold`). (3) A walk over
events of one kind makes periods that tell of B: B holds within a period and not at its
end, and not before its start either, unless it has held since the first time the timeline knows; and from the time of
building to the last period, B holds outside of the periods in that one case only (`Tell`,
`PeriodsTell`). (4) Marking changes none of this, and the timeline in use is always that of the schedule
in force, `TellsInv`. (5) What is announced of such periods is true of B (`AnnouncedIsTrue`).
`TellsTheTruth` asks for `AreWellFormed`, `AreApart`, and MAC tables that name no MAC twice and
hold every index (`KnowTheirMacs`). The code takes other payloads, and is wrong about them: a MAC that has
two indexes is blocked by either and has a timeline for each; one index outside of the table
makes `get_blocked_at_time()` return no list at all, which no timeline knows.

`AnnouncesEveryBlock` is the converse: every block of the weeks of a timeline has been announced. It
asks for the same as `TellsTheTruth`, and for `Late < Advance` (5 and 900 seconds in the code) and
`ArrayRoom <= BatchSize` (about 100 and 256); the run has 1 and 2, and 2 and 3. (1) The periods also know
the ends of B: a block that begins after the start of the week and ends before the last event is a period
(`KnowsEndsOf`, a part of `TellsInv`; `IsBlockOf`, `PeriodOfBlock`). (2) `SaysInv` says of every
notification that deserves it (`Deserves`: what the period, the others of the MAC and the delay of the
thread allow) that its flag is set only if it was sent, that it is set after the turn in which it was due,
and that before this turn it is due for no longer than the thread is late (`IsSaid`). The last part holds as
the thread sleeps over nothing (`DeadlineInv`); it makes a notification that is due also pending
(`DeservedIsAnnounced`), which is where the delay and the gaps between blocks come in. (3) A notification
that is announced is in a batch that does not exceed the MACs of the schedule, as periods that are
apart give each type and MAC one entry (`OneOfEachType`, `AllAreBatched`); so it is sent and marked in one
turn (`SendingSays`). The proof does not go through for a STARTING_SOON that a late thread
finds inside of an earlier block: the code then sends nothing, rightly by its own look-up, and the property
excepts this case (`isFree`), which the bounds of the run do not contain.

**Only model-checked:**

* liveness (`SwapIsSeen`, `FirewallConverges`) and the fairness of the refinement of `Enforcement`:
  weak and strong fairness speak of ENABLED, which is outside of the prover.

The library's induction theorems take an operator as a parameter, which the prover cannot
instantiate. Induction over numbers is therefore stated with sets (`RangeInduction`), and the
existence of a recursive function, which the definition by CHOOSE does not give, is
a theorem about graphs of steps (`RecursionExists`, `NatRecursionExists`).

## Not modelled

Failing allocations; signal handlers and `cleanup()` at exit; msgpack, WRP and JSON encodings; that
`strncmp()` accepts a prefix of a key; a `struct tm` torn between two threads; the text of
notifications, the line of metrics in the log, and all but one of the counters in a report; opening and
closing RBUS, and GET; an `access()` that fails on a file that exists, or an `fseek()` that fails
(process_data.c:59, 171); that a signature file that is too short is compared with the memory behind it
(aker_md5.c:93), which is taken not to match; power loss that loses what the kernel had not written; options, and a failing
`libparodus_receive()`; the command line tool and printing. Sizes that are one machine word wide in the code
(times, counts of events) are unbounded here, except for the counters of `Reporter`
(`CounterRange`) and of `Notifier` (`CountRange`).
