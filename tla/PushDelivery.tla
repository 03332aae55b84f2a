--------------------------- MODULE PushDelivery ---------------------------
(***************************************************************************)
(* What the phones of the staff are told: db/push-notifications.ts, the    *)
(* route they ask and the service worker that asks it (public/sw.js).      *)
(*                                                                         *)
(* A push carries nothing: it wakes the phone, which asks the server what  *)
(* to show.  An event of the store wakes every phone once; a schedule does *)
(* so once a day.  Any number of requests report the same event or find    *)
(* the same schedule due, each may die at any point, a push or an answer   *)
(* may be lost, and a phone may be woken twice at once.                    *)
(***************************************************************************)
EXTENDS Naturals, Sequences, SequencesExt

CONSTANTS
  Schedules, Events,
  Devices,
  Senders,             \* requests and cron calls that send (a bound)
  Wakes,               \* wakeups a phone serves at once (a bound)
  MaxDays, MaxUpsets   \* bounds

ASSUME PushConstants == MaxDays \in Nat \ {0} /\ MaxUpsets \in Nat

VARIABLES
  clock,      \* the day, and whether it is evening
  schedule,   \* push_notification_schedules
  wanted,     \* push_operational_settings, of one type of event
  events,     \* push_operational_events, the latest last
  device,     \* push_subscriptions: on, off, gone
  sender,     \* dispatchDueSalesBriefing and dispatchOperationalPush under way
  waking,     \* pushes on their way to each phone
  wake,       \* what each wakeup of a phone is at
  delivered,  \* push_operational_deliveries
  sent,       \* how often a phone was woken for an event, or for a schedule on a day
  told,       \* how often it showed an event
  missed,     \* the phones that were off, or missed a push or an answer
  met,        \* the phones that served two wakeups at once
  upsets      \* how many edits, stops and losses there were

pvars == <<clock, schedule, wanted, events, device, sender, waking, wake, delivered, sent, told,
           missed, met, upsets>>

Upset == upsets < MaxUpsets /\ upsets' = upsets + 1
Rest == [pc |-> "idle"]
DeliveryTimes == {"morning", "evening"}
Add(f, k) == [x \in DOMAIN f \cup {k} |-> (IF x \in DOMAIN f THEN f[x] ELSE 0) + IF x = k THEN 1 ELSE 0]
Never == [x \in {} |-> 0]

\* The push for an event, and that for a schedule on a day, to one phone.
EventPush(e, d) == [kind |-> "event", of |-> e, day |-> 0, device |-> d]
BriefingPush(s, day, d) == [kind |-> "briefing", of |-> s, day |-> day, device |-> d]

PushInit ==
  /\ clock = [day |-> 1, time |-> "morning"]
  /\ schedule = [s \in Schedules |-> [status |-> "on", at |-> "evening", last |-> 0, again |-> FALSE]]
  /\ wanted = TRUE /\ events = <<>>
  /\ device \in [Devices -> {"on", "off"}] /\ missed = {d \in Devices : device[d] = "off"}
  /\ sender = [h \in Senders |-> Rest]
  /\ waking = [d \in Devices |-> 0]
  /\ wake = [d \in Devices |-> [k \in Wakes |-> Rest]]
  /\ delivered = {} /\ sent = Never /\ told = Never
  /\ met = {} /\ upsets = 0

DayPasses ==
  /\ \/ clock.time = "morning" /\ clock' = [clock EXCEPT !.time = "evening"]
     \/ clock.time = "evening" /\ clock.day < MaxDays /\ clock' = [day |-> clock.day + 1, time |-> "morning"]
  /\ UNCHANGED <<schedule, wanted, events, device, sender, waking, wake, delivered, sent, told, missed, met, upsets>>

-----------------------------------------------------------------------------
(* The settings: savePushSchedules keeps the day of what it does not name,  *)
(* and drops the schedules that are not in the list; the phones.            *)

SaveSchedule(s, status, at) ==
  /\ schedule[s].status # "gone" /\ Upset
  /\ schedule' = [schedule EXCEPT ![s] = [@ EXCEPT !.status = status, !.at = at]]
  /\ UNCHANGED <<clock, wanted, events, device, sender, waking, wake, delivered, sent, told, missed, met>>

\* ensurePushNotificationSchema, with which every new worker begins, puts back
\* the default schedule that was deleted, and its old last day.
WorkerStarts(s) ==
  /\ schedule[s].status = "gone"
  /\ schedule' = [schedule EXCEPT ![s] = [status |-> "on", at |-> "evening", last |-> 0, again |-> TRUE]]
  /\ UNCHANGED <<clock, wanted, events, device, sender, waking, wake, delivered, sent, told, missed, met, upsets>>
SaveSettings ==
  /\ Upset /\ wanted' = ~wanted
  /\ UNCHANGED <<clock, schedule, events, device, sender, waking, wake, delivered, sent, told, missed, met>>

\* registerPushSubscription and setPushDeviceEnabled, deletePushDevice: what
\* was sent while the phone was off is not made good.
SetDevice(d, status) ==
  /\ device[d] \notin {status, "gone"} /\ Upset
  /\ device' = [device EXCEPT ![d] = status]
  /\ missed' = missed \cup {d}
  /\ UNCHANGED <<clock, schedule, wanted, events, sender, waking, wake, delivered, sent, told, met>>

-----------------------------------------------------------------------------
(* The senders.                                                            *)

Enabled == {d \in Devices : device[d] = "on"}
Due(s) ==
  /\ schedule[s].status = "on" /\ schedule[s].last # clock.day
  /\ schedule[s].at = "evening" => clock.time = "evening"
Start(h, first) == sender[h] = Rest /\ sender' = [sender EXCEPT ![h] = first]
Goes(h, next) == sender' = [sender EXCEPT ![h] = next]

BriefingRead(h) ==
  /\ \E s \in Schedules : Due(s)
  /\ Start(h, [pc |-> "claim", due |-> {s \in Schedules : Due(s)}, mine |-> {}, day |-> clock.day])
  /\ UNCHANGED <<clock, schedule, wanted, events, device, waking, wake, delivered, sent, told, missed, met, upsets>>
\* Mutant of Claims: the day is not looked at again.
ClaimsAgain(s, day) == schedule[s].status = "on"
Claims(s, day) == schedule[s].status = "on" /\ schedule[s].last # day
Claimed(of, day) == [of EXCEPT !.last = day, !.again = @ \/ day # clock.day]
BriefingClaim(h) ==
  /\ sender[h].pc = "claim" /\ sender[h].due # {}
  /\ \E s \in sender[h].due :
       /\ schedule' = IF Claims(s, sender[h].day) THEN [schedule EXCEPT ![s] = Claimed(@, sender[h].day)] ELSE schedule
       /\ Goes(h, [pc |-> "claim", due |-> sender[h].due \ {s}, day |-> sender[h].day,
                   mine |-> sender[h].mine \cup {x \in {s} : Claims(x, sender[h].day)}])
  /\ UNCHANGED <<clock, wanted, events, device, waking, wake, delivered, sent, told, missed, met, upsets>>
\* The phones are read once, for all of them.
BriefingRows(h) ==
  /\ sender[h].pc = "claim" /\ sender[h].due = {}
  /\ Goes(h, IF sender[h].mine = {} THEN Rest
             ELSE [pc |-> "send", todo |-> {BriefingPush(s, sender[h].day, d) : s \in sender[h].mine, d \in Enabled}])
  /\ UNCHANGED <<clock, schedule, wanted, events, device, waking, wake, delivered, sent, told, missed, met, upsets>>

\* Something happens in the store, and a request reports it; another may report
\* the same again.
Report(h, e) ==
  /\ wanted
  /\ Start(h, [pc |-> "record", event |-> e])
  /\ UNCHANGED <<clock, schedule, wanted, events, device, waking, wake, delivered, sent, told, missed, met, upsets>>
\* Mutant of Recorded: a repeated report is recorded once more.
RecordedAgain(e) == FALSE
Recorded(e) == e \in ToSet(events)
\* INSERT OR IGNORE by dedup_key, then the phones.
Record(h) ==
  /\ sender[h].pc = "record"
  /\ events' = IF Recorded(sender[h].event) THEN events ELSE Append(events, sender[h].event)
  /\ Goes(h, IF Recorded(sender[h].event) THEN Rest ELSE [pc |-> "rows", event |-> sender[h].event])
  /\ UNCHANGED <<clock, schedule, wanted, device, waking, wake, delivered, sent, told, missed, met, upsets>>
EventRows(h) ==
  /\ sender[h].pc = "rows"
  /\ Goes(h, [pc |-> "send", todo |-> {EventPush(sender[h].event, d) : d \in Enabled}])
  /\ UNCHANGED <<clock, schedule, wanted, events, device, waking, wake, delivered, sent, told, missed, met, upsets>>

\* dispatchRows, one phone: the push service takes it, refuses it, or says that
\* the phone is gone (404, 410).
Send(h, result) ==
  /\ sender[h].pc = "send"
  /\ \E one \in sender[h].todo :
       /\ Goes(h, [pc |-> "send", todo |-> sender[h].todo \ {one}])
       /\ sent' = Add(sent, one)
       /\ waking' = IF result = "taken" THEN [waking EXCEPT ![one.device] = @ + 1] ELSE waking
       /\ IF result = "taken" THEN UNCHANGED <<missed, upsets>> ELSE Upset /\ missed' = missed \cup {one.device}
       /\ device' = IF result = "expired" /\ device[one.device] = "on" THEN [device EXCEPT ![one.device] = "off"] ELSE device
  /\ UNCHANGED <<clock, schedule, wanted, events, wake, delivered, told, met>>
SendDone(h) ==
  /\ sender[h].pc = "send" /\ sender[h].todo = {}
  /\ Goes(h, Rest)
  /\ UNCHANGED <<clock, schedule, wanted, events, device, waking, wake, delivered, sent, told, missed, met, upsets>>
\* The worker ends before its task does: nobody takes it up.
SenderDies(h) ==
  /\ sender[h] # Rest /\ Goes(h, Rest) /\ Upset /\ missed' = Devices
  /\ UNCHANGED <<clock, schedule, wanted, events, device, waking, wake, delivered, sent, told, met>>

-----------------------------------------------------------------------------
(* The phone: the service worker asks notificationForDevice.                *)

Woken(d, k, w) == wake' = [wake EXCEPT ![d][k] = w]
PushLost(d) ==
  /\ Upset /\ waking[d] > 0 /\ waking' = [waking EXCEPT ![d] = @ - 1]
  /\ missed' = missed \cup {d}
  /\ UNCHANGED <<clock, schedule, wanted, events, device, sender, wake, delivered, sent, told, met>>
\* Mutant of Untold: what another phone was told counts as told.
UntoldAnywhere(d) == {i \in DOMAIN events : \A x \in Devices : <<events[i], x>> \notin delivered}
Untold(d) == {i \in DOMAIN events : <<events[i], d>> \notin delivered}
\* The newest event that the phone was not told; with none it shows the sales.
Ask(d, k) ==
  /\ waking[d] > 0 /\ wake[d][k] = Rest
  /\ waking' = [waking EXCEPT ![d] = @ - 1]
  /\ \/ (device[d] # "on" \/ Untold(d) = {}) /\ UNCHANGED wake
     \/ /\ device[d] = "on"
        /\ \E i \in Untold(d) : (\A j \in Untold(d) : j <= i) /\ Woken(d, k, [pc |-> "mark", event |-> events[i]])
  /\ met' = IF \E j \in Wakes : wake[d][j] # Rest THEN met \cup {d} ELSE met
  /\ UNCHANGED <<clock, schedule, wanted, events, device, sender, delivered, sent, told, missed, upsets>>
Mark(d, k) ==
  /\ wake[d][k].pc = "mark"
  /\ delivered' = delivered \cup {<<wake[d][k].event, d>>}
  /\ Woken(d, k, [pc |-> "answer", event |-> wake[d][k].event])
  /\ UNCHANGED <<clock, schedule, wanted, events, device, sender, waking, sent, told, missed, met, upsets>>
\* When the request or its answer is lost the phone shows a general text.
Show(d, k) ==
  /\ wake[d][k].pc = "answer"
  /\ told' = Add(told, <<wake[d][k].event, d>>)
  /\ Woken(d, k, Rest)
  /\ UNCHANGED <<clock, schedule, wanted, events, device, sender, waking, delivered, sent, missed, met, upsets>>
AnswerLost(d, k) ==
  /\ wake[d][k] # Rest /\ Woken(d, k, Rest) /\ Upset
  /\ missed' = missed \cup {d}
  /\ UNCHANGED <<clock, schedule, wanted, events, device, sender, waking, delivered, sent, told, met>>

PushNext ==
  \/ DayPasses \/ SaveSettings
  \/ \E s \in Schedules : WorkerStarts(s)
  \/ \E s \in Schedules, status \in {"on", "off", "gone"}, at \in DeliveryTimes : SaveSchedule(s, status, at)
  \/ \E d \in Devices : PushLost(d) \/ \E status \in {"on", "off", "gone"} : SetDevice(d, status)
  \/ \E d \in Devices, k \in Wakes : Ask(d, k) \/ Mark(d, k) \/ Show(d, k) \/ AnswerLost(d, k)
  \/ \E h \in Senders :
       \/ BriefingRead(h) \/ BriefingClaim(h) \/ BriefingRows(h) \/ Record(h) \/ EventRows(h)
       \/ SendDone(h) \/ SenderDies(h)
       \/ \E e \in Events : Report(h, e)
       \/ \E result \in {"taken", "refused", "expired"} : Send(h, result)
PushSpec == PushInit /\ [][PushNext]_pvars

-----------------------------------------------------------------------------
\* A phone is woken at most once for an event, however many requests report
\* it, and at most once a day for a schedule, however many find it due and
\* whatever is edited meanwhile, unless the schedule was deleted and put back,
\* or claimed after midnight by a request that found it due the day before; it
\* shows an event at most once, unless it served two wakeups at once, which may
\* both read the same event.
AtMostOnce ==
  /\ \A one \in DOMAIN sent : sent[one] = 1 \/ (one.kind = "briefing" /\ schedule[one.of].again)
  /\ \A one \in DOMAIN told : one[2] \in met \/ told[one] = 1

\* A phone that missed nothing was shown every event when it has served its
\* wakeups, although a wakeup does not say what it is for and a schedule's may
\* come in between.
NothingUntold ==
  \A d \in Devices \ (missed \cup met) :
    /\ \A h \in Senders : sender[h] = Rest
    /\ waking[d] = 0
    /\ \A k \in Wakes : wake[d][k] = Rest
    => \A e \in Events : EventPush(e, d) \in DOMAIN sent => <<e, d>> \in DOMAIN told

ToldOnce == AtMostOnce /\ NothingUntold
=============================================================================
