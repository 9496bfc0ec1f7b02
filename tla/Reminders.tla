--------------------------------- MODULE Reminders ---------------------------------
(***************************************************************************)
(* The reminders one user gets: scans that run every hour, may take longer *)
(* than that and may run in two processes, each deciding from what it read *)
(* whether to send, recording that it did, and only then sending.          *)
(*                                                                         *)
(* A reminder is about a thing that needs attention for some days; it is   *)
(* said once (a bill that falls due), or once a day with a cooldown (an    *)
(* expected transaction that is overdue).                                  *)
(***************************************************************************)
EXTENDS Integers, Bags

CONSTANTS
    Scan,       \* scans that may run at the same time
    Once,       \* things to be said once
    Daily,      \* things to be said again and again
    Window,     \* the days on which each is true, as <<first, last>>
    PerDay,     \* hours of the day, scaled down
    Cooldown,   \* the cooldown of daily reminders, in hours
    Horizon,    \* bound: the last hour
    Preferences,\* the preferences the user may have
    None

Thing == Once \cup Daily
Channel == {"discord", "web_push"}

VARIABLES
    now,        \* the hour
    prefs,      \* [discord, push: enabled and there is an address; muted, quietFrom,
                \* quietTo: the quiet hours, the same without them]
    settled,    \* things the user has dealt with
    log,        \* notification_log: [thing, day, channel, at]
    sent,       \* the bag of deliveries, as <<thing, day, channel>>
    scan,       \* what each scan has read and where it is
    changed,    \* bound: the user changes preferences once
    crossed     \* history: things about which two scans decided at the same time

vars == <<now, prefs, settled, log, sent, scan, changed, crossed>>

Day(t) == t \div PerDay
Key(x, d) == IF x \in Daily THEN d ELSE 0

\* A row of notification_log, and where a scan is: at which hour it began, what it has
\* still to decide about, and what it has decided to send.
Record == [thing : Thing, day : Nat, channel : Channel, at : Nat]
Scanning ==
    [step : {"next", "record", "deliver"}, at : Nat, channel : Channel, todo : SUBSET Thing,
     thing : Thing \cup {None}]

Idle == [step |-> "idle"]

\* A scan goes to its next candidate, or is over.
Onward(j) == IF j.todo = {} THEN Idle ELSE [j EXCEPT !.step = "next", !.thing = None]

Init ==
    /\ now = 0
    /\ prefs \in Preferences
    /\ settled = {} /\ log = {} /\ changed = FALSE /\ crossed = {}
    /\ sent = EmptyBag
    /\ scan = [s \in Scan |-> Idle]

-------------------------------------------------------------------------------

\* Discord comes first; web push only replaces it (scanUser).
ChannelOf(p) == IF p.discord THEN "discord" ELSE IF p.push THEN "web_push" ELSE None

\* isQuietHours, also over midnight.  Mutant: not over midnight.
BetweenOnly(h, from, to) == from <= h /\ h < to

QuietHours(h, from, to) ==
    \/ from < to /\ from <= h /\ h < to
    \/ to < from /\ (from <= h \/ h < to)

IsQuiet(t) == QuietHours(t % PerDay, prefs.quietFrom, prefs.quietTo)

\* detectCandidates, from what is true and not settled at the hour the scan began.
Candidates(t) ==
    {x \in Thing \ settled : Window[x][1] <= Day(t) /\ Day(t) <= Window[x][2]}

\* runNotificationScan and scanUser, up to the first candidate: nothing is sent in
\* quiet hours, without a channel, or about what is muted.
Begin(s) ==
    /\ scan[s] = Idle
    /\ ~IsQuiet(now)
    /\ ChannelOf(prefs) # None
    /\ Candidates(now) \ prefs.muted # {}
    /\ scan' = [scan EXCEPT ![s] =
                  [step |-> "next", at |-> now, channel |-> ChannelOf(prefs),
                   todo |-> Candidates(now) \ prefs.muted, thing |-> None]]
    /\ UNCHANGED <<now, prefs, settled, log, sent, changed, crossed>>

\* shouldSend, with the records of the thing that listRecentNotifications returns.
Recent(x, c, t) == {r \in log : r.thing = x /\ r.channel = c /\ r.at > t - Cooldown}

\* Mutant: once a day is enough.
AllowedNextDay(x, c, t) == x \in Once \/ \A r \in Recent(x, c, t) : r.day # Day(t)

Allowed(x, c, t) == x \in Once \/ Recent(x, c, t) = {}

\* The candidates are taken one after the other.
Decide(s, x) ==
    LET j == scan[s]
        rest == [j EXCEPT !.todo = @ \ {x}]
    IN
    /\ j.step = "next"
    /\ x \in j.todo
    /\ scan' = [scan EXCEPT ![s] =
                  IF Allowed(x, j.channel, j.at)
                  THEN [rest EXCEPT !.step = "record", !.thing = x] ELSE Onward(rest)]
    /\ UNCHANGED <<now, prefs, settled, log, sent, changed, crossed>>

\* Mutant: a record that is there already is not noticed.
RecordedUnlike(r) == {}

RecordedLike(r) == {q \in log : q.thing = r.thing /\ q.day = r.day /\ q.channel = r.channel}

\* recordNotificationSent: an insert that does nothing when user, key and channel are
\* there.  Another scan may have recorded since this one decided.
RecordSent(s) ==
    LET j == scan[s]
        x == j.thing
        r == [thing |-> x, day |-> Key(x, Day(j.at)), channel |-> j.channel, at |-> now]
    IN
    /\ j.step = "record"
    /\ IF RecordedLike(r) = {}
       THEN /\ log' = log \cup {r}
            /\ scan' = [scan EXCEPT ![s].step = "deliver"]
       ELSE /\ scan' = [scan EXCEPT ![s] = Onward(j)]
            /\ UNCHANGED log
    /\ crossed' = IF \E q \in Scan \ {s} : scan[q].step = "record" /\ scan[q].thing = x
                  THEN crossed \cup {x} ELSE crossed
    /\ UNCHANGED <<now, prefs, settled, sent, changed>>

\* deliver: an error is logged and nothing more comes of it.
Deliver(s, fails) ==
    LET j == scan[s]
        x == j.thing
    IN
    /\ j.step = "deliver"
    /\ sent' = IF fails THEN sent
               ELSE sent (+) SetToBag({<<x, Key(x, Day(j.at)), j.channel>>})
    /\ scan' = [scan EXCEPT ![s] = Onward(j)]
    /\ UNCHANGED <<now, prefs, settled, log, changed, crossed>>

\* The process ends, or an error ends the scan, wherever it was.
End(s) ==
    /\ scan[s] # Idle
    /\ scan' = [scan EXCEPT ![s] = Idle]
    /\ UNCHANGED <<now, prefs, settled, log, sent, changed, crossed>>

Tick ==
    /\ now < Horizon
    /\ now' = now + 1
    /\ UNCHANGED <<prefs, settled, log, sent, scan, changed, crossed>>

\* The user confirms, pays or reviews; links or unlinks a channel or mutes a reminder
\* (saveNotificationPreferences, subscribe, unsubscribe, a dead push address).
Settle(x) ==
    /\ x \notin settled
    /\ settled' = settled \cup {x}
    /\ UNCHANGED <<now, prefs, log, sent, scan, changed, crossed>>

ChangePrefs ==
    /\ ~changed
    /\ changed' = TRUE
    /\ prefs' \in Preferences
    /\ UNCHANGED <<now, settled, log, sent, scan, crossed>>

Next ==
    \/ \E s \in Scan :
        \/ Begin(s) \/ RecordSent(s) \/ End(s)
        \/ \E x \in Thing : Decide(s, x)
        \/ \E fails \in BOOLEAN : Deliver(s, fails)
    \/ Tick
    \/ \E x \in Thing : Settle(x)
    \/ ChangePrefs

Spec == Init /\ [][Next]_vars

-------------------------------------------------------------------------------
(* Properties                                                              *)

\* What was delivered was recorded before, under the same day and channel; nothing has
\* been decided or recorded in the future.
TypeOK ==
    /\ now \in 0..Horizon
    /\ prefs \in Preferences
    /\ settled \subseteq Thing
    /\ log \subseteq Record
    /\ \A r \in log : r.at <= now
    /\ IsABag(sent)
    /\ BagToSet(sent) \subseteq {<<r.thing, r.day, r.channel>> : r \in log}
    /\ scan \in [Scan -> Scanning \cup {Idle}]
    /\ \A s \in Scan : scan[s].step \in {"record", "deliver"} => scan[s].thing \in Thing
    /\ \A s \in Scan : scan[s] # Idle => scan[s].at <= now
    /\ changed \in BOOLEAN
    /\ crossed \subseteq Thing

\* Scans may overlap, stop anywhere and run again: a reminder of one day reaches a
\* channel once at most.
SaidOnce == \A k \in BagToSet(sent) : sent[k] = 1

\* Reminders of one thing keep their distance on a channel, also over midnight, where
\* the key changes: what two scans decided about a thing at the same time is the one
\* exception.
CooldownKept ==
    \A r, q \in log :
        r # q /\ r.thing = q.thing /\ r.channel = q.channel /\ r.thing \notin crossed =>
            (r.at - q.at >= Cooldown \/ q.at - r.at >= Cooldown)

\* dedup.ts, without that exception: what was said within the cooldown is not said again.
NotSaidAgain ==
    \A r, q \in log : r # q /\ r.thing = q.thing /\ r.channel = q.channel =>
        (r.at - q.at >= Cooldown \/ q.at - r.at >= Cooldown)

\* No scan begins in the quiet hours, which last from the first hour to the second,
\* over midnight if the second is the smaller one; a scan that began before them may
\* still send in them.
HoursFrom(a, b) == (b - a) % PerDay

BeginsOutside ==
    \A s \in Scan : scan[s] = Idle /\ scan'[s] # Idle =>
        HoursFrom(prefs.quietFrom, now % PerDay) >= HoursFrom(prefs.quietFrom, prefs.quietTo)

QuietIsKept == [][BeginsOutside]_vars

=============================================================================
