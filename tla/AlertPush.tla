---- MODULE AlertPush ----
(***************************************************************************)
(* The alerts table (routers/_alerts.py, routers/alerts.py) and the bot     *)
(* that pushes ACTIVE alerts to Telegram (bot/poller.py): every tick it     *)
(* lists them, newest first and page by page, with the token of the first   *)
(* linked user the API accepts, sends those above its mark, and saves the   *)
(* highest id it listed as the new mark.  The API answers a page with two   *)
(* SELECTs, one for the total and one for the items, and the table may      *)
(* change in between.                                                       *)
(*                                                                          *)
(* SQLite has one writer at a time, so ids are committed in their order.    *)
(* Every alert has channel BOTH, the column's default; no code sets it.     *)
(***************************************************************************)
EXTENDS Naturals, FiniteSetsExt

CONSTANTS
  Condition,    \* what alerts are about: alert type and entity
  NoCondition,  \* of a row that does not exist yet
  MaxAlert,     \* bound: rows of the alerts table
  MaxUser,      \* bound: Telegram users, by telegram_user_id
  Page,         \* _PAGE_LIMIT
  LinkLimit,    \* bound: /link commands
  FaultLimit    \* bound: crashes of the bot, and failed requests of its ticks

ASSUME AlertPushAssumption ==
  /\ NoCondition \notin Condition
  /\ MaxAlert \in Nat /\ MaxUser \in Nat
  /\ Page \in Nat \ {0}
  /\ LinkLimit \in Nat /\ FaultLimit \in Nat

AlertId == 1 .. MaxAlert
User == 1 .. MaxUser

VARIABLES
  alerts,     \* the alerts table
  linked,     \* linked_users of the bot: the token of each user
  mark,       \* last_seen_alert_id of the bot
  bot,        \* the tick in progress
  pushed,     \* alerts that were sent to those who were linked then, if anyone was
  repeated,   \* alerts that were sent more than once
  shifted,    \* the list changed while a tick was reading it
  links,      \* /link commands so far
  faults      \* crashes and failed requests so far

vars == <<alerts, linked, mark, bot, pushed, repeated, shifted, links, faults>>

AlertRow == [condition : Condition \cup {NoCondition},
             status : {"ABSENT", "ACTIVE", "ACKNOWLEDGED", "RESOLVED"}]
NoAlert == [condition |-> NoCondition, status |-> "ABSENT"]
Active == {a \in AlertId : alerts[a].status = "ACTIVE"}

(* "none": not linked.  The API answers 401 to an expired token, and an     *)
(* unreadable one cannot be decrypted (the key was changed).                *)
Token == {"none", "valid", "expired", "unreadable"}

(* try: the linked users as the tick read them, with "none" for those that  *)
(* were tried in vain; total: of the page being answered, once its count    *)
(* was taken; listed: how often each alert was on a page; todo: how often   *)
(* each is still to be sent; top: the next mark.                            *)
Bot == [pc : {"idle", "fetch", "counted", "push"}, try : [User -> Token],
        offset : Nat, total : Nat,
        listed : [AlertId -> Nat], todo : [AlertId -> Nat], top : 0 .. MaxAlert]
Asleep == [pc |-> "idle", try |-> [u \in User |-> "none"], offset |-> 0, total |-> 0,
           listed |-> [a \in AlertId |-> 0], todo |-> [a \in AlertId |-> 0], top |-> 0]

Init ==
  /\ alerts = [a \in AlertId |-> NoAlert]
  /\ linked = [u \in User |-> "none"]
  /\ mark = 0
  /\ bot = Asleep
  /\ pushed = {} /\ repeated = {}
  /\ shifted = FALSE
  /\ links = 0 /\ faults = 0

Fault == faults < FaultLimit /\ faults' = faults + 1

----
(* The alerts table.                                                        *)

(* A listing is under way from its first count to the items of its last     *)
(* page.                                                                    *)
Reading == bot.pc = "counted" \/ (bot.pc = "fetch" /\ bot.offset > 0)

(* Every change of a row; remembers whether it disturbed a listing.         *)
Write(a, row) ==
  /\ alerts' = [alerts EXCEPT ![a] = row]
  /\ shifted' = (shifted \/ Reading)

BotUnchanged == UNCHANGED <<linked, mark, bot, pushed, repeated, links, faults>>

(* Variant: no index, and the SELECT that comes first is stale.             *)
RaiseStale(c) ==
  \E a \in AlertId :
    /\ \A q \in AlertId : alerts[q].status = "ABSENT" <=> q >= a
    /\ Write(a, [condition |-> c, status |-> "ACTIVE"])
    /\ BotUnchanged

(* raise_alert_if_absent, with its savepoint: the INSERT loses against the  *)
(* index on ACTIVE rows.  Rows are never deleted.                           *)
Raise(c) ==
  \E a \in AlertId :
    /\ \A q \in AlertId : alerts[q].status = "ABSENT" <=> q >= a
    /\ \A q \in Active : alerts[q].condition # c
    /\ Write(a, [condition |-> c, status |-> "ACTIVE"])
    /\ BotUnchanged

(* resolve_active_alert: only an ACTIVE row is resolved, never one that was *)
(* acknowledged.  (Deleting the entity sets the column of its alerts to     *)
(* NULL: they stay as they are, like those of a condition that never ends.) *)
ResolveActive(c) ==
  \E a \in Active :
    /\ alerts[a].condition = c
    /\ Write(a, [alerts[a] EXCEPT !.status = "RESOLVED"])
    /\ BotUnchanged

(* POST .../acknowledge and .../resolve, also as /ack and /resolve.  A      *)
(* RESOLVED row is refused with 409, but the UPDATE comes after the read    *)
(* and has no condition: a request that read the row while it was open      *)
(* writes whatever the row has become since.                                *)
Decide(a, status) ==
  /\ alerts[a].status # "ABSENT"
  /\ Write(a, [alerts[a] EXCEPT !.status = status])
  /\ BotUnchanged

----
(* Linked users: bot/handlers/link.py, bot/handlers/_common.py.             *)

AlertsUnchanged == UNCHANGED <<alerts, shifted>>

Link(u) ==
  /\ links < LinkLimit
  /\ links' = links + 1
  /\ linked' = [linked EXCEPT ![u] = "valid"]
  /\ UNCHANGED <<mark, bot, pushed, repeated, faults>> /\ AlertsUnchanged

(* A token expires, or the key it was encrypted with is replaced.           *)
TokenEnds(u, how) ==
  /\ linked[u] = "valid"
  /\ linked' = [linked EXCEPT ![u] = how]
  /\ UNCHANGED <<mark, bot, pushed, repeated, links, faults>> /\ AlertsUnchanged

(* Any command of a user whose token no longer works unlinks them.          *)
CommandUnlinks(u) ==
  /\ linked[u] \in {"expired", "unreadable"}
  /\ linked' = [linked EXCEPT ![u] = "none"]
  /\ UNCHANGED <<mark, bot, pushed, repeated, links, faults>> /\ AlertsUnchanged

----
(* _run_poll_tick.                                                          *)

(* The mark and the linked users are read; without users the tick is over.  *)
StartTick ==
  /\ bot.pc = "idle"
  /\ \E u \in User : linked[u] # "none"
  /\ bot' = [Asleep EXCEPT !.pc = "fetch", !.try = linked]
  /\ UNCHANGED <<linked, mark, pushed, repeated, links, faults>> /\ AlertsUnchanged

(* The user whose turn it is, when the next page is to be asked for.        *)
Trying(u) ==
  /\ bot.pc = "fetch"
  /\ bot.try[u] # "none"
  /\ \A v \in User : v < u => bot.try[v] = "none"

OnPage(offset) ==
  {a \in Active : Cardinality({b \in Active : b > a}) \in offset .. offset + Page - 1}

Highest(S, default) == IF S = {} THEN default ELSE Max(S)

(* Variant: alerts the mark has passed are sent again.                      *)
ToSendAll(listed) == listed

(* The candidates.                                                          *)
ToSend(listed) == [a \in AlertId |-> IF a > mark THEN listed[a] ELSE 0]

(* new_max_id; it may be lower than the mark.                               *)
NewMark(listed) == Highest({a \in AlertId : listed[a] > 0}, mark)

(* list_alerts, with a token it accepts: the first SELECT.                  *)
CountAlerts(u) ==
  /\ Trying(u) /\ bot.try[u] = "valid"
  /\ bot' = [bot EXCEPT !.pc = "counted", !.total = Cardinality(Active)]
  /\ UNCHANGED <<linked, mark, pushed, repeated, links, faults>> /\ AlertsUnchanged

(* The second SELECT, and what the bot makes of the page: it stops at an    *)
(* empty one, or when it has as many as the total said; then the candidates *)
(* are known.                                                               *)
FetchItems ==
  LET page == OnPage(bot.offset)
      offset == bot.offset + Cardinality(page)
      listed == [a \in AlertId |-> bot.listed[a] + (IF a \in page THEN 1 ELSE 0)] IN
  /\ bot.pc = "counted"
  /\ bot' = IF page # {} /\ offset < bot.total
            THEN [bot EXCEPT !.pc = "fetch", !.offset = offset, !.total = 0, !.listed = listed]
            ELSE [Asleep EXCEPT !.pc = "push", !.todo = ToSend(listed), !.top = NewMark(listed)]
  /\ UNCHANGED <<linked, mark, pushed, repeated, links, faults>> /\ AlertsUnchanged

(* Variant: the tick gives up and leaves the row.                           *)
UnauthorizedGivesUp(u) ==
  /\ Trying(u)
  /\ bot.try[u] = "expired" \/ (bot.try[u] = "valid" /\ linked[u] # "valid")
  /\ bot' = Asleep
  /\ UNCHANGED <<linked, mark, pushed, repeated, links, faults>> /\ AlertsUnchanged

(* 401: the row of this user is deleted, be it a newer one, and the next    *)
(* user is tried from the first page on; without a next one the tick ends.  *)
Unauthorized(u) ==
  LET try == [bot.try EXCEPT ![u] = "none"] IN
  /\ Trying(u)
  /\ bot.try[u] = "expired" \/ (bot.try[u] = "valid" /\ linked[u] # "valid")
  /\ linked' = [linked EXCEPT ![u] = "none"]
  /\ bot' = IF \E v \in User : try[v] # "none" THEN [Asleep EXCEPT !.pc = "fetch", !.try = try]
            ELSE Asleep
  /\ UNCHANGED <<mark, pushed, repeated, links, faults>> /\ AlertsUnchanged

(* decrypt_secret raises, which ends the tick; the row stays.               *)
Undecryptable(u) ==
  /\ Trying(u) /\ bot.try[u] = "unreadable"
  /\ bot' = Asleep
  /\ UNCHANGED <<linked, mark, pushed, repeated, links, faults>> /\ AlertsUnchanged

(* The next candidate goes out to every user who was linked when the        *)
(* candidates were known: a second read, which may find no one any more.    *)
(* The candidate counts as sent all the same, as it does for the mark.  A   *)
(* message Telegram refuses is not repeated, and whether                    *)
(* delivered_telegram_at can be set changes nothing else.                   *)
Push(a) ==
  /\ bot.pc = "push"
  /\ bot.todo[a] > 0
  /\ \A b \in AlertId : b < a => bot.todo[b] = 0
  /\ bot' = [bot EXCEPT !.todo[a] = @ - 1]
  /\ pushed' = pushed \cup {a}
  /\ repeated' = IF a \in pushed THEN repeated \cup {a} ELSE repeated
  /\ UNCHANGED <<linked, mark, links, faults>> /\ AlertsUnchanged

(* All candidates are out: the mark is saved, and the bot sleeps.           *)
SaveMark ==
  /\ bot.pc = "push"
  /\ \A a \in AlertId : bot.todo[a] = 0
  /\ mark' = bot.top
  /\ bot' = Asleep
  /\ UNCHANGED <<linked, pushed, repeated, links, faults>> /\ AlertsUnchanged

(* Variant: the mark is saved in the finally clause.                        *)
TickFailsAndSaves ==
  /\ bot.pc # "idle"
  /\ Fault
  /\ mark' = IF bot.pc = "push" THEN bot.top ELSE mark
  /\ bot' = Asleep
  /\ UNCHANGED <<linked, pushed, repeated, links>> /\ AlertsUnchanged

(* The API cannot be reached, the bot's database fails, or the bot stops    *)
(* and starts: the tick is lost, the mark stays.                            *)
TickFails ==
  /\ bot.pc # "idle"
  /\ Fault
  /\ bot' = Asleep
  /\ UNCHANGED <<linked, mark, pushed, repeated, links>> /\ AlertsUnchanged

BotStep ==
  \/ StartTick
  \/ \E u \in User : CountAlerts(u) \/ Unauthorized(u) \/ Undecryptable(u)
  \/ FetchItems
  \/ \E a \in AlertId : Push(a)
  \/ SaveMark

Backend ==
  \/ \E c \in Condition : Raise(c) \/ ResolveActive(c)
  \/ \E a \in AlertId, status \in {"ACKNOWLEDGED", "RESOLVED"} : Decide(a, status)

Users ==
  \E u \in User :
    \/ Link(u)
    \/ \E how \in {"expired", "unreadable"} : TokenEnds(u, how)
    \/ CommandUnlinks(u)

Next == BotStep \/ TickFails \/ Backend \/ Users

Spec == Init /\ [][Next]_vars

(* alert_poll_loop never stops ticking, and its HTTP client has a timeout.  *)
FairSpec == Spec /\ WF_vars(BotStep)

----
(* Properties.                                                              *)

(* The type invariant, with the unique index on ACTIVE rows.                *)
TypeOK ==
  /\ alerts \in [AlertId -> AlertRow]
  /\ linked \in [User -> Token]
  /\ mark \in 0 .. MaxAlert
  /\ bot \in Bot
  /\ pushed \subseteq AlertId /\ repeated \subseteq AlertId
  /\ shifted \in BOOLEAN
  /\ links \in 0 .. LinkLimit /\ faults \in 0 .. FaultLimit
  /\ \A a, b \in Active : alerts[a].condition = alerts[b].condition => a = b

(* The mark never passes an alert that is still ACTIVE and was not sent, as *)
(* long as no listing is disturbed while it is read, be it between the      *)
(* count and the items of one page (the total is then wrong, and the        *)
(* listing stops too early) or between two pages: nothing would ever send   *)
(* that alert.                                                              *)
MarkMeansPushed == \A a \in Active : a <= mark => a \in pushed \/ shifted

(* An alert is sent once, although the mark moves back when the newest      *)
(* alerts are resolved, unless the bot lost a tick or a listing was         *)
(* disturbed while it was read.                                             *)
PushedOnce == repeated # {} => faults > 0 \/ shifted

(* An alert that stays ACTIVE is sent, unless a listing is disturbed while  *)
(* it is read, there is no linked user with a valid token, or a user whose  *)
(* token cannot be read stops every tick.                                   *)
ActiveIsPushed ==
  \A a \in AlertId : alerts[a].status = "ACTIVE" ~>
    \/ a \in pushed \/ alerts[a].status # "ACTIVE" \/ shifted
    \/ \A u \in User : linked[u] # "valid"
    \/ \E u \in User : linked[u] = "unreadable"

====
