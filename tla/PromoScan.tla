----------------------------- MODULE PromoScan ------------------------------
(***************************************************************************)
(* The scan for wholesale offers (core/promo_scanner.py): for every city it *)
(* fetches the offers, for every group of the city it posts those the group *)
(* has not seen lately, and after a post it writes to the neighbours who    *)
(* buy such goods (core/reminders.py).                                      *)
(*                                                                         *)
(* A scan is one asyncio task with one session: what it inserts is seen by  *)
(* itself at once and by everybody else after the commit, which comes at    *)
(* the end of the scan or with the first reminder that is sent.  A query,   *)
(* a flush or a commit that fails ends the scan.  The scheduler and the     *)
(* command /scan start scans independently.                                 *)
(*                                                                         *)
(* Times are whole days and a scan takes less than a day: the start of its  *)
(* transaction, which is a deal's created_at, and the post fall on one day. *)
(***************************************************************************)
EXTENDS Naturals, FiniteSets

CONSTANTS
    Groups, Products, Users,
    City,        \* the city of a group
    Scans,       \* the scans, each of which happens at most once
    Window,      \* deal_dup_window_days
    Interval,    \* reminder_min_interval_days
    MaxPosts,    \* max_posts_per_scan
    MaxReminded, \* reminder_max_per_deal
    MaxRunning,  \* bound: how many scans run at one time
    MaxCrashes,  \* bound: how often the process stops
    MaxDay       \* bound: the days that pass

ASSUME NamesAssumption == Groups # {} /\ Users # {}
ASSUME DaysAssumption == {Window, Interval, MaxDay} \subseteq Nat
ASSUME CountsAssumption ==
    {MaxPosts, MaxReminded, MaxRunning, MaxCrashes} \subseteq Nat

VARIABLES
    today,    \* the clock
    deals,    \* the committed rows of `deals`
    chat,     \* the posts in the chats of the groups
    reminded, \* committed users.last_reminder_at
    told,     \* the private messages that have arrived
    scan,     \* the state of a scan
    crashes   \* how often the process has stopped

vars == <<today, deals, chat, reminded, told, scan, crashes>>
-----------------------------------------------------------------------------
Day == 0..MaxDay
Never == MaxDay + 1

\* A deal and its post; `shown` is whether the row has the id of a message.
Deal == [scan : Scans, group : Groups, product : Products, day : Day,
         shown : BOOLEAN]
Post == [scan : Scans, group : Groups, product : Products, day : Day]
\* `answered` is whether the bot learned that the message had arrived.
Reminder == [scan : Scans, user : Users, day : Day, answered : BOOLEAN]

Scan == [pc : {"ready", "city", "group", "post", "posted", "remind", "mark",
               "done", "stopped"},
         past  : SUBSET Scans,    \* the scans that were done when it began
         todo  : SUBSET Groups,   \* groups whose city is still to fetch
         here  : SUBSET Groups,   \* groups of the fetched city still to serve
         offer : SUBSET Products, \* what the city offers, with its discount
         group : Groups,          \* the group that is being served
         queue : SUBSET Products, \* what is still to post in it
         rows  : SUBSET Deal,     \* rows flushed and not committed
         ask   : SUBSET Users,    \* whom it will remind of the new deal
         to    : Users]           \* whom it has just reminded

NewScan == [pc |-> "ready", past |-> {}, todo |-> {}, here |-> {}, offer |-> {},
            group |-> CHOOSE g \in Groups : TRUE, queue |-> {}, rows |-> {},
            ask |-> {}, to |-> CHOOSE u \in Users : TRUE]

TypeOK ==
    /\ today \in Day
    /\ deals \subseteq Deal
    /\ chat \subseteq Post
    /\ reminded \in [Users -> Day \cup {Never}]
    /\ told \subseteq Reminder
    /\ scan \in [Scans -> Scan]
    /\ crashes \in 0..MaxCrashes

Init ==
    /\ today = 0
    /\ deals = {} /\ chat = {}
    /\ reminded = [u \in Users |-> Never] /\ told = {}
    /\ scan = [s \in Scans |-> NewScan]
    /\ crashes = 0

Done == {s \in Scans : scan[s].pc = "done"}
Running == {s \in Scans : scan[s].pc \notin {"ready", "done", "stopped"}}

\* A scan ends, having committed or not.
Ended(pc) == [NewScan EXCEPT !.pc = pc]

\* Mistake: only the deals with a message count.
Existing_shown(s, g) ==
    {r.product : r \in {r \in deals \cup scan[s].rows :
                           r.group = g /\ r.shown /\ today - r.day <= Window}}

\* The goods of the deals a group has had within the window, as scan s sees
\* the table.
Existing(s, g) ==
    {r.product : r \in {r \in deals \cup scan[s].rows :
                           r.group = g /\ today - r.day <= Window}}

NewPost(s, p) == [scan |-> s, group |-> scan[s].group, product |-> p,
                  day |-> today]

NewReminder(s, u, answered) == [scan |-> s, user |-> u, day |-> today,
                                answered |-> answered]

NewDeal(s, p, shown) == [scan |-> s, group |-> scan[s].group, product |-> p,
                         day |-> today, shown |-> shown]

\* After a group the next one of its city, then the next city.
Onward(c) ==
    [c EXCEPT !.pc = IF c.queue # {} THEN "post"
                     ELSE IF c.here # {} THEN "group" ELSE "city"]
-----------------------------------------------------------------------------
\* The scheduler starts a scan of all active groups, a resident's /scan one of
\* a single group.
Begin(s, gs) ==
    /\ scan[s].pc = "ready" /\ Cardinality(Running) < MaxRunning
    /\ scan' = [scan EXCEPT ![s].pc = "city", ![s].past = Done, ![s].todo = gs]
    /\ UNCHANGED <<today, deals, chat, reminded, told, crashes>>

\* It does not come to that: the shop's server cannot be reached.
ConnectFails(s) ==
    /\ scan[s].pc = "ready"
    /\ scan' = [scan EXCEPT ![s] = Ended("stopped")]
    /\ UNCHANGED <<today, deals, chat, reminded, told, crashes>>

\* It takes the next city and fetches its offers ...
FetchCity(s, g, offer) ==
    LET here == {g2 \in scan[s].todo : City[g2] = City[g]} IN
    /\ scan[s].pc = "city" /\ g \in scan[s].todo
    /\ scan' = [scan EXCEPT ![s].pc = "group", ![s].here = here,
                            ![s].todo = @ \ here, ![s].offer = offer]
    /\ UNCHANGED <<today, deals, chat, reminded, told, crashes>>

\* ... or passes over its groups when that fails.
FetchFails(s, g) ==
    /\ scan[s].pc = "city" /\ g \in scan[s].todo
    /\ scan' = [scan EXCEPT ![s].todo = {g2 \in @ : City[g2] # City[g]}]
    /\ UNCHANGED <<today, deals, chat, reminded, told, crashes>>

\* It picks, for one group, new goods among the offers (the order and the
\* choice are the ranking's).
PickDeals(s, g) ==
    LET c == scan[s] IN
    /\ c.pc = "group" /\ g \in c.here
    /\ \E queue \in SUBSET (c.offer \ Existing(s, g)) :
          /\ Cardinality(queue) <= MaxPosts
          /\ scan' = [scan EXCEPT ![s] =
                        Onward([c EXCEPT !.group = g, !.here = c.here \ {g},
                                         !.queue = queue])]
    /\ UNCHANGED <<today, deals, chat, reminded, told, crashes>>
-----------------------------------------------------------------------------
\* The row is flushed, the post arrives, its id is kept in memory.
PostDeal(s, p) ==
    /\ scan[s].pc = "post" /\ p \in scan[s].queue
    /\ chat' = chat \cup {NewPost(s, p)}
    /\ scan' = [scan EXCEPT ![s].pc = "posted", ![s].queue = @ \ {p},
                            ![s].rows = @ \cup {NewDeal(s, p, TRUE)}]
    /\ UNCHANGED <<today, deals, reminded, told, crashes>>

\* Telegram refuses the post, or its answer is lost.  The deal is expunged from
\* the session, but its row has been flushed and is committed with the others.
PostFails(s, p) ==
    LET c == scan[s] IN
    /\ c.pc = "post" /\ p \in c.queue
    /\ chat' \in {chat, chat \cup {NewPost(s, p)}}
    /\ scan' = [scan EXCEPT ![s] =
                  Onward([c EXCEPT !.queue = c.queue \ {p},
                                   !.rows = c.rows \cup {NewDeal(s, p, FALSE)}])]
    /\ UNCHANGED <<today, deals, reminded, told, crashes>>
-----------------------------------------------------------------------------
\* Mistake: when a user was last reminded is not looked at.
Due_always(u) == TRUE

Due(u) == reminded[u] = Never \/ today - reminded[u] >= Interval

\* reminder_candidates reads the users: some have bought such goods in the
\* group and have not been reminded lately.
FindCandidates(s) ==
    /\ scan[s].pc = "posted"
    /\ \E ask \in SUBSET {u \in Users : Due(u)} :
          /\ Cardinality(ask) <= MaxReminded
          /\ scan' = [scan EXCEPT ![s].pc = "remind", ![s].ask = ask]
    /\ UNCHANGED <<today, deals, chat, reminded, told, crashes>>

\* The private message reaches the user ...
SendReminder(s, u) ==
    /\ scan[s].pc = "remind" /\ u \in scan[s].ask
    /\ told' = told \cup {NewReminder(s, u, TRUE)}
    /\ scan' = [scan EXCEPT ![s].pc = "mark", ![s].ask = @ \ {u},
                            ![s].to = u]
    /\ UNCHANGED <<today, deals, chat, reminded, crashes>>

\* Mistake: the day of the next reminder is stored, not that of the last one.
CommitReminder_next(s) ==
    /\ scan[s].pc = "mark"
    /\ reminded' = [reminded EXCEPT ![scan[s].to] = today + Interval]
    /\ deals' = deals \cup scan[s].rows
    /\ scan' = [scan EXCEPT ![s].pc = "remind", ![s].rows = {}]
    /\ UNCHANGED <<today, chat, told, crashes>>

\* ... and the commit takes all that the scan has done so far.
CommitReminder(s) ==
    /\ scan[s].pc = "mark"
    /\ reminded' = [reminded EXCEPT ![scan[s].to] = today]
    /\ deals' = deals \cup scan[s].rows
    /\ scan' = [scan EXCEPT ![s].pc = "remind", ![s].rows = {}]
    /\ UNCHANGED <<today, chat, told, crashes>>

\* It reaches the user and the answer is lost: last_reminder_at stays as it was,
\* and the reminders of this deal end with the exception.
ReminderUnanswered(s, u) ==
    /\ scan[s].pc = "remind" /\ u \in scan[s].ask
    /\ told' = told \cup {NewReminder(s, u, FALSE)}
    /\ scan' = [scan EXCEPT ![s] = Onward([scan[s] EXCEPT !.ask = {}])]
    /\ UNCHANGED <<today, deals, chat, reminded, crashes>>

\* The user has blocked the bot.
ReminderFails(s, u) ==
    /\ scan[s].pc = "remind" /\ u \in scan[s].ask
    /\ scan' = [scan EXCEPT ![s].ask = @ \ {u}]
    /\ UNCHANGED <<today, deals, chat, reminded, told, crashes>>

\* Nobody is left to remind, or writing a text or sending it fails: on with the
\* next post.
EndReminders(s) ==
    /\ scan[s].pc \in {"posted", "remind"}
    /\ scan' = [scan EXCEPT ![s] = Onward([scan[s] EXCEPT !.ask = {}])]
    /\ UNCHANGED <<today, deals, chat, reminded, told, crashes>>
-----------------------------------------------------------------------------
\* Mistake: the rows of the last city are left to the next commit.
FinishScan_uncommitted(s) ==
    /\ scan[s].pc = "city" /\ scan[s].todo = {}
    /\ scan' = [scan EXCEPT ![s] = Ended("done")]
    /\ UNCHANGED <<today, deals, chat, reminded, told, crashes>>

\* Mistake: a scan with nothing to commit does not end.
FinishScan_waits(s) ==
    /\ scan[s].pc = "city" /\ scan[s].todo = {} /\ scan[s].rows # {}
    /\ deals' = deals \cup scan[s].rows
    /\ scan' = [scan EXCEPT ![s] = Ended("done")]
    /\ UNCHANGED <<today, chat, reminded, told, crashes>>

\* Every city is served: the commit.
FinishScan(s) ==
    /\ scan[s].pc = "city" /\ scan[s].todo = {}
    /\ deals' = deals \cup scan[s].rows
    /\ scan' = [scan EXCEPT ![s] = Ended("done")]
    /\ UNCHANGED <<today, chat, reminded, told, crashes>>

\* A query, a flush or a commit fails and with it the transaction: what is not
\* committed is rolled back.  An exception that remind_about_deal raises is
\* caught, but the session is of no use then, and the scan ends with its next
\* statement, before anything else is posted.
Abort(s) ==
    /\ \/ scan[s].pc \in {"group", "post", "posted", "mark"}
       \/ scan[s].pc = "city" /\ scan[s].todo = {}
    /\ scan' = [scan EXCEPT ![s] = Ended("stopped")]
    /\ UNCHANGED <<today, deals, chat, reminded, told, crashes>>

\* A commit is carried out and its answer is lost: the scan ends the same way.
CommitUnanswered(s) ==
    /\ \/ /\ scan[s].pc = "mark"
          /\ reminded' = [reminded EXCEPT ![scan[s].to] = today]
       \/ /\ scan[s].pc = "city" /\ scan[s].todo = {}
          /\ UNCHANGED reminded
    /\ deals' = deals \cup scan[s].rows
    /\ scan' = [scan EXCEPT ![s] = Ended("stopped")]
    /\ UNCHANGED <<today, chat, told, crashes>>

\* The process stops: what is not committed is rolled back.
Crash ==
    /\ crashes < MaxCrashes /\ crashes' = crashes + 1
    /\ scan' = [s \in Scans |-> IF s \in Running
                                THEN Ended("stopped") ELSE scan[s]]
    /\ UNCHANGED <<today, deals, chat, reminded, told>>

\* A scan takes minutes: none runs when the day changes.
Tick ==
    /\ Running = {}
    /\ today < MaxDay /\ today' = today + 1
    /\ UNCHANGED <<deals, chat, reminded, told, scan, crashes>>

Step(s) == \/ \E g \in Groups, offer \in SUBSET Products : FetchCity(s, g, offer)
           \/ \E g \in Groups : FetchFails(s, g) \/ PickDeals(s, g)
           \/ \E p \in Products : PostDeal(s, p) \/ PostFails(s, p)
           \/ FindCandidates(s)
           \/ \E u \in Users : \/ SendReminder(s, u) \/ ReminderFails(s, u)
                              \/ ReminderUnanswered(s, u)
           \/ CommitReminder(s) \/ EndReminders(s) \/ FinishScan(s)

Next == \/ \E s \in Scans : \/ Begin(s, Groups)
                            \/ \E g \in Groups : Begin(s, {g})
                            \/ ConnectFails(s) \/ Step(s)
                            \/ Abort(s) \/ CommitUnanswered(s)
        \/ Crash \/ Tick

Spec == Init /\ [][Next]_vars

\* The requests of a scan are answered or time out.
FairSpec == Spec /\ \A s \in Scans : WF_vars(Step(s))
-----------------------------------------------------------------------------
(* PROPERTIES                                                              *)

\* What scan s must know of: its own doing and that of the scans that were done
\* when it began.
Known(s) == {s} \cup scan[s].past

\* "It remembers for every group which goods were posted in the last week and
\* does not repeat them" (README.md:16-17): a scan repeats nothing that itself
\* or a scan before it has posted, whatever other scans run along, fail or are
\* cut off, and also where the answer to a post was lost.
NoDuplicates ==
    [][\A s \in Scans, p \in Products : PostDeal(s, p) \/ PostFails(s, p) =>
          \A m \in chat :
              m.scan \in Known(s) /\ m.group = scan[s].group /\ m.product = p
                  => today - m.day > Window]_vars

\* "Not reminded lately" (reminders.py:96): a scan writes within the interval to
\* a user to whom itself or a scan before it wrote only where the answer to the
\* earlier message was lost, whatever deals and groups the messages are about,
\* whatever else runs, fails or is cut off.
RemindersApart ==
    [][\A s \in Scans, u \in Users : SendReminder(s, u) \/ ReminderUnanswered(s, u) =>
          \A m \in told :
              m.scan \in Known(s) /\ m.user = u /\ m.answered
                  => today - m.day >= Interval]_vars

\* No post is orphaned but by a scan that is cut off: its deal is in the table or
\* is still to be committed by the scan that posted it, through failing posts,
\* cities and reminders and through the commits in between (promo_scanner.py:175-227).
PostsKept ==
    \A m \in chat : scan[m.scan].pc # "stopped" =>
        \E r \in deals \cup scan[m.scan].rows :
            r.scan = m.scan /\ r.group = m.group /\ r.product = m.product

\* Every scan comes to its end, whatever fails on its way.
ScanEnds == \A s \in Scans : scan[s].pc # "ready" ~> scan[s].pc \in {"done", "stopped"}
-----------------------------------------------------------------------------
(* DISAGREEMENTS: what the documents say and the code does not do.  No run  *)
(* checks these; README.md says in which instance TLC shows each to fail.   *)

\* The buttons of a post find its deal (README.md:26).
PostsAnswer ==
    \A m \in chat : \E r \in deals :
        r.scan = m.scan /\ r.group = m.group /\ r.product = m.product

\* The two rules above without their exceptions: also of scans that overlap, that
\* were cut off, or that lost the answer to a reminder (README.md:16-17,
\* reminders.py:96).
NeverTwice ==
    [][\A m \in chat' \ chat : \A m2 \in chat :
          m2.group = m.group /\ m2.product = m.product
              => m.day - m2.day > Window]_vars

RemindedOnce ==
    [][\A m \in told' \ told : \A m2 \in told :
          m2.user = m.user => m.day - m2.day >= Interval]_vars

\* The goods that are "remembered" are those that were "posted" (README.md:16):
\* a row that is committed has a post.
RemembersPosted == \A r \in deals : r.shown
=============================================================================
