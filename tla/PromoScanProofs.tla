-------------------------- MODULE PromoScanProofs ---------------------------
(***************************************************************************)
(* Proofs about PromoScan, for any groups, goods and users, any number of   *)
(* scans that overlap, and any window and interval.                         *)
(*                                                                         *)
(* The argument: what a scan has posted is in the rows it has flushed until *)
(* it commits, and in the table from then on, unless it is stopped (Kept);  *)
(* so the query before a batch finds what a scan that is done has posted,   *)
(* and what this one has (QueueNew).  The same of reminders: whom a scan    *)
(* has written to is marked in the table before it goes on (Marked).        *)
(***************************************************************************)
EXTENDS PromoScan, TLAPS

Idle == {"ready", "done", "stopped"}

PostOf(r) == [scan |-> r.scan, group |-> r.group, product |-> r.product,
              day |-> r.day]

\* The rows a scan has flushed are its own.
RowsOwn(s) == \A r \in scan[s].rows : r.scan = s

\* A scan that does not run has nothing in hand.
NothingIdle(s) ==
    scan[s].pc \in Idle =>
        scan[s].rows = {} /\ scan[s].queue = {} /\ scan[s].ask = {}

\* No post of a scan is without its row, unless the scan was stopped.
Kept(s) ==
    scan[s].pc # "stopped" =>
        \A m \in chat : m.scan = s =>
            \E r \in deals \cup scan[s].rows : PostOf(r) = m

\* The scans before a scan are done.
PastDone(s) == \A s2 \in scan[s].past : s2 \in Done

\* What is still to post has not been posted within the window by this scan or
\* one before it.
QueueNew(s) ==
    \A p \in scan[s].queue : \A m \in chat :
        m.scan \in Known(s) /\ m.group = scan[s].group /\ m.product = p
            => today - m.day > Window

\* Whom a scan knows to have written to is marked, or will be in its next step.
Marked(s) ==
    scan[s].pc # "stopped" =>
        \A m \in told : m.scan = s /\ m.answered =>
            \/ reminded[m.user] \in Day /\ reminded[m.user] >= m.day
            \/ scan[s].pc = "mark" /\ scan[s].to = m.user

\* Whom it will still write to has not been written to within the interval, as
\* far as the scan and those before it know.
AskDue(s) ==
    \A u \in scan[s].ask : \A m \in told :
        m.scan \in Known(s) /\ m.user = u /\ m.answered
            => today - m.day >= Interval

Fits(s) == /\ RowsOwn(s) /\ NothingIdle(s) /\ Kept(s) /\ PastDone(s)
           /\ QueueNew(s) /\ Marked(s) /\ AskDue(s)

ToldPast == \A m \in told : m.day <= today

IInv == /\ TypeOK
        /\ ToldPast
        /\ \A s \in Scans : Fits(s)
-----------------------------------------------------------------------------
LEMMA Types ==
    ASSUME TypeOK
    PROVE  /\ NewScan \in Scan
           /\ Ended("done") \in Scan /\ Ended("stopped") \in Scan
           /\ today \in Nat /\ Never \notin Day
           /\ \A d \in Day : d \in Nat
<1>1. /\ (CHOOSE g \in Groups : TRUE) \in Groups
      /\ (CHOOSE u \in Users : TRUE) \in Users
  BY NamesAssumption
<1>2. NewScan \in Scan
  BY <1>1 DEF NewScan, Scan
<1>3. Ended("done") \in Scan /\ Ended("stopped") \in Scan
  BY <1>2 DEF Ended, Scan
<1> QED BY <1>2, <1>3, DaysAssumption DEF TypeOK, Day, Never

LEMMA OnwardType ==
    ASSUME NEW c \in Scan
    PROVE  /\ Onward(c) \in Scan
           /\ Onward(c).pc \in {"post", "group", "city"}
           /\ Onward(c).past = c.past /\ Onward(c).rows = c.rows
           /\ Onward(c).queue = c.queue /\ Onward(c).ask = c.ask
           /\ Onward(c).group = c.group
BY DEF Onward, Scan

LEMMA InitHolds == Init => IInv
<1> SUFFICES ASSUME Init PROVE IInv
  OBVIOUS
<1>1. TypeOK
  <2>1. today \in Day /\ crashes \in 0..MaxCrashes
    BY DaysAssumption, CountsAssumption DEF Init, Day
  <2>2. NewScan \in Scan
    <3>1. /\ (CHOOSE g \in Groups : TRUE) \in Groups
          /\ (CHOOSE u \in Users : TRUE) \in Users
      BY NamesAssumption
    <3> QED BY <3>1 DEF NewScan, Scan
  <2> QED BY <2>1, <2>2 DEF Init, TypeOK
<1>2. ToldPast
  BY DEF Init, ToldPast
<1>3. ASSUME NEW s \in Scans PROVE Fits(s)
  <2>1. /\ scan[s].rows = {} /\ scan[s].queue = {} /\ scan[s].ask = {}
        /\ scan[s].past = {} /\ chat = {} /\ told = {}
    BY DEF Init, NewScan
  <2> QED BY <2>1 DEF Fits, RowsOwn, NothingIdle, Kept, PastDone, QueueNew, Marked, AskDue
<1> QED BY <1>1, <1>2, <1>3 DEF IInv
-----------------------------------------------------------------------------
\* What a step of scan s is to the others: its posts and messages are none that
\* they know of, since it is not done, and the table only grows.
LEMMA Others ==
    ASSUME IInv, NEW s \in Scans, NEW c \in Scan,
           scan' = [scan EXCEPT ![s] = c], scan[s].pc # "done", today' = today,
           chat \subseteq chat', \A m \in chat' : m \in chat \/ m.scan = s,
           told \subseteq told', \A m \in told' : m \in told \/ m.scan = s,
           deals \subseteq deals',
           \A u \in Users : reminded'[u] \in {reminded[u], today},
           NEW s2 \in Scans, s2 # s
    PROVE  Fits(s2)'
<1>1. /\ scan'[s2] = scan[s2] /\ s2 \in DOMAIN scan /\ Known(s2)' = Known(s2)
      /\ scan[s] \in Scan
  BY DEF IInv, TypeOK, Known
<1>2. Fits(s2)
  BY DEF IInv
<1>3. \A s3 \in Scans : s3 \in Done => s3 \in Done'
  BY DEF Done, IInv, TypeOK
<1>4. s \notin Known(s2)
  BY <1>2 DEF Fits, PastDone, Known, Done
<1>5. RowsOwn(s2)' /\ NothingIdle(s2)'
  BY <1>1, <1>2 DEF Fits, RowsOwn, NothingIdle
<1>6. Kept(s2)'
  BY <1>1, <1>2 DEF Fits, Kept
<1>7. PastDone(s2)'
  BY <1>1, <1>2, <1>3 DEF Fits, PastDone, Done
<1>8. QueueNew(s2)'
  BY <1>1, <1>2, <1>4 DEF Fits, QueueNew
<1>9. Marked(s2)'
  <2> SUFFICES ASSUME scan[s2].pc # "stopped", NEW m \in told', m.scan = s2,
                      m.answered
               PROVE  \/ reminded'[m.user] \in Day /\ reminded'[m.user] >= m.day
                      \/ scan[s2].pc = "mark" /\ scan[s2].to = m.user
    BY <1>1 DEF Marked
  <2>1. m \in told /\ m \in Reminder /\ m.user \in Users /\ m.day <= today /\ today \in Day
    BY DEF IInv, TypeOK, ToldPast, Reminder
  <2>2. \/ reminded[m.user] \in Day /\ reminded[m.user] >= m.day
        \/ scan[s2].pc = "mark" /\ scan[s2].to = m.user
    BY <1>2, <2>1 DEF Fits, Marked
  <2>3. today >= m.day
    BY <2>1 DEF Day, Reminder
  <2> QED BY <2>1, <2>2, <2>3
<1>10. AskDue(s2)'
  BY <1>1, <1>2, <1>4 DEF Fits, AskDue
<1> QED BY <1>5, <1>6, <1>7, <1>8, <1>9, <1>10 DEF Fits

\* A step that only turns scan s to something else keeps the whole, if it keeps
\* what scan s has in hand.
LEMMA QuietStep ==
    ASSUME IInv, NEW s \in Scans, NEW c \in Scan,
           scan' = [scan EXCEPT ![s] = c],
           UNCHANGED <<today, deals, chat, reminded, told, crashes>>,
           scan[s].pc \notin {"done", "stopped", "mark"},
           c.pc \in Idle => c.rows = {} /\ c.queue = {} /\ c.ask = {},
           c.rows = scan[s].rows, c.past \subseteq Done,
           \/ c.queue = {}
           \/ /\ c.queue \subseteq scan[s].queue
              /\ c.group = scan[s].group /\ c.past = scan[s].past,
           \/ c.ask = {}
           \/ c.ask \subseteq scan[s].ask /\ c.past = scan[s].past
    PROVE  IInv'
<1>1. /\ scan'[s] = c /\ s \in DOMAIN scan /\ Fits(s)
      /\ \A s2 \in Scans : s2 # s => scan'[s2] = scan[s2]
  BY DEF IInv, TypeOK
<1>2. \A s2 \in Scans : s2 # s => Fits(s2)'
  BY Others DEF IInv, TypeOK
<1>3. TypeOK' /\ ToldPast'
  BY DEF IInv, TypeOK, ToldPast
<1>4. RowsOwn(s)' /\ NothingIdle(s)' /\ Kept(s)'
  BY <1>1 DEF Fits, RowsOwn, NothingIdle, Kept
<1>5. PastDone(s)'
  BY <1>1 DEF PastDone, Done
<1>6. QueueNew(s)'
  BY <1>1 DEF Fits, QueueNew, Known
<1>7. Marked(s)'
  BY <1>1 DEF Fits, Marked
<1>8. AskDue(s)'
  BY <1>1 DEF Fits, AskDue, Known
<1>9. Fits(s)'
  BY <1>4, <1>5, <1>6, <1>7, <1>8 DEF Fits
<1> QED BY <1>2, <1>3, <1>9 DEF IInv
-----------------------------------------------------------------------------
\* Steps that touch nothing but the scan.
LEMMA BeginHolds ==
    ASSUME IInv, NEW s \in Scans, NEW gs \in SUBSET Groups, Begin(s, gs)
    PROVE  IInv'
<1> DEFINE c == [scan[s] EXCEPT !.pc = "city", !.past = Done, !.todo = gs]
<1>1. scan[s] \in Scan /\ Fits(s)
  BY DEF IInv, TypeOK
<1>2. /\ c \in Scan /\ c.pc = "city" /\ c.past = Done
      /\ c.rows = scan[s].rows /\ c.queue = scan[s].queue /\ c.ask = scan[s].ask
  BY <1>1 DEF Scan, Done
<1>3. scan[s].queue = {} /\ scan[s].ask = {} /\ scan[s].pc = "ready"
  BY <1>1 DEF Begin, Fits, NothingIdle, Idle
<1>4. /\ scan' = [scan EXCEPT ![s] = c]
      /\ UNCHANGED <<today, deals, chat, reminded, told, crashes>>
  BY DEF Begin
<1> HIDE DEF c
<1> QED BY <1>2, <1>3, <1>4, QuietStep DEF Idle

LEMMA ConnectFailsHolds ==
    ASSUME IInv, NEW s \in Scans, ConnectFails(s)
    PROVE  IInv'
<1> DEFINE c == Ended("stopped")
<1>1. /\ c \in Scan /\ c.rows = {} /\ c.queue = {} /\ c.ask = {} /\ c.past = {}
  BY Types DEF IInv, Ended, NewScan
<1>2. scan[s].rows = {} /\ scan[s].pc = "ready"
  BY DEF IInv, ConnectFails, Fits, NothingIdle, Idle
<1>3. /\ scan' = [scan EXCEPT ![s] = c]
      /\ UNCHANGED <<today, deals, chat, reminded, told, crashes>>
  BY DEF ConnectFails
<1> HIDE DEF c
<1> QED BY <1>1, <1>2, <1>3, QuietStep

LEMMA FetchHolds ==
    ASSUME IInv, NEW s \in Scans, NEW g \in Groups,
           \/ \E offer \in SUBSET Products : FetchCity(s, g, offer)
           \/ FetchFails(s, g)
    PROVE  IInv'
<1>1. scan[s] \in Scan /\ Fits(s) /\ scan[s].pc = "city"
  BY DEF IInv, TypeOK, FetchCity, FetchFails
<1>2. ASSUME NEW offer \in SUBSET Products, FetchCity(s, g, offer)
      PROVE  IInv'
  <2> DEFINE here == {g2 \in scan[s].todo : City[g2] = City[g]}
             c == [scan[s] EXCEPT !.pc = "group", !.here = here,
                                  !.todo = @ \ here, !.offer = offer]
  <2>1. here \in SUBSET Groups /\ scan[s].todo \ here \in SUBSET Groups
    BY <1>1 DEF Scan
  <2> HIDE DEF here
  <2>2. /\ c \in Scan /\ c.pc = "group" /\ c.past = scan[s].past
        /\ c.rows = scan[s].rows /\ c.queue = scan[s].queue
        /\ c.ask = scan[s].ask /\ c.group = scan[s].group
    BY <1>1, <2>1 DEF Scan
  <2>3. /\ scan' = [scan EXCEPT ![s] = c]
        /\ UNCHANGED <<today, deals, chat, reminded, told, crashes>>
    BY <1>2 DEF FetchCity, here
  <2> HIDE DEF c
  <2> QED BY <1>1, <2>2, <2>3, QuietStep DEF Idle, Fits, PastDone
<1>3. CASE FetchFails(s, g)
  <2> DEFINE c == [scan[s] EXCEPT !.todo = {g2 \in @ : City[g2] # City[g]}]
  <2>1. /\ c \in Scan /\ c.pc = "city" /\ c.past = scan[s].past
        /\ c.rows = scan[s].rows /\ c.queue = scan[s].queue
        /\ c.ask = scan[s].ask /\ c.group = scan[s].group
    BY <1>1 DEF Scan
  <2>2. /\ scan' = [scan EXCEPT ![s] = c]
        /\ UNCHANGED <<today, deals, chat, reminded, told, crashes>>
    BY <1>3 DEF FetchFails
  <2> HIDE DEF c
  <2> QED BY <1>1, <2>1, <2>2, QuietStep DEF Idle, Fits, PastDone
<1> QED BY <1>2, <1>3

\* Reminding ends, or passes over somebody.
LEMMA PassHolds ==
    ASSUME IInv, NEW s \in Scans,
           EndReminders(s) \/ \E u \in Users : ReminderFails(s, u)
    PROVE  IInv'
<1>1. /\ scan[s] \in Scan /\ Fits(s) /\ scan[s].pc \in {"posted", "remind"}
      /\ scan[s].past \subseteq Done
  BY DEF IInv, TypeOK, EndReminders, ReminderFails, Fits, PastDone
<1>2. CASE EndReminders(s)
  <2> DEFINE b == [scan[s] EXCEPT !.ask = {}]
             c == Onward(b)
  <2>1. /\ b \in Scan /\ b.past = scan[s].past /\ b.rows = scan[s].rows
        /\ b.queue = scan[s].queue /\ b.group = scan[s].group /\ b.ask = {}
    BY <1>1 DEF Scan
  <2>2. /\ scan' = [scan EXCEPT ![s] = c]
        /\ UNCHANGED <<today, deals, chat, reminded, told, crashes>>
    BY <1>2 DEF EndReminders
  <2> HIDE DEF b
  <2>3. /\ c \in Scan /\ c.past = scan[s].past /\ c.rows = scan[s].rows
        /\ c.queue = scan[s].queue /\ c.group = scan[s].group /\ c.ask = {}
        /\ c.pc \notin Idle
    BY <2>1, OnwardType DEF Idle
  <2> HIDE DEF c
  <2> QED BY <1>1, <2>2, <2>3, QuietStep
<1>3. ASSUME NEW u \in Users, ReminderFails(s, u)
      PROVE  IInv'
  <2> DEFINE c == [scan[s] EXCEPT !.ask = @ \ {u}]
  <2>1. /\ c \in Scan /\ c.past = scan[s].past /\ c.rows = scan[s].rows
        /\ c.queue = scan[s].queue /\ c.group = scan[s].group
        /\ c.ask \subseteq scan[s].ask /\ c.pc = scan[s].pc
    BY <1>1 DEF Scan
  <2>2. /\ scan' = [scan EXCEPT ![s] = c]
        /\ UNCHANGED <<today, deals, chat, reminded, told, crashes>>
    BY <1>3 DEF ReminderFails
  <2> HIDE DEF c
  <2> QED BY <1>1, <2>1, <2>2, QuietStep DEF Idle
<1> QED BY <1>2, <1>3
-----------------------------------------------------------------------------
\* The table shows a scan what itself and those before it have posted lately.
LEMMA ExistingShows ==
    ASSUME IInv, NEW s \in Scans, scan[s].pc # "stopped", NEW g \in Groups,
           NEW m \in chat, m.scan \in Known(s), m.group = g,
           m.product \notin Existing(s, g)
    PROVE  today - m.day > Window
<1>1. /\ m.scan \in Scans /\ Fits(m.scan) /\ Fits(s)
      /\ deals \subseteq Deal /\ scan[s] \in Scan
      /\ scan[m.scan] \in Scan
  BY DEF IInv, TypeOK, Post
<1>2. \E r \in deals \cup scan[s].rows : PostOf(r) = m
  <2>1. CASE m.scan = s
    BY <1>1, <2>1 DEF Fits, Kept
  <2>2. CASE m.scan # s
    <3>1. scan[m.scan].pc = "done"
      BY <1>1, <2>2 DEF Fits, PastDone, Known, Done
    <3>2. scan[m.scan].rows = {}
      BY <1>1, <3>1 DEF Fits, NothingIdle, Idle
    <3> QED BY <1>1, <3>1, <3>2 DEF Fits, Kept
  <2> QED BY <2>1, <2>2
<1>3. PICK r \in deals \cup scan[s].rows : PostOf(r) = m
  BY <1>2
<1>4. r \in Deal /\ r.group = g /\ r.product = m.product /\ r.day = m.day
  BY <1>1, <1>3 DEF PostOf, Scan
<1>5. ~(today - r.day <= Window)
  BY <1>3, <1>4 DEF Existing
<1>6. today \in Nat /\ r.day \in Nat /\ Window \in Nat
  BY <1>4, Types, DaysAssumption DEF IInv, Deal
<1> QED BY <1>4, <1>5, <1>6

\* A batch is chosen: none of it has been posted lately.
LEMMA PickDealsHolds ==
    ASSUME IInv, NEW s \in Scans, NEW g \in Groups, PickDeals(s, g)
    PROVE  IInv'
<1>1. /\ scan[s] \in Scan /\ Fits(s) /\ scan[s].pc = "group"
      /\ s \in DOMAIN scan
  BY DEF IInv, TypeOK, PickDeals
<1>2. PICK queue \in SUBSET (scan[s].offer \ Existing(s, g)) :
          scan' = [scan EXCEPT ![s] = Onward([scan[s] EXCEPT
                      !.group = g, !.here = scan[s].here \ {g}, !.queue = queue])]
  BY DEF PickDeals
<1> DEFINE b == [scan[s] EXCEPT !.group = g, !.here = scan[s].here \ {g},
                                !.queue = queue]
           c == Onward(b)
<1>3. /\ b \in Scan /\ b.past = scan[s].past /\ b.rows = scan[s].rows
      /\ b.queue = queue /\ b.group = g /\ b.ask = scan[s].ask
  BY <1>1 DEF Scan
<1>4. scan' = [scan EXCEPT ![s] = c]
  BY <1>2
<1> HIDE DEF b
<1>5. /\ c \in Scan /\ c.past = scan[s].past /\ c.rows = scan[s].rows
      /\ c.queue = queue /\ c.group = g /\ c.ask = scan[s].ask
      /\ c.pc \in {"post", "group", "city"}
  BY <1>3, OnwardType
<1> HIDE DEF c
<1>6. /\ scan'[s] = c
      /\ \A s2 \in Scans : s2 # s => scan'[s2] = scan[s2]
      /\ UNCHANGED <<today, deals, chat, reminded, told, crashes>>
  BY <1>1, <1>4 DEF PickDeals
<1>7. \A s2 \in Scans : s2 # s => Fits(s2)'
  BY <1>1, <1>4, <1>5, <1>6, Others DEF IInv, TypeOK
<1>8. TypeOK' /\ ToldPast'
  BY <1>4, <1>5, <1>6 DEF IInv, TypeOK, ToldPast
<1>9. RowsOwn(s)' /\ NothingIdle(s)' /\ Kept(s)' /\ Marked(s)' /\ AskDue(s)'
  BY <1>1, <1>5, <1>6
  DEF Fits, RowsOwn, NothingIdle, Idle, Kept, Marked, AskDue, Known
<1>10. PastDone(s)'
  BY <1>1, <1>5, <1>6 DEF Fits, PastDone, Done
<1>11. QueueNew(s)'
  <2> SUFFICES ASSUME NEW p \in queue, NEW m \in chat, m.scan \in Known(s),
                      m.group = g, m.product = p
               PROVE  today - m.day > Window
    BY <1>5, <1>6 DEF QueueNew, Known
  <2> QED BY <1>1, ExistingShows
<1> QED BY <1>7, <1>8, <1>9, <1>10, <1>11 DEF IInv, Fits

\* A post that arrives, or may have, has its row; what else is to be posted in
\* the group are other goods.
LEMMA PostHolds ==
    ASSUME IInv, NEW s \in Scans, NEW p \in Products,
           PostDeal(s, p) \/ PostFails(s, p)
    PROVE  IInv'
<1> DEFINE m == NewPost(s, p)
<1>1. /\ scan[s] \in Scan /\ Fits(s) /\ scan[s].pc = "post"
      /\ s \in DOMAIN scan /\ p \in scan[s].queue
  BY DEF IInv, TypeOK, PostDeal, PostFails
<1>2. PICK r \in {NewDeal(s, p, TRUE), NewDeal(s, p, FALSE)}, c \in Scan :
          /\ scan' = [scan EXCEPT ![s] = c]
          /\ c.past = scan[s].past /\ c.rows = scan[s].rows \cup {r}
          /\ c.queue = scan[s].queue \ {p} /\ c.group = scan[s].group
          /\ c.ask = scan[s].ask
          /\ c.pc \notin Idle /\ c.pc # "mark"
  <2>1. NewDeal(s, p, TRUE) \in Deal /\ NewDeal(s, p, FALSE) \in Deal
    BY <1>1 DEF NewDeal, Deal, Scan, IInv, TypeOK
  <2>2. CASE PostDeal(s, p)
    <3> DEFINE c == [scan[s] EXCEPT !.pc = "posted", !.queue = @ \ {p},
                                    !.rows = @ \cup {NewDeal(s, p, TRUE)}]
    <3>1. /\ c \in Scan /\ c.past = scan[s].past
          /\ c.rows = scan[s].rows \cup {NewDeal(s, p, TRUE)}
          /\ c.queue = scan[s].queue \ {p} /\ c.group = scan[s].group
          /\ c.ask = scan[s].ask /\ c.pc = "posted"
      BY <1>1, <2>1 DEF Scan
    <3>2. scan' = [scan EXCEPT ![s] = c]
      BY <2>2 DEF PostDeal
    <3> HIDE DEF c
    <3> QED BY <3>1, <3>2 DEF Idle
  <2>3. CASE PostFails(s, p)
    <3> DEFINE b == [scan[s] EXCEPT !.queue = scan[s].queue \ {p},
                       !.rows = scan[s].rows \cup {NewDeal(s, p, FALSE)}]
               c == Onward(b)
    <3>1. /\ b \in Scan /\ b.past = scan[s].past
          /\ b.rows = scan[s].rows \cup {NewDeal(s, p, FALSE)}
          /\ b.queue = scan[s].queue \ {p} /\ b.group = scan[s].group
          /\ b.ask = scan[s].ask
      BY <1>1, <2>1 DEF Scan
    <3>2. scan' = [scan EXCEPT ![s] = c]
      BY <2>3 DEF PostFails
    <3> HIDE DEF b
    <3>3. /\ c \in Scan /\ c.past = scan[s].past
          /\ c.rows = scan[s].rows \cup {NewDeal(s, p, FALSE)}
          /\ c.queue = scan[s].queue \ {p} /\ c.group = scan[s].group
          /\ c.ask = scan[s].ask /\ c.pc \in {"post", "group", "city"}
      BY <3>1, OnwardType
    <3> HIDE DEF c
    <3> QED BY <2>1, <3>2, <3>3 DEF Idle
  <2> QED BY <2>2, <2>3
<1>3. /\ chat \subseteq chat' /\ chat' \subseteq chat \cup {m}
      /\ UNCHANGED <<today, deals, reminded, told, crashes>>
  BY DEF PostDeal, PostFails
<1>4. /\ m \in Post /\ m.scan = s /\ m.group = scan[s].group /\ m.product = p
      /\ r \in Deal /\ r.scan = s /\ PostOf(r) = m
      /\ r.group = m.group /\ r.product = m.product
  <2>1. scan[s].group \in Groups /\ today \in Day
    BY <1>1 DEF Scan, IInv, TypeOK
  <2>2. /\ m \in Post /\ m.scan = s /\ m.group = scan[s].group
        /\ m.product = p /\ m.day = today
        /\ m = [scan |-> s, group |-> scan[s].group, product |-> p, day |-> today]
    BY <2>1 DEF NewPost, Post
  <2>3. /\ r \in Deal /\ r.scan = s /\ r.group = scan[s].group
        /\ r.product = p /\ r.day = today
    <3>1. CASE r = NewDeal(s, p, TRUE)
      BY <2>1, <3>1 DEF NewDeal, Deal
    <3>2. CASE r = NewDeal(s, p, FALSE)
      BY <2>1, <3>2 DEF NewDeal, Deal
    <3> QED BY <1>2, <3>1, <3>2
  <2> QED BY <2>2, <2>3 DEF PostOf
<1>5. /\ scan'[s] = c
      /\ \A s2 \in Scans : s2 # s => scan'[s2] = scan[s2]
  BY <1>1, <1>2
<1> HIDE DEF m
<1>6. \A s2 \in Scans : s2 # s => Fits(s2)'
  BY <1>1, <1>2, <1>3, <1>4, Others DEF IInv, TypeOK
<1>7. TypeOK'
  BY <1>2, <1>3, <1>4 DEF IInv, TypeOK
<1>8. ToldPast'
  BY <1>3 DEF IInv, ToldPast
<1>9. RowsOwn(s)'
  BY <1>1, <1>2, <1>3, <1>4, <1>5 DEF Fits, RowsOwn
<1>10. NothingIdle(s)'
  BY <1>2, <1>5 DEF NothingIdle
<1>11. Kept(s)'
  BY <1>1, <1>2, <1>3, <1>4, <1>5 DEF Fits, Kept
<1>12. PastDone(s)'
  BY <1>1, <1>2, <1>5 DEF Fits, PastDone, Done
<1>13. QueueNew(s)'
  BY <1>1, <1>2, <1>3, <1>4, <1>5 DEF Fits, QueueNew, Known
<1>14. Marked(s)' /\ AskDue(s)'
  BY <1>1, <1>2, <1>3, <1>5 DEF Fits, Marked, AskDue, Known, Idle
<1> QED BY <1>6, <1>7, <1>8, <1>9, <1>10, <1>11, <1>12, <1>13, <1>14
        DEF IInv, Fits
-----------------------------------------------------------------------------
\* Whom it asks for has not been written to lately: it would be marked.
LEMMA FindCandidatesHolds ==
    ASSUME IInv, NEW s \in Scans, FindCandidates(s)
    PROVE  IInv'
<1>1. /\ scan[s] \in Scan /\ Fits(s) /\ scan[s].pc = "posted"
      /\ s \in DOMAIN scan
  BY DEF IInv, TypeOK, FindCandidates
<1>2. PICK ask \in SUBSET {u \in Users : Due(u)} :
          scan' = [scan EXCEPT ![s].pc = "remind", ![s].ask = ask]
  BY DEF FindCandidates
<1> DEFINE c == [scan[s] EXCEPT !.pc = "remind", !.ask = ask]
<1>3. /\ c \in Scan /\ c.past = scan[s].past /\ c.rows = scan[s].rows
      /\ c.queue = scan[s].queue /\ c.group = scan[s].group /\ c.ask = ask
      /\ c.pc = "remind"
  BY <1>1 DEF Scan
<1>4. scan' = [scan EXCEPT ![s] = c]
  BY <1>2
<1> HIDE DEF c
<1>5. /\ scan'[s] = c
      /\ \A s2 \in Scans : s2 # s => scan'[s2] = scan[s2]
      /\ UNCHANGED <<today, deals, chat, reminded, told, crashes>>
  <2>1. UNCHANGED <<today, deals, chat, reminded, told, crashes>>
    BY DEF FindCandidates
  <2>2. /\ scan'[s] = c
        /\ \A s2 \in Scans : s2 # s => scan'[s2] = scan[s2]
    BY <1>1, <1>4
  <2> QED BY <2>1, <2>2
<1>6. \A s2 \in Scans : s2 # s => Fits(s2)'
  BY <1>1, <1>3, <1>4, <1>5, Others DEF IInv, TypeOK
<1>7. TypeOK' /\ ToldPast'
  BY <1>3, <1>4, <1>5 DEF IInv, TypeOK, ToldPast
<1>8. RowsOwn(s)' /\ NothingIdle(s)' /\ Kept(s)' /\ QueueNew(s)' /\ Marked(s)'
  BY <1>1, <1>3, <1>5
  DEF Fits, RowsOwn, NothingIdle, Idle, Kept, QueueNew, Marked, Known
<1>9. PastDone(s)'
  BY <1>1, <1>3, <1>5 DEF Fits, PastDone, Done
<1>10. AskDue(s)'
  <2> SUFFICES ASSUME NEW u \in ask, NEW m \in told, m.scan \in Known(s),
                      m.user = u, m.answered
               PROVE  today - m.day >= Interval
    BY <1>3, <1>5 DEF AskDue, Known
  <2>1. /\ m \in Reminder /\ m.scan \in Scans /\ m.day \in Nat /\ today \in Nat
        /\ Fits(m.scan) /\ Due(u) /\ Interval \in Nat
    BY Types, DaysAssumption DEF IInv, TypeOK, Reminder
  <2>2. scan[m.scan].pc \in {"posted", "done"}
    BY <1>1, <2>1 DEF Known, Fits, PastDone, Done
  <2>3. reminded[u] \in Day /\ reminded[u] >= m.day
    BY <2>1, <2>2 DEF Fits, Marked
  <2>4. reminded[u] \in Nat /\ reminded[u] # Never
    BY <2>3, Types DEF IInv
  <2>5. today - reminded[u] >= Interval
    BY <2>1, <2>4 DEF Due
  <2> QED BY <2>1, <2>3, <2>4, <2>5
<1> QED BY <1>6, <1>7, <1>8, <1>9, <1>10 DEF IInv, Fits

LEMMA SendReminderHolds ==
    ASSUME IInv, NEW s \in Scans, NEW u \in Users, SendReminder(s, u)
    PROVE  IInv'
<1>1. /\ scan[s] \in Scan /\ Fits(s) /\ scan[s].pc = "remind"
      /\ s \in DOMAIN scan /\ today \in Day /\ today \in Nat
  BY Types DEF IInv, TypeOK, SendReminder
<1> DEFINE c == [scan[s] EXCEPT !.pc = "mark", !.ask = @ \ {u}, !.to = u]
           n == NewReminder(s, u, TRUE)
<1>2. /\ c \in Scan /\ c.past = scan[s].past /\ c.rows = scan[s].rows
      /\ c.queue = scan[s].queue /\ c.group = scan[s].group
      /\ c.ask = scan[s].ask \ {u} /\ c.pc = "mark" /\ c.to = u
      /\ n \in Reminder /\ n.scan = s /\ n.user = u /\ n.day = today
  BY <1>1 DEF Scan, Reminder, NewReminder
<1>3. scan' = [scan EXCEPT ![s] = c] /\ told' = told \cup {n}
  BY DEF SendReminder
<1> HIDE DEF c, n
<1>4. /\ scan'[s] = c
      /\ \A s2 \in Scans : s2 # s => scan'[s2] = scan[s2]
      /\ UNCHANGED <<today, deals, chat, reminded, crashes>>
  <2>1. UNCHANGED <<today, deals, chat, reminded, crashes>>
    BY DEF SendReminder
  <2>2. /\ scan'[s] = c
        /\ \A s2 \in Scans : s2 # s => scan'[s2] = scan[s2]
    BY <1>1, <1>3
  <2> QED BY <2>1, <2>2
<1>5. \A s2 \in Scans : s2 # s => Fits(s2)'
  BY <1>1, <1>2, <1>3, <1>4, Others DEF IInv, TypeOK
<1>6. TypeOK'
  BY <1>2, <1>3, <1>4 DEF IInv, TypeOK
<1>7. ToldPast'
  BY <1>1, <1>2, <1>3, <1>4 DEF IInv, ToldPast
<1>8. RowsOwn(s)' /\ NothingIdle(s)' /\ Kept(s)' /\ QueueNew(s)'
  BY <1>1, <1>2, <1>4
  DEF Fits, RowsOwn, NothingIdle, Idle, Kept, QueueNew, Known
<1>9. PastDone(s)'
  BY <1>1, <1>2, <1>4 DEF Fits, PastDone, Done
<1>10. Marked(s)' /\ AskDue(s)'
  BY <1>1, <1>2, <1>3, <1>4 DEF Fits, Marked, AskDue, Known
<1> QED BY <1>5, <1>6, <1>7, <1>8, <1>9, <1>10 DEF IInv, Fits

\* The answer is lost: nothing is known of the message, and nothing is asked.
LEMMA ReminderUnansweredHolds ==
    ASSUME IInv, NEW s \in Scans, NEW u \in Users, ReminderUnanswered(s, u)
    PROVE  IInv'
<1>1. /\ scan[s] \in Scan /\ Fits(s) /\ scan[s].pc = "remind"
      /\ s \in DOMAIN scan /\ today \in Day /\ today \in Nat
  BY Types DEF IInv, TypeOK, ReminderUnanswered
<1> DEFINE b == [scan[s] EXCEPT !.ask = {}]
           c == Onward(b)
           n == NewReminder(s, u, FALSE)
<1>2. /\ b \in Scan /\ b.past = scan[s].past /\ b.rows = scan[s].rows
      /\ b.queue = scan[s].queue /\ b.group = scan[s].group /\ b.ask = {}
      /\ n \in Reminder /\ n.scan = s /\ n.day = today /\ n.answered = FALSE
  BY <1>1 DEF Scan, Reminder, NewReminder
<1>3. scan' = [scan EXCEPT ![s] = c] /\ told' = told \cup {n}
  BY DEF ReminderUnanswered
<1> HIDE DEF b, n
<1>4. /\ c \in Scan /\ c.past = scan[s].past /\ c.rows = scan[s].rows
      /\ c.queue = scan[s].queue /\ c.group = scan[s].group /\ c.ask = {}
      /\ c.pc \in {"post", "group", "city"}
  BY <1>2, OnwardType
<1> HIDE DEF c
<1>5. /\ scan'[s] = c
      /\ \A s2 \in Scans : s2 # s => scan'[s2] = scan[s2]
      /\ UNCHANGED <<today, deals, chat, reminded, crashes>>
  <2>1. UNCHANGED <<today, deals, chat, reminded, crashes>>
    BY DEF ReminderUnanswered
  <2>2. /\ scan'[s] = c
        /\ \A s2 \in Scans : s2 # s => scan'[s2] = scan[s2]
    BY <1>1, <1>3
  <2> QED BY <2>1, <2>2
<1>6. \A s2 \in Scans : s2 # s => Fits(s2)'
  BY <1>1, <1>2, <1>3, <1>4, <1>5, Others DEF IInv, TypeOK
<1>7. TypeOK'
  BY <1>2, <1>3, <1>4, <1>5 DEF IInv, TypeOK
<1>8. ToldPast'
  BY <1>1, <1>2, <1>3, <1>5 DEF IInv, ToldPast
<1>9. RowsOwn(s)' /\ NothingIdle(s)' /\ Kept(s)' /\ QueueNew(s)'
  BY <1>1, <1>4, <1>5
  DEF Fits, RowsOwn, NothingIdle, Idle, Kept, QueueNew, Known
<1>10. PastDone(s)'
  BY <1>1, <1>4, <1>5 DEF Fits, PastDone, Done
<1>11. Marked(s)' /\ AskDue(s)'
  BY <1>1, <1>2, <1>3, <1>4, <1>5 DEF Fits, Marked, AskDue
<1> QED BY <1>6, <1>7, <1>8, <1>9, <1>10, <1>11 DEF IInv, Fits

\* A commit: the rows of the scan are in the table, the user is marked.
LEMMA CommitReminderHolds ==
    ASSUME IInv, NEW s \in Scans, CommitReminder(s)
    PROVE  IInv'
<1>1. /\ scan[s] \in Scan /\ Fits(s) /\ scan[s].pc = "mark"
      /\ s \in DOMAIN scan /\ today \in Day /\ today \in Nat
      /\ scan[s].to \in Users /\ scan[s].rows \subseteq Deal
  BY Types DEF IInv, TypeOK, CommitReminder, Scan
<1> DEFINE c == [scan[s] EXCEPT !.pc = "remind", !.rows = {}]
<1>2. /\ c \in Scan /\ c.past = scan[s].past /\ c.rows = {}
      /\ c.queue = scan[s].queue /\ c.group = scan[s].group
      /\ c.ask = scan[s].ask /\ c.pc = "remind"
  BY <1>1 DEF Scan
<1>3. /\ scan' = [scan EXCEPT ![s] = c]
      /\ deals' = deals \cup scan[s].rows
      /\ reminded' = [reminded EXCEPT ![scan[s].to] = today]
  BY DEF CommitReminder
<1> HIDE DEF c
<1>4. /\ scan'[s] = c
      /\ \A s2 \in Scans : s2 # s => scan'[s2] = scan[s2]
      /\ UNCHANGED <<today, chat, told, crashes>>
  <2>1. UNCHANGED <<today, chat, told, crashes>>
    BY DEF CommitReminder
  <2>2. /\ scan'[s] = c
        /\ \A s2 \in Scans : s2 # s => scan'[s2] = scan[s2]
    BY <1>1, <1>3
  <2> QED BY <2>1, <2>2
<1>5. \A u \in Users : reminded'[u] = IF u = scan[s].to THEN today ELSE reminded[u]
  BY <1>3 DEF IInv, TypeOK
<1>6. \A s2 \in Scans : s2 # s => Fits(s2)'
  BY <1>1, <1>2, <1>3, <1>4, <1>5, Others DEF IInv, TypeOK
<1>7. TypeOK'
  BY <1>1, <1>2, <1>3, <1>4 DEF IInv, TypeOK
<1>8. ToldPast'
  BY <1>1, <1>3, <1>4 DEF IInv, ToldPast, Fits, RowsOwn, PostOf
<1>9. RowsOwn(s)' /\ NothingIdle(s)' /\ Kept(s)' /\ QueueNew(s)' /\ AskDue(s)'
  BY <1>1, <1>2, <1>3, <1>4
  DEF Fits, RowsOwn, NothingIdle, Idle, Kept, QueueNew, Known, AskDue
<1>10. PastDone(s)'
  BY <1>1, <1>2, <1>4 DEF Fits, PastDone, Done
<1>11. Marked(s)'
  <2> SUFFICES ASSUME NEW m \in told, m.scan = s, m.answered
               PROVE  reminded'[m.user] \in Day /\ reminded'[m.user] >= m.day
    BY <1>4 DEF Marked
  <2>1. m.user \in Users /\ m.day \in Nat /\ m.day <= today
    BY Types DEF IInv, TypeOK, Reminder, ToldPast
  <2>2. \/ reminded[m.user] \in Day /\ reminded[m.user] >= m.day
        \/ scan[s].to = m.user
    BY <1>1 DEF Fits, Marked
  <2> QED BY <1>1, <1>5, <2>1, <2>2
<1> QED BY <1>6, <1>7, <1>8, <1>9, <1>10, <1>11 DEF IInv, Fits

LEMMA FinishScanHolds ==
    ASSUME IInv, NEW s \in Scans, FinishScan(s)
    PROVE  IInv'
<1>1. /\ scan[s] \in Scan /\ Fits(s) /\ scan[s].pc = "city"
      /\ s \in DOMAIN scan /\ scan[s].rows \subseteq Deal
  BY DEF IInv, TypeOK, FinishScan, Scan
<1> DEFINE c == Ended("done")
<1>2. /\ c \in Scan /\ c.past = {} /\ c.rows = {} /\ c.queue = {}
      /\ c.ask = {} /\ c.pc = "done"
  BY Types DEF IInv, Ended, NewScan
<1>3. /\ scan' = [scan EXCEPT ![s] = c]
      /\ deals' = deals \cup scan[s].rows
  BY DEF FinishScan
<1> HIDE DEF c
<1>4. /\ scan'[s] = c
      /\ \A s2 \in Scans : s2 # s => scan'[s2] = scan[s2]
      /\ UNCHANGED <<today, chat, reminded, told, crashes>>
  BY <1>1, <1>3 DEF FinishScan
<1>5. \A s2 \in Scans : s2 # s => Fits(s2)'
  BY <1>1, <1>2, <1>3, <1>4, Others DEF IInv, TypeOK
<1>6. TypeOK'
  BY <1>1, <1>2, <1>3, <1>4 DEF IInv, TypeOK
<1>7. ToldPast'
  BY <1>1, <1>3, <1>4 DEF IInv, ToldPast, Fits, RowsOwn, PostOf
<1>8. /\ RowsOwn(s)' /\ NothingIdle(s)' /\ Kept(s)' /\ QueueNew(s)' /\ AskDue(s)'
      /\ PastDone(s)' /\ Marked(s)'
  BY <1>1, <1>2, <1>3, <1>4
  DEF Fits, RowsOwn, NothingIdle, Kept, QueueNew, AskDue, PastDone, Marked
<1> QED BY <1>5, <1>6, <1>7, <1>8 DEF IInv, Fits
-----------------------------------------------------------------------------
\* A scan that is cut off has nothing left to keep, whether its last commit went
\* through or not.
LEMMA CutOffHolds ==
    ASSUME IInv, NEW s \in Scans, Abort(s) \/ CommitUnanswered(s)
    PROVE  IInv'
<1>1. /\ scan[s] \in Scan /\ scan[s].pc \notin Idle /\ scan[s].rows \subseteq Deal
      /\ s \in DOMAIN scan /\ today \in Day /\ scan[s].to \in Users
  BY DEF IInv, TypeOK, Abort, CommitUnanswered, Scan, Idle
<1> DEFINE c == Ended("stopped")
<1>2. /\ c \in Scan /\ c.past = {} /\ c.rows = {} /\ c.queue = {}
      /\ c.ask = {} /\ c.pc = "stopped"
  BY Types DEF IInv, Ended, NewScan
<1>3. scan' = [scan EXCEPT ![s] = c] /\ UNCHANGED <<today, chat, told, crashes>>
  BY DEF Abort, CommitUnanswered
<1>4. deals' \in {deals, deals \cup scan[s].rows}
  BY DEF Abort, CommitUnanswered
<1>5. reminded' = reminded \/ reminded' = [reminded EXCEPT ![scan[s].to] = today]
  BY DEF Abort, CommitUnanswered
<1> HIDE DEF c
<1>6. /\ scan'[s] = c
      /\ \A s2 \in Scans : s2 # s => scan'[s2] = scan[s2]
  BY <1>1, <1>3
<1>7. \A u \in Users : reminded'[u] \in {reminded[u], today}
  BY <1>5 DEF IInv, TypeOK
<1>8. \A s2 \in Scans : s2 # s => Fits(s2)'
  BY <1>1, <1>2, <1>3, <1>4, <1>7, Others DEF Idle
<1>9. TypeOK'
  BY <1>1, <1>2, <1>3, <1>4, <1>5 DEF IInv, TypeOK
<1>10. ToldPast'
  BY <1>3 DEF IInv, ToldPast
<1>11. Fits(s)'
  BY <1>2, <1>6
  DEF Fits, RowsOwn, NothingIdle, Kept, PastDone, QueueNew, Marked, AskDue
<1> QED BY <1>8, <1>9, <1>10, <1>11 DEF IInv

\* The same of all scans that run, when the process stops.
LEMMA CrashHolds ==
    ASSUME IInv, Crash
    PROVE  IInv'
<1>1. /\ scan' = [s \in Scans |-> IF s \in Running THEN Ended("stopped")
                                                   ELSE scan[s]]
      /\ UNCHANGED <<today, deals, chat, reminded, told>>
  BY DEF Crash
<1>2. crashes' \in 0..MaxCrashes /\ crashes' # 0
  BY CountsAssumption DEF Crash, IInv, TypeOK
<1>3. TypeOK'
  BY <1>1, <1>2, Types DEF IInv, TypeOK
<1>4. ToldPast'
  BY <1>1, <1>2 DEF IInv, ToldPast
<1>5. ASSUME NEW s \in Scans PROVE Fits(s)'
  <2>1. Fits(s)
    BY DEF IInv
  <2>2. CASE s \in Running
    <3>1. scan'[s] = Ended("stopped")
      BY <1>1, <2>2
    <3>2. /\ scan'[s].pc = "stopped" /\ scan'[s].past = {}
          /\ scan'[s].rows = {} /\ scan'[s].queue = {} /\ scan'[s].ask = {}
      BY <3>1 DEF Ended, NewScan
    <3> HIDE DEF Ended
    <3> QED BY <3>2 DEF Fits, RowsOwn, NothingIdle, Kept, PastDone, QueueNew,
                        Marked, AskDue
  <2>3. CASE s \notin Running
    <3>1. scan'[s] = scan[s]
      BY <1>1, <2>3
    <3>2. Done \subseteq Done'
      BY <1>1 DEF Done, Running
    <3> QED BY <1>1, <2>1, <3>1, <3>2
            DEF Fits, RowsOwn, NothingIdle, Kept, PastDone, QueueNew, Marked,
                AskDue, Known
  <2> QED BY <2>2, <2>3
<1> QED BY <1>3, <1>4, <1>5 DEF IInv

\* No scan runs when the day changes, so none has anything in hand.
LEMMA TickHolds ==
    ASSUME IInv, Tick
    PROVE  IInv'
<1>1. /\ UNCHANGED <<deals, chat, reminded, told, scan, crashes>>
      /\ Running = {} /\ today \in Nat /\ today' = today + 1 /\ today < MaxDay
  BY Types DEF Tick, IInv
<1>2. TypeOK'
  BY <1>1, DaysAssumption DEF IInv, TypeOK, Day
<1>3. ToldPast'
  <2>1. \A m \in told : m.day \in Nat /\ m.day <= today
    BY Types DEF IInv, ToldPast, TypeOK, Reminder
  <2> QED BY <1>1, <2>1 DEF ToldPast
<1>4. ASSUME NEW s \in Scans PROVE Fits(s)'
  <2>1. Fits(s) /\ scan[s].pc \in Idle
    BY <1>1 DEF IInv, Running, Idle
  <2>2. scan[s].queue = {} /\ scan[s].ask = {}
    BY <2>1 DEF Fits, NothingIdle
  <2> QED BY <1>1, <2>1, <2>2
          DEF Fits, RowsOwn, NothingIdle, Kept, PastDone, QueueNew, Marked,
              AskDue, Known, Done
<1> QED BY <1>2, <1>3, <1>4 DEF IInv

LEMMA StepHolds ==
    ASSUME IInv, NEW s \in Scans, Step(s)
    PROVE  IInv'
<1>1. CASE \E g \in Groups, offer \in SUBSET Products : FetchCity(s, g, offer)
  BY <1>1, FetchHolds
<1>2. CASE \E g \in Groups : FetchFails(s, g) \/ PickDeals(s, g)
  BY <1>2, FetchHolds, PickDealsHolds
<1>3. CASE \E p \in Products : PostDeal(s, p) \/ PostFails(s, p)
  BY <1>3, PostHolds
<1>4. CASE FindCandidates(s)
  BY <1>4, FindCandidatesHolds
<1>5. CASE \E u \in Users : \/ SendReminder(s, u) \/ ReminderFails(s, u)
                         \/ ReminderUnanswered(s, u)
  BY <1>5, SendReminderHolds, ReminderUnansweredHolds, PassHolds
<1>6. CASE CommitReminder(s) \/ EndReminders(s) \/ FinishScan(s)
  BY <1>6, CommitReminderHolds, PassHolds, FinishScanHolds
<1> QED BY <1>1, <1>2, <1>3, <1>4, <1>5, <1>6 DEF Step

LEMMA NextHolds == IInv /\ [Next]_vars => IInv'
<1> SUFFICES ASSUME IInv, [Next]_vars PROVE IInv'
  OBVIOUS
<1>1. ASSUME NEW s \in Scans,
             \/ Begin(s, Groups) \/ \E g \in Groups : Begin(s, {g})
             \/ ConnectFails(s) \/ Step(s) \/ Abort(s) \/ CommitUnanswered(s)
      PROVE  IInv'
  <2>1. CASE Begin(s, Groups)
    BY <2>1, BeginHolds
  <2>2. ASSUME NEW g \in Groups, Begin(s, {g}) PROVE IInv'
    <3>1. {g} \in SUBSET Groups
      OBVIOUS
    <3> QED BY <2>2, <3>1, BeginHolds
  <2> QED BY <1>1, <2>1, <2>2, ConnectFailsHolds, StepHolds, CutOffHolds
<1>2. CASE UNCHANGED vars
  BY <1>2 DEF vars, IInv, TypeOK, ToldPast, Fits, RowsOwn,
     NothingIdle, Kept, PastDone, QueueNew, Marked, AskDue, Known, Done
<1> QED BY <1>1, <1>2, CrashHolds, TickHolds DEF Next

LEMMA Invariance == Spec => []IInv
BY InitHolds, NextHolds, PTL DEF Spec
-----------------------------------------------------------------------------
\* The types of the table, of the chats and of the scans (promo_scanner.py).
THEOREM TypeCorrect == Spec => []TypeOK
<1>1. IInv => TypeOK
  BY DEF IInv
<1> QED BY <1>1, Invariance, PTL

\* A post is without its deal only if its scan was cut off: otherwise the deal is
\* in the table or still to be committed by the scan (promo_scanner.py:175-227).
THEOREM PostsHaveTheirRows == Spec => []PostsKept
<1>1. IInv => PostsKept
  <2> SUFFICES ASSUME IInv, NEW m \in chat, scan[m.scan].pc # "stopped"
               PROVE  \E r \in deals \cup scan[m.scan].rows :
                         r.scan = m.scan /\ r.group = m.group /\ r.product = m.product
    BY DEF PostsKept
  <2>1. Fits(m.scan)
    BY DEF IInv, TypeOK, Post
  <2>2. PICK r \in deals \cup scan[m.scan].rows : PostOf(r) = m
    BY <2>1 DEF Fits, Kept
  <2> QED BY <2>2 DEF PostOf
<1> QED BY <1>1, Invariance, PTL

\* A scan repeats no goods that itself or a scan before it has posted within the
\* window (promo_scanner.py:139-152), however many scans overlap.
THEOREM NothingRepeated == Spec => NoDuplicates
<1> DEFINE A == \A s \in Scans, p \in Products : PostDeal(s, p) \/ PostFails(s, p) =>
                  \A m \in chat :
                     m.scan \in Known(s) /\ m.group = scan[s].group /\ m.product = p
                         => today - m.day > Window
<1>1. IInv => A
  BY DEF IInv, Fits, QueueNew, PostDeal, PostFails
<1>2. IInv => [A]_vars
  BY <1>1
<1> HIDE DEF A
<1>3. Spec => [][A]_vars
  BY <1>2, Invariance, PTL
<1> QED BY <1>3 DEF NoDuplicates, A

\* A scan writes within the interval to nobody to whom itself or a scan before it
\* knows to have written (reminders.py:96-127), however many scans overlap.
THEOREM NobodyPestered == Spec => RemindersApart
<1> DEFINE A == \A s \in Scans, u \in Users :
                  SendReminder(s, u) \/ ReminderUnanswered(s, u) =>
                    \A m \in told :
                       m.scan \in Known(s) /\ m.user = u /\ m.answered
                           => today - m.day >= Interval
<1>1. IInv => A
  BY DEF IInv, Fits, AskDue, SendReminder, ReminderUnanswered
<1>2. IInv => [A]_vars
  BY <1>1
<1> HIDE DEF A
<1>3. Spec => [][A]_vars
  BY <1>2, Invariance, PTL
<1> QED BY <1>3 DEF RemindersApart, A
-----------------------------------------------------------------------------
(* SCANS THAT DO NOT OVERLAP AND ARE NOT CUT OFF: nothing is posted twice.    *)

OneAtATime == \A s, s2 \in Running : s = s2

\* No scan is cut off after it has posted or written to somebody.
NoneCutOff == \A m \in chat \cup told : scan[m.scan].pc # "stopped"

Undisturbed == OneAtATime /\ NoneCutOff

\* No answer to a reminder is lost.
AllAnswered == \A m \in told : m.answered

\* Whoever has posted or reminded is known to the scan that runs.
AllKnown ==
    \A m \in chat \cup told :
        /\ scan[m.scan].pc # "ready"
        /\ \A s \in Running : m.scan \in Known(s)

\* What a step of scan s leaves of it, and what it adds.
LEMMA StepOf ==
    ASSUME IInv, NEW s \in Scans, Step(s)
    PROVE  /\ s \in Running
           /\ scan'[s].pc \notin {"ready", "stopped"}
           /\ scan'[s].pc = "done" \/ scan'[s].past = scan[s].past
           /\ \A s2 \in Scans \ {s} : scan'[s2] = scan[s2]
           /\ \A m \in chat' \cup told' : m \in chat \cup told \/ m.scan = s
<1> DEFINE G == /\ s \in Running
                /\ scan'[s].pc \notin {"ready", "stopped"}
                /\ scan'[s].pc = "done" \/ scan'[s].past = scan[s].past
                /\ \A s2 \in Scans \ {s} : scan'[s2] = scan[s2]
           N == \A m \in chat' \cup told' : m \in chat \cup told \/ m.scan = s
<1> USE DEF Running
<1>1. scan \in [Scans -> Scan] /\ scan[s] \in Scan
  BY DEF IInv, TypeOK
<1>2. CASE \/ \E g \in Groups, offer \in SUBSET Products : FetchCity(s, g, offer)
           \/ \E g \in Groups : FetchFails(s, g)
           \/ FindCandidates(s)
           \/ \E u \in Users : ReminderFails(s, u)
  <2>1. UNCHANGED <<chat, told>> /\ s \in Running
    BY <1>2 DEF FetchCity, FetchFails, FindCandidates, ReminderFails
  <2>2. /\ scan'[s].pc \in {"group", "city", "remind"} /\ scan'[s].past = scan[s].past
        /\ \A s2 \in Scans \ {s} : scan'[s2] = scan[s2]
    <3>1. CASE \E g \in Groups, offer \in SUBSET Products : FetchCity(s, g, offer)
      <4>1. PICK here, todo, offer :
               scan' = [scan EXCEPT ![s].pc = "group", ![s].here = here,
                                    ![s].todo = todo, ![s].offer = offer]
        BY <3>1 DEF FetchCity
      <4> QED BY <1>1, <4>1 DEF Scan
    <3>2. CASE \E g \in Groups : FetchFails(s, g)
      BY <1>1, <3>2 DEF FetchFails, Scan
    <3>3. CASE FindCandidates(s)
      BY <1>1, <3>3 DEF FindCandidates, Scan
    <3>4. CASE \E u \in Users : ReminderFails(s, u)
      BY <1>1, <3>4 DEF ReminderFails, Scan
    <3> QED BY <1>2, <3>1, <3>2, <3>3, <3>4
  <2> QED BY <2>1, <2>2
<1>3. CASE \E u \in Users : SendReminder(s, u)
  <2>1. PICK u \in Users :
           /\ scan[s].pc = "remind" /\ chat' = chat
           /\ told' = told \cup {NewReminder(s, u, TRUE)}
           /\ scan' = [scan EXCEPT ![s].pc = "mark", ![s].ask = scan[s].ask \ {u},
                                   ![s].to = u]
    BY <1>3 DEF SendReminder
  <2>2. /\ scan'[s].pc = "mark" /\ scan'[s].past = scan[s].past
        /\ \A s2 \in Scans \ {s} : scan'[s2] = scan[s2]
    BY <1>1, <2>1 DEF Scan
  <2>3. \A m \in chat' \cup told' : m \in chat \cup told \/ m.scan = s
    BY <2>1 DEF NewReminder
  <2> QED BY <2>1, <2>2, <2>3
<1>4. CASE CommitReminder(s)
  <2>1. /\ scan[s].pc = "mark" /\ UNCHANGED <<chat, told>>
        /\ scan' = [scan EXCEPT ![s].pc = "remind", ![s].rows = {}]
    BY <1>4 DEF CommitReminder
  <2>2. /\ scan'[s].pc = "remind" /\ scan'[s].past = scan[s].past
        /\ \A s2 \in Scans \ {s} : scan'[s2] = scan[s2]
    BY <1>1, <2>1 DEF Scan
  <2> QED BY <2>1, <2>2
<1>5. CASE FinishScan(s)
  BY <1>1, <1>5 DEF FinishScan, Ended, NewScan
<1>6. CASE EndReminders(s)
  <2> DEFINE c == [scan[s] EXCEPT !.ask = {}]
  <2>1. c \in Scan /\ c.past = scan[s].past
    BY <1>1 DEF Scan
  <2>2. scan'[s] = Onward(c)
    BY <1>1, <1>6 DEF EndReminders
  <2>3. scan'[s].pc \in {"post", "group", "city"} /\ scan'[s].past = scan[s].past
    BY <2>1, <2>2, OnwardType
  <2> QED BY <1>1, <1>6, <2>3 DEF EndReminders
<1>7. ASSUME NEW g \in Groups, PickDeals(s, g) PROVE G /\ N
  <2>1. PICK queue \in SUBSET (scan[s].offer \ Existing(s, g)) :
           scan' = [scan EXCEPT ![s] =
                       Onward([scan[s] EXCEPT !.group = g, !.here = scan[s].here \ {g},
                                              !.queue = queue])]
    BY <1>7 DEF PickDeals
  <2> DEFINE c == [scan[s] EXCEPT !.group = g, !.here = scan[s].here \ {g},
                                  !.queue = queue]
  <2>2. c \in Scan /\ c.past = scan[s].past
    BY <1>1 DEF Scan
  <2>3. scan'[s] = Onward(c)
    BY <1>1, <2>1
  <2>4. scan'[s].pc \in {"post", "group", "city"} /\ scan'[s].past = scan[s].past
    BY <2>2, <2>3, OnwardType
  <2> QED BY <1>1, <1>7, <2>1, <2>4 DEF PickDeals
<1>8. ASSUME NEW p \in Products, PostDeal(s, p) PROVE G /\ N
  BY <1>1, <1>8 DEF PostDeal, NewPost, Scan
<1>9. ASSUME NEW p \in Products, PostFails(s, p) PROVE G /\ N
  BY <1>1, <1>9 DEF PostFails, NewPost, Onward, Scan
<1>10. ASSUME NEW u \in Users, ReminderUnanswered(s, u) PROVE G /\ N
  <2> DEFINE c == [scan[s] EXCEPT !.ask = {}]
  <2>1. c \in Scan /\ c.past = scan[s].past
    BY <1>1 DEF Scan
  <2>2. scan'[s] = Onward(c)
    BY <1>1, <1>10 DEF ReminderUnanswered
  <2>3. scan'[s].pc \in {"post", "group", "city"} /\ scan'[s].past = scan[s].past
    BY <2>1, <2>2, OnwardType
  <2>4. NewReminder(s, u, FALSE).scan = s
    BY DEF NewReminder
  <2> QED BY <1>1, <1>10, <2>3, <2>4 DEF ReminderUnanswered
<1> QED BY <1>2, <1>3, <1>4, <1>5, <1>6, <1>7, <1>8, <1>9, <1>10 DEF Step

LEMMA AllKnownKept ==
    ASSUME IInv, Undisturbed, Undisturbed', AllKnown, [Next]_vars
    PROVE  AllKnown'
<1>0. /\ scan \in [Scans -> Scan]
      /\ \A m \in chat \cup told : m.scan \in Scans
  BY DEF IInv, TypeOK, Post, Reminder
<1>1. ASSUME NEW s \in Scans, NEW gs, Begin(s, gs) PROVE AllKnown'
  <2>1. /\ scan[s].pc = "ready" /\ UNCHANGED <<chat, told>>
        /\ scan'[s].pc = "city" /\ scan'[s].past = Done
        /\ \A s2 \in Scans \ {s} : scan'[s2] = scan[s2]
    BY <1>0, <1>1 DEF Begin, Scan
  <2>2. \A s2 \in Scans \ {s} : s2 \notin Running
    BY <2>1 DEF Undisturbed, OneAtATime, Running
  <2>3. ASSUME NEW m \in chat \cup told
        PROVE  m.scan # s /\ m.scan \in Done
    BY <1>0, <2>1, <2>2 DEF AllKnown, Undisturbed, NoneCutOff, Running, Done
  <2>4. Running' = {s}
    BY <2>1, <2>2 DEF Running
  <2>5. Known(s)' = {s} \cup Done
    BY <2>1 DEF Known
  <2> QED BY <1>0, <2>1, <2>3, <2>4, <2>5 DEF AllKnown, Done
<1>2. ASSUME NEW s \in Scans, ConnectFails(s) PROVE AllKnown'
  <2>1. /\ scan[s].pc = "ready" /\ UNCHANGED <<chat, told>>
        /\ scan'[s].pc = "stopped"
        /\ \A s2 \in Scans \ {s} : scan'[s2] = scan[s2]
    BY <1>0, <1>2 DEF ConnectFails, Ended, NewScan
  <2>2. \A m \in chat \cup told : m.scan # s
    BY <2>1 DEF AllKnown
  <2>3. \A s2 \in Running' : s2 \in Running /\ Known(s2)' = Known(s2)
    BY <2>1 DEF Running, Known
  <2> QED BY <1>0, <2>1, <2>2, <2>3 DEF AllKnown
<1>3. ASSUME NEW s \in Scans, Step(s) PROVE AllKnown'
  <2>1. /\ s \in Running
        /\ scan'[s].pc \notin {"ready", "stopped"}
        /\ scan'[s].pc = "done" \/ scan'[s].past = scan[s].past
        /\ \A s2 \in Scans \ {s} : scan'[s2] = scan[s2]
        /\ \A m \in chat' \cup told' : m \in chat \cup told \/ m.scan = s
    BY <1>3, StepOf
  <2>2. \A s2 \in Running' : s2 = s /\ Known(s2)' = Known(s)
    BY <2>1 DEF Running, Undisturbed, OneAtATime, Known
  <2>3. s \in Known(s)
    BY DEF Known
  <2>4. \A m \in chat' \cup told' : scan'[m.scan].pc # "ready"
    BY <1>0, <2>1 DEF AllKnown
  <2>5. \A m \in chat' \cup told' : m.scan \in Known(s)
    BY <2>1, <2>3 DEF AllKnown
  <2> QED BY <2>2, <2>4, <2>5 DEF AllKnown
<1>4. CASE Tick \/ UNCHANGED vars
  BY <1>4 DEF Tick, vars, AllKnown, Running, Known
<1>5. ASSUME NEW s \in Scans, Abort(s) \/ CommitUnanswered(s) PROVE AllKnown'
  <2>1. UNCHANGED <<chat, told>> /\ scan'[s].pc = "stopped"
        /\ \A s2 \in Scans \ {s} : scan'[s2] = scan[s2]
    BY <1>0, <1>5 DEF Abort, CommitUnanswered, Ended, NewScan
  <2>2. \A s2 \in Running' : s2 \in Running /\ Known(s2)' = Known(s2)
    BY <2>1 DEF Running, Known
  <2> QED BY <1>0, <2>1, <2>2 DEF AllKnown
<1>6. CASE Crash
  <2>1. UNCHANGED <<chat, told>>
        /\ \A s \in Scans : scan'[s] = IF s \in Running THEN Ended("stopped")
                                                      ELSE scan[s]
    BY <1>6 DEF Crash
  <2>2. Ended("stopped").pc = "stopped"
    BY DEF Ended, NewScan
  <2>3. Running' = {}
    BY <2>1, <2>2 DEF Running
  <2> QED BY <1>0, <2>1, <2>2, <2>3 DEF AllKnown
<1> QED BY <1>1, <1>2, <1>3, <1>4, <1>5, <1>6 DEF Next

LEMMA AllKnownInvariance == Spec /\ []Undisturbed => []AllKnown
<1>1. Init => AllKnown
  BY DEF Init, AllKnown
<1>2. IInv /\ Undisturbed /\ Undisturbed' /\ AllKnown /\ [Next]_vars => AllKnown'
  BY AllKnownKept
<1> QED BY <1>1, <1>2, Invariance, PTL DEF Spec

\* Where a step posts, and whom it writes to.
LEMMA WhoPosts ==
    ASSUME IInv, [Next]_vars
    PROVE  /\ \A m \in chat' \ chat : \E s \in Running, p \in Products :
                 m = NewPost(s, p) /\ (PostDeal(s, p) \/ PostFails(s, p))
           /\ \A m \in told' \ told : \E s \in Running, u \in Users :
                 m.day = today /\ m.user = u /\ (SendReminder(s, u) \/ ReminderUnanswered(s, u))
<1> DEFINE G == /\ \A m \in chat' \ chat : \E s \in Running, p \in Products :
                      m = NewPost(s, p) /\ (PostDeal(s, p) \/ PostFails(s, p))
                /\ \A m \in told' \ told : \E s \in Running, u \in Users :
                      m.day = today /\ m.user = u /\ (SendReminder(s, u) \/ ReminderUnanswered(s, u))
<1> SUFFICES G
  OBVIOUS
<1>1. ASSUME NEW s \in Scans, NEW p \in Products, PostDeal(s, p) \/ PostFails(s, p)
      PROVE  G
  <2>1. s \in Running /\ told' = told
    BY <1>1 DEF PostDeal, PostFails, Running
  <2>2. chat' \in {chat, chat \cup {NewPost(s, p)}}
    BY <1>1 DEF PostDeal, PostFails
  <2> QED BY <1>1, <2>1, <2>2
<1>2. ASSUME NEW s \in Scans, NEW u \in Users,
             SendReminder(s, u) \/ ReminderUnanswered(s, u)
      PROVE  G
  <2>1. s \in Running /\ chat' = chat
    BY <1>2 DEF SendReminder, ReminderUnanswered, Running
  <2>2. PICK n \in {NewReminder(s, u, TRUE), NewReminder(s, u, FALSE)} :
           told' = told \cup {n}
    BY <1>2 DEF SendReminder, ReminderUnanswered
  <2>3. n.day = today /\ n.user = u
    BY DEF NewReminder
  <2> QED BY <1>2, <2>1, <2>2, <2>3
<1>3. CASE chat' = chat /\ told' = told
  BY <1>3
<1>4. ASSUME NEW s \in Scans,
             \/ Begin(s, Groups) \/ \E g \in Groups : Begin(s, {g})
             \/ ConnectFails(s)
      PROVE  chat' = chat /\ told' = told
  BY <1>4 DEF Begin, ConnectFails
<1>5. ASSUME NEW s \in Scans,
             \/ \E g \in Groups, offer \in SUBSET Products : FetchCity(s, g, offer)
             \/ \E g \in Groups : FetchFails(s, g) \/ PickDeals(s, g)
             \/ FindCandidates(s) \/ \E u \in Users : ReminderFails(s, u)
             \/ CommitReminder(s) \/ EndReminders(s) \/ FinishScan(s)
      PROVE  chat' = chat /\ told' = told
  BY <1>5 DEF FetchCity, FetchFails, PickDeals, FindCandidates, ReminderFails,
              CommitReminder, EndReminders, FinishScan
<1>6. CASE \/ Tick \/ Crash \/ UNCHANGED vars
           \/ \E s \in Scans : Abort(s) \/ CommitUnanswered(s)
  BY <1>3, <1>6 DEF Tick, Crash, Abort, CommitUnanswered, vars
<1> HIDE DEF G
<1>7. ASSUME NEW s \in Scans, Step(s) PROVE G
  <2>1. chat' = chat /\ told' = told => G
    BY <1>3
  <2> QED BY <1>1, <1>2, <1>5, <1>7, <2>1 DEF Step
<1>8. ASSUME NEW s \in Scans,
             \/ Begin(s, Groups) \/ \E g \in Groups : Begin(s, {g})
             \/ ConnectFails(s)
      PROVE  G
  BY <1>3, <1>4, <1>8
<1>9. ASSUME NEW s \in Scans,
             \/ Begin(s, Groups) \/ \E g \in Groups : Begin(s, {g})
             \/ ConnectFails(s) \/ Step(s)
      PROVE  G
  <2>1. CASE Step(s)
    BY <1>7, <2>1
  <2>2. CASE ~Step(s)
    BY <1>8, <1>9, <2>2
  <2> QED BY <2>1, <2>2
<1> QED BY <1>6, <1>9 DEF Next

\* As long as scans do not overlap and none is cut off, a group is not shown the
\* same goods twice within the window (README.md:16-17), also when the answer to
\* a post was lost and whatever cities failed.
THEOREM ShownOnce == Spec /\ []Undisturbed => NeverTwice
<1> DEFINE A == \A m \in chat' \ chat : \A m2 \in chat :
                  m2.group = m.group /\ m2.product = m.product
                      => m.day - m2.day > Window
<1>1. IInv /\ AllKnown /\ [Next]_vars => A
  <2> SUFFICES ASSUME IInv, AllKnown, [Next]_vars,
                      NEW m \in chat' \ chat, NEW m2 \in chat,
                      m2.group = m.group, m2.product = m.product
               PROVE  m.day - m2.day > Window
    OBVIOUS
  <2>1. PICK s \in Running, p \in Products :
           m = NewPost(s, p) /\ (PostDeal(s, p) \/ PostFails(s, p))
    BY WhoPosts
  <2>2. m.group = scan[s].group /\ m.product = p /\ m.day = today
    BY <2>1 DEF NewPost
  <2>3. m2.scan \in Known(s) /\ s \in Scans
    BY DEF AllKnown, Running
  <2>4. p \in scan[s].queue
    BY <2>1 DEF PostDeal, PostFails
  <2> QED BY <2>2, <2>3, <2>4 DEF IInv, Fits, QueueNew
<1>2. IInv /\ AllKnown /\ [Next]_vars => [A]_vars
  BY <1>1
<1> HIDE DEF A
<1>3. Spec /\ []Undisturbed => [][A]_vars
  BY <1>2, Invariance, AllKnownInvariance, PTL DEF Spec
<1> QED BY <1>3 DEF NeverTwice, A

\* As long as, besides, no answer to a reminder is lost, no user is written to
\* twice within the interval (reminders.py:96).
THEOREM WrittenOnce == Spec /\ []Undisturbed /\ []AllAnswered => RemindedOnce
<1> DEFINE A == \A m \in told' \ told : \A m2 \in told :
                  m2.user = m.user => m.day - m2.day >= Interval
<1>1. IInv /\ AllKnown /\ AllAnswered /\ [Next]_vars => A
  <2> SUFFICES ASSUME IInv, AllKnown, AllAnswered, [Next]_vars,
                      NEW m \in told' \ told, NEW m2 \in told, m2.user = m.user
               PROVE  m.day - m2.day >= Interval
    OBVIOUS
  <2>1. PICK s \in Running, u \in Users :
           m.day = today /\ m.user = u /\ (SendReminder(s, u) \/ ReminderUnanswered(s, u))
    BY WhoPosts
  <2>2. m.user = u /\ m.day = today
    BY <2>1
  <2>3. m2.scan \in Known(s) /\ m2.answered /\ s \in Scans
    BY DEF AllKnown, AllAnswered, Running
  <2>4. u \in scan[s].ask
    BY <2>1 DEF SendReminder, ReminderUnanswered
  <2> QED BY <2>2, <2>3, <2>4 DEF IInv, Fits, AskDue
<1>2. IInv /\ AllKnown /\ AllAnswered /\ [Next]_vars => [A]_vars
  BY <1>1
<1> HIDE DEF A
<1>3. Spec /\ []Undisturbed /\ []AllAnswered => [][A]_vars
  BY <1>2, Invariance, AllKnownInvariance, PTL DEF Spec
<1> QED BY <1>3 DEF RemindedOnce, A
=============================================================================
