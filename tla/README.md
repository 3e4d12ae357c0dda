# Silpo Home: a verification project

The repository is a Telegram bot for group purchases. It scans a shop for wholesale offers, posts
them in the chats of houses, collects what the residents order with the buttons of the posts, sends
the order of a house to a manager and reports its status. It is one Python process: aiogram starts
an asyncio task for every update, APScheduler starts the scans, every task has a database session
of its own (SQLAlchemy on PostgreSQL), and tasks give way to one another at every `await`.

This directory holds TLA+ models of that code, TLC configurations that check them on small
instances, and proofs checked by TLAPS. `PROJECT.json` maps every definition to the lines it models
and lists components, runs, mutants, findings, hazards and theorems.

Running them: `tlasany M.tla`, `tlc -config X.cfg MCM`, `tlapm MProofs.tla`.

## 1. Inventory

| Component | State | Operations | Works with | Hard about it | Correct when |
|---|---|---|---|---|---|
| Order book (`core/orders.py`, `db/models.py`) | rows of `participants`, `deals.status` | `update_draft`, `confirm_draft`, totals, the mark `goal_reached` | buttons, reset, summary | read, compute, write over several awaits | no press is lost or counted twice; a deal is marked when its total reaches the pack |
| Buttons of a post (`main.py`, `on_callback`) | `DEAL_LOCKS`, the text of the post | plus, minus, confirm | order book, Telegram | tasks of one deal overlap; early returns and failures under a lock | one task works on a deal; the post shows the rows; the lock is always given back |
| Reset (`reset_house_order`, `_reset_order`) | – | delete rows, return deals to collecting, blank posts | takes no deal lock | overlaps with buttons and other resets, deadlocks | rows go, nothing else is lost; nothing stale is shown |
| Checkout (`_handle_house_order`, `on_group_message`, `send_house_order_to_manager`) | `checkout_pending`, `delivery_info`, `manager_message_id`, `order_status` | open, close, delivery data, send, reopen, reset | order book, manager's chat | stale attributes, lost answers, stops | what the manager has and what the house knows agree; seen from outside it is a delivery |
| Manager statuses (`on_manager_status`) | `order_status`, the label of the message | press a status | checkout | a new order between check and commit; edits out of order | a status belongs to the order it was pressed on |
| Scan (`core/promo_scanner.py`) | rows of `deals`, posts | scan by schedule or `/scan` | MCP client, ranking, reminders | overlapping scans, one late commit, a statement that fails and rolls back what was posted | no product twice in the window; no post without its deal; the scan ends |
| Reminders (`core/reminders.py`) | `users.last_reminder_at` | choose, write, send, commit | the scan's session | commits what the scan has flushed; an answer may be lost after the message arrived | nobody is written to twice in the interval |
| Ranking (`core/relevance_scorer.py`) | none (pure) | profile, order, share of a category, exploration | scan | limits, ties, odd halves | no category above its share; the best offers |
| Messages (`core/tone_profiler.py`) | rows of `messages` | store, prune | tone | statements of one transaction see different rows | the newest `messages_keep` stay, and not many more |
| Tone (`core/tone_profiler.py`) | `groups.tone_profile` | analyse by schedule | LLM, messages | counts in one statement, reads in another, while texts are deleted | drawn from enough messages, and drawn at last while the house is served |
| Registry (`main.py`) | row of `groups`: `is_active`, `delivery_address` | join, leave, `/register`, pick a city | scan | two tasks decide from the row as it was; updates dropped at a restart | active exactly when the bot is in the chat |
| MCP client (`core/mcp_client.py`) | session id, cache of delivery contexts | call a tool, resolve a context, fetch pages | scan, stock check | two nested layers of retries, pages in parallel, a stale cache | a call ends in bounded time; goods are asked for with a time slot that lies ahead; no page is missed that could be had |
| Prices (`core/savings.py`, `Product.from_mcp`, `filter_new_deals`) | none (pure) | best tier, discount, filter | MCP client, scan | weighted goods, duplicates | every offer is real, and comes once |
| The rest | – | `/start`, scan times, read-only commands, stock button, LLM client, texts, keyboards, configuration, sessions, migrations, scripts | | | not modelled: no state of their own, or one that nothing else reads |

## 2. Modules

| Module | Models | Extended or used by |
|---|---|---|
| `DealRows` | rows, totals, statuses, what a press computes | `OrderBook`, `DealPosts` |
| `OrderBook` | abstract: what presses and resets promise | implemented by `DealPosts` |
| `DealPosts` | buttons, per-deal locks, resets, posts, row locks | `MCDealPosts`, `DealPostsProofs` |
| `Delivery` | abstract: an order is collected, sent, reported on, reset | implemented by `HouseCheckout` |
| `HouseCheckout` | the row of a house from checkout to status | `MCHouseCheckout`, `HouseCheckoutProofs` |
| `PromoScan` | scans, deals, posts, reminders | `MCPromoScan`, `PromoScanProofs` |
| `DeliveryContexts` | clients, the cache of contexts, calls that end in time | implemented by `McpClient`; `McpClientProofs` |
| `McpClient` | the same with every request: two layers of retries, timeouts, error answers | `MCMcpClient`, `McpClientProofs` |
| `Prices` | best tier, discount, product, filter, and what they should give | `Catalogue`, `CatalogueProofs` |
| `Catalogue` | the pages of a fetch while the shop goes on selling | `MCCatalogue`, `CatalogueProofs` |
| `Ranking` | the batch of a group | `Relevance`, `RelevanceProofs` |
| `GroupProfile` | scores of categories from the history | `Relevance`, `RelevanceProofs` |
| `Relevance` | composes the two: `rank_products_for_group` | `MCRelevance`, `RelevanceProofs` |
| `MessageLog` | store and prune | `Tone`, `ToneProofs` |
| `Tone` | composes the log with the job that draws a tone from it | `MCTone`, `ToneProofs` |
| `HouseRegistry` | which houses are served, and where | `MCHouseRegistry`, `HouseRegistryProofs` |

How they compose. Three abstract modules say what a component promises its neighbours, and the
detailed module is shown to keep it: `DealPosts` implements `OrderBook`, `HouseCheckout` implements
`Delivery`, `McpClient` implements `DeliveryContexts`. So the others may take a press or a reset of
rows as one step, as `HouseCheckout` does, which keeps of the order only which deals have a
confirmed row; and a call of the shop's server as one step, as `Catalogue` does for its pages.

A scan goes through the modules in this order: `HouseRegistry` decides which groups it starts with;
`McpClient` gets it a client and a delivery context; `Catalogue` turns pages into the offers of a
city; `Relevance` picks the batch of a group; `PromoScan` posts it and reminds; the deals it creates
live on in `DealPosts`. Each module takes what the one before gives as a choice: the offers in
`FetchCity`, the batch in `PickDeals`. `Relevance` composes `GroupProfile` and `Ranking`, which share
the dictionary `category_scores`: the history is read first, the batch is chosen with the scores it
gives. (`Ranking` alone takes any dictionary.) `Tone` and `MessageLog`
share the messages.

### Conventions

*Tasks.* A handler is a record in `task[t]`: `pc` says before which `await` it stands, the other
fields are its local variables. A name in `Tasks` is reused, so `Tasks` bounds how many handlers
run at one time, not how many there are. An action is what happens between two awaits at which
another task could see or change something.

*Database.* READ COMMITTED: a SELECT sees what is committed, plus the transaction's own flushed
rows. A flushed row is locked until the commit. SQLAlchemy runs with `expire_on_commit=False` and
writes at a commit only the attributes whose value differs from the one it loaded; `Put(now,
loaded, new)` in `HouseCheckout` and `HouseRegistry` is that rule, and several findings follow from
it. PostgreSQL breaks a deadlock by rolling one transaction back.

*Telegram.* A request succeeds, fails, or succeeds and its answer is lost.

*Restarts.* `Crash` ends every task. Committed rows and messages in the chats stay.

*Mutants.* A definition preceded by "Mistake:" is a plausible error (a dropped guard, a stale
value). It is used by no specification; in place of the definition it varies it makes the property
named in `PROJECT.json` fail, which shows that the property says something about that code.

### Correspondence

**DealPosts.** `order`, `status` are the committed rows of a house's deals, `post` what changes in
the text of a post, `queue[d]` the `asyncio.Lock` of a deal: its holder, then its waiters. A button
task goes `Press` (a press arrives and queues), `OpenDeal` (lock taken, deal and group loaded),
`ReadPart` (the row selected; `NothingToConfirm` and `DecWithoutDraft` are early returns),
`WriteDraft` (row flushed, total read), `CommitDraft`, `Render` (drafts read), `EditPost` or
`EditFails`, `Finish` inside each way out. A reset goes `StartReset`, `SelectParts` for each deal
(the query flushes the deletes of the deal before), `CommitReset`, `ResetEdit` for each post.
`WaitsFor`, `InCycle` and the two victims are PostgreSQL's wait-for graph. One flush of a reset,
all rows of one deal, is one step; a reset that waits in the middle of it holds no more and no less
than `WaitsFor` says.

**HouseCheckout.** `group` is the row, `sent` the manager's chat, `draft` and `order` the deals with a
draft and with a confirmed row: a summary reads `order`, a reset selects both, so a draft that is
confirmed after it was selected goes with the rest. A task is one of: checkout button (`asked`,
`opening`), thinking button, text with delivery data (`text`, `summary`, then `failed` or `reset`,
`selected`), `/reset` (`reset`, `selected`), manager's press (`click`, `label`). Delivery data are a
member of `Infos`; that a text holds none is `IgnoreText`. `Send` ends in one of three ways: delivered;
arrived with the answer lost (`failed`, no id); or answered, with an exception when the bot's session
is closed (`failed`, with the id, which the commit of `Reopen` then writes). Anybody's rights
are a choice (`RefuseCheckout`, `IgnoreText`). The mapping to `Delivery` leaves out the attributes
the handlers steer by, and takes the message the house knows as its current order.

**PromoScan.** `deals` are committed rows, `scan[s].rows` the flushed ones, `chat` the posts. Days
stand for timestamps: window and interval are whole days, a scan takes minutes, so no day begins
during one. (The code compares `created_at`, the start of a scan's transaction, with the time of the
next query; the gap between two posts may be shorter than the window by what a scan lasts, which
whole days do not show.) What a city offers is any set of products with discount enough. A scan ends
early in three ways: `Crash`; `Abort`, a query, flush or commit that fails (`promo_scanner.py:146`,
165, 190, 227, and `reminders.py:177`, whose exception line 224 swallows, with a session that the
next statement finds unusable); `CommitUnanswered`, a commit that was carried out all the same.
`told` are the private messages that have arrived, with `answered` for whether the bot learned of it,
`past` the scans that were done when one began: what it can
be asked to know of. The two are recorded for the properties; no guard reads them.

**DeliveryContexts** and **McpClient.** `now` is `time.monotonic()`; any unit will do, since the
assumptions only compare. A client goes `Connect`, `Initialized`, `Connected`, then for each address
`Hit` (a fresh entry of `_CTX_CACHE`) or `Miss`, `FoundAddress`, `FoundBranch`, `FoundSlot` (which
stores the entry), `GotFirst`, `Done`; `Close` is the end of the `async with`, or an exception.
The slot is asked for from 23 hours ahead on: `Lead`. The pages after the first are asked for
together and waited for together, so they count as one call, that of the slowest page. In `McpClient`
`RequestFails` is a failing `_rpc` attempt and, after its last, a failing attempt of `call_tool`;
`ToolError` an answer with an error in it, which only `call_tool` tries again. `Turn` is a bound of
the model: the timeouts of httpx are per operation, so a server that sends a byte now and then could
make a request last longer.

**Catalogue** and **Prices.** `shelf` is the shop's list, `page` the answers that have come,
`asked` the pages asked for. `FirstPage` knows the total, `FirstWithoutTotal` does not;
`NoPage` is a page that failed (`return_exceptions=True`) or an error answer that `call_tool` lets
through as `{}`. `ItemRaises` is an item without a key that `from_mcp` reads: the exception leaves
the whole fetch, and the city is skipped, as it is when the first page fails (`Raise`). `Change` is the shop that sells on: an item goes, comes in front, or gets another
price. Prices are whole kopecks, discounts hundredths of a percent; the shop's prices have two
digits, so rounding them changes nothing. The order of `filter_new_deals` is left out, since
`Ranking` takes any.

**Ranking** reads the offers in the order of their scores, one step each (`Take`, `Pass`), then
fills up (`Explore`). **GroupProfile** reads the history record by record.

**MessageLog** numbers messages by `created_at`, the start of their transaction. **Tone** adds the
job: `StartJob` (of an active house; `ComeOrGo` makes it one or not), `CountEnough`, `ReadRecent`,
then `Profile` or `NoProfile`. A tone is the number of
messages it was drawn from. The scheduler runs one job at a time (`max_instances=1`), and the job
takes no lock the texts wait for. **HouseRegistry** has one chat.

## 3. Runs

Passing runs:

| Run | Bounds | Shows |
|---|---|---|
| `deal_posts` | 1 deal, 2 residents, 2 tasks, 2 resets, pack of 2, crashes | types, `LockDiscipline`, `NoLostUpdate`, and that `DealPosts` implements `OrderBook`. Two tasks suffice for a race on a row, a third only queues. With two resets a deal that one of them loaded as reached may be marked anew before it commits: that is how a reset and a button deadlock |
| `two_deals` | 2 deals, 1 resident, 1 task, 2 resets, fairness | resets that lock two deals in opposite orders deadlock, one is rolled back, and every reset ends: `ResetEnds`. Only with a second deal does a reset hold locks while it waits for another reset |
| `no_reset` | a deal by weight (step 5, pack 7, at most 10), 2 residents, 3 tasks | the mark and the post are right as long as nobody resets, and presses that add up each take effect once; step and pack do not divide each other |
| `deal_posts_live` | 1 deal, 1 resident, 2 tasks, 2 resets, pack of 1, fairness | `PressAnswered`, also for a press that PostgreSQL rolls back |
| `checkout` | 2 tasks, 1 deal, 2 delivery data, 2 orders, crashes, fairness | types, `StatusHasMessage`, `HandlersEnd` and the refinement `Delivers` under every overlap of two handlers |
| `checkout_alone` | 1 task, 2 deals, 2 delivery data, 3 orders, 2 statuses, crashes | `ResetClearsCheckout` and `NewOrderPending`, which hold when handlers do not overlap: that attributes whose value is the loaded one are not written does no harm by itself, over failed deliveries, stops and an earlier, a current and a next order. With two tasks both fail |
| `scan` | 2 scans that overlap or follow one another, 2 groups in 2 cities, 1 product, 3 days, a crash, failing statements and commits, lost answers, fairness | types, `PostsKept`, `NoDuplicates`, `RemindersApart`, `ScanEnds`. Window and interval end within the three days. A rule about repeating relates two scans, so two are enough |
| `relevance` | every history of up to 3 deals, a point off from the second ignored deal on; every list of up to 4 offers, limits up to 5 | one pass computes what the definition of a score gives; `CapHolds`, `BestFirst`, `ExploreAddsNothing`. The threshold is 2, not 3, so that a history of 3 can reach it, miss it and have its streak ended |
| `mcp_client` | 1 client, 1 address, 2 attempts per layer (4 requests), cache of 2, slot 14 ahead, 17 units of time, restarts, fairness | `McpClient` implements `DeliveryContexts` (`CallsBounded`), `CallsEnd`, `SlotAhead`. `Lead` is exactly what the assumption asks for, so a context that is used a unit longer shows. More clients, addresses and attempts are left to the proofs, which hold for any |
| `catalogue` | pages of 2, at most 2 pages, 2 changes of the shelf; alone on the shelf an item with any two of seven tiers, by weight or not, in stock or not, and some of them as the last of a page, the first of the next and before goods beyond the last page; a product without a key, with a tier and without | `OffersReal`, `NothingMissed` |
| `tone` | 3 texts stored at once, 9 in all, 6 kept, 2 enough, 3 read, a stop, a house that is served or not, fairness | types, `LogBounded`, `ToneFromEnough`, `ToneComes`. With three tasks one may delete what two others counted: nine texts fill the log and overflow it by two more than its limit, and 6 − 2 is exactly the (3 − 1)² messages that three tasks can delete too much, so `Least` is 2 and a job may find no more than that |
| `registry` | 2 tasks, 2 cities, restarts | types, `HouseKept` |

Deadlock is checked except in the runs of `PromoScan`, `Relevance`, `Catalogue` and `Tone`, whose
instances end: the scans are over and the days have passed, the batch is chosen, the offers are
returned, all texts are written and the tone is there. `SYMMETRY` is used only in runs without
liveness, on names the specification does not compare.

### Disagreements

The properties below `DISAGREEMENTS` in the modules, and the two of `checkout_alone` once handlers
overlap, say what a document promises and the code does not do. The `findings` quote
both sides. To see one fail, make it the property of the configuration named here.

| Property | Instance | What happens |
|---|---|---|
| `ResetReturnsDeals` | `DealPosts.cfg` | a deal stays `goal_reached` after a reset |
| `ResetClearsCheckout` | `CheckoutAlone.cfg`, `Tasks = {t1, t2}` | the checkout stays open after a reset |
| `NewOrderPending` | the same | a new order starts with the old one's status |
| `PickHolds` | `Registry.cfg` | a confirmed pick of a city has no effect |
| `StatusOfCurrentOrder` | `CheckoutAlone.cfg`, `Tasks = {t1, t2}` | a status for the wrong order |
| `LabelTellsStatus` | the same | the message shows an old status |
| `DeliveredIsReset` | `CheckoutAlone.cfg` | a row confirmed while the order is on its way is deleted with it |
| `NeverTwice` | `Scan.cfg`, `MaxCrashes = 0` or `MaxRunning = 1` | a product is posted twice, by scans that overlap, after a stop, or after a statement that failed |
| `RemindedOnce` | `Scan.cfg`, `MaxCrashes = 0` | a user is reminded twice, by overlapping scans, or by one scan that lost an answer |
| `PostsAnswer` | `Scan.cfg` | a post whose buttons do not answer yet |
| `RemembersPosted` | `Scan.cfg` | a deal without a post holds its product back |
| `KeepsNewest` | `Tone.cfg` | newer messages are deleted |
| `OnlyAvailable` | `Catalogue.cfg` | products that are not in stock are made, and filtered only later |
| `TiersDiscounted` | `Catalogue.cfg` | a tier of weighted goods that is no discount per kilogram becomes a product |
| `ErrorsTell` | `Catalogue.cfg` | errors of the tool look like a shop without offers |
| `ActiveFollowsMember` | `Registry.cfg`, also with `Restarts = FALSE` | an active house without the bot, or the reverse |
| `ResetShowsOrder` | `DealPosts.cfg` | a post goes blank over a draft |
| `PostAlwaysTells` | `NoReset.cfg` | a failed edit leaves a post that does not show the rows |
| `DraftOutsideOrder` | `NoReset.cfg` | plus changes a confirmed quantity |
| `IgnoredServed`, `HalfOfPosts`, `PenaltyInARow` | `Relevance.cfg` | rules that differ from their description |
| `SecondPenalised` | `Relevance.cfg`, `IGNORE_STREAK_TO_PENALIZE = 3` as in the code | the second ignored deal in a row takes no point off |

The first four have one cause: SQLAlchemy does not write an attribute whose new value equals the one
the handler loaded. `StatusOfCurrentOrder`, and those of overlapping scans and of the registry, are
checks before a commit that are not part of it; those of `Catalogue` are conversions that do less than
their comments say, those of `Relevance` rules that differ from theirs; the rest are effects outside
of Telegram or the database that come in another order than the commits, or without one.

### Fairness

- `DealPosts` and `HouseCheckout`: strong fairness of the steps of each task and each reset
  (`SF_vars(TaskStep(t))`). The event loop runs every task that can run; a task is sometimes not
  able to run, while another holds a row lock, and PostgreSQL grants locks in the order they were
  asked for, so a task that can go on again and again does. Each step is a request that is answered
  or fails by a timeout. Nobody is obliged to press or to reset, and a crash ends tasks too.
- `PromoScan`: weak fairness of each scan; nothing disables a scan's next step but itself.
- `McpClient`: weak fairness of each client in a call. A request is answered or times out, and
  whichever it is, a step follows. Nobody is obliged to connect.
- `Tone`: weak fairness of the job and of its start (the scheduler starts it every few hours), strong
  fairness of a usable answer: the language model does not fail for ever, or nothing could come of
  it. Stops are bounded. The texts are under no fairness: whether they are ever committed does not
  matter once there are enough.

## 4. Proofs

Every theorem is for all values of the constants that satisfy the assumptions named in the modules.
Where a theorem has a hypothesis of its own it is said below. What the assumptions come to:

- Limits, days, quantities are natural numbers, sets of names are not empty, and a house has finitely
  many residents and a log finitely many writers (`UsersAssumption`, `TasksAssumption`: a total over
  them is a sum).
- `LeadAssumption`: time to live and three calls take less than the 23 hours a slot is asked for
  ahead.
- `MinAssumption` only says that what is enough is a number. Nothing limits how many texts of a house
  are stored at one time (the pool of database connections, 15 by SQLAlchemy's default, is the only
  bound there is), and `T` of them may delete `(T - 1) * (T - 1)` messages too much. So
  `ToneFromEnough` promises `Least`: what is enough, or what they cannot delete where that is less.
  With 100 kept and 20 enough, `Least` is 20 for up to nine texts in flight, 19 for ten, and says
  nothing from eleven on.
- `ShelvesAssumption`: the shop lists a product once at the start of a fetch; `Change` keeps it so.
- `HistoryAssumption` only says that the bound of the model on scores is no smaller than the longest
  history.

**DealPostsProofs.** `NoLostUpdate` is not inductive. `IInv` adds: the types, `LockDiscipline` (why
no other task has the row), `RowLocks` (why no reset has it), `WriteLegal` (what a task is about to
commit is a row the column can hold) and `Selection` (a reset has selected only rows that are there,
of deals behind it: what makes its delete one of exactly those rows). One lemma per group of
actions, then `Invariance`; from it `TypeCorrect`, `LocksHold`, `NoUpdateLost`. (`RowLocks` is
PostgreSQL's doing, not the repository's: a step of the proof, no result.)
`Implements` is the refinement: every commit of a task is a press of `OrderBook` on the row as it
is (`CommitIsPress`, which needs `NoLostUpdate`), every commit of a reset a `Clear`, every other step
a stutter.

A second part has the hypothesis `Resets = {}`, as run `no_reset` has; with resets the properties do
not hold, as the findings say. `GoalInv` says of every task that what it has loaded (the status), summed
(the total) or rendered (the text) in earlier statements is still what the rows give, because only
the holder of the lock writes (`UpToDate`). `FullDealsMarked`, `MarkedWhenFull` and
`PostsTellTheOrder` follow.

**HouseCheckoutProofs.** `StatusHasMessage` is strengthened by: a handler that loaded a status got
it from a row that has one, a manager's press is on a house with a message, and the messages tasks
hold are in the manager's chat. `TypeCorrect` and `StatusKeptWithMessage` follow for any number of
handlers and orders. `Implements` is the refinement to `Delivery`: the same invariant says that an
order that is adopted is in the chat and that a press is on a house that has one.

`OrdersStartPending` and `ResetsClear` are about
`Spec /\ []Apart`: behaviours in which no two handlers of a house run at one time, with any number
of handlers one after the other and stops in between. Run `checkout_alone` has a single task, for
which `Apart` always holds. `AloneInv` says that what a handler has loaded, and will compare or go
by, is what the row still holds (`InStep`); so the rule that equal attributes are not written does no
harm. It is kept by every step of a handler because the others stand still.

**PromoScanProofs.** Any groups, goods and users, any number of overlapping scans. What a scan has
posted is in the rows it has flushed until it commits, and in the table from then on, unless it is
cut off (`Kept`); so the query before a batch finds all that this scan and those that were done
have posted (`QueueNew`), and a user whose answer a scan has seen is marked before the scan goes on
(`Marked`). `PostsHaveTheirRows` is part of the invariant; `NothingRepeated` and
`NobodyPestered` are action properties that follow from it.

`ShownOnce` and `WrittenOnce` say when the documents are right that goods are not repeated and users
not pestered, `NeverTwice` and `RemindedOnce` of the disagreements: under `[]Undisturbed`, as long as
scans do not overlap and none that has posted or reminded is cut off, and for reminders also under
`[]AllAnswered`, as long as no answer is lost. Then everybody who has posted or reminded is
known to the scan that runs (`AllKnown`), and the two action properties above cover every pair. So the
exceptions that the findings name are all there are.

**HouseRegistryProofs.** A row that a handler saw stored stays stored (`SeenStored`), so a handler
changes attributes only of a row that is there, and inserts only where there is none: `HouseIsKept`.
`ActiveWhenMember` says when `ActiveFollowsMember` of the disagreements does not occur:
under `[]Apart`, as long as handlers of the house do not overlap, and without restarts. What a handler has loaded is then the row as it is (`SeenNow`), and a handler on its way
will make the house what the bot's coming or going asks for (`OnTheWay`).

**ToneProofs.** `LogBounded` sounds like a sum over tasks, but is kept as `Room`: whatever set of
tasks that have counted goes on to delete and commit, the messages left and those they add are at
most `Keep` and one for every other task. With the empty set this is the bound. `Fall` is the
other side: while tasks prune, the log is short of `Keep` by at most `(T - 1) * (T - 1)`, less `T - 1`
for each further task that prunes, less what one of them still has to delete. So a job that
counted enough reads enough, or at least `Least` (`DrawnFromEnough`). `LogStaysBounded` is about
the log alone, `BoundedBesideJob` about the log with the job beside it.

**RelevanceProofs.** For the choice of a batch with any dictionary of scores (`Ranking`), `IInv` is
`TypeOK`, `Counted` (the counters are the cardinalities of the shares, none above the cap), `Seen`
(picks are among the offers seen, and what was passed over belongs to a category with a full share)
and `AllSeen` (exploration starts at the end of the list). When the exploration starts every category
with an offer has been picked, so it never adds one. For the pass over the history (`GroupProfile`),
`HistoryInv` says that after `k` records the streak of a category is the number of ignored deals
since its last other one, and its score the confirmed deals less the penalised ones: the definition,
read up to `k`. One step changes each set of places by the place it reads, so no induction over the
history is needed but the one over steps. `HistoryScores`, `BatchTypes`, `BatchShares`, `BatchOrder`
and `BatchExploration` are about the two composed, `RelevanceSpec`: while the history is read the
batch stands still, and the score of a category stays within the length of the history.

**McpClientProofs.** `SlotAhead` needs to know how old a context is at every call. `CtxInv`, of
`DeliveryContexts`: a slot was asked for at most one call before its entry was stored, the entry is
used for less than `TTL` after that, and the two calls for goods take at most `MaxCall` each; the
assumption on `Lead` is their sum. `ContextsFit` holds for any number of clients and addresses.
`IInv`, of `McpClient`: a request was sent after no more turns than requests of its call went before
it. There are `Attempts * Attempts` of them, so no tick of `McpClient` goes past what
`DeliveryContexts` allows a call: `RetriesBounded`. With `ContextsFit` it gives `SlotsAhead`, the
invariant of the detailed module from the theorem of the abstract one.

**CatalogueProofs.** First the prices: what `from_mcp` makes of an item and the filter lets through
is the best discount in the units of the retail price, and the other way round (`ProductIsOffer`,
`OfferIsProduct`). That the best tier is chosen by prices in other units than the retail price's does
no harm, because the filter wants a discount of at least one percent (`DiscountAssumption`), and
among tiers of one item the order is the same in both units. Then the fetch: all goods on a page have
been on the shelf, and two products with one id would both come from the first place of that id:
`OffersAreReal`, however the shelf changes. `StillInv` and `DoneInv` say that on a shelf that stands
still a page holds its part of the shelf, every page with goods is asked for once the first is
there, and what is returned was collected from all, when nothing raised; an item is then in exactly one place
(`OnePlace`), so nothing hides it: `NothingIsMissed`.

Only model-checked: liveness under fairness, which is outside the prover's reach (`PressAnswered`,
`ResetEnds`, `HandlersEnd`, `ScanEnds`, `CallsEnd`, `ToneComes`). Every invariant and every action
property of the runs is also a theorem.

## 5. Not modelled

See `components` for each part and its reason. Deliberate limits of what is modelled:

- A database that loses its connection in the middle of a handler is a failing step only where the
  code would notice it. SQLite, which serialises writers, has fewer behaviours than PostgreSQL.
  `settings` do not change while the process runs. Two processes of the bot at once are not
  considered (polling allows only one).
- Statuses of a deal that no code assigns (`expired`, `cancelled`, `sent_to_manager`, `confirmed`)
  are left out of `DealPosts`; `GroupProfile` takes the history as given, finished deals included.
- The session id of the MCP client, which the answers of concurrent pages overwrite, has no effect
  in the code but on a header of the next request; what the server makes of it is not in `src/`.
- Goods that move to a page already read, because the shelf changed during the fetch, are missed
  until the next scan; `NothingMissed` speaks of an unchanged shelf for that reason.
- `_parse_delivery_info`, `extract_json`, the keywords of `categorize_product`, TF-IDF and cosine work on
  free text; their results are choices where they are used.
- `/start` inserts a user and never updates it; `parse_scan_times` splits a setting once at the
  start. `check_deal_stock` is one more client of `DeliveryContexts`, with one call after the context.

## 6. Plan

1. `ResetReturnsDeals` and `ResetShowsOrder` of `DealPosts` for a reset that no other task or reset
   overlaps: the last of the disagreements about ordering without a theorem that says when they do
   not occur.
2. What `DealPosts` still promises once the last reset has ended: a mark and a post as right as
   without any (`GoalInv`, when every task that began before the end is gone).
