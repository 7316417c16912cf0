# Kassandra: a verification project

Kassandra is a WhatsApp assistant for a hotel: a FastAPI program (`src/app`) that takes
WhatsApp messages, answers them with rules and with OpenAI, sells rooms through Elektra (the
hotel's property management system), takes restaurant and transfer reservations, and gives the
staff an admin panel. This directory holds TLA+ models of the parts of it whose correctness
depends on the order in which things happen, the TLC runs that check them on small instances,
and proofs of what matters most for every instance.

    tlc -config HotelBookingOneRow.cfg MCHotelBooking     a run
    tlapm HotelBookingProofs.tla                          the proofs of a module

## 1. The system

### What runs concurrently

* One asyncio event loop runs the webhook, the chat handlers and the admin routes. A handler
  runs alone between two `await`s. WhatsApp messages are handed to background tasks
  (`routes/chat_routes.py:1255-1272`); there is no lock per phone number, so two messages of
  one customer overlap whenever the first one awaits Elektra, OpenAI or WhatsApp.
* An APScheduler `BackgroundScheduler` has threads of its own: the follow-up cycle every minute
  (`legacy/kassandra_app_legacy.py:490-514`), the reminder job (`lifecycle/scheduler_setup.py`),
  hourly cleanup of restaurant flows, the daily report.
* `threading.Timer` threads clear a chat five minutes after it was given up
  (`services/conversation_store.py:104-118`).
* Other processes of the same program may share the files; the state store locks for that.

### Components

| component | state | operations | what makes it hard | correct when |
|---|---|---|---|---|
| hotel bookings (`routes/hotel_bookings_routes.py`, `services/booking_flow_service.py`, `services/elektraweb_booking_service.py`) | table `hotel_bookings`, reservations in Elektra | insert, approve, retry, reject, sync, update, deposit, form, cancel, recreate, purge | several awaits per handler, two admins, endpoint fallback, retries with patched payloads, crashes | no reservation without approval, one approval per row, notices and statuses backed by Elektra, each row names its own reservation |
| JSON state store (`services/state_store_service.py`) | one file per component, lock file, temporary file | load, save | threads and processes, kill, power loss, failing rename | a load sees a whole document that was saved |
| follow-ups (`services/followup_service.py`, `routes/followup_routes.py`) | `followups.json`, cleanup timers | schedule, cancel, cycle (drop, send, mark, close) | the cycle awaits sends; the job thread races with the loop | one reminder per chat, only silent chats are closed, entries do not stay |
| booking conversation (`handlers/booking_flow_handler.py`, `services/booking_flow_service.py`) | `booking_flows.json`: flow, offers, payment context | start, choose, answer, confirm, groups, payment | overlapping messages, timeouts, whole-file saves of timer threads | a row holds what the customer was shown and confirmed, once, at a price that is not stale |
| price conversation (`handlers/price_flow_handler.py`, `services/price_flow_service.py`) | `price_flows.json`: flow, last query | questions, corrections, query, other currency | Elektra is awaited; entries put back by timers; details from four sources | the question put is the one that is open, no incomplete request goes out, what is settled is not asked for again |
| prices and availability (`services/elektraweb_booking_service.py`) | none | select offers, count rooms | missing, repeated and contradictory rows | a room that is priced is one that the count of rooms finds |
| restaurant reservations (`services/restaurant_reservation_flow_service.py`, `flows/`) | `reservation_flows.json`, SQLite table | dialogue, insert, status and details by staff, hourly cleanup | cleanup threads, a restart between insert and clear, corrections at any point | a row holds what was shown and what the rules accept, once, until staff change it |
| cancellation (`services/cancel_service.py`) | a question, in memory and in the conversation file | ask, choose, confirm | two copies of the question | the row that was asked about is cancelled |
| transfers (`services/transfer_reservation_service.py`, `handlers/transfer_start_handler.py`) | two JSON files | dialogue, insert with dedupe, status | two saves, the admins awaited in between | booked as shown, once in 48 hours |
| entry point (`routes/chat_routes.py`, `services/message_id_service.py`, `handlers/chat_precheck_handler.py`) | `message_ids.json`, background tasks | receive, dedupe, pre-checks, answer | duplicate deliveries, overlapping messages, restarts | a message is answered once |
| conversation store (`services/conversation_store.py`) | history in files, timers | save, expire, close, purge | threads, the 30-minute limit inside a save | nothing is booked from a conversation that is over |
| access control, handoff (`services/access_control_service.py`, `handlers/handoff_handler.py`) | blacklist, paused chats | pause, resume, block | messages under way | a paused chat gets no answers |
| routing (`routes/chat_routes.py`, `services/flow_fsm_service.py`, intent services) | none that is used | order of the handlers | a message concerns several dialogues; each handler has conditions of its own | the dialogue that asked gets the answer, a price comes from Elektra |
| arrival reminders (`services/reminder_service.py`) | `reminders.json` | process due | | see "Not modelled" |
| admin sessions, settings (`core/`) | sessions, lockout counters | login, refresh, logout | expiry | no session outlives its user |
| OpenAI answers, notifications, quality checks, metrics, admin pages, texts | logs, reports | | | not state the rest depends on |

Components meet in three ways: calls within a handler (the chat route goes through a chain of
handlers, each of which may answer); shared files, read and written as a whole through the state
store; and rows of `hotel_bookings`, which the conversation inserts and the admins work on.

`PROJECT.json` lists every component with its status, and under `hazards` the places where
this code can go wrong in ways a test would hardly reach.

## 2. Modules

| module | models | state | properties |
|---|---|---|---|
| `HotelBooking` | the admin side of bookings | rows, Elektra's reservations, requests in flight, notices | safety, liveness |
| `AtomicFile` | what callers of the store rely on | one document | abstract specification |
| `StateStore` | the store that provides it | link, inodes, locks, workers | refinement of `AtomicFile`, liveness |
| `FollowUp` | reminders and closing of chats | document, what each thread has in hand, cycles, timers, chats | safety, liveness |
| `BookingDesk` | what a conversation that books promises | summaries, bookings, what is disturbed | abstract specification |
| `BookingFlow` | one customer's way to a booking | entry, a timer's copy, waiting messages, rows | safety, refinement of `BookingDesk` |
| `Restaurant` | tables booked and cancelled in the chat | flow, sweeps, rows, the cancellation's question | safety, refinement of `BookingDesk` |
| `TransferFlow` | the transfer dialogue and its rows | flow, rows, last summary | operators only |
| `ChatRoute` | messages from the webhook to the answer, composed with `TransferFlow` | tasks, ids, conversation, pause, threads | safety |
| `Routing` | which handlers are asked for an answer, and in which order | none | operators only |
| `ChatRouting` | `ChatRoute` with `Routing` for the messages that pass its pre-checks | that of `ChatRoute` | safety |
| `PriceAnswer` | what is made of Elektra's prices | none | operators only |
| `PriceFlow` | the price conversation, with `PriceAnswer` for the answers | flow, last query, requests out, a timer's copy | safety |

Each state machine has an `MC` module for its instances; those with theorems have a `Proofs`
module. Definitions keep the names of the source where that is possible; `PROJECT.json` gives
the lines of every one. Definitions preceded by "Mutation" are deliberate bugs; each property is
shown to catch one.

### HotelBooking

A row is its status, `elektra_reservation_id` and the reservation that the cached
`elektra_response` names. A request is an admin's HTTP request: an action before its first
await, then one action per await (`create`, `created`, `enrich`, `lookup`, `cancel`, the
notices). `UpdateRow` of a purged row does nothing, as the SQL update does. Elektra may make a
reservation and lose the answer, refuse, or answer without a number; the create call goes through
the endpoint candidates (`Endpoints`, 3 in the code) and patches its payload up to `Attempts`
times (5). Rejecting is possible in every status, as in the code.

### StateStore

Workers (threads of processes) load and save one file. A save takes the thread lock, then the
lock file, reads the old permissions, writes and syncs a temporary file and renames it, with
`Retries` attempts (6 in the code) and then an in-place fallback when the rename fails. A power loss
keeps what was synced and returns the link to what `disk` says. A temporary file that nobody
touches again counts as removed. Loads take no lock. `AtomicFile` allows a load of any document
that was current since the load began, and a save that takes effect at one point. Without the
lock file the `return` in a `finally` swallows the exception of a failed write, so that a save is not
lost (`SaveIsNotLost`) is only claimed where the lock was taken. During the in-place fallback
a load can find half a file and takes the default.

The store does **not** keep callers from losing updates: they load, change and save without a
lock over both. `FollowUp` and `BookingFlow` model that.

### FollowUp

`hand[t]` is the document that thread `t` has loaded and not yet saved; the event loop and the
job thread are the threads. Minutes are ages that stop growing at `CloseAfter` (in the code 10
for the reminder, 2 of grace and 30 for closing; the order of the deadlines is what counts). A cycle makes
its list, drops, sends with an await in between, marks, closes, reports. File errors are left to
`StateStore`; messages that take an early return in the pre-checks do not cancel a reminder, as in the code.

### BookingDesk

The two ways to book in the chat, of a room and of a table, share no code, but promise the same. `BookingDesk` has the
last summary of every dialogue, the bookings, those that staff have amended, and the dialogues that are disturbed (`again`: may book once
more; `stale`: may book something else than they showed). `Show` and `Book` need a dialogue that has not booked
or is disturbed, `Book` takes what was shown last, no action removes a booking, and only `Amend` changes what one says: it is the
staff's, and leaves its mark in `amended`. A disturbance may come at any time,
also together with a booking, and is never undone. `BookingFlow` maps booking context ids to dialogues and `restored` to a
disturbance of all of them; `Restaurant` maps the names of its flows, `undone` to `stale` and `undone \cup cut` to `again`. For rooms `booked` is the rows as
the conversation inserted them and `amended` is empty: that staff update, purge and recreate rows
(`hotel_bookings_routes.py`) is no part of `BookingFlow`. Statuses,
ages of prices and whatever else a row has are not part of a booking.

### BookingFlow

`entry` is the customer's record in `booking_flows.json`: flow, `cached_offers`, payment
context. A query stands for a stay with its dates and guests; a flow has the query its price
came from, the query its dates came from, and the ages of both. `_handle_*` of the states are one action
each; a handler that awaits (Elektra, the admins) is two actions. `SaveFlow` drops the payment
context as `save_booking_flow` does, and `Current` drops a flow that timed out.
`copy` is what a timer thread has loaded: only one customer is modelled, and other customers
matter only because their timers save the whole file. What a message means (a name, a yes, a
room) is a choice of the model. `restored` is a history variable: an older entry has been put
back, or a confirmed flow has outlived a restart. Human takeover would only take behaviours away and
is left out. `cleanup_stale_booking_flows` is imported and never scheduled, and the link
generation after `booking_flow_handler.py:2520` cannot be reached, since the handoff returns
before it; neither is modelled.

### Restaurant

`flow` is the customer's entry of `reservation_flows.json`. What a message says of a reservation
(`Heard`) is a choice of the model: a party of up to `MaxParty`, of which `AutoLimit` (9 in the
code) are booked without staff; a date in season or not; an hour with or without a meal. `Start`,
`Correct` and `Answer` are the three ways into a flow, with the checks each of them makes and those
it does not. `Confirm` inserts and clears; `ConfirmCut` is a restart between the two writes.
`file` and `memory` are the two copies of the question of `cancel_service`: the file counts, the memory
when the file says nothing, and a purge clears the file only. A sweep (`SweepLoad`, `SweepSave`) is the hourly
job or a cleanup timer: it removes this flow or another one and saves the whole file. `undone` and `cut` are
history variables that name the dialogues a sweep put back and those a restart cut in two. Bounds: `Dialogue` and
`Row` are supplies, `Decision` the statuses staff set, `Change` what they write over a reservation (`ChangeDetails`, the
update route of the admin panel, which asks none of the rules), `Happens` what happens besides the chat: a cancellation is
begun while no flow goes on (`cancel`) or at any time (`cancel_midway`).

`Acceptable` says of the rows that staff have not changed (`changed`) that their hour is one at which a meal is served, or one that a second
request for a table put in the place of another (`kept`): the code keeps the meal of the first hour then, and books the second as that
meal. `kept` is set there and nowhere else, and goes when an hour is said again; that this is the only hole is what the property claims.

### TransferFlow and ChatRoute

`TransferFlow` holds the steps of the transfer handler as operators over its entry: what is
missing, what a turn may leave (`Begun`, `Told`, `CalledOff`), the insert with its dedupe by key. `ChatRoute`
has the rest of the way: a webhook call becomes a task that posts the message to `/chat`; the id is marked
before anything else; the pre-checks look at safe mode, the automation switch, the limits and the pause; then the
message is answered by one of the handlers, with the awaits each has. `task` is what every
background task is doing; whatever it does between two awaits is one action. Only between the insert and the clearing
of the transfer flow is a step split, since a process may die there (`LoopFree`: no other task runs). A
conversation is absent, in use, or past its 30 minutes, and the first handler that saves or looks then clears the flows;
`epoch` counts such ends. The cleanup timer of this chat and that of another chat are the two
threads that rewrite the file. Handlers of the other dialogues are the action `AnswerOther`; their own modules have
them. `late`, `asked`, `shown`, `undone` and `relic` are history variables. Bounds: `Message`,
`Task`, `MaxEpoch`, `SweptEpoch`, `Happens`, `Row`, `Decision`; message ids and row numbers that are done
with are used again, so neither runs out. Abstractions: a turn of the transfer handler (several loads
and one or two saves) is one step also for the threads; rows that the AI path confirms are left out.

### Routing and ChatRouting

`chat_endpoint` asks twenty-two handlers in turn, and the first that replies ends the way of a message
(`Rank`; booking and price change places in the new pipeline, `PriceFirst`). A message is the set of the
kinds of words in it, so that the word lists of the code are read as one kind each; the classifier may return anything
(`i \in Intent`). A `Situation` is the dialogues that wait, the domain of the last question and what else the conditions look at
in the last messages (`Fact`), the three switches among it. `PrimaryIntent` follows the overrides of the classifier
in their order. `Replies` are the handlers that answer whenever they are asked, `MayReply` those for which it depends on
more than the words; `Answerers` are the ones that may come to answer. `ChatRouting` asks about them in every state of
`ChatRoute` in which a message has passed the pre-checks, with the situations that fit it (`Finds`).

`OpenQuestionIsHeard` is about messages of nothing but details, and excepts what the code takes away from a dialogue on
purpose or by its words (`IsDrawnAway`): an answer that the classifier or an earlier question makes a transfer or a
table; the prompts of a dialogue that has ended and still stand in the last messages; a phone number while only prices are
asked for; and, in the old pipeline, an answer that is classified as a booking while the price dialogue waits.

### PriceAnswer and PriceFlow

`PriceFlow` has the dialogue (`AnswerDates`, `AnswerGuests`, `AnswerChildAges`: one operator per state,
giving what the handler decides), the entry of `price_flows.json` with its beginning and the last
query, requests that wait for Elektra (`asked`, `Slot` of them at once), and a timer's copy (`sweep`).
Days are numbers, of which some are in season; another detail is known or not. `Message` lists what the program reads in messages,
`Consistent` how the extraction ties those details together; `Backlog` is what it reads in earlier
ones. So a last day on its own is the message that names a first day (written 2026-06-09) or the one that says nothing (June 9): that is
what the extraction makes of it, and in both cases the question for the last day is put again. `NeverAskedBack` holds of these messages like of
all others: it does not say that a customer's answer is understood, only that an answer that is gets taken, and that none leads back.

`PriceAnswer` is a pure reading of Elektra's rows. The program reads an availability answer
in two ways, once to choose the rooms it prices, by room-type-id, and once to say how many are left, by the key that `ROOM_TYPE_MAP` gives a
room's label (`KeyOf`); several rooms may have one key. `ReadingsAgree` compares the two: a room that is priced is one that its key
counts; the converse holds for a room that has its key for itself. It is about rows that carry numbers. A row is taken to name its room
by id and by label at once. `PricedIsInStock` asks for it of the nights of every request that is out.

The currency is not followed to Elektra. `QueryElektraweb` models the check (`refused`: the currency named last is switched off);
`handle_elektra_price_request` then infers the currency once more from a text that is made of the details and of the customer's own words,
which the model leaves out, so `AskedIsComplete` says nothing of currencies (section 3). The same service reads the days and the guests
again too: the days stand first in that text and are found first. Amounts and wording are left out.

## 3. Runs

| run | instance | what it shows |
|---|---|---|
| `booking_one_row` | 1 row, 2 requests, crashes, all operations | `ReservationNeedsApproval`, `ApprovedOnce`, `NoticeBacked`, `CancelledIsReal`, `PendingNeverReturns` |
| `booking_two_rows` | 2 rows of one customer, the operations that await Elektra, no crash | `RowNamesOwnReservation`, `ApprovedHasOwner`, `ApprovedSettles`, `RequestsFinish` |
| `store_is_atomic` | 2 processes, all troubles | `IsAtomic`: the store implements `AtomicFile` while not every move is refused |
| `store_saves_end` | refused moves down to the fallback, failing writes; the file lock can be had | `WholeAtRest`, `SaveIsNotLost`, `LocksAreReleased` |
| `followup_loop` | 2 chats, the route | `RemindsOnce`, `ClosesOnlySilent`, `DropsOnlyLate` |
| `followup_leaves` | job thread, route, lost answers, a restart | `EntriesLeave` |
| `followup_dropped` | 1 chat | **violated**: `UnansweredIsKept` |
| `booking_conversation` | all handlers, timers, restarts, 2 rows | `PriceIsNotOlder`, `RowIsWhatWasShown`, `OneRowPerContext`, `OneOpenQuestion`, `IsDesk` |
| `booking_mixed_quote` | 2 queries | **violated**: `BookedAsQuoted` |
| `restaurant_tables` | 1 dialogue, 2 rows, a sweep, staff with one status and one change, purge, restart, a cancellation between flows | `OneRowPerDialogue`, `Acceptable`, `RowIsAsShown`, `IsDesk` |
| `chat_route` | 2 messages, 2 tasks, 2 details, staff, purge, timers, restart | `AnsweredOnce`, `SilentForStaff`, `BookedOnce`, `TransferIsAsShown`, `ExpiredIsNotBooked`; 25 messages, 864 situations: `PriceIsNotInvented`, `OpenQuestionIsHeard` |
| `price_conversation` | 17 kinds of message, 2 requests out, stays of one and two nights, 4 rooms, two of one key | `AsksWhatIsMissing`, `AskedIsComplete`, `NeverAskedBack`, `PricedIsInStock`, `OldFlowIsLeft` |

Bounds. Two requests, cycles, workers or tasks are enough for a race, because every handler touches the
shared state of one row, entry or file; two rows for a mix-up. Timeouts are 0 to 4 minutes, which
keeps their order and lets every age lie before, on and after each of them. Two endpoints and
two rounds exercise first, next and last. `Reservation`, `Inode`, `Context`, `Booking`, `Dialogue` and the
rows of `Restaurant` are supplies: operations that need a fresh one stop when there is none left, hence
`CHECK_DEADLOCK FALSE` in the runs of `HotelBooking` and `Restaurant`, whose rows can all be settled. One
dialogue of the restaurant is enough for two rows of it, which is what `OneRowPerDialogue` is about. The five details of a transfer
are two in the instance, one of them in the key and one not. `MaxEpoch = 1`: one conversation expires, and a sweep begins
before it does (`SweptEpoch = 0`). A conversation has one fact out of the ordinary besides its history, in either pipeline, with
any one dialogue open or price and booking together; the messages are the bare answers, and for each override of the
intent one that names a price as well. The theorems about both claims do without these bounds. `Swept` lets a timer of the price file load one of two entries only; the theorems do
without that bound. `PricedIsInStock` looks at every subset of 15 rows (`Listed`) for each stay: a stay's nights of three rooms free and sold out, some
stopped or without a number, one of a day before; so rows may be missing, repeated or of another day. `Change` is one change, to
a party that staff must handle at a late hour, which breaks all rules that the chat keeps. Symmetry is used in safety runs only.

Fairness. `RequestsFinish`: weak fairness of each request's continuation. All HTTP calls have
timeouts and the loop runs every ready coroutine; nothing is assumed of admins, customers or crashes. The
store: each worker that has begun goes on. `EntriesLeave`: time passes, a begun save ends, timers
fire, and the scheduler runs its job every minute, one instance at most; nobody need call the
route. The conversations need none: their flows expire when the next message looks at them, and no
liveness is claimed of a customer who may not answer, nor of one whose answers are not read.

### What the violated properties show

* `UnansweredIsKept`: `get_pending_followups` drops each entry that is past its send window,
  reminded or not, before `close_at`. With a cycle every minute no chat is ever closed
  automatically, as the docstrings promise.
* `BookedAsQuoted`: a price query is under way, the customer (from older offers) chooses a room
  and is asked for the kind of price; the query is answered; the choice then takes the offer
  from the flow and dates and guests from the cache. The row has the price of one stay and the dates of
  another. Offers cached by `elektra_price_entry_handler` carry no dates at all, and a flow begun from
  them has none to fall back on (`NoQuery` as dates).

### Seen while modelling, without a run

Hotel bookings

* Retry is allowed on a row with status approved, which is also what a row says while its create call
  is under way; two requests then make two reservations
  (`docs/_generated/tool_inventory_v1.json:67` expects idempotency). A second way to two
  reservations is the endpoint fallback: a transport error after Elektra has made one leads to the next endpoint.
* The payment test sends SP_WEB_PAYMENT also when the steps before it failed (amount 0, empty codes).

Follow-ups and the booking conversation

* `mark_followup_sent` marks the entry that the phone has after the send was awaited; a customer
  who answered meanwhile and was answered has a new one, which is then never reminded.
* `check_followups` goes through a list made before its first await: a customer who answers
  meanwhile is reminded all the same.
* With the job thread or a restart between a load and a save, a cancelled follow-up comes back and
  a chat that is not silent can be closed. Hence the premise of `ClosesSilentChats`.
* The follow-up minutes of the admin panel are written to `settings.json`; `schedule_followup`
  reads the settings in `followups.json`. Clearing all follow-ups drops those and the last cycle.
* The price of a booking is not asked for again at its confirmation. With the defaults it may be
  60 + 6 * 30 = 240 minutes old (`PriceIsNotOlder` is exact: one minute less is violated).
* A restart between `create_hotel_booking` and `clear_booking_flow`, or a timer thread's save of an older
  file, leaves a flow that can be confirmed again: a second row with the same context id.
* After a quiet-room or group handoff the flow is cleared whichever it is by then.

Restaurant

* A purge leaves `_CANCEL_STATE` in memory, although its docstring says that all data is cleared; the
  question is put again by the next message.
* `Start` inside a flow keeps the meal found before, so an hour without a meal can be booked as that
  meal (`kept` in `Acceptable`); with everything known it sets an asking state from which the next message silently clears the flow.
* The start handler reads "19:00" as 19 guests when the last six messages asked for a table.
* Nothing checks how many tables there are. The update route of the admin panel writes any day, hour and party over a
  reservation of any status, also a cancelled one, with none of the checks of the chat. A new time set in the admin panel does not change the meal. A
  status set by staff and the customer's yes to a cancellation overwrite each other.

Entry point, transfers, conversation store

* The dedupe of transfers returns a row that is cancelled, changed or of another route, and the customer
  is told that it was made.
* The postcheck of the mood, the restaurant's "handoff" and some of the price handoffs answer that staff will come
  without pausing the chat. Messages already past the pause check are answered after a takeover.
* The check for duplicate contents (`chat_routes.py`) never finds one. A process that dies between the mark of an
  id and the reply loses the message: a second delivery counts as seen.
* A save that crosses the 30-minute limit clears the flow its own handler has just begun. Closing a chat and purging it
  leave the transfer flow, contrary to `chat_precheck_handler.py:126-127` and the docstring at
  `conversation_store.py:486`. The threads' whole-file saves can lose other customers' flows.
* The webhook gives up after 70 seconds; the summary of a flow may then be stored but not delivered, and the next yes books it.
* When a handler of the chain fails after its flow has changed (`booking_flow_entry_handler.py:33-37` catches an
  error of `save_message`), the message is given to the flow again, the customer is not told of the row, and the
  admins' notice is not sent.

Routing

* With a transfer prompt among the last eight messages of the bot, the transfer handler takes the answer to a question of another dialogue
  (`transfer_start_handler.py:149-158`); the rules on cancelling take the rate from any earlier "1" or "2" of the customer.
* `_get_early_out_of_season_reply` looks at the first two dates of the last four turns and this one: dates that the customer
  corrects are refused again until the old turn drops out.
* After "What name should the reservation be under?" a name that contains "am" begins the table dialogue anew
  (`restaurant_start_handler.py:62-64`). "15 June" alone counts as a day and a party (`_looks_like_restaurant_date_guest_followup`).
* "rezervasyon yap oda prix" asks for a price by the normalizer's list but not by that of
  `_looks_like_direct_room_booking_create_request`: the price guard lets it go to the model. `PriceIsNotInvented` leaves such messages out (`AsksForPrice`).
* With the model first, which is the default, a call for staff outside a dialogue goes to OpenAI before the words for staff are looked at. "parking?" is made a
  question about the place, whose slots do not know parking, and the topic is asked for.

Price conversation

* The stay is asked for again with the text of the first question as a hint. `_infer_currency` ranks TRY over USD, GBP
  and EUR in the whole of it: after a question in lira, "in dollars" is priced in lira, although the comment says that
  only the currency is changed. A child word in the hint with no ages is answered "ages missing" and the flow is gone.
* The question for the check-out suggests "June 9" as an answer (`price_flow_handler.py:955-967`). A day alone gives no range, so
  nothing is read in it, and "2026-06-09" is read as a new first day: the question is put again for as long as the
  customer answers so (`price_flow_handler.py:762-763`, `1539-1585`, `elektraweb_booking_service.py:796-823`). "3 nights" is understood.
* When the number of children is asked for, "2" overwrites the number of adults, and "none" or "0 children" is asked again without end.
  The guests of only some of several rooms open the guests question again, the one way back in `NeverAskedBack`.
* A currency that is switched off can be asked for: the check looks at the currency named last, the service at all words of
  the customer, and takes lira first. "TL" in one answer and "in dollars" in the next passes the check and is asked in lira.
* Numbers of dates are read as ages. A new first day alone is combined with the old last day. The question how many
  rooms are left is answered from the offers that are cached, whatever dates it names.
* Prices given by `elektra_price_entry_handler` or for several rooms are not the last query, so a change of currency
  prices an older stay. Several rooms in the first message are priced as one. A switched-off currency is ignored for several rooms.
* An answer that arrives clears a flow begun meanwhile; one that arrives after a purge saves the last query again.
* `chat_routes.py:2027` calls the price flow directly, although `price_flow_entry_handler.py:46` says that an active
  transfer conversation must not come to it.
* An answer without a list is told as "no rooms", although the comment in the service says that it is handed over. A
  row with neither a number of rooms nor a stop counts as bookable for prices and as none in the count; `ReadingsAgree` is claimed for rows that have one.
  The count takes the best room of a key night by night: two rooms of one key that are free on different nights are counted as one that is left, and neither is priced.

## 4. Proofs

All theorems hold for any values of the constants that satisfy the `ASSUME`s of the module.

`HotelBookingProofs`: type correctness, the inductive invariant `IInv`, and from it
`ReservationNeedsApproval`, `ApprovedOnce`, `NoticeBacked`, `CancelledIsReal`,
`RowNamesOwnReservation`, `PendingNeverReturns`. None of them is inductive: the operations that await write back a
status read before the await. The argument of `IInv`: only a handler that holds a reservation number
does so; numbers come only from Elektra; Elektra makes one only for an approved row; and
approving leaves `pending_approval` before the first await, so it happens once. `ApprovedHasOwner` has an invariant of its
own on top of it (`OwnerInv`): an approved row has a request that will settle it (`Owns`: it holds the row as approved and is at
a step from which every way out writes another status), and, without retry, an approved row names no reservation yet, so that no handler with a lookup
has read "approved" and can write it back. Its premises stand in the property: no crash, and not both a retry and the operations with a lookup.

`StateStoreProofs`: the inductive invariant `Inv` (a temporary file is private and whole until it is
moved, the lock file has one holder, what a thread has still to do agrees with what it was told), and from it
type correctness, `SaveIsNotLost` where the lock file can be had, `WholeAtRest` where moves are the
only trouble, and the refinement: `Spec => IsAtomic` whenever fewer moves are refused than are tried. The
refinement mapping takes the content of the linked inode for the register and that of the synced
link for its durable value; the rename is the abstract save, the opening of the file the abstract load,
the write-back of the link the abstract write-back, and the steps in between stutter.

`FollowUpProofs`: type correctness for any threads, and three theorems about the loop without the job thread.
`ClosesOnlySilent` (`Job = {}`, `MaxRestarts = 0`): an entry is never older than its chat's silence (`Young`), and
a cycle's closing list only names chats that have been silent long enough. `DropsOnlyLate` (`Job = {}`, restarts allowed): what is
missing in the document in hand but not in the file was late when it was dropped (`DropIsLate`, `UnsavedIsLate`), and time does not
make it younger. `RemindsOnce` when there is one cycle at a time, no restart, and no answer of WhatsApp is lost (`OneCycle`): a chat that was
reminded has a marked entry or none, or the cycle that reminded it is about to mark it (`ReminderIsKnown`), and a list of due
entries is no older than the marks (`ListIsFresh`). Without these premises it is false: a second call of the
route, the job thread, a lost answer (the reminder was delivered, the entry is not marked) or a restart before the mark reminds twice.

`BookingFlowProofs`: type correctness, `PriceIsNotOlder`, `OneOpenQuestion`, `RowIsWhatWasShown`,
`OneRowPerContext`. The invariant has two parts. `Kept` says what a flow holds in each state (`Holds`), how
old its price can be there (`Young`: the offer's limit, one timeout for each answer given, and the flow's own
age), and that it has an issued context id where it needs one; it holds of the entry *and* of
the copy a timer holds, so a timer's save cannot break it. `Tied` links rows to summaries: a flow's context id is on no
row, and a flow to be confirmed holds what was shown. It is lost when an entry is put back, which is what
`restored` records. The refinement of `BookingDesk` (`IsDesk`) follows from the invariant step by step: `GiveSpecial` is a `Show`, whose dialogue is open
because the flow's id is on no row; `Confirm` and `ConfirmCut` are a `Book`; all other actions leave rows and summaries alone and
are at most a disturbance.

`PriceFlowProofs`: type correctness, `AsksWhatIsMissing`, `AskedIsComplete`, `NeverAskedBack`, `OldFlowIsLeft`, `PricedIsInStock`. The
invariant says the same of the flow and of the copy a timer holds (the state fits the details, and rooms whose
guests are all known have adults: `Sound`), of the last query (it is complete, because a change of currency sends
it again as it is) and of the requests. The lemmas about `Proceed`, `Reply` and `FirstData` say what a handler
decides from sound details; `NeverAskedBack` follows from them and `Consistent` for any message. `PricedIsInStock` takes from the invariant that a
request has both its days, and the rest is a fact about `PriceAnswer` for every set of rows and nights: a
room is eligible if every night has a row of it that leaves one, and the count of its key is the smallest over the nights of the largest number in a
night's rows of all rooms of that key, which is positive if every night has a row of one of them that leaves one.

`RestaurantProofs`: type correctness, `OneRowPerDialogue`, `Acceptable`, `RowIsAsShown`. The lemmas sort the
messages by what they do to a dialogue: it stays as it is, is asked on without a summary, is shown, or begins. The invariant
says that a flow that waits for its yes holds what was shown (`HoldsShown`), whether it is in the file or in the hand of a
thread, and that the dialogue of a row is over unless it was cut or put back (`BookedIsOver`). With them each of the four ways is a `Show` or a disturbance of `BookingDesk`, the insert a
`Book`, a change of details by staff an `Amend`, and what statuses and the cancellation do to a row (`OnlyStatus`) nothing at all: `IsDesk`.
`Acceptable` needs of a flow that its hour is served, or `kept`, once a meal is noted (`Fit`).

`ChatRouteProofs`: `TypeOK`, `AnsweredOnce`, `SilentForStaff`, `BookedOnce`, `TransferIsAsShown`,
`ExpiredIsNotBooked`. The invariant has a part about messages (a task at work is the only one with its id, the id is
marked and unanswered: `MessageInv`) and one about the flow (stored entries ask for what is missing, a complete
flow holds its last summary and is of this conversation: `FlowInv`); most actions leave one of the two alone.

`RoutingProofs`: `PriceIsNotInvented` and `OpenQuestionIsHeard`, for every set of words, intent and situation. The
price guard replies to every message that asks for a price and stands before the model, and the handler that asks the
model first lets such a message pass. For a bare answer, everything that stands before the open dialogue is silent
(`OthersAreSilent`), and the first dialogue that waits is asked before the rest. Both are facts about `Routing`; `Spec` adds no more than when they count.

Checked by TLC only: liveness (`RequestsFinish`, `ApprovedSettles`, `LocksAreReleased`, `EntriesLeave`), because
fairness and ENABLED are beyond the prover; and the violated properties. The type invariants of `BookingFlow`, `PriceFlow`,
`FollowUp`, `Restaurant` and `ChatRoute` are proved and not listed in a run.

## 5. Plan

Done: the modules above. Next, in this order:

1. An abstract specification of the life of a row in `HotelBooking` (asked, approved, made, settled), and the proof that the
   handlers implement it, as `BookingDesk` is for the conversations.
2. The confirmation of `BookingFlow` composed with the insertion and the life of the row in `HotelBooking`.
3. Sessions and lockout.

### Not modelled

* About 6000 lines are HTML pages (`web/admin_pages.py`, `web/login_page.py` and the like), 3000 texts and prompts, 5000
  reports, metrics and quality checks. They keep no state that another component relies on, and a module about them
  would say nothing a test does not. A large part of the rest parses free text: the models start from what a text is taken to mean.
* The payment links of the supplier (`booking_flow_handler.py:1164-2194` and `2520-2714`, about 900 lines) are behind a
  `return` of the handoff and cannot be reached.
* `routing_state_service.set_active_flow` and `set_domain_lock` are called by nobody, so the active flow and the
  domain lock are always empty.
* `schedule_restaurant_reminder` and `schedule_hotel_reminder` are called by nobody, and the admin routes of the
  reminders only cancel and switch: `reminders.json` never gets an entry. (`process_due_reminders` would save a document loaded before
  its awaits and undo a cancellation made meanwhile.)
* Admin sessions are a JSON file that the event loop and the threads of the dependencies read, prune and rewrite in place, without a lock
  (`core/auth_service.py`): two requests that overlap can lose a login or a logout. Nothing in the chat depends on them. Settings are read as switches, which the models choose freely.
* `cleanup_stale_price_flows`, `cleanup_stale_booking_flows`, `save_last_seen_context` and
  `_fetch_stay_eligible_room_keys_from_hoteladvisor` are used by nobody.
