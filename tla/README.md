# Booking platform: TLA+ models and proofs

This directory models the Go booking service of this repository (one Lambda behind an HTTP router, one DynamoDB table) in TLA+, checks the models with TLC and proves the core results with TLAPS.

## 1. The system

Every HTTP request runs in one Lambda invocation. A handler validates its input, reads and writes the one DynamoDB table call by call, and answers. Nothing is kept between requests but the table and, per instance, the rate limiter's counters. Handlers of different requests run at the same time, no lock spans two calls, and the Lambda timeout can end a handler between any two calls. Base-table reads are consistent; the global secondary indexes GSI1 to GSI4 trail the table.

| Component | State | Operations | What is hard | What makes it correct |
|---|---|---|---|---|
| bookings (`internal/app/bookings`, `booking_repo.go`) | BOOKING rows, their GSI1 items, IDEMPOTENCY rows | create, confirm, cancel, complete, no-show | check-then-write without a lock, read-modify-write without a condition, paging, retries, killed handlers | no double booking, legal transitions, one booking per key, one reminder per booking, nothing confirmed without passing the gate |
| payments (`internal/app/payments`, `payment_repo.go`, `domain/payment.go`) | PAYMENT rows, GSI3 items, IDEMPOTENCY#PAY rows | create, provider webhook | repeated and late webhooks, webhooks that nothing authenticates, retries, a booking that changes after it was read | one payment per key; a stored status somebody reported of that very payment; a confirmed booking was paid for, as far as webhooks can be believed |
| notifications (`internal/app/notifications`, `notification_repo.go`) | NOTIF rows, GSI4 items | create, dispatch of due rows by timer or request | two dispatchers, a message sent and its row not saved, an index that trails | nothing marked sent that was not sent; nothing sent twice, no outcome overwritten but by dispatchers that met over a row; every due notification leaves the queue |
| conversations (`internal/app/conversations`, `handlers_whatsapp.go`) | CONVERSATION and MESSAGE rows, dedup markers | ensure, post, WhatsApp webhook | provider retries, marker taken before the work is done, and perhaps without its taker learning of it | one conversation per customer, no message doubled, none lost but by a failure or a lost answer |
| customers (`internal/app/customers`, `customer_repo.go`) | CUSTOMER rows, GSI2 items | create, patch, find by phone | uniqueness checked on an index that trails | one customer per phone number |
| catalog, tenancy (`internal/app/catalog`, `internal/app/tenancy`) | SERVICE, STAFF, BUSINESS rows | create, patch, delete, paged list | read-modify-write; lists while rows come and go | work is undone only by an overlapping patch; a list followed to its end is complete |
| scheduling (`internal/app/scheduling`, `internal/schedule/slots.go`) | availability rows | put rules, compute slots | window clipping, overlapping rules, changes of offset, three reads that are not one | slots are inside the opening hours, never overlap, and belong to one moment; bookings are not looked at |
| rate limiter (`internal/httpapi/middleware_ops.go`) | counters in one instance | allow | window edges, stamps taken before the locks | passes in any window's length are bounded; a refusal was earned by the client's own requests |
| edge, Twilio, outbound stub, wiring, Terraform | none | routing, formatting | - | - |

Interactions: a booking's create calls notifications (the created hook in `cmd/api/main.go`), a confirm reads payments and the service's price, a payment's create reads the booking, the WhatsApp webhook creates customers, conversations and bookings, a list of slots reads the business and the service.

## 2. How the models read the code

**Steps.** One action is one call to DynamoDB or to a provider, and the local work up to the next call; actions of different requests interleave freely. A handler is a record of its local variables and a `pc` that names the call it makes next. `Fail(r)` ends a handler at any call without effect (validation, failed read, condition error, Lambda timeout); a write that took effect and whose answer got lost is the reply `"lost"`. Of the conditional put of a dedup marker that says too little: the SDK sends a put again whose answer is lost, meets its own marker, and the delivery is answered as a duplicate (`DeliverUnanswered`); a put whose error reaches the handler although the marker is written is `Deliver`, then `Fail`.

**Table.** Each kind of row is a function from id to a record or `Nil`. An index is a second function, brought up to date item by item by `Replicate` when `IndexLag` is true, and together with the row when it is false (`PayIndexLag` for GSI3 in `BookingPayments`, where the two indexes trail independently). Base-table reads of one row see the current row, because the repositories ask for consistent reads; queries of the base table (the lists of Catalog) do not, and may see a row as it was (`replica`). One tenant is modelled: every key of a request carries the tenant's partition key. GSI4 is shared by all tenants, so the notifications of all tenants are one set.

**Who calls.** The payment webhook compares a signature only if `PAYMENT_WEBHOOK_SECRET` is set; it is optional (`LOCAL_DEV.md:123`) and `lambda.tf` does not set it. So `Signed` is a constant of `Payments`: where it is true only the provider's reports arrive, where it is false any status for any payment id does, which the history variable `strays` records. The runs have it false; the configurations run by hand have it true, so that what they show cannot be put down to a false report.

**Ids and times.** A ULID is named after the request that generates it. Instants are numbers; in Bookings they are half seconds, so that the text order of sort keys (`TextOrder`) can be told from the order of time.

**Data left out.** Names, reasons, payloads, time stamps, currencies and checkout URLs; the customer and service reads of a create, which only end in an error.

### Modules

| Module | What it is |
|---|---|
| `BookingDomain` | the booking entity: statuses, transitions (`From`, `To`), when two bookings compete (`Blocks`) |
| `Bookings` | the booking service, call by call |
| `Calendar` | abstract: taking a slot and moving a booking are single atomic steps, which bookings in dispute may get wrong |
| `BookingHistory` | Bookings with history variables: who met whom between reads and writes, what an overlap check could not see, what a save brought back; shown to implement `Calendar` |
| `IdempotentCreate` | abstract: a key is bound once, everyone who asks with it gets the same entity, only the creator is told it created it. Used by Bookings, by Payments and, with the customer as the key, by Conversations |
| `Payments` | the payment service, call by call, with the provider as environment; which bookings accept payments is a free variable `payable` |
| `BookingPayments` | Bookings and an instance of Payments over one table: `payable` becomes "the row is created or confirmed", and the confirm gate reads GSI3, then the price |
| `Notifications` | the due queue and its dispatchers |
| `Catalog` | businesses, services and staff: one pattern of create, patch, delete and paged list |
| `Customers` | customers and the uniqueness of their phones over GSI2; the base of the next module |
| `Conversations` | the WhatsApp webhook, ensure and post, over Customers |
| `Slots` | the slot algorithm, pure, with the part of Go's time package it needs |
| `Scheduling` | replacing the rules and listing slots, over Slots, with the reference definition |
| `RateLimiter` | the limiter of one instance |
| `MCBookings`, `MCBookingHistory`, `MCPayments`, `MCBookingPayments`, `MCNotifications`, `MCCatalog`, `MCConversations`, `MCScheduling`, `MCRateLimiter` | symmetry sets and values of constants for TLC |
| `BookingsProofs`, `PaymentsProofs`, `BookingPaymentsProofs`, `NotificationsProofs`, `CatalogProofs`, `ConversationsProofs`, `SchedulingProofs`, `RateLimiterProofs` | theorems |

### Bookings

| Code | Action |
|---|---|
| `CreateBooking`, up to the first page of `FindStaffCandidatesBefore` | `ArriveCreate` |
| one page of that query: `PageSize` items of every staff member, oldest first, at most `MaxPages` | `NextPage`, `RejectOverlap`, `AcceptSlot` |
| `lookupIdempotency` before and after the transaction | `LookupKey`, `RelookupKey` |
| `TransactWriteItems` in `CreateIfNotExistsWithIdempotency` | `WriteBooking`, `WriteCancelled` |
| `Get` of the booking a key names | `ReplayBooking` |
| the created hook in `cmd/api/main.go` | `Remind` |
| `ConfirmBooking`, `CancelBooking`, `CompleteBooking`, `NoShowBooking`: `Get`, the status check, `Save` | `ArriveLifecycle`, `Load`, `LoadMissing`, (confirm: the overlap check again and `ConfirmGate`), `Save` |

In `Bookings` the gate's verdict is arbitrary; `BookingPayments` replaces it by the payments that were read. Last pages: DynamoDB may or may not return a continuation key after a full page that was the last one, so `MorePages` and `LastPage` can both hold.

`BookingHistory` adds three history variables, each updated by `Record` in every step, none read by the service. `met[r]` has the requests that had yet to write while `r` had, too. `overlooked[r]` has the stored bookings in the way of `r` that its overlap check could not see: the index item is missing or old, the sort key is beyond the window's end as text, or the item comes after the last page the check reads. `revived` has the bookings that had ended and were stored as live again. From them come the disputes of `Calendar`: booking `b` disputes `d` if a request that claims `b` (its create or a confirm of it) met one that claims `d` or overlooked `d`, and `b` disputes itself if two lifecycle requests met over it. Everything outside these cases has to be an atomic calendar.

### Payments and the confirm gate

| Code | Action |
|---|---|
| `CreatePayment`: booking read and status check | `ArrivePayment`, `ReadBooking` |
| key lookup, transaction, second lookup, replay | `LookupKey`, `WritePayment`, `WriteCancelled`, `RelookupKey`, `ReplayPayment`, `RespondCreated` |
| `postPaymentWebhook`: the signature if there is a secret | `Accepts`, guard of `ArriveWebhook` |
| `RecordWebhook`: `Get`, then `Save` of the row with the status delivered | `ArriveWebhook`, `LoadPayment`, `SavePayment` |
| the provider | `Settle`; it delivers any status it has reported, again and in any order |
| `confirmPaymentGate` | `ReadPayments` (GSI3, at most `GateLimit` items), then `BookingStep` with the verdict of `Satisfies` |
| `PatchService`, as far as the price goes | `PatchPrice` |

### Notifications

| Code | Action |
|---|---|
| `Create`, `ScheduleBookingReminder` | `Create` |
| `ListDueScheduled` (GSI4, at most `Limit` items, then the filter) | `ListDue` |
| the loop of `DispatchDue`: consistent read of the next candidate | `GetFresh`, `GetFails` |
| `dispatchOne` | `Send`, `SendFails`, `SendLost` |
| `Save` of the outcome | `Save`, `SaveFails`, `SaveLost` |
| Lambda timeout | `Kill` |

`Faults` selects what may go wrong: everything in `notify_race`, and in `notify_one` what leaves progress possible. Two history variables say when nothing can be promised: `contested` has the notifications that two dispatchers were at together (between the fresh read and the save), `unsaved` those whose message the provider took from a dispatcher that was killed or failed before it saved.

### Catalog

| Code | Action |
|---|---|
| `RegisterBusiness`, `CreateService`, `CreateStaff`: one conditional put | actions of the same names (`Insert`) |
| `PatchBusiness`, `PatchService`, `PatchStaff`: `Get`, then `Save` of the whole row | actions of the same names (`Load`), `Save` |
| `DeleteService`, `DeleteStaff`: one conditional delete | actions of the same names (`Delete`) |
| `ListServices`, `ListStaff`: one query per page, the cursor is the last key evaluated | `ListServices`, `ListStaff`, `NextPage` |

A row keeps its active flag, since `active_only` filters by it, and `log`, the patches that are in it. `race` records, for a patch or delete that took effect, who held a copy of its row at that moment.

### Customers and conversations

| Code | Action |
|---|---|
| `CreateCustomer`: GSI2 query, conditional put | `CreateCustomer`, `InsertCustomer` |
| `PatchCustomer`: `Get`, GSI2 query if the phone changes, `Save` of the whole row | `PatchCustomer`, `CheckPhone`, `SaveCustomer` |
| `postWhatsAppWebhook` up to `TryAcquireWebhookDedup` | `Deliver`; `DeliverUnanswered` if the marker is written and the answer lost |
| `GetCustomerByPhone`, `CreateCustomer` of an unknown sender | `FindSender`, `CreateSender`, `InsertSender` |
| `EnsureConversation`: index, transaction, index again, `GetConversation` | `GetIndex`, `MakeConversation`, `RereadIndex`, `ReturnConversation` |
| `AppendInboundMessage`: message, then conversation | `AppendInbound`, `SaveConversation` |
| `dispatchInbound`: BOOK, and the reply | `Book`, `AppendOutbound`, `SaveConversation`, `Send` |
| `postEnsureConversation`, `postConversationMessage` | `Ensure`, `Post`, then the steps above |

The provider delivers every message any number of times (`Deliver` of any free request). `orphans` has the messages whose marker nobody knows to have taken. `Book` is the idempotent create that `Bookings` is shown to implement, as one step. `clean` and `overrun` record which handlers had a look at GSI2 that was true and is not out of date, and which customers were written by others.

### Scheduling

| Code | Action or operator |
|---|---|
| `PutRules`: every rule is valid, one put | `PutRules` (`Accepts`) |
| `PatchBusiness`, `PatchService`, `DeleteService`, as far as zone and duration go | `PatchBusiness`, `PatchService` |
| `getAvailabilitySlots`, `ListSlots`: business, rules, service | `Begin`, `ReadBusiness`, `ReadRules`, `ReadService` |
| `BuildSlots`: day loop, clipping, buckets | `Days`, `Segment`, `OpensIn`, `Segments` |
| `mergeIntervals` | `Absorb` folded over the sorted intervals, `MergeIntervals` |
| cutting the merged intervals | `Cut` |

Time is integer ticks. Of a rule's times of day only that they lie within a day is assumed (`RuleAssumption`; `validateRule` has parsed them as HH:MM), of slot lengths that they are positive (`TimeAssumption`; the handler refuses others). A zone is one change of offset, and `DateOf` is what `time.Date` does with it: it guesses an offset and corrects it once. `moments` records the rows as they were at each step of the request.

### Rate limiter

| Code | Action |
|---|---|
| `rateLimitMiddleware`: address and `time.Now()` | `Arrive` |
| `allow`, under the map's lock | `Find` |
| `allow`, under the visitor's lock | `Count` |

## 3. What TLC checks

Passing runs:

| Run | Properties | Instance | What it shows |
|---|---|---|---|
| `bookings_race` | `TypeOK`, `KeysMatchBookings`, `SameKeySameBooking`, `RemindedOnce`, `ConfirmedPassedGate`, `ImplementsIdempotentCreate`, `EveryRequestAnswered` | 3 racing requests of every kind, 2 keys, trailing index, pages of one | keys and bookings stay in step, a retry gets the booking its key names, reminders are not doubled, nothing gets past confirmed without a confirm that passed its checks, the stepwise create implements the atomic one, paging ends and nobody waits for anybody |
| `bookings_history` | `ImplementsCalendar` | 3 racing requests of any kind, one staff member, instants that make windows equal, adjoining and half a second apart, trailing index, one page of one item | the service is the atomic calendar but where requests met between their reads and their writes, or where the check could not see a booking, because of the lag, the text order or the cap on pages: no other way leads to a double booking or an illegal transition |
| `bookings_confirm` | `NoDoubleConfirmed` | 2 creates, their 2 confirms and a cancel of one slot, 3 at a time, trailing index, two pages of one item | two overlapping bookings may both be created; both are confirmed only if a stale save brought one back that had ended, or if a confirm that went through could not see the other in the index. GSI1 always trails, so the second does happen; what is excluded is that a race of reads and writes alone is enough |
| `payments_race` | `TypeOK`, `StatusWasReported`, `ImplementsIdempotentCreate` | 3 racing creates and webhooks, 2 keys, trailing index, no webhook secret | rows show only what the provider reported of that payment, or a webhook gave that very payment; creates are idempotent |
| `gate_paid` | `ConfirmedWasPaid` | a create and a confirm, a payment and a webhook, two kinds, two price states, GSI3 trailing, no webhook secret | nothing is confirmed without a payment of its own that satisfied the policy and of which the provider or a webhook said that it succeeded |
| `notify_race` | `TypeOK`, `SentWasDelivered`, `AtMostOnce`, `SettledSticks` | 2 dispatchers, 2 notifications, every fault, trailing index | nothing is marked as sent that was not; a message goes out twice only if two dispatchers were at it together or the save after it never happened; a settled row is overwritten only if two dispatchers were at it together |
| `notify_one` | `DueIsSettled` | 1 dispatcher, 3 notifications, rejections and lost answers, trailing index, a list of one | every due notification is sent or fails |
| `messaging` | `TypeOK`, `OneConversation`, `ProcessedOnce`, `LossNeedsFailure`, `DuplicateNeedsOverlap`, `EnsureImplementsCreate` | 3 requests of any kind, 2 customers, 2 phones, 3 messages (one empty or without id), GSI2 trailing, a failure at any call, lost answers of marker puts | one conversation per customer; a message is recorded, answered and booked once, and lost only by a failure of the delivery that took its marker or with the answer to the marker's put; a phone is given twice only by overlapping handlers |
| `catalog_race` | `TypeOK`, `LostOnlyToOverlap`, `ListingComplete` | 2 rows, 3 patches or deletes, 2 at a time, a client listing page by page, reads behind | work on a row is undone only by a patch that overlapped it; a list followed to its end misses nothing that was there throughout and repeats nothing |
| `slots` | `TypeOK`, `SlotsMatchReference`, `SlotsInOpenHours`, `SlotsDisjoint`, `TornNeedsTwoWrites` | up to 2 of 9 rules, 3 zones, 2 durations, filters, 2 changes under the request | the algorithm agrees with an instant by instant definition, also across a change of offset; an answer belongs to one moment unless two changes came in between. The zones with a change of offset keep midnight, which `SlotsDisjoint` needs (`slots_overlap.cfg`) |
| `limiter` | `TypeOK`, `PassesBounded`, `RefusalEarned` | 5 requests of 2 clients, limit 2, stamps up to a tick old | a client passes no more often than the windows it meets admit, and is refused only because of its own recent requests |

One run ends in a counterexample, and is a difference between the code and what the repository says of it:

| Run | Property | What happens |
|---|---|---|
| `bookings_double` | `NoDoubleBooking` | two creates of one slot both check before either writes (`IMPLEMENTATION_PLAN.md:134`: "Two clients cannot claim the same staff slot") |

Further configurations that end in a counterexample are kept beside these to be run by hand. They show limits of the code, each with the line where it bites:

| Configuration (module) | Property | What happens |
|---|---|---|
| `bookings_stale_save.cfg` (`MCBookings`) | `LegalTransitions` | a confirm that read the row before a cancel was saved overwrites it (`booking_repo.go:177`; `PLANNING.md:131`: "allowed state transitions only") |
| `bookings_replay.cfg` (`MCBookings`) | `ReplayNotRejected` | a retried create is rejected because of the booking it made itself (`bookings/app.go:100`; line 70: "persists a booking or replays an idempotent create") |
| `bookings_subsecond.cfg` (`MCBookings`) | `NoDoubleBooking` | a zero fraction of a second sorts after a non-zero one (`booking_repo.go:242`) |
| `bookings_page_cap.cfg` (`MCBookings`) | `NoDoubleBooking` | bookings past the last page the check reads are not seen |
| `payments_late_report.cfg` (`MCPayments`) | `SettlementSticks` | a success the provider reported, delivered again after the refund, wins (`payments/app.go:154`) |
| `payments_replay.cfg` (`MCPayments`) | `ReplayNotRejected` | a retried create is rejected once its booking ended (`payments/app.go:67`) |
| `gate_stale.cfg` (`MCBookingPayments`) | `ConfirmsWhilePaid` | a refund between the gate and the save goes unnoticed (`bookings/app.go:155`) |
| `notify_double.cfg` (`MCNotifications`) | `OneMessageEach` | two dispatchers send the same row (`notifications/app.go:107`) |
| `notify_no_retry.cfg` (`MCNotifications`) | `FailedIsRetried` | a message that was rejected once is never tried again (`notifications/app.go:112`) |
| `customers_duplicate.cfg` (`MCConversations`) | `PhoneIsUnique` | two creates look a phone up before either writes (`customer_repo.go:34`; `PLANNING.md:125`: "unique per tenant") |
| `messages_lost.cfg` (`MCConversations`) | `DuplicateIsRecorded` | without any fault: two first messages of one sender race to create the customer, the loser's webhook fails with a conflict after its marker is set, and its redelivery is answered as a duplicate (`conversations/app.go:258`; `IMPLEMENTATION_PLAN.md:237`) |
| `slots_short.cfg` (`MCScheduling`) | `ShortRulesMerge` | a rule too short for a slot is dropped before it is merged with its neighbour (`slots.go:79`; `LOCAL_DEV.md:99`: "merges overlapping windows per staff/day") |
| `slots_midnight.cfg` (`MCScheduling`) | `SlotsMatchReference` | where a change of offset skips midnight, the day loop goes on at another time of day and may miss the last day (`slots.go:50`) |
| `slots_overlap.cfg` (`MCScheduling`) | `SlotsDisjoint` | where a change of offset skips midnight, a rule that begins there opens in the evening before (`slots.go:56`), in the bucket of its own day, and its slots overlap those of a rule that is still open; found when the proof of `SlotsDisjoint` failed without a hypothesis on zones (`slots.go:23`: "emits non-overlapping slot windows per staff in UTC") |
| `limiter_sliding.cfg` (`MCRateLimiter`) | `SlidingWindow` | twice the limit passes across the end of a window (`middleware_ops.go:153`; `CURSOR.md:88`: "sliding-window rate limit") |

The properties that hold say what the code does achieve next to these: `NoDoubleConfirmed` next to `NoDoubleBooking`, `ConfirmedPassedGate` next to `LegalTransitions`, `SameKeySameBooking` next to `ReplayNotRejected`, `StatusWasReported` next to `SettlementSticks`, `ConfirmedWasPaid` next to `ConfirmsWhilePaid`, `AtMostOnce` next to `OneMessageEach`, `ImplementsCalendar` next to `NoDoubleBooking` and `LegalTransitions`, `DuplicateNeedsOverlap` next to `PhoneIsUnique`, `LossNeedsFailure` next to `DuplicateIsRecorded` (the conflict counts as a failure there), `SlotsMatchReference` next to `ShortRulesMerge`, and `PassesBounded` next to `SlidingWindow`.

**Bounds.** `Request` and `PayRequest` bound how many requests ever arrive, `MaxInFlight` and `PayMaxInFlight` how many run at once, `Notif` and `Horizon` the notifications and the clock; everything else is finite by itself. Three requests are the least that show a race of two against the state a third left behind (a replay racing a create after a cancel), and five are needed for two creates, two confirms and a cancel (`bookings_confirm`). In `bookings_history` the instants 0, 2 and 3 give windows that are equal, nested, and adjoining in the middle of a second, so that text and time sort them differently, and one page of one item makes a second booking invisible to the check; with two requests racing against the state a third left, every kind of dispute occurs. The runs `bookings_race` and `bookings_confirm` have one window, so that every two bookings of it compete: their properties are about keys, copies, gates and the order of calls, not about which windows overlap. Pages of one item make every pair of bookings cross a page boundary, and `MaxPages` decides whether the query is read to its end. Two constraints keep `bookings_history` and `bookings_confirm` small. `OneOutcome` does not go on from states in which a reminder was scheduled or a request was answered with an error, a conflict, a missing booking or a lost answer: neither the reminders nor what a client is told matter to the calendar, and a request that fails or is refused before its write leaves the table as if it had never come. `Cast` fixes, in `bookings_confirm` only, which request asks for what (two creates with keys of their own, a confirm of each, a cancel), not how they interleave; the theorem needs neither. Both conditions in `NoDoubleConfirmed` occur there: without either of them the run ends in a counterexample. `Horizon` is one past the first instant, so that rows are due at once, later, or after the clock moved. `gate_paid` needs one booking, one confirm, one payment and one report, and adds every interleaving of these with the index and the price; `gate_stale` needs the refund as well. In `notify_one` a list of one item is the worst case for due rows hidden behind others. In `messaging` three requests let two deliveries race while a third changes the customer or delivers again, and the messages are one of each kind the code tells apart. In `catalog_race` pages of one item put every change between two pages, and two patches hold copies at once (`MaxInFlight`) while a third patch or delete writes. In `slots` a day has eight ticks; the rules adjoin, nest, belong to a staff member or another service, begin at the tick that is skipped, and two of them are not valid; a window cuts the first day and the second; `MaxRules` 2 is enough for every pair, and `MaxWrites` 2 lets the request meet two changes, the least that tears it. In `limiter` five requests are one more than two windows admit, `Lag` bounds how old a stamp may be, and `MaxTime` lets a third window begin. Keys, staff members and dispatchers are interchangeable in the runs without liveness, which is what the symmetry sets say.

**Fairness.** `EveryRequestAnswered` (`bookings_race`, without symmetry) assumes weak fairness of `Step(r)` for each handler: Lambda runs a handler until it answers or is killed, and being killed answers it as well. Nothing is assumed of arrivals, of the index or of failures. `DueIsSettled` assumes weak fairness of each dispatcher (`Proceed`), which stands for an operator or timer that goes on calling dispatch-due, and of `Replicate`, since DynamoDB promises that indexes catch up; kills and failing saves are left out there, because a row whose save fails every time stays scheduled in the code too.

**Deadlock.** Bookings and its compositions have a step for "all requests are answered", so a handler that waits for ever would be reported. Payments never stops, since bookings go on changing. The queue of Notifications really comes to rest when all is sent, so its runs do not ask for deadlock; so do the runs of Conversations, Catalog, Scheduling and RateLimiter once their requests are used up, and no handler there waits for another.

## 4. What is proved

All theorems hold for every value of the constants that satisfies the named assumptions of the modules: requests and notifications are numbered by natural numbers (the order of their ULIDs), `Nil` is no value, page sizes are positive.

| Theorem | Module | Statement |
|---|---|---|
| `TypeCorrect` | `BookingsProofs` | `Spec => []TypeOK` |
| `KeysAlwaysMatch`, `SameKeyAlwaysSameBooking`, `AlwaysRemindedOnce`, `AlwaysConfirmedPassedGate` | `BookingsProofs` | the four safety invariants of `bookings_race` |
| `NeverDoubleConfirmed` | `BookingsProofs` | `HSpec => []NoDoubleConfirmed` |
| `ImplementsIdempotency` | `BookingsProofs` | `Spec => ImplementsIdempotentCreate` |
| `CalendarImplemented` | `BookingsProofs` | `HSpec => ImplementsCalendar` |
| `OverlapsAlwaysDisputed` | `BookingsProofs` | `HSpec => []OverlapsAreDisputed`: two overlapping live bookings were in a race, or one was hidden from the other's check |
| `IllegalMovesAlwaysDisputed` | `BookingsProofs` | `HSpec => IllegalMovesAreDisputed`: a transition that is not one of the lifecycle's happens only to a booking that two requests moved at the same time |
| `TypeCorrect`, `StatusAlwaysReported` | `PaymentsProofs` | type correctness and `StatusWasReported`, with a secret or without |
| `SignedShowsReports` | `PaymentsProofs` | where the secret is set (`Signed`), rows and index items show only what the provider reported |
| `ImplementsIdempotency` | `PaymentsProofs` | `Spec => ImplementsIdempotentCreate` |
| `BookingsInside`, `PaymentsInside` | `BookingPaymentsProofs` | the composed system implements each component, so that their theorems carry over |
| `ConfirmedWasAlwaysPaid` | `BookingPaymentsProofs` | `ComposedSpec => []ConfirmedWasPaid`, with a secret or without |
| `SignedConfirmedWasPaid` | `BookingPaymentsProofs` | where the secret is set, every confirmed booking has a payment that satisfied the policy and that the provider settled |
| `TypeCorrect`, `SentAlwaysDelivered` | `NotificationsProofs` | type correctness and `SentWasDelivered` for any number of dispatchers and all faults |
| `SettledAlwaysSticks`, `SentAtMostOnce` | `NotificationsProofs` | `SettledSticks` and `AtMostOnce`, for any number of dispatchers and all faults |
| `OverlapTheorem` | `CatalogProofs` | `Spec => []LostOnlyToOverlap` |
| `TypeCorrect`, `ListingAlwaysComplete` | `CatalogProofs` | type correctness and `ListingComplete`, for finitely many rows |
| `TypeCorrect`, `OneConversationTheorem`, `ProcessedOnceTheorem`, `LossTheorem`, `DuplicateTheorem` | `ConversationsProofs` | the five invariants of `messaging` |
| `EnsureTheorem` | `ConversationsProofs` | `Spec => EnsureImplementsCreate` |
| `TypeCorrect`, `TornOnlyByTwoWrites` | `SchedulingProofs` | type correctness and `TornNeedsTwoWrites` |
| `SlotsNeverOverlap` | `SchedulingProofs` | `Spec => []SlotsDisjoint`, assuming `KeepsMidnight(z)` of every zone |
| `SlotsOnlyInOpenHours` | `SchedulingProofs` | `Spec => []SlotsInOpenHours`, for every zone |
| `SlotsAreTheReference` | `SchedulingProofs` | `Spec => []SlotsMatchReference`, assuming `HasMidnights(z)` of every zone |
| `TypeCorrect`, `AlwaysPassesBounded`, `AlwaysRefusalEarned` | `RateLimiterProofs` | the three invariants of `limiter`, for finitely many requests |

The inductive invariants, and what each adds to the property it proves:

- Bookings, types (`CopyInv`): a handler that will write holds a copy, and the row it names exists. Without it `Save` could store anything.
- Bookings, keys (`KeyInv`): a key that names a booking was bound by the request with that id, and that request is past its transaction; an answered request was told what its key is bound to. This is what makes the transaction's condition enough although the lookup comes earlier.
- Bookings, reminders (`RemindInv`): the only handler that reminds of a booking is the one that wrote it, and until it does there is no reminder.
- Bookings, gate (`GateInv`): every copy a handler holds, however old, is of a booking that was confirmed only after a confirm passed the gate. Stale copies can undo a transition but cannot forge one.
- Payments (`RowsInv`, `ReportInv`): row, index item and copy of a payment agree in booking, kind and amount, and a webhook about to save carries a status in `Evidence` of that payment: one the provider reported, or one in `strays`. Both only grow, so late, repeated and overwritten reports stay covered. `NoStrays` holds where the secret is set, and turns evidence into reports.
- BookingPayments (`PaidInv`): each payment a gate has read is backed by the row of that payment and its evidence, and a confirm that is past its gate has a payment that satisfied some price the service had. The component invariants enter through `BookingsInside` and `PaymentsInside`.
- Notifications (`IndexInv`, `RunInv`): what the index shows exists, and a dispatcher about to save sent has handed the message over. For `SettledSticks`, `AloneInv` (two dispatchers at one notification contest it) and `ClaimInv` (a notification nobody contests is still scheduled while a dispatcher is at it, since nobody else could settle it). For `AtMostOnce` also `OnceInv`: a message that went out, of a notification neither contested nor unsaved, went out once, and its row is settled or about to be.
- Bookings, histories (`HistoryInv`, for `CalendarImplemented`): `WindowInv` (stored bookings are finitely many and never change their window, nor do their index items), `MetInv` (requests that both have yet to write have met), `FreshInv` (the copy a lifecycle handler holds is the row, or the booking was moved twice) and `CheckInv`: what stands in the way of a request that reserves a slot is `Seen` by it or was put there by a request it met. `Seen(r, d)` says that `r` has found a clash and is going to be rejected, that `d` is still to come in its pages, or that `r` could not see it and has it in `overlooked`; past the check only the last is left. That `Seen` survives a page is `SeenReading`: a page takes the first items of what is left (`PageIsInitial`), so a competitor is in it, hidden, or beyond it, and at the last page there is nothing beyond. Whoever writes a competing booking while `r` is under way has met it (`DisputedAtWrite`). So the transaction and the save are the calendar's `Book` and `Move`, a write adds no dispute, and all other calls are stutters or disputes (`CalendarStep`). No assumption on lag, on the number of requests, on pages or on instants is left.
- Bookings, confirms (`ConfirmInv`, for `NeverDoubleConfirmed`): of two confirms of competing bookings that never ended, at least one has the other's booking still to come, or has overlooked it. A confirm reads its own row before its first page, so the one that begins second begins when both are stored, and from then on `SeenReading` applies.
- Payments, creates (`CreateInv`, for `ImplementsIdempotency`): as long as a create has not passed its transaction there is no payment with its id, so a bound key is bound to somebody else's; after it the key is bound to its own payment; a key that is bound names a stored payment. No webhook disturbs this, because it only overwrites rows that are there.
- Catalog (`CopyInv`, `RowInv`): if the row no longer shows what `r` did, some patch in the row's log held its copy at that moment (is in `race[r]`). That a save keeps this rests on the copies: a copy that misses what `r` did is held by a request in `race[r]`, or has one in its own log.
- Catalog, lists (`ListInv`): what a client has got has no row twice and none from behind its cursor; every row before the cursor that was there and active throughout is in it; and such rows still show in the table and in the replica alike, so whichever of the two the next page is read from has them. A page is then the next rows in the order of their keys, however many the filter takes out. Rows are assumed to be finitely many, since a query sorts them.
- Customers (`CleanInv`): a handler in `clean` (the index it looked at was up to date, and no customer was written since) that is about to insert or save has a phone no other row holds. `DuplicateNeedsOverlap` alone says nothing of the writer's look-up.
- Conversations: `Shape` says what each call of a handler has in hand (customer, conversation, message); `TableInv` that a handler before its transaction has made no conversation and one after its index read goes to the conversation the index names; `MessageInv` what a handler has recorded and booked at each call; `MarkerInv` that at most one delivery of a message with an id took its marker, and exactly one if the message is no orphan. The last two make a message's records and booking those of one handler.
- Scheduling, reads (`MomentsInv`): each row the request has read is that of a moment at which it ran, and as long as there were two moments only, they differ in one row. Three reads over two such moments agree with one of them, so a torn answer has seen two changes. `AskInv` says that the slots of an answered request are `BuildSlots` of what it read, of finitely many valid rules and a positive slot length, which leaves a pure question about the algorithm.
- Scheduling, algorithm: the rules' segments on a day lie in the window (`Segments`); the merge loop keeps a list that is ordered, disjoint and holds the same instants as the segments absorbed (`Tidy`, `Among`); cutting stays inside an interval (`Cut`). Intervals of different days do not meet if no midnight is nearer to the skipped local times than their number (`KeepsMidnight`), which gives `SlotsDisjoint`; with all midnights there (`HasMidnights`) the day loop visits every day of the window (`Visits`), which gives `SlotsMatchReference`. Both hypotheses hold of zones without a change of offset and of those that change it by an hour at two or three in the morning; `slots_overlap.cfg` and `slots_midnight.cfg` show that neither can be dropped. What the loops do for every input is proved by the least counterexample: the set of steps at which the loop invariant fails is a set of natural numbers, and its least element contradicts the step before it.
- RateLimiter: `Owned` says that a client's requests are counted by the one visitor the map has for it, and `Timely` that no stamp and no window is of the future and nobody is slower than `Lag`. From these `WindowsHold` counts: the passed requests of a client from any moment on are no more than `Max` for each of `k` windows before the current one, plus the current count, and those `k` windows take `k * Window` ticks, late stamps included. A window that fits into one window's length leaves room for `WindowsMet` of them, which gives `PassesBounded`. `CountsPassed` says that what a visitor counts did pass, not long before its window, which gives `RefusalEarned`.

Only model-checked: the liveness properties (`EveryRequestAnswered`, `DueIsSettled`), since the provers know neither fairness nor `ENABLED`; that `NoDoubleBooking` and the properties of the configurations run by hand fail; and that the hypotheses of the theorems about slots (`KeepsMidnight`, `HasMidnights`) are needed, which is what those configurations show. Every other property of the passing runs is a theorem.

## 5. Not modelled, and the plan

- Left out for good: routing, headers and error documents (`router.go`, `middleware.go`, `problem.go`), the Twilio signature check and answer, the outbound stub, Terraform. They keep no state; what they decide appears as replies and as the environment (indexes, timeout).
- Reads that change nothing (gets, lists of bookings, payments, notifications, customers and messages) are left out; the lists of Catalog stand for the cursors.
- The wiring (`cmd/api/main.go`) keeps no state either; its created hook is `Remind`.
- In `Scheduling`, the parsing of times of day and of zone names; an unknown zone is UTC, as in the code. Slots do not look at bookings, neither in the code nor in the model.
- In `RateLimiter`, the requests that are let through uncounted, and the memory of the visitors, which the code never frees.
