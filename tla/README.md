# A verified model of the marketplace

This directory models the server of Authentik HK / Certifine, a consumer-to-consumer
marketplace in which an independent authenticator may examine an item before the
seller is paid. The models follow `apps/api/src` (a NestJS API on Prisma and
Postgres), `apps/api/prisma/schema.prisma` and `apps/mock-stripe/server.ts`. Paths
below are relative to the repository.

## 1. The system

| Part | Code | State it keeps | Operations |
|---|---|---|---|
| Orders | `apps/api/src/orders/orders.service.ts`, `orders.cron.ts` | row of `Order` (18 statuses, escrow and custody flags, verdict, photo rounds, deadlines), evidence rows | checkout, double confirm, four delivery flows, verdicts, disputes, three sweeps |
| Payments | `apps/api/src/payments/payments.service.ts`, `stripe-adapter.ts`, `stripe-webhook.controller.ts` | rows of `Payment`, `Order.activePaymentId`, `Order.escrowHeld` | create intent, confirm at the mock, webhook events, capture, cancel a hold |
| Gateway | `apps/mock-stripe/server.ts` (stands in for Stripe); in `stripe-adapter.ts` a mock in the API's own process | intents, the events it still has to deliver | confirm, capture, cancel, refund, post and repost webhooks |
| Back office | `apps/api/src/admin/admin.controller.ts` | roles, statuses of authenticators | force refund, release escrow, resolve dispute, payouts, listings, roles, applications |
| Listings | `apps/api/src/listings/listings.service.ts` | row of `Listing` (status, price, pending drop, anchor), rows of `PriceChange` | publish, edit, remove, restore, promote price drops |
| Offers | `apps/api/src/offers/offers.service.ts`, `offers.cron.ts` | rows of `Offer` | propose, counter, accept, reject, withdraw, two sweeps |
| Wallet | `apps/api/src/wallet/wallet.service.ts` | rows of `PayoutMethod`, `PayoutIntent`, `PayoutRequest`; timers in memory | balance, two-step requests, simulated transfer, rehydration |
| One-time codes | `apps/api/src/auth/auth.service.ts` | rows of `EmailOtpRequest` | issue within a limit, verify, consume |
| Messages | `apps/api/src/messages/messages.service.ts`, `messages.gateway.ts` | conversations, messages with read flags, socket rooms | join, post, read, broadcast |
| Conversation pane | `packages/ui/src/components/conversation-pane.tsx` | what one window shows, optimistic entries, what it waits for | connect, load, switch tabs, send, retry |
| Authenticators | `apps/api/src/authenticators/authenticators.controller.ts` | applications, profiles, branches | apply, withdraw, review, approve, suspend, remove |
| Domain rules | `packages/domain/src` | none | price tiers, fees, whose turn an order is |

**How they interact.** Every HTTP handler reads rows with Prisma, checks them, awaits,
and then writes by primary key. Postgres runs at READ COMMITTED, so a `$transaction`
block is atomic but nothing read before it is locked. Only some sweeps and a few claims
repeat their check in the `WHERE` clause of the write. The order handlers call
`PaymentsService.captureForOrder` and swallow its errors; payments and the back office
call the gateway; the gateway calls back through webhooks, which it retries and may
deliver late or twice. With `STRIPE_MODE=mock`, which `docker-compose.deploy.yml` (60,
153) sets for production and UAT, there are no webhooks: the page calls
`POST payments/:id/confirm-mock` and `confirmFromMock` writes what an event would have
written. `OrdersCron` and `OffersCron` run sweeps on timers and log their
errors. An order reads its accepted offer and its listing; offers, orders, sellers and
the back office all write the listing's status. The wallet counts completed orders.
Approving an application gives its user a role, and an order picks its authenticator
from the active ones. Messages are never read back by the flow of an order.

**What is hard about it.**

* *Interleaving.* Two handlers that both read `SHIPPED_TO_BUYER` both write. The last
  write wins, whatever the status has become.
* *Partial failure.* A capture, refund or void is a call to the gateway followed by a
  write; either may fail, and the process may die between them.
* *Ordering.* Webhooks arrive in any order relative to the API's own calls; a pane hears
  of one message over its socket and in the answers to its own requests.
* *Time.* Four deadlines of an order, two of an offer, 48 hours of a price drop, and the
  timers of a payout are served by sweeps, readers and timers, each with its own check.
* *Restarts.* A payout's timers live in the process and are made anew from the rows.
* *Paying again.* `confirmFromMock` asks who the buyer is and not what became of the
  order: a late or repeated call makes any order `PAID`.
* *Many paths to one end.* Ten handlers complete an order, five refund it, and all four
  delivery flows share one status column.
* *Several actors, one listing.* A listing is locked by a double confirm, by an accepted
  offer, or not at all, depending on how the buyer pays.

`PROJECT.json` lists forty such hazards at their lines, each with the properties that
would catch it going wrong.

## 2. Modules

| Module | What it is | Extends |
|---|---|---|
| `OrderFlow` | one order with its listing, active payment, gateway intent, deadlines and requests in flight | |
| `Deal`, `OrderDeal` | the abstract promise of an order; the mapping by which `OrderFlow` implements it | `OrderFlow` |
| `OrderRules` | whose turn it is, by the rules the pages share | `OrderFlow` |
| `OrderFlowClaims` | statements of comments that the code does not keep | `OrderFlow` |
| `OrderFlowProofs` | theorems that hold however requests overlap | `OrderRules` |
| `OrderDealProofs` | theorems of the order that takes one request at a time, beside the sweeps or alone, the refinement among them | `OrderDeal`, `OrderFlowProofs` |
| `Reservation`, `ReservationProofs` | one listing, everybody's orders and offers on it; proofs | |
| `Negotiation` | the offers of one conversation | |
| `PriceDrop` | the price of one listing and its log | |
| `PriceProofs` | theorems about both ways of settling a price | `Negotiation`, `PriceDrop` |
| `PaymentFlow`, `PaymentProofs` | all payment rows and intents of one order until it is paid or expires; proofs | |
| `Wallet` | accounts, intents, codes and requests of one user | |
| `Payouts` | what becomes of requested payouts, across restarts | |
| `WalletProofs` | theorems about both | `Wallet`, `Payouts` |
| `LiveChat`, `LiveChatClaims`, `LiveChatProofs` | the conversations of one order and the panes that show them; a claim; proofs | |
| `Staff`, `StaffProofs` | roles, applications, authenticators; proofs | |
| `MCOrderFlow`, `MCReservation`, `MCWallet`, `MCServices` | instances for TLC | |

### How the models are built

**Read, then write.** In every module a request takes at least two steps, because that is
where others get in: a *read* that passes all the checks of the code, and a *write* that
repeats only those the code's `WHERE` clause repeats. What a request has read and still
needs is kept in `inflight[r]` (`OrderFlow`), `busy[s]` (`Reservation`, `Wallet`) or a
set of requests (`asks`, `jobs`, `requests`, `tasks`, `calls`, `fetches`). Handlers that
call the gateway have a step for the call and another for what they write afterwards.
Requests may die between any two steps (`Fail`, `Die`).

**History variables.** Since most writes are unguarded, most promises fail under some
interleaving, and a property that simply failed would say nothing more. So a module
keeps a history variable that names the events after which its promise may fail (`slip`,
`stale`, `causes`, `mishap`, `mishaps`, `crossed`, `outdated`, `slipped`). A write whose
check would no longer pass is one of them. `~stale => P` then says that *nothing else*
breaks `P`. No action depends on a history variable, except that a run may stop at its
first event (`GO_ON`, `TALK_ON`, `FLOW_ON`, `STAFF_ON`, all `FALSE` in the runs): what
comes later satisfies the implication anyway. The theorems hold for both values. So it is
with `order.repaid`, the one history in `OrderFlow`, and `SECOND_LIFE` (below).

### OrderFlow

The state is the part of the database one order depends on. `plan` is what the buyer chose
at checkout (delivery method, authenticator or not, tier, way of paying) restricted by the
matrix of `createFromListing` (`LegalPlans`), and whether the server's gateway is the
mock; the constant `Plans` says which of these a run considers. `order` is the row;
`handoverHistory` is reduced to the outcome of each round. `clock` holds the four
deadlines as `UNSET`, `RUNNING` or `ELAPSED`. `payment` and `intent` are the active
`Payment` row and the intent it points to; `events` are gateway events that may still be
delivered, any number of times. The mock posts none, cancels what was charged, captures
twice, and keeps no record of a refund (`Posted`, `Voided`, `Capturable`, `Refunded`).

`ConfirmFromMock` makes the order `PAID` and held in escrow whatever it was. When it was
past that already, `order.repaid` remembers it: the order then lives a second time, with
the photo rounds, the verdict, the credit and the custody of its first life, and the
properties about these are stated for the first. A run with `SECOND_LIFE = FALSE` lets no
request start after that.

`OVERLAP = FALSE` lets only one slot be busy at a time: the code's checks were written for
this case. `OVERLAP = TRUE` is the server as it runs; with a single slot beside `CRON` it
is a server whose requests on one order (of the parties, webhooks, the back office) come
one after the other, while the sweeps run on their timers regardless. Left out here: other
orders on the listing (`Reservation`), other intents of the order (`PaymentFlow`),
`resolveDispute`, which is `forceRefund` or `releaseEscrow`, and who calls: the model lets
any request come, the code lets one party send it. A party that is never online is the
case where the request does not come.

`OrderRules` adds the definitions of `order-rules.ts`, the file that tells the pages whose
turn it is, and compares them with the handlers: `MayRequest` lists the requests each
party may make, by the named guards (`MayMarkPaid`, `MaySubmitVerdict`, ...) with which the
handlers of `OrderFlow` begin.

### Reservation

`orders` and `offers` are the rows on one listing; an order's life after payment is one
step (`CloseOrder`), an order's age is `DRAFT`, `OLD_DRAFT`, `RUNNING` or `ELAPSED`.
`Conflict` and `Grabs` are the two halves of `confirmReview`: the query for another order
that wins, and `updateMany WHERE status = ACTIVE`. `Unclaimed` is the lookup of
`sweepPaymentDeadlines`, which finds an offer's order by price alone. Nothing in the rows
says *for whom* a listing is reserved; the history variable `holder` does. `slip` has nine
values: an order past its deadline that was not swept yet (`UNSWEPT`), an accepted offer
passed over (`OFFER_HELD`), a removed item confirmed (`REMOVED_ITEM`), an offline order
paid unconfirmed (`UNCONFIRMED`), a check outlived (`STALE_CHECK`), a reserved item taken
down (`TAKEN_DOWN`), an order revived by a late card (`REVIVED`), an accepted offer
expired by its own acceptance (`LAZY_EXPIRY`), an item left to nobody (`LEFT_BEHIND`).

### Negotiation, PriceDrop

`Negotiation` is one thread of proposals and counters. `Create` is the transaction that
answers the parent and makes the child with the round number counted earlier; expired
offers are found by readers, by the acceptor and by the sweep, and none of them writes
under that condition. An acceptor who comes after the age limit has the offer expired
whatever its status, since `acceptOffer` looks at the age first; that takes no second
request, so it is an exception in `AnswerStands` and no crossing. `sweepExpiredOffers`
updates many rows in one statement; row by row is the same, since each row is one the
statement selects and no property relates two of them. `PriceDrop` has `update` (a raise
at once, a drop pending for 48 hours) and `promoteExpiredDrops`, which any reader starts.

### PaymentFlow

`rows` and `intents` grow with every checkout: a page that is refreshed replaces the
intent of a pending row (`ReplaceIntent`), one after a declined card makes a new row. The
buyer may confirm any intent whose secret was handed out. `cancelHold` and the sweep call
the gateway row by row and then write. The gateway posts an event until somebody
acknowledges it. An event it gives up on after three attempts is left out: nothing in the
code makes up for one. Where `bill.mock`, the buyer confirms through `confirmFromMock`
instead (`AskToConfirm`, `ConfirmAtMock`, `WriteConfirmed`, `WriteDeclined`), which
confirms an intent in any state and pays the order in any state. `Die` ends a request
between two steps.

`causes` names what the two promises cannot survive: writes that crossed (`CROSSED`), an
intent paid on a page whose row has another by now (`OLD_PAGE`), a call the gateway did not
answer (`GATEWAY_ERROR`), a new intent after the sweep (`LATE_INTENT`), a charge before the
void (`LATE_CHARGE`), a hold the sweep voided (`VOIDED_PAID`), a declined card's intent
left open by the sweep (`DECLINED_OPEN`), a second confirmation that was declined
(`DECLINED_PAID`), a cancellation that died before it cleared the escrow flag
(`CANCEL_DIED`), a confirmation that died between the mock and the rows
(`CONFIRM_DIED`).

### Wallet, Payouts

`Wallet` follows both uses of a code, drawing money and adding an account: the first
request freezes what is asked in an intent and mails a code, the second checks the code,
spends it, spends the intent and acts, each in a step. Sums over rows are numbers of units
(`SumOf` is the cardinality of `Units`, `Outstanding` that of what is `Drawn`), so that
the library's facts about finite sets apply to them. `Payouts` starts where it ends: two
timers per payout, `Crash`, `Rehydrate` (`onModuleInit`), and the back office. While the
process runs, a timer due at 3 seconds is taken to write before 8 seconds have passed;
after a restart both may be due at once, and the final one may look first (`GAVE_UP`).

### LiveChat

`messages` and `readBy` are rows, `rooms` the gateway's, `inbox[u]` the events on their
way to a pane in order, `calls` and `fetches` its requests over socket and HTTP, `pane`
and `draft` what it shows. One conversation has all parties, one is private to two of
them. A message goes to the room (`SendEmit`), and then, once the parties were looked up
(`ConversationParties`), to every socket of theirs but the sender's (`Audience`). When
that lookup fails the sender is answered as if nothing had been stored (`FailToTell`),
which the history calls `UNTOLD`. A join loads the messages, and marks them read, before
it enters the room. The answer to a fetch replaces the list (`FetchApply`). Conversations
exist before they are used; presence, typing, read ticks and the delay of animations are
left out.

### Staff

`setRoles`, the forms of applicants, approval (a transaction that writes roles and makes
the profile), suspension and removal with its count of orders in progress, and the order
that picks an active authenticator.

`MCServices` checks the six small modules in one run. A behaviour picks one of them in
its initial state (`focus`) and works it while the others rest: the run's states are the
sum of theirs.

## 3. Runs

All runs set `CHECK_DEADLOCK FALSE`: orders end, listings are sold, every payout settles,
and the counters of the instances run out.

| Run | Instance | Shows |
|---|---|---|
| `order_serial` | all methods and ways of paying, tier 2, both gateways, second lives too; 1 re-photo request, 1 round in the log; no overlap | `ImplementsDeal` and `CreditedOnce` under failures |
| `order_sweeps` | one request at a time and the sweeps overlapping; tiers 1 and 2; both gateways; 2 re-photo requests, 3 rounds | types, five properties that survive any race, five that survive the sweeps |
| `order_deadlines` | parcels paid online at either gateway, handovers paid in cash with two rounds; overlapping, fair sweeps | the deadlines of drafts, payments, sellers and parcels are always served |
| `reservation` | 2 orders, 2 offers, 3 of them at a time, 2 requests in flight, 2 prices | one item is promised to one buyer, unless a named slip occurred |
| `wallet` | 2 intents, 2 accounts, 2 codes, 2 requests in flight | codes and intents are spent once; money and accounts stay in order unless a check was outlived |
| `services` | `Negotiation`, `PriceDrop`, `PaymentFlow`, `Payouts`, `LiveChat`, `Staff`, one at a time | the thirteen properties of these modules, one of them liveness |
| `claim_*` | small instances of the same modules | six comments that the code contradicts (section 5) |

**`order_serial`.** `ImplementsDeal` and `CreditedOnce` (nine handlers complete an order,
each counts it once; an order paid a second time may complete a second time). Both need
that nothing overlaps, not even a sweep: a dispute that read the order before the T+3
sweep completed it writes `DISPUTED` over a completed and counted order
(`claim_auto_complete`).

**`order_sweeps`.** `OutcomeMatchesListing`, `WaitingHasDeadline`, `FlowMatchesMethod`,
`VerdictRestsOnEvidence` hold under any interleaving, because status and listing are
written in one transaction, because a status that waits is written with its clock,
because `plan` never changes, and because evidence is never deleted. `TurnsFit` (an order
in progress is on the list of somebody the server lets act, or a clock will move it)
speaks of the rows alone and holds as widely. `FlowMatchesMethod` has one exception: a
`MEETUP_DIRECT` order may be sent as a parcel, since `shipToBuyerDirect` ("SHIP only")
asks for the absence of an authenticator and not for the delivery method.

The other five hold because of how the sweeps write: `PhotoRoundsAddUp` (the trail of
photo rounds and the counter agree), `RowNeverOverstates` (no payment row claims more than
the gateway has; the mock keeps no books to compare with), `DisputeFreezesOrder` (only the
back office ends a dispute, and only a confirmation at the mock interrupts it),
`CustodyEndsInHandover` and `CaptureNeedsVerdict` (authenticated items are not paid for
before the verdict). A sweep repeats its status check in the transaction that writes,
never touches the rounds, and takes only orders that are not in custody; so a request that
read before the sweep and writes after it moves the order back, and yet breaks none of
these. Two requests that race break every one of them, since their writes do not repeat
the check; there they are promises of the parties' taking turns, not of the code. And a
confirmation at the mock needs no race at all: it takes an order out of custody, dispute
or completion, with the rounds still recorded. So `PhotoRoundsAddUp`,
`CustodyEndsInHandover`, `CaptureNeedsVerdict` and `CreditedOnce` are about orders that
were not paid a second time, and the refinement has a step for it (section 4).

**`reservation`.** `OneClaim`, `ClaimHoldsItem` and `ReservedHasOwner` hold while
`slip = NONE`; `PaidNeverLapses` holds always: it rests on the sweep's write, which repeats
its check.

**`wallet`.** `IntentRunsOnce` and `RunsBackedByCodes` hold always (the guarded update of
`consumeIntent`, and the order in which code and intent are spent). `CodesAreBounded`,
`NeverOverdrawn` and `AccountsInOrder` hold while `~stale`.

**`services`.** `OffersInTurn` and `AnswerStands` (negotiation), `LogMatchesListing`
(prices), `MoneyOnRecord` and `ExpiredKeepsNoMoney` (payments at rest),
`PayoutLife` and `EveryPayoutSettles` (payouts), `PairStaysPrivate`, `PaneUpToDate` and
`TextsSettle` (panes), `SuperRemains` and `AuthenticatorsFit` (staff).

**Bounds.** *Orders:* one request slot beside the sweeps' slot, since the properties
relate the sweeps and one request at a time; for the properties that survive any race the
theorems lift the number of slots. `MAX_REPHOTO = 2` is the code's own constant and three
rounds are all it allows. Tier 2 and tier 3 differ only in whether an authenticator is
required, so the runs leave tier 3 out. `order_serial` uses one tier and logs one round,
since neither the deal nor the credit tells holds from charges or one round from two; in
exchange it follows an order through any number of second lives. `order_sweeps` and
`order_deadlines` stop at one: what `order_sweeps` states is about the first life or is
proved of the later ones too (section 6), and `EveryDeadlineServed` is checked of first
lives only. *Reservation:* three claims are enough for an order by an offer, a rival
order, and a rival offer; two requests in flight are enough for any check to be outlived;
two prices are enough for the sweep to take one order for another. *Wallet:* two payouts
that together exceed what was earned, `CODE_LIMIT = 1` and `MAX_ATTEMPTS = 1` (3 and 5 in
the code) so that both limits are met. *Services:* two offers and three requests; three
price changes and two jobs; two intents and two requests at either gateway; one payout
(nothing relates two) and two crashes (a crash during the wait after a crash); one text
with two tries, one disturbance, a drawer and a page of different parties (a text sent
again from another tab takes three: a tab opened, an answer that times out, a tab changed;
that case rests on the theorems, which hold for any number); two users, one of them an
applicant with two forms. The role sets left out of `RoleSets` are combinations that no
guard tells apart.

**Fairness.** `OrdersCron` runs its sweeps on timers from start-up on and catches their
errors, so a sweep that failed is tried again at the next tick: each step of a sweep gets
strong fairness. It may fail, and it may find the order busy, but not every time. In
`Payouts` time passes, a timer that is due fires, and a process that went down is started
again: weak fairness for each, since nothing disables them but a crash, and crashes are
bounded. No party, webhook, or back office is assumed to act. `LiveChat` states no
liveness: its properties are about panes at rest (`Quiet`), which needs no scheduler.

## 4. Refinement

`Deal` has the state of the deal, that of the item, and a constant flag for the mock, and
six actions. The mapping sends the row's status to the state of the deal and the listing
to the item. A deal ends once; where payments are a mock, `Reopen` opens any deal again
and leaves the item alone, which is what `confirmFromMock` does to it. Two places were not
obvious beforehand: a lapsed order can still be disputed and then ended by the back
office, so `Freeze` starts from `lapsed` too; and a draft dropped after 24 hours leaves
the listing to whoever reserved it, so `Lapse` may keep the item. The run `order_serial`
checks the refinement for one slot; `OrderImplementsDeal` proves it for any slots and
bounds under `OVERLAP = FALSE`. Without that hypothesis it is false: `claim_auto_complete`
shows a completed order that becomes disputed.

## 5. What the code does otherwise

Refuted by a run:

* `claim_auto_complete`: a dispute whose check came first overwrites an order the T+3
  sweep has completed. The comment says the sweep re-checks, so that the two cannot race;
  `disputeShip` does not.
* `claim_expired_unpayable`: the payment sweep voids intents whose row is `PENDING_AUTH`.
  A declined card makes the row `FAILED` while the intent stays open. The order expires,
  the item is back on sale, and the next card is charged.
* `claim_refund_money`: a failed verdict in custody "refunds the buyer immediately" by
  setting `REFUNDED`. A buyer charged at checkout (tier 1) is not paid back, and force
  refund refuses an order that is already `REFUNDED`.
* `claim_cash_out`: an order completed by `releaseEscrow` never gets
  `cashoutEligibleAt`, and the seller's wallet keeps it pending.
* `claim_disputed`: `DISPUTED` is called a "frozen state, external legal resolution".
  `confirmFromMock` does not look at the order's status, so the buyer's second
  `confirm-mock` makes a disputed order `PAID`. It does the same to completed, refunded,
  expired orders and to those whose item is in the shop; the runs of the orders show what
  else goes with that (`repaid`).
* `claim_typed_where_shown`: switching tabs is said to route messages to the active tab.
  The join it causes starts a load for the conversation the pane was opened with; its
  answer sets the conversation back while the tab keeps its name, and what is typed next
  goes to the other conversation.

Met while modelling, and visible in a history value or a definition rather than in a run
of its own:

* `wallet.service.ts:325` calls the balance check "atomic"; it is a read followed by a
  write (`NeverOverdrawn` needs `~stale`). `LOCKED_STATUSES` (39-53) misses five statuses
  in which money is held and names some that do not exist.
* `acceptOffer` looks at the age of an offer before its status, so accepting twice turns
  an accepted offer into an expired one, and no sweep puts its listing back
  (`LAZY_EXPIRY`). An offline draft may be marked paid before it was confirmed
  (`UNCONFIRMED`), although `docs/qa/scope/backend/orders-checkout.md:47` has the
  confirmation lock the item.
* A page left open over a refresh of the checkout can still pay its old intent, whose
  event no row answers to (`OLD_PAGE`); the sweep may void a hold that has just been
  confirmed (`VOIDED_PAID`). `cancelHold` that dies after the rows leaves an order in
  escrow with no money (`CANCEL_DIED`), and no sweep looks for one.
* `shipToBuyerDirect` is commented "SHIP only" and takes `MEETUP_DIRECT` orders.
* `handleSend` answers `ok: false` for a message it has stored when the parties cannot be
  looked up; the user sends it again and it is stored twice (`UNTOLD`).
* A pane opened by an order's id joins only the order's room, so it never hears its own
  message and its entry stays "sending" (`TextsSettle` is about the other panes).
* A text that was stored although its acknowledgement timed out can be sent again from
  another tab, and is then stored in both conversations. Its one entry says "sent" and
  stands for the second; the first tab does not show its row until it is loaded again.
  Hence the exception for `TIMED_OUT` in `Unsent`, which `PaneUpToDate` uses.
* `AUTH_FAILED` is on nobody's list and no timer moves it (the exception in `TurnsFit`).
* `approveAuthenticator` accepts rejected and withdrawn applications, which the schema
  calls final. Removing an authenticator counts `PAYMENT_EXPIRED` orders as in progress.
* `LISTING_SOLD`, a reason for cancelling a price drop in the schema, is never given; a
  seller cannot cancel a drop by entering the current price again.

## 6. Proofs

Every theorem holds for all values of the constants (any number of slots, orders,
payouts, intents, users, panes, texts, any limits) under the module's own assumption. The
theorems of `OrderDealProofs` have one hypothesis more: `OneRequest` (handlers may overlap,
but then there is one slot beside the sweeps'), and for `CreditOnce` and
`OrderImplementsDeal` `~OVERLAP`, which implies it. `PROJECT.json` lists them.
`order_sweeps`, `order_serial`, `reservation`, `wallet` and `services` check the same
formulas on their instances.

| Module | Theorems | Inductive invariant |
|---|---|---|
| `OrderFlowProofs` | types, `OutcomeMatchesListing`, `WaitingHasDeadline`, `FlowMatchesMethod`, `VerdictRestsOnEvidence`, `TurnsFit` | `IInv` |
| `OrderDealProofs` | under `OneRequest`: `PhotoRoundsAddUp`, `RowNeverOverstates`, `DisputeFreezesOrder`, `CustodyEndsInHandover`, `CaptureNeedsVerdict`; under `~OVERLAP`: `CreditedOnce`, `ImplementsDeal` | `SInv` |
| `ReservationProofs` | types, `OneClaim`, `ClaimHoldsItem`, `ReservedHasOwner`, `PaidNeverLapses` | `Agreement` |
| `PriceProofs` | types, `OffersInTurn`, `AnswerStands`, `LogMatchesListing` | `BidsTyped`, `InTurn`, `PriceInv` |
| `WalletProofs` | types, `IntentRunsOnce`, `RunsBackedByCodes`, `CodesAreBounded`, `NeverOverdrawn`, `AccountsInOrder`, `PayoutLife` | `Typed`, `RunIsConsumed`, `RunsPaid`, `CodesInBounds`, `MadeBeforeUse`, `Accounts` |
| `PaymentProofs` | types, `MoneyOnRecord`, `ExpiredKeepsNoMoney` | `FlowInv` |
| `LiveChatProofs` | types, `PairStaysPrivate`, `PaneUpToDate`, `TextsSettle` | `ChatInv`, `LiveInv` |
| `StaffProofs` | types, `SuperRemains`, `AuthenticatorsFit` | `Typed` with `TasksFit` |

**Orders, racing.** None of the four invariants is inductive. A handler about to write has
read a row that may since have changed, so its write needs what its check *still*
guarantees. `SlotsFit` says that of every slot: the handlers of one flow run only for
orders of that flow (`plan` is constant) and a verdict is under way only for an item with
evidence (never deleted). A read establishes `OpFits` and changes no row (`StartKeeps`); a
write needs the row to fit (`WriteKeeps`); a few lemmas cover writes that handlers share;
then one case per handler.

`TurnsFit` follows from `IInv`: `WaitingHasDeadline` covers the parcel whose deadline the
buyer may let pass, and for each status the pages list for a party, one of the guards
`MayX` of that party is true of the row (`ToldMayAct`), because `FlowMatchesMethod` keeps
the statuses of the four flows apart (`TurnTypes`, `ToldInAnyFlow`).

**Orders, beside the sweeps.** `SInv` is `IInv` with two facts, `NothingStale` and
`DbFits`.

`NothingStale` says who is busy and what each of them may still rely on. `OneAtATime`: one
slot, or one and a sweep's. `StillTrue`, of a request: the status it read is still there,
or a sweep has made of it what `Swept` says (`StillIn`), the rounds are as it read them,
the money it moved at the gateway is still moved. `StillDue`, of a sweep: much less, since
it checks the status again; but the T+3 sweep captures *before* that, so it needs that a
parcel that was under way stays one that its examination let go, whatever a request writes
in between (`ParcelOut`). Each step therefore owes something to the slot beside it:
`SweepKeeps` is what the sweeps, the buyer at the gateway and the clock leave alone, and
`Spares` what a request does; `OthersRest` turns that into `NothingStale` for the slots
that did not move.

`DbFits`: the rows agree with each other (`TrailFits` for the photo rounds, `CreditFits`
for what was credited, `ItemFits` for who holds the item, `MoneyFits` for escrow, row and
intent). These had to be weakened to what a stale write leaves true: an order a sweep
refunded may go on to `CUSTODY`, one it expired may be paid; and of an order that was paid
a second time (`repaid`) little is said, since its rows mix two lives. The action
properties and the refinement then follow handler by handler: `DealStep`, which has
`~OVERLAP` as its hypothesis, is one conjunct of what is shown of every write.

**Reservation.** `OneClaim` follows from who holds the item. `Agreement` says, while
`slip = NONE`: a waiting order is the holder of a reserved item, a completed one has it
sold, there is one completed order and a sold item has one, a reserved item's holder is a
claim that is alive, an order's offer exists, a sweep in flight has found an order overdue
(deadlines do not come back), an accepted offer is the holder or has an order at its
price. A write while `slip` stays `NONE` was still allowed (`NoteFresh`), so each case may
use its check as if it had just been made.

**Prices.** `OneOpen` replaces the cardinality of open offers by "any two are equal" and
is inductive together with the rounds, as long as no two writes crossed. For the log,
`LogFits` says that a pending row is the newest, that it is the listing's pending drop,
that the newest row in force gives the price and the oldest applied one the anchor; each
write moves one of these.

**Wallet.** First the promises with the converse of the flag as hypothesis:
`CodesInBounds` counts a code's uses by its flag, `Accounts` separates the default from
the accounts of payouts under way. Two are about sums. `NeverOverdrawn`: a payout is drawn
only after its intent was made (`MadeBeforeUse`), so a write adds the units of one intent
not drawn before, and its check bounds the sum. `RunsBackedByCodes` is not inductive: a
code is used before the intent runs. `RunsPaid` adds the requests between the two, "runs
and claims in progress together are at most the uses of codes": spending a code starts a
claim, and the guarded update of `consumeIntent` turns a claim into a run or drops it.

**Payouts.** Types are inductive and `PayoutLife` follows step by step: a timer writes
what its read allows unless the payout moved, which is the mishap.

**Payments.** The two invariants speak of states in which nothing is under way, so
`FlowInv` says what is true meanwhile. Always: no intent is on two rows (`IntentsApart`)
and what an event says of an intent is so (`GatewayFits`). Unless two handlers crossed, an
old page was used, the gateway failed or a confirmation died (`Clean`): a cancelled row
has no open intent (`CancelledAreVoided`; the mock may confirm what was void, so this is
about the gateway), and money taken is on record, or an event about it or the confirmation
that took it is still to come (`MoneyIsToldOf`). Without `VOIDED_PAID`, `CANCEL_DIED` and
`DECLINED_PAID` besides, a paid row is void only if it is being cancelled
(`PaidThenVoided`) and escrow is backed by a row (`EscrowIsBacked`). Without the three
ways for an intent to outlive its row, an expired order has no intent left that a page
could pay (`ExpiredAreVoided`, of the gateway too). `MockFits` says what a confirmation at
the mock has in hand, and that there are no events. The hypotheses are exactly the causes
the two invariants name.

**Conversations.** A pane shows what an event or an answer brings, so `ChatInv` says of
every event under way, every answer under way, every room of a socket and every request
between its check and its effect that its pane belongs to the conversation. Messages are
only ever appended (`Kept`), so what was allowed to be read stays allowed; one `Frame`
lemma carries what a step leaves alone. `PaneUpToDate` and `TextsSettle` are about panes
at rest. `LiveInv` says what is true of the others: a message a pane lacks *comes* to it
(`Comes`: by a load that has yet to read the rows, an answer with it, an event in the
inbox, or a broadcast about to be made, to the room or to the parties), one it has not
marked read is about to be marked (`Reading`), and an entry that is "sending" has a
request, an answer or an event under way that settles it (`Resolves`). At rest nothing is
under way, so nothing is lacking. That a text is stored once is `TextOnce`: unless an
acknowledgement timed out or came after the parties were not found, a text that is being
sent has no row yet, and a text that has a row is not sent again. The proof first states
for every action where requests, events, answers and rows come from and where they go;
each part of the invariant is then carried by those lemmas instead of action by action.

**Staff.** The same shape: types first, then the promise; `TasksFit` says which request
may write what.

**Only checked by TLC.** The liveness properties (`EveryDeadlineServed`,
`EveryPayoutSettles`) are out of the prover's reach.
`MCServices!TypeOK` is the conjunction of six type invariants, each of which is a theorem
of its module.

## 7. Not modelled

* Most of the repository's lines are not behaviour: the generated API types
  (`api-client/src/schema.ts`), translations (`locales/data.ts`), and the pages of four
  front-ends, which lay out what the API returns and call it. No state of the marketplace
  is decided there, so no definition stands for them. The pane is the exception and is
  modelled.
* Of the modelled services: queries, counts, search, statistics, texts of messages,
  notifications, reviews, QR bookkeeping, the columns of a listing or profile that no
  guard reads, branches and business hours, banners, uploads. They are single reads or
  writes on which no other operation depends.
* Registration, passwords and sign-in with Google: one row each, without a second actor.
* Fees and tiers are tables; `OrderFlow` takes the tier as a parameter.

## 8. What could follow

1. Proofs: every safety invariant and action property of the runs is proved. What could
   be added is what the properties of the order that takes one request at a time become
   when two requests race: the flags after which each fails, in the way of `slip`.
2. Conversations about a listing (`getOrCreateListingConversation` and its participants),
   presence, and the lists that count unread messages.
3. Several authenticators' branches and the orders that name them.
