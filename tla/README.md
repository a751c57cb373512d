# Verification of yimatong

yimatong is a multi-tenant marketing platform for consumer brands: codes on products are
scanned, a campaign behind the code offers a benefit, the consumer claims it, and a provider
(a payment channel, a coupon platform) delivers it. A FastAPI backend (`src/backend/app`) talks
to PostgreSQL, where the authority over the important rows lives in SECURITY DEFINER functions
created by the migrations (`src/backend/alembic/versions`). Python code around them polls
outboxes, calls providers and receives callbacks. This directory holds the TLA+ models of that
core, the TLC runs that check them and the proofs about them.

## 1. Inventory

| part | state | operations | what is hard |
|---|---|---|---|
| campaign and benefit authority (`u6a3d4e5f6a7`) | campaign row (status, limit), benefit row (status, stock_total, stock_used, per_person_limit, claimed_budget) | transition, update campaign, update benefit, create, attach, detach, delete | edits race with claims and refunds |
| benefit claim (`u6a3`, `u6b5c6d7e8f9`) | benefit_claims row: status, delivery_status, reservation_status, reserved_amount | claim, replay by idempotency key, redeem | stock, two limits and a budget taken in one transaction |
| claim outbox and worker (`u6a3`, `campaign_claim_worker.py`) | campaign_claim_outbox row: status, attempt_count, lease token; benefit_deliveries row | lease, complete, record, fail; poll | several workers, lost leases, a network call between reading and writing, crashes |
| connector callbacks (`u6k1d2e3f4a5`, `connectors.py`) | receipts per callback status | settle success, settle failed | late, repeated and reordered callbacks |
| connector adapters (`services/connectors`) | none of their own, the provider's | deliver, reconcile, parse callback | ambiguous answers, ids of the provider's own |
| consumer claim status (`benefit_claim_status.py`) | derived | read | must agree with the rows |
| member coupon authority (`f619a09be4c0`, `992308d73df7`, `repurchase_coupon.py`) | repurchase_coupon_rule_versions (status, issued_count), member_coupons row with its version, repurchase_coupon_events with unique idempotency keys | rule: create, publish, pause, resume, end; coupon: issue, reserve, commit, release, reverse, record a partial refund, redeem in a store, expire, revoke | orders, stores, operators and expiry race for one coupon; calls come late or again |
| external coupon wallet (`external_coupon_wallet.py`) | authority_type and sync_status of a member_coupons row | issue, confirm, mark failed, consume | delivery results and platform reports in any order |
| commerce integration (`c04d`, `c8a8`, `5e3f`, `commerce_integration.py`) | connections, inbound credentials by version, member references, sign-in handoffs, product mappings, inbox, facts of orders, refunds and attributions | connect, rotate, revoke, disconnect, name a member, issue and redeem a handoff, accept and project an event | events late, again and together; a credential revoked in the middle of a request; members that merge after they were read |
| webhook outbox (`services/webhook.py`, `tasks/worker.py`) | endpoints with a configuration version, recorded events, deliveries with a lease | edit endpoints, record, expand, lease, send, record the answer, archive | endpoints edited under an expander, crashes, leases outlived, retries |
| member notifications (`0b91`, `member_notification*.py`) | preferences, authorisations (channel grants), notifications with one delivery each | subscribe, withdraw, grant, notify, create marketing, lease, send, record | two rations counted over rows of others, consent withdrawn between lease and send, merges |
| launch releases | release rows bound to content digests | submit, confirm, go live, roll back | a release that is stale when used |
| codes and batches (`3f91`, `code.py`, `code_export.py`) | code batches, codes, export manifests, quota usage, generation receipts | generate, export, print, deliver, activate, bind, freeze, recover, void, scan, recall | two generations and a recall meet halfway; long sequences of legal calls |
| takeover of printed codes (`t3c3d2e6f7a8`, `takeover.py`) | project (status, configuration version, readiness and confirmed digests, active route), routes, their events and probes, the claim of a domain | edit, import, check the domain, confirm, record an external execution, cut over, complete, roll back, probe; resolve a public request | edits that hold no lock race with locked transitions; four rows must agree before a domain is served |
| brand membership | membership rows | join, merge | merge while coupons, references, messages are in use |
| points, GMV, quota, sessions, consents, privacy requests | single rows and counters | see `PROJECT.json` | counters at limits, replay |
| risk, channels, regional campaigns, pages, imports, CRM, analytics, frontend | mostly content and reads | | little protocol state |

How they interact: a claim and its outbox row are inserted in one transaction; workers lease
outbox rows, call an adapter and record the result; the provider calls back to the API, which
settles the same rows through a role of its own; a terminal failure gives stock and money back
to the benefit row; the consumer polls a status that is derived from claim, outbox and delivery.
A claim whose benefit an external platform grants also puts a coupon in the member's wallet, and the
worker's hooks confirm it or mark it failed. A storefront locks a coupon when an order is placed, and
commits or releases it when the order is paid or not; a store uses it over the counter; the member's
wallet expires what is past its validity as a side effect of being read. The storefront reports
orders and refunds as signed events; they name a member by a reference the member handed over at a
sign-in, and may name a coupon, whose commitments the projection checks. Paid orders, coupons and
campaigns make notifications, which a second outbox sends; everything worth telling a tenant's own
systems is recorded as a webhook event in the transaction that did it, which a third outbox expands
and sends. The same task loop polls all three. Codes are what a consumer scans; they are generated
and activated in batches, and a recall of the production batch freezes them. Codes printed before, under
another system's domain, are taken over: their domain's traffic is routed here, one route at a time.

`PROJECT.json` lists every component with its status, and every hazard with its line.
What makes each component correct is written next to the properties in the modules.

## 2. Modules

| module | role |
|---|---|
| `ClaimDelivery` | one campaign with one benefit: every claim, its outbox row, the workers, the provider and the callbacks |
| `ClaimLedger` | what the claim authority promises about stock and money, without workers or providers |
| `ClaimDeliveryProofs` | types, the inductive invariant, stock and money counted, limits, failures and deliveries explained, finality of refunds and settled successes, the refinement of `ClaimLedger` |
| `SumTheorems` | sums over finite sets: their recursion, and what one element adds |
| `MCClaimDelivery` | instances of it for TLC |
| `MemberCoupon` | coupon rules, the coupons of a brand's members, the event log, the wallet request, what a merge does to coupons |
| `CouponPromise` | what the coupon authority promises: issued within the limit, locked by one order at a time, spent by that order or without one, over for good once over |
| `MemberCouponProofs` | types, the CHECK constraints, the limit, the log, second coupons, locks and uses, the refinement of `CouponPromise` |
| `MCMemberCoupon` | instances of it for TLC |
| `MCCouponCalls` | instances of `MemberCoupon`, and one of `ClaimDelivery` |
| `CommerceOrder` | the commerce connection: credentials, references, handoffs, the inbox, the facts of orders, refunds and attributions |
| `CommerceFeed` | what the feed of orders promises: a message once and under a good key, the newest message shown, a coupon shown by one order |
| `CommerceOrderProofs` | types, newest event shown, refunds complete, orders of live members, one order for a coupon, finality of revocation, the refinement of `CommerceFeed` |
| `WebhookOutbox` | endpoints, recorded events, expanders, deliveries, workers |
| `EventCopies` | what the outbox promises endpoints: copies made once, for all who are owed one, retried within bounds, settled once |
| `WebhookOutboxProofs` | types, no listener missed, copies bounded, settled deliveries final, the refinement of `EventCopies` |
| `MemberNotification` | preferences, consents, authorisations, service and marketing messages, workers |
| `MessagePromise` | what messages promise: each paid with an authorisation of its own, ended once, stopped by a withdrawal |
| `MemberNotificationProofs` | types, one authorisation for a message, the ration, withdrawal, the refinement of `MessagePromise` |
| `CodeLifecycle` | code batches and codes from generation to recall |
| `CodePromise` | what codes promise: made once under a key and within the quota, live as a batch, recovered as what they were, silent after a recall |
| `CodeLifecycleProofs` | types, quiet after recall, kept history, generation once within the quota, the refinement of `CodePromise` |
| `TakeoverRouting` | takeover projects: unlocked edits, readiness, confirmations, route transitions, probes, the public resolver |
| `DomainHandover` | what a takeover promises a domain: led here by one approved route at a time, each once, and given back before it is led again |
| `TakeoverRoutingProofs` | types, agreement of project, route, event and claim, served domains, the refinement of `DomainHandover` |
| `MCCommerce` | instances of `CommerceOrder`, `MemberNotification`, `CodeLifecycle` and `TakeoverRouting` |
| `MCWorkers` | instances of `WebhookOutbox` and `MemberNotification` with several workers, under fairness |
| `MCCodes`, `MCTakeover` | one instance each of `CodeLifecycle` and `TakeoverRouting` |

### ClaimDelivery and the code

Each SECURITY DEFINER function is one transaction that locks the rows it reads, so it is one
action. Calls that raise change nothing; they are the absence of a step, except where Python
code reacts to the exception (`RecordRefused`, `Fail`, `FailLost`).

| variable | rows |
|---|---|
| `campaign`, `benefit` | `campaigns.status` and `claim_limit_count`; `benefits.status`, `stock_total`, `stock_used`, `per_person_limit` and `config_json.claimed_budget` |
| `claim`, `box`, `delivery`, `receipts` | `benefit_claims`, `campaign_claim_outbox`, `benefit_deliveries`, `campaign_delivery_callback_attempts`, by idempotency key |
| `provider`, `calls` | the provider: what it did under the claim's number, and the callbacks it sent; a callback may be delivered at any later time and again |
| `batch`, `job` | a worker process: leased items not begun, and the item in hand with its phase |

`poll_campaign_claim_outbox` is `Lease`, then for each item `Begin`, `CallProvider`, and
`Record` or a failure. `Begin` may fail for what it reads (connector disabled, circuit open,
recipient without consent). The lease test of the record compares `leased_until` with the time
the transaction *started*, before the provider was called; the model keeps the answer of that
test in `job[w].fresh` and tests the token again when it writes. The failure is written in a
transaction of its own, which tests both again; if that raises, nothing catches it and the poll
abandons its batch (`FailLost`).

Time is abstract: a lease expires in a step of its own, due times and callback deadlines are any
later moment. Conditions that can only refuse a claim (code and batch state, scan evidence, risk
alerts, time windows, launch release, busy locks) are left out, since the consumer may always
not claim. `ConsumerOf` stands for the identity a key is derived from. A configuration that comes
with a `claimed_budget` of its own starts with less money: `Budget` is the difference.
One campaign has one benefit: the per-campaign count is then over the same claims.

### MemberCoupon and the code

| variable | rows |
|---|---|
| `now` | `statement_timestamp()`, in days and minutes made equal: only the order of moments matters |
| `rules` | `repurchase_coupon_rule_versions`: `status`, `issued_count`; the terms that never change are constants |
| `coupons` | `member_coupons`, by id; a status `none` is an id without a row |
| `events` | `repurchase_coupon_events`: a set, since each has a key of its own; `at` is the version of the row the event left behind |
| `members` | `brand_memberships.status` |
| `open` | what a wallet request has read and not yet expired |

`mutate_member_coupon_authority` is the only writer. It takes the member's advisory lock and the row
lock, so each requested action is one action of the model. An idempotency key is `(type, coupon, ref,
try)`: what the call is, for which coupon, for which order, store or claim, and which of the caller's
fresh keys. A key already in the log returns the earlier answer (or raises a conflict) and writes
nothing, so every action requires `~Seen(...)` and a replay is a stuttering step. The issue key
is derived from the claim alone, as in the code: a claim is answered once. `Differs` is SQL's `<>`, which is
NULL when a side is NULL, and an `IF` on NULL is not taken. `GuardAllows` is the trigger
`guard_member_coupon_transition`; it is a guard of every update. Because it also compares
`membership_id`, `Merge` only succeeds for a member without coupons.

`list_member_wallet` reads without a lock and then expires the stale rows one by one in the same
transaction: `OpenWallet`, then `ExpireRead`, or `ListingFails` when another call made one of them
unexpirable meanwhile (the exception rolls the request back). A coupon whose `expired` key is already in
the log is a replay and is left out (`Remaining`).

Left out because they can only refuse a call: amounts and minimum spend, the cart and eligible products,
whether a store is open, connector checks, the audience of store tokens. Unbounded time and keys are
bounded by `MaxTime` and `Attempts`; the ids that may be used are `Coupons`.

### CommerceOrder and the code

| variable | rows |
|---|---|
| `connections`, `credentials` | `commerce_connections.status`; its inbound credentials, by version, with the times of `Usable` |
| `members`, `references`, `handoffs`, `mapped` | `brand_memberships.status`, `commerce_member_references`, one-time sign-in handoffs, product mappings |
| `judged` | the members that sessions which name one have read active, and may still name |
| `used` | what the coupon authority knows: the member of a coupon and the orders that committed it |
| `inbox` | messages accepted, each with the version of the credential it came under |
| `orders`, `refunds`, `attributions` | `commerce_order_facts` with their lines, `commerce_refund_facts`, `commerce_repurchase_attributions` |
| `requests` | an event request and what it has read |

The functions of the database are one action each, but for two. What names a member (`ensure_…_reference` and the
issue of a handoff) reads connection and membership without a lock: `ReadMember` is that read, `EnsureReference` and
`IssueHandoff` the write, any time later. `MergeMembers` wants a member who is `Movable`: the merge updates
the member's references (`0b91:172`), and the trigger on them (`c04d:202`) refuses any change of `membership_id`, as the
one on coupons does, so a member with either is never merged. An event request is not one action either: `Resolve` is the session that
looks up the credential, `ReadInbox` the one that answers a message already known, `Accept` the first
statement of the callback transaction (which locks the credential, hence `Held`) and `Project` the rest of it,
whose statements see what others commit in between; `RollBack` is any exception. So two copies of
one event, a revocation or a merge may come between any two of them. What an event says is in the constant
`Event`: order, time, version, refunds, coupon. An order is attributed again by every newer event.
`CommitCoupon` stands for the coupon authority: `MemberCoupon` has the conditions, here any active member's
order may commit. The scan behind an attribution is left out, as it only sets a grade.

### WebhookOutbox and the code

| variable | rows |
|---|---|
| `endpoints` | `webhook_endpoints`: status, enabled, events wanted, and the configuration version that stands for address and secret |
| `events` | `webhook_events`; `heard` is a history variable, the endpoints that listened at that moment |
| `deliveries` | `webhook_deliveries`: status, copied version, retries, lease token, whether due or expired |
| `expanders`, `workers` | processes: the transaction of `expand_committed_events`; the leased delivery with its answer |

`MakeDelivery` is one pass of the loop over endpoints. The trigger compares the copy with the endpoint *as it
is now*, so an endpoint edited after it was found makes the insert fail and the whole expansion is done again.
An attempt is `Lease`, `Send` with no transaction open, and `Record`, which asks for the token
but not whether the lease is over; the model lets the late answer of a lease nobody took again count, as the
code does. The queue in Redis only brings a poll forward and is left out.

### MemberNotification and the code

| variable | rows |
|---|---|
| `consents`, `preferences`, `grants` | `consent_records.status`, member notification preferences, channel grants |
| `deliveries` | a notification with its delivery, by the event that made it |
| `checked` | the transaction that holds a member's preference row: subscribing, or creating marketing |
| `workers` | a sender: leased, sending, sent |
| `day`, `merged`, `faults` | the date in Shanghai, memberships merged, workers lost or slow so far |

`BeginSubscribe` and `BeginMarketing` lock the preference row and read the consent; the consent may be
withdrawn before the transaction goes on. `Lease`, `Snapshot`, `Send` and `Record` are four sessions; the
first two test consent again. The trigger on preferences and the one on consents stop what is open and revoke
the authorisations. The weekly ration looks back 7 x 24 hours in the code and a number of days in the model:
both count the deliveries made since a moment. Times of day are the choice `quiet`.

### CodeLifecycle and the code

| variable | rows |
|---|---|
| `batches`, `items` | `code_batches.status` with the key and the exported manifest; `code_items`: status, status before a freeze, bound, scanned |
| `recalled`, `today` | production batches: recalled; the date against which they expire |
| `usage`, `receipts` | `tenant_quota_usage.codes`; generation receipts by idempotency key |
| `requests` | a generation and how far it is |

A generation takes its locks one after the other (`Claim`, `Reserve`, `Generate`), everything else locks at
once and is one action; `Busy` is the production batch being locked by a generation. Conditions the Python
code tests and those of the triggers are both in the guards. What a manifest says of its codes is kept, their
text is not. Pairs are in `PairId`: `Deliverable` compares ids of pairs with ids of codes, as the code does.

### TakeoverRouting and the code

| variable | rows |
|---|---|
| `projects` | `takeover_projects`: status, configuration version, the readiness snapshot with its digest, the confirmed digest, the active route |
| `facts` | what readiness is computed from: aliases imported, an import that succeeded, the last domain check and whether it is of the last 15 minutes |
| `routes` | `takeover_routes`: status, confirmed digest; the number and the action of the latest of its events |
| `claims` | the claim of a domain: project, route, event, state |
| `last`, `proved` | how many events a project has; routes whose latest event has a fresh passed probe |
| `probing`, `calls` | probes under way, with the event they look at; edits under way, with the row they read |

`transition_takeover_route` locks project and route and is one action for each of its transitions. Everything
else that writes a project (`Assess`, `Update`, `Import`, `Inspect`, `ConfirmProject`) is an ORM session that
read the row without a lock: `Read` keeps what it saw and `Written` is the UPDATE, which sets only the columns
that differ from that. `Guard` is the trigger that refuses such an UPDATE in an operational project. A
confirmation of a route also reads (`ReadRoute`) before it locks, and writes both rows at once. A digest is the
record of what is hashed. `FinishRollback` is the probe that passes and the last transition, which share a transaction; a probe
recorded for an event that is not the latest is dropped.

Each call has an idempotency key of its own, so a repeated one is a stuttering step. The ageing of a
probe or a check is a step. The domain of a project does not change, routes exist as candidates, and the facts of readiness that
only another page can change (monitoring, fallback, samples) are taken to be there. `Sound` says what a
domain, a route and NULL are.

## 3. Runs

| run | instance | shows |
|---|---|---|
| `claim_race` | 1 cash claim, 2 workers, 3 attempts, reconcile, provider ids of its own, fairness | `IInv`, a settled success is final, a refund is final, a claim shown failed keeps money only if a store used it or the provider took it back, `ClaimLedger` is implemented, retries end |
| `claim_money` | 3 claims, 1 worker, 1 attempt, lucky amounts, minimum 2, budget 5, stock 2, a campaign that is paused but not ended | the counters on the benefit row equal what the claims hold, lucky amounts never run the budget dry, nothing is shown delivered that was not granted |
| `claim_monotone`, `claim_stranded` | 1 cash claim, 2 workers, 2 attempts | two of the disagreements below |
| `coupon_calls` | 1 online rule with 1 coupon to give, valid 2 units, time to 3; either 2 members, claims, orders and wallet requests, one of each with 2 keys for every call and time to 2, or (`plain`) 2 claims of one consumer without connector, 1 worker, limits and stock 1 or 2 | a discount is in use at most once and its row names the order, every version has its event, a late lock call never takes a released coupon, `CouponPromise` is implemented (no rule issues past its limit); limits hold at every claim |
| `coupon_assets` | 1 rule for both channels with a fixed window; 2 coupons, own or external, of 1 member with 2 claims, or 1 coupon asked for again and a merge; 1 order, 1 store, 1 wallet request, time to 2 | types, CHECK constraints, unconfirmed coupons are never used, two active coupons only after a refund |
| `coupon_store_refund`, `coupon_merge` | 1 store and 2 orders; 2 members | two of the disagreements below |
| `commerce` | nine instances, see below | order rows show the newest event, refunds add up, nothing is accepted after a revocation, orders belong to live memberships, the ration holds, each message has its own authorisation, codes keep their history, a key generates once within the quota, project, route, event and claim agree, what was cut over is served, `CommerceFeed`, `DomainHandover` and `CodePromise` are implemented |
| `workers` | three instances, see below, fairness | no listener is missed, copies are explained by retries and faults, `EventCopies` and `MessagePromise` are implemented (what is settled or suppressed stays so), every event and delivery comes to an end |
| `codes_voided` | 1 batch of codes | one of the disagreements below |
| `takeover_rollback` | 1 legacy project, 2 routes, 1 edit at a time, 8 events | one of the disagreements below |

Bounds of the claims. Two workers on one claim are enough for a lost lease to meet every phase of the
other; a third adds no new pair. Three attempts give a first, a middle and a last attempt, and the last
one is the only special one. Three claims are needed for a lucky share to be refunded between two others,
and for the counters to mix up amounts. Symmetry is used only over workers or claims that the instance
does not tell apart, and never in a liveness run. Deadlock is not checked: when every claim is final and
the campaign has ended the system may stop.

Bounds of the coupons. No call reads more than one coupon row except `ActiveOf` (two are enough for a
second active coupon) and the wallet (two requests over one row meet in every order). Two orders are
enough for one to meddle with what the other holds; two keys for one kind of call make a fresh call and a
late copy of an older one differ. With a validity of two units and a hold of one, a coupon can expire
before, during and after a hold; the fixed window also has coupons that are not yet in force. Symmetry is over
coupon ids, members and, in `coupon_calls`, orders, wallet requests and claims, none of them external: nothing tells them apart. A row whose rule has ended may stay as it is for ever, so
deadlock is not checked.

`coupon_calls`, `commerce` and `workers` hold several instances (those of `coupon_calls` are in the table above). The components in one of them share no
state, so nothing is gained by interleaving them: a variable `part` picks an instance in the initial state, the
variables of the others keep their initial values, and `Within` keeps each instance to what it is about.
A property is checked in all of them. The abstract specifications are checked step by step too; `workers` has a single
member, so that messages keep `MessagePromise` through a merge is left to the proof.

| run | part | instance |
|---|---|---|
| `commerce` | `feed` | 1 connection, which stays open under one key; 2 requests; an order paid with a coupon, refunded, the refund corrected under the same id; another order with that coupon; 2 members who may merge, of whom the first may get the reference (they are alike) |
| | `gate` | 2 connections with 2 credential versions each, an event of nobody's, time to 2 with a credential life of 2 and an overlap of 1 |
| | `handoff` | 1 connection, 1 reference, 1 handoff, 2 members who may merge, 1 request with an order of the member and without a coupon |
| | `ration` | 3 campaigns to one member over 3 days, nothing sent, at most 1 a day and 2 in 3 days (3 a week in the code) |
| | `people` | 2 members, of whom one may turn service messages off while there is no campaign, 1 consent, a campaign due at once and an order message, 1 worker |
| | `codes` | 2 production batches with a batch each (a pair, a single code), a quota of 2, 2 requests, 2 keys, 1 expiry |
| | `routes` | 1 legacy project, 2 routes (alike, used in their order), 1 edit at a time, an import but no update, 8 events |
| | `editors` | 1 legacy project, 1 route, 2 edits at a time (not two assessments, nor two confirmations of the route), an update, an import, 3 events |
| | `rivals` | a legacy and a CNAME project of one domain, 1 route each, 1 edit at a time, an import but no update, 3 events each |
| `workers` | `expand` | 2 endpoints with 2 versions, 2 expanders, 2 faults |
| | `work` | 1 endpoint, 2 workers, 2 retries (3 in the code), 2 faults |
| | `notes` | 1 marketing message, 2 consents, 2 workers, 2 attempts (3 in the code) |

Two requests are enough for two copies of a message to meet in every phase, and an order row is written by
one of them at a time; five events give each of late, newer, corrected, conflicting and unrelated. Two of a
ration against three campaigns is the first number that can break it; three days in a week of three let a
message leave the window. A quota of 2 over batches of 2 and 1 makes the second generation fail or succeed by
who comes first. A first, a middle and a last attempt need two retries. Two faults let a worker be
slow and its successor die. Eight events let one route be confirmed, executed outside, cut over and rolled back (five) and
the other route of the project be confirmed, executed outside and cut over after it; three let an edit that was read before each transition up to a cutover be
written after it (in `editors`). Two edits are enough for one to overwrite what the other wrote between its read and its write.

Fairness in `claim_race` (`FairSpec`): the task loop (`tasks/worker.py`) polls again and again,
so a worker with something to lease or in hand goes on (weak fairness of `WorkerStep`), and time passes,
so every lease runs out. Nobody is bound to claim, redeem, edit, crash or call back, and the provider need
not settle anything. Nothing in the code makes anybody call the coupon functions, so no liveness is
claimed for coupons. The fairness of `WebhookOutbox` and `MemberNotification` comes from the same loop: an
expander or worker goes on for as long as it lives, a delayed delivery comes due and a lease runs out (weak
fairness of `Expand`, `Work`, `ComesDue`, `Expires`). Nobody is made to record, edit or withdraw anything, and
processes may die or be slow at any step, `MaxFaults` times: with lease after lease lost nothing would ever
end, in the code either, since a notification's lost lease counts no attempt. `EventsExpand` also rests on
endpoints being edited finitely often (`MaxVersions`), for each edit may undo an expansion.

### Disagreements with documents and between two versions of one function

* `claim_monotone`: the PRD (`docs/prd/h5-consumer-journey-resilience.md:51` and `:101`) and the
  docstring of `derive_consumer_claim_status` say the consumer's status never leaves a terminal
  state. A failed callback for a delivered row puts it back to pending. (Such a claim may then be given
  up on with its money settled: the second case of `FailedKeepsMoneyOnlyIf`, which the PRD rules out at `:69`.)
* `claim_stranded`: the PRD (`:69`) rules out "processing while the system has stopped retrying".
  An expired lease at the last attempt is never leased again, and nothing else ends the row.
* `coupon_store_refund`: `used_order_ref` is NULL for a coupon a store used, so the SQL test for a foreign
  use is NULL and the refund of any order reopens the coupon. The Python mirror of the function
  (`repurchase_coupon.py:803`) refuses it.
* `codes_voided`: `exclude_voided` of a first export (`tests/test_api/test_code_export.py:367`) can never
  succeed in PostgreSQL once a code is voided, because `guard_code_export_manifest` (`3f91c0d2e4a6:765`) wants as
  many rows as codes were generated; such a batch can then never be printed or activated.
* `takeover_rollback`: when the old entry does not answer yet, the console
  (`frontend/apps/admin/src/app/(dashboard)/codes/takeover/page.tsx:591`) says to repair it and verify again. Recording an external execution for
  another confirmed route of the project meanwhile overwrites the project's status, and the verification then refuses for
  ever: it wants the project in its rollback, which only the active route could begin, and that route no longer is active.
* `coupon_merge`: the merge moves coupons with an `UPDATE` that the trigger on `member_coupons` always
  refuses, so a member with a coupon cannot be merged in PostgreSQL. The Python mirror moves them. The commerce
  references of a member meet the same fate (`0b91:172` and the trigger of `c04d:202`), which `Movable` in `CommerceOrder` has
  as a guard; the two tests of the merge itself (a reserved coupon, references of both on one connection) promise less.

Met while modelling, and not counted as findings: `_partition_deliverable_items`
(`services/code_export.py:245`) says the partner of an excluded code is excluded with it, but looks the *pair id*
up among *code ids*, so the partner stays and `PairsWhole` refuses the export. A member who is read active and merged
before the reference is written (`c04d:398`, `c04d:420`) has a reference for good that every event with it is refused for;
no order row comes of it (`RowsNameTheLiving`), and only because references are immutable: a merge that moved them,
as `0b91:172` means to, would leave rows of events in flight with the merged membership. A live domain goes dark when an external execution is recorded for another route of
its project, since the resolver wants the project's status to match its claim; rolling the live route back ends that.
(`DarkIsExplained` allows exactly this.) An update of a takeover project read before a confirmation and written after it
leaves the confirmation in place (`takeover.py:396`), and an import after one does, until somebody looks; a cutover
in between goes through. A takeover import whose worker dies in its twentieth attempt (`takeover.py:787`) is never
taken up again. Since a member with a reference cannot be merged, no merge ever finds an order to move
(`MergeLeavesRows`): `Moved` is what the code would do.

## 4. Proofs

### ClaimDeliveryProofs

From `KeysAssumption`, `NumbersAssumption` and `ConfigAssumption` only (finitely many claims; everything
else is arbitrary), except `LuckyIsFunded`, which has a hypothesis of its own:

1. `TypeCorrect`: `Spec => []TypeOK`. The sets of rows are kept closed by one lemma per record
   set. It contains that `attempt_count` never passes `max_attempts`.
2. `Invariance`: `Spec => []IInv`. `StockLedger` is not inductive: that a refund takes off
   exactly one unit needs the claim to be counted before, that a claim adds one needs it to be
   absent, and that no late success or callback revives a refunded row needs `RefundedIsDead` and
   `RowsAgree`. `SuccessReceiptIsFinal` is needed because a worker in its last attempt would
   otherwise be able to bury a settled claim: a settled row has lost its lease, so the token test
   refuses. `WithinBudget` gives the ledger its limit.
3. `StockIsCounted`, `SuccessIsKept`, `RefundsAreFinal`: three properties a reader asks for,
   from the invariant; the last is an action property.
4. `MoneyIsCounted`: `MoneyLedger`, a sum over the claims that hold money. A step moves the money of at most one
   claim, so the proof needs only what one element adds to a sum (`SumTheorems`): a claim that takes money brings
   its amount in (`MoneyTaken`), a refund takes out the amount it subtracts (`MoneyGivenBack`), and
   everything else leaves set and amounts alone. That no subtraction goes below zero is `HeldIsDue` and `StockLedger`.
5. `FailuresGiveBack`: `FailedKeepsMoneyOnlyIf` is not inductive; `FailuresAgree` is what it rests on. Every
   step is one of six kinds as one claim sees it (`RowSteps`: kept, made, used, settled, deferred, failed), and
   each kind is looked at once.
6. `DeliveriesWereOrdered`: `DeliveredWasOrdered` with `OrdersAgree`, which carries it through the time an answer spends
   in a worker's hand or a callback on its way: what the provider did is not undone there (`OrdersStand`).
7. `LimitsHoldAtClaim`: only a claim can add to what counts for a consumer, and it tests both limits as they are then.
8. `LuckyIsFunded`: `LuckyNeverStarves` for every stock, budget, minimum and maximum with `Funded(stock)`: the
   stock is not edited and the budget covers the minimum of every unit. Both are needed.
   `redpacket_amount.py:53` refuses a configuration whose budget does not cover it, but an operator who raises the
   stock of a running packet can still bring that about. The invariant is `left >= MinAmount * units`, with nothing left after the last unit; a share is at most what leaves the others their
   minimum (`EqualShare`), and a refund gives back at least a minimum (`HeldIsDue`) with its unit.
9. `ImplementsLedger`: every step of `ClaimDelivery` is a step of `ClaimLedger` or changes none
   of its variables, under the mapping that reads a claim's account from its status, reservation
   and amount.

### SumTheorems

`SumFunctionOnSet` of the community modules folds with a `CHOOSE` over recursive functions and takes the elements in an order of its own.
`SumByRecursion` shows that the function it chooses exists and is the only one; `SumWithout`, that the sum does not
depend on the order: it is any element's number plus the sum over the rest. `SumOfNone`, `SumType`, `SumWith` and
`SumOfSame` follow. The inductions go by a smallest counterexample among the subsets of a finite set, since the induction
theorems of the library take an operator as a parameter and no installed prover can instantiate them.

### MemberCouponProofs

From `RulesAssumption` and `IdsAssumption` only (finitely many coupon ids; every number of rules, members,
orders, stores, keys and moments):

1. `Invariance`: `Spec => []IInv`. The conjuncts lean on each other. Counting a new coupon exactly once
   needs its id to belong to no rule before, which is `UnissuedIsBlank`; that an event left behind by a
   call that only logs fits the history of its coupon needs `version > 0`, which is part of the CHECK
   constraints; that a reversal may clear a use needs to know that nothing but a used row names one.
   Every kind of update of one row goes through one lemma, which asks that the new row is well typed,
   keeps its rule, satisfies the constraints and counts its version up by one; a second lemma covers
   calls that only log; issuing, rules and the wallet, which rewrites a set of rows, have their own.
2. `TypeCorrect`, `ChecksHold`, `LimitIsKept`, `LogIsComplete` and `UnconfirmedStaysUnused` are its parts.
3. `SecondCouponIsRestored`, `EveryLockIsAnswered`, `UsedOnce`: what the log remembers of a coupon. Each is inductive beside `IInv`. In every step a coupon is
   either `Moving` (issued, or what an order or a store calls about) or `Quiet`: no lock, answer, use or refund is
   told of it, and it takes up no hold and no activity (`QuietOrMoving`, by one lemma per kind of call). A coupon becomes active again
   only when issued, and then its member had none, or by a reversal, which the log keeps. A fresh lock call adds one to
   the lock calls of its order and at most one to its answers and holds; an answer to a lock takes the hold away, and
   only the order that holds the coupon can be answered. The newest event has the highest version (`LogExplainsRow`), so no
   older reversal undoes a new use and a new reversal undoes the one there is; it names the order of that use because
   the row of a used `OrderOnly` coupon names it, which a coupon a store used does not.
4. `ImplementsPromise`: the mapping `Asset` reads `absent`, `free`, `locked`, `spent` or `over` and the order
   from a row. An issue is the abstract issue because `LimitIsKept` and the guard `Issuable` bound the
   count; a confirmation or a log entry changes nothing abstract; an expiring wallet ends a set of assets.

### CommerceOrderProofs

From `BoundsAssumption`, `MembersAssumption` and `EventsAssumption` (the constants are numbers, `Nil` is no member, an
event is of an order and lists finitely many refunds with their amounts).

`Invariance`: `RefundsAddUp` and `NothingAfterRevocation` are not inductive. `RefundsAreOfLast` says that the
refunds kept for an order are, if events are cumulative, exactly those of the event its row shows; `RefundsAddUp`
follows without any reasoning about sums. `ScopedIsOpen` says that a transaction in the middle of an acceptance
still has its connection open and its credential unrevoked, because `Held` keeps both locked: it is what makes
`NothingAfterRevocation` true. It needs `Fresh` (a connection without a row has no credential, so connecting takes
none away from a request). `CouponCountsOnce` is what the unique constraint
on attributions promises, and needs `Projectable` to look at every connection. `RowsNameTheLiving` is not inductive: what a row will
name is decided sessions earlier. `RowsAreSettled` says the same of a request that has accepted its event, and adds that
the member has a reference somewhere; references never change (`SettledStays`), so no merge can take the member
before the rows are written or after. That references themselves name live members is not true and not needed.
`TypeCorrect`, `RowsStayLive`,
`NewestIsShown`, `RefundsAreComplete`, `CouponsCountOnce` and `RevocationIsFinal` are its consequences.

`ImplementsFeed`: the mapping reads from a connection how many keys it has had and which are not revoked, and from an
order row the message it shows. A request shows nothing until it projects; there `ScopedIsOpen` gives the abstract
message its open connection and good key, `RowIsNewest` makes "newer than the row" the same as "newer than everything
taken", and `Projectable` with `CouponIsOfLast` (an attribution carries the coupon of the message its order shows) keeps
a coupon to one order. Members, references, handoffs and clocks are stutters of it.

### WebhookOutboxProofs

From `BoundsAssumption`. `NobodyIsMissed` needs `HeardIsFound`: an endpoint that was not touched since the event
is among those an expander found and, since the trigger accepted its copy, among those it makes; and
`Exclusive`: an event has one expander, and has deliveries only once it is expanded. `CopiesCounted` bounds the copies by the
retries and faults, plus one for a delivery that is settled or in the hands of a live worker: a lease taken
again has cost a fault before. `SettledIsFinal` is an
action property: `Holds` and `Leasable` both ask for a status that is open.

`ImplementsOutbox`: an endpoint is owed a copy of a recorded event while it still has the configuration under which it
heard it. An edit or deletion takes it off, the end of an expansion pays all that are left (`HeardIsFound`), and the passes
of an expander before that show nothing, since none of them is committed. Leases, sends and lost workers are stutters;
a recorded answer is a retry below `MAX_RETRIES` or the one settlement, since `Holds` wants a row that is open.

### MemberNotificationProofs and CodeLifecycleProofs

Their assumptions are stated as hypotheses (`Sound`, and `Rationed` for the ration), which every theorem names:
a source event is of a campaign or of an order, NULL is no id, a code is of one batch, a batch has finitely many codes.

* `GrantPaysOnce` rests on `Spent`: the authorisation a delivery names is spent on it, whatever became of the
  delivery since, and merges move both. `TypeCorrect` rests on `Hands`: the types of what transactions and workers
  hold, and that a delivery which may be tried again has an attempt left.
* `RationIsKept` rests on `Past`: no delivery has a date to come, so a new day has an empty window, and the
  window of every earlier day only loses messages. A merged membership is excepted, as in the property: it brings its own.
* `WithdrawalStands` and `SendsAreStanding` are action properties.
* `ImplementsMessages`: the mapping reads from a delivery whether it is open, its attempts and its member, and takes the
  authorisations as they are. Making a message is paying it (`MadeShows`); the two triggers and the preference page are
  the abstract withdrawal of one member or of all (`WithdrawShows`); a merge moves the messages and authorisations
  of one member to another and stops what is open of both where the withdrawal of one carries over (`MergeShows`); of what a worker
  does only the result counts, and `Hands` has the attempt it counts.
* `RecalledStaysQuiet`: every way back to life (activation, binding, recovery) meets the test of the production batch,
  in Python or in the trigger, and a recall freezes whatever is alive by then.
* `HistoryStands` needs `Unbound` (a code that waits for its activation was never bound) and `Pending`: a batch being
  generated has no code yet, so writing its codes forgets nothing.
* `GeneratedOnceHolds` needs `Counted` and `Pending`: one request at a time has reserved, what it reserved still
  fits, and no two requests are about one key.
* `TypeCorrect` of `CodeLifecycle`: the parts of the invariant are types already but for the calendar (`Dated`).
* `ImplementsCodes`: a code is shown as made, live, frozen or void, and as bound if its status or the status it would
  return to is. Each way to write codes is looked at once (`GenerateShows` to `RecallShows`); that a generation is within
  the quota is `Counted` and `Pending`, that an activation finds the whole batch unbound is `Unbound` and
  `HistoryIsKept`, that a recall freezes exactly the live codes of the production batch is its own definition, since
  a code is of one batch (`Sound`).

### TakeoverRoutingProofs

The hypothesis is `Sound`, which `MCCommerce` has TLC evaluate. `Invariance`: `LiveRoutesAreClaimed` and
`TakenDomainsAreServed` need each other and `ClaimsFollow`, which says that a claim names the latest event of
its route. An edit keeps all of it because `Guard` wants a project that is not operational before and after and an active
route that stays, so nothing a claim or a live route is about has moved. Cutover, completion and rollback have one
shape (`MoveKeeps`): route, project and claim take the state of one new event. That a cutover takes the domain from
nobody else is `MayClaim`, that it leaves no other live route is `NoneLive` and, in the invariant, that the live routes are
the active ones. An external execution may contradict the claim of its own project; its event is newer than
the claim's (`EventIsNewest`), which is the exception `DarkIsExplained` makes, and it never concerns the claim's
own route, for that one is not merely confirmed.

`ImplementsHandover`: the claim of a domain is its phase and the route that led it there; a route is proposed, approved or
used. `StatesFit` is the one thing the invariant lacks: the route that a claim names has the status that goes with the
claim's state, so a completion or a rollback of the route is one of the domain. An external execution leads no domain here; it
leaves its route confirmed, and shows nowhere. Edits, checks and probes are stutters (`UnusedStep`).

### Not proved, only checked by TLC

`RetriesEnd`, `EventsExpand`, `DeliveriesSettle` and `Settles`: liveness is out of the prover's reach. Every other
property of a passing run is a theorem, the seven refinements included. The runs `commerce`, `workers` and `coupon_calls` check some of them under the names of
instances (`Ration`, `HandoverSpec`, `CodeSpec`, `MessageSpec`, `LimitsAtClaim` and others); the theorems are about the components themselves, without
what the runs leave out (`Within`), so their statements name the components' definitions. The other way round,
`IssuedIsCounted`, `SettledStands`, `SuppressedStays`, `SendsStand`, `RecalledIsQuiet` and the types of `CommerceOrder`, `MemberNotification`, `CodeLifecycle` and
`TakeoverRouting` are theorems that no run checks by name: what the first says of the limit, and `SettledStands`, `SuppressedStays` and `RecalledIsQuiet`, follow from the refinements the runs check in their stead; `SendsStand`, about the moment a send begins, is only proved. The runs that expect a violation
are TLC's alone, and so is everything the proofs assume about the constants of an instance, which TLC evaluates.

## 5. Not modelled

Parts left out of the components that are modelled are in their notes in `PROJECT.json` (of takeovers: the claims
and retries of import jobs, the content and activation of aliases, the gateway past the resolver); the rows of the claim
worker's hook on a coupon are in both `ClaimDelivery` and `MemberCoupon`, but what a failed hook does to the
database session it shares is in neither.

Not modelled at all:

* the legacy benefit delivery handler (SQLite only; the outbox worker replaces it) and the red packets' direct
  payout path, which claims with an outbox replace;
* launch releases: their guards compare digests of pages, campaigns and batches, content the models do not have;
* channel authority and diversion, risk rules, scan resolution, analytics, dashboards, the repurchase workbench:
  judgements and reads over scan data, one row written at a time;
* points, GMV evidence, organisations, regional campaigns, products and pages, plans: administration within one
  transaction each; the quota of codes is in `CodeLifecycle`;
* sign-in, sessions, tenancy, rate limits, circuit breaker: conditions that refuse a call, which the models leave
  to choice, or (a closed circuit) one of the reasons an attempt fails;
* WeCom and CRM synchronisation, the frontend: no protocol state of their own.

Most of the source is of this second kind (content administration, seeds, reports, reads), so the mapped
definitions stand for a few percent of its lines.

What would come next: `ClaimDelivery` and `MemberCoupon` composed by the worker's hooks; launch releases
with digests as model values; the refunds of an order in `CommerceFeed`.
