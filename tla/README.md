# A TLA+ model of the ABD e-commerce backend

The repository is a NestJS server for a shopping app: customers log in with one-time
codes, their accounts are tied to the customer records of a Shopify store, and an
administrator's panel blocks and merges customers, sends push campaigns and edits what the
app shows. State lives in PostgreSQL (through Prisma), Redis and Shopify. There are no tests in the repository,
and nearly everything that can go wrong is a matter of what two requests do to the same
rows between one `await` and the next. That is what these modules are about.

Paths below are relative to the repository, `auth/token.service.ts` for
`src/auth/token.service.ts`.

## The system

| Component | State | Operations | Talks to |
|---|---|---|---|
| Sessions (`auth/token.service.ts`) | `refresh_tokens`: customer, family, revokedAt, replacedById | issuePair, rotate with reuse detection, revoke, revokeAllForCustomer | login, customer administration, merge |
| One-time codes (`auth/otp/otp.service.ts`) | `otp_codes`; Redis cooldown keys and hourly counters | issue, verify, administrator's reset | login and identity linking; a sender of SMS or mail |
| Login identity (`auth/identity.service.ts`, `auth/auth.service.ts`) | `customers` (status, mergedIntoId, primaryPhone, primaryEmail), `customer_identities` | login, link an identifier, activate and backfill | codes before it, sessions after it |
| Shopify accounts (same files, `shopify/shopify-customer.service.ts`) | `shopify_customer_links`, `customers.shopifyCustomerId`, records at Shopify | link, ensure, reconcile after an email is verified | Shopify |
| Customer administration (`admin/customers`) | the rows of all of the above | block, unblock, revoke a session, log out everywhere, merge two customers | all of the above |
| Push campaigns (`notifications`, `admin/notifications`) | `notifications`, `device_tokens` | create, update, cancel, remove, send, dispatch what is due, register a device | an external cron, a sender of pushes |
| Addresses (`addresses`, `shopify/shopify-address.service.ts`) | `addresses` with one default and the id of a copy at Shopify | create, update, remove, set default, two imports, push | Shopify, merge |
| Cart, checkout, wishlist (`cart`, `wishlist`, `checkout`) | `carts`, `cart_items`, `wishlist_items`, `recently_viewed` | lines, discount, checkout, heart, view | Shopify, merge |
| Caches (`content`, `products`, `collections`, `orders`) | JSON in Redis with a TTL | read through, invalidate | panel, Shopify |
| Content administration (`admin/content`, `admin/system`) | tables of banners, home sections, pages, FAQs, coupons | write a row, reorder, flush | caches |
| Shopify access (`shopify/shopify-token.service.ts`, `shopify-graphql.client.ts`) | token in memory and in Redis, one load in flight | get, invalidate, retry | Shopify |
| Administrator login (`admin/auth`) | failure counter and revoke list in Redis | login, logout, admit a request | the whole panel |
| Influencer programme (`influencer`, `admin/influencer`) | `influencer_applications`, `influencers` | apply, approve, reject, suspend, unsuspend | panel |

A service method is a sequence of awaited calls. Between two of them any other request may
run, in this process or in another instance of the server, and the server may stop. Prisma
transactions run at PostgreSQL's default level, READ COMMITTED, and nothing in the code locks
a row it reads; what does protect are single conditional statements (`updateMany ... where
status in ...`, `INCR`, `SET NX`) and unique indexes. The hard behaviours are therefore:

- **check, then write by id**: a row is read, judged, and later updated by its id alone
  (`consume`, `rotate`, `block`, `unblock`, `merge`, `activateAndBackfill`, `update` and
  `cancel` of a campaign);
- **long windows**: login calls Shopify between admitting a customer and opening his session;
- **half-done work**: nothing is cleaned up when the server stops between two statements;
- **keys that end on their own**: cooldowns and counters of Redis, and an administrator who
  deletes them;
- **events out of order**: a cancel that overtakes a send, a device that changes hands while
  a campaign is being pushed.

What makes each component correct: rotation leaves one usable token for each device, and
reuse of an old one or a block leaves none; a code lets in nobody after its attempts are
used up and is used once; a verified identifier belongs to one customer, never changes hands
but by a merge, and keeps opening an account afterwards; a campaign reaches a device at most
once, only within its audience, is eventually taken up when it falls due, and does not remain
half sent; a customer sees only records of the store whose email or phone he has proved, stands
for none that is gone and loses no order; he has one default address, and one copy of each at the
store; a merge loses no line of a cart; a cache does not serve what was invalidated; a token that
was logged out stays out; who is approved is a creator. Where the code reaches such a property only under a
condition, the property states the condition. A comment often promises it without the condition; four runs
show such a counterexample, and the others are listed under what is not modelled or not promised.

## The modules

**Conventions.** A concurrent request is a slot `r` of a constant set. `pc[r]` is what it does
next and a few variables hold what it has read; an action is one awaited call with the
code around it up to the next. A single `updateMany` and a committed transaction are one
step; a transaction that reads first is two, one for what it read and one for its writes. An answer 4xx that
changes nothing is either no step or a return to idle. History variables, listed last in
every module, are read by properties only. The definitions with a suffix (`LoginAllowed_Unchecked`,
...) are faulty variants of the definition they are named for; each property fails with at least one of
them in its place.

### `TokenLifecycle` and `Sessions`

`TokenLifecycle` is what the table of refresh tokens promises to its readers: a row appears
once, live, bound for good to one customer and one family; it dies for good; only a dead row
names a successor, another row of the same customer and family. `Sessions` is the code:

| Module | Code |
|---|---|
| `owner`, `family`, `revoked`, `replacedBy` | columns of `refresh_tokens`; a family is named by its first row |
| `held` | tokens a client was given, and may present or steal |
| `LoginBegin`, `LoginIssue` | `verifyLoginOtp` around the Shopify calls, `issuePair` |
| `RotateReused`, `RotateBurn` | the reuse branch of `rotate` |
| `RotateAdmit`, `RotateIssue`, `RotateRetire` | the other branch: checks, insert of the child, update of the parent by id |
| `Logout`, `RevokeSession`, `LogoutEverywhere` | one `updateMany` each |
| `BlockRead`, `BlockWrite`, `BlockRevoke`, `UnblockRead`, `UnblockWrite`, `MergeRead`, `MergeWrite` | the administrator's side |
| `Crash` | the server stops, or the database fails, between two steps |

`burnt` says whether a family was revoked while one of its rotations was in flight, `forked`
which families saw overlapping or half-finished rotations, `sealed` who was blocked with nothing
of his in flight. They separate what the code guarantees from what it does not.

### `Otp`

Codes of one identifier for all purposes. `IssueCooldown`, `IssueHit`, `IssueSupersede`,
`IssueStore`, `IssueSend` are `enforceRateLimits` and `issue`; the transaction of `issue` is
two steps because its `updateMany` does not see rows that are committed after it began.
`VerifyRead`, `VerifyWrong`, `VerifyGiveUp`, `VerifyAccept` are `verify` and `consume`.
`CooldownEnds`, `IdWindowEnds` and `Expire` are time, `ResetOtpLimits` the administrator. The
counter of the client's address is shared with other identifiers and hence may refuse at
any time. A code is the number of its row; that two rows are given the same digits is left out.

### `Identity`

`LoginResolve` and `LoginUnknown` are what the transaction of `verifyLoginOtp` reads,
`Commit` and `LoginCreate` what it writes; `LinkBegin` and `LinkRead` are `verifyIdentity`,
which ends in the same `Commit`. `saw[r]` holds the three things the transaction decided from what it
read. `primary` and `verified` are the columns with unique indexes: a write an index
refuses rolls the transaction back, which is `Abort`. `Leads` is `resolveMergeChain` with its
limit of hops. `BlockRead` ... `MergeCommit` are the administrator's. A merge is three steps: `MergeRead` checks,
`MergeMove` is the `updateMany` at `admin-customer-merge.service.ts:202` with the rows its own snapshot shows, and
`MergeCommit` the rest of the transaction. An identity that a login gives the source in between stays with the source;
`crossed` records the merges this happens to, and `disturbed` that one of them committed. Initially some customers are
IMPORTED, with an identifier they have not proved. The Shopify calls after the transaction
change nothing here.

### `Campaign`

One campaign, one caller slot for the external cron and one for each concurrent administrator.
`Claim` is the conditional `updateMany` of `send`; `Load`, `ReadTargets`, `Push`, `Prune`,
`Finish`, `Throws` and `Fail` are the rest of `send` and `deliver`; `UpdateRead` ...
`RemoveWrite` are the edits, which check first and write by id. `Stop` drops a caller where it
stands. Segments are left out: a segment is a further restriction of the audience that
depends on other tables, not on the campaign.

### `Accounts`

The Shopify half of `IdentityService`, which runs without a transaction, against a store with records
of its own. `Search` ... `CreateLinks`, `CheckTaken`, `SetPrimary` are `linkShopifyRecords` and
`setPrimaryShopifyCustomer`; `EnsureRead` ... `Adopt` are `ensureShopifyCustomer`; `ReconcileRead`
... `SendPhone` are `reconcileAfterEmailVerified`. A mutation of the store has one of several
outcomes (`Outcomes`, `Done`): done, refused, failed, or done with the answer lost, which the client repeats and
the store then refuses. `MergeRead`, `MergeMove` and `MergeCommit` are what the administrator's merge does to links and
to `shopifyCustomerId`; what is linked to the source after `MergeMove` picked its rows stays with it. `Order` is a customer shopping on the website and `Checkout` one who orders in the
app: the store puts the order on the record that has the email or the phone the app hands over
(`Buyer`), or makes a record of it. `Buyer` takes the primary columns as `checkout.service.ts`
does; its comment calls them verified, and an imported customer's may be unproved. `OrdersOf` is what
`GET /orders` lists: the orders of the customer's links and of his primary record, and of no other
(`findOrders` drops the rest of the store's answer, `ActuallyMatches` does the same for a search by
email or phone). `torn` and `crossed` say which of the two conditions, under which the code loses
something, have come about: a step that failed half way or was raced, and a merge of rows that changed.
`had` is every email and phone a record has had. It is in `OwnRecordsOnly` because the store may have
answered a search before a record lost the email it was found by: the record is then linked to a
customer who proved what it no longer has. With one email in the model this could not happen; with two
TLC finds it. `HistoryKept` leaves out the record that is another customer's primary one: the
merge of that customer upserts its link (`admin-customer-merge.service.ts:215-225`), which takes it from
whoever has it.

### `Addresses`

`Create`, `Count`, `Edit`, `SetDefault`, `Clear`, `Set`, `RemoveRead`, `Delete`, `NextDefault` keep the
default; `PushUpdate`, `PushCreate`, `MarkSynced`, `Erase` mirror a change to the store, where each call may
fail or be repeated; `FetchBook`, `FetchNext`, `ReadEntry`, `ImportEntry`, `TieEntry`, `SkipEntry`, `BookDone` are
the import of the address books of one linked record after the other, each with a default of its own, and `PastOrders`,
`ImportOrders`, `EnsureSomeDefault` that of the addresses of past orders; `NoRecords` is a customer with no linked
record, for whom both return at once. At the website customers save, change and remove addresses (`WebsiteSave`,
`WebsiteEdit`, `WebsiteRemove`), also those the app has put there: `touched` names such copies until the app writes them
again. `MergeRead`, `MergeCommit` and `MergeRefused` move addresses: `moveWithDedupe` reads the
fingerprints of both customers and then moves and drops rows by id, whoever has them by then, so that
the unique index may refuse the move (`Clashes`) and roll the transaction back. Ids are never used
again, a row's (`Free`) or a copy's (`Unused`). Every route that names an address passes `MustOwn`.
An address is its fingerprint.

### `Basket`

Cart lines with their unique upsert (`AddItem`, which resolves the variant first and so finds out nothing of a merge, `EnsureCart`, `UpsertItem`, `UpdateItem`, `Clear`), the discount, the
wishlist (`AddHeart`, `CreateHeart`, `RemoveHeart`), the list of products viewed last, which is trimmed
after each view in two calls (`RecordView`, `TrimRead`, `TrimDelete`; `viewedAt` is the column, of which only the
order of the rows matters, so a view is stamped later than every row there is), and steps 5, 6 and 9 of the merge
(`MergeRead`, `MergeCart`, `MergeCommit`). `CartRequest`, `WishlistRequest` and `ViewRequest` are the
routes of the three controllers, `Step` how a request goes on. `owed`, `hearts` and `newest` are what a customer would expect.

### `Server` with `AdminLogin`, `Influencers`, `Content` and `ShopifyToken`

`Server` composes four modules that meet in request slots, in Redis and in time. It instantiates each
with its own variables, lets a slot be one handler at a time, and joins their steps:

| Joint step | Parts |
|---|---|
| `BeginLogin`, `BeginStore` | a request of nobody in particular: a login, and the store's other callers |
| `BeginProgramme`, `BeginContent`, `Creator` | an operation of the panel begins only while a token is admitted (`AdminLogin!Admits`, the strategy of every panel request) |
| `AskStore`, `StoreAnswers`, `StoreFails` | a reader of the catalogue becomes a request of `ShopifyToken`; what it answers is loaded by `Content`; what fails is a failed list or a skipped section of home |
| `Tick` | every token, key and reader grows older |
| `RedisLost` | the counter, the revoke list, the caches and the token's copy go at once |

*`AdminLogin`*: the counter is read (`LoginBegin`) before the slow comparison and written
(`RecordFailure`) after it; `LogoutBegin` computes the life of the key that `Revoke` writes later. *`Influencers`*: one
customer; `Apply` and `AssertCanApply` are the two reads of `apply`, between which an approval may come; `MustBePending` is read, and `Approve` or `Reject` writes by id. *`Content`*: `Miss`, `Load`, `Set`
for every read-through key, where an entry that is there is also missed when Redis fails to answer; `Embed`, `LoadPart`, `KeepPart`, `SkipPart` are home's sections, each
of which is a reader of its own cache; `Edit`, `Write`, `Scan`, `Clear`, `Answer` are a write of the
panel with `afterWrite`, and `EditRefused` one that a check or an index refuses, which clears nothing; `Flush` takes the scope the panel names and clears
its patterns one scan after the other (`Patterns`, `Turn`); `Drift` is a window that opens or closes, or the store's catalogue changing. What an entry shows of a
table is an age: nothing, current, or superseded so many ticks ago. *`ShopifyToken`*: `GetToken` with
memory and single flight, the load in four calls, and `Rejected`, `Delete`, `Retried` for a 401.

`Freshness` is the abstract cache that `Content` implements: an entry is never behind a source longer than
its bound, and once an edit was published only entries stored after it from what was read before it,
or that fell behind with nobody editing, may be behind. `Content!Promise` is the
mapping; the ages map to themselves, and a source is published unless its last writer is still clearing, or stopped.

## What is checked

| Run | Shows |
|---|---|
| `sessions` | `QuietBurnIsFinal`, `SealedCustomerHasNoSession`, `RotationIsLinear`, and that `Sessions` implements `TokenLifecycle` (`RowsAreLifecycle`) |
| `otp` | `OnePendingCode`, `AttemptsBounded`, `OneTimeUse`, `SendsBounded`, `CapIsFinal` |
| `identity` | `MergeKeepsLogin`, `BlockStands`, `PrimaryIsProven`, `NeverStolen` |
| `campaign` | `NotTwice`, `NoOrphanedSending`, `CancelHolds`, `OnlyItsAudience`, and the liveness of `DueIsSent` and `SendingEnds` |
| `accounts` | `OwnRecordsOnly`, `PointsAtExisting`, `HistoryKept` |
| `addresses` | `SomeDefault`, `OneDefault`, `OneCopyOfEach` |
| `basket` | `NothingLost`, `RecentIsRecent` |
| `server` | `GuessesBounded`, `LogoutHolds`, `CreatorsAreApproved`, `RetryGetsThrough`, and that the caches implement `Freshness` (`CacheIsFresh`) |
| `sessions_reuse` | counterexample: a rotation in flight survives reuse detection (`token.service.ts:70-72` says nothing does) |
| `otp_one_time` | counterexample: one code, submitted twice at once, lets in twice (`otp.service.ts:102` says one-time) |
| `identity_merge` | counterexample: a login racing a merge leaves the identifier with the merged account, and every later login answers 409 (`admin-customer-merge.service.ts:45-47` says login never breaks) |
| `campaign_twice` | counterexample: a reschedule that read the campaign before it was sent makes it go out again (`notifications.service.ts:100-105` says never twice) |

Every passing run also checks the type invariant of its module.

**Bounds.** Two request slots everywhere, since every hazard found is a race of two and a third actor
(time, the client, a crash) needs no slot. *Sessions*: three tokens, which is a family of
three or two families; two customers, so that one's revocation may hit another's rows. *Otp*:
two attempts and one code an hour, so that the cap, the limit, and going beyond
either by the number of requests are all reached; two rows (`MaxRows`), the superseded and the superseding one. The run has one
purpose: the purposes share only the hourly counter, which the window's nondeterminism covers. *Identity*: three
customers, one phone, one imported email, and chains cut after `MaxHops = 1` instead of 5, so that
chains that are too long exist. *Campaign*: one customer, two devices in batches of one, one
administrator beside the cron, one stop (`MaxStops`); a second customer, and audiences of one of them, are the theorem's. *Accounts*: two customers, one phone and
two emails (a record can lose the one it was found by), one record an import made a customer of and one the app
may create: two records that one customer can own are what a reconcile needs; `MaxRequests = 3`. *Addresses*: two customers, three rows, two fingerprints and two copies, so that
an edit can collide, a removal can choose among two, and a repeated creation leaves a second copy;
`MaxRequests = 3`, and one change made at the website (`MaxVisits = 1`): more of them, and more than one at a time, are
the theorem's. *Basket*: two customers with a cart each, one variant, two products on a list of `Limit = 1`
(20 in the code), quantities up to `MaxQuantity = 2`, `MaxRequests = 5`. *Server*: a behaviour has a budget of requests for
each part and of events (failures, stops, losses, changes), and `MCBudgets` names seven of them: each part
alone with as many requests as its races need, catalogue readers beside other callers of the store, and one
request of each part at once. Two attempts before the lockout (10 in the code), a token that lives two
ticks, entries that live one with readers that take at most one (`FillTime`, of which the code has no bound;
`CacheIsFresh` is relative to it), one retry, two processes, one revocation. The catalogue has two lists, one of
products and one of the products of a collection (`MCMatching` says which pattern clears which), and a detail.
Symmetry is used in the modules without liveness, on sets whose members are only compared.

**Deadlock** is checked in `sessions`, `otp` and `campaign`. In `identity` all customers may end up
MERGED in a circle (two merges that cross), after which no operation is possible; `accounts`, `addresses`,
`basket` and `server` end when their bounds on requests are reached.

**Fairness.** Only `Campaign` has liveness. Weak fairness of `DispatchList(Cron)`: the deployment
notes require an external cron that keeps calling `dispatch-due` (`docs/admin-panel-integration.md:396-400`).
Weak fairness of each caller's `SendStep`: an accepted request goes on, Node's event loop and
the timeouts of the calls see to that. Weak fairness of `TimePasses`. Administrators, devices, failures and stops are not
fair. A stop ends the promise of `SendingEnds`, as in the code: nothing resumes a campaign that was SENDING.

## What is proved

`SessionsProofs`, `OtpProofs`, `IdentityProofs`, `CampaignProofs`, `AccountsProofs`, `AddressesProofs`,
`BasketProofs` and `ServerProofs`, for every value of the constants, under the modules' own assumptions
(`None` is no customer, token, identifier or status; phones are not
emails; the `Requests` of `Otp` and of `Server` the `Customers` of `Identity` and the `Views` of `Basket` are finite, no request of `Server` is named
"nobody" or "published", and the bounds are numbers). A theorem is named for what it
says to a reader; the table of theorems in `PROJECT.json` names the property each one states.

- `SessionsProofs!TypeCorrect`, `ReuseDetection`, `BlockEndsSessions`, `RotationKeepsOneToken`,
  `Refinement`. Each property is not inductive alone. The proofs first establish the type invariant and the
  bookkeeping of rows and requests (a request that is to insert or retire
  holds an issued token of its customer, a family is named by a row of its own, the row to
  be retired and its child differ and share a family), and add the strengthening of the property: a
  quietly revoked family has no rotation between check and insert, since such a rotation needs a
  live token; a sealed customer has no pending issue, since none is admitted while he is BLOCKED;
  an unforked family has at most one rotation in flight. `Refinement` maps the rows to
  themselves; every step is `Appear`, `Die`, `Succeed` or a stutter.
- `IdentityProofs!TypeCorrect`, `BlockHolds`, `LoginSurvivesMerge`, `IdentitiesAreKept`, `PrimaryColumnsProven`. The base
  invariant says what each pending request works with. `BlockHolds` adds that nobody pending
  will activate a sealed customer; `LoginSurvivesMerge` that a pending claim is for a customer who is
  neither merged nor absent, and that what a merge between `MergeMove` and its commit has picked is all its source has, or the merge is
`crossed`; every merge that does not make the state `disturbed` preserves this. `PrimaryColumnsProven` follows
  an identifier back along chains of merges: the way visits nobody twice, so it is no longer than there are customers,
  and the invariant carries that way, so that nothing is proved by induction over its length.
- `ServerProofs!LogoutIsFinal`, `LockoutBounds`, `ApprovalMakesCreator`, `RetryUsesNewToken`, of the composed
  `Server`. `ProjectLogin`, `ProjectProgramme` and `ProjectShop` say that a step of the server is a step of the part
  or leaves its variables alone; each theorem then needs an invariant of its part. `KeysOutlive`: the key that
  revokes a token has, written or pending, at least what the token has. `GuessInv`: counter and
  comparisons under way together stay below limit and requests, because a comparison begins only below the limit.
  `DecisionsStand`: a pending decision is on a pending application and alone on it, or the application is
  contested. `Replaced`: after a 401 that crossed no load no process loads until the key is deleted,
  and then neither Redis, nor a load, nor the memory of its process has the old token. These
  four hold whatever `Budgets` allows, so that the budgets of the run cut nothing off.
- `ServerProofs!CachesKeepPromise`, `PublishedSeen`, `TypeCorrect`, of `Server` too. `PublishedSeen` says what the
  promise of `Freshness` means to a reader: an entry that is not `late` shows every published edit, or nothing of its table. `ProjectContent` is the fourth
  projection. That `Content` implements `Freshness` needs an invariant of three parts. `ReadersInv`: what a reader has loaded is
  behind by no more than the time he took, so that it is still fit to be stored. `EntriesInv`: the age of what an
  entry shows and what is left of its life are together within the bound, one tick for the reader's start apart.
  `EditsInv`: a table with an entry behind it is not published, as whoever wrote it last stopped, or has that entry still to
  clear. Each action of `Content` is then an action of `Freshness` or a stutter (`EditAnswered` is
  where the panel's answer becomes `Publish`). The type invariant says what the four parts share: a request is one
  handler's at a time (`OneHandler`, from `SlotsInv`), and whoever waits for a token waits for a load under way (`WaitersInv`).
- `OtpProofs`: all six properties of the run. Each cap is an invariant that counts what is in flight with what is done, since
  a request compares what it read and writes later: `AttemptInv` the guesses being compared
  with the attempts, `UseInv` the answers under way with the uses, `SendInv` the admitted requests with the sends. They
  move by the cardinality lemmas `CountLeaves` and its like. `PendingInv`: while issues for a purpose do not overlap,
  the statement that supersedes misses no row. `CapInv`: a capped row has no answer under way, and none can begin.
- `CampaignProofs`: all five safety properties of the run. `OnceInv`: unless an edit reopened the campaign there
  is one sender at most, before he pushes nobody was pushed to, and then the devices are split into
  pushed and still to push. `TargetsKnown`: what a sender has yet to push to is in the audience, or has moved.
  `AtRest`: after a quiet cancel there is nothing to claim and nobody to begin an edit.
- `AccountsProofs`: all four properties of the run. `Sane` says what a request with certain things in hand may rely on.
  `OwnInv` carries the promise through a request: each record that was found, chosen or adopted (`Mine`)
  is owned by the customer at work, until a merge crosses. `StandInv`: a column names a record that is
  gone only while the request that removed it is about to overwrite it. `MoveHand`, `OwnMove` and `StandMove` carry these over a merge's
two steps. `HistoryKept` is a property of single steps
  and follows from `Sound`, action by action.
- `AddressesProofs`: all four properties of the run, and the longest argument. `Sound` and `Data` are the types with the
  two indexes. `AloneInv`: nobody but one request is about the addresses of a customer who is not `shaken`.
  `HeldInv`: a row in hand still belongs to the customer it was taken for, or its owner is shaken too. From these
  `Bystander`: a step leaves the book of an unshaken customer alone unless it is of his own request. `ReadInv`
  says that what such a request read is still so. Then `SomeInv` (some default, or the request under way
  is bound to set one) and `OneInv` (at most one, and the statement that clears saw it) give `DefaultInv`. For the
  copies: `CopyInv` (a copy the app made is tied to its row or about to be, says what the row says unless a push is
  under way or its customer has touched it at the website, and no other row is tied to it), `MadeInv` (it outlives no row), `CurrentInv` (what a push in hand will
  write is what the row says) and `KnownInv` (no import and no other request has the copy in hand).
- `BasketProofs`: all three properties of the run. `Sound` is the types with the indexes, and that the rows a merge is about to
  move are of different products. `HeldInv`: what a merge has in hand, a cart, a row or a heart, is still its customer's, gone, or
  with somebody who is `late`, as its customer then is too; `TwoMerges`: of two merges that overlap the second made its
  customers late. With these `KeptInv` (a cart has what its customer asked for, and nobody's cart is empty) is inductive. `ListInv`: a
  list is within its limit apart from what trims have picked, or is yet to be trimmed; and its last row is of the product
  viewed last and is picked by no trim. That a trim leaves at most `Limit` rows (`TrimLeavesLimit`) is counted from the
  oldest row it leaves, which has fewer than `Limit` newer ones. That there is an oldest (`Least`, `Greatest`) comes from the
  well-foundedness of strict inclusion of finite sets, in place of an induction.

**What the proofs changed.** Five statements were true of the instances TLC checks and false of larger ones, and the proofs
that failed said so. In `Accounts`, `OwnRecordsOnly` without `had` (two emails) and `HistoryKept` without
`PrimaryOfAnother` (three customers); TLC confirmed both on larger instances. In `Addresses`, a copy's id
could be given out again while a request still had it in hand, and two overlapping merges could move
two rows with one fingerprint to one customer, which needs more requests than the run has; the code has an index there.
In `Basket`, `RecentIsRecent` forgot that a merge may hand over a row that a trim of the merged customer's list has picked and
is about to delete (three requests at once); `raced` now counts that too, and TLC confirmed the old statement false.
The model now says so. The properties are stated as the code keeps them, and the runs check the new statements.

**Only model-checked**: `DueIsSent` and `SendingEnds` of `Campaign`, which are liveness under fairness and need ENABLED, out of
the prover's reach. The four counterexamples are TLC's too. Every other property of a passing run is a theorem.

## Not modelled, and not promised

Of the controllers only which route begins what is modelled; validation of bodies, throttling, headers and the
environment schema are functions of one request. The
dashboard, lists, CSV exports, audit log and health checks read, or append what nobody reads back. Of the product and
collection repositories and the address mapper the control is modelled, not the form of what they map.
Names, genders and other profile fields have
no rule but "fill if empty". Prices, and the lines of an order, are the store's.
The cache of a customer's orders lives a minute and nothing but the panel's flush clears it: `OrdersOf` is what it
shows once it has ended. The Storefront client has a fixed token and no
retry. Segments, delivery records and counts of a campaign depend on tables the campaign does not
write. `admin/influencers` is a second copy of the influencer
administration that the admin module does not wire in. Access tokens (JWT) of customers carry no state.

Six of the hazards listed have no property, since the code does go wrong there: the steps are in the models, and the
property beside them excepts exactly these cases. Most of them contradict a comment.

| Hazard | Excepted as |
|---|---|
| Two creates at once upsert the customer's first two addresses and then count two: neither becomes the default (`addresses.service.ts:72` says the first one does) | `shaken` in `SomeDefault` |
| An import takes over the default of an address book and leaves the one there was; a merge that counted no address moves a default to a target that has just got its own (`admin-customer-merge.service.ts:246` says two cannot stand) | `imported`, `shaken` in `OneDefault` |
| The server stops between the creation of a copy at the store and `markSynced`; a second copy is made later | `stale` in `OneCopyOfEach` |
| A device that changes hands after a campaign's targets were read gets the message of its old holder, and is deleted as invalid whoever has it by then | `moved` in `OnlyItsAudience` |
| A rejection that read the application while it was pending overwrites its approval, and the creator remains (`admin-influencer.service.ts:378-379` says nothing is overwritten silently) | `contested` in `CreatorsAreApproved` |
| A flush of everything clears lists only: the entries of single products and collections stay as old as they were, and so does home (`admin-system.service.ts:155` says the flush is for old prices) | `late` in `CacheIsFresh`, which bounds how old |

Other properties hold apart from a race that the code does not decide. Lines and hearts written while a merge is
moving them, or for a customer who is merged already, are lost (`late` in `Basket`). An entry stored after the invalidation
from what was read before it may be behind until it ends (`late` in `Content`); that this is bounded, also for
home, which embeds such entries, is what is checked. A load of the store's token that was begun before the 401 may put the rejected token back
(`crossed` in `ShopifyToken`), and the one retry then fails. Rotations of one token and issues of codes for one purpose that
overlap give up what `RotationIsLinear` and `OnePendingCode` say.

Two more races change nothing that anything promises. A double tap on a heart is refused by the unique index (`CreateHeart`), which changes nothing; only the answer 500 is not what
`docs/mobile-app-integration.md:186-187` says. A trim of the products viewed last deletes by id what it read, also a
row that was viewed again or handed over since: `RecentIsRecent` states what holds apart from that.

## Plan

Every module of the plan is written, and the safety of every module is proved. What may follow is breadth: the
registration of devices beside a campaign's pruning as a component of its own, and segments, once something is promised of them.

## Running

`tlc -config MCSessions.cfg MCSessions.tla`, and likewise for the other configurations;
`tlapm SessionsProofs.tla`, and likewise for the other modules whose name ends in `Proofs`, for the proofs;
`AddressesProofs` and `ServerProofs` take the longest.
