# MPC wallet: verification project

TLA+ models of the MPC wallet in `src/`: what its parts do, checked with TLC on
small instances and, where marked, proved with TLAPS for every value of the
constants. Line numbers are those of the commit the project was written against.
`PROJECT.json` lists the runs, the code each definition stands for ("map"), the
mutants that show that each property can fail, and the hazards.

To repeat a check: `tlc -workers 2 -config MCKeygen.cfg MCKeygen`, and the
like for each row under "Runs". To repeat a proof: `tlapm CeremonyProofs.tla`.

## 1. Inventory

The system is a wallet whose private key exists only as three shares. A React
client talks to a Go backend; the backend asks a threshold-signature service
(TSS), three nodes, to generate keys and to sign; a worker watches the chain.
The client also has pages for services that are not in this repository (cards,
vouchers, bills, connected applications, organizations).

| Part | State it keeps | Operations | Talks to |
|---|---|---|---|
| **TSS ceremony** `tss/server`, `tss/party` | per node: the `parties` map, and per Party `params`, `closeChan`, `in`, `out`, the tss-lib party | `NotifyAction` (init / start keygen, init / start sign), `StreamMessages`, `KeyGen`, `Sign`, `sendMessages` | other nodes (gRPC), Redis, share tables |
| **TSS process and connections** `tss/main.go`, `tss/server/server.go` | `peerConns`, one stream per peer | start of all nodes, `ConnectToPeers`, `getPeerConnection`, `sendToPeer` | gRPC |
| **TSS share store** `tss/db` | one table of encrypted shares for each of nodes 2 and 3 | get, upsert | Postgres |
| **TSS node selector** `tss/server/node_selection.go` | table of nodes and loads | register, select | nobody calls it |
| **Backend TSS client** `backend/pkg/tss` | none; one Redis subscription per call | `CreateWallet`, `Sign` | TSS coordinator, Redis |
| **Transfers** `backend/internal/service/transaction.go` | `transactions` table | `CreateAndSubmitTransaction`, listing | TSS client, Ethereum node, Postgres |
| **Accounts** `backend/internal/service/{auth,user,wallet}.go` | `users`, `wallets` tables | signup, login, refresh, current user | TSS client, tokens, Postgres |
| **Tokens** `backend/pkg/token` | `token:refresh:<user>` in Redis | generate, verify, revoke | Redis |
| **Block worker** `backend/cmd/worker` | `monitored_addresses` in Redis | scan the latest block, reload the set | Ethereum node, Redis, Postgres |
| **Organizations** `backend/internal/service/organization.go` | organizations, API keys, usage rows | keys, monthly limit, usage | Postgres; its middleware is on no route |
| **Client requests** `client/src/config`, `redux/features/api` | access token in the store, `isRefreshing`, `refreshSubscribers` | request, refresh, queue, retry, sign out | backend |
| **Client sign-in** `client/src/pages/authentication`, `redux/auth`, `components/setting/profile_tab.tsx` | the auth slice, persisted; the pages' own `isLoading`; timers | sign in, up and out, verify, recover, set a code | requests, store |
| **Client transfers** `client/src/pages/transfer`, `pages/receive`, `components/transfer` | cached profile, wizard and link form, dialog | choose, search, type an amount, confirm with a code | requests, caches |
| **Client cards and money** `client/src/pages/credit-card`, `pages/deposit-withdraw` | cached list, forms, modals, dialog, late navigation | add and delete cards, deposit, withdraw | requests, caches |
| **Client bills** `client/src/pages/payment`, `components/payment` | cached bill, total, voucher, two drawers | apply a voucher, pay | requests, caches |

**How a wallet is made.** The client posts a signup. `AuthService.Signup` writes
a `users` row, and calls `CreateWallet` with the new user's id as session id.
The TSS client calls `NotifyAction(INIT_KEYGEN)` at the coordinator, which
returns at once, and only then subscribes to the session's Redis channel. The
coordinator notifies its connected peers; every node makes a Party and goes
through the protocol's rounds on the messages streamed to it. The coordinator
publishes the address and its own share; the peers upsert their shares and
report to nobody. The backend writes the `wallets` row and answers with the
coordinator's share, which the client keeps.

**How a payment is made.** The client sends the share with the request. The
backend checks the balance, reads the pending nonce and the gas price, has the
transaction's hash signed in the same way (session id: the user's id again),
checks the signature against the wallet's address, sends the transaction, and
writes a `transactions` row. Nothing keeps two requests of one user apart.

**What is hard about it**, and what makes each part correct:

- *Ceremony.* Every node's handler, protocol start and sender are goroutines of
  their own, and so is every single send: messages meet nodes that have no
  Party yet, a Party that is not set up, or one that is gone. The loops run
  under `context.Background()` and never time out. Correct means: rounds stay
  together, nothing is published or stored that some node did not take part in,
  and a ceremony completes unless something on a complete list went wrong.
- *Parties map.* One entry per session id, and the session id is the user's:
  two payments, or a retry, share a Party, its channels and its `closeChan`.
  Correct means: ceremonies that do not overlap do not touch each other.
- *TSS client.* Subscribing after notifying can miss the answer; a result on
  the channel does not say which request it answers. Correct means: a call
  ends, and hears another's result only after overlapping it or missing its own.
- *Transfers.* Nonce read, signature (seconds) and send are not atomic, the
  client gives up after 10 s, and the node's answer can be lost. Correct means:
  only signed transactions reach the chain, success and error mean what the
  user takes them to mean, and a payment tried again is not made twice, except
  after failures that leave the outcome unknown.
- *Accounts.* Three writes in two databases without a transaction; the share is
  in one response and nowhere else. Correct means: shares and wallets are never
  crossed or doubled, and half an account is left only by a failure.
- *Tokens.* A refresh verifies, deletes and sets in three calls of Redis, each of
  which may fail, applied or not. Correct means: a token that was exchanged or
  refused is never accepted again.
- *Worker.* The latest block is polled with no memory of the last; the
  monitored set is emptied before it is filled.
- *Client requests.* Requests queue behind a refresh that may fail or queue behind
  itself, and the query client refreshes without a lock. Correct means: one
  refresh at a time, queued requests go on, a valid token is not removed by a
  request that knows nothing of it.
- *Client pages.* Every answer, timer and poll comes after whatever the user did
  meanwhile: typed on, left the page, came back, loaded it anew, sent again.
  State is copied from caches that another account or another link has filled.
  Correct means: what is sent is what was checked and shown, and a form that
  waits waits for something.

## 2. Plan

Most important first; each line is a module and what it EXTENDS or INSTANCEs.

| | Module | Status |
|---|---|---|
| 1 | `CeremonyBarrier`: what one ceremony promises | done |
| 2 | `Ceremony`: one ceremony (implements `CeremonyBarrier`) | done |
| 3 | `Keygen`, `Sign`: the two uses of `Ceremony` | done |
| 4 | `CeremonyProofs`: both of them | done |
| 5 | `SharedParty`, `SharedPartyProofs`: ceremonies of one session id | done |
| 6 | `TssClient`: the backend's calls | done |
| 7 | `PaymentLedger`: what a user is promised of transfers; `Transfer` (implements it), `TransferProofs`; `AccountRegister`: what signing up promises; `Accounts` (implements it), `AccountsProofs` (`Transfer` and `Accounts` EXTEND `TssClient`) | done |
| 8 | `TransferPages`, `TransferPagesProofs`: the client's transfer wizard and links | done |
| 9 | `TokenRefresh`: both clients' handling of a 401 | done |
| 10 | `CardPages`: cards, deposits and withdrawals; `ClientProofs`: this one and 9 | done |
| 11 | `Session`, `SessionProofs`: sign-in pages, store, sign-out | done |
| 12 | `Payment`, `PaymentProofs`: bills and vouchers | done |
| 13 | `Tokens`: refresh tokens in Redis (proofs in `AccountsProofs`) | done |

Still worth having: an abstract specification of the parties map that
`SharedParty` implements; the connections of the TSS nodes; the worker, once it is
decided what it promises.

## 3. The models and the code

### `Ceremony`, `Keygen`, `Sign` (one ceremony of one session id)

Handlers are program counters: `pc[n]` is where node `n`'s goroutine is in
`handleKeygen` / `handleSign` (`tss/server/keygen.go`, `sign.go`).

| `pc` | in the code |
|---|---|
| `idle` | not notified |
| `notifying`, `declined` | the coordinator in `notifyPeers`; it gave up after an error |
| `spawned` | the goroutine of `NotifyAction` runs |
| `created` | `getOrCreateParty` has put the Party in the map |
| `ready` | `Init` has run and started `sendMessages` |
| `looping` | the select loop of `KeyGen` / `Sign` |
| `ended`, `closed` | the result was on `end`; the function returned and closed `closeChan` |
| `removed` | `removeParty` has run |
| `done`, `unsaved` | the result was published or stored, or that failed |
| `aborted` | `Sign` could not load the share |

`round`, `got` are the tss-lib party, `inbox` is `Party.in`, `sent` and `sender`
the `sendMessages` goroutine, `net` the messages in `sendToPeer` goroutines and
gRPC. `published` and `stored` are what Redis and the share tables were given.
tss-lib is external and abstracted to its use: a party leaves a round when it
holds that round's message from every other node, possibly several rounds in
one `UpdateFromBytes`. All of a round's messages from one node to another are
one message. All nodes are goroutines of one process (`tss/main.go`), so a panic
stops everything (`Up`).

`trouble` is a history variable: the faults of the environment (`Faults`:
unconnected peers, failed notifications, lost messages, missing pre-parameters
or shares, failing output) and the mishaps of the code's own interleavings (a
message before the Party exists, or before it is set up, or after it is gone; a
sender that stops with messages queued). Liveness is stated relative to it, so
that the list of ways to hang is itself checked.

### `SharedParty` (several ceremonies of one session id at one node)

The same code seen from one node's `parties` map. A Party and a `closeChan` are
named by the run that created them, so that sharing is visible: `mapped` is the
map's entry, `party[r]` what run `r` was handed, `captured[r]` the channel its
deferred `close` evaluated, `watched[r]` the channel its sender's `select`
evaluated. The other nodes are one peer that answers a round with a round. A
foreign run's message is either rejected by tss-lib or taken in the place of its
own (`TakeForeign`); both outcomes are allowed. What becomes of the goroutine that
each `Init` starts is `SendersEnd`: that of a run that finished ends unless another
run's `Init` replaced the channel, and that of a run that could not load its share
leaks, unless a run that was handed the same Party closes its channel.

### `TssClient` (the backend's calls)

`CreateWallet` and `Sign` of `backend/pkg/tss/tss.go` are the same call to this
module: `Notify`, `Subscribe`, the wait, and the end of the context. `call` is the
state of the backend's call, `ceremony` that of the service's ceremony, `heard`
whose result came on the channel first. Redis is external: it delivers to those
subscribed at that moment, and a lost connection is a window (`Reconnect`).

### `Transfer` and `Accounts`

Each is one HTTP handler, several requests of it at once, composed with
`TssClient` by EXTENDS: a handler's step that makes the call conjoins `Notify`,
the others leave `tssVars` alone, and `TssStep` does the reverse.
`CreateAndSubmitTransaction` is `CheckBalance`, `CreateTransaction`,
`RequestSignature`, `ConvertSignature`, `SendTransaction`, `CreateRecord`;
`Signup` is `CheckEmail`, `CheckAgain`, `InsertUser`, `RequestKey`,
`InsertWallet`, `GenerateTokenPair`, `Respond`. `GiveUp` is the client closing its
connection, which cancels the request's context: whatever is next given that
context fails (`Cancelled`). The Ethereum node is external: a pool with one
transaction per nonce, replaced only at a higher gas price, and a chain.

A second request for a payment is possible at any time: the client's dialog covers
its input while it loads, but that stops the mouse and not the keyboard, and the
backend's answer has its data under `payload` where the dialog reads `data`, so a
payment that succeeded leaves the dialog as it was.

`PaymentLedger` says what all of this is to the user, with no nonces, gas,
ceremonies or Redis: a request is new, open, handed to the node, and answered, and
what its answer says and what the node has may differ only for requests on record.
`Transfer` implements it: a request is open from its first check until its
transaction is accepted by the node (`LedgerStatus`), `node` is the pool,
`chain` the mined transactions, and the records are read off `trouble`
(`InDoubt`; `concurrent`, `again` and `evict`). Everything the TSS service does is a
stutter of the ledger.

`AccountRegister` does the same for signing up: an address is claimed, its account
opened with a key, the client granted that key's share, and a signup that ends with
less has claimed nothing or is `excused`. In `Accounts` the claim is the users row,
the key the address in the wallets row (`Keys`), the share what is in the response,
and excuses are troubles of the handler and mishaps of its call (`Excused`).

### `Tokens` (the backend's refresh tokens)

One user's key in Redis and the requests that write it: `SignIn` (a login or a
signup that passed its checks) or `VerifyToken` of a refresh, then `Revoke`,
`Sign`, `Store`, `HandOut`. Each Redis call is a step with a failing twin that may
have been applied or not (`RevokeFails`, `StoreFails`, `VerifyFails`). A JWT has no
nonce and its times are whole seconds, so a token *is* the second it was made in;
two requests in one second make the same token (`Twins`). The clock is `now`,
which stops at `MaxTime`.

### `TokenRefresh` (the client's requests)

`createAxios` (`AxiosRefresh`, `AxiosQueue`, `AxiosRefreshed`, ...) and
`baseQueryWithReauth` (`QueryRefresh`, ...) share the store's token. An axios
retry goes out with the token its instance captured, as the request interceptor
sets the header again; only an instance created without a token leaves the header
of the retry alone. Who answers is a choice of the behaviour, `service`, named by
the field a new token is in. `payload` is this repository's backend: its handler
wants the refresh token in the body, neither client sends it, and it refuses
every refresh with 400, so that a query whose token has expired signs the user
out, and an axios request fails with all that wait behind it. `data` and
`accessToken` are external services that know the user by a cookie, for which the
two clients are written: axios reads `response.data.data`, the query
`accessToken`, and each stores nothing when the other's field comes (`Given`).
Those may also refuse with 401, which makes the interceptor queue the refresh
behind itself (`AxiosStuck`), or answer with a 2xx that is no 200 (`AxiosLeft`).

### The client's pages: `TransferPages`, `CardPages`, `Payment`, `Session`

Each has `page`, what is on the screen, the state of the mounted components, which
goes when the page does, and the state that survives it: caches, the persisted
store, requests and timers under way. A request is a member of a set; `ours`, `mine` or
`here` holds those the mounted component sent, since only their answers reach its
setters. `Load`, `LoadPage` and `OpenLink` are page loads, which drop requests and
timers. What a user may do at any time is an action without further guard;
anything the code disables is a guard. Services outside the repository are the
nondeterministic answers the pages wait for. `api` in `TransferPages` is the
shape of the answers: `payload` (this backend) or `data` (what the older pages
read); a page that reads a missing field while it is drawn breaks (`Break`).

- `TransferPages`: the profile's cache (persisted, so it may be another account's),
  the search with its debounce timer, `dataSend` as `form`, the dialog. `unsure` in
  a form records that the profile was still being fetched when it was copied, and
  `fell` that the balance a link's page polls fell under the open dialog.
- `CardPages`: the list and its polls, the card form with the CVC length that its
  handlers set, the deposit and withdrawal modals that stay mounted, the dialog,
  and navigations that a timer makes later. Amounts are classes (`NaN` is one).
- `Payment`: the bill's query, whose function sets the page's total; the voucher
  drawer, whose handler reads its input again after the answer (`value`, against
  the `code` that was sent). `slips` records the ways total and voucher may part.
- `Session`: the pages under `/auth`, the profile form and the sign-out with its
  timer of one second; `fetching` is the `isFetching` that redux-persist keeps.
  `orphaned`, `stuck`, `crossed` and `outlived` record what the code leaves behind.

## 4. Runs

| Run | Instance | What it shows |
|---|---|---|
| `keygen` | 3 nodes, node 1 coordinating, tables at 2 and 3, 3 rounds, every fault | `ImplementsBarrier`, `OutputNeedsEveryone`, `OnlyLastRoundDiscarded`, `NoneDroppedLate`, `KeygenCompletes` |
| `keygen_result` | the same, no fault | a violation: `PublishedMeansComplete` (section 5) |
| `sign` | 3 nodes, 4 rounds, any stored shares; peers not connected, messages lost, shares not loaded | `ReturnNeedsEveryone`, `SignatureNeedsEveryShare`, `AbortBlocksEveryone`, `SignCompletes` |
| `shared_party` | 2 ceremonies of one session id, 2 rounds | `LoneRunsShareNothing`, `FinishedLeaveNothing`, `SendersEnd`, `RunsFinish` |
| `transfer` | 2 requests of one user, for one payment or two, gas prices 1 and 3, a balance of 6 for payments of 1 and 3, every fault | `AcceptedIsSigned`, `ErrorMeansUnpaid`, `PaidOnce`, `OkIsPaid`, `OthersResultNeedsMishap`, `ImplementsLedger`, `RequestsEnd`, `LoneRequestsPaid` |
| `accounts` | 2 signups, with one address or two, every fault | `HeldShareFits`, `AllOrNothing`, `ImplementsRegister`, `SignupsEnd` |
| `transfer_pages` | 2 accounts, 2 links, 4 texts, amounts 0 to 2, balances 1 and 2 (0 before the answer), 2 requests | `FromOwnWallet`, `PaysTheLink`, `SentAsChecked`, `LoadingIsPending` |
| `token_refresh` | 3 requests, one or two of them of the axios client, expiring tokens, this backend or a service of either client's kind, every way to refuse | `OneRefresh`, `OnlyOlderSignsOut`, `QueuedResume` |
| `card_pages` | 2 cards, 2 currencies, requests slow or failing, cards removed elsewhere | `SubmittedFits`, `MovedInBounds` |
| `session` | 4 requests of ten kinds, page loads and links at any time | `BlockedFormWaits`, `SignOutSettles` |
| `payment` | 2 listed vouchers (one usable), an empty code, 2 applications, 1 payment | `ShownIsCharged` |
| `tokens` | 4 requests, lifetime 2 s, 4 seconds | `SpentIsRefused` |

**Bounds.** Three nodes is the deployed number and the smallest where two peers
can be at different points. tss-lib's keygen and signing have more rounds than
the runs; three rounds are a first, a middle and a last one, and the discarded
last round, the skew of one round and the reordering of rounds need no more.
The theorems do not depend on either. Two ceremonies, requests or signups are
enough for every interference between a pair, and the properties relate pairs.
The balance of 6 covers either payment at either gas price (at most 3 + 3), and
two at some of the prices only, so `Covered` is decided both ways. Balances of 1
and 2 let a polled balance fall below an amount that was checked, and rise.
Rounds, requests and messages are finite sets. Two counters are bounded:
`MaxTokens` of `TokenRefresh`, the access tokens the service makes, which is enough
for a sign-in, two refreshes, or a refresh with a sign-in before and after it; and `MaxTime` of
`Tokens`, one second more than it takes a token to be made, exchanged and to
expire. Three requests let a refresh fail while one waits behind it and another
client refreshes; four sign-in requests are a sign-in, a sign-out, a second
sign-in and a second sign-out, the shortest that crosses; a double payment, a
stale answer and an answer to a page that is gone need two requests each. The
resends of `Session` are limited to three by the code.

**Deadlock** is not checked, because all of these systems may stop: a ceremony
that completed or hangs, users that have nothing more to ask, pages that wait for
their user. That they stop
only where they should is what the liveness properties say.

**Fairness.** Weak fairness of the steps of each goroutine that is running: Go
schedules runnable goroutines, and a goroutine with several enabled `select`
branches may take any of them for ever only if they stay enabled, which in these
loops they do not, as messages are finite. Delivery is weakly fair because gRPC
delivers or fails, and failing is a fault of its own. The backend's wait for a
result ends because its context has a deadline (`tss.go`, five minutes); its calls
to the Ethereum node and to Postgres have none of their own, and are assumed to
return, with an error or without (`RequestsEnd` and `SignupsEnd` rest on it). In
`TokenRefresh` the client's 10 s timeout makes it sure that a refresh of the axios
client ends, answered or not, so the end of a refresh is weakly fair; that a stuck
one never ends is not assumed away (`AxiosStuck`, `AxiosLeft`). The pages have no
liveness properties: nobody has to click. Nothing is assumed of
clients, of faults, or of anything outside that may simply not happen; a
transaction that the node may mine is mined.

**Mutants.** Every property of a passing run has a mutated definition in
`PROJECT.json`, a bug such a code could have (a dropped guard, a deferred close
that is missing, a context that times out, a column that is not unique), under
which TLC finds the property violated in the same run.

## 5. Findings

**A published key may never be complete** (`keygen_result`). `tss/client/README.md`
line 30 says that the client "Waits for the distributed key generation to
complete". The run has no fault of the environment and shows the address
published while no peer ever stores a share: each message is sent by its own
goroutine (`tss/server/helper.go:142`), so the coordinator may already hold the
others' last round when its own previous round completes, and finish in one
update. `KeyGen` then returns and closes `closeChan` (`tss/party/party.go:355`)
while its own last message is still queued on `out`. The `select` in
`sendMessages` may take the closed channel, and the message is never sent. Both
peers wait for it for ever, without a deadline. `OnlyLastRoundDiscarded`, proved,
says that this is also the worst that can be dropped in this way.

The passing runs show, among their exceptions, behaviour worth knowing:

- a second ceremony of the same user, overlapping the first, is the only way
  two runs get at one Party (`LoneRunsShareNothing`), and it can close one channel
  twice, which panics the process;
- the answer of the TSS service can be missed by the subscription that follows
  the notification; the call then ends in its deadline although the service
  succeeded, and a later call of the session can hear a result that is not its own
  (`OthersResultNeedsMishap`). For a transfer the check against the wallet's address
  makes that harmless (`AcceptedIsSigned`); for a signup the fresh session id does
  (`HeldShareFits`);
- a client that gave up, or a record that failed, leaves the user with an error
  for a payment that was made, and only these do, together with a lost answer of
  the node (`ErrorMeansUnpaid`); a payment is made twice after one of these, or when
  it is sent again without waiting for an error (`PaidOnce`);
- two payments at once may get one nonce, and the answered one be replaced
  (`OkIsPaid`);
- an address whose signup failed after `InsertUser` is taken, without a wallet,
  for ever (`AllOrNothing`; in `AccountRegister`, a claim that fails and is kept);
- a page load while a login is under way leaves the login form disabled for good,
  as `isFetching` is persisted and the request is gone (`BlockedFormWaits`,
  `orphaned`); a failed request for a lost password leaves its form disabled until
  the page is left (`stuck`);
- the timer of a sign-out removes whatever token the store has by then, that of a
  later sign-in included (`SignOutSettles`, `crossed`);
- a voucher's code edited while its application is under way is the one that is
  paid with, under the amount of the other (`ShownIsCharged`, `edited`); a refetch of
  the bill sets the total back and leaves the voucher (`refetched`);
- two refresh tokens made in one second are one token, so an exchanged one may go
  on being good (`SpentIsRefused`, `Twins`);
- no refresh that this repository's clients send to this repository's backend
  succeeds: a query's first expired token signs the user out (`TokenRefresh`,
  service `payload`);
- requests that were queued when a refresh failed stay queued, and a refresh
  refused with 401 waits for itself (`QueuedResume`, `dropped`, `stuck`); a request
  older than the store's token removes it, valid or not, when its own refresh
  fails (`OnlyOlderSignsOut`, `crossed`);
- the sender goroutine of a signature whose share cannot be loaded waits for ever,
  unless another run of the session overlaps (`SendersEnd`, `LeakedSendersWait`);
- on a receive link's page a payment may exceed a balance that fell after the dialog
  was opened (`SentAsChecked`, `fell`), and one made through this repository's
  backend leaves its dialog open, ready to send again (`PaidIsUnseen`);
- an account's wallet may still be named by another account's form when the
  profile's refetch is slow (`FromOwnWallet`, `unsure`).

## 6. Proofs

Everything below is checked by `tlapm` down to the last leaf. The only
assumptions are the named ASSUMEs on constants, which TLC evaluates in the runs:
the coordinator is a node, there is at least one peer, share tables belong to
peers, there is at least one round, the faults are among those named
(`Ceremony`); the map's "no entry" is no run, and there is at least one round
(`SharedParty`); calls are finitely many, and "nothing heard" is none of them
(`TssClient`); plans are for payments (`Transfer`); every signup has a session
id of its own, as the code makes it from a new user's id (`Accounts`); in the
client's modules and `Tokens`, that `None` is none of the values it stands
beside, that prices and amounts are numbers, and that the two kinds of requests
of `Payment` are disjoint.

**One ceremony** (`CeremonyProofs`). The invariant `CeremonyInv` is inductive, and
is preserved by each action the two ceremonies share (one lemma per action), and
by the actions of each. Its parts:

- `SentFirst`: nothing is on the network, in an inbox or in a party that its
  sender has not sent, and a sender sends only what its party has reached;
- `RoundsCollected`: a party holds every message of every round it has left.
  With `SentFirst` this yields the barrier: to leave round `k`, everyone else must
  have sent, so reached, round `k`;
- `StageRounds`, `SenderStops`, `ResultReturned`: tie the handlers' positions to
  the rounds, so that "returned" means "past the last round";
- `DeliveredOnce` and `NoneDroppedLate`: a node that has finished has every
  message already, and no second copy is under way;
- `CeremonyTypeOK`.

From it: `KeygenTypeCorrect`, `KeygenOutput`, `KeygenDiscard`, `KeygenNoLateDrop`,
`KeygenBarrier` (the refinement: initial states map to initial states, every
step to an `Enter` or a stutter), `KeygenSkew`, and for signing `SignReturn`,
`SignShares`, `SignAbort`, `SignDiscard` and `SignBarrier`, the same refinement (these two are not repeated
in the run `sign`). Each of the two adds what it needs about its own steps: key
generation, that a stored share's handler is through (`StoredReturned`); signing,
that a node in its loop, or past round 0, could load its share (`SharesLoaded`,
`LoopLoaded`).

**Several ceremonies** (`SharedPartyProofs`). `SharedInv` is `SharedTypeOK`,
`StageSets` (each stage has behind it what earlier ones set) and `OneInside`
(without an overlap, one run at a time has the map's entry, its Party and its
channel to itself, and the channels of others are not its own). It is needed
because `LoneRunsShareNothing` alone says nothing of the entry when nobody is
inside, and that is what the next run finds. `SharedTypeCorrect` and
`SharedLoneRuns` follow. `TrafficInv`, beside it, follows the messages: each
arrives once, in one Party, and is taken by its run once, and a run passes only
rounds whose messages it took. So a run that finished took them all, and
`SharedFinished` holds with overlaps too. `ClosersReturned` (a sender stops on a
closed channel, and who closed it had captured it and returned) gives
`SharedLeaked`, the part of `SendersEnd` about runs that failed.

**Transfers** (`TransferProofs`). `TransferInv` has two layers. `CallInv` is about
the calls: two ceremonies of a session that have not ended know of each other,
and a call that waits for a published result has missed it (`OverlapsKnown`,
`MissesKnown`). When another's result comes first, one of the two applies, which
is `TransferOthersResult`. Above it, `Stages` keeps a transaction fixed from its
signature on: only a handler whose call is not made yet may change it, and no
ceremony of such a call has been published. This carries `TransferSigned`
past the comparison of addresses, and with the trouble on record `TransferError`.
`RepeatsKnown` (two requests for one payment that have not failed know of each
other) and `TransferError` give `TransferPaidOnce`. For `TransferOk`, `RivalsKnown`
says that a handler with a transaction of the pool's nonce was active beside
it. It needs that `PendingNonce` is a free nonce: requests outnumber the
transactions in the chain and the pool, a count over finite sets
(`PendingNonceFree`).

`TransferLedger` is the refinement: under `TransferInv` each action of `Transfer` is
one of `PaymentLedger`, or leaves what the ledger sees alone. The step that says
something is the submission: what the node drops for the new transaction had its
nonce, so by `RivalsKnown` the ledger has it as crossed. `LedgerPromises` proves
the promises from the ledger alone, by `LedgerInv`, and `TransferPromises`
combines the two: a second and shorter argument for `ErrorMeansUnpaid`, `OkIsPaid` and
`PaidOnce`, in which only the refinement knows of nonces and signatures.

**Accounts** (`AccountsProofs`). With a session id of its own a call hears its own
ceremony or nothing (`CallFacts`); `Rows` ties the handlers' positions to the rows
in `users` and `wallets`, and `Stages` to the share. `AccountsHeldShare`,
`AccountsOnePerEmail` and `AccountsAllOrNothing` follow. `AccountsRegister` is the
refinement: what it takes from the invariant is that who inserts a row finds the
address free at that moment, and that the address written and the share answered
are what the call heard, which is its own. From the register alone follow its
promises about states (`RegisterPromises`) and about steps (`RegisterKept`: no claim,
key, share or answer is ever taken back); `AccountsPromises` carries both over.

**The client's pages.** `PagesInv`, `SessionInv` and `PaymentInv` are inductive; each
proof has a lemma per action, and under it a step per group of conjuncts.

- `TransferPagesProofs`: `Admitted` (on the search and amount pages the profile is
  the user's own, or is being fetched, or could not be; the cached answer of a
  link's query is the one of this document's link) carries `FromOwnWallet` and
  `PaysTheLink` to the moment a form is copied; `DialogFits` ties the open dialog to
  a form whose checks still hold, but for a balance that fell, and to requests none
  of which it knows to be paid. `PagesSentAsChecked`, an action property, follows, as
  only the open dialog sends.
- `SessionProofs`: `Forms` (a blocked form's request is among `ours`, and these are
  of the page on the screen), `Store` (a token came with an answer and admits the
  page) and `SignOuts` (while a sign-out is under way the store has its token, none,
  or a crossed one) are what the two properties need from each other.
- `PaymentProofs`: the total of the page fits its voucher whenever the bill is on it
  (`TotalFits`), so the body of a payment fits too.

- `ClientProofs`, `TokenRefresh`: `UncrossedKnows` says that until its own refresh is
  answered a call finds in the store the token it was sent with, or none, unless it
  was crossed, and that what is refreshed was refused. So a refresh whose end removes
  a token that is still good was crossed, which is `RefreshOlderSignsOut`, an action
  property. `RefreshOneRefresh` holds from the flag alone.
- `ClientProofs`, `CardPages`: once a card has a number, its type and the length of
  its CVC are those of the number (`AddInv`), and nothing under an open dialog
  changes (`MoveInv`); these give `CardsSubmittedFits` and `CardsMovedInBounds`.

**Refresh tokens** (in `AccountsProofs`). `TokensInv` adds to `SpentIsRefused` that a
token in a client's hands was answered to somebody, and that a refresh which has
revoked the token it brought sees it accepted again only as a twin. A request
signs once, so twins stay twins; storing a token that somebody holds makes it one.

**Only model-checked:** all liveness (`KeygenCompletes`, `SignCompletes`,
`SendersEnd`, `RunsFinish`, `RequestsEnd`, `LoneRequestsPaid`, `SignupsEnd`,
`QueuedResume`), which under fairness is beyond the prover. Every invariant and
every refinement a passing run checks is a theorem.

## 7. Not modelled

- The cryptography: tss-lib, hashing, encryption, the DER and RLP encodings. A
  signature is modelled by which ceremony made it over which transaction.
- Reads that change nothing: listings, assets, the current user. (Its cached
  entry cannot go stale: nothing updates a `users` or `wallets` row.)
- `GoogleOauth`, organizations and the API-key middleware are on no route; the node
  selector and `RevokeAllUserTokens` have no caller. (The latter looks for
  `token:<user>:*` where the keys are `token:refresh:<user>`.)
- The worker: a loop over the latest block, with a monitored set that is emptied
  before it is filled. The repository does not say which transfers it has to
  record, and recording each one fails on the shape of the loop.
- The connections between TSS nodes, beyond that a peer may be unconnected and a
  send may fail: start-up order, cached streams, the race of two dials.
- Client pages that only show what a service answers: history, details, receive,
  connected applications, the business pages; and the two forms of the security
  settings, one request each. (Of these, `change_security_code.tsx` compares the
  code with a field `confirmNewPassword` that the form does not have.) What is
  typed into the forms of `Session` is left out, as an invalid form changes nothing.
- Generated code, configuration, logging, formats and the pages' layout.
