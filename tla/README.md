# Verification of the IBS Go SDK

`src/ibs` is a Go client for the IBS card provider. It keeps almost no state of
its own; what is hard about it lies between goroutines (initialisation), between
the caller, the SDK and the API when messages are lost (money), between
operators who act on stale lists (transactions), between the API and the service
that receives its callbacks (signatures, time), between a service and
orders that are settled long after the call (activations), and between goroutines
that change the same cards with calls that may be carried out late
(administration). The modules here model those six protocols, check them with TLC
and prove the central results with TLAPS.

## Inventory

| Component | Code | State | Operations | Interacts with | Hard part | What makes it correct |
|---|---|---|---|---|---|---|
| Initialisation | `client.go:28-162` | `globalOnce`, `global`, the configuration object, each client's pointer to it | `Configure`, `Configured`, `New`, `WithUser`/`WithCard`/`WithUserAndCard` | every goroutine of the process | racing calls, an option that panics inside the `Once` | no client sees a half-built configuration, a loser waits, one write in the life of the process |
| Request pipeline | `client.go:166-405` | none between calls | `requestAPI`, `requestAPIWithIdempotency`, `classifyStatus`, `IsAPIError`, `IsDuplicateIdempotencyKey` | `net/http`, proxies, the API | an error does not tell whether the request was executed; `net/http` re-sends some requests on its own | each error value means what its comment says |
| Balance operations | `card_balance.go` | the caller's store of keys and ids | `CardBalance`, `CardBalanceIdempotent`, the retry pattern of `card_balance.go:49-60` | pipeline, the server's idempotency records | lost answers, crashes, concurrent retries, operations that stay pending | a key moves money at most once, with its own sign and amount; a 409 means accepted; not pending means done |
| Card transactions | `card_transactions.go` | the list each operator last saw | `ListTransactions`, `ConfirmTransaction`, `ReverseTransaction` | pipeline, the server's card lock and status check, reverse callbacks | stale lists, no idempotency key, a callback that comes before the reversal | a nil error is the operator's own success; reports never contradict each other; a list shows what its query asks for |
| Callback verification | `callback_verify.go` | `r.Body` of the request in hand | `VerifyCallbackRequest`, `VerifyCallbackSignature`, the three parsers | IBS, the network, two clocks, the service's handlers | delay, repetition, damage, clock difference | accepted means genuine and recent; genuine and in time means accepted |
| HMAC message | `client.go:166-196`, `callback_verify.go:113-132` | none | `sign`, `signCallbackBody`, `newNonce` | both directions | field boundaries | signer and verifier sign the same bytes; the message determines its fields |
| Card creation | `card_create.go` | none; the service keeps the order number | `VirtualCard`, `PhysicalCard`, `parseCardOrPending` | pipeline, orders at the server | an order that is pending, retries without a key | exactly one of card, pending order, error; no second order for one activation |
| Activation dispatcher | `callback.go` | none | `Callback` | card creation | a pending order becomes an error | a pending order is never handed out as a card |
| Pending activations | `card_pendings.go` | none | `GetCardPendings` | pipeline, orders at the server | the listing is stale when it is used; the server's spelling of a status | every pending order the filters cover is listed, no rejected one is |
| Card queries | `card.go`, `card_ledgers.go`, `card_prices.go` | none | `GetCardInfo`, `GetCardLedgers`, `Prices` | pipeline | the scope of a client becomes path segments | a lookup shows what its scope stands for, no more and no less |
| Card management | `card_manage.go` | what the service believes of each card | `AddCard`, `UpdateCardInfo`, `DeleteCard` | pipeline, the registry at IBS, settings | partial updates of one card by several goroutines; calls carried out after their caller gave up | an error says what became of the request; what nil errors say of a card is so |
| Card settings | `card_settings.go` | the same | `CardEnable`, `CardATM`, `ChangePIN`, `SendPIN`, `ChangePhone`, `UpdateOwnership`, `UpdateUserOwnership` | pipeline, the registry at IBS, management | an owner that changes under a client; a transfer of all cards racing with changes of one | as for management; the count returned is what this call transferred |
| Package documentation | `doc.go`, `src/README.md` | none | none | none | statements about the code | see the runs that expect a violation |

## Modules

| Module | What it is |
|---|---|
| `Configure` | initialisation, one action per step of `Configure` and per user call |
| `ConfigCell` | abstract specification: a cell written at most once |
| `ConfigureProofs` | proofs about `Configure` |
| `RequestAPI` | the response half of the pipeline as operators: status classification, envelope, decoding, error values |
| `CardBalance` | balance operations, request half of the pipeline, caller, network, server |
| `OnceLedger` | abstract specification: a ledger that applies each key at most once, at once or after it was pending |
| `CardBalanceProofs` | proofs about `CardBalance`: keys, requests and the ledger |
| `CardAnswerProofs` | proofs about `CardBalance`: what the caller is told and what it concludes |
| `Queries` | the parameters of `ListTransactions` and `GetCardPendings` as operators |
| `CardTransactions` | operators who list, confirm and reverse; the server; a service that refunds |
| `CardTransactionsProofs` | proofs about `CardTransactions` |
| `SignedMessage` | the bytes that requests and callbacks put under the HMAC |
| `CallbackVerify` | callbacks, handlers, clocks |
| `CallbackVerifyProofs` | proofs about `CallbackVerify`; a signed message determines its fields |
| `CardActivation` | orders for cards, the dispatcher, the listing of pending orders |
| `CardActivationProofs` | proofs about `CardActivation` |
| `CardRequests` | endpoint, path, parameters and body of every call of management, settings and queries |
| `CardAdmin` | a service that administers cards from several goroutines; the registry at IBS |
| `CallEffects` | abstract specification: what the error of a call without an idempotency key promises |
| `CardAdminProofs` | `CardAdmin` implements `CallEffects` |
| `CardBeliefProofs` | proofs about `CardAdmin`: cards and fields, counts, lookups |
| `MCConfigure`, `MCCardBalance`, `MCCardTransactions`, `MCCallbackVerify`, `MCCardActivation`, `MCCardAdmin` | instances for TLC |

`CardBalance`, `CardTransactions`, `CardActivation` and `CardAdmin` extend
`RequestAPI`: a response, as the network delivers it (`Arrivals`), becomes a Go
error value by `CallError`, which follows `client.go:360-404` in order: unreadable
body, status 409/413/429, no JSON, no envelope, `status: false`, and last the
caller's own decoding. Calls without an idempotency key use one connection
(`Connections`), because `net/http` does not send such a POST again.

### Configure

`once` is the state of `globalOnce`, `global` the atomic pointer, `heap[g]` the
`globalConfig` that call `g` allocates, `applied[g]` its progress through the
options, `pc[g]` where it is. `EnterOnce`, `ApplyOption`, `OptionPanics`,
`Publish`, `LeaveOnce` are the steps of `client.go:84-106`;
`PanicAlreadyConfigured` is lines 103-105, which a loser reaches only when the
`Once` is done, because `sync.Once.Do` blocks. A panic is recovered by the
goroutine's caller, as `net/http` does for handlers. Options are records that
set one field; `NilOption` is an `Option` nobody assigned. Users may call `New`
at any time, and pass clients around (`Derive`).

### CardBalance

A worker carries an operation out: `Begin` obtains the key as the pattern in
`card_balance.go:49-60` says (a stored key, drawn once; for operations in
`Fresh`, made through `CardBalance`, a new one each time; or the empty string by
mistake). `Refuse`, `FailLocally`, `Send`, `Abandon`, `Replay`, `Receive` are
the ways through `CardBalanceIdempotent` and `requestAPIWithIdempotency`.
`Record`, `AssumeCommitted` and `LeaveOpen` are the three cases of the pattern.
`Crash` forgets everything but the store.

The call returns the response's pending flag, transaction id and error
(`ResultPending`, `ResultTx`, `ResultError`; `card_balance.go:11-18, 88-97`). The
server accepts a key it does not remember: it carries the operation out at once, or
leaves it pending and decides it later (`Execute`, `Settle`; `outcome` is
`"pending"`, `"success"` or `"reversed"`, which here also stands for failed, and only
a success moves the balance). It refuses a key it remembers (409), whatever has
become of it, or declines. So a nil error means *accepted*, and only with
`pending` false *executed*. The prescribed pattern records the id without looking
at the flag, and so does the caller of the model: what it concludes is that the
operation was accepted, and the properties about it (`RecordedTxIsOwn`,
`SettledIsFinal`, `DuplicateMeansCommitted`) say no more. `NotPendingIsDone` says
what the flag adds.

`Lose` drops a request;
`Expire` closes the retention window of a key that
nobody uses any more (`OutOfUse`): that retries end within it is an assumption
about the caller, which the code does not enforce. `Replay` is what `net/http` does with a
request that carries `X-Idempotency-Key` when its connection dies. A call and
its requests are named by operation and attempt, and by connection.

### Queries

A string is a text, with or without white space around it, in capitals or not;
`ListParameters` and `PendingParameters` do what the code does to each field (trim,
lower, fall back to the client, cut a time to whole seconds, coerce page and
limit) and `ListRefused` and `PendingsRefused` are the checks that return before
anything is sent. `Selects` is how the API, which is external, compares a
parameter with what it stores, letter by letter. `AsksName`, `AsksId` and `AsksTime`
are what the fields of a query mean, which the properties compare with: white space
does not matter, capitals matter in an id only, which the SDK sends as it is
spelled, and the bounds of a list of transactions have the precision of RFC3339, in
which they are sent (`card_transactions.go:100-105`). Times are in half seconds, so
that a bound from `time.Now()` has a fraction to lose (`WholeSecond`);
`BoundsWithinASecond` says how far the list may then be from the exact instants.

### CardTransactions

An operator lists transactions under some query, confirms or reverses an open
topup it knows of, and reads the result. `view` is what the operator takes for
open, `told` what has been reported of each transaction, `doneBy` a history
variable: the call whose request settled it. A request that the server has begun
(`working`) goes on after its caller has given up. Confirming holds the card lock,
and reversing does not, because its callback is fired before the database
transaction (`card_transactions.go:298-302`); `Commit` checks the status again,
`RollBack` may leave a callback without a reversal. The service remembers the
callbacks (`heard`) and refunds its customer when a list of reversed transactions
shows the topup (`refunded`).

`ServeList` answers with the rows for the parameters that were sent. At the same
time the call notes, as history (`due`), what the *query* should be shown:
`Wanted` is written from the meaning of the fields of `TransactionListQuery`, not
from `ListParameters`, and `ListsAnswerTheirQuery` compares the two.

### SignedMessage and CallbackVerify

`config` is the service's configuration, `clock` the time at IBS, `fired[c]` the
timestamp callback `c` was signed with, `handler[h]` a request in the service.
`Deliver` may be late, repeated and damaged in a header or in the body.
`ReadBody` and `Verify` are `VerifyCallbackRequest`; `VerifyError` lists the
checks of `VerifyCallbackSignature` in their order. `Route` and `ParseAs` are two
ways a service uses the parsers, on the bytes returned or on `r.Body` read again.
A signature is a record of secret and message, which makes HMAC-SHA256 an
injective function of both; the message is `Message` of `SignedMessage`, one piece
per field with the separator between them.

### CardActivation

`orders` is what IBS has: a card at once is an order that is active, a queued one
is pending until `Settle`. `OrderDirectly` is `VirtualCard` or `PhysicalCard`,
`Callback` the dispatcher with every kind of argument; `Result` and `Delivered`
give what the caller gets, a pending order being an error of `Callback` that has
the number only in its text. `RefuseFilter`, `StartPoll`, `FetchPendings` and
`FailPoll` are `GetCardPendings` with the parameters of `Queries`. The service
(`Acknowledge`, `ReverseCallback`, `Reconcile`) is as careful as the SDK allows: it
calls again only after an error by which nothing was ordered (`Refused`), and
takes an order that a later listing leaves out for one that is settled, if the
query of that listing covers the order (`Means`, which again is the meaning of the
query and not its translation). Reverse callbacks are taken to be verified
(`CallbackVerify`).

### CardAdmin

`cards` is the registry at IBS, `call[w]` the call goroutine `w` is in, `wire` and
`replies` the network. Every method goes through the same steps (`Call`,
`FailLocally`, `Abandon`, `Receive`), as in the code, with its own request from
`CardRequests` and its own decoding (`ErrorOf`: some methods drop the body).
A card is addressed with a client made when it was registered, which may name a
former owner, or with one for the owner the service takes it to have (`ClientsOf`):
IBS goes by the card of such a request or declines it, as far as the model knows.
`Register`, `ChangeCard`, `Transfer` and `Show` carry a request out at IBS by its
endpoint, path and body alone (`Written`, `RowsAt`), so a field that went under a
wrong name or to a wrong endpoint changes the wrong thing.

`believed` is what the service takes each field of each card to be. The service is
careful, which is the most one can ask of a caller of this SDK: it starts no call
that concerns a field another goroutine's call concerns (`Concerns`), and after a
call that may still be carried out it never again trusts the fields of that call
(`Touched`, `AfterDoubt`). It takes new values from nil errors (`AfterSuccess`,
by `Intended`, the meaning of the method and not its request). Three history
variables say what became of each call: `outcome` (what it returned), `executed`
(how often its request was carried out) and `moved` (how many cards it handed
over). Lookups note in `due` what their scope stands for (`Wanted`), and `DueTo` is
what they must show: that, except for `GetCardInfo` of a client with a card and no
user (`card.go:105-110`), whose one path segment IBS takes for a user. This lookup
shows nothing, with a nil error.

`CallEffects` is what a call without an idempotency key promises: it is carried out
at most once; nil means that it has been, a refusal that it never is, and anything
else means neither, in which case it may be carried out *after* the call has
returned. `CardAdmin` implements it with `outcome` and `executed` as they are.

## Runs

One run for each thing the SDK promises: of initialisation, balances (one run with
re-sending and an invalid operation, one with two operations of different kinds),
topups, activations, callbacks and administration. The bounds are in the `.cfg`
files.

| Run | Bounds | What it shows |
|---|---|---|
| `configure` | three `Configure` calls (one with two options on the same field, one with a nil option), two users | `TypeOK`, `ClientsSeeFullConfig`, `LoserPanicsLate`, `PublishedIsFrozen`, `NewAfterConfigureSucceeds`, `EveryConfigureEnds`, `ImplementsCell`. Three calls give a winner, a loser that waits and a loser that comes late; two users let one derive from the other. |
| `balance_stored` | a stored deposit and an operation of amount zero, two workers, two keys, two attempts each, one re-sending, `FairSpec` | `OnlyValidRequests`, `ExecutedAtMostOnce`, `DuplicateMeansCommitted`, `EveryCallReturns`. Two attempts by two workers are enough for every race of a retry with a late answer; re-sending makes the first call receive a 409; any of the operations may stay pending. 389,563 states. |
| `balance_mixed` | a stored deposit (+3) and a deduction (-2) through `CardBalance`, two workers, three keys, two attempts each; the first operation that is accepted may stay pending (`MaxPending`); 316,064 states | `TypeOK`, `RecordedTxIsOwn`, `NotPendingIsDone`, `SettledIsFinal`, `ImplementsOnceLedger`. Different signs and amounts would show any mixing of operations, and a pending one beside one that is executed any mixing of flags. |
| `transactions` | four transactions of two users, one of them a topup that is pending or failed; two operators with two calls each; five queries (padded and bounded within a second, a status in capitals, the second page, an id in capitals, malformed); 877,858 states | `TypeOK`, `OutcomesAgree`, `SuccessIsOwn`, `RefusalChangedNothing`, `ListsAnswerTheirQuery`, `RefundedAreReversed`. Two operators with two calls race in every way on a topup and retry once; topups share nothing but the card lock, which two calls on one topup contend for; the other transactions make every filter and the paging exclude a row, and one lies within the second of each bound of the first query: a row before `FromDate` that is shown, a row at `ToDate` that is not. |
| `activation` | a virtual and a physical card of two users, two calls each, one listing under one of four queries; 811,992 states | `TypeOK`, `ExactlyOneResult`, `OneOrderPerActivation`, `BeliefsAreTrue`, `RejectedNotListed`. Two calls give a retry after each kind of error; two cards of different types and users make every filter of the listing matter. |
| `callbacks` | one handler, seven kinds of callback of which two are fired, skew 1, drift 1, time 0..3, seven configurations; 1.35 million states | `TypeOK`, `OnlyGenuineAccepted`, `NoLateAcceptance`, `PunctualIsHandled`, `RoutedByEvent`. Time goes one tick beyond skew plus drift, so both ends of the window are met; two callbacks fired at different times are enough to confuse one with the other. |
| `administration` | three cards of which two are registered, two users, two goroutines, two calls of any method, two price filters, six scopes, clients with a former owner; 259,283 states up to symmetry | `TypeOK`, `BeliefsAreTrue`, `CountIsRight`, `ReadsAnswerTheirScope`, `ImplementsCallEffects`. Two calls are enough for one to be carried out after the other although it was begun before, for a transfer that follows or races with a deletion, a lost registration or a change of owner, and for partial updates of one card from two goroutines. |

One handler is enough: handlers share nothing but the configuration, which does
not change. `SYMMETRY` is used where workers, operators, keys or registered cards
are interchangeable and no liveness is checked. Deadlock is checked in
`configure` (users can always call `New`); elsewhere the bound on attempts or
time lets the system stop, and the cfg says so.

The bounds of `balance_stored` and `balance_mixed` let both workers crash
(`CrashProne`). Five runs expect a violation. Each states what a comment says and
shows where the code differs; those of balances have one worker that does not crash,
so that the counterexample is a plain retry after an error:

| Run | Comment | What happens |
|---|---|---|
| `configured_reports` | `client.go:108` | a call that panicked in an option is not reported by `Configured`, though no other call can succeed |
| `duplicate_recoverable` | `card_balance.go:55` | a call times out, its retry with the same key is told of a duplicate because the first request has arrived by then, and the store has no id |
| `monetary_retry` | `doc.go:6-8` | a `CardBalance` call times out and is made again, and both requests move the money, as `card_balance.go:22-25` admits |
| `sentinels` | `client.go:219-221` | no `APIError` is in the chain of a wrapped sentinel |
| `busy_error` | `card_transactions.go:249-253` | 409 "card busy" is returned as `ErrDuplicateIdempotencyKey` |

## Fairness

`Configure`: weak fairness of each `Configure` goroutine, which is what the Go
scheduler gives; users need never call anything. `CardBalance`: weak fairness of
the SDK's own steps and of the timeout, which the default client has
(`client.go:94-96`); nothing is assumed of the server, the network or the
caller. A client given through `WithHTTPClient` without a timeout is outside
this assumption. The other modules state safety only.

## Proofs

All proofs are for any sets of goroutines, options, operations, keys, amounts,
queries and bounds that satisfy the named assumption of the module.

`ConfigureProofs`: the inductive invariant `IInv` says which stages go with which
state of the `Once`, that only the call in the body or the published one has
touched its object, and that the object of a call that has applied `n` options
reflects exactly those. From it: `TypeCorrect`, `FullConfig`, `LosersWait`,
`Frozen`, `NewSucceeds`, and `Refinement` (the write-once cell).
`ClientsSeeFullConfig` is not inductive by itself, since it says nothing of the
object before it is published.

`CardBalanceProofs`: `ExecutedAtMostOnce` speaks of the ledger only, so `IInv`
follows a key back: every accepted key is remembered by the server or dead
(nobody holds it, no copy travels, its operation is closed), every request
carries the signed amount of the operation that owns its key, every call holds a
key of its own operation, and a stored operation has one key. From it:
`TypeCorrect`, `AtMostOnce`, `Refinement` (`OnceLedger`) and, with the fact that
a call which is past its checks has a valid amount, `InvalidNeverSent`.

`CardAnswerProofs`: to say what an answer means, `AnswerInv` follows it from the
ledger to the caller. Every message belongs to a counted attempt, and no call that
has yet to send has messages (so an old answer cannot meet a new call); no two
calls in progress are the same attempt; an answer that a call waits for is true of
that call's key (409: accepted; 200: accepted as that row, and executed unless it says pending);
what a call returned and what the caller concluded is in the ledger. It needs `IInv` and the fact that
the ledger only grows and a success stays one (`LedgerGrows`, `OwnerKept`). From it:
`DuplicateIsCommitted`, `NotPendingDone`, `RecordedIsOwn` and `SettledStays`.

`CardTransactionsProofs`: `IInv` follows a settling request to its report. A call's
request is on the wire or in the server's hands but not in both, and not once it
has an answer; while it is, the call has settled nothing; a reply says whether it
did; what a call returned says no more than its reply; what was told and refunded
is the status, which never leaves `success` or `reversed`. From it:
`TransactionsTyped`, `ReportsStayTrue`, `SuccessIsEarned` and `RefusalIsHarmless`.
`ListsAreWanted` and `RefundsAreSafe` rest also on the lemma `ParametersMeanQuery`:
the parameters select what the query means, for every query, with any spelling and
any times, on every client; times are compared by the second. `BoundsWithinASecond`
compares them with the exact instants.

`CallbackVerifyProofs`: `IInv` says of each handler that its request bears the
signature and nonce of the callback it is traced to, or none, and that this
callback was fired no later than now (`Traced`), and what its stage adds
(`AtStage`): the body still readable is the one that arrived, a verified request
passed every check at a time within the drift, a finished one has the result of
its body. `PassedIsGenuine` and `IntactPasses` are the two directions of
`VerifyError`. From it: `CallbacksTyped`, `AcceptedIsGenuine`, `WindowCloses`,
`PunctualGetsThrough`, `RoutingIsRight`. `FieldsAreUnambiguous`, at the end of the
module, compares two signed messages from their end: if key, timestamp and nonce
hold no separator, as is the case for all that the SDK and IBS put there, equal
messages have equal fields, whatever the bodies hold. It says that taking a
signature for a function of four fields, as `CallbackVerify` does, loses nothing.

`CardAdminProofs`: `CallEffects` forbids to carry a request out twice, or after a
refusal, so `IInv` counts. A request on the wire is the only one of its call and
has not been carried out, and its call is still open or unclear; a reply that is
waited for tells by its code and body whether the request was carried out, and no
request of that call is on the wire any more; a call that waits has outcome
`open`. It says nothing of cards and fields, and so holds for every method. From
it: `CallsKeepTheirWord`.

`CardBeliefProofs`: `BeliefsAreTrue` speaks of the fields that no call in progress
concerns, so it is not inductive: it does not say what IBS has in a field when the
last call that concerned it returns, nor that no older request is still on its way
to it. `BInv` adds that to the `IInv` of `CardAdminProofs`:

- `FieldTrue`: in a field the service trusts, IBS has what the call that touches it
  promises (`Promised`) if IBS has carried that call out (`Carried`), and what the
  service believes if it has not or if there is no such call;
- `CallsApart`: two calls in progress concern no common field;
- `WireTrue`: a request on the wire is that of a call in progress, as its method and
  arguments make it, or the service trusts no field it can still write
  (`Forsaken`). This is what makes a late execution harmless;
- `RepliesGood` and `ResultTrue`: an answer and the result made from it are true of
  the call that waits for it: the count is what it handed over, the rows are what
  was due, the new card is one nobody knew and is as the call asked (`NewTrue`);
- `CountTrue`: while no call is unclear and no card unknown, a transfer that has
  been carried out has moved the cards the service takes to be the user's.

Two lemmas connect the wire to the methods, one method at a time.
`CardRequestMeans` says that what IBS writes for the request of a method
(`Written`, by endpoint and body) is what the method is meant to set (`Intended`);
`RowsAreWanted` says that what IBS shows for the request of a lookup is what its
scope and arguments stand for, or nothing for `GetCardInfo` of a card without a
user. From it: `CardsStayTyped`, `ServiceKnowsItsCards`,
`TransfersAreCounted`, `LookupsAnswerTheirScope`. `AdminAssumption` says of the
constants that there are finitely many cards (a count is a number) and that the
marks for no card, an unclear belief and no id are none of the ids and values they
stand beside, and that no card has the id of a user.

`CardActivationProofs`: that nobody orders twice cannot be seen from `orders`
alone. `IInv` says that the service may call again for an activation only if no
request, order or reply of it exists or can come to exist: a request on the wire
belongs to an activation without an order; a reply that is waited for is true of
its activation (an order of that number in that state, or none at all); a call
that returned a refusal has left none. For listings, an order that the service knew
of, that the query covers and that the rows leave out is pending no more, and no
row was rejected when the listing was asked for; the lemma `QueryMeans` says that
the parameters select every order the query means. From it: `ActivationsTyped`, `OneOrderEach`, `OneResultEach`,
`BeliefsHold`, `ListingsExclude`.

Every safety property, action property and refinement that a passing run checks is
thereby proved. Only model-checked: liveness (`EveryConfigureEnds`,
`EveryCallReturns`), which is out of the prover's reach. The five runs that expect
a violation have nothing to prove.

## Plan

Done: the six protocols, their abstract specifications (`ConfigCell`,
`OnceLedger`, `CallEffects`) and the proofs above.

Left:

1. A composition of `CardTransactions` with `CallbackVerify`, in which the reverse
   callback that `Start` fires is a message that can be late, repeated and damaged.
   For now `heard` grows with `Start`, the service may act on it at any later time,
   and `CallbackVerify` shows separately that what a handler accepts was fired.
2. A composition of `CardActivation` with `CallbackVerify` in the same way;
   `ReverseCallback` already comes late and repeatedly.

## Not modelled

- `doc.go` and `src/README.md` are text; what they say of the code is compared with
  it in the runs that expect a violation.
- HMAC-SHA256 itself, `crypto/rand`, base64 and hex: a signature is an injective
  function of key and message, a nonce is new, a secret decodes or does not.
- Amounts are integers: rounding and formatting of `float64`, NaN and infinities
  are left out. A NaN passes the comparisons of `card_balance.go:67-70`, and only
  the server can refuse it.
- `Total` of `GetCardPendings` is passed on as IBS sends it; `Page` and `Limit` are
  cut to their range in the model, but no instance has 501 rows.
- How IBS compares is not in the code: that it keeps fractions of creation times and
  compares ids letter by letter is assumed (`Selects`, `Within`).
- How a caller learns what became of a pending balance operation: the SDK offers only
  the list of transactions for it, and `CardBalance` and `CardTransactions` are not
  composed.
- The rest of the data: the default reason of `ReverseTransaction`, header names,
  JSON field by field (a body decodes or does not), logging, wording of errors.
- A success without data, or with an HTTP error code other than 409, 413 and 429:
  nothing in the code says that the server can send one, so the modelled server
  does not.
