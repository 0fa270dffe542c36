# A verification development for pumpfun-cli

pumpfun-cli is a command-line client for pump.fun: each invocation is one
short-lived process that reads the Solana chain through an RPC endpoint, builds
one transaction (the wallet's drain: two), sends it, and reports.  There is no daemon and
no lock; what makes it hard is what happens *around* one invocation: the chain
moves between its reads, an answer is late or lost, the endpoint's nodes
disagree, the user interrupts, or runs the command again.

The modules here model that in TLA+: TLC checks them on small instances, TLAPS
proves the safety properties for every value of the constants.  Paths below are
relative to `src/pumpfun_cli/` of the repository.

## 1. Inventory

| Component | State | Operations | Interacts through | Correct when |
|---|---|---|---|---|
| **RPC client, send path** (`protocol/client.py`, `core/amounts.py`) | the await it is in, the signature once answered | `send_tx`, `_send_and_confirm`, `get_transaction`, `confirmed_token_delta` | HTTP to a load-balanced endpoint | posts once; ends; tells the truth about the transaction; the receipt is that transaction's |
| **RPC client, reads** | none | `get_account_info`, `get_balance`, `get_token_account_balance` (failures read as 0), `get_token_accounts_by_owner` (failures read as []) | HTTP | a failed read does not cause a trade |
| **Quotes and floors** (`protocol/curve.py`, `core/trade.py`, `core/pumpswap.py`) | none | constant-product quotes, fees, slippage floors, required lamports | pure | follow the on-chain formula; never round for the trader; floors within the tolerance |
| **Buy and sell** (`commands/trade.py`, `core/trade.py`, `core/pumpswap.py`) | what it has read so far | routing, balance and liquidity checks, dry run, send, error mapping | the client; the curve, the pool and the wallet on chain | one trade, on the right venue, within the tolerance, truthfully reported |
| **Payouts** (`core/trade.py`: claim, close, migrate, collect) | reads | one read or two, one send | the client | nothing collectable is reported absent |
| **Keystore** (`core/wallet.py`, `crypto.py`) | the file `wallet.enc` | create, import, export, show, decrypt | the file system | an existing key is not lost without `--force` |
| **Transfers, close-atas, drain** (`core/wallet.py`) | reads | up to two transactions | the client, the keystore | reports each transaction; leaves what it says it leaves |
| **Configuration** (`core/config.py`, `cli.py`) | `config.toml` | set, delete; resolve (flag, environment, file) at the start of every run | the file system | no update is lost; a bad setting can be mended |
| **Launch** (`core/launch.py`, `protocol/quote.py`) | reads | checks, upload, create and buy | the client, the metadata service | refuses before it uploads; buys in the creating transaction |
| **Boards, search, enrichment** (`core/tokens.py`, `commands/tokens.py`) | rows found, accounts read | paging, deduplication, enrichment row by row | pump.fun's API, the client | no coin twice and none missed that stayed; two pages at most; a row shows its own curve |
| **Info** (`core/info.py`, `core/pumpswap.py`) | what it has read so far | eight reads: the curve twice, the pool, its two vaults | the client | shows the coin as it is, and a price the pool has had |
| **tx-status** (`core/tx_status.py`) | none | one read, repeated by the user | the client | a definite answer is true for good |
| **Curve decoder** (`protocol/curve.py`) | none | `parse_bonding_curve` on accounts of any length | pure | reads no field from beyond the account, leaves none out |
| Sizing (`build_message`), other decoders, addresses, instructions, IDL parser, CLI shell | none | pure | - | byte layouts |

Hard behaviours: answers lost after the node acted; waits that time out; nodes
that lag; failures swallowed as zeros; state read and used several awaits
later; two invocations on one wallet; a curve that completes and a pool that
opens between two reads; integer and float rounding; files rewritten in place.
`PROJECT.json` lists each one at its line with the properties that cover it, or
the reason why none does.

## 2. Modules

    TxReport            abstract: what an invocation may tell of its transaction
       ^  refined by
    Submission          send_tx against the cluster   MCSubmission, Submission_proofs
       ^  extended, and TxReport refined, by
       +-- Trade        the buy and sell commands     MCTrade, Trade_proofs
       +-- Launch       the launch command            MCLaunch, Launch_proofs
       +-- WalletFunds  transfer, close-atas, drain   MCWallet, WalletFunds_proofs
       +-- Payouts      claim, close, migrate, collect  MCPayouts, Payouts_proofs
       +-- FollowUp     tx-status after it            MCSubmission, ReadCommands_proofs

    Quotes              the arithmetic of a trade     Quotes_proofs (lemmas)
       ^  extended by Trade, Launch and
       +-- QuoteWalk    trades at the quotes          ReadCommands_proofs
             ^  extended by
    CurveLayout <-- TokenInfo    pumpfun info on such a pool
                    TokenLists   boards, search, enrichment
             ^  both extended by
    ReadCommands        one run of either             MCReads, ReadCommands_proofs

    InPlaceFile         a file rewritten in place, without a lock
       ^  instantiated twice by
    LocalFiles          keystore and configuration   MCLocalFiles, LocalFiles_proofs

**TxReport** is the contract.  A transaction is broadcast at most once, settles,
and the invocation *tells* once: `nothing_sent` only if it never reaches a
node, ever; `accepted` if a node has it; `landed` if it is in a block; `failed`
if it failed there; `silent` promises nothing.  A report has to be true when
made and stay true.

**Submission** is `RpcClient.send_tx`.  `call[i]` is the await invocation *i*
is in: `blockhash` (`get_blockhash`), `posting` (`send_transaction`, preflight
skipped), `confirming` (`confirm_transaction`), `reading` (`get_transaction`),
`delta` (the attempts of `confirmed_token_delta`).  One action is one answer,
failure or timeout of an await with everything the code does until the next.
`tx[i]` is the transaction on the cluster: `posted` is a request that no node
has received yet, and that may arrive after the client gave up on it.  A read
of the outcome may be answered by a node that has it or by one that has not
(None); whether the node recorded balances is also its choice.  `posts` is a
history variable.  The message's size is the set `Oversize`.  **FollowUp** adds
`tx-status`: once a command has named the signature (a failure on chain is
reported without it), the user asks any number of times, and each answer comes
from a node that has the transaction or one that does not.  `answers[i]` is the
history of what was answered; the send path runs unchanged beside it.

**Quotes** is the integer arithmetic.  Two Python floats occur.  The curve's buy
floor truncates the float quotient `tokens_out * (100 - slippage) / 100`, which
may have been rounded up to the next unit: it is exact for amounts below about
2^47 raw tokens, and for larger ones (up to 2^50, and the whole supply is less)
can exceed the exact floor by one.  `CurveBuyFloors` lets that happen at any
size, whenever the exact remainder is at least 94 of 100; `FloatBuyFloor`
proves that this is enough.  The curve's sell floor has the
factor `1 - slippage/100`, which can fall short of an exact product: again both results are
possible in the model.  **QuoteWalk** lets a trader walk through reserves that
answer with these quotes: the external programs, as the client believes them.

**Trade** is the two commands on both venues.  `pc[i]` is the read the
invocation awaits, in the code's order: `curve`, then for a buy `sol` (and `usd`
for a coin not paired with SOL), for a sell `tokens`; on PumpSwap `pool`, then
for a buy `base`, `vault`, `sol` (`usd`), for a sell `tokens`, `base`, `vault`.  `view[i]` is what it
read and worked out; `blind` records (as history) that a failed read was taken
for a zero.  `Dispatch` hands over to Submission's `SendTx`, whose actions run
unchanged under the command (`Sending`); `Conclude` is the code after
`send_tx`.  Reads see `fin`, the last finalized state, because the client asks
at its default commitment; transactions execute on `now`.  Around it, external:
the programs execute a trade on the current reserves and check the floor;
others trade; the curve completes; the pool opens; states are finalized.
The pool's fees are taken to stay what the config said; fees leaving the wallet
and accounts' rents are not charged; on the curve the wallet pays the quoted
asset only.  Virtual reserves are taken as non-negative.  The read of a pool's
fee config is part of the step `base` (it can raise there); that of the volume
accumulator, just before the send, ends like a failed `get_blockhash`.  A RuntimeError
is printed as a traceback-free error on either venue: "unconfirmed" is one
result in the model whether printed by `commands/trade.py` or as
`pumpswap_error`.

**TokenInfo** is `pumpfun info` on a coin of any kind: `ipc` is the read awaited
(`curve`, `mint` of a quote asset the client does not know, `global`; for a
graduated coin `again`, the second read of the curve in `_load_pool`, `pool`,
`tokens`, `base`, `vault`).  Between any two of them the curve completes, the
coin migrates, its account is extended, or the pool is traded as QuoteWalk
trades, with the pool's virtual reserves as the part of the quote side that is
not in the vault.  `met` (history) is the pool at the reads of its two vaults.
Either read of the curve may be answered by a node that does not have the
account yet (the second one then takes the coin for a SOL one).  Nobody deposits
or withdraws liquidity: that moves both reserves the same way, and a read torn
by it shows a price the pool never had, which `PricesAreReal` does not speak of.
**CurveLayout** under it is `parse_bonding_curve` as a matter of lengths: which
fields an account of n bytes holds (`Fits`, external), which the client reads
(`Present`, `FieldRead`: a byte from beyond the end is `Garbage`) and what it
takes for the rest (`Missing`).

**TokenLists** is a listing: `_board` page by page (`FetchPage`), the requests
of one page (`FetchOnce`), then `enrich_from_chain`: Global, the curve accounts
in batches (`accounts`, matched to rows by position), and row by row the
decimals of quote assets not met before.  The board may move between its pages.
A row is the coin it lists; `chain[n]` is the coin whose curve row n shows.  A
failure of the endpoint in the middle leaves what was enriched so far, because
the code changes the rows in place: the message that goes with it, "showing
pump.fun's data only" (`commands/tokens.py:75`), is then not quite true; the
message itself is not modelled.
**ReadCommands** composes the two: one run of either.

**WalletFunds** is one invocation of `wallet transfer` (SOL, all SOL, a token),
`wallet close-atas` or `wallet drain`.  Its two possible transactions, `close`
and `pay`, are the two invocations of Submission: each is one call of `send_tx`.
`pc` is the read awaited (`warn1`, `warn2`: drain's listing of non-empty
accounts under either token program; `list1`, `list2`: the listing of the empty
ones; `balance`; `mint`, `tokens`) or the transaction being sent.  Here fees are
charged: a landed transaction takes its fee, which depends on the request
(`--priority-fee`); a closed account returns its rent; and the runtime asks of
the payer and of the recipient alike to be empty or rent exempt (`KeepsRent`),
so that a small transfer to an address without an account fails (`now.to` is
what the recipient holds; a transfer to oneself moves nothing).  Before it runs,
a transaction has to pass the check of its fee payer (`FeePaid`): one that the
fee would leave below the minimum is never taken into a block.  Without
`--confirm` the two transactions of a drain can land in either order.  Wallets
that receive and spend meanwhile, the recipient's too, are `Others`.

**Payouts** is the four payout commands.  A SOL vault of pump.fun holds
lamports, and a failed read of it raises; every other vault is a token account,
and a failed read of it is a zero (`blind`).  Two invocations are asked for one
wallet and one coin in one quote asset: two collections, a claim and a close,
two migrations, and others.  Nothing checks that the wallet can pay for the
accounts its transaction opens (`OpensAccounts`); whether it can is part of the
request (`funded`).

**Launch** is `launch_token`.  `pc[i]` follows the code: `global`, `control`
(only if not on SOL, or with a creator fee), `mint` (only of a mint the client
does not know), `held` (only for a buy not in SOL), `upload` (only without
`--uri`), `submit`.  `view[i]` keeps the settings as each of the two accounts
showed them, so that they can come from different moments; `met[i]` (history)
is what the transaction met on chain.  What the program refuses, ignores and
pays (`Rejects`, `Ignores`, `Pays`) is external, written from what the client's
checks and docstrings say of it; `Pays` is not the client's formula but the
definition of the constant product.  A creator fee given as 0 is not the absence
of one (`NoFee`) to the estimate (`core/launch.py:79`); but it is to the checks,
and from a holder-reward coin the program gets the same bytes for both
(`protocol/instructions.py:315`).  What it makes of a 0 the repository does not
say: it may charge nothing, or its own rate (`AppliedRates`).

**InPlaceFile** is a file that is looked at, truncated by `open`, and filled
when it is closed.  Two writers that both have it open write from offset 0 on,
so the shorter text can be left with the end of the longer behind it.  An
interrupt with the file open leaves nothing, a part or all.  **LocalFiles**
instantiates it for the keystore (`create`, `import`, with and without
`--force`) and the configuration (`set`, `delete`).  The text of a keystore is
one write; settings are written one by one.  Before its command every run
resolves the settings one after the other (`Resolve`, the main callback of
`cli.py`): from a flag or the environment (`given`), or by loading the file;
`Numeric` settings with a value that is no number (`Invalid`) end the run.  The
keystore is one file: that the configuration also names it is left out.

## 3. Runs

| Run | Instance | Shows |
|---|---|---|
| `submission` | an invocation that fits, one that does not; two error codes; two receipts; 3 attempts (the code's own); any number of `tx-status` | type, `ExactReceipt`, `PostsAtMostOnce`, `SignatureSurvives`, `SendEnds`, `TrueStatus`, and refinement of TxReport |
| `submission_confirmed` | the same | *refutes* that a confirmed send is a successful one (finding 1) |
| `reads` | a pool of small reserves, each trade free of fee or at 5%, three amounts, up to 10 paid in; coins of four kinds on accounts of six lengths; boards of up to six rows in pages of three, batches of two, two moves | `NoFreeLunch`, `QuotesAreTight`, `FloorsBracketQuotes` of the trades; `PricesAreReal`, `InfoDescribesTheCoin` of info; `BoardWellRead`, `RowsKeepTheirCurve` of the listings |
| `trade_one` | one invocation; every kind of request; 2 trades of others, completion, migration | routing, tolerance, failed reads, refinement of TxReport, termination |
| `trade_pair` | a confirmed buy and a sale of everything, in any combination, on one wallet; a coin paid in a token | `RawFieldsAddUp` |
| `trade_virtual` | `trade_one` with virtual reserves | *refutes* `FailedReadNeverSends` (finding 2) |
| `wallet` | one command of any kind, at fees below and above an account's rent; a recipient with an account or without; three token accounts under two programs, one with tokens; batches of one; one move of others | `UndisturbedSucceeds`, `CountsWhatItCloses`, `WarnsOfTokens`, termination, and refinement of TxReport by both transactions |
| `wallet_leaves` | a drain on that wallet, undisturbed | *refutes* that drain transfers what remains (finding 3) |
| `payouts` | two invocations in eight pairings, two of them on a wallet without SOL for new accounts; one move of others | `RecoversWhatItReports`, `NoFeesMeansNone`, `FailsOnlyIfBeaten`, refinement of TxReport |
| `launch` | one launch of any kind, with a creator fee, without or with one of 0; four settings of the program, two changes by others | `RefusesBeforeUploading`, `OpeningBuyAsEstimated`, refinement of TxReport |
| `local_files` | three runs, any command on either file; two settings, one a number; a value that is one and one that is none | `KeyLostOnlyInRace`, `KeystoreReadable`, `SavedSettingsStay` |
| `config_locked` | the same | *refutes* `BadSettingCanGo` (finding 4) |

*Bounds.*  Submission has none besides its constants: invocations do not
interact in it, so two (one per outcome of sizing) are enough.  QuoteWalk stops
buying at `MaxPaid`; reserves are small so that every quote is rounded.  In
TokenInfo trades between the reads of the two vaults are bounded by `MaxTorn`
(two: enough for the price to go and come back); before the first of them only
the walk's bound limits them.  TokenLists: a page of three and an offset
capped at two overlap by one row, as 150 and 149 do, and leave a sixth row out
of reach; two moves let a coin climb over the boundary, or climb and drop; a
batch of two puts missing accounts into, and between, batches.  Trade
bounds the trades of others by `MaxOthers` (two: one between the reads and one
between the reads and the execution, in either direction); reserves of tens
make a trade of 10 move the price by more than the tolerances requested.  Two
invocations are enough for every property relating two; a third would only
repeat the second's part.

WalletFunds: one move of others is enough to falsify any balance read before
it; a batch of one with two empty accounts makes the cap of 20 bite; the amounts
lie on both sides of the rent-exempt minimum, for the wallet, the recipient and
what a sweep sends.  Payouts:
the pairings are those whose commands touch the same account; one move is one
accrual between a read and the execution.  Launch: two changes put one between
its two reads and one after them; each setting that a check or the price reads
differs in one of the four programs.  LocalFiles: a third run lets one come
after two have met; runs are interchangeable, hence the symmetry (no liveness
is checked there); one setting can be given by flag, which is how a bad one is
mended.

*Deadlock* is not checked: an invocation ends, and a run stops when all have.

*Fairness* is weak fairness of the client's own steps (`ClientStep`, in Trade
and WalletFunds also `Command`).  The code justifies it: the HTTP client has a timeout
(`DEFAULT_RPC_TIMEOUT`), `confirm_transaction` gives up once the blockhash can
no longer be valid or after its own timeout, the receipt is read at most three times, and every one of
those failures is an action.  Nothing is assumed of the cluster, of other
traders or of the user; a transaction may fly for ever.

## 4. What the runs refute

1. `_send_and_confirm` raises only `if status and status["err"]`
   (`protocol/client.py:189`).  A node that has not seen the transaction
   answers None, which passes for success; the command prints `confirmed:
   true` for a failed trade.  `core/amounts.py:10` knows that such nodes exist.
   What does hold, and is proved, is weaker: a *confirmed* transaction is in a
   block (TxReport's `landed`).
2. A failed read of the pool's quote vault reads as 0, and on a pool with
   virtual reserves the sum is positive: `no_liquidity` is not reported and
   the trade is priced, and sent, off the virtual reserves alone
   (`protocol/pumpswap.py:170`).  Without virtual reserves every failed read
   ends in a refusal or a dry run.

3. `wallet drain` promises "Close all ATAs + transfer remaining SOL"
   (`README.md:127`).  It waits for the close to be *confirmed* and then reads
   the balance at the client's default, *finalized* commitment
   (`core/wallet.py:181`): with both transactions confirmed and nobody else
   acting, the rent just recovered stays behind; so do empty accounts past the
   first batch.  What does hold, as long as an account's rent pays for its
   closing: both transactions fit the wallet in either order
   (`UndisturbedSucceeds`).
4. `config set priority_fee fast` is saved without a look at the value; the main
   callback resolves `priority_fee` and `compute_units` before every command and
   exits if one is no number (`cli.py:59-93`), so that `config delete
   priority_fee` and `config set priority_fee 1` are refused as well, until the
   setting is given by flag or environment for once.

Not a finding, but known to the model: two `wallet create` at once both find no
keystore, and the later overwrites the key whose address the earlier has printed
(`core/wallet.py:17`, `crypto.py:45`).  `KeyLostOnlyInRace` states what holds: a
key is lost only to a run under way at the same time, never to a later one.

## 5. Proofs

`Submission_proofs` proves, for all sets of invocations, codes and receipts and
any number of attempts, `SubmissionSpec => []SubmissionInv`, hence `TypeOK`,
`ExactReceipt`, `PostsAtMostOnce`, the action property `SignatureSurvives`, and
the refinement `SubmissionSpec => ImplementsTxReport`.  The invariants are not inductive: that a report is true depends
on what the await that ends established.  `AwaitsKnow` says it await by await (a call
that is `confirming` has a transaction a node received; one that is `reading` or in
`delta` has one in a block), `ReturnsKnow` carries it to the results.  The cluster
moves a transaction only forward, so neither can be falsified by its steps.
One lemma per action group is stated so that callers (Trade) can cite it.

`Quotes_proofs` holds the arithmetic, for all reserves, fees and amounts: a
quote is the greatest that keeps the product of the reserves, and a floor is
within the tolerance and at least one.  `FloatBuyFloor` justifies the one float
among them that matters: truncating any quotient correctly rounded to an eighth
or finer, as a double below 2^50 is, gives one of the two floors the model
allows.  The assumptions are the
constants': opening reserves are positive, a fee is at most 100%.

`Trade_proofs` proves, for all sets of invocations and requests, all fees,
rents, reserves and balances and any number of other traders,
`TradeSpec => []TradeInv`, hence `TradeTypeOK`, `RoutedByTheCurve`,
`ToleranceHonoured`, for finitely many invocations `RawFieldsAddUp`, and without virtual reserves `FailedReadNeverSends`; and
the refinement `TradeSpec => TradeImplementsTxReport`.  A trade is right because
of what was established several reads before it is sent, and the invariant
carries each of these facts to where it is used: `Stage` ties the command to the
send path under it and its result to the one of `send_tx`; `Route` says who may
be on which venue (it needs that a complete curve stays complete); `Price` that
an amount is positive and a floor within the tolerance of its estimate; `Sight`
that a failed read has left a zero behind that the checks ahead will refuse.
`ChainSound` adds that trading never empties a venue, which keeps every
quotient defined.

`RawFieldsAddUp` is a fact about a sum over all invocations, of any finite
number.  `Balanced` carries it: the wallet holds what it started with and what
the landed trades moved (`Gained`), stated by an account of every *set* of
invocations (the empty one moved nothing, and taking one out takes its gain
out), which a step that settles one trade amends pointwise.  That such an
account ends in what the library's fold computes (`SumOfRawFields`) needs an
induction over finite sets; the induction theorems take an operator as a
parameter and cannot be instantiated, so `LeastNumber` derives a least element
of any set of naturals from the pigeonhole theorem instead, and a smallest set
on which the two differ is led to a contradiction.

The steps of the send path are answered for by the lemmas of
`Submission_proofs`, the venues' payments by `BuyTight` and `SellTight`.
Assumed: `TradeAssumption` (curve and pool open with something in both
reserves, virtual reserves are not negative, a buy has a positive amount, which
the command line enforces) and `SubmissionAssumption`.

`LocalFiles_proofs` proves `KeyLostOnlyInRace`, `KeystoreReadable` and
`SavedSettingsStay` for any number of runs, any settings and requests.  Without
a lock all rests on one fact (`KAlone`, `CAlone`): a rewrite that met no other
was alone from its look at the file to the close, so it writes to an empty file
what it prepared.  To that, `StoredIsSeen` adds that whoever set out to rewrite
the keystore after a key was stored had been asked to overwrite, and
`RevisesSaved` that a rewrite of the configuration is the saved settings with
one changed.  Assumed: `FilesAssumption` (a file's states and the texts are
distinct, a setting is not a missing one).

`Launch_proofs` proves `RefusesBeforeUploading`, `OpeningBuyAsEstimated` and
`LaunchImplementsTxReport`, for any programs an admin can choose among and any
number of changes.  Nothing is read twice, so the invariant says of each await
which checks are behind it (`Checked`), of what was sent that it was priced by
what was seen (`SentRight`), of a landed transaction what it met (`OnChain`).
`PaysAsReckoned` shows, from `BuyTight`, that the program's greatest fair payout
is the client's estimate at the same settings and creator fee.  What remains
excepted is a fee of 0 that the program takes for none.  Assumed: `LaunchAssumption`
(opening reserves are positive, fees at most 100%).

`Payouts_proofs` proves `RecoversWhatItReports`, `NoFeesMeansNone`,
`FailsOnlyIfBeaten` and `PayoutsImplementTxReport` for any invocations, balances
and moves of others.  What a command read is not read again before it executes;
it is still good enough because of the way the chain moves (`Onward`: until
someone collects, fees only grow; an accumulator stays until it is closed; a
curve does not become incomplete again), and the invariant says of each thing
read how it compares with the chain of now (`Seen`).  A wallet that cannot pay
for the accounts it opens fails without being beaten, and the property says so
(`Lacks`).  Assumed: `PayoutsAssumption`.

`WalletFunds_proofs` proves `UndisturbedSucceeds`, `CountsWhatItCloses`,
`WarnsOfTokens` and the refinement of TxReport by both transactions, for any
accounts, balances, batch size and number of moves by others.  The difficulty is
a drain, whose two transactions may land in either order while its reads show
the finalized chain before the close or after it.  `Undisturbed` says what the
SOL of a wallet nobody else touches can be in each of these cases, and that the
payment asked for no more (`Gain`: what a batch returns is at least the rent
exemption, so that a payment reckoned without it leaves the wallet exempt or
empty).  The recipient needs no lemma about its balance: the only payments that
leave it below the minimum are sweeps of less than the minimum, and from such a
balance the fee payer's check, which comes first, has already kept the
transaction out of the block.  (It is not a failure but a signature that lapses;
without `--confirm` the command has printed it by then.)  Without a condition this holds of a sweep
and of a closing.  Of a drain it needs `RentCoversFee`, that an account's rent
pays the fee of its closing: true at the commands' default priority fees, not at
every `--priority-fee`, and the runs have instances where it fails and a drain
does fail on chain.  It is a premise in the property, for drains alone.
`ClosesTheBatch` ties the closed accounts to the batch that has landed,
whatever others do; `WarnedSoFar` follows the two listings, one per token
program, and rests on `KeepsTokens`: no step of a drain empties an account.
Assumed: `WalletAssumption` (finitely many accounts; fees are positive).

`ReadCommands_proofs` is about the commands that only read.  *Trades*: every walk
satisfies `NoFreeLunch`, `QuotesAreTight` and `FloorsBracketQuotes`; the trader's
tokens are missing from the base reserve, what he paid is in the quote reserve
or among the fees, and the product has not fallen, so the quote reserve is at
least its opening value.  The read commands are no step of a walk
(`ReadSpec => WalkSpec`), so all that holds under them.  *Info*: from `WalkInv`
and from what each read leaves known (`ReadsKnow`: a coin migrates only once its
curve is complete, so a pool open at the start is looked for and found),
`InfoDescribesTheCoin` follows, by `ShownIsTheCoin` for an account of any
length; and `PricesAreReal`, because the product has not fallen between the reads
of the two vaults (`VaultsMeet`, `BetweenPrices`).  *Listings*: `ListInv` says
what was found after the first page (`Paging`) and after the last (`Paged`: the
property itself), that the accounts read are those of the first rows
(`AccountsInStep`), and that a row shows its curve exactly if it is above the
one at hand and legible (`ShownAbove`).  From it follow `BoardWellRead` and
`RowsKeepTheirCurve`, for any boards, page sizes, limits and batches.  Behind it
are lemmas on list comprehensions: the model takes the rows at a set of places
in their order (`Keep`), and `Nth` counts a place by its rank, so that two such
lists are equal when their places are, and two pages that overlap by a row
collect what one long page would (`TwoPages`); if the board moved between them,
only a coin that climbed two places can be on neither (`MovedMissesClimbers`).
MCReads evaluates that `Keep` gives what filtering and appending row by row, as
the code does, would (`ComprehensionsAgree`).  *tx-status*: asking is no step of
the send path (`FollowUpSpec => SubmissionSpec`), so that everything above holds
of the composition the run checks, and `FollowUpSpec => []TrueStatus`: an answer
stays true because a landed transaction never changes again (`LandedStays`), and
agrees with the receipt by `ExactReceipt`.  Assumed: `TokenInfoAssumption`
(lengths are natural numbers, a coin has a value in every field),
`TokenListsAssumption` (the second page overlaps the first by one row; the API
ranks no coin twice at one moment, which the requests of one page rely on) and
`QuoteWalkAssumption`.

Every invariant that a run checks is a theorem, and so are the refinements and
`SignatureSurvives`.  Only model-checked: the properties that need fairness
(`SendEnds`, `CommandEnds`, `WalletEnds`), as liveness is out of the prover's
reach, and the four refutations, which are counterexamples.

## 6. Plan

Done: the send path with `tx-status`, the quotes, the trade commands, the
launch, the payouts, the wallet's commands, info, the listings and the two files
with the settings of every run, each with the proofs of its invariants.

Next, in this order:

1. A keystore replaced while drain decrypts it three times, and a setting that
   names another keystore, in one composition of WalletFunds and LocalFiles.
2. The base fee and rents of a buy charged to the wallet in Trade, and with them
   a buy on a wallet at its limit.

Not to be modelled: addresses and instruction builders (byte layouts given by
the on-chain programs: the modules take an address for the account it is the
address of, and an instruction for its effect), the IDL parser (no command uses
it), the choice between transaction versions v0 and v1 (it changes the encoding
only; a transaction too large for both is `Oversize`), the decoders of accounts
of a single version, rendering and option parsing, the ciphers, and
pump.fun's API beyond the rows it serves.
