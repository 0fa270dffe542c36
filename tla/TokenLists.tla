----------------------------- MODULE TokenLists -----------------------------
(***************************************************************************)
(* The listings, core/tokens.py under commands/tokens.py: a board read in  *)
(* pages while its rows move, or a single request (search, recommended),   *)
(* narrowed to pump.fun coins; then, with an RPC endpoint, enriched row by *)
(* row from the coins' curves.                                             *)
(*                                                                         *)
(* A row is the coin it lists.                                             *)
(***************************************************************************)
EXTENDS Integers, Sequences, FiniteSets, SequencesExt

CONSTANTS
  Rows, PumpCoins,      \* what a board lists; those that _is_pump_coin accepts
  Page,                 \* _BOARD_PAGE
  MaxOffset,            \* _BOARD_MAX_OFFSET
  Limits,               \* --limit
  Batch,                \* _MULTIPLE_ACCOUNTS_MAX
  BoardsAtStart,        \* boards, as sequences of rows
  CurveOf,              \* per row: what its curve account is
  QuoteOf,              \* per row: the curve's quote asset
  UnknownQuotes,        \* those that need a read
  BadQuotes,            \* those of them whose mint cannot be read
  MaxMoves              \* rows that move while the board is read (bound)

NoCurve == 0

ASSUME TokenListsAssumption ==
  /\ PumpCoins \subseteq Rows
  /\ Page \in Nat \ {0} /\ MaxOffset = Page - 1
  /\ Limits \subseteq Nat \ {0} /\ Batch \in Nat \ {0}
  /\ BoardsAtStart \subseteq {b \in Seq(Rows) : IsInjective(b)}
  /\ NoCurve \notin Rows
  /\ CurveOf \in [Rows -> {"none", "unreadable", "live", "complete"}]
  /\ BadQuotes \subseteq UnknownQuotes
  /\ MaxMoves \in Nat

VARIABLES
  board,                \* the board as pump.fun serves it
  moves,                \* changes to it so far
  ask,                  \* what the user asked for
  lpc,                  \* the read awaited
  offset, found,        \* of _board
  boards,               \* the board at the first and at the last of its pages, and
                        \* how many there were (history)
  accounts,             \* the curve accounts read so far, by row; 0: there is none
  at,                   \* the row being enriched
  decimals,             \* quote assets whose decimals have been read
  chain,                \* chain[n]: whose curve row n shows, or 0
  listed                \* how the command ended

listVars == <<board, moves, ask, lpc, offset, found, boards, accounts, at, decimals, chain,
              listed>>

ListReads == {"page", "global", "accounts", "rows", "mint"}
Asks == [source : {"board", "search"}, limit : Limits, rpc : BOOLEAN]

ListTypeOK ==
  /\ board \in Seq(Rows) /\ found \in Seq(PumpCoins)
  /\ lpc \in ListReads \cup {"done"}
  /\ listed \in {"none", "api_error", "listed", "enriched", "enrich_failed"}
  /\ offset \in 0 .. MaxOffset
  /\ \A n \in DOMAIN chain : chain[n] = NoCurve \/ chain[n] \in Rows
  /\ Len(chain) <= Len(found)

ListInit ==
  /\ board \in BoardsAtStart
  /\ moves = 0
  /\ ask \in Asks
  /\ lpc = "page"
  /\ offset = 0 /\ found = <<>>
  /\ boards = [first |-> <<>>, last |-> <<>>, pages |-> 0]
  /\ accounts = <<>> /\ at = 1 /\ decimals = {} /\ chain = <<>>
  /\ listed = "none"

Finished(how) == lpc' = "done" /\ listed' = how
Awaiting(where) == lpc' = where /\ UNCHANGED listed

IsPump(r) == r \in PumpCoins

(* A list comprehension: the members at these places, in their order.      *)
Nth(places, k) == CHOOSE n \in places : Cardinality({m \in places : m <= n}) = k
Keep(seq, places) == [k \in 1 .. Cardinality(places) |-> seq[Nth(places, k)]]

PumpRows(rows) == Keep(rows, {n \in DOMAIN rows : IsPump(rows[n])})
Prefix(seq, n) == SubSeq(seq, 1, IF n < Len(seq) THEN n ELSE Len(seq))

-----------------------------------------------------------------------------
(* The listing.                                                            *)

(* A row of the API without chain data; then the chain, if there is one.   *)
Listing(rows) ==
  /\ found' = rows
  /\ chain' = [n \in DOMAIN rows |-> NoCurve]
  /\ IF ask.rpc /\ rows # <<>> THEN Awaiting("global") ELSE Finished("listed")

(* (Mutant: rows seen on the page before are taken again.)                 *)
CollectTwice(rows, page) == rows \o PumpRows(page)

(* found.setdefault: the first row of a coin stays.                        *)
Collect(rows, page) ==
  rows \o Keep(page, {n \in DOMAIN page : /\ IsPump(page[n]) /\ ~Contains(rows, page[n])
                                         /\ \A m \in 1 .. n - 1 : page[m] # page[n]})

(* (Mutant: the cap of the offset does not end the paging.)                *)
LastPageByLength(page) == Len(page) < Page

LastPage(page) == Len(page) < Page \/ offset >= MaxOffset

NextOffset(page) ==
  IF offset + Len(page) < MaxOffset THEN offset + Len(page) ELSE MaxOffset

SeeBoard ==
  boards' = [first |-> IF boards.pages = 0 THEN board ELSE boards.first,
             last |-> board, pages |-> boards.pages + 1]

(* One page of a board; the loop goes on while too few coins are found.    *)
FetchPage ==
  /\ lpc = "page" /\ ask.source = "board"
  /\ LET page == Prefix(SubSeq(board, offset + 1, Len(board)), Page)
         rows == Collect(found, page)
         stop == LastPage(page) \/ Len(rows) >= ask.limit
     IN  IF stop
           THEN Listing(Prefix(rows, ask.limit)) /\ UNCHANGED offset
           ELSE /\ found' = rows /\ offset' = NextOffset(page)
                /\ UNCHANGED <<lpc, listed, chain>>
  /\ SeeBoard
  /\ UNCHANGED <<accounts, decimals>>

(* A single request, of which the API serves its own number of rows.       *)
FetchOnce ==
  /\ lpc = "page" /\ ask.source = "search"
  /\ SeeBoard
  /\ Listing(Prefix(PumpRows(board), ask.limit))
  /\ UNCHANGED <<offset, accounts, decimals>>

(* An HTTP error, another status, no JSON, another shape: TokenApiError,   *)
(* and nothing is listed, not even an earlier page.                        *)
ApiFails ==
  /\ lpc = "page"
  /\ Finished("api_error")
  /\ UNCHANGED <<offset, found, boards, accounts, decimals, chain>>

-----------------------------------------------------------------------------
(* enrich_from_chain.                                                      *)

FetchGlobal ==
  /\ lpc = "global"
  /\ Awaiting("accounts")
  /\ UNCHANGED <<offset, found, boards, accounts, decimals, chain>>

(* (Mutant: accounts that do not exist are left out of the answer.)        *)
AccountsFound(rows) == SelectSeq(rows, LAMBDA r : CurveOf[r] # "none")

AccountsOf(rows) == [n \in DOMAIN rows |-> IF CurveOf[rows[n]] = "none" THEN NoCurve ELSE rows[n]]

FetchAccounts ==
  /\ lpc = "accounts"
  /\ LET rest == SubSeq(found, Len(accounts) + 1, Len(found))
         read == accounts \o AccountsOf(Prefix(rest, Batch))
     IN  /\ accounts' = read
         /\ Awaiting(IF Len(rest) > Batch THEN "accounts" ELSE "rows")
  /\ UNCHANGED <<offset, found, boards, decimals, chain>>

Readable(account) == account # NoCurve /\ CurveOf[account] # "unreadable"

(* The row's price and progress are of that account.                       *)
ShowCurve(n) == chain' = [chain EXCEPT ![n] = accounts[n]]
NextRow == at' = at + 1

(* One turn of the loop over rows and accounts: up to the read of a quote  *)
(* asset's decimals, or through.  zip is strict: it raises if the accounts *)
(* run out before the rows.                                                *)
EnrichRow ==
  /\ lpc = "rows"
  /\ IF at > Len(accounts)
       THEN /\ Finished(IF at > Len(found) THEN "enriched" ELSE "enrich_failed")
            /\ UNCHANGED <<at, chain>>
     ELSE IF ~Readable(accounts[at])
       THEN NextRow /\ UNCHANGED <<lpc, listed, chain>>
     ELSE IF QuoteOf[accounts[at]] \in UnknownQuotes \ decimals
       THEN Awaiting("mint") /\ UNCHANGED <<at, chain>>
       ELSE NextRow /\ ShowCurve(at) /\ UNCHANGED <<lpc, listed>>
  /\ UNCHANGED <<offset, found, boards, accounts, decimals>>

(* A mint that is none: the row keeps the API's fields.                    *)
ReadDecimals ==
  /\ lpc = "mint"
  /\ LET asset == QuoteOf[accounts[at]] IN
     IF asset \in BadQuotes
       THEN UNCHANGED <<decimals, chain>>
       ELSE decimals' = decimals \cup {asset} /\ ShowCurve(at)
  /\ NextRow /\ Awaiting("rows")
  /\ UNCHANGED <<offset, found, boards, accounts>>

(* The endpoint fails: the rows are listed as they are by then.            *)
EnrichFails ==
  /\ lpc \in {"global", "accounts", "mint"}
  /\ Finished("enrich_failed")
  /\ UNCHANGED <<offset, found, boards, accounts, at, decimals, chain>>

ListStep ==
  /\ \/ (FetchPage \/ FetchOnce \/ ApiFails \/ FetchGlobal \/ FetchAccounts) /\ UNCHANGED at
     \/ EnrichRow \/ ReadDecimals \/ EnrichFails
  /\ UNCHANGED <<board, moves, ask>>

(* The board moves (external): a row is ranked anew, appears or drops out. *)
BoardMoves ==
  /\ lpc = "page" /\ moves < MaxMoves /\ moves' = moves + 1
  /\ \E r \in Rows :
       LET others == Keep(board, {n \in DOMAIN board : board[n] # r}) IN
       \/ board' = others
       \/ \E n \in 1 .. Len(others) + 1 : board' = InsertAt(others, n, r)
  /\ UNCHANGED <<ask, lpc, offset, found, boards, accounts, at, decimals, chain, listed>>
-----------------------------------------------------------------------------
Listed == listed \in {"listed", "enriched", "enrich_failed"}

(* The rows that two overlapping pages can reach.                          *)
Reach == MaxOffset + Page
Place(rows, r) == CHOOSE n \in DOMAIN rows : rows[n] = r
Reachable(rows) == {r \in PumpCoins : \E n \in DOMAIN rows : rows[n] = r /\ n <= Reach}

(* Of a board that did not move between its pages a listing is the first   *)
(* coins, in order, of all the rows within reach; of one that moved it can *)
(* miss only a coin that climbed two places or more.                       *)
FirstOfTheBoard ==
  /\ boards.first = boards.last =>
       found = Prefix(PumpRows(IF ask.source = "board" THEN Prefix(boards.last, Reach)
                               ELSE boards.last), ask.limit)
  /\ Len(found) < ask.limit /\ ask.source = "board" =>
       \A r \in Reachable(boards.first) \cap Reachable(boards.last) :
         Contains(found, r) \/ Place(boards.first, r) >= Place(boards.last, r) + 2

(* PROPERTY. A board is read in two requests at most, although its offset  *)
(* stops growing at the API's cap.  A listing has no coin twice, at most   *)
(* the number asked for, and, as the pages overlap by one, the coins of    *)
(* the top of the board (_board).                                          *)
BoardWellRead ==
  /\ boards.pages <= 2
  /\ Listed => IsInjective(found) /\ Len(found) <= ask.limit /\ FirstOfTheBoard

(* The rows whose curve and quote asset can be read.                       *)
Legible == {n \in DOMAIN found : /\ CurveOf[found[n]] \notin {"none", "unreadable"}
                                 /\ QuoteOf[found[n]] \notin BadQuotes}

(* PROPERTY. A row shows the curve of its own coin or none; without a      *)
(* failure exactly the rows whose curve and quote asset can be read show   *)
(* theirs, and after one a part from the top (enrich_from_chain: a coin    *)
(* whose curve cannot be read keeps the API's fields only).                *)
RowsKeepTheirCurve ==
  LET showing == {n \in DOMAIN chain : chain[n] # NoCurve}
  IN  /\ ListTypeOK
      /\ Listed =>
           /\ \A n \in showing : n \in Legible /\ chain[n] = found[n]
           /\ listed = "enriched" => showing = Legible
           /\ \A n \in showing, k \in Legible : k < n => k \in showing
=============================================================================
