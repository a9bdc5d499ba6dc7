----------------------------- MODULE Portfolios -----------------------------
(***************************************************************************)
(* The asset arrays of Portfolios.sol: search, merge, netting, removal by  *)
(* swapping the last entry in, and the loops that settle and liquidate     *)
(* while the array shrinks under them.                                     *)
(*                                                                         *)
(* One cash group: an entry is its maturity, its kind (assetType) and its  *)
(* notional.  What the callers compute (the notionals, which receivers a   *)
(* liquidation needs, whether the free collateral check passes) is left    *)
(* open; that the check settles the account first is not.                  *)
(***************************************************************************)
EXTENDS Positions, SequencesExt, FiniteSetsExt, Functions

CONSTANTS
  Account,      \* the owners of portfolios
  Amount,       \* the notionals callers pass
  MAX_ASSETS,   \* G_MAX_ASSETS
  MaxTime,      \* bound of the model: the last block time
  MaxNotional   \* bound of the model: the notional of an entry

ASSUME PortfoliosAssumption ==
  /\ IsFiniteSet(Account) /\ IsFiniteSet(Maturity)
  /\ Maturity \subseteq Nat /\ Amount \subseteq Nat
  /\ MAX_ASSETS \in Nat /\ MaxTime \in Nat /\ MaxNotional \in Nat

VARIABLES
  accountAssets,  \* Portfolios._accountAssets
  now             \* block.timestamp

vars == <<accountAssets, now>>

Kind == {"payer", "receiver", "token"}

(* Common.makeCounterparty; a "tokenPayer" only ever appears in an argument. *)
Counterparty(kind) ==
  CASE kind = "payer"      -> "receiver"
    [] kind = "receiver"   -> "payer"
    [] kind = "token"      -> "tokenPayer"
    [] kind = "tokenPayer" -> "token"

Asset(m, kind, n) == [maturity |-> m, kind |-> kind, notional |-> n]

-----------------------------------------------------------------------------
(* The internal portfolio methods                                          *)

Matching(assets, m, kinds) ==
  {i \in DOMAIN assets : assets[i].maturity = m /\ assets[i].kind \in kinds}

(* Mutant of Rivals: the counterparty is not looked for. *)
RivalsSameKind(assets, e) == Matching(assets, e.maturity, {e.kind})

(* _searchAsset with findCounterparty: the entries that e merges with. *)
Rivals(assets, e) == Matching(assets, e.maturity, {e.kind, Counterparty(e.kind)})

(* _removeAsset: the last entry takes the place of the removed one. *)
RemoveAsset(assets, i) ==
  IF i = Len(assets) THEN Front(assets) ELSE ReplaceAt(Front(assets), i, Last(assets))

ReduceAsset(assets, i, value) ==
  IF assets[i].notional = value THEN RemoveAsset(assets, i)
                                ELSE [assets EXCEPT ![i].notional = @ - value]

(* Mutant of UpsertAsset: the difference is kept on the old side. *)
UpsertAssetKeepsKind(assets, e) ==
  LET i == Min(Rivals(assets, e))
      old == assets[i]
  IN  IF Rivals(assets, e) = {} THEN Append(assets, e)
      ELSE IF old.kind = e.kind THEN [assets EXCEPT ![i].notional = @ + e.notional]
      ELSE IF old.notional >= e.notional THEN ReduceAsset(assets, i, e.notional)
      ELSE [assets EXCEPT ![i].notional = e.notional - @]

(* _upsertAsset: append, add to the same kind, or net against the opposite
   one, whose sign flips when e is the larger. *)
UpsertAsset(assets, e) ==
  LET i == Min(Rivals(assets, e))
      old == assets[i]
  IN  IF Rivals(assets, e) = {} THEN Append(assets, e)
      ELSE IF old.kind = e.kind THEN [assets EXCEPT ![i].notional = @ + e.notional]
      ELSE IF old.notional >= e.notional THEN ReduceAsset(assets, i, e.notional)
      ELSE [assets EXCEPT ![i] = Asset(e.maturity, e.kind, e.notional - old.notional)]

(* Mutant of CanUpsert: tokens can be taken from an account without any. *)
CanUpsertFromNothing(assets, e, liquidateAllowAdd) ==
  IF Rivals(assets, e) = {}
    THEN Len(assets) <= MAX_ASSETS \/ liquidateAllowAdd
    ELSE e.kind = "tokenPayer" => e.notional <= assets[Min(Rivals(assets, e))].notional

(* When it does not revert: there is room for a new entry, and tokens never
   go below zero. *)
CanUpsert(assets, e, liquidateAllowAdd) ==
  IF Rivals(assets, e) = {}
    THEN /\ Len(assets) <= MAX_ASSETS \/ liquidateAllowAdd
         /\ e.kind # "tokenPayer"
    ELSE e.kind = "tokenPayer" => e.notional <= assets[Min(Rivals(assets, e))].notional

(* Mutant of SettlePass: the entry swapped in is not looked at. *)
SettlePassSkips(s, t) ==
  IF s.i > Len(s.assets) THEN s
  ELSE [assets |-> IF s.assets[s.i].maturity <= t THEN RemoveAsset(s.assets, s.i) ELSE s.assets,
        i |-> s.i + 1]

(* One pass of the loop in _settleMaturedAssets, at index i.  A removal
   brings another entry to i, so the next pass looks there again. *)
SettlePass(s, t) ==
  IF s.assets[s.i].maturity <= t THEN [assets |-> RemoveAsset(s.assets, s.i), i |-> s.i]
                                 ELSE [assets |-> s.assets, i |-> s.i + 1]

(* _settleMaturedAssets: as many passes as the array had entries. *)
Settled(assets, t) ==
  LET after[k \in 0 .. Len(assets)] ==
        IF k = 0 THEN [assets |-> assets, i |-> 1] ELSE SettlePass(after[k - 1], t)
  IN  after[Len(assets)].assets

(* One upsert of a call; a call that has reverted does nothing more. *)
UpsertPass(s, e, liquidateAllowAdd) ==
  IF s.ok /\ CanUpsert(s.assets, e, liquidateAllowAdd)
    THEN [assets |-> UpsertAsset(s.assets, e), ok |-> TRUE]
    ELSE [s EXCEPT !.ok = FALSE]

(* The upserts of one call, one after the other; `ok' when none reverts. *)
UpsertAll(assets, es, liquidateAllowAdd) ==
  LET after[k \in 0 .. Len(es)] ==
        IF k = 0 THEN [assets |-> assets, ok |-> TRUE]
                 ELSE UpsertPass(after[k - 1], es[k], liquidateAllowAdd)
  IN  after[Len(es)]

(* One pass of _tradefCashLiquidator: receivers of `a' go to `b' until `left'
   of them are sold, wholly but for a part x > 0 of the last one. *)
SellPass(s, a, b, x) ==
  LET sold == s.book[a][s.i]
      whole == s.left > 1 \/ x = 0
      moved == Asset(sold.maturity, "receiver", IF whole THEN sold.notional ELSE x)
      taken == [s.book EXCEPT ![a] = ReduceAsset(@, s.i, moved.notional)]
  IN  IF s.left = 0 \/ ~s.ok THEN s
      ELSE IF sold.kind # "receiver" THEN [s EXCEPT !.i = @ + 1]
      ELSE IF (whole \/ x < sold.notional) /\ CanUpsert(taken[b], moved, FALSE)
        THEN [book |-> [taken EXCEPT ![b] = UpsertAsset(@, moved)],
              i    |-> IF whole THEN s.i ELSE s.i + 1,
              left |-> s.left - 1,
              ok   |-> TRUE]
        ELSE [s EXCEPT !.ok = FALSE]

SellReceivers(book, a, b, count, x) ==
  LET after[k \in 0 .. Len(book[a])] ==
        IF k = 0 THEN [book |-> book, i |-> 1, left |-> count, ok |-> TRUE]
                 ELSE SellPass(after[k - 1], a, b, x)
  IN  after[Len(book[a])]

-----------------------------------------------------------------------------
(* The calls                                                               *)

Init ==
  /\ accountAssets = [a \in Account |-> <<>>]
  /\ now = 0

(* The bound on notionals cuts behaviours off, it does not change them. *)
Commit(book) ==
  /\ \A a \in Account : \A i \in DOMAIN book[a] : book[a][i].notional <= MaxNotional
  /\ accountAssets' = book
  /\ UNCHANGED now

(* freeCollateral(a): settles. *)
Check(book, a) == [book EXCEPT ![a] = Settled(@, now)]

(* upsertAccountAsset, upsertAccountAssetBatch: for the market. *)
UpsertAccountAssets(a, es, checkFreeCollateral) ==
  LET after == UpsertAll(accountAssets[a], es, FALSE)
      book == [accountAssets EXCEPT ![a] = after.assets]
  IN  /\ after.ok
      /\ Commit(IF checkFreeCollateral THEN Check(book, a) ELSE book)

(* transferAccountAsset: `from' and `to' may be the same account. *)
TransferAccountAsset(from, to, m, kind, n) ==
  LET found == Matching(accountAssets[from], m, {kind})
      sent == [accountAssets EXCEPT ![from] = ReduceAsset(@, Min(found), n)]
      e == Asset(m, kind, n)
  IN  /\ now < m
      /\ found # {}
      /\ n <= accountAssets[from][Min(found)].notional
      /\ CanUpsert(sent[to], e, FALSE)
      /\ Commit(Check([sent EXCEPT ![to] = UpsertAsset(@, e)], from))

MintfCashPair(payer, receiver, m, n) ==
  LET owed == [accountAssets EXCEPT ![payer] = UpsertAsset(@, Asset(m, "payer", n))]
      claim == Asset(m, "receiver", n)
  IN  /\ now < m
      /\ CanUpsert(accountAssets[payer], Asset(m, "payer", n), FALSE)
      /\ CanUpsert(owed[receiver], claim, FALSE)
      /\ Commit(Check([owed EXCEPT ![receiver] = UpsertAsset(@, claim)], payer))

SettleMaturedAssets(a) ==
  /\ \E i \in DOMAIN accountAssets[a] : accountAssets[a][i].maturity <= now
  /\ Commit(Check(accountAssets, a))

(* raiseCurrentCashViaLiquidityToken, once Escrow has settled the account: the
   tokens are redeemed in the order of their maturities, all of each but the
   last (n of it); f[j] is the fCash that comes out of the j-th. *)
RaiseViaLiquidityToken(a, count, n, f) ==
  LET assets == Settled(accountAssets[a], now)
  IN  \E tokens \in SetToSeqs({e \in ToSet(assets) : e.kind = "token"}) :
        LET changes == [x \in 1 .. 2 * count |->
                          LET j == (x + 1) \div 2
                          IN  IF x % 2 = 1 THEN Asset(tokens[j].maturity, "receiver", f[j])
                              ELSE Asset(tokens[j].maturity, "tokenPayer",
                                         IF j < count THEN tokens[j].notional ELSE n)]
            after == UpsertAll(assets, changes, TRUE)
        IN  /\ \A i, j \in DOMAIN tokens : i < j => tokens[i].maturity < tokens[j].maturity
            /\ count <= Len(tokens)
            /\ n <= tokens[count].notional
            /\ after.ok
            /\ Commit([accountAssets EXCEPT ![a] = after.assets])

(* raiseCurrentCashViaCashReceiver: only without liquidity tokens. *)
RaiseViaCashReceiver(a, liquidator, count, x) ==
  LET book == Check(accountAssets, a)
      after == SellReceivers(book, a, liquidator, count, x)
  IN  /\ \A i \in DOMAIN book[a] : book[a][i].kind # "token"
      /\ after.ok /\ after.left = 0
      /\ Commit(after.book)

Tick ==
  /\ now < MaxTime
  /\ now' = now + 1
  /\ UNCHANGED accountAssets

(* addLiquidity, removeLiquidity, takeCurrentCash and takefCash of CashMarket. *)
MarketChanges(m) ==
  UNION {{<<Asset(m, "token", n), Asset(m, "payer", f)>>,
          <<Asset(m, "tokenPayer", n), Asset(m, "receiver", f)>>,
          <<Asset(m, "payer", f)>>,
          <<Asset(m, "receiver", f)>>} : n \in Amount, f \in Amount}

MarketNext ==
  \E a \in Account, m \in Maturity, checkFreeCollateral \in BOOLEAN :
    /\ now < m
    /\ \E es \in MarketChanges(m) : UpsertAccountAssets(a, es, checkFreeCollateral)

TransferNext ==
  \E a \in Account, b \in Account, m \in Maturity, n \in Amount :
    \/ \E kind \in {"receiver", "token"} : TransferAccountAsset(a, b, m, kind, n)
    \/ MintfCashPair(a, b, m, n)

LiquidateNext ==
  \E a \in Account :
    \E count \in 1 .. Len(accountAssets[a]), n \in Amount :
      \/ \E f \in [1 .. count -> Amount] : RaiseViaLiquidityToken(a, count, n, f)
      \/ \E liquidator \in Account : RaiseViaCashReceiver(a, liquidator, count, n)

Next ==
  \/ MarketNext
  \/ TransferNext
  \/ \E a \in Account : SettleMaturedAssets(a)
  \/ LiquidateNext
  \/ Tick

Spec == Init /\ [][Next]_vars
-----------------------------------------------------------------------------
(* Correctness                                                             *)

TypeOK ==
  /\ \A a \in Account :
       accountAssets[a] \in Seq([maturity : Maturity, kind : Kind, notional : 0 .. MaxNotional])
  /\ now \in 0 .. MaxTime

(* An account has at most one liquidity token and one fCash position per
   maturity, never a payer next to a receiver: what _searchAsset, which stops
   at the first match, and the netting of upserts rely on. *)
OneEntryPerPosition ==
  \A a \in Account : \A i, j \in DOMAIN accountAssets[a] :
    LET d == accountAssets[a][i]
        e == accountAssets[a][j]
    IN  i # j /\ d.maturity = e.maturity => (d.kind = "token") # (e.kind = "token")

(* The positions an array stands for; a match is the only one. *)
Signed(e) == IF e.kind = "payer" THEN -e.notional ELSE e.notional

PositionAt(assets, m, kinds) ==
  LET found == Matching(assets, m, kinds)
  IN  IF found = {} THEN 0 ELSE Signed(assets[CHOOSE i \in found : TRUE])

PositionsOf(assets) ==
  [fCash  |-> [m \in Maturity |-> PositionAt(assets, m, {"payer", "receiver"})],
   token  |-> [m \in Maturity |-> PositionAt(assets, m, {"token"})],
   listed |-> {m \in Maturity : Matching(assets, m, {"token"}) # {}}]

(* The array keeps the book: merging, netting, swapping and the two loops add
   up to what PositionBook says of each call. *)
Book == INSTANCE PositionBook WITH book <- [a \in Account |-> PositionsOf(accountAssets[a])]
ImplementsBook == Book!BookSpec

(* "We won't allow it to grow past the max assets parameter except in the case
   of liquidating liquidity tokens" (Portfolios.sol:1025-1027), of an account
   that no liquidation has touched. *)
GrowsWithinMaxAssets ==
  [][\A a \in Account :
       /\ Len(accountAssets'[a]) > Len(accountAssets[a])
       /\ MarketNext \/ TransferNext
       => Len(accountAssets'[a]) <= MAX_ASSETS]_vars
=============================================================================
