-------------------------- MODULE PortfoliosProofs --------------------------
(***************************************************************************)
(* Theorems about Portfolios: an account never has two entries for one     *)
(* position, and the arrays implement the book of positions.  The array    *)
(* methods are described by the set of entries they leave, where the order *)
(* no longer shows; the loops by how far they have come in an array that   *)
(* shrinks.                                                                *)
(***************************************************************************)
EXTENDS Portfolios, Sums, SequenceTheorems

Entry == [maturity : Maturity, kind : Kind, notional : Nat]

(* What the market passes: tokens may also be taken. *)
Argument == [maturity : Maturity, kind : Kind \cup {"tokenPayer"}, notional : Nat]

IsToken(e) == e.kind \in {"token", "tokenPayer"}

(* Entries that merge with each other. *)
SameSlot(d, e) == d.maturity = e.maturity /\ (IsToken(d) <=> IsToken(e))

Arrays == {s \in Seq(Entry) : \A i, j \in 1 .. Len(s) : i # j => ~SameSlot(s[i], s[j])}

-----------------------------------------------------------------------------
(* Arrays and their entries                                                *)

LEMMA ArrayFacts ==
  ASSUME NEW s \in Arrays
  PROVE  /\ s \in Seq(Entry) /\ Len(s) \in Nat /\ DOMAIN s = 1 .. Len(s)
         /\ \A i \in 1 .. Len(s) : s[i] \in Entry /\ s[i] \in ToSet(s)
         /\ \A i, j \in 1 .. Len(s) : SameSlot(s[i], s[j]) => i = j
         /\ \A e \in ToSet(s) : e \in Entry /\ \E i \in 1 .. Len(s) : e = s[i]
<1>1. s \in Seq(Entry)
  BY DEF Arrays
<1>2. Len(s) \in Nat /\ DOMAIN s = 1 .. Len(s) /\ \A i \in 1 .. Len(s) : s[i] \in Entry
  BY <1>1, LenProperties
<1> QED BY <1>1, <1>2 DEF Arrays, ToSet

(* Of the entries of an array at most one is of a slot. *)
LEMMA SlotsApart ==
  ASSUME NEW s \in Arrays, NEW d \in ToSet(s), NEW e \in ToSet(s), SameSlot(d, e)
  PROVE  d = e
BY ArrayFacts

LEMMA InitialEffect ==
  ASSUME NEW S, NEW s, NEW n \in Nat, \A j \in 1 .. n : s[j] \in S
  PROVE  /\ SubSeq(s, 1, n) \in Seq(S)
         /\ Len(SubSeq(s, 1, n)) = n
         /\ \A j \in 1 .. n : SubSeq(s, 1, n)[j] = s[j]
<1> DEFINE r == SubSeq(s, 1, n)
<1>1. /\ r \in Seq(S)
      /\ Len(r) = IF 1 <= n THEN n - 1 + 1 ELSE 0
      /\ \A j \in 1 .. n - 1 + 1 : r[j] = s[1 + j - 1]
  BY SubSeqProperties
<1> HIDE DEF r
<1>2. (IF 1 <= n THEN n - 1 + 1 ELSE 0) = n /\ n - 1 + 1 = n /\ \A j \in 1 .. n : 1 + j - 1 = j
  OBVIOUS
<1> QED BY <1>1, <1>2 DEF r

LEMMA RemovedEffect ==
  ASSUME NEW s \in Arrays, NEW i \in 1 .. Len(s)
  PROVE  /\ RemoveAsset(s, i) \in Arrays
         /\ Len(RemoveAsset(s, i)) = Len(s) - 1
         /\ ToSet(RemoveAsset(s, i)) = ToSet(s) \ {s[i]}
         /\ \A j \in 1 .. Len(s) - 1 : j # i => RemoveAsset(s, i)[j] = s[j]
<1> DEFINE n == Len(s)
           front == SubSeq(s, 1, n - 1)
           r == RemoveAsset(s, i)
<1>1. /\ s \in Seq(Entry) /\ n \in Nat /\ DOMAIN s = 1 .. n /\ i \in 1 .. n
      /\ \A j \in 1 .. n : s[j] \in Entry
  BY ArrayFacts
<1> HIDE DEF n
<1>2. front \in Seq(Entry) /\ Len(front) = n - 1 /\ \A j \in 1 .. n - 1 : front[j] = s[j]
  <2>1. n - 1 \in Nat /\ \A j \in 1 .. n - 1 : s[j] \in Entry
    BY <1>1
  <2> HIDE DEF front
  <2> QED BY <2>1, InitialEffect DEF front
<1>3. r = IF i = n THEN front ELSE [front EXCEPT ![i] = s[n]]
  BY DEF RemoveAsset, Front, ReplaceAt, Last, n
<1> HIDE DEF front
<1>4. /\ r \in Seq(Entry) /\ Len(r) = n - 1
      /\ \A j \in 1 .. n - 1 : r[j] = IF j = i THEN s[n] ELSE s[j]
  <2>1. CASE i = n
    BY <1>1, <1>2, <1>3, <2>1
  <2>2. CASE i # n
    <3>1. i \in 1 .. Len(front) /\ s[n] \in Entry
      BY <1>1, <1>2, <2>2
    <3>2. /\ [front EXCEPT ![i] = s[n]] \in Seq(Entry)
          /\ Len([front EXCEPT ![i] = s[n]]) = Len(front)
          /\ \A j \in 1 .. Len(front) : [front EXCEPT ![i] = s[n]][j] = IF j = i THEN s[n] ELSE front[j]
      BY <1>2, <3>1, ExceptSeq
    <3> QED BY <1>2, <1>3, <2>2, <3>2
  <2> QED BY <2>1, <2>2
<1> HIDE DEF r
<1>5. \A j \in 1 .. n - 1 : \E k \in 1 .. n : k # i /\ r[j] = s[k] /\ (k = j \/ (j = i /\ k = n))
  BY <1>1, <1>4
<1>6. r \in Arrays
  <2> SUFFICES ASSUME NEW j \in 1 .. n - 1, NEW k \in 1 .. n - 1, j # k, SameSlot(r[j], r[k])
               PROVE  FALSE
    BY <1>4 DEF Arrays
  <2>1. PICK p \in 1 .. n : p # i /\ r[j] = s[p] /\ (p = j \/ (j = i /\ p = n))
    BY <1>5
  <2>2. PICK q \in 1 .. n : q # i /\ r[k] = s[q] /\ (q = k \/ (k = i /\ q = n))
    BY <1>5
  <2>3. p # q
    BY <1>1, <2>1, <2>2
  <2> QED BY <2>1, <2>2, <2>3 DEF Arrays, n
<1>7. ToSet(r) = ToSet(s) \ {s[i]}
  <2>1. DOMAIN r = 1 .. n - 1
    BY <1>4, LenProperties
  <2>2. ASSUME NEW j \in 1 .. n - 1
        PROVE  r[j] \in ToSet(s) \ {s[i]}
    <3>1. PICK k \in 1 .. n : k # i /\ r[j] = s[k]
      BY <1>5
    <3>2. s[k] # s[i]
      BY <3>1, ArrayFacts DEF SameSlot, n
    <3> QED BY <3>1, <3>2, ArrayFacts DEF n
  <2>3. ASSUME NEW k \in 1 .. n, s[k] # s[i]
        PROVE  \E j \in 1 .. n - 1 : s[k] = r[j]
    <3>1. CASE k = n
      <4>1. i \in 1 .. n - 1 /\ r[i] = s[n]
        BY <1>1, <1>4, <2>3, <3>1
      <4> QED BY <3>1, <4>1
    <3>2. CASE k # n
      <4>1. k \in 1 .. n - 1 /\ r[k] = s[k]
        BY <1>1, <1>4, <2>3, <3>2
      <4> QED BY <4>1
    <3> QED BY <3>1, <3>2
  <2>4. ToSet(r) = {r[j] : j \in 1 .. n - 1} /\ ToSet(s) = {s[k] : k \in 1 .. n}
    BY <1>1, <2>1 DEF ToSet
  <2> QED BY <2>2, <2>3, <2>4
<1>8. \A j \in 1 .. n - 1 : j # i => r[j] = s[j]
  BY <1>4
<1> QED BY <1>4, <1>6, <1>7, <1>8 DEF r, n

LEMMA ReplacedEffect ==
  ASSUME NEW s \in Arrays, NEW i \in 1 .. Len(s), NEW e \in Entry, SameSlot(s[i], e),
         NEW r, r = [j \in 1 .. Len(s) |-> IF j = i THEN e ELSE s[j]]
  PROVE  r \in Arrays /\ Len(r) = Len(s) /\ ToSet(r) = (ToSet(s) \ {s[i]}) \cup {e}
<1> DEFINE n == Len(s)
<1>1. s \in Seq(Entry) /\ DOMAIN s = 1 .. n
  BY ArrayFacts
<1>2. r \in Seq(Entry) /\ Len(r) = n /\ \A j \in 1 .. n : r[j] = IF j = i THEN e ELSE s[j]
  <2>1. r = [s EXCEPT ![i] = e]
    BY <1>1
  <2> QED BY <1>1, <2>1, ExceptSeq
<1>3. r \in Arrays
  <2> SUFFICES ASSUME NEW j \in 1 .. n, NEW k \in 1 .. n, j # k, SameSlot(r[j], r[k])
               PROVE  FALSE
    BY <1>2 DEF Arrays
  <2>1. SameSlot(s[j], s[k])
    BY <1>2 DEF SameSlot
  <2> QED BY <2>1, ArrayFacts
<1>4. DOMAIN r = 1 .. n
  BY <1>2, LenProperties
<1>5. \A j \in 1 .. n : j # i => s[j] # s[i]
  BY ArrayFacts DEF SameSlot
<1>6. ToSet(r) = (ToSet(s) \ {s[i]}) \cup {e}
  BY <1>1, <1>2, <1>4, <1>5 DEF ToSet
<1> QED BY <1>2, <1>3, <1>6

LEMMA AppendedEffect ==
  ASSUME NEW s \in Arrays, NEW e \in Entry, \A d \in ToSet(s) : ~SameSlot(d, e)
  PROVE  /\ Append(s, e) \in Arrays
         /\ Len(Append(s, e)) = Len(s) + 1
         /\ ToSet(Append(s, e)) = ToSet(s) \cup {e}
         /\ \A j \in 1 .. Len(s) : Append(s, e)[j] = s[j]
<1> DEFINE r == Append(s, e)
           n == Len(s)
<1>1. s \in Seq(Entry) /\ DOMAIN s = 1 .. n /\ n \in Nat /\ \A i \in 1 .. n : s[i] \in ToSet(s)
  BY ArrayFacts
<1>2. r \in Seq(Entry) /\ Len(r) = n + 1 /\ (\A j \in 1 .. n : r[j] = s[j]) /\ r[n + 1] = e
  BY <1>1, AppendProperties
<1> HIDE DEF r
<1>3. r \in Arrays
  <2> SUFFICES ASSUME NEW j \in 1 .. n + 1, NEW k \in 1 .. n + 1, j # k, SameSlot(r[j], r[k])
               PROVE  FALSE
    BY <1>2 DEF Arrays
  <2>1. CASE j \in 1 .. n /\ k \in 1 .. n
    BY <1>2, <2>1, ArrayFacts
  <2>2. CASE j = n + 1
    <3>1. k \in 1 .. n /\ SameSlot(s[k], e)
      BY <1>1, <1>2, <2>2 DEF SameSlot
    <3> QED BY <1>1, <3>1
  <2>3. CASE k = n + 1
    <3>1. j \in 1 .. n /\ SameSlot(s[j], e)
      BY <1>1, <1>2, <2>3 DEF SameSlot
    <3> QED BY <1>1, <3>1
  <2> QED BY <1>1, <2>1, <2>2, <2>3
<1>4. DOMAIN r = 1 .. n + 1
  BY <1>2, LenProperties
<1>5. ToSet(r) = ToSet(s) \cup {e}
  <2>1. \A j \in 1 .. n + 1 : r[j] \in ToSet(s) \cup {e}
    BY <1>1, <1>2
  <2>2. \A i \in 1 .. n : i \in 1 .. n + 1 /\ r[i] = s[i]
    BY <1>1, <1>2
  <2>3. n + 1 \in 1 .. n + 1
    BY <1>1
  <2> QED BY <1>1, <1>2, <1>4, <2>1, <2>2, <2>3 DEF ToSet
<1> QED BY <1>2, <1>3, <1>5 DEF r

LEMMA ReducedEffect ==
  ASSUME NEW s \in Arrays, NEW i \in 1 .. Len(s), NEW v \in Nat, v <= s[i].notional
  PROVE  /\ ReduceAsset(s, i, v) \in Arrays
         /\ Len(ReduceAsset(s, i, v)) = IF s[i].notional = v THEN Len(s) - 1 ELSE Len(s)
         /\ ToSet(ReduceAsset(s, i, v))
              = (ToSet(s) \ {s[i]})
                  \cup IF s[i].notional = v THEN {}
                       ELSE {Asset(s[i].maturity, s[i].kind, s[i].notional - v)}
<1> DEFINE e == Asset(s[i].maturity, s[i].kind, s[i].notional - v)
<1>1. s[i] \in Entry
  BY ArrayFacts
<1>2. CASE s[i].notional = v
  BY <1>2, RemovedEffect DEF ReduceAsset
<1>3. CASE s[i].notional # v
  <2>1. s[i].notional - v \in Nat
    BY <1>1 DEF Entry
  <2>2. e \in Entry /\ SameSlot(s[i], e)
    BY <1>1, <2>1 DEF Entry, Asset, SameSlot, IsToken
  <2>3. [s[i] EXCEPT !.notional = @ - v] = e
    BY <1>1 DEF Entry, Asset
  <2> DEFINE r == ReduceAsset(s, i, v)
  <2>4. r = [s EXCEPT ![i].notional = @ - v]
    BY <1>3 DEF ReduceAsset
  <2> HIDE DEF e, r
  <2>5. r = [j \in 1 .. Len(s) |-> IF j = i THEN e ELSE s[j]]
    BY <2>3, <2>4, ArrayFacts
  <2>6. r \in Arrays /\ Len(r) = Len(s) /\ ToSet(r) = (ToSet(s) \ {s[i]}) \cup {e}
    BY <2>2, <2>5, ReplacedEffect
  <2> QED BY <1>3, <2>6 DEF e, r
<1> QED BY <1>2, <1>3

(* The entries that one entry d leaves when e of its slot is upserted. *)
Merged(d, e) ==
  IF d.kind = e.kind THEN {Asset(e.maturity, e.kind, d.notional + e.notional)}
  ELSE IF d.notional = e.notional THEN {}
  ELSE IF d.notional > e.notional THEN {Asset(d.maturity, d.kind, d.notional - e.notional)}
  ELSE {Asset(e.maturity, e.kind, e.notional - d.notional)}

(* The search stops at the one entry of the slot. *)
LEMMA RivalsFound ==
  ASSUME NEW s \in Arrays, NEW e \in Argument
  PROVE  /\ Rivals(s, e) = {} <=> \A d \in ToSet(s) : ~SameSlot(d, e)
         /\ \A i \in 1 .. Len(s) : SameSlot(s[i], e) => Rivals(s, e) # {} /\ Min(Rivals(s, e)) = i
<1>1. DOMAIN s = 1 .. Len(s) /\ \A i \in 1 .. Len(s) : s[i] \in Entry
  BY ArrayFacts
<1>2. \A i \in 1 .. Len(s) : i \in Rivals(s, e) <=> SameSlot(s[i], e)
  BY <1>1 DEF Rivals, Matching, Counterparty, SameSlot, IsToken, Entry, Argument, Kind
<1>3. Rivals(s, e) \subseteq 1 .. Len(s)
  BY <1>1 DEF Rivals, Matching
<1>4. \A d \in ToSet(s) : \E i \in 1 .. Len(s) : d = s[i]
  BY ArrayFacts
<1>5. \A i \in 1 .. Len(s) : s[i] \in ToSet(s)
  BY ArrayFacts
<1>6. ASSUME NEW i \in 1 .. Len(s), SameSlot(s[i], e)
      PROVE  Rivals(s, e) # {} /\ Min(Rivals(s, e)) = i
  <2>1. \A j \in 1 .. Len(s) : SameSlot(s[j], e) => j = i
    BY <1>6, ArrayFacts DEF SameSlot
  <2>2. Rivals(s, e) = {i}
    BY <1>2, <1>3, <1>6, <2>1
  <2>3. i <= i
    OBVIOUS
  <2> QED BY <2>2, <2>3 DEF Min
<1> QED BY <1>2, <1>3, <1>4, <1>5, <1>6

LEMMA UpsertedEffect ==
  ASSUME NEW s \in Arrays, NEW e \in Argument, NEW flag \in BOOLEAN, CanUpsert(s, e, flag)
  PROVE  /\ UpsertAsset(s, e) \in Arrays
         /\ (\A d \in ToSet(s) : ~SameSlot(d, e))
              => /\ e \in Entry
                 /\ ToSet(UpsertAsset(s, e)) = ToSet(s) \cup {e}
                 /\ Len(UpsertAsset(s, e)) = Len(s) + 1
         /\ \A d \in ToSet(s) : SameSlot(d, e)
              => /\ e.kind = "tokenPayer" => e.notional <= d.notional
                 /\ ToSet(UpsertAsset(s, e)) = (ToSet(s) \ {d}) \cup Merged(d, e)
<1> DEFINE r == UpsertAsset(s, e)
<1>1. CASE \A d \in ToSet(s) : ~SameSlot(d, e)
  <2>1. Rivals(s, e) = {}
    BY <1>1, RivalsFound
  <2>2. r = Append(s, e)
    BY <2>1 DEF UpsertAsset
  <2>3. e \in Entry
    BY <2>1 DEF CanUpsert, Argument, Entry
  <2> QED BY <1>1, <2>2, <2>3, AppendedEffect
<1>2. CASE ~ \A d \in ToSet(s) : ~SameSlot(d, e)
  <2>1. PICK i \in 1 .. Len(s) : SameSlot(s[i], e)
    BY <1>2, ArrayFacts
  <2> DEFINE old == s[i]
  <2>2. Rivals(s, e) # {} /\ Min(Rivals(s, e)) = i
    BY <2>1, RivalsFound
  <2>3. \A d \in ToSet(s) : SameSlot(d, e) => d = old
    BY <2>1, ArrayFacts DEF SameSlot
  <2>4. e.kind = "tokenPayer" => e.notional <= old.notional
    BY <2>2 DEF CanUpsert
  <2>5. old \in Entry /\ old.maturity = e.maturity /\ (IsToken(old) <=> IsToken(e))
    BY <2>1, ArrayFacts DEF SameSlot
  <2>6. /\ old.maturity \in Maturity /\ old.kind \in Kind /\ old.notional \in Nat
        /\ e.notional \in Nat /\ e.maturity \in Maturity
    BY <2>5 DEF Entry, Argument
  <2>7. r \in Arrays /\ ToSet(r) = (ToSet(s) \ {old}) \cup Merged(old, e)
    <3>1. CASE old.kind = e.kind
      <4> DEFINE d == Asset(e.maturity, e.kind, old.notional + e.notional)
      <4>1. d \in Entry /\ SameSlot(s[i], d)
        BY <2>5, <2>6, <3>1 DEF Asset, Entry, SameSlot, IsToken
      <4>2. [s[i] EXCEPT !.notional = @ + e.notional] = d
        BY <2>5, <3>1 DEF Asset, Entry
      <4>3. r = [j \in 1 .. Len(s) |-> IF j = i THEN d ELSE s[j]]
        <5>1. r = [s EXCEPT ![i].notional = @ + e.notional]
          BY <2>2, <3>1 DEF UpsertAsset
        <5> HIDE DEF d, r, old
        <5> QED BY <4>2, <5>1, ArrayFacts DEF old
      <4>4. Merged(old, e) = {d}
        BY <3>1 DEF Merged
      <4> HIDE DEF d, r, old
      <4>5. r \in Arrays /\ ToSet(r) = (ToSet(s) \ {s[i]}) \cup {d}
        BY <4>1, <4>3, ReplacedEffect
      <4> QED BY <4>4, <4>5 DEF old
    <3>2. CASE old.kind # e.kind /\ old.notional >= e.notional
      <4>1. r = ReduceAsset(s, i, e.notional)
        BY <2>2, <3>2 DEF UpsertAsset
      <4>2. e.notional \in Nat /\ e.notional <= s[i].notional
        BY <2>6, <3>2
      <4>3. Merged(old, e) = IF old.notional = e.notional THEN {}
                             ELSE {Asset(old.maturity, old.kind, old.notional - e.notional)}
        BY <2>6, <3>2 DEF Merged
      <4> HIDE DEF r
      <4> QED BY <4>1, <4>2, <4>3, ReducedEffect
    <3>3. CASE old.kind # e.kind /\ ~(old.notional >= e.notional)
      <4> DEFINE d == Asset(e.maturity, e.kind, e.notional - old.notional)
      <4>1. e.kind # "tokenPayer" /\ e.notional - old.notional \in Nat
        BY <2>4, <2>6, <3>3
      <4>2. d \in Entry /\ SameSlot(s[i], d)
        BY <2>5, <2>6, <4>1 DEF Asset, Entry, Argument, SameSlot, IsToken
      <4>3. r = [j \in 1 .. Len(s) |-> IF j = i THEN d ELSE s[j]]
        <5>1. r = [s EXCEPT ![i] = d]
          BY <2>2, <3>3 DEF UpsertAsset
        <5> HIDE DEF d, r, old
        <5> QED BY <5>1, ArrayFacts
      <4>4. Merged(old, e) = {d}
        BY <2>6, <3>3 DEF Merged
      <4> HIDE DEF d, r, old
      <4>5. r \in Arrays /\ ToSet(r) = (ToSet(s) \ {s[i]}) \cup {d}
        BY <4>2, <4>3, ReplacedEffect
      <4> QED BY <4>4, <4>5 DEF old
    <3> QED BY <3>1, <3>2, <3>3
  <2> HIDE DEF r, old
  <2> QED BY <1>2, <2>3, <2>4, <2>7 DEF r
<1> QED BY <1>1, <1>2

-----------------------------------------------------------------------------
(* The loops                                                               *)

(* How far the loop of _settleMaturedAssets has come: `left' more passes, and
   the entries before i have been looked at. *)
Settling(s, t, left) ==
  {r \in [assets : Arrays, i : Nat \ {0}] :
     /\ r.i + left = Len(r.assets) + 1
     /\ ToSet(r.assets) \subseteq ToSet(s)
     /\ \A e \in ToSet(s) : e.maturity > t => e \in ToSet(r.assets)
     /\ \A j \in 1 .. r.i - 1 : r.assets[j].maturity > t}

LEMMA SettlePassEffect ==
  ASSUME NEW s \in Arrays, NEW t \in Nat, NEW left \in Nat \ {0}, NEW r \in Settling(s, t, left)
  PROVE  SettlePass(r, t) \in Settling(s, t, left - 1)
<1> DEFINE a == r.assets
           i == r.i
           q == SettlePass(r, t)
<1>1. /\ r \in [assets : Arrays, i : Nat \ {0}]
      /\ i + left = Len(a) + 1
      /\ ToSet(a) \subseteq ToSet(s)
      /\ \A e \in ToSet(s) : e.maturity > t => e \in ToSet(a)
      /\ \A j \in 1 .. i - 1 : a[j].maturity > t
  BY DEF Settling
<1>2. /\ a \in Arrays /\ i \in Nat \ {0} /\ Len(a) \in Nat
      /\ \A j \in 1 .. Len(a) : a[j] \in Entry
  BY <1>1, ArrayFacts
<1>3. i \in 1 .. Len(a)
  BY <1>1, <1>2
<1>4. a[i].maturity \in Nat
  BY <1>2, <1>3, PortfoliosAssumption DEF Entry
<1>5. CASE a[i].maturity <= t
  <2> DEFINE b == RemoveAsset(a, i)
  <2>1. q = [assets |-> b, i |-> i]
    BY <1>5 DEF SettlePass
  <2>2. /\ b \in Arrays /\ Len(b) = Len(a) - 1 /\ ToSet(b) = ToSet(a) \ {a[i]}
        /\ \A j \in 1 .. Len(a) - 1 : j # i => b[j] = a[j]
    BY <1>2, <1>3, RemovedEffect
  <2> HIDE DEF a, i, b
  <2>3. i + (left - 1) = Len(b) + 1
    BY <1>1, <1>2, <2>2
  <2>4. \A j \in 1 .. i - 1 : b[j].maturity > t
    <3>1. \A j \in 1 .. i - 1 : j \in 1 .. Len(a) - 1 /\ j # i
      BY <1>2, <1>3
    <3> QED BY <1>1, <2>2, <3>1
  <2>5. \A e \in ToSet(s) : e.maturity > t => e \in ToSet(b)
    BY <1>1, <1>4, <1>5, <2>2
  <2>6. ToSet(b) \subseteq ToSet(s)
    BY <1>1, <2>2
  <2> QED BY <1>2, <2>1, <2>2, <2>3, <2>4, <2>5, <2>6 DEF Settling
<1>6. CASE a[i].maturity > t
  <2>1. q = [assets |-> a, i |-> i + 1]
    BY <1>4, <1>6 DEF SettlePass
  <2> HIDE DEF a, i
  <2>2. i + 1 + (left - 1) = Len(a) + 1 /\ i + 1 \in Nat \ {0}
    BY <1>1, <1>2
  <2>3. \A j \in 1 .. i + 1 - 1 : a[j].maturity > t
    BY <1>1, <1>2, <1>6
  <2> QED BY <1>1, <1>2, <2>1, <2>2, <2>3 DEF Settling
<1> QED BY <1>4, <1>5, <1>6

(* One pass per entry is enough: nothing matured is left, and nothing else is
   gone. *)
LEMMA SettledEffect ==
  ASSUME NEW s \in Arrays, NEW t \in Nat
  PROVE  Settled(s, t) \in Arrays /\ ToSet(Settled(s, t)) = {e \in ToSet(s) : e.maturity > t}
<1> DEFINE n == Len(s)
           base == [assets |-> s, i |-> 1]
           W == [assets : Arrays, i : Nat \ {0}]
           X == [k \in 0 .. n |-> Settling(s, t, n - k)]
           step == [z \in (1 .. n) \X W |-> SettlePass(z[2], t)]
           Solves(f) == f = [k \in 0 .. n |-> IF k = 0 THEN base ELSE SettlePass(f[k - 1], t)]
<1>1. n \in Nat
  BY ArrayFacts
<1> HIDE DEF n
<1>2. \A k \in 0 .. n : X[k] = Settling(s, t, n - k) /\ X[k] \subseteq W
  BY DEF Settling
<1>3. base \in X[0]
  <2>1. 0 \in 0 .. n /\ 1 + (n - 0) = Len(s) + 1 /\ 1 - 1 = 0
    BY <1>1 DEF n
  <2>2. X[0] = Settling(s, t, n - 0)
    BY <1>2, <2>1, Zenon
  <2>3. \A j \in 1 .. 1 - 1 : s[j].maturity > t
    OBVIOUS
  <2>4. base \in Settling(s, t, n - 0)
    BY <2>1, <2>3 DEF Settling
  <2> QED BY <2>2, <2>4
<1>4. ASSUME NEW k \in 1 .. n, NEW r \in X[k - 1]
      PROVE  SettlePass(r, t) \in X[k] /\ r \in W /\ step[<<k, r>>] = SettlePass(r, t)
  <2> DEFINE left == n - (k - 1)
  <2>1. k - 1 \in 0 .. n /\ k \in 0 .. n /\ left \in Nat \ {0} /\ left - 1 = n - k
    BY <1>1
  <2>2. r \in Settling(s, t, left) /\ r \in W
    BY <1>2, <2>1
  <2> HIDE DEF left, W, X
  <2>3. SettlePass(r, t) \in Settling(s, t, left - 1)
    BY <2>1, <2>2, SettlePassEffect
  <2> QED BY <1>2, <2>1, <2>2, <2>3
<1>5. \E f : Solves(f)
  <2>1. PICK f : Loop(n, base, step, f)
    <3> HIDE DEF step, base
    <3> QED BY <1>1, LoopExists
  <2>2. \A k \in 0 .. n : f[k] \in X[k]
    <3> HIDE DEF step, base, X
    <3> QED BY <1>1, <1>3, <1>4, <2>1, LoopStaysIn
  <2>3. \A k \in 1 .. n : k - 1 \in 0 .. n
    BY <1>1
  <2>4. \A k \in 1 .. n : step[<<k, f[k - 1]>>] = SettlePass(f[k - 1], t)
    <3> HIDE DEF step, X
    <3> QED BY <1>4, <2>2, <2>3
  <2> HIDE DEF step, base
  <2>5. Solves(f)
    <3>1. f = [k \in 0 .. n |-> IF k = 0 THEN base ELSE step[<<k, f[k - 1]>>]]
      BY <2>1 DEF Loop
    <3>2. \A k \in 0 .. n : k = 0 \/ k \in 1 .. n
      BY <1>1
    <3> QED BY <2>4, <3>1, <3>2
  <2> QED BY <2>5
<1>6. ASSUME NEW f, Solves(f)
      PROVE  f[n] \in X[n]
  <2> DEFINE G == {k \in 0 .. n : f[k] \in X[k]}
  <2> HIDE DEF base, X, W, step
  <2>1. \A k \in 0 .. n : f[k] = IF k = 0 THEN base ELSE SettlePass(f[k - 1], t)
    BY <1>6
  <2>2. 0 \in G
    <3>1. 0 \in 0 .. n
      BY <1>1
    <3>2. f[0] = IF 0 = 0 THEN base ELSE SettlePass(f[0 - 1], t)
      BY <2>1, <3>1, Zenon
    <3> QED BY <1>3, <3>1, <3>2
  <2>3. ASSUME NEW k \in 1 .. n, k - 1 \in G
        PROVE  k \in G
    <3>1. k \in 0 .. n /\ f[k] = SettlePass(f[k - 1], t) /\ f[k - 1] \in X[k - 1]
      BY <1>1, <2>1, <2>3
    <3> QED BY <1>4, <3>1
  <2>4. \A k \in 0 .. n : k \in G
    <3> HIDE DEF G
    <3> QED BY <1>1, <2>2, <2>3, IntervalInduction
  <2> QED BY <1>1, <2>4
<1> DEFINE r == (CHOOSE f : Solves(f))[n]
<1>7. Settled(s, t) = r.assets
  BY DEF Settled, n
<1>8. r \in Settling(s, t, 0)
  <2>1. r \in X[n]
    <3> HIDE DEF X, base
    <3> QED BY <1>5, <1>6
  <2>2. X[n] = Settling(s, t, n - n) /\ n - n = 0
    BY <1>1, <1>2
  <2> QED BY <2>1, <2>2
<1> HIDE DEF r
<1>9. /\ r.assets \in Arrays /\ r.i \in Nat /\ r.i + 0 = Len(r.assets) + 1
      /\ ToSet(r.assets) \subseteq ToSet(s)
      /\ \A e \in ToSet(s) : e.maturity > t => e \in ToSet(r.assets)
      /\ \A j \in 1 .. r.i - 1 : r.assets[j].maturity > t
  BY <1>8 DEF Settling
<1>10. \A e \in ToSet(r.assets) : e.maturity > t
  <2> TAKE e \in ToSet(r.assets)
  <2>1. PICK j \in 1 .. Len(r.assets) : e = r.assets[j]
    BY <1>9, ArrayFacts
  <2>2. r.i - 1 = Len(r.assets)
    BY <1>9, ArrayFacts
  <2> QED BY <1>9, <2>1, <2>2
<1> QED BY <1>7, <1>9, <1>10

-----------------------------------------------------------------------------
(* The positions of an array                                               *)

FCash == {"payer", "receiver"}

(* An array says of each position what its one entry says. *)
LEMMA PositionsFacts ==
  ASSUME NEW s \in Arrays
  PROVE  /\ PositionsOf(s) \in Portfolio
         /\ \A e \in ToSet(s) : e.kind = "token"
              => PositionsOf(s).token[e.maturity] = e.notional /\ e.maturity \in PositionsOf(s).listed
         /\ \A e \in ToSet(s) : e.kind # "token" => PositionsOf(s).fCash[e.maturity] = Signed(e)
         /\ \A m \in Maturity : (\A e \in ToSet(s) : e.maturity = m => e.kind # "token")
              => PositionsOf(s).token[m] = 0 /\ m \notin PositionsOf(s).listed
         /\ \A m \in Maturity : (\A e \in ToSet(s) : e.maturity = m => e.kind = "token")
              => PositionsOf(s).fCash[m] = 0
<1> DEFINE P == PositionsOf(s)
<1>1. /\ Len(s) \in Nat /\ DOMAIN s = 1 .. Len(s)
      /\ \A i \in 1 .. Len(s) : s[i] \in Entry /\ s[i] \in ToSet(s)
      /\ \A i, j \in 1 .. Len(s) : SameSlot(s[i], s[j]) => i = j
      /\ \A e \in ToSet(s) : e \in Entry /\ \E i \in 1 .. Len(s) : e = s[i]
  BY ArrayFacts
<1>2. \A i \in 1 .. Len(s) : s[i].kind \in Kind /\ s[i].maturity \in Maturity /\ s[i].notional \in Nat
  BY <1>1 DEF Entry
<1>3. /\ P = [fCash |-> P.fCash, token |-> P.token, listed |-> P.listed]
      /\ P.fCash = [m \in Maturity |-> PositionAt(s, m, FCash)]
      /\ P.token = [m \in Maturity |-> PositionAt(s, m, {"token"})]
      /\ P.listed = {m \in Maturity : Matching(s, m, {"token"}) # {}}
  BY DEF PositionsOf, FCash
<1> HIDE DEF P
<1>4. \A m, i : \A kinds : i \in Matching(s, m, kinds)
         <=> i \in 1 .. Len(s) /\ s[i].maturity = m /\ s[i].kind \in kinds
  BY <1>1 DEF Matching
<1>5. ASSUME NEW kinds \in {FCash, {"token"}}, NEW i \in 1 .. Len(s), s[i].kind \in kinds
      PROVE  PositionAt(s, s[i].maturity, kinds) = Signed(s[i]) /\ Matching(s, s[i].maturity, kinds) # {}
  <2> DEFINE m == s[i].maturity
             found == Matching(s, m, kinds)
  <2>1. i \in found
    BY <1>4, <1>5
  <2>2. ASSUME NEW j \in found
        PROVE  j = i
    <3>1. j \in 1 .. Len(s) /\ s[j].maturity = m /\ s[j].kind \in kinds
      BY <1>4
    <3>2. SameSlot(s[j], s[i])
      BY <1>5, <3>1 DEF SameSlot, IsToken, FCash
    <3> QED BY <1>1, <3>1, <3>2
  <2>3. found # {} /\ (CHOOSE j \in found : TRUE) = i
    <3> HIDE DEF found
    <3> QED BY <2>1, <2>2
  <2>4. PositionAt(s, m, kinds) = IF found = {} THEN 0 ELSE Signed(s[CHOOSE j \in found : TRUE])
    BY DEF PositionAt
  <2> HIDE DEF found
  <2> QED BY <2>3, <2>4 DEF found
<1>6. ASSUME NEW m \in Maturity, NEW kinds \in {FCash, {"token"}},
             \A i \in 1 .. Len(s) : s[i].maturity = m => s[i].kind \notin kinds
      PROVE  PositionAt(s, m, kinds) = 0 /\ Matching(s, m, kinds) = {}
  BY <1>4, <1>6 DEF PositionAt
<1>7. \A m \in Maturity : PositionAt(s, m, FCash) \in Int /\ PositionAt(s, m, {"token"}) \in Nat
  <2> TAKE m \in Maturity
  <2>1. PositionAt(s, m, FCash) \in Int
    <3>1. CASE \E i \in 1 .. Len(s) : s[i].maturity = m /\ s[i].kind \in FCash
      BY <1>2, <1>5, <3>1 DEF Signed
    <3>2. CASE \A i \in 1 .. Len(s) : s[i].maturity = m => s[i].kind \notin FCash
      BY <1>6, <3>2
    <3> QED BY <3>1, <3>2
  <2>2. PositionAt(s, m, {"token"}) \in Nat
    <3>1. CASE \E i \in 1 .. Len(s) : s[i].maturity = m /\ s[i].kind \in {"token"}
      BY <1>2, <1>5, <3>1 DEF Signed
    <3>2. CASE \A i \in 1 .. Len(s) : s[i].maturity = m => s[i].kind \notin {"token"}
      BY <1>6, <3>2
    <3> QED BY <3>1, <3>2
  <2> QED BY <2>1, <2>2
<1>8. P \in Portfolio
  BY <1>3, <1>7 DEF Portfolio
<1>9. \A e \in ToSet(s) : e.kind = "token" => P.token[e.maturity] = e.notional /\ e.maturity \in P.listed
  BY <1>1, <1>2, <1>3, <1>5 DEF Signed
<1>10. \A e \in ToSet(s) : e.kind # "token" => P.fCash[e.maturity] = Signed(e)
  BY <1>1, <1>2, <1>3, <1>5 DEF Kind, FCash
<1>11. ASSUME NEW m \in Maturity, \A e \in ToSet(s) : e.maturity = m => e.kind # "token"
       PROVE  P.token[m] = 0 /\ m \notin P.listed
  BY <1>1, <1>3, <1>6, <1>11
<1>12. ASSUME NEW m \in Maturity, \A e \in ToSet(s) : e.maturity = m => e.kind = "token"
       PROVE  P.fCash[m] = 0
  <2>1. \A i \in 1 .. Len(s) : s[i].maturity = m => s[i].kind \notin FCash
    BY <1>1, <1>12 DEF FCash
  <2> QED BY <1>3, <1>6, <2>1
<1> QED BY <1>8, <1>9, <1>10, <1>11, <1>12 DEF P

(* A change to the entry of one slot is a change to one position. *)
LEMMA OtherPositionsKept ==
  ASSUME NEW s \in Arrays, NEW r \in Arrays, NEW e \in Argument,
         \A d \in Entry : ~SameSlot(d, e) => (d \in ToSet(s) <=> d \in ToSet(r))
  PROVE  /\ \A m \in Maturity : IsToken(e) \/ m # e.maturity
              => PositionsOf(r).fCash[m] = PositionsOf(s).fCash[m]
         /\ \A m \in Maturity : ~IsToken(e) \/ m # e.maturity
              => /\ PositionsOf(r).token[m] = PositionsOf(s).token[m]
                 /\ m \in PositionsOf(r).listed <=> m \in PositionsOf(s).listed
<1> DEFINE P == PositionsOf(s)
           Q == PositionsOf(r)
<1>1. /\ \A d \in ToSet(s) : d \in Entry
      /\ \A d \in ToSet(r) : d \in Entry
  BY ArrayFacts
<1>2. \A d \in Entry : d.kind = "token" <=> IsToken(d)
  BY DEF Entry, Kind, IsToken
<1>3. /\ \A d \in ToSet(s) : d.kind = "token" => P.token[d.maturity] = d.notional /\ d.maturity \in P.listed
      /\ \A d \in ToSet(s) : d.kind # "token" => P.fCash[d.maturity] = Signed(d)
      /\ \A m \in Maturity : (\A d \in ToSet(s) : d.maturity = m => d.kind # "token")
           => P.token[m] = 0 /\ m \notin P.listed
      /\ \A m \in Maturity : (\A d \in ToSet(s) : d.maturity = m => d.kind = "token") => P.fCash[m] = 0
  BY PositionsFacts
<1>4. /\ \A d \in ToSet(r) : d.kind = "token" => Q.token[d.maturity] = d.notional /\ d.maturity \in Q.listed
      /\ \A d \in ToSet(r) : d.kind # "token" => Q.fCash[d.maturity] = Signed(d)
      /\ \A m \in Maturity : (\A d \in ToSet(r) : d.maturity = m => d.kind # "token")
           => Q.token[m] = 0 /\ m \notin Q.listed
      /\ \A m \in Maturity : (\A d \in ToSet(r) : d.maturity = m => d.kind = "token") => Q.fCash[m] = 0
  BY PositionsFacts
<1> HIDE DEF P, Q
<1>5. ASSUME NEW m \in Maturity, IsToken(e) \/ m # e.maturity
      PROVE  Q.fCash[m] = P.fCash[m]
  <2>1. \A d \in Entry : d.maturity = m /\ d.kind # "token" => (d \in ToSet(s) <=> d \in ToSet(r))
    BY <1>2, <1>5 DEF SameSlot
  <2>2. CASE \A d \in ToSet(s) : d.maturity = m => d.kind = "token"
    BY <1>1, <1>3, <1>4, <2>1, <2>2
  <2>3. CASE \E d \in ToSet(s) : d.maturity = m /\ d.kind # "token"
    BY <1>1, <1>3, <1>4, <2>1, <2>3
  <2> QED BY <2>2, <2>3
<1>6. ASSUME NEW m \in Maturity, ~IsToken(e) \/ m # e.maturity
      PROVE  Q.token[m] = P.token[m] /\ (m \in Q.listed <=> m \in P.listed)
  <2>1. \A d \in Entry : d.maturity = m /\ d.kind = "token" => (d \in ToSet(s) <=> d \in ToSet(r))
    BY <1>2, <1>6 DEF SameSlot
  <2>2. CASE \A d \in ToSet(s) : d.maturity = m => d.kind # "token"
    BY <1>1, <1>3, <1>4, <2>1, <2>2
  <2>3. CASE \E d \in ToSet(s) : d.maturity = m /\ d.kind = "token"
    BY <1>1, <1>3, <1>4, <2>1, <2>3
  <2> QED BY <2>2, <2>3
<1> QED BY <1>5, <1>6 DEF P, Q

(* Two readings of which all but the fCash, or all but the tokens, of one
   maturity agree. *)
LEMMA FCashPosition ==
  ASSUME NEW P \in Portfolio, NEW Q \in Portfolio, NEW m \in Maturity, NEW n \in Int,
         Q.fCash[m] = P.fCash[m] + n,
         \A k \in Maturity : k # m => Q.fCash[k] = P.fCash[k],
         \A k \in Maturity : Q.token[k] = P.token[k] /\ (k \in Q.listed <=> k \in P.listed)
  PROVE  Q = AddfCash(P, m, n)
<1>1. /\ P = [fCash |-> P.fCash, token |-> P.token, listed |-> P.listed]
      /\ Q = [fCash |-> Q.fCash, token |-> Q.token, listed |-> Q.listed]
      /\ P.fCash \in [Maturity -> Int] /\ Q.fCash \in [Maturity -> Int]
      /\ P.token \in [Maturity -> Nat] /\ Q.token \in [Maturity -> Nat]
      /\ P.listed \subseteq Maturity /\ Q.listed \subseteq Maturity
  BY DEF Portfolio
<1>2. Q.token = P.token /\ Q.listed = P.listed
  BY <1>1
<1>3. Q.fCash = [P.fCash EXCEPT ![m] = @ + n]
  BY <1>1
<1>4. AddfCash(P, m, n) = [fCash |-> [P.fCash EXCEPT ![m] = @ + n], token |-> P.token, listed |-> P.listed]
  <2>1. AddfCash(P, m, n) = [P EXCEPT !.fCash = [P.fCash EXCEPT ![m] = @ + n]]
    BY DEF AddfCash
  <2> QED BY <1>1, <2>1
<1> QED BY <1>1, <1>2, <1>3, <1>4

LEMMA TokenPosition ==
  ASSUME NEW P \in Portfolio, NEW Q \in Portfolio, NEW m \in Maturity, NEW n \in Nat,
         \A k \in Maturity : Q.fCash[k] = P.fCash[k],
         \A k \in Maturity : k # m => Q.token[k] = P.token[k] /\ (k \in Q.listed <=> k \in P.listed)
  PROVE  /\ Q.token[m] = P.token[m] + n /\ m \in Q.listed => Q = AddToken(P, m, n)
         /\ Q.token[m] = P.token[m] - n /\ (m \in Q.listed <=> P.token[m] # n /\ m \in P.listed)
              => Q = TakeToken(P, m, n)
<1>1. /\ Q = [fCash |-> Q.fCash, token |-> Q.token, listed |-> Q.listed]
      /\ P.fCash \in [Maturity -> Int] /\ Q.fCash \in [Maturity -> Int]
      /\ P.token \in [Maturity -> Nat] /\ Q.token \in [Maturity -> Nat]
      /\ P.listed \subseteq Maturity /\ Q.listed \subseteq Maturity
  BY DEF Portfolio
<1>2. Q.fCash = P.fCash
  BY <1>1
<1>3. ASSUME Q.token[m] = P.token[m] + n, m \in Q.listed
      PROVE  Q = AddToken(P, m, n)
  <2>1. Q.token = [P.token EXCEPT ![m] = @ + n] /\ Q.listed = P.listed \cup {m}
    BY <1>1, <1>3
  <2> QED BY <1>1, <1>2, <2>1 DEF AddToken
<1>4. ASSUME Q.token[m] = P.token[m] - n, m \in Q.listed <=> P.token[m] # n /\ m \in P.listed
      PROVE  Q = TakeToken(P, m, n)
  <2>1. Q.token = [P.token EXCEPT ![m] = @ - n]
    BY <1>1, <1>4
  <2>2. Q.listed = IF P.token[m] = n THEN P.listed \ {m} ELSE P.listed
    BY <1>1, <1>4
  <2> QED BY <1>1, <1>2, <2>1, <2>2 DEF TakeToken
<1> QED BY <1>3, <1>4

(* What an upsert does to the positions. *)
LEMMA UpsertedPositions ==
  ASSUME NEW s \in Arrays, NEW e \in Argument, NEW flag \in BOOLEAN, CanUpsert(s, e, flag)
  PROVE  LET P == PositionsOf(s)
             Q == PositionsOf(UpsertAsset(s, e))
         IN  /\ e.kind = "receiver" => Q = AddfCash(P, e.maturity, e.notional)
             /\ e.kind = "payer" => Q = AddfCash(P, e.maturity, -e.notional)
             /\ e.kind = "token" => Q = AddToken(P, e.maturity, e.notional)
             /\ e.kind = "tokenPayer" => /\ CanTakeToken(P, e.maturity, e.notional)
                                         /\ Q = TakeToken(P, e.maturity, e.notional)
<1> DEFINE r == UpsertAsset(s, e)
           P == PositionsOf(s)
           Q == PositionsOf(r)
           m == e.maturity
           n == e.notional
<1>1. /\ r \in Arrays
      /\ (\A d \in ToSet(s) : ~SameSlot(d, e)) => e \in Entry /\ ToSet(r) = ToSet(s) \cup {e}
      /\ \A d \in ToSet(s) : SameSlot(d, e)
           => /\ e.kind = "tokenPayer" => n <= d.notional
              /\ ToSet(r) = (ToSet(s) \ {d}) \cup Merged(d, e)
  BY UpsertedEffect
<1>2. m \in Maturity /\ n \in Nat /\ e.kind \in Kind \cup {"tokenPayer"}
  BY DEF Argument
<1> HIDE DEF r
<1>3. (\A d \in ToSet(s) : d \in Entry) /\ (\A d \in ToSet(r) : d \in Entry)
  BY <1>1, ArrayFacts
<1>4. ASSUME NEW d \in ToSet(s), SameSlot(d, e), NEW x \in Merged(d, e)
      PROVE  SameSlot(x, e)
  BY <1>4 DEF Merged, Asset, SameSlot, IsToken
<1>5. \A d \in Entry : ~SameSlot(d, e) => (d \in ToSet(s) <=> d \in ToSet(r))
  <2>1. CASE \A d \in ToSet(s) : ~SameSlot(d, e)
    BY <1>1, <2>1 DEF SameSlot
  <2>2. CASE \E d \in ToSet(s) : SameSlot(d, e)
    BY <1>1, <1>4, <2>2
  <2> QED BY <2>1, <2>2
<1>6. P \in Portfolio /\ Q \in Portfolio
  BY <1>1, PositionsFacts
<1>7. /\ \A k \in Maturity : IsToken(e) \/ k # m => Q.fCash[k] = P.fCash[k]
      /\ \A k \in Maturity : ~IsToken(e) \/ k # m => Q.token[k] = P.token[k] /\ (k \in Q.listed <=> k \in P.listed)
  BY <1>1, <1>5, OtherPositionsKept
<1>8. \A d \in Entry : d.kind \in Kind /\ d.notional \in Nat /\ (d.kind = "token" <=> IsToken(d))
  BY DEF Entry, Kind, IsToken
<1>9. /\ \A d \in ToSet(s) : d.kind = "token" => P.token[d.maturity] = d.notional /\ d.maturity \in P.listed
      /\ \A d \in ToSet(s) : d.kind # "token" => P.fCash[d.maturity] = Signed(d)
      /\ (\A d \in ToSet(s) : d.maturity = m => d.kind # "token") => P.token[m] = 0 /\ m \notin P.listed
      /\ (\A d \in ToSet(s) : d.maturity = m => d.kind = "token") => P.fCash[m] = 0
  BY <1>2, PositionsFacts
<1>10. /\ \A d \in ToSet(r) : d.kind = "token" => Q.token[d.maturity] = d.notional /\ d.maturity \in Q.listed
       /\ \A d \in ToSet(r) : d.kind # "token" => Q.fCash[d.maturity] = Signed(d)
       /\ (\A d \in ToSet(r) : d.maturity = m => d.kind # "token") => Q.token[m] = 0 /\ m \notin Q.listed
       /\ (\A d \in ToSet(r) : d.maturity = m => d.kind = "token") => Q.fCash[m] = 0
  BY <1>1, <1>2, PositionsFacts
<1> HIDE DEF P, Q
<1>11. ASSUME ~IsToken(e)
       PROVE  Q.fCash[m] = P.fCash[m] + Signed(e)
  <2>1. CASE \A d \in ToSet(s) : ~SameSlot(d, e)
    <3>1. P.fCash[m] = 0
      BY <1>3, <1>8, <1>9, <1>11, <2>1 DEF SameSlot
    <3>2. e \in ToSet(r) /\ e.kind # "token"
      BY <1>1, <1>11, <2>1 DEF IsToken
    <3>3. Q.fCash[m] = Signed(e)
      BY <1>10, <3>2
    <3> QED BY <1>2, <3>1, <3>3 DEF Signed
  <2>2. CASE \E d \in ToSet(s) : SameSlot(d, e)
    <3>1. PICK d \in ToSet(s) : SameSlot(d, e)
      BY <2>2
    <3>2. ToSet(r) = (ToSet(s) \ {d}) \cup Merged(d, e)
      BY <1>1, <3>1
    <3>3. d.maturity = m /\ d.kind \in FCash /\ e.kind \in FCash /\ d.notional \in Nat
      BY <1>2, <1>3, <1>8, <1>11, <3>1 DEF SameSlot, IsToken, Kind, FCash
    <3>4. P.fCash[m] = Signed(d)
      BY <1>9, <3>3 DEF FCash
    <3>5. CASE Merged(d, e) = {}
      <4>1. \A x \in ToSet(r) : x.maturity = m => x.kind = "token"
        <5>1. \A x \in ToSet(s) : SameSlot(x, e) => x = d
          BY <3>1, SlotsApart DEF SameSlot
        <5> QED BY <1>3, <1>8, <1>11, <3>2, <3>5, <5>1 DEF SameSlot
      <4>2. d.kind # e.kind /\ d.notional = n
        BY <3>5 DEF Merged
      <4> QED BY <1>2, <1>10, <3>3, <3>4, <4>1, <4>2 DEF Signed, FCash
    <3>6. CASE Merged(d, e) # {}
      <4>1. PICK x \in Merged(d, e) : TRUE
        BY <3>6
      <4>2. x \in ToSet(r) /\ x.maturity = m /\ x.kind # "token"
        BY <3>2, <3>3, <4>1 DEF Merged, Asset, FCash
      <4>3. Q.fCash[m] = Signed(x)
        BY <1>10, <4>2
      <4>4. Signed(x) = Signed(d) + Signed(e)
        BY <1>2, <3>3, <4>1 DEF Merged, Asset, Signed, FCash
      <4> QED BY <3>4, <4>3, <4>4
    <3> QED BY <3>5, <3>6
  <2> QED BY <2>1, <2>2
<1>12. ASSUME IsToken(e)
       PROVE  /\ e.kind = "token" => Q.token[m] = P.token[m] + n /\ m \in Q.listed
              /\ e.kind = "tokenPayer"
                   => /\ m \in P.listed /\ n <= P.token[m]
                      /\ Q.token[m] = P.token[m] - n
                      /\ m \in Q.listed <=> P.token[m] # n /\ m \in P.listed
  <2>1. CASE \A d \in ToSet(s) : ~SameSlot(d, e)
    <3>1. P.token[m] = 0
      BY <1>3, <1>8, <1>9, <1>12, <2>1 DEF SameSlot
    <3>2. e \in ToSet(r) /\ e.kind = "token"
      BY <1>1, <1>8, <1>12, <2>1
    <3>3. Q.token[m] = n /\ m \in Q.listed
      BY <1>10, <3>2
    <3> QED BY <1>2, <3>1, <3>2, <3>3
  <2>2. CASE \E d \in ToSet(s) : SameSlot(d, e)
    <3>1. PICK d \in ToSet(s) : SameSlot(d, e)
      BY <2>2
    <3>2. ToSet(r) = (ToSet(s) \ {d}) \cup Merged(d, e) /\ (e.kind = "tokenPayer" => n <= d.notional)
      BY <1>1, <3>1
    <3>3. d.maturity = m /\ d.kind = "token" /\ e.kind \in {"token", "tokenPayer"} /\ d.notional \in Nat
      BY <1>2, <1>3, <1>8, <1>12, <3>1 DEF SameSlot, IsToken
    <3>4. P.token[m] = d.notional /\ m \in P.listed
      BY <1>9, <3>3
    <3>5. CASE Merged(d, e) = {}
      <4>1. \A x \in ToSet(r) : x.maturity = m => x.kind # "token"
        <5>1. \A x \in ToSet(s) : SameSlot(x, e) => x = d
          BY <3>1, SlotsApart DEF SameSlot
        <5> QED BY <1>3, <1>8, <1>12, <3>2, <3>5, <5>1 DEF SameSlot
      <4>2. d.kind # e.kind /\ d.notional = n
        BY <3>5 DEF Merged
      <4> QED BY <1>2, <1>10, <3>3, <3>4, <4>1, <4>2
    <3>6. CASE Merged(d, e) # {}
      <4>1. PICK x \in Merged(d, e) : TRUE
        BY <3>6
      <4>2. /\ x \in ToSet(r) /\ x.maturity = m /\ x.kind = "token"
            /\ e.kind = "token" => x.notional = d.notional + n
            /\ e.kind = "tokenPayer" => x.notional = d.notional - n /\ d.notional # n
        BY <1>2, <3>2, <3>3, <4>1 DEF Merged, Asset
      <4>3. Q.token[m] = x.notional /\ m \in Q.listed
        BY <1>10, <4>2
      <4> QED BY <3>2, <3>3, <3>4, <4>2, <4>3
    <3> QED BY <3>5, <3>6
  <2> QED BY <2>1, <2>2
<1>13. ~IsToken(e) => Q = AddfCash(P, m, Signed(e))
  <2> SUFFICES ASSUME ~IsToken(e) PROVE Q = AddfCash(P, m, Signed(e))
    OBVIOUS
  <2>1. Signed(e) \in Int
    BY <1>2 DEF Signed
  <2> HIDE DEF m, n
  <2> QED BY <1>2, <1>6, <1>7, <1>11, <2>1, FCashPosition
<1>14. e.kind = "token" => Q = AddToken(P, m, n)
  <2> SUFFICES ASSUME e.kind = "token" PROVE Q = AddToken(P, m, n)
    OBVIOUS
  <2>1. IsToken(e)
    BY DEF IsToken
  <2>2. Q.token[m] = P.token[m] + n /\ m \in Q.listed
    BY <1>12, <2>1
  <2> HIDE DEF m, n
  <2> QED BY <1>2, <1>6, <1>7, <2>1, <2>2, TokenPosition
<1>15. e.kind = "tokenPayer" => CanTakeToken(P, m, n) /\ Q = TakeToken(P, m, n)
  <2> SUFFICES ASSUME e.kind = "tokenPayer" PROVE CanTakeToken(P, m, n) /\ Q = TakeToken(P, m, n)
    OBVIOUS
  <2>1. IsToken(e)
    BY DEF IsToken
  <2>2. /\ m \in P.listed /\ n <= P.token[m]
        /\ Q.token[m] = P.token[m] - n
        /\ m \in Q.listed <=> P.token[m] # n /\ m \in P.listed
    BY <1>12, <2>1
  <2> HIDE DEF m, n
  <2>3. Q = TakeToken(P, m, n)
    BY <1>2, <1>6, <1>7, <2>1, <2>2, TokenPosition
  <2> QED BY <2>2, <2>3 DEF CanTakeToken
<1>16. /\ e.kind = "receiver" => ~IsToken(e) /\ Signed(e) = n
       /\ e.kind = "payer" => ~IsToken(e) /\ Signed(e) = -n
  BY DEF IsToken, Signed
<1> QED BY <1>13, <1>14, <1>15, <1>16 DEF P, Q, r

(* Reducing an entry is upserting its counterparty. *)
LEMMA ReducedPositions ==
  ASSUME NEW s \in Arrays, NEW i \in 1 .. Len(s), NEW v \in Nat, v <= s[i].notional
  PROVE  LET P == PositionsOf(s)
             Q == PositionsOf(ReduceAsset(s, i, v))
             m == s[i].maturity
         IN  /\ s[i].kind = "receiver" => Q = AddfCash(P, m, -v)
             /\ s[i].kind = "payer" => Q = AddfCash(P, m, v)
             /\ s[i].kind = "token" => CanTakeToken(P, m, v) /\ Q = TakeToken(P, m, v)
<1> DEFINE e == Asset(s[i].maturity, Counterparty(s[i].kind), v)
<1>1. s[i].maturity \in Maturity /\ s[i].kind \in Kind /\ s[i].notional \in Nat
  BY ArrayFacts DEF Entry
<1>2. /\ s[i].kind = "receiver" => Counterparty(s[i].kind) = "payer"
      /\ s[i].kind = "payer" => Counterparty(s[i].kind) = "receiver"
      /\ s[i].kind = "token" => Counterparty(s[i].kind) = "tokenPayer"
  BY DEF Counterparty
<1>3. /\ e \in Argument /\ e.maturity = s[i].maturity /\ e.notional = v
      /\ e.kind = Counterparty(s[i].kind)
      /\ SameSlot(s[i], e) /\ s[i].kind # e.kind
  BY <1>1, <1>2 DEF Asset, Argument, SameSlot, IsToken, Kind
<1> HIDE DEF e
<1>4. Rivals(s, e) # {} /\ Min(Rivals(s, e)) = i
  BY <1>3, RivalsFound
<1>5. CanUpsert(s, e, FALSE)
  BY <1>3, <1>4 DEF CanUpsert
<1>6. UpsertAsset(s, e) = ReduceAsset(s, i, v)
  BY <1>1, <1>3, <1>4 DEF UpsertAsset
<1>7. /\ e.kind = "receiver" => PositionsOf(ReduceAsset(s, i, v)) = AddfCash(PositionsOf(s), s[i].maturity, v)
      /\ e.kind = "payer" => PositionsOf(ReduceAsset(s, i, v)) = AddfCash(PositionsOf(s), s[i].maturity, -v)
      /\ e.kind = "tokenPayer" => /\ CanTakeToken(PositionsOf(s), s[i].maturity, v)
                                  /\ PositionsOf(ReduceAsset(s, i, v)) = TakeToken(PositionsOf(s), s[i].maturity, v)
  BY <1>3, <1>5, <1>6, UpsertedPositions
<1> QED BY <1>2, <1>3, <1>7

LEMMA SettledPositions ==
  ASSUME NEW s \in Arrays, NEW t \in Nat
  PROVE  PositionsOf(Settled(s, t)) = Unmatured(PositionsOf(s), t)
<1> DEFINE r == Settled(s, t)
           P == PositionsOf(s)
           Q == PositionsOf(r)
<1>1. r \in Arrays /\ ToSet(r) = {e \in ToSet(s) : e.maturity > t}
  BY SettledEffect
<1> HIDE DEF r
<1>2. /\ P \in Portfolio
      /\ \A d \in ToSet(s) : d.kind = "token" => P.token[d.maturity] = d.notional /\ d.maturity \in P.listed
      /\ \A d \in ToSet(s) : d.kind # "token" => P.fCash[d.maturity] = Signed(d)
      /\ \A m \in Maturity : (\A d \in ToSet(s) : d.maturity = m => d.kind # "token")
           => P.token[m] = 0 /\ m \notin P.listed
      /\ \A m \in Maturity : (\A d \in ToSet(s) : d.maturity = m => d.kind = "token") => P.fCash[m] = 0
  BY PositionsFacts
<1>3. /\ Q \in Portfolio
      /\ \A d \in ToSet(r) : d.kind = "token" => Q.token[d.maturity] = d.notional /\ d.maturity \in Q.listed
      /\ \A d \in ToSet(r) : d.kind # "token" => Q.fCash[d.maturity] = Signed(d)
      /\ \A m \in Maturity : (\A d \in ToSet(r) : d.maturity = m => d.kind # "token")
           => Q.token[m] = 0 /\ m \notin Q.listed
      /\ \A m \in Maturity : (\A d \in ToSet(r) : d.maturity = m => d.kind = "token") => Q.fCash[m] = 0
  BY <1>1, PositionsFacts
<1> HIDE DEF P, Q
<1>4. \A m \in Maturity : m \in Nat
  BY PortfoliosAssumption
<1>5. ASSUME NEW m \in Maturity
      PROVE  /\ Q.fCash[m] = IF m <= t THEN 0 ELSE P.fCash[m]
             /\ Q.token[m] = IF m <= t THEN 0 ELSE P.token[m]
             /\ m \in Q.listed <=> m \in P.listed /\ m > t
  <2>1. CASE m <= t
    <3>1. \A d \in ToSet(r) : d.maturity # m
      BY <1>1, <1>4, <2>1
    <3> QED BY <1>3, <1>4, <2>1, <3>1
  <2>2. CASE m > t
    <3>1. \A d : d.maturity = m => (d \in ToSet(r) <=> d \in ToSet(s))
      BY <1>1, <2>2
    <3>2. Q.fCash[m] = P.fCash[m]
      BY <1>2, <1>3, <3>1
    <3>3. Q.token[m] = P.token[m] /\ (m \in Q.listed <=> m \in P.listed)
      <4>1. CASE \E d \in ToSet(s) : d.maturity = m /\ d.kind = "token"
        BY <1>2, <1>3, <3>1, <4>1
      <4>2. CASE \A d \in ToSet(s) : d.maturity = m => d.kind # "token"
        BY <1>2, <1>3, <3>1, <4>2
      <4> QED BY <4>1, <4>2
    <3> QED BY <1>4, <2>2, <3>2, <3>3
  <2> QED BY <1>4, <2>1, <2>2
<1>6. /\ Q = [fCash |-> Q.fCash, token |-> Q.token, listed |-> Q.listed]
      /\ Q.fCash \in [Maturity -> Int] /\ Q.token \in [Maturity -> Nat]
      /\ P.listed \subseteq Maturity /\ Q.listed \subseteq Maturity
  BY <1>2, <1>3 DEF Portfolio
<1>7. Q.fCash = [m \in Maturity |-> IF m <= t THEN 0 ELSE P.fCash[m]]
  BY <1>5, <1>6
<1>8. Q.token = [m \in Maturity |-> IF m <= t THEN 0 ELSE P.token[m]]
  BY <1>5, <1>6
<1>9. Q.listed = {m \in P.listed : m > t}
  BY <1>5, <1>6
<1>10. Q = Unmatured(P, t)
  BY <1>6, <1>7, <1>8, <1>9 DEF Unmatured
<1> QED BY <1>10 DEF P, Q, r

(* The states of a call's upserts, one after the other. *)
LEMMA UpsertAllSteps ==
  ASSUME NEW s \in Arrays, NEW n \in Nat, NEW es, Len(es) = n, \A k \in 1 .. n : es[k] \in Argument,
         NEW flag \in BOOLEAN
  PROVE  \E f : /\ \A k \in 0 .. n : f[k] \in [assets : Arrays, ok : BOOLEAN]
                /\ f[0] = [assets |-> s, ok |-> TRUE]
                /\ \A k \in 1 .. n : f[k] = UpsertPass(f[k - 1], es[k], flag)
                /\ UpsertAll(s, es, flag) = f[n]
<1> DEFINE base == [assets |-> s, ok |-> TRUE]
           W == [assets : Arrays, ok : BOOLEAN]
           X == [k \in 0 .. n |-> W]
           step == [z \in (1 .. n) \X W |-> UpsertPass(z[2], es[z[1]], flag)]
           Solves(f) == f = [k \in 0 .. n |-> IF k = 0 THEN base ELSE UpsertPass(f[k - 1], es[k], flag)]
<1>1. \A k \in 1 .. n : k \in 0 .. n /\ k - 1 \in 0 .. n
  OBVIOUS
<1>2. ASSUME NEW k \in 1 .. n, NEW r \in W
      PROVE  UpsertPass(r, es[k], flag) \in W
  <2>1. CASE r.ok /\ CanUpsert(r.assets, es[k], flag)
    <3>1. UpsertAsset(r.assets, es[k]) \in Arrays
      BY <2>1, UpsertedEffect
    <3> QED BY <2>1, <3>1 DEF UpsertPass
  <2>2. CASE ~(r.ok /\ CanUpsert(r.assets, es[k], flag))
    BY <2>2 DEF UpsertPass
  <2> QED BY <2>1, <2>2
<1>3. (\A k \in 0 .. n : X[k] = W) /\ base \in W /\ base \in X[0]
  <2>1. base \in W
    OBVIOUS
  <2> HIDE DEF W, base
  <2>2. (\A k \in 0 .. n : X[k] = W) /\ 0 \in 0 .. n
    OBVIOUS
  <2> HIDE DEF X
  <2>3. X[0] = W
    BY <2>2, Zenon
  <2> QED BY <2>1, <2>2, <2>3
<1>4. \A k \in 1 .. n : \A r \in W : step[<<k, r>>] = UpsertPass(r, es[k], flag)
  OBVIOUS
<1> HIDE DEF base, W, X, step
<1>5. \E f : Solves(f)
  <2>1. PICK f : Loop(n, base, step, f)
    BY LoopExists
  <2>2. \A k \in 1 .. n : \A r \in X[k - 1] : step[<<k, r>>] \in X[k]
    <3> TAKE k \in 1 .. n
    <3>1. X[k - 1] = W /\ X[k] = W
      BY <1>1, <1>3
    <3> QED BY <1>2, <1>4, <3>1
  <2>3. \A k \in 0 .. n : f[k] \in X[k]
    BY <1>3, <2>1, <2>2, LoopStaysIn
  <2>4. \A k \in 1 .. n : step[<<k, f[k - 1]>>] = UpsertPass(f[k - 1], es[k], flag)
    BY <1>1, <1>3, <1>4, <2>3
  <2>5. f = [k \in 0 .. n |-> IF k = 0 THEN base ELSE step[<<k, f[k - 1]>>]]
    BY <2>1 DEF Loop
  <2>6. \A k \in 0 .. n : k = 0 \/ k \in 1 .. n
    OBVIOUS
  <2>7. f = [k \in 0 .. n |-> IF k = 0 THEN base ELSE UpsertPass(f[k - 1], es[k], flag)]
    BY <2>4, <2>5, <2>6
  <2> QED BY <2>7
<1> DEFINE g == CHOOSE f : Solves(f)
<1>6. UpsertAll(s, es, flag) = g[n]
  BY DEF UpsertAll, base
<1>7. Solves(g)
  BY <1>5
<1> HIDE DEF g
<1>8. \A k \in 0 .. n : g[k] = IF k = 0 THEN base ELSE UpsertPass(g[k - 1], es[k], flag)
  BY <1>7
<1>9. g[0] = base
  <2>1. 0 \in 0 .. n
    OBVIOUS
  <2>2. g[0] = IF 0 = 0 THEN base ELSE UpsertPass(g[0 - 1], es[0], flag)
    BY <1>8, <2>1, Zenon
  <2> QED BY <2>2
<1>10. \A k \in 1 .. n : g[k] = UpsertPass(g[k - 1], es[k], flag)
  BY <1>1, <1>8
<1>11. \A k \in 0 .. n : g[k] \in W
  <2> DEFINE G == {k \in 0 .. n : g[k] \in W}
  <2>1. 0 \in G
    <3>1. 0 \in 0 .. n
      OBVIOUS
    <3> QED BY <1>3, <1>9, <3>1
  <2>2. ASSUME NEW k \in 1 .. n, k - 1 \in G
        PROVE  k \in G
    BY <1>1, <1>2, <1>10, <2>2
  <2>3. \A k \in 0 .. n : k \in G
    <3> HIDE DEF G
    <3> QED BY <2>1, <2>2, IntervalInduction
  <2> QED BY <2>3
<1> QED BY <1>6, <1>9, <1>10, <1>11 DEF base, W

LEMMA AddfCashParts ==
  ASSUME NEW p \in Portfolio, NEW m \in Maturity, NEW n \in Int
  PROVE  /\ AddfCash(p, m, n) \in Portfolio
         /\ AddfCash(p, m, n).token = p.token
         /\ AddfCash(p, m, n).listed = p.listed
         /\ AddfCash(p, m, n).fCash[m] = p.fCash[m] + n
         /\ \A k \in Maturity : k # m => AddfCash(p, m, n).fCash[k] = p.fCash[k]
<1> DEFINE g == [p.fCash EXCEPT ![m] = @ + n]
<1>1. p = [fCash |-> p.fCash, token |-> p.token, listed |-> p.listed] /\ p.fCash \in [Maturity -> Int]
  BY DEF Portfolio
<1>2. g \in [Maturity -> Int] /\ g[m] = p.fCash[m] + n /\ \A k \in Maturity : k # m => g[k] = p.fCash[k]
  BY <1>1
<1>3. AddfCash(p, m, n) = [p EXCEPT !.fCash = g]
  BY DEF AddfCash
<1> HIDE DEF g
<1>4. AddfCash(p, m, n) = [fCash |-> g, token |-> p.token, listed |-> p.listed]
  BY <1>1, <1>3
<1> QED BY <1>2, <1>4 DEF Portfolio

LEMMA AddfCashBack ==
  ASSUME NEW p \in Portfolio, NEW m \in Maturity, NEW n \in Int
  PROVE  AddfCash(AddfCash(p, m, -n), m, n) = p
<1> DEFINE k == -n
           q == AddfCash(p, m, k)
<1>1. k \in Int /\ p.fCash[m] \in Int
  BY DEF Portfolio
<1> HIDE DEF k
<1>2. /\ q \in Portfolio /\ q.token = p.token /\ q.listed = p.listed
      /\ q.fCash[m] = p.fCash[m] + k
      /\ \A j \in Maturity : j # m => q.fCash[j] = p.fCash[j]
  BY <1>1, AddfCashParts
<1> HIDE DEF q
<1>3. p.fCash[m] = q.fCash[m] + n
  BY <1>1, <1>2 DEF k
<1>4. /\ \A j \in Maturity : j # m => p.fCash[j] = q.fCash[j]
      /\ \A j \in Maturity : p.token[j] = q.token[j] /\ (j \in p.listed <=> j \in q.listed)
  BY <1>2
<1>5. q \in Portfolio
  BY <1>2
<1>6. p = AddfCash(q, m, n)
  BY <1>3, <1>4, <1>5, FCashPosition
<1> QED BY <1>6 DEF q, k

(* How far the sale of receivers of a to b has come, with `left' more passes:
   while any are to be sold there is an entry to look at, a claim has shrunk
   but not turned into a debt, and what is gone from a has come to b. *)
Selling(book, a, b, left) ==
  {r \in [book : [Account -> Arrays], i : Nat \ {0}, left : Nat, ok : BOOLEAN] :
     LET p == PositionsOf(book[a])
         q == PositionsOf(r.book[a])
         l == PositionsOf(r.book[b])
     IN  /\ r.ok /\ r.left > 0 => r.i + left <= Len(r.book[a]) + 1
         /\ \A c \in Account \ {a, b} : r.book[c] = book[c]
         /\ q.token = p.token /\ q.listed = p.listed
         /\ l.token = PositionsOf(book[b]).token /\ l.listed = PositionsOf(book[b]).listed
         /\ \A m \in Maturity :
              /\ q.fCash[m] = p.fCash[m] \/ (q.fCash[m] >= 0 /\ q.fCash[m] <= p.fCash[m])
              /\ a = b => q.fCash[m] = p.fCash[m]
              /\ l.fCash[m] + q.fCash[m] = PositionsOf(book[b]).fCash[m] + p.fCash[m]}

LEMMA SellPassEffect ==
  ASSUME NEW book \in [Account -> Arrays], NEW a \in Account, NEW b \in Account, NEW x \in Nat,
         NEW left \in Nat \ {0}, NEW r \in Selling(book, a, b, left)
  PROVE  SellPass(r, a, b, x) \in Selling(book, a, b, left - 1)
<1> DEFINE s == r.book[a]
           sold == s[r.i]
           whole == r.left > 1 \/ x = 0
           v == IF whole THEN sold.notional ELSE x
           moved == Asset(sold.maturity, "receiver", v)
           taken == [r.book EXCEPT ![a] = ReduceAsset(s, r.i, moved.notional)]
           new == [taken EXCEPT ![b] = UpsertAsset(taken[b], moved)]
           p == PositionsOf(book[a])
           q == PositionsOf(s)
           l == PositionsOf(r.book[b])
           result == SellPass(r, a, b, x)
<1>0. result = IF r.left = 0 \/ ~r.ok THEN r
               ELSE IF sold.kind # "receiver" THEN [r EXCEPT !.i = @ + 1]
               ELSE IF (whole \/ x < sold.notional) /\ CanUpsert(taken[b], moved, FALSE)
                 THEN [book |-> new, i |-> IF whole THEN r.i ELSE r.i + 1, left |-> r.left - 1, ok |-> TRUE]
                 ELSE [r EXCEPT !.ok = FALSE]
  BY DEF SellPass
<1>1. /\ r \in [book : [Account -> Arrays], i : Nat \ {0}, left : Nat, ok : BOOLEAN]
      /\ r.ok /\ r.left > 0 => r.i + left <= Len(s) + 1
      /\ \A c \in Account \ {a, b} : r.book[c] = book[c]
      /\ q.token = p.token /\ q.listed = p.listed
      /\ l.token = PositionsOf(book[b]).token /\ l.listed = PositionsOf(book[b]).listed
      /\ \A m \in Maturity :
           /\ q.fCash[m] = p.fCash[m] \/ (q.fCash[m] >= 0 /\ q.fCash[m] <= p.fCash[m])
           /\ a = b => q.fCash[m] = p.fCash[m]
           /\ l.fCash[m] + q.fCash[m] = PositionsOf(book[b]).fCash[m] + p.fCash[m]
  BY DEF Selling
<1>2. s \in Arrays /\ Len(s) \in Nat
  BY <1>1, ArrayFacts
<1>3. p \in Portfolio /\ q \in Portfolio /\ l \in Portfolio /\ PositionsOf(book[b]) \in Portfolio
  BY <1>1, PositionsFacts
<1> HIDE DEF p, q, l
<1>4. CASE r.left = 0 \/ ~r.ok
  <2>1. result = r
    BY <1>0, <1>4
  <2> QED BY <1>1, <1>4, <2>1 DEF Selling, p, q, l
<1>5. CASE r.left # 0 /\ r.ok /\ sold.kind # "receiver"
  <2>1. result = [r EXCEPT !.i = @ + 1]
    BY <1>0, <1>5
  <2>2. r.i + 1 + (left - 1) <= Len(s) + 1
    BY <1>1, <1>2, <1>5
  <2> HIDE DEF result
  <2>3. /\ result \in [book : [Account -> Arrays], i : Nat \ {0}, left : Nat, ok : BOOLEAN]
        /\ result.book = r.book /\ result.i = r.i + 1
    BY <1>1, <2>1
  <2>4. result \in Selling(book, a, b, left - 1)
    BY <1>1, <2>2, <2>3 DEF Selling, p, q, l
  <2> QED BY <2>4 DEF result
<1>6. CASE /\ r.left # 0 /\ r.ok /\ sold.kind = "receiver"
           /\ ~((whole \/ x < sold.notional) /\ CanUpsert(taken[b], moved, FALSE))
  <2> HIDE DEF result, new, taken, moved, sold, whole
  <2>1. result = [r EXCEPT !.ok = FALSE]
    BY <1>0, <1>6
  <2>2. /\ result \in [book : [Account -> Arrays], i : Nat \ {0}, left : Nat, ok : BOOLEAN]
        /\ result.book = r.book /\ ~result.ok
    BY <1>1, <2>1
  <2>3. result \in Selling(book, a, b, left - 1)
    BY <1>1, <2>2 DEF Selling, p, q, l
  <2> QED BY <2>3 DEF result
<1>7. CASE /\ r.left # 0 /\ r.ok /\ sold.kind = "receiver"
           /\ (whole \/ x < sold.notional) /\ CanUpsert(taken[b], moved, FALSE)
  <2> DEFINE i == IF whole THEN r.i ELSE r.i + 1
             m == sold.maturity
  <2>1. result = [book |-> new, i |-> i, left |-> r.left - 1, ok |-> TRUE]
    <3> HIDE DEF result, new, taken, moved, sold, whole
    <3> QED BY <1>0, <1>7
  <2>2. r.i \in 1 .. Len(s) /\ r.left - 1 \in Nat /\ i \in Nat \ {0}
    BY <1>1, <1>2, <1>7
  <2>3. /\ sold \in Entry /\ sold \in ToSet(s) /\ sold.notional \in Nat
        /\ m \in Maturity /\ sold.kind = "receiver"
    BY <1>2, <1>7, <2>2, ArrayFacts DEF Entry
  <2>4. v \in Nat /\ v <= sold.notional /\ -v \in Int
    BY <1>7, <2>3
  <2>5. moved \in Argument /\ moved.maturity = m /\ moved.kind = "receiver" /\ moved.notional = v
    BY <2>3, <2>4 DEF Asset, Argument, Kind
  <2> DEFINE reduced == ReduceAsset(s, r.i, v)
  <2>6. /\ reduced \in Arrays
        /\ Len(reduced) = IF sold.notional = v THEN Len(s) - 1 ELSE Len(s)
        /\ sold.notional = v => ToSet(reduced) = ToSet(s) \ {sold}
    <3>1. v \in Nat /\ v <= s[r.i].notional
      BY <2>4
    <3> HIDE DEF v, s
    <3>2. /\ ReduceAsset(s, r.i, v) \in Arrays
          /\ Len(ReduceAsset(s, r.i, v)) = IF s[r.i].notional = v THEN Len(s) - 1 ELSE Len(s)
          /\ ToSet(ReduceAsset(s, r.i, v))
               = (ToSet(s) \ {s[r.i]})
                   \cup IF s[r.i].notional = v THEN {}
                        ELSE {Asset(s[r.i].maturity, s[r.i].kind, s[r.i].notional - v)}
      BY <1>2, <2>2, <3>1, ReducedEffect
    <3> QED BY <3>2
  <2>7. PositionsOf(reduced) = AddfCash(q, m, -v)
    BY <1>2, <2>2, <2>3, <2>4, ReducedPositions DEF q
  <2>8. q.fCash[m] = sold.notional
    BY <1>2, <2>3, PositionsFacts DEF q, Signed
  <2> HIDE DEF reduced
  <2>9. taken \in [Account -> Arrays] /\ taken[a] = reduced /\ \A c \in Account : c # a => taken[c] = r.book[c]
    BY <1>1, <2>5, <2>6 DEF reduced
  <2>10. CanUpsert(taken[b], moved, FALSE) /\ taken[b] \in Arrays
    BY <1>7, <2>9
  <2> DEFINE upserted == UpsertAsset(taken[b], moved)
  <2> HIDE DEF taken, moved, sold, s, v
  <2>11. /\ upserted \in Arrays
         /\ (\A d \in ToSet(taken[b]) : ~SameSlot(d, moved)) => Len(upserted) = Len(taken[b]) + 1
    BY <2>5, <2>10, UpsertedEffect
  <2>12. PositionsOf(upserted) = AddfCash(PositionsOf(taken[b]), m, v)
    BY <2>5, <2>10, UpsertedPositions
  <2> HIDE DEF upserted
  <2>13. new \in [Account -> Arrays] /\ new[b] = upserted /\ \A c \in Account : c # b => new[c] = taken[c]
    BY <2>9, <2>11 DEF upserted
  <2> HIDE DEF new, result, i, m
  <2>14. \A c \in Account \ {a, b} : new[c] = book[c]
    BY <1>1, <2>9, <2>13
  <2>15. r.left - 1 > 0 => i + (left - 1) <= Len(new[a]) + 1
    <3> SUFFICES ASSUME r.left - 1 > 0 PROVE i + (left - 1) <= Len(new[a]) + 1
      OBVIOUS
    <3>1. whole /\ v = sold.notional /\ i = r.i
      BY <1>1 DEF v, i
    <3>2. Len(new[a]) >= Len(s) - 1
      <4>1. CASE a # b
        BY <1>2, <2>6, <2>9, <2>13, <3>1, <4>1
      <4>2. CASE a = b
        <5>1. \A d \in ToSet(taken[b]) : d \in ToSet(s) /\ d # sold
          BY <2>6, <2>9, <3>1, <4>2
        <5>2. \A d \in ToSet(taken[b]) : ~SameSlot(d, moved)
          <6> SUFFICES ASSUME NEW d \in ToSet(taken[b]), SameSlot(d, moved) PROVE FALSE
            OBVIOUS
          <6>1. SameSlot(d, sold)
            BY <2>3, <2>5 DEF SameSlot, IsToken, m
          <6> QED BY <1>2, <2>3, <5>1, <6>1, SlotsApart
        <5> QED BY <1>2, <2>6, <2>9, <2>11, <2>13, <3>1, <4>2, <5>2
      <4> QED BY <4>1, <4>2
    <3>3. Len(new[a]) \in Nat
      BY <2>13, ArrayFacts
    <3>4. r.i + left <= Len(s) + 1
      BY <1>1, <1>7 DEF s
    <3> QED BY <1>1, <1>2, <3>1, <3>2, <3>3, <3>4
  <2> DEFINE q2 == PositionsOf(new[a])
             l2 == PositionsOf(new[b])
  <2>16. /\ q2.token = p.token /\ q2.listed = p.listed
         /\ l2.token = PositionsOf(book[b]).token /\ l2.listed = PositionsOf(book[b]).listed
         /\ \A k \in Maturity :
              /\ q2.fCash[k] = p.fCash[k] \/ (q2.fCash[k] >= 0 /\ q2.fCash[k] <= p.fCash[k])
              /\ a = b => q2.fCash[k] = p.fCash[k]
              /\ l2.fCash[k] + q2.fCash[k] = PositionsOf(book[b]).fCash[k] + p.fCash[k]
    <3>1. CASE a = b
      <4>1. q2 = AddfCash(AddfCash(q, m, -v), m, v)
        BY <2>7, <2>9, <2>12, <2>13, <3>1
      <4>2. q2 = q
        BY <1>3, <2>3, <2>4, <4>1, AddfCashBack DEF m
      <4>3. l2 = q /\ l = q
        BY <3>1, <4>2 DEF l, q, s
      <4> HIDE DEF q2, l2
      <4> QED BY <1>1, <3>1, <4>2, <4>3
    <3>2. CASE a # b
      <4>1. q2 = AddfCash(q, m, -v) /\ l2 = AddfCash(l, m, v)
        BY <2>7, <2>9, <2>12, <2>13, <3>2 DEF l
      <4>2. m \in Maturity
        BY <2>3 DEF m
      <4> HIDE DEF q2, l2
      <4>3. /\ q2.token = q.token /\ q2.listed = q.listed
            /\ q2.fCash[m] = q.fCash[m] + -v
            /\ \A k \in Maturity : k # m => q2.fCash[k] = q.fCash[k]
        BY <1>3, <2>4, <4>1, <4>2, AddfCashParts
      <4>4. /\ l2.token = l.token /\ l2.listed = l.listed
            /\ l2.fCash[m] = l.fCash[m] + v
            /\ \A k \in Maturity : k # m => l2.fCash[k] = l.fCash[k]
        <5>1. v \in Int
          BY <2>4
        <5> QED BY <1>3, <4>1, <4>2, <5>1, AddfCashParts
      <4>5. \A k \in Maturity : /\ q.fCash[k] \in Int /\ l.fCash[k] \in Int
                                /\ p.fCash[k] \in Int /\ PositionsOf(book[b]).fCash[k] \in Int
        BY <1>3 DEF Portfolio
      <4>6. /\ q2.fCash[m] >= 0 /\ q2.fCash[m] <= p.fCash[m]
            /\ l2.fCash[m] + q2.fCash[m] = PositionsOf(book[b]).fCash[m] + p.fCash[m]
        <5>1. q.fCash[m] <= p.fCash[m]
          BY <1>1, <4>2, <4>5
        <5>2. l.fCash[m] + q.fCash[m] = PositionsOf(book[b]).fCash[m] + p.fCash[m]
          BY <1>1, <4>2
        <5>3. sold.notional \in Nat /\ v \in Nat /\ v <= sold.notional
          BY <2>3, <2>4
        <5> HIDE DEF v
        <5> QED BY <2>8, <4>2, <4>3, <4>4, <4>5, <5>1, <5>2, <5>3
      <4>7. \A k \in Maturity : k # m =>
              /\ q2.fCash[k] = p.fCash[k] \/ (q2.fCash[k] >= 0 /\ q2.fCash[k] <= p.fCash[k])
              /\ l2.fCash[k] + q2.fCash[k] = PositionsOf(book[b]).fCash[k] + p.fCash[k]
        BY <1>1, <4>3, <4>4
      <4> QED BY <1>1, <3>2, <4>3, <4>4, <4>6, <4>7
    <3> QED BY <3>1, <3>2
  <2>17. /\ result \in [book : [Account -> Arrays], i : Nat \ {0}, left : Nat, ok : BOOLEAN]
         /\ result.book = new /\ result.i = i /\ result.left = r.left - 1
    BY <2>1, <2>2, <2>13
  <2>18. result \in Selling(book, a, b, left - 1)
    BY <2>14, <2>15, <2>16, <2>17 DEF Selling, p
  <2> QED BY <2>18 DEF result
<1> QED BY <1>4, <1>5, <1>6, <1>7

LEMMA SoldEffect ==
  ASSUME NEW book \in [Account -> Arrays], NEW a \in Account, NEW b \in Account, NEW x \in Nat,
         NEW count \in Nat
  PROVE  SellReceivers(book, a, b, count, x) \in Selling(book, a, b, 0)
<1> DEFINE n == Len(book[a])
           base == [book |-> book, i |-> 1, left |-> count, ok |-> TRUE]
           W == [book : [Account -> Arrays], i : Nat \ {0}, left : Nat, ok : BOOLEAN]
           X == [k \in 0 .. n |-> Selling(book, a, b, n - k)]
           step == [z \in (1 .. n) \X W |-> SellPass(z[2], a, b, x)]
           Solves(f) == f = [k \in 0 .. n |-> IF k = 0 THEN base ELSE SellPass(f[k - 1], a, b, x)]
<1>1. n \in Nat
  BY ArrayFacts
<1>2. base \in Selling(book, a, b, n)
  <2>1. 1 + n <= Len(book[a]) + 1
    BY <1>1
  <2>2. PositionsOf(book[a]) \in Portfolio /\ PositionsOf(book[b]) \in Portfolio
    BY PositionsFacts
  <2>3. /\ base \in [book : [Account -> Arrays], i : Nat \ {0}, left : Nat, ok : BOOLEAN]
        /\ base.book = book /\ base.i = 1
    OBVIOUS
  <2>4. \A m \in Maturity : PositionsOf(book[a]).fCash[m] \in Int /\ PositionsOf(book[b]).fCash[m] \in Int
    BY <2>2 DEF Portfolio
  <2>5. /\ base.i + n <= Len(base.book[a]) + 1
        /\ \A c \in Account \ {a, b} : base.book[c] = book[c]
        /\ PositionsOf(base.book[a]) = PositionsOf(book[a]) /\ PositionsOf(base.book[b]) = PositionsOf(book[b])
        /\ a = b => PositionsOf(book[a]) = PositionsOf(book[b])
    BY <2>1
  <2> HIDE DEF n, base
  <2> QED BY <2>3, <2>4, <2>5 DEF Selling
<1> HIDE DEF n, base
<1>3. \A k \in 0 .. n : X[k] = Selling(book, a, b, n - k) /\ X[k] \subseteq W
  BY DEF Selling
<1>4. base \in X[0]
  <2>1. 0 \in 0 .. n /\ n - 0 = n
    BY <1>1
  <2>2. X[0] = Selling(book, a, b, n - 0)
    BY <1>3, <2>1, Zenon
  <2> QED BY <1>2, <2>1, <2>2
<1>5. ASSUME NEW k \in 1 .. n, NEW r \in X[k - 1]
      PROVE  SellPass(r, a, b, x) \in X[k] /\ step[<<k, r>>] = SellPass(r, a, b, x)
  <2> DEFINE left == n - (k - 1)
  <2>1. k - 1 \in 0 .. n /\ k \in 0 .. n /\ left \in Nat \ {0} /\ left - 1 = n - k
    BY <1>1
  <2>2. r \in Selling(book, a, b, left) /\ r \in W
    BY <1>3, <2>1
  <2> HIDE DEF left, W, X
  <2>3. SellPass(r, a, b, x) \in Selling(book, a, b, left - 1)
    BY <2>1, <2>2, SellPassEffect
  <2> QED BY <1>3, <2>1, <2>2, <2>3
<1>6. \E f : Solves(f)
  <2>1. PICK f : Loop(n, base, step, f)
    <3> HIDE DEF step
    <3> QED BY <1>1, LoopExists
  <2>2. \A k \in 0 .. n : f[k] \in X[k]
    <3> HIDE DEF step, X
    <3> QED BY <1>1, <1>4, <1>5, <2>1, LoopStaysIn
  <2>3. \A k \in 1 .. n : k - 1 \in 0 .. n
    BY <1>1
  <2>4. \A k \in 1 .. n : step[<<k, f[k - 1]>>] = SellPass(f[k - 1], a, b, x)
    <3> HIDE DEF step, X
    <3> QED BY <1>5, <2>2, <2>3
  <2> HIDE DEF step
  <2>5. Solves(f)
    <3>1. f = [k \in 0 .. n |-> IF k = 0 THEN base ELSE step[<<k, f[k - 1]>>]]
      BY <2>1 DEF Loop
    <3>2. \A k \in 0 .. n : k = 0 \/ k \in 1 .. n
      BY <1>1
    <3> QED BY <2>4, <3>1, <3>2
  <2> QED BY <2>5
<1>7. ASSUME NEW f, Solves(f)
      PROVE  f[n] \in X[n]
  <2> DEFINE G == {k \in 0 .. n : f[k] \in X[k]}
  <2> HIDE DEF X, W, step
  <2>1. \A k \in 0 .. n : f[k] = IF k = 0 THEN base ELSE SellPass(f[k - 1], a, b, x)
    BY <1>7
  <2>2. 0 \in G
    <3>1. 0 \in 0 .. n
      BY <1>1
    <3>2. f[0] = IF 0 = 0 THEN base ELSE SellPass(f[0 - 1], a, b, x)
      BY <2>1, <3>1, Zenon
    <3> QED BY <1>4, <3>1, <3>2
  <2>3. ASSUME NEW k \in 1 .. n, k - 1 \in G
        PROVE  k \in G
    <3>1. k \in 0 .. n /\ f[k] = SellPass(f[k - 1], a, b, x) /\ f[k - 1] \in X[k - 1]
      BY <1>1, <2>1, <2>3
    <3> QED BY <1>5, <3>1
  <2>4. \A k \in 0 .. n : k \in G
    <3> HIDE DEF G
    <3> QED BY <1>1, <2>2, <2>3, IntervalInduction
  <2> QED BY <1>1, <2>4
<1> DEFINE g == CHOOSE f : Solves(f)
<1>8. SellReceivers(book, a, b, count, x) = g[n]
  BY DEF SellReceivers, base, n
<1>9. g[n] \in X[n]
  <2>1. Solves(g)
    BY <1>6
  <2> HIDE DEF g, X
  <2> QED BY <1>7, <2>1
<1>10. X[n] = Selling(book, a, b, n - n) /\ n - n = 0
  BY <1>1, <1>3
<1> HIDE DEF g, X
<1> QED BY <1>8, <1>9, <1>10

-----------------------------------------------------------------------------
(* The invariant                                                           *)

(* Type correctness and one entry per slot, which the loops and the search
   need of each other: without the one, the other breaks. *)
IInv ==
  /\ accountAssets \in [Account -> Arrays]
  /\ \A a \in Account : \A i \in 1 .. Len(accountAssets[a]) : accountAssets[a][i].notional <= MaxNotional
  /\ now \in 0 .. MaxTime

LEMMA CommitKept ==
  ASSUME IInv, NEW book \in [Account -> Arrays], Commit(book)
  PROVE  IInv'
<1>1. \A a \in Account : DOMAIN book[a] = 1 .. Len(book[a])
  BY ArrayFacts
<1> QED BY <1>1 DEF IInv, Commit

LEMMA NowNat ==
  ASSUME IInv
  PROVE  now \in Nat /\ accountAssets \in [Account -> Arrays]
BY PortfoliosAssumption DEF IInv

-----------------------------------------------------------------------------
(* The arrays implement the book                                           *)

Read(book) == [a \in Account |-> PositionsOf(book[a])]

LEMMA SameOperators ==
  /\ \A p, m, n : Book!AddfCash(p, m, n) = AddfCash(p, m, n)
  /\ \A p, m, n : Book!AddToken(p, m, n) = AddToken(p, m, n)
  /\ \A p, m, n : Book!TakeToken(p, m, n) = TakeToken(p, m, n)
  /\ \A p, m, n : Book!CanTakeToken(p, m, n) <=> CanTakeToken(p, m, n)
  /\ \A p, t : Book!Unmatured(p, t) = Unmatured(p, t)
<1>1. \A p, m, n : Book!AddfCash(p, m, n) = AddfCash(p, m, n)
  BY DEF Book!AddfCash, AddfCash
<1>2. \A p, m, n : Book!AddToken(p, m, n) = AddToken(p, m, n)
  BY DEF Book!AddToken, AddToken
<1>3. \A p, m, n : Book!TakeToken(p, m, n) = TakeToken(p, m, n)
  BY DEF Book!TakeToken, TakeToken
<1>4. \A p, m, n : Book!CanTakeToken(p, m, n) <=> CanTakeToken(p, m, n)
  BY DEF Book!CanTakeToken, CanTakeToken
<1>5. \A p, t : Book!Unmatured(p, t) = Unmatured(p, t)
  BY DEF Book!Unmatured, Unmatured
<1> QED BY <1>1, <1>2, <1>3, <1>4, <1>5

LEMMA PassOk ==
  ASSUME NEW s, NEW e, NEW flag, UpsertPass(s, e, flag).ok, s \in [assets : Arrays, ok : BOOLEAN]
  PROVE  s.ok /\ CanUpsert(s.assets, e, flag) /\ UpsertPass(s, e, flag).assets = UpsertAsset(s.assets, e)
BY DEF UpsertPass

(* Calls that upsert one entry, or two. *)
LEMMA OneUpsert ==
  ASSUME NEW s \in Arrays, NEW flag \in BOOLEAN, NEW e \in Argument, UpsertAll(s, <<e>>, flag).ok
  PROVE  CanUpsert(s, e, flag) /\ UpsertAll(s, <<e>>, flag).assets = UpsertAsset(s, e)
<1> DEFINE es == <<e>>
<1>1. Len(es) = 1 /\ es[1] = e
  OBVIOUS
<1> HIDE DEF es
<1>2. ASSUME NEW n \in Nat, n = 1
      PROVE  \E g : /\ \A k \in 0 .. n : g[k] \in [assets : Arrays, ok : BOOLEAN]
                    /\ g[0] = [assets |-> s, ok |-> TRUE]
                    /\ \A k \in 1 .. n : g[k] = UpsertPass(g[k - 1], es[k], flag)
                    /\ UpsertAll(s, es, flag) = g[n]
  <2>1. Len(es) = n /\ \A k \in 1 .. n : es[k] \in Argument
    BY <1>1, <1>2
  <2> QED BY <2>1, UpsertAllSteps
<1>3. PICK g : /\ \A k \in 0 .. 1 : g[k] \in [assets : Arrays, ok : BOOLEAN]
               /\ g[0] = [assets |-> s, ok |-> TRUE]
               /\ \A k \in 1 .. 1 : g[k] = UpsertPass(g[k - 1], es[k], flag)
               /\ UpsertAll(s, es, flag) = g[1]
  BY <1>2
<1> DEFINE u == g[0]
           v == g[1]
<1>4. u \in [assets : Arrays, ok : BOOLEAN] /\ u = [assets |-> s, ok |-> TRUE] /\ v.ok
  BY <1>3 DEF es
<1>5. v = UpsertPass(u, e, flag)
  <2>1. 1 \in 1 .. 1 /\ 1 - 1 = 0
    OBVIOUS
  <2> QED BY <1>1, <1>3, <2>1
<1> HIDE DEF u, v
<1>6. CanUpsert(u.assets, e, flag) /\ v.assets = UpsertAsset(u.assets, e)
  BY <1>4, <1>5, PassOk
<1> QED BY <1>3, <1>4, <1>6 DEF es, v

LEMMA TwoUpserts ==
  ASSUME NEW s \in Arrays, NEW flag \in BOOLEAN, NEW d \in Argument, NEW e \in Argument,
         UpsertAll(s, <<d, e>>, flag).ok
  PROVE  /\ CanUpsert(s, d, flag) /\ UpsertAsset(s, d) \in Arrays
         /\ CanUpsert(UpsertAsset(s, d), e, flag)
         /\ UpsertAll(s, <<d, e>>, flag).assets = UpsertAsset(UpsertAsset(s, d), e)
<1> DEFINE es == <<d, e>>
<1>1. Len(es) = 2 /\ es[1] = d /\ es[2] = e
  OBVIOUS
<1> HIDE DEF es
<1>2. ASSUME NEW n \in Nat, n = 2
      PROVE  \E g : /\ \A k \in 0 .. n : g[k] \in [assets : Arrays, ok : BOOLEAN]
                    /\ g[0] = [assets |-> s, ok |-> TRUE]
                    /\ \A k \in 1 .. n : g[k] = UpsertPass(g[k - 1], es[k], flag)
                    /\ UpsertAll(s, es, flag) = g[n]
  <2>1. \A k \in 1 .. n : k = 1 \/ k = 2
    BY <1>2
  <2>2. Len(es) = n /\ \A k \in 1 .. n : es[k] \in Argument
    BY <1>1, <1>2, <2>1
  <2> QED BY <2>2, UpsertAllSteps
<1>3. PICK g : /\ \A k \in 0 .. 2 : g[k] \in [assets : Arrays, ok : BOOLEAN]
               /\ g[0] = [assets |-> s, ok |-> TRUE]
               /\ \A k \in 1 .. 2 : g[k] = UpsertPass(g[k - 1], es[k], flag)
               /\ UpsertAll(s, es, flag) = g[2]
  BY <1>2
<1> DEFINE u == g[0]
           v == g[1]
           w == g[2]
<1>4. /\ u \in [assets : Arrays, ok : BOOLEAN] /\ u = [assets |-> s, ok |-> TRUE]
      /\ v \in [assets : Arrays, ok : BOOLEAN] /\ w.ok
  BY <1>3 DEF es
<1>5. v = UpsertPass(u, d, flag) /\ w = UpsertPass(v, e, flag)
  <2>1. 1 \in 1 .. 2 /\ 1 - 1 = 0 /\ 2 \in 1 .. 2 /\ 2 - 1 = 1
    OBVIOUS
  <2> QED BY <1>1, <1>3, <2>1
<1> HIDE DEF u, v, w
<1>6. v.ok /\ CanUpsert(v.assets, e, flag) /\ w.assets = UpsertAsset(v.assets, e)
  BY <1>4, <1>5, PassOk
<1>7. CanUpsert(u.assets, d, flag) /\ v.assets = UpsertAsset(u.assets, d)
  BY <1>4, <1>5, <1>6, PassOk, ZenonT(60)
<1>8. u.assets = s /\ v.assets \in Arrays
  BY <1>4
<1> QED BY <1>3, <1>6, <1>7, <1>8 DEF es, w

(* What a market does to the array of an account. *)
LEMMA MarketPositions ==
  ASSUME NEW s \in Arrays, NEW m \in Maturity, NEW es \in MarketChanges(m), UpsertAll(s, es, FALSE).ok
  PROVE  /\ UpsertAll(s, es, FALSE).assets \in Arrays
         /\ \E n, f \in Amount :
              PositionsOf(UpsertAll(s, es, FALSE).assets) \in Book!Changed(PositionsOf(s), m, n, f)
<1> DEFINE r == UpsertAll(s, es, FALSE)
           p == PositionsOf(s)
           q == PositionsOf(r.assets)
<1>1. PICK n \in Amount, f \in Amount :
         \/ es = <<Asset(m, "token", n), Asset(m, "payer", f)>>
         \/ es = <<Asset(m, "tokenPayer", n), Asset(m, "receiver", f)>>
         \/ es = <<Asset(m, "payer", f)>>
         \/ es = <<Asset(m, "receiver", f)>>
  BY DEF MarketChanges
<1>2. n \in Nat /\ f \in Nat
  BY PortfoliosAssumption
<1>3. \A kind \in {"payer", "receiver", "token", "tokenPayer"}, v \in Nat :
        /\ Asset(m, kind, v) \in Argument
        /\ Asset(m, kind, v).maturity = m /\ Asset(m, kind, v).kind = kind /\ Asset(m, kind, v).notional = v
  BY DEF Asset, Argument, Kind
<1> HIDE DEF r
<1>4. ASSUME NEW e \in Argument, es = <<e>>
      PROVE  r.assets \in Arrays /\ CanUpsert(s, e, FALSE) /\ r.assets = UpsertAsset(s, e)
  <2>1. CanUpsert(s, e, FALSE) /\ r.assets = UpsertAsset(s, e)
    BY <1>4, OneUpsert DEF r
  <2> QED BY <2>1, UpsertedEffect
<1>5. ASSUME NEW d \in Argument, NEW e \in Argument, es = <<d, e>>
      PROVE  /\ r.assets \in Arrays /\ CanUpsert(s, d, FALSE) /\ UpsertAsset(s, d) \in Arrays
             /\ CanUpsert(UpsertAsset(s, d), e, FALSE) /\ r.assets = UpsertAsset(UpsertAsset(s, d), e)
  <2>1. /\ CanUpsert(s, d, FALSE) /\ UpsertAsset(s, d) \in Arrays
        /\ CanUpsert(UpsertAsset(s, d), e, FALSE) /\ r.assets = UpsertAsset(UpsertAsset(s, d), e)
    BY <1>5, TwoUpserts DEF r
  <2>2. UpsertAsset(UpsertAsset(s, d), e) \in Arrays
    BY <2>1, UpsertedEffect
  <2> QED BY <2>1, <2>2
<1> HIDE DEF p, q
<1>6. CASE es = <<Asset(m, "token", n), Asset(m, "payer", f)>>
  <2> DEFINE d == Asset(m, "token", n)
             e == Asset(m, "payer", f)
  <2>1. /\ d \in Argument /\ d.maturity = m /\ d.kind = "token" /\ d.notional = n
        /\ e \in Argument /\ e.maturity = m /\ e.kind = "payer" /\ e.notional = f
    BY <1>2, <1>3
  <2>2. es = <<d, e>>
    BY <1>6
  <2> HIDE DEF d, e
  <2>3. /\ r.assets \in Arrays /\ CanUpsert(s, d, FALSE) /\ UpsertAsset(s, d) \in Arrays
        /\ CanUpsert(UpsertAsset(s, d), e, FALSE) /\ r.assets = UpsertAsset(UpsertAsset(s, d), e)
    BY <1>5, <2>1, <2>2
  <2>4. PositionsOf(UpsertAsset(s, d)) = AddToken(p, m, n)
    BY <2>1, <2>3, UpsertedPositions DEF p
  <2>5. q = AddfCash(PositionsOf(UpsertAsset(s, d)), m, -f)
    BY <2>1, <2>3, UpsertedPositions DEF q
  <2>6. q \in Book!Changed(p, m, n, f)
    BY <2>4, <2>5, SameOperators DEF Book!Changed
  <2> QED BY <2>3, <2>6 DEF p, q, r
<1>7. CASE es = <<Asset(m, "tokenPayer", n), Asset(m, "receiver", f)>>
  <2> DEFINE d == Asset(m, "tokenPayer", n)
             e == Asset(m, "receiver", f)
  <2>1. /\ d \in Argument /\ d.maturity = m /\ d.kind = "tokenPayer" /\ d.notional = n
        /\ e \in Argument /\ e.maturity = m /\ e.kind = "receiver" /\ e.notional = f
    BY <1>2, <1>3
  <2>2. es = <<d, e>>
    BY <1>7
  <2> HIDE DEF d, e
  <2>3. /\ r.assets \in Arrays /\ CanUpsert(s, d, FALSE) /\ UpsertAsset(s, d) \in Arrays
        /\ CanUpsert(UpsertAsset(s, d), e, FALSE) /\ r.assets = UpsertAsset(UpsertAsset(s, d), e)
    BY <1>5, <2>1, <2>2
  <2>4. CanTakeToken(p, m, n) /\ PositionsOf(UpsertAsset(s, d)) = TakeToken(p, m, n)
    BY <2>1, <2>3, UpsertedPositions DEF p
  <2>5. q = AddfCash(PositionsOf(UpsertAsset(s, d)), m, f)
    BY <2>1, <2>3, UpsertedPositions DEF q
  <2>6. q \in Book!Changed(p, m, n, f)
    BY <2>4, <2>5, SameOperators DEF Book!Changed
  <2> QED BY <2>3, <2>6 DEF p, q, r
<1>8. CASE es = <<Asset(m, "payer", f)>>
  <2> DEFINE e == Asset(m, "payer", f)
  <2>1. e \in Argument /\ e.maturity = m /\ e.kind = "payer" /\ e.notional = f /\ es = <<e>>
    BY <1>2, <1>3, <1>8
  <2> HIDE DEF e
  <2>2. r.assets \in Arrays /\ CanUpsert(s, e, FALSE) /\ r.assets = UpsertAsset(s, e)
    BY <1>4, <2>1
  <2>3. q = AddfCash(p, m, -f)
    BY <2>1, <2>2, UpsertedPositions DEF p, q
  <2>4. q \in Book!Changed(p, m, n, f)
    BY <2>3, SameOperators DEF Book!Changed
  <2> QED BY <2>2, <2>4 DEF p, q, r
<1>9. CASE es = <<Asset(m, "receiver", f)>>
  <2> DEFINE e == Asset(m, "receiver", f)
  <2>1. e \in Argument /\ e.maturity = m /\ e.kind = "receiver" /\ e.notional = f /\ es = <<e>>
    BY <1>2, <1>3, <1>9
  <2> HIDE DEF e
  <2>2. r.assets \in Arrays /\ CanUpsert(s, e, FALSE) /\ r.assets = UpsertAsset(s, e)
    BY <1>4, <2>1
  <2>3. q = AddfCash(p, m, f)
    BY <2>1, <2>2, UpsertedPositions DEF p, q
  <2>4. q \in Book!Changed(p, m, n, f)
    BY <2>3, SameOperators DEF Book!Changed
  <2> QED BY <2>2, <2>4 DEF p, q, r
<1> QED BY <1>1, <1>6, <1>7, <1>8, <1>9

LEMMA CheckRead ==
  ASSUME IInv, NEW book \in [Account -> Arrays], NEW a \in Account
  PROVE  /\ Check(book, a) \in [Account -> Arrays]
         /\ \A c \in Account : c # a => Check(book, a)[c] = book[c]
         /\ Read(Check(book, a)) = [Read(book) EXCEPT ![a] = Unmatured(@, now)]
<1>1. now \in Nat
  BY NowNat
<1>2. Settled(book[a], now) \in Arrays
  BY <1>1, SettledEffect
<1>3. PositionsOf(Settled(book[a], now)) = Unmatured(PositionsOf(book[a]), now)
  BY <1>1, SettledPositions
<1> DEFINE new == Settled(book[a], now)
<1>4. Check(book, a) = [book EXCEPT ![a] = new]
  BY DEF Check
<1> HIDE DEF new
<1> QED BY <1>2, <1>3, <1>4 DEF Read, new

-----------------------------------------------------------------------------
(* The calls of the market, and transfers                                  *)

(* Calls that change the array of one account, or of two. *)
LEMMA CallOfOne ==
  ASSUME NEW a \in Account, accountAssets \in [Account -> Arrays],
         \A c \in Account : c # a => accountAssets'[c] = accountAssets[c],
         Book!SettleAccount(a) \/ (\E m \in Maturity : Book!Change(a, m)) \/ Book!RaiseFromTokens(a)
  PROVE  Book!Call
<1> DEFINE changed == {c \in Account : Read(accountAssets')[c] # Read(accountAssets)[c]}
<1>1. changed \subseteq {a}
  BY DEF Read
<1>2. changed \in {{c \in Account : Read(accountAssets')[c] # Read(accountAssets)[c]}}
  OBVIOUS
<1> HIDE DEF changed
<1>3. Book!Call <=> \E x \in {{c \in Account : Read(accountAssets')[c] # Read(accountAssets)[c]}} :
                      \/ \E d \in Account :
                           /\ x \subseteq {d}
                           /\ \/ Book!SettleAccount(d)
                              \/ \E m \in Maturity : Book!Change(d, m)
                              \/ Book!RaiseFromTokens(d)
                      \/ \E d, e \in Account :
                           /\ x \subseteq {d, e}
                           /\ \/ \E m \in Maturity : Book!Transfer(d, e, m) \/ Book!MintPair(d, e, m)
                              \/ Book!RaiseFromReceivers(d, e)
  BY DEF Book!Call, Read
<1> QED BY <1>1, <1>2, <1>3

LEMMA CallOfTwo ==
  ASSUME NEW a \in Account, NEW b \in Account, accountAssets \in [Account -> Arrays],
         \A c \in Account \ {a, b} : accountAssets'[c] = accountAssets[c],
         \/ \E m \in Maturity : Book!Transfer(a, b, m) \/ Book!MintPair(a, b, m)
         \/ Book!RaiseFromReceivers(a, b)
  PROVE  Book!Call
<1> DEFINE changed == {c \in Account : Read(accountAssets')[c] # Read(accountAssets)[c]}
<1>1. changed \subseteq {a, b}
  BY DEF Read
<1>2. changed \in {{c \in Account : Read(accountAssets')[c] # Read(accountAssets)[c]}}
  OBVIOUS
<1> HIDE DEF changed
<1>3. Book!Call <=> \E x \in {{c \in Account : Read(accountAssets')[c] # Read(accountAssets)[c]}} :
                      \/ \E d \in Account :
                           /\ x \subseteq {d}
                           /\ \/ Book!SettleAccount(d)
                              \/ \E m \in Maturity : Book!Change(d, m)
                              \/ Book!RaiseFromTokens(d)
                      \/ \E d, e \in Account :
                           /\ x \subseteq {d, e}
                           /\ \/ \E m \in Maturity : Book!Transfer(d, e, m) \/ Book!MintPair(d, e, m)
                              \/ Book!RaiseFromReceivers(d, e)
  BY DEF Book!Call, Read
<1> QED BY <1>1, <1>2, <1>3

LEMMA MarketStep ==
  ASSUME IInv, NEW a \in Account, NEW m \in Maturity, NEW checkFreeCollateral \in BOOLEAN, now < m,
         NEW es \in MarketChanges(m), UpsertAccountAssets(a, es, checkFreeCollateral)
  PROVE  IInv' /\ Book!Call
<1> DEFINE after == UpsertAll(accountAssets[a], es, FALSE)
           assets == after.assets
           book == [accountAssets EXCEPT ![a] = assets]
           new == IF checkFreeCollateral THEN Check(book, a) ELSE book
<1>1. accountAssets \in [Account -> Arrays] /\ now \in Nat
  BY NowNat
<1>2. after.ok /\ Commit(new)
  BY DEF UpsertAccountAssets
<1>3. /\ assets \in Arrays
      /\ \E n, f \in Amount : PositionsOf(assets) \in Book!Changed(PositionsOf(accountAssets[a]), m, n, f)
  BY <1>1, <1>2, MarketPositions
<1> HIDE DEF assets
<1>4. book \in [Account -> Arrays] /\ book[a] = assets /\ \A c \in Account : c # a => book[c] = accountAssets[c]
  BY <1>1, <1>3
<1> HIDE DEF book
<1>5. /\ Check(book, a) \in [Account -> Arrays]
      /\ \A c \in Account : c # a => Check(book, a)[c] = book[c]
      /\ Read(Check(book, a)) = [Read(book) EXCEPT ![a] = Unmatured(@, now)]
  BY <1>4, CheckRead
<1>6. /\ new \in [Account -> Arrays]
      /\ \A c \in Account : c # a => new[c] = accountAssets[c]
      /\ PositionsOf(new[a]) \in {PositionsOf(assets), Unmatured(PositionsOf(assets), now)}
  <2>1. CASE checkFreeCollateral
    <3>1. Read(Check(book, a))[a] = Unmatured(Read(book)[a], now)
      BY <1>5 DEF Read
    <3>2. PositionsOf(Check(book, a)[a]) = Unmatured(PositionsOf(assets), now)
      BY <1>4, <3>1 DEF Read
    <3> QED BY <1>4, <1>5, <2>1, <3>2
  <2>2. CASE ~checkFreeCollateral
    BY <1>4, <2>2
  <2> QED BY <2>1, <2>2
<1> HIDE DEF new
<1>7. accountAssets' = new
  BY <1>2 DEF Commit
<1>8. IInv'
  BY <1>2, <1>6, CommitKept
<1>9. Book!Change(a, m)
  <2>1. Book!Change(a, m) <=> \E p \in {Read(accountAssets)[a]}, q \in {Read(accountAssets')[a]} :
          /\ now < m
          /\ \E n, f \in Amount : \E r \in Book!Changed(p, m, n, f) : q = r \/ q = Book!Unmatured(r, now)
    BY DEF Book!Change, Read
  <2>2. Read(accountAssets)[a] = PositionsOf(accountAssets[a]) /\ Read(accountAssets')[a] = PositionsOf(new[a])
    BY <1>7 DEF Read
  <2> QED BY <1>3, <1>6, <2>1, <2>2, SameOperators
<1>10. \A c \in Account : c # a => accountAssets'[c] = accountAssets[c]
  BY <1>6, <1>7
<1> QED BY <1>1, <1>8, <1>9, <1>10, CallOfOne

LEMMA SettleStep ==
  ASSUME IInv, NEW a \in Account, SettleMaturedAssets(a)
  PROVE  IInv' /\ Book!Call
<1> DEFINE new == Check(accountAssets, a)
<1>1. accountAssets \in [Account -> Arrays] /\ now \in Nat
  BY NowNat
<1>2. Commit(new)
  BY DEF SettleMaturedAssets
<1>3. /\ new \in [Account -> Arrays]
      /\ \A c \in Account : c # a => new[c] = accountAssets[c]
      /\ Read(new) = [Read(accountAssets) EXCEPT ![a] = Unmatured(@, now)]
  BY <1>1, CheckRead
<1> HIDE DEF new
<1>4. accountAssets' = new
  BY <1>2 DEF Commit
<1>5. IInv'
  BY <1>2, <1>3, CommitKept
<1>6. Book!SettleAccount(a)
  <2>1. Book!SettleAccount(a) <=> Read(accountAssets')[a] = Book!Unmatured(Read(accountAssets)[a], now)
    BY DEF Book!SettleAccount, Read
  <2>2. Read(new)[a] = Unmatured(Read(accountAssets)[a], now)
    BY <1>3 DEF Read
  <2> QED BY <1>4, <2>1, <2>2, SameOperators
<1>7. \A c \in Account : c # a => accountAssets'[c] = accountAssets[c]
  BY <1>3, <1>4
<1> QED BY <1>1, <1>5, <1>6, <1>7, CallOfOne

LEMMA MintStep ==
  ASSUME IInv, NEW payer \in Account, NEW receiver \in Account, NEW m \in Maturity, NEW n \in Amount,
         MintfCashPair(payer, receiver, m, n)
  PROVE  IInv' /\ Book!Call
<1> DEFINE debt == Asset(m, "payer", n)
           claim == Asset(m, "receiver", n)
           owing == UpsertAsset(accountAssets[payer], debt)
           owed == [accountAssets EXCEPT ![payer] = owing]
           claiming == UpsertAsset(owed[receiver], claim)
           book == [owed EXCEPT ![receiver] = claiming]
           new == Check(book, payer)
<1>1. accountAssets \in [Account -> Arrays] /\ now \in Nat /\ n \in Nat
  BY NowNat, PortfoliosAssumption
<1>2. /\ now < m
      /\ CanUpsert(accountAssets[payer], debt, FALSE)
      /\ CanUpsert(owed[receiver], claim, FALSE)
      /\ Commit(new)
  BY DEF MintfCashPair
<1>3. /\ debt \in Argument /\ debt.maturity = m /\ debt.kind = "payer" /\ debt.notional = n
      /\ claim \in Argument /\ claim.maturity = m /\ claim.kind = "receiver" /\ claim.notional = n
  BY <1>1 DEF Asset, Argument, Kind
<1> HIDE DEF debt, claim
<1>4. owing \in Arrays /\ PositionsOf(owing) = AddfCash(PositionsOf(accountAssets[payer]), m, -n)
  BY <1>1, <1>2, <1>3, UpsertedEffect, UpsertedPositions
<1> HIDE DEF owing
<1>5. /\ owed \in [Account -> Arrays] /\ \A c \in Account : c # payer => owed[c] = accountAssets[c]
      /\ Read(owed) = [Read(accountAssets) EXCEPT ![payer] = AddfCash(@, m, -n)]
  BY <1>1, <1>4 DEF Read
<1> HIDE DEF owed
<1>6. claiming \in Arrays /\ PositionsOf(claiming) = AddfCash(PositionsOf(owed[receiver]), m, n)
  <2> DEFINE s == owed[receiver]
  <2>1. s \in Arrays /\ CanUpsert(s, claim, FALSE)
    BY <1>2, <1>5
  <2> HIDE DEF s
  <2>2. UpsertAsset(s, claim) \in Arrays
    BY <1>3, <2>1, UpsertedEffect
  <2>3. PositionsOf(UpsertAsset(s, claim)) = AddfCash(PositionsOf(s), m, n)
    BY <1>3, <2>1, UpsertedPositions
  <2> QED BY <2>2, <2>3 DEF s
<1> HIDE DEF claiming
<1>7. /\ book \in [Account -> Arrays] /\ \A c \in Account : c # receiver => book[c] = owed[c]
      /\ Read(book) = [Read(owed) EXCEPT ![receiver] = AddfCash(@, m, n)]
  BY <1>5, <1>6 DEF Read
<1> HIDE DEF book
<1>8. /\ new \in [Account -> Arrays] /\ \A c \in Account : c # payer => new[c] = book[c]
      /\ Read(new) = [Read(book) EXCEPT ![payer] = Unmatured(@, now)]
  BY <1>7, CheckRead
<1> HIDE DEF new
<1>9. accountAssets' = new
  BY <1>2 DEF Commit
<1>10. IInv'
  BY <1>2, <1>8, CommitKept
<1>11. Book!MintPair(payer, receiver, m)
  <2>1. Book!MovefCash(payer, receiver, m, n) = Read(book)
    <3>1. Book!MovefCash(payer, receiver, m, n)
            = [[Read(accountAssets) EXCEPT ![payer] = AddfCash(@, m, -n)]
                 EXCEPT ![receiver] = AddfCash(@, m, n)]
      BY DEF Book!MovefCash, Read, Book!AddfCash, AddfCash
    <3> QED BY <1>5, <1>7, <3>1
  <2>2. Book!Checked(Read(book), payer) = Read(new)
    <3>1. Book!Checked(Read(book), payer) = [Read(book) EXCEPT ![payer] = Unmatured(@, now)]
      BY SameOperators DEF Book!Checked
    <3> QED BY <1>8, <3>1
  <2>3. Book!MintPair(payer, receiver, m)
          <=> /\ now < m
              /\ \E k \in Amount : Read(accountAssets') = Book!Checked(Book!MovefCash(payer, receiver, m, k), payer)
    BY DEF Book!MintPair, Read
  <2> QED BY <1>2, <1>9, <2>1, <2>2, <2>3
<1>12. \A c \in Account \ {payer, receiver} : accountAssets'[c] = accountAssets[c]
  BY <1>5, <1>7, <1>8, <1>9
<1> QED BY <1>1, <1>10, <1>11, <1>12, CallOfTwo

(* What _searchAsset finds is there. *)
LEMMA FoundEntry ==
  ASSUME NEW s \in Arrays, NEW m \in Maturity, NEW kind \in Kind, Matching(s, m, {kind}) # {}
  PROVE  /\ Min(Matching(s, m, {kind})) \in 1 .. Len(s)
         /\ s[Min(Matching(s, m, {kind}))].maturity = m
         /\ s[Min(Matching(s, m, {kind}))].kind = kind
<1> DEFINE found == Matching(s, m, {kind})
<1>1. /\ Len(s) \in Nat /\ DOMAIN s = 1 .. Len(s)
      /\ \A i, j \in 1 .. Len(s) : SameSlot(s[i], s[j]) => i = j
  BY ArrayFacts
<1>2. \A i : i \in found <=> i \in 1 .. Len(s) /\ s[i].maturity = m /\ s[i].kind = kind
  BY <1>1 DEF Matching
<1> HIDE DEF found
<1>3. PICK j \in found : TRUE
  BY DEF found
<1>4. \A i \in found : i = j
  BY <1>1, <1>2, <1>3 DEF SameSlot, IsToken
<1>5. found = {j}
  BY <1>3, <1>4
<1>6. j <= j
  <2>1. j \in 1 .. Len(s)
    BY <1>2, <1>3
  <2> QED BY <1>1, <2>1
<1>7. Min(found) = j
  BY <1>5, <1>6 DEF Min
<1> QED BY <1>2, <1>3, <1>7 DEF found

LEMMA TransferStep ==
  ASSUME IInv, NEW from \in Account, NEW to \in Account, NEW m \in Maturity,
         NEW kind \in {"receiver", "token"}, NEW n \in Amount, TransferAccountAsset(from, to, m, kind, n)
  PROVE  IInv' /\ Book!Call
<1> DEFINE s == accountAssets[from]
           i == Min(Matching(s, m, {kind}))
           reduced == ReduceAsset(s, i, n)
           sent == [accountAssets EXCEPT ![from] = reduced]
           e == Asset(m, kind, n)
           arrived == UpsertAsset(sent[to], e)
           book == [sent EXCEPT ![to] = arrived]
           new == Check(book, from)
           P == PositionsOf(s)
           T == PositionsOf(sent[to])
<1>1. accountAssets \in [Account -> Arrays] /\ now \in Nat /\ n \in Nat
  BY NowNat, PortfoliosAssumption
<1>2. /\ now < m /\ Matching(s, m, {kind}) # {} /\ n <= s[i].notional
      /\ CanUpsert(sent[to], e, FALSE) /\ Commit(new)
  BY DEF TransferAccountAsset
<1>3. s \in Arrays /\ i \in 1 .. Len(s) /\ s[i].maturity = m /\ s[i].kind = kind
  <2>1. s \in Arrays /\ kind \in Kind
    BY <1>1 DEF Kind
  <2> HIDE DEF s
  <2> QED BY <1>2, <2>1, FoundEntry
<1> HIDE DEF i
<1>4. /\ reduced \in Arrays
      /\ kind = "receiver" => PositionsOf(reduced) = AddfCash(P, m, -n)
      /\ kind = "token" => CanTakeToken(P, m, n) /\ PositionsOf(reduced) = TakeToken(P, m, n)
  <2> HIDE DEF s
  <2>1. reduced \in Arrays
    BY <1>1, <1>2, <1>3, ReducedEffect
  <2>2. /\ kind = "receiver" => PositionsOf(reduced) = AddfCash(P, m, -n)
        /\ kind = "token" => CanTakeToken(P, m, n) /\ PositionsOf(reduced) = TakeToken(P, m, n)
    BY <1>1, <1>2, <1>3, ReducedPositions
  <2> QED BY <2>1, <2>2
<1>5. kind = "receiver" => n <= P.fCash[m]
  <2> SUFFICES ASSUME kind = "receiver" PROVE n <= P.fCash[m]
    OBVIOUS
  <2>1. s[i] \in ToSet(s)
    BY <1>3, ArrayFacts
  <2>2. P.fCash[m] = Signed(s[i])
    <3> HIDE DEF s
    <3> QED BY <1>3, <2>1, PositionsFacts
  <2> QED BY <1>2, <1>3, <2>2 DEF Signed
<1> HIDE DEF reduced
<1>6. /\ sent \in [Account -> Arrays] /\ \A c \in Account : c # from => sent[c] = accountAssets[c]
      /\ kind = "receiver" => Read(sent) = [Read(accountAssets) EXCEPT ![from] = AddfCash(@, m, -n)]
      /\ kind = "token" => Read(sent) = [Read(accountAssets) EXCEPT ![from] = TakeToken(@, m, n)]
  BY <1>1, <1>4 DEF Read
<1>7. e \in Argument /\ e.maturity = m /\ e.kind = kind /\ e.notional = n
  BY <1>1 DEF Asset, Argument, Kind
<1> HIDE DEF e, sent
<1>8. /\ arrived \in Arrays
      /\ kind = "receiver" => PositionsOf(arrived) = AddfCash(T, m, n)
      /\ kind = "token" => PositionsOf(arrived) = AddToken(T, m, n)
  <2> DEFINE t == sent[to]
  <2>1. t \in Arrays /\ CanUpsert(t, e, FALSE)
    BY <1>2, <1>6
  <2> HIDE DEF t
  <2>2. UpsertAsset(t, e) \in Arrays
    BY <1>7, <2>1, UpsertedEffect
  <2>3. /\ kind = "receiver" => PositionsOf(UpsertAsset(t, e)) = AddfCash(PositionsOf(t), m, n)
        /\ kind = "token" => PositionsOf(UpsertAsset(t, e)) = AddToken(PositionsOf(t), m, n)
    BY <1>7, <2>1, UpsertedPositions
  <2> QED BY <2>2, <2>3 DEF t
<1> HIDE DEF arrived
<1>9. /\ book \in [Account -> Arrays] /\ \A c \in Account : c # to => book[c] = sent[c]
      /\ kind = "receiver" => Read(book) = [Read(sent) EXCEPT ![to] = AddfCash(@, m, n)]
      /\ kind = "token" => Read(book) = [Read(sent) EXCEPT ![to] = AddToken(@, m, n)]
  BY <1>6, <1>8 DEF Read
<1> HIDE DEF book
<1>10. /\ new \in [Account -> Arrays] /\ \A c \in Account : c # from => new[c] = book[c]
       /\ Read(new) = [Read(book) EXCEPT ![from] = Unmatured(@, now)]
  BY <1>9, CheckRead
<1> HIDE DEF new
<1>11. accountAssets' = new
  BY <1>2 DEF Commit
<1>12. IInv'
  BY <1>2, <1>10, CommitKept
<1>13. Book!Transfer(from, to, m)
  <2>1. Book!Checked(Read(book), from) = Read(new)
    <3>1. Book!Checked(Read(book), from) = [Read(book) EXCEPT ![from] = Unmatured(@, now)]
      BY SameOperators DEF Book!Checked
    <3> QED BY <1>10, <3>1
  <2>2. Book!Transfer(from, to, m)
          <=> /\ now < m
              /\ \E k \in Amount :
                   \/ (k = 0 \/ k <= Read(accountAssets)[from].fCash[m])
                      /\ Read(accountAssets') = Book!Checked(Book!MovefCash(from, to, m, k), from)
                   \/ Book!CanTakeToken(Read(accountAssets)[from], m, k)
                      /\ Read(accountAssets') = Book!Checked(Book!MoveToken(from, to, m, k), from)
    BY DEF Book!Transfer, Read
  <2>3. Read(accountAssets)[from] = P
    BY DEF Read
  <2>4. CASE kind = "receiver"
    <3>1. Book!MovefCash(from, to, m, n)
            = [[Read(accountAssets) EXCEPT ![from] = AddfCash(@, m, -n)]
                 EXCEPT ![to] = AddfCash(@, m, n)]
      BY DEF Book!MovefCash, Read, Book!AddfCash, AddfCash
    <3>2. Book!MovefCash(from, to, m, n) = Read(book)
      BY <1>6, <1>9, <2>4, <3>1
    <3> QED BY <1>2, <1>5, <1>11, <2>1, <2>2, <2>3, <2>4, <3>2
  <2>5. CASE kind = "token"
    <3>1. Book!MoveToken(from, to, m, n)
            = [[Read(accountAssets) EXCEPT ![from] = TakeToken(@, m, n)]
                 EXCEPT ![to] = AddToken(@, m, n)]
      BY DEF Book!MoveToken, Read, Book!TakeToken, TakeToken, Book!AddToken, AddToken
    <3>2. Book!MoveToken(from, to, m, n) = Read(book)
      BY <1>6, <1>9, <2>5, <3>1
    <3>3. Book!CanTakeToken(P, m, n)
      BY <1>4, <2>5, SameOperators
    <3> QED BY <1>2, <1>11, <2>1, <2>2, <2>3, <3>2, <3>3
  <2> QED BY <2>4, <2>5
<1>14. \A c \in Account \ {from, to} : accountAssets'[c] = accountAssets[c]
  BY <1>6, <1>9, <1>10, <1>11
<1> QED BY <1>1, <1>12, <1>13, <1>14, CallOfTwo

-----------------------------------------------------------------------------
(* Liquidation: tokens redeemed                                            *)

LEMMA LengthOfFunction ==
  ASSUME NEW S, NEW n \in Nat, NEW es \in [1 .. n -> S]
  PROVE  Len(es) = n
<1>1. es \in Seq(S)
  BY SeqDef
<1>2. Len(es) \in Nat /\ DOMAIN es = 1 .. Len(es)
  BY <1>1, LenProperties
<1>3. 1 .. Len(es) = 1 .. n
  BY <1>2
<1> DEFINE k == Len(es)
<1>4. k \in Nat /\ 1 .. k = 1 .. n
  BY <1>2, <1>3
<1> HIDE DEF k
<1>5. k = n
  BY <1>4
<1> QED BY <1>5 DEF k

(* What is left of p when tokens are redeemed. *)
Redeemed(p) ==
  {q \in Portfolio :
     /\ q.listed \subseteq p.listed
     /\ \A m \in Maturity :
          /\ 0 <= q.token[m] /\ q.token[m] <= p.token[m]
          /\ m \notin q.listed => q.token[m] = 0
          /\ IF m \in p.listed THEN q.fCash[m] >= p.fCash[m] ELSE q.fCash[m] = p.fCash[m]}

LEMMA NothingRedeemed ==
  ASSUME NEW s \in Arrays
  PROVE  PositionsOf(s) \in Redeemed(PositionsOf(s))
<1> DEFINE p == PositionsOf(s)
<1>1. /\ p \in Portfolio
      /\ \A e \in ToSet(s) : e.kind = "token" => e.maturity \in p.listed
      /\ \A m \in Maturity : (\A e \in ToSet(s) : e.maturity = m => e.kind # "token") => p.token[m] = 0
  BY PositionsFacts
<1> HIDE DEF p
<1>2. \A m \in Maturity : m \notin p.listed => p.token[m] = 0
  BY <1>1
<1>3. \A m \in Maturity : p.token[m] \in Nat /\ p.fCash[m] \in Int
  BY <1>1 DEF Portfolio
<1>4. p \in Redeemed(p)
  BY <1>1, <1>2, <1>3 DEF Redeemed
<1> QED BY <1>4 DEF p

LEMMA RedeemsOn ==
  ASSUME NEW p \in Portfolio, NEW s \in Arrays, PositionsOf(s) \in Redeemed(p),
         NEW e \in Argument, NEW flag \in BOOLEAN, CanUpsert(s, e, flag),
         (e.kind = "receiver" /\ e.maturity \in p.listed) \/ e.kind = "tokenPayer"
  PROVE  PositionsOf(UpsertAsset(s, e)) \in Redeemed(p)
<1> DEFINE q == PositionsOf(s)
           r == PositionsOf(UpsertAsset(s, e))
           m == e.maturity
           n == e.notional
<1>1. /\ q \in Portfolio /\ q.listed \subseteq p.listed
      /\ \A k \in Maturity :
           /\ 0 <= q.token[k] /\ q.token[k] <= p.token[k]
           /\ k \notin q.listed => q.token[k] = 0
           /\ IF k \in p.listed THEN q.fCash[k] >= p.fCash[k] ELSE q.fCash[k] = p.fCash[k]
  BY DEF Redeemed
<1>2. m \in Maturity /\ n \in Nat
  BY DEF Argument
<1>3. /\ e.kind = "receiver" => r = AddfCash(q, m, n)
      /\ e.kind = "tokenPayer" => CanTakeToken(q, m, n) /\ r = TakeToken(q, m, n)
  BY UpsertedPositions
<1>4. r \in Portfolio
  BY UpsertedEffect, PositionsFacts
<1>5. \A k \in Maturity : /\ q.token[k] \in Nat /\ q.fCash[k] \in Int
                          /\ p.token[k] \in Nat /\ p.fCash[k] \in Int
  BY <1>1 DEF Portfolio
<1> HIDE DEF q, r, m, n
<1>6. ASSUME e.kind = "receiver" PROVE r \in Redeemed(p)
  <2>1. r = AddfCash(q, m, n) /\ m \in p.listed /\ n \in Int
    BY <1>2, <1>3, <1>6 DEF m
  <2>2. /\ r.token = q.token /\ r.listed = q.listed
        /\ r.fCash[m] = q.fCash[m] + n
        /\ \A k \in Maturity : k # m => r.fCash[k] = q.fCash[k]
    BY <1>1, <1>2, <2>1, AddfCashParts
  <2>3. r.fCash[m] >= p.fCash[m]
    BY <1>1, <1>2, <1>5, <2>1, <2>2
  <2>4. \A k \in Maturity : IF k \in p.listed THEN r.fCash[k] >= p.fCash[k] ELSE r.fCash[k] = p.fCash[k]
    BY <1>1, <2>1, <2>2, <2>3
  <2> QED BY <1>1, <1>4, <2>2, <2>4 DEF Redeemed
<1>7. ASSUME e.kind = "tokenPayer" PROVE r \in Redeemed(p)
  <2>1. /\ m \in q.listed /\ n <= q.token[m]
        /\ r.fCash = q.fCash
        /\ r.token = [q.token EXCEPT ![m] = @ - n]
        /\ r.listed = IF q.token[m] = n THEN q.listed \ {m} ELSE q.listed
    BY <1>3, <1>7 DEF TakeToken, CanTakeToken
  <2>2. q.token \in [Maturity -> Nat]
    BY <1>1 DEF Portfolio
  <2>3. r.token[m] = q.token[m] - n /\ \A k \in Maturity : k # m => r.token[k] = q.token[k]
    BY <1>2, <2>1, <2>2
  <2>4. \A k \in Maturity : /\ 0 <= r.token[k] /\ r.token[k] <= p.token[k]
                            /\ k \notin r.listed => r.token[k] = 0
    <3> TAKE k \in Maturity
    <3>1. CASE k = m
      <4>1. /\ n \in Nat /\ q.token[m] \in Nat /\ p.token[m] \in Nat
            /\ n <= q.token[m] /\ q.token[m] <= p.token[m] /\ r.token[m] = q.token[m] - n
        BY <1>1, <1>2, <1>5, <2>1, <2>3
      <4>2. 0 <= r.token[m] /\ r.token[m] <= p.token[m]
        BY <4>1
      <4>3. m \notin r.listed => r.token[m] = 0
        BY <2>1, <4>1
      <4> QED BY <3>1, <4>2, <4>3
    <3>2. CASE k # m
      BY <1>1, <2>1, <2>3, <3>2
    <3> QED BY <3>1, <3>2
  <2>5. r.listed \subseteq p.listed
    BY <1>1, <2>1
  <2>6. \A k \in Maturity : IF k \in p.listed THEN r.fCash[k] >= p.fCash[k] ELSE r.fCash[k] = p.fCash[k]
    <3>1. \A k \in Maturity : r.fCash[k] = q.fCash[k]
      BY <2>1
    <3> TAKE k \in Maturity
    <3>2. r.fCash[k] = q.fCash[k]
      BY <3>1
    <3>3. IF k \in p.listed THEN q.fCash[k] >= p.fCash[k] ELSE q.fCash[k] = p.fCash[k]
      BY <1>1
    <3> QED BY <3>2, <3>3
  <2> QED BY <1>4, <2>4, <2>5, <2>6 DEF Redeemed
<1>8. r \in Redeemed(p)
  BY <1>6, <1>7
<1> QED BY <1>8 DEF r

(* Upserts that redeem: fCash comes in where tokens are held, tokens go out. *)
Redeeming(p, es, n) ==
  \A k \in 1 .. n : \/ es[k].kind = "receiver" /\ es[k].maturity \in p.listed
                    \/ es[k].kind = "tokenPayer"

LEMMA AllRedeemed ==
  ASSUME NEW s \in Arrays, NEW n \in Nat, NEW es, Len(es) = n,
         \A k \in 1 .. n : es[k] \in Argument, NEW flag \in BOOLEAN,
         Redeeming(PositionsOf(s), es, n),
         UpsertAll(s, es, flag).ok
  PROVE  /\ UpsertAll(s, es, flag).assets \in Arrays
         /\ PositionsOf(UpsertAll(s, es, flag).assets) \in Redeemed(PositionsOf(s))
<1> DEFINE p == PositionsOf(s)
<1>2. PICK g : /\ \A k \in 0 .. n : g[k] \in [assets : Arrays, ok : BOOLEAN]
               /\ g[0] = [assets |-> s, ok |-> TRUE]
               /\ \A k \in 1 .. n : g[k] = UpsertPass(g[k - 1], es[k], flag)
               /\ UpsertAll(s, es, flag) = g[n]
  BY UpsertAllSteps
<1> DEFINE G == {k \in 0 .. n : g[k].ok => PositionsOf(g[k].assets) \in Redeemed(p)}
<1>3. 0 \in G
  <2>1. 0 \in 0 .. n
    OBVIOUS
  <2>2. g[0].assets = s
    BY <1>2
  <2> QED BY <2>1, <2>2, NothingRedeemed
<1>4. ASSUME NEW k \in 1 .. n, k - 1 \in G
      PROVE  k \in G
  <2> DEFINE u == g[k - 1]
             v == g[k]
             e == es[k]
  <2>1. k \in 0 .. n /\ k - 1 \in 0 .. n
    OBVIOUS
  <2>2. u \in [assets : Arrays, ok : BOOLEAN] /\ v = UpsertPass(u, e, flag) /\ e \in Argument
    BY <1>2, <2>1
  <2>3. u.ok => PositionsOf(u.assets) \in Redeemed(p)
    BY <1>4
  <2>4. (e.kind = "receiver" /\ e.maturity \in p.listed) \/ e.kind = "tokenPayer"
    BY DEF Redeeming
  <2>5. p \in Portfolio
    BY PositionsFacts
  <2> HIDE DEF u, v, e, p
  <2>6. v.ok => PositionsOf(v.assets) \in Redeemed(p)
    <3> SUFFICES ASSUME v.ok PROVE PositionsOf(v.assets) \in Redeemed(p)
      OBVIOUS
    <3>1. u.ok /\ CanUpsert(u.assets, e, flag) /\ v.assets = UpsertAsset(u.assets, e)
      BY <2>2, PassOk
    <3>2. u.assets \in Arrays
      BY <2>2
    <3> QED BY <2>2, <2>3, <2>4, <2>5, <3>1, <3>2, RedeemsOn
  <2> QED BY <2>1, <2>6 DEF v
<1>5. \A k \in 0 .. n : k \in G
  <2> HIDE DEF G
  <2> QED BY <1>3, <1>4, IntervalInduction
<1> DEFINE r == g[n]
<1>6. n \in 0 .. n
  OBVIOUS
<1>7. r \in [assets : Arrays, ok : BOOLEAN] /\ r.ok /\ (r.ok => PositionsOf(r.assets) \in Redeemed(p))
  BY <1>2, <1>5, <1>6
<1> HIDE DEF r
<1>8. r.assets \in Arrays
  BY <1>7
<1> QED BY <1>2, <1>7, <1>8 DEF r

LEMMA EntriesFinite ==
  ASSUME NEW s \in Arrays
  PROVE  IsFiniteSet(ToSet(s))
<1>1. Len(s) \in Nat /\ DOMAIN s = 1 .. Len(s)
  BY ArrayFacts
<1>2. IsFiniteSet(1 .. Len(s))
  BY <1>1, FS_Interval
<1>3. s \in [1 .. Len(s) -> ToSet(s)] /\ \A e \in ToSet(s) : \E i \in 1 .. Len(s) : s[i] = e
  BY <1>1, ArrayFacts DEF ToSet
<1>4. s \in Surjection(1 .. Len(s), ToSet(s))
  BY <1>3 DEF Surjection
<1> QED BY <1>2, <1>4, FS_Surjection

LEMMA RedeemStep ==
  ASSUME IInv, NEW a \in Account, NEW count \in Nat, NEW n \in Amount, NEW f \in [1 .. count -> Amount],
         RaiseViaLiquidityToken(a, count, n, f)
  PROVE  IInv' /\ Book!Call
<1> DEFINE s == Settled(accountAssets[a], now)
           Held == {e \in ToSet(s) : e.kind = "token"}
           changes(tokens) ==
             [x \in 1 .. 2 * count |->
                LET j == (x + 1) \div 2
                IN  IF x % 2 = 1 THEN Asset(tokens[j].maturity, "receiver", f[j])
                    ELSE Asset(tokens[j].maturity, "tokenPayer", IF j < count THEN tokens[j].notional ELSE n)]
<1>1. accountAssets \in [Account -> Arrays] /\ now \in Nat /\ n \in Nat
  BY NowNat, PortfoliosAssumption
<1>2. s \in Arrays /\ PositionsOf(s) = Unmatured(PositionsOf(accountAssets[a]), now)
  BY <1>1, SettledEffect, SettledPositions
<1>3. PICK tokens \in SetToSeqs(Held) :
         /\ count <= Len(tokens)
         /\ UpsertAll(s, changes(tokens), TRUE).ok
         /\ Commit([accountAssets EXCEPT ![a] = UpsertAll(s, changes(tokens), TRUE).assets])
  BY DEF RaiseViaLiquidityToken
<1> DEFINE es == changes(tokens)
           after == UpsertAll(s, es, TRUE)
           assets == after.assets
           new == [accountAssets EXCEPT ![a] = assets]
<1>4. after.ok /\ Commit(new)
  BY <1>3
<1> HIDE DEF s
<1>5. \A j \in 1 .. count : /\ tokens[j].maturity \in Maturity /\ tokens[j].notional \in Nat
                            /\ tokens[j].maturity \in PositionsOf(s).listed
  <2>1. \A e \in Held : /\ e.maturity \in Maturity /\ e.notional \in Nat
                        /\ e.maturity \in PositionsOf(s).listed
    BY <1>2, ArrayFacts, PositionsFacts DEF Entry
  <2>2. IsFiniteSet(Held)
    BY <1>2, EntriesFinite, FS_Subset
  <2>3. Cardinality(Held) \in Nat
    BY <2>2, FS_CardinalityType
  <2> DEFINE size == Cardinality(Held)
  <2>4. tokens \in [1 .. size -> Held]
    BY DEF SetToSeqs
  <2> HIDE DEF size, Held
  <2>5. Len(tokens) = size
    BY <2>3, <2>4, LengthOfFunction DEF size
  <2>6. \A j \in 1 .. count : j \in 1 .. size
    BY <1>3, <2>3, <2>5 DEF size
  <2> QED BY <2>1, <2>4, <2>6
<1>6. \A j \in 1 .. count : f[j] \in Nat
  BY PortfoliosAssumption
<1>7. ASSUME NEW x \in 1 .. 2 * count
      PROVE  /\ es[x] \in Argument
             /\ \/ es[x].kind = "receiver" /\ es[x].maturity \in PositionsOf(s).listed
                \/ es[x].kind = "tokenPayer"
  <2> DEFINE j == (x + 1) \div 2
  <2>1. j \in 1 .. count
    OBVIOUS
  <2>2. es[x] = IF x % 2 = 1 THEN Asset(tokens[j].maturity, "receiver", f[j])
                ELSE Asset(tokens[j].maturity, "tokenPayer", IF j < count THEN tokens[j].notional ELSE n)
    OBVIOUS
  <2> HIDE DEF j, es
  <2>3. /\ tokens[j].maturity \in Maturity /\ tokens[j].notional \in Nat
        /\ tokens[j].maturity \in PositionsOf(s).listed /\ f[j] \in Nat
    BY <1>5, <1>6, <2>1
  <2> QED BY <1>1, <2>2, <2>3 DEF Asset, Argument, Kind
<1> DEFINE size == 2 * count
<1>8. /\ size \in Nat /\ es \in [1 .. size -> Argument]
      /\ \A x \in 1 .. size : es[x] \in Argument
  BY <1>7
<1>15. Redeeming(PositionsOf(s), es, size)
  BY <1>7 DEF Redeeming
<1> HIDE DEF size, es, Held
<1>16. Len(es) = size
  BY <1>8, LengthOfFunction
<1> DEFINE flag == TRUE
<1>17. flag \in BOOLEAN /\ UpsertAll(s, es, flag).ok
  BY <1>4
<1> HIDE DEF flag
<1>9. assets \in Arrays /\ PositionsOf(assets) \in Redeemed(PositionsOf(s))
  <2>1. /\ UpsertAll(s, es, flag).assets \in Arrays
        /\ PositionsOf(UpsertAll(s, es, flag).assets) \in Redeemed(PositionsOf(s))
    BY <1>2, <1>8, <1>15, <1>16, <1>17, AllRedeemed
  <2> QED BY <2>1 DEF flag
<1> HIDE DEF assets
<1>10. new \in [Account -> Arrays] /\ new[a] = assets /\ \A c \in Account : c # a => new[c] = accountAssets[c]
  BY <1>1, <1>9
<1> HIDE DEF new
<1>11. accountAssets' = new
  BY <1>4 DEF Commit
<1>12. IInv'
  BY <1>4, <1>10, CommitKept
<1>13. Book!RaiseFromTokens(a)
  <2> DEFINE p == PositionsOf(s)
             q == PositionsOf(assets)
  <2>1. /\ q.listed \subseteq p.listed
        /\ \A m \in Maturity :
             /\ 0 <= q.token[m] /\ q.token[m] <= p.token[m]
             /\ m \notin q.listed => q.token[m] = 0
             /\ IF m \in p.listed THEN q.fCash[m] >= p.fCash[m] ELSE q.fCash[m] = p.fCash[m]
    BY <1>9 DEF Redeemed
  <2> HIDE DEF p, q
  <2>2. Book!Unmatured(Read(accountAssets)[a], now) = p
    BY <1>2, SameOperators DEF Read, p
  <2>3. Read(accountAssets')[a] = q
    BY <1>10, <1>11 DEF Read, q
  <2>4. Book!RaiseFromTokens(a)
          <=> LET u == Book!Unmatured(Read(accountAssets)[a], now)
                  v == Read(accountAssets')[a]
              IN  /\ v.listed \subseteq u.listed
                  /\ \A m \in Maturity :
                       /\ 0 <= v.token[m] /\ v.token[m] <= u.token[m]
                       /\ m \notin v.listed => v.token[m] = 0
                       /\ IF m \in u.listed THEN v.fCash[m] >= u.fCash[m] ELSE v.fCash[m] = u.fCash[m]
    BY DEF Book!RaiseFromTokens, Read
  <2> QED BY <2>1, <2>2, <2>3, <2>4
<1>14. \A c \in Account : c # a => accountAssets'[c] = accountAssets[c]
  BY <1>10, <1>11
<1> QED BY <1>1, <1>12, <1>13, <1>14, CallOfOne

-----------------------------------------------------------------------------
(* Liquidation: receivers sold                                             *)

LEMMA NoTokenListed ==
  ASSUME NEW s \in Arrays, \A i \in DOMAIN s : s[i].kind # "token"
  PROVE  PositionsOf(s).listed = {}
<1>1. \A m \in Maturity : Matching(s, m, {"token"}) = {}
  BY DEF Matching
<1> QED BY <1>1 DEF PositionsOf

(* The two portfolios a sale leaves, as RaiseFromReceivers writes them. *)
LEMMA SoldPositions ==
  ASSUME NEW p \in Portfolio, NEW q \in Portfolio, q.token = p.token, q.listed = p.listed
  PROVE  [p EXCEPT !.fCash = [m \in Maturity |-> @[m] - (p.fCash[m] - q.fCash[m])]] = q
<1>1. \A m \in Maturity : p.fCash[m] \in Int /\ q.fCash[m] \in Int
  BY DEF Portfolio
<1> DEFINE fCash == [m \in Maturity |-> p.fCash[m] - (p.fCash[m] - q.fCash[m])]
<1>2. \A m \in Maturity : fCash[m] = q.fCash[m]
  <2> TAKE m \in Maturity
  <2>1. fCash[m] = p.fCash[m] - (p.fCash[m] - q.fCash[m])
    OBVIOUS
  <2>2. p.fCash[m] \in Int /\ q.fCash[m] \in Int
    BY <1>1
  <2> HIDE DEF fCash
  <2> QED BY <2>1, <2>2
<1>3. fCash = q.fCash
  BY <1>2 DEF Portfolio
<1>4. [p EXCEPT !.fCash = fCash] = [fCash |-> fCash, token |-> p.token, listed |-> p.listed]
  BY DEF Portfolio
<1>5. q = [fCash |-> q.fCash, token |-> q.token, listed |-> q.listed]
  BY DEF Portfolio
<1> QED BY <1>3, <1>4, <1>5

LEMMA BoughtPositions ==
  ASSUME NEW l \in Portfolio, NEW r \in Portfolio, r.token = l.token, r.listed = l.listed,
         NEW p \in Portfolio, NEW q \in Portfolio,
         \A m \in Maturity : r.fCash[m] + q.fCash[m] = l.fCash[m] + p.fCash[m]
  PROVE  [l EXCEPT !.fCash = [m \in Maturity |-> @[m] + (p.fCash[m] - q.fCash[m])]] = r
<1>1. \A m \in Maturity : /\ p.fCash[m] \in Int /\ q.fCash[m] \in Int
                          /\ l.fCash[m] \in Int /\ r.fCash[m] \in Int
  BY DEF Portfolio
<1> DEFINE fCash == [m \in Maturity |-> l.fCash[m] + (p.fCash[m] - q.fCash[m])]
<1>2. \A m \in Maturity : fCash[m] = r.fCash[m]
  <2> TAKE m \in Maturity
  <2>1. fCash[m] = l.fCash[m] + (p.fCash[m] - q.fCash[m])
    OBVIOUS
  <2>2. /\ p.fCash[m] \in Int /\ q.fCash[m] \in Int
        /\ l.fCash[m] \in Int /\ r.fCash[m] \in Int
    BY <1>1
  <2>3. r.fCash[m] + q.fCash[m] = l.fCash[m] + p.fCash[m]
    OBVIOUS
  <2> HIDE DEF fCash
  <2> QED BY <2>1, <2>2, <2>3
<1>3. fCash = r.fCash
  BY <1>2 DEF Portfolio
<1>4. [l EXCEPT !.fCash = fCash] = [fCash |-> fCash, token |-> l.token, listed |-> l.listed]
  BY DEF Portfolio
<1>5. r = [fCash |-> r.fCash, token |-> r.token, listed |-> r.listed]
  BY DEF Portfolio
<1> QED BY <1>3, <1>4, <1>5

LEMMA SoldStep ==
  ASSUME IInv, NEW a \in Account, NEW b \in Account, NEW count \in Nat, NEW x \in Amount,
         RaiseViaCashReceiver(a, b, count, x)
  PROVE  IInv' /\ Book!Call
<1> DEFINE book == Check(accountAssets, a)
           after == SellReceivers(book, a, b, count, x)
           new == after.book
           p == PositionsOf(book[a])
           q == PositionsOf(new[a])
           l == PositionsOf(book[b])
           r == PositionsOf(new[b])
           sold(m) == p.fCash[m] - q.fCash[m]
<1>1. accountAssets \in [Account -> Arrays] /\ now \in Nat /\ x \in Nat
  BY NowNat, PortfoliosAssumption
<1>2. (\A i \in DOMAIN book[a] : book[a][i].kind # "token") /\ Commit(new)
  BY DEF RaiseViaCashReceiver
<1>3. /\ book \in [Account -> Arrays] /\ \A c \in Account : c # a => book[c] = accountAssets[c]
      /\ Read(book) = [Read(accountAssets) EXCEPT ![a] = Unmatured(@, now)]
  BY <1>1, CheckRead
<1> HIDE DEF book
<1>4. after \in Selling(book, a, b, 0)
  BY <1>1, <1>3, SoldEffect
<1> HIDE DEF after
<1>5. /\ new \in [Account -> Arrays]
      /\ \A c \in Account \ {a, b} : new[c] = book[c]
      /\ q.token = p.token /\ q.listed = p.listed
      /\ r.token = l.token /\ r.listed = l.listed
      /\ \A m \in Maturity :
           /\ q.fCash[m] = p.fCash[m] \/ (q.fCash[m] >= 0 /\ q.fCash[m] <= p.fCash[m])
           /\ a = b => q.fCash[m] = p.fCash[m]
           /\ r.fCash[m] + q.fCash[m] = l.fCash[m] + p.fCash[m]
  BY <1>4 DEF Selling
<1>6. p.listed = {}
  BY <1>2, <1>3, NoTokenListed
<1>7. p \in Portfolio /\ q \in Portfolio /\ l \in Portfolio /\ r \in Portfolio
  BY <1>3, <1>5, PositionsFacts
<1> HIDE DEF new
<1>8. accountAssets' = new
  BY <1>2 DEF Commit
<1>9. IInv'
  BY <1>2, <1>5, CommitKept
<1>10. p = Unmatured(Read(accountAssets)[a], now)
  <2>1. Read(book)[a] = p
    BY DEF Read
  <2>2. Read(book)[a] = Unmatured(Read(accountAssets)[a], now)
    BY <1>3 DEF Read
  <2> QED BY <2>1, <2>2
<1>11. Read(accountAssets')[a] = q
  BY <1>8 DEF Read
<1>12. b # a => Read(accountAssets)[b] = l
  BY <1>3 DEF Read
<1>13. \A c \in Account : Read(new)[c] = PositionsOf(new[c])
  BY DEF Read
<1> HIDE DEF p, q, l, r
<1>14. \A m \in Maturity : sold(m) = 0 \/ sold(m) \in 1 .. p.fCash[m]
  <2> TAKE m \in Maturity
  <2>1. p.fCash[m] \in Int /\ q.fCash[m] \in Int
    BY <1>7 DEF Portfolio
  <2>2. q.fCash[m] = p.fCash[m] \/ (q.fCash[m] >= 0 /\ q.fCash[m] <= p.fCash[m])
    BY <1>5
  <2> QED BY <2>1, <2>2
<1> DEFINE left == [p EXCEPT !.fCash = [m \in Maturity |-> @[m] - sold(m)]]
           B == [Read(accountAssets) EXCEPT ![a] = left]
           target == [B EXCEPT ![b].fCash = [m \in Maturity |-> @[m] + sold(m)]]
<1>15. left = q
  BY <1>5, <1>7, SoldPositions
<1> HIDE DEF left
<1>16. /\ B[a] = q /\ (b # a => B[b] = l)
       /\ \A c \in Account : c # a => B[c] = Read(accountAssets)[c]
       /\ DOMAIN B = Account
  BY <1>12, <1>15 DEF Read
<1> HIDE DEF B
<1>17. [B[b] EXCEPT !.fCash = [m \in Maturity |-> @[m] + sold(m)]] = r
  <2>1. CASE a = b
    <3>1. r = q
      BY <2>1 DEF r, q
    <3>2. \A m \in Maturity : r.fCash[m] + q.fCash[m] = q.fCash[m] + p.fCash[m]
      BY <1>5, <1>7, <2>1, <3>1 DEF Portfolio
    <3>3. [q EXCEPT !.fCash = [m \in Maturity |-> @[m] + (p.fCash[m] - q.fCash[m])]] = r
      BY <1>7, <3>1, <3>2, BoughtPositions
    <3> QED BY <1>16, <2>1, <3>3
  <2>2. CASE a # b
    <3>1. \A m \in Maturity : r.fCash[m] + q.fCash[m] = l.fCash[m] + p.fCash[m]
      BY <1>5
    <3>2. [l EXCEPT !.fCash = [m \in Maturity |-> @[m] + (p.fCash[m] - q.fCash[m])]] = r
      BY <1>5, <1>7, <3>1, BoughtPositions
    <3> QED BY <1>16, <2>2, <3>2
  <2> QED BY <2>1, <2>2
<1>18. target = [c \in Account |-> IF c = b THEN r ELSE B[c]]
  BY <1>16, <1>17
<1> HIDE DEF target
<1>19. Read(new) = target
  <2>1. \A c \in Account : Read(new)[c] = target[c]
    <3> TAKE c \in Account
    <3>1. CASE c = b
      BY <1>13, <1>18, <3>1 DEF r
    <3>2. CASE c # b /\ c = a
      BY <1>13, <1>16, <1>18, <3>2 DEF q
    <3>3. CASE c # b /\ c # a
      <4>1. new[c] = accountAssets[c]
        BY <1>3, <1>5, <3>3
      <4> QED BY <1>13, <1>16, <1>18, <3>3, <4>1 DEF Read
    <3> QED BY <3>1, <3>2, <3>3
  <2> QED BY <1>18, <2>1 DEF Read
<1>20. Book!RaiseFromReceivers(a, b)
  <2>1. Book!RaiseFromReceivers(a, b)
          <=> LET u == Book!Unmatured(Read(accountAssets)[a], now)
                  lost(m) == u.fCash[m] - Read(accountAssets')[a].fCash[m]
              IN  /\ u.listed = {}
                  /\ \A m \in Maturity : lost(m) = 0 \/ lost(m) \in 1 .. u.fCash[m]
                  /\ Read(accountAssets')
                       = [[Read(accountAssets) EXCEPT ![a] = [u EXCEPT !.fCash = [m \in Maturity |-> @[m] - lost(m)]]]
                            EXCEPT ![b].fCash = [m \in Maturity |-> @[m] + lost(m)]]
    BY DEF Book!RaiseFromReceivers, Read
  <2>2. Book!Unmatured(Read(accountAssets)[a], now) = p
    BY <1>10, SameOperators
  <2>3. Read(accountAssets') = target
    BY <1>8, <1>19
  <2> QED BY <1>6, <1>11, <1>14, <2>1, <2>2, <2>3 DEF target, B, left
<1>21. \A c \in Account \ {a, b} : accountAssets'[c] = accountAssets[c]
  BY <1>3, <1>5, <1>8
<1> QED BY <1>1, <1>9, <1>20, <1>21, CallOfTwo

-----------------------------------------------------------------------------
(* The theorems                                                            *)

LEMMA TickStep ==
  ASSUME IInv, Tick
  PROVE  IInv' /\ Book!Elapse
<1>1. IInv'
  BY PortfoliosAssumption DEF IInv, Tick
<1>2. Book!Elapse
  BY DEF Tick, Book!Elapse
<1> QED BY <1>1, <1>2

LEMMA InitStep ==
  ASSUME Init
  PROVE  IInv /\ Book!BookInit
<1>1. <<>> \in Arrays
  BY DEF Arrays
<1>2. IInv
  BY <1>1, PortfoliosAssumption DEF IInv, Init
<1>3. \A m \in Maturity : \A kinds : Matching(<<>>, m, kinds) = {}
  BY DEF Matching
<1>4. PositionsOf(<<>>) = Book!EmptyPortfolio
  BY <1>3 DEF PositionsOf, PositionAt, Book!EmptyPortfolio
<1>5. Book!BookInit
  BY <1>4 DEF Init, Book!BookInit
<1> QED BY <1>2, <1>5

LEMMA BookStep ==
  ASSUME IInv, Next
  PROVE  IInv' /\ Book!BookNext
<1>1. CASE MarketNext
  <2>1. PICK a \in Account, m \in Maturity, checkFreeCollateral \in BOOLEAN :
          /\ now < m
          /\ \E es \in MarketChanges(m) : UpsertAccountAssets(a, es, checkFreeCollateral)
    BY <1>1 DEF MarketNext
  <2>2. IInv' /\ Book!Call
    BY <2>1, MarketStep
  <2>3. UNCHANGED now
    BY <2>1 DEF UpsertAccountAssets, Commit
  <2> QED BY <2>2, <2>3 DEF Book!BookNext
<1>2. CASE TransferNext
  <2>1. PICK a \in Account, b \in Account, m \in Maturity, n \in Amount :
          \/ \E kind \in {"receiver", "token"} : TransferAccountAsset(a, b, m, kind, n)
          \/ MintfCashPair(a, b, m, n)
    BY <1>2 DEF TransferNext
  <2>2. IInv' /\ Book!Call
    BY <2>1, TransferStep, MintStep
  <2>3. UNCHANGED now
    BY <2>1 DEF TransferAccountAsset, MintfCashPair, Commit
  <2> QED BY <2>2, <2>3 DEF Book!BookNext
<1>3. CASE \E a \in Account : SettleMaturedAssets(a)
  <2>1. IInv' /\ Book!Call
    BY <1>3, SettleStep
  <2>2. UNCHANGED now
    BY <1>3 DEF SettleMaturedAssets, Commit
  <2> QED BY <2>1, <2>2 DEF Book!BookNext
<1>4. CASE LiquidateNext
  <2>5. PICK a \in Account :
          \E count \in 1 .. Len(accountAssets[a]), n \in Amount :
            \/ \E f \in [1 .. count -> Amount] : RaiseViaLiquidityToken(a, count, n, f)
            \/ \E liquidator \in Account : RaiseViaCashReceiver(a, liquidator, count, n)
    BY <1>4 DEF LiquidateNext
  <2>1. PICK count \in 1 .. Len(accountAssets[a]), n \in Amount :
          \/ \E f \in [1 .. count -> Amount] : RaiseViaLiquidityToken(a, count, n, f)
          \/ \E liquidator \in Account : RaiseViaCashReceiver(a, liquidator, count, n)
    BY <2>5
  <2>2. count \in Nat
    BY NowNat, ArrayFacts
  <2>3. IInv' /\ Book!Call
    BY <2>1, <2>2, RedeemStep, SoldStep
  <2>4. UNCHANGED now
    BY <2>1 DEF RaiseViaLiquidityToken, RaiseViaCashReceiver, Commit
  <2> QED BY <2>3, <2>4 DEF Book!BookNext
<1>5. CASE Tick
  BY <1>5, TickStep DEF Book!BookNext
<1> QED BY <1>1, <1>2, <1>3, <1>4, <1>5 DEF Next

LEMMA StutterStep ==
  ASSUME IInv, UNCHANGED vars
  PROVE  IInv' /\ UNCHANGED Book!bookVars
<1>1. IInv'
  BY DEF IInv, vars
<1>2. UNCHANGED Book!bookVars
  BY DEF vars, Book!bookVars
<1> QED BY <1>1, <1>2

(* Every array holds entries of the three kinds with a natural notional, no
   two of them in one slot, whatever calls of the market, transfers, settlements
   and liquidations run: the inductive invariant. *)
THEOREM Invariance == Spec => []IInv
<1>1. IInv /\ [Next]_vars => IInv'
  BY BookStep, StutterStep
<1> QED BY <1>1, InitStep, PTL DEF Spec

(* The entries of _accountAssets keep their types: no upsert, removal or sale
   leaves a negative notional, or the marker of a token payer, in an array. *)
THEOREM TypeCorrect == Spec => []TypeOK
<1>1. IInv => TypeOK
  <2> SUFFICES ASSUME IInv, NEW a \in Account
               PROVE  accountAssets[a] \in Seq([maturity : Maturity, kind : Kind, notional : 0 .. MaxNotional])
    BY DEF IInv, TypeOK
  <2> DEFINE s == accountAssets[a]
             n == Len(s)
             T == [maturity : Maturity, kind : Kind, notional : 0 .. MaxNotional]
  <2>1. s \in Arrays /\ \A i \in 1 .. n : s[i].notional <= MaxNotional
    BY DEF IInv
  <2>2. n \in Nat /\ s \in [1 .. n -> Entry]
    BY <2>1, ArrayFacts
  <2>3. \A i \in 1 .. n : s[i] \in T
    BY <2>1, <2>2, PortfoliosAssumption DEF Entry
  <2> HIDE DEF s, n, T
  <2>4. s \in [1 .. n -> T]
    BY <2>2, <2>3
  <2>5. s \in Seq(T)
    BY <2>2, <2>4, SeqDef
  <2> QED BY <2>5 DEF s, T
<1> QED BY <1>1, Invariance, PTL

(* At most one liquidity token and one fCash position per maturity: the search
   that stops at its first match, the netting of payers against receivers, the
   removal that moves the last entry and the loops that settle or sell while
   the array shrinks never leave two. *)
THEOREM OneEntryAlways == Spec => []OneEntryPerPosition
<1>1. IInv => OneEntryPerPosition
  <2> SUFFICES ASSUME IInv, NEW a \in Account,
                      NEW i \in DOMAIN accountAssets[a], NEW j \in DOMAIN accountAssets[a],
                      i # j, accountAssets[a][i].maturity = accountAssets[a][j].maturity
               PROVE  (accountAssets[a][i].kind = "token") # (accountAssets[a][j].kind = "token")
    BY DEF OneEntryPerPosition
  <2>1. ~SameSlot(accountAssets[a][i], accountAssets[a][j])
    BY ArrayFacts DEF IInv
  <2>2. accountAssets[a][i].kind \in Kind /\ accountAssets[a][j].kind \in Kind
    BY ArrayFacts DEF IInv, Entry
  <2>3. CASE accountAssets[a][i].kind = "token"
    BY <2>1, <2>3 DEF SameSlot, IsToken
  <2>4. CASE accountAssets[a][i].kind # "token"
    BY <2>1, <2>2, <2>4 DEF SameSlot, IsToken, Kind
  <2> QED BY <2>3, <2>4
<1> QED BY <1>1, Invariance, PTL

(* The arrays of Portfolios.sol keep the book of positions that the rest of the
   system is written over: every call moves the positions of one account or two
   as PositionBook says, whatever the order of the entries. *)
THEOREM ArraysImplementBook == Spec => ImplementsBook
<1>1. IInv /\ [Next]_vars => [Book!BookNext]_(Book!bookVars)
  BY BookStep, StutterStep
<1> QED BY <1>1, InitStep, Invariance, PTL DEF Spec, ImplementsBook, Book!BookSpec
=============================================================================
