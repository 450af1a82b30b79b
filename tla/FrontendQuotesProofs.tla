------------------------- MODULE FrontendQuotesProofs --------------------------
(***************************************************************************)
(* Proofs about FrontendQuotes, for any symbols, spellings, holdings,      *)
(* stamps and bounds: types, the flags of the requests, the order of the   *)
(* authority, the agreement of the stores and of the spellings.            *)
(*                                                                         *)
(* Each operation on the memory of the stores has a lemma that says what   *)
(* it leaves alone and what it writes; the actions only combine them.      *)
(***************************************************************************)
EXTENDS FrontendQuotes, FiniteSetTheorems, WellFoundedInduction, TLAPS

--------------------------------------------------------------------------------
(* The operations on the memory of the stores keep its type. *)

Entries == [v : 0..MaxTrades, ts : 0..MaxTime, seq : Nat, src : Sources]
Rows == [v : 0..MaxTrades, src : Sources, at : 0..MaxTime]
Shown == [v : 0..MaxTrades, src : Sources]
Prices == [Keys -> 0..MaxTrades]
Batches == [Keys -> Quotes]
Memory == [auth : [Keys -> Entries], seqs : [Keys -> Nat], store : [Keys -> Rows],
           marks : [Held -> 0..MaxTrades], watch : [Keys -> Shown]]

Priced(quotes) == \A k \in Keys : quotes[k].v \in 0..MaxTrades
Uniform(new) == \A k \in Keys : \A a \in Aliases[k] : new[a] = new[k]

\* The rows of an instrument are alike under all its spellings: in the market
\* store wholly, since their time decides which of them a poll may write.
StoreAgrees(m) == \A k \in Keys : \A a \in Aliases[k] : m.store[a] = m.store[k]
WatchAgrees(m) == \A k \in Keys : \A a \in Aliases[k] : m.watch[a].v = m.watch[k].v

\* An alias is a spelling of the same instrument.
LEMMA AliasClass ==
    ASSUME NEW k \in Keys, NEW a \in Aliases[k]
    PROVE  a \in Keys /\ a \in Aliases[a] /\ k \in Aliases[a]
           /\ Aliases[a] = Aliases[k] /\ Norm[a] = Norm[k] /\ Norm[k] \in Keys
BY QuoteAssumption

LEMMA BatchPriced == ASSUME NEW quotes \in Batches PROVE Priced(quotes)
BY DEF Priced, Batches, Quotes

\* What is written under a key is the price of a quote for the instrument, the
\* same under all its spellings.
LEMMA SpreadPrices ==
    ASSUME NEW quotes, Priced(quotes)
    PROVE  /\ Spread(quotes) \in Prices /\ Uniform(Spread(quotes))
           /\ \A k \in Sent(quotes) : Spread(quotes)[k] # 0
           /\ \A a \in Keys : Spread(quotes)[a] # 0 =>
                \E k \in Sent(quotes) : k \in Aliases[a] /\ Spread(quotes)[a] = quotes[k].v
<1> DEFINE from(a) == Sent(quotes) \cap Aliases[a]
           one(a) == CHOOSE k \in from(a) : TRUE
<1>1. Sent(quotes) \subseteq Keys /\ \A k \in Sent(quotes) : quotes[k].v \in 1..MaxTrades
  <2>1. MaxTrades \in Nat
      BY QuoteAssumption
  <2>2. \A k \in Keys : quotes[k].v \in 0..MaxTrades
      BY DEF Priced
  <2> QED
      BY <2>1, <2>2 DEF Sent
<1>2. \A a \in Keys : from(a) # {} => one(a) \in from(a)
    OBVIOUS
<1>3. Spread(quotes) = [a \in Keys |-> IF from(a) = {} THEN 0 ELSE quotes[one(a)].v]
    BY DEF Spread
<1>4. \A k \in Keys : \A a \in Aliases[k] : a \in Keys /\ from(a) = from(k)
    BY AliasClass
<1>5. \A k \in Keys : \A a \in Aliases[k] : a \in Keys /\ one(a) = one(k)
    BY <1>4
<1>6. \A k \in Sent(quotes) : k \in from(k)
    BY <1>1, QuoteAssumption
<1>7. MaxTrades \in Nat
    BY QuoteAssumption
<1> HIDE DEF one
<1>8. \A a \in Keys : from(a) # {} => quotes[one(a)].v \in 1..MaxTrades
    BY <1>1, <1>2
<1>9. Uniform(Spread(quotes))
    BY <1>3, <1>4, <1>5 DEF Uniform
<1>10. Spread(quotes) \in Prices
    BY <1>3, <1>7, <1>8 DEF Prices
<1>11. \A k \in Sent(quotes) : Spread(quotes)[k] # 0
    BY <1>1, <1>3, <1>6, <1>8
<1>12. \A a \in Keys : Spread(quotes)[a] # 0 =>
          \E k \in Sent(quotes) : k \in Aliases[a] /\ Spread(quotes)[a] = quotes[k].v
    BY <1>2, <1>3
<1> QED
    BY <1>9, <1>10, <1>11, <1>12

\* A row as it is written is a row.
LEMMA RowWritten ==
    ASSUME NEW v \in 0..MaxTrades, NEW src \in Sources, now \in 0..MaxTime
    PROVE  Row(v, src) \in Rows /\ Row(v, src).v = v
BY QuoteAssumption DEF Row, Rows

\* What writing rows of the market store does, and does not.
LEMMA RowsWritten ==
    ASSUME NEW m \in Memory, NEW new \in Prices, NEW rows \in SUBSET Keys, NEW src \in Sources,
           now \in 0..MaxTime
    PROVE  LET t == Written(m, new, rows, src)
           IN  /\ t \in Memory /\ t.auth = m.auth /\ t.seqs = m.seqs
               /\ t.marks = m.marks /\ t.watch = m.watch
               /\ \A a \in Keys : t.store[a] = IF a \in rows THEN Row(new[a], src) ELSE m.store[a]
<1>1. \A a \in Keys : new[a] \in 0..MaxTrades /\ Row(new[a], src) \in Rows
    BY RowWritten DEF Prices
<1> DEFINE store == [a \in Keys |-> IF a \in rows THEN Row(new[a], src) ELSE m.store[a]]
<1>2. store \in [Keys -> Rows]
    BY <1>1 DEF Memory
<1>3. Written(m, new, rows, src) = [m EXCEPT !.store = store]
    BY DEF Written
<1> HIDE DEF store
<1>4. [m EXCEPT !.store = store] \in Memory
    BY <1>2 DEF Memory
<1>5. /\ [m EXCEPT !.store = store].auth = m.auth /\ [m EXCEPT !.store = store].seqs = m.seqs
      /\ [m EXCEPT !.store = store].marks = m.marks /\ [m EXCEPT !.store = store].watch = m.watch
      /\ [m EXCEPT !.store = store].store = store
    BY DEF Memory
<1> QED
    BY <1>3, <1>4, <1>5 DEF store

\* The spellings of an instrument may be written, or not, all together.
LEMMA FreeTogether ==
    ASSUME NEW m, NEW new \in Prices, NEW src, Uniform(new), StoreAgrees(m),
           NEW k \in Keys, NEW a \in Aliases[k]
    PROVE  a \in Free(m, new, src) <=> k \in Free(m, new, src)
<1>1. a \in Keys /\ new[a] = new[k] /\ m.store[a] = m.store[k]
    BY AliasClass DEF Uniform, StoreAgrees
<1> QED
    BY <1>1 DEF Free

\* Rows written alike stay alike.
LEMMA StoreKept ==
    ASSUME NEW m \in Memory, NEW new \in Prices, NEW rows \in SUBSET Keys, NEW src \in Sources,
           now \in 0..MaxTime, Uniform(new), StoreAgrees(m),
           \A k \in Keys : \A a \in Aliases[k] : a \in rows <=> k \in rows
    PROVE  StoreAgrees(Written(m, new, rows, src))
<1> DEFINE t == Written(m, new, rows, src)
<1>1. \A a \in Keys : t.store[a] = IF a \in rows THEN Row(new[a], src) ELSE m.store[a]
    BY RowsWritten
<1>2. \A k \in Keys : \A a \in Aliases[k] :
         a \in Keys /\ new[a] = new[k] /\ m.store[a] = m.store[k]
    BY AliasClass DEF Uniform, StoreAgrees
<1> HIDE DEF t
<1>3. \A k \in Keys : \A a \in Aliases[k] : t.store[a] = t.store[k]
    BY <1>1, <1>2
<1> QED
    BY <1>3 DEF StoreAgrees, t

\* The market store, quote by quote. Ticks are never held back.
LEMMA UpdateQuoteSound ==
    ASSUME NEW m \in Memory, NEW quotes, Priced(quotes), NEW src \in Sources, now \in 0..MaxTime
    PROVE  LET t == updateQuote(m, quotes, src)
               new == Spread(quotes)
           IN  /\ t \in Memory /\ t.auth = m.auth /\ t.seqs = m.seqs
               /\ t.marks = m.marks /\ t.watch = m.watch
               /\ StoreAgrees(m) => StoreAgrees(t)
               /\ \A a \in Keys : t.store[a].v \in {m.store[a].v, new[a]}
               /\ \A a \in Keys : new[a] = 0 => t.store[a] = m.store[a]
               /\ \A a \in Keys : src = "live" /\ new[a] # 0 => t.store[a].v = new[a]
<1> DEFINE new == Spread(quotes)
           free == Free(m, new, src)
           rows == {a \in free : \E b \in free \cap Aliases[a] : m.store[b].v # new[b]}
           t == Written(m, new, rows, src)
<1>1. new \in Prices /\ Uniform(new)
    BY SpreadPrices
<1>2. t = updateQuote(m, quotes, src)
    BY DEF updateQuote
<1>3. free \subseteq Keys /\ \A a \in free : new[a] # 0
    BY DEF Free
<1>4. \A a \in Keys : src = "live" /\ new[a] # 0 => a \in free
    BY DEF Free, Protected
<1>5. \A k \in Keys : k \in Aliases[k]
    BY QuoteAssumption
<1>6. StoreAgrees(m) => \A k \in Keys : \A a \in Aliases[k] : a \in rows <=> k \in rows
  <2> SUFFICES ASSUME StoreAgrees(m), NEW k \in Keys, NEW a \in Aliases[k]
               PROVE  a \in rows <=> k \in rows
      OBVIOUS
  <2>1. a \in free <=> k \in free
      BY <1>1, FreeTogether
  <2>2. Aliases[a] = Aliases[k]
      BY AliasClass
  <2> QED
      BY <2>1, <2>2
<1> HIDE DEF new, free
<1>7. rows \in SUBSET Keys
    BY <1>3
<1>8. \A a \in Keys : /\ a \in rows => a \in free
                      /\ a \in free /\ a \notin rows => m.store[a].v = new[a]
    BY <1>5
<1> HIDE DEF rows
<1>9. /\ t \in Memory /\ t.auth = m.auth /\ t.seqs = m.seqs
      /\ t.marks = m.marks /\ t.watch = m.watch
      /\ \A a \in Keys : t.store[a] = IF a \in rows THEN Row(new[a], src) ELSE m.store[a]
    BY <1>1, <1>7, RowsWritten
<1>10. StoreAgrees(m) => StoreAgrees(t)
    BY <1>1, <1>6, <1>7, StoreKept
<1>11. \A a \in Keys : Row(new[a], src).v = new[a]
    BY <1>1, RowWritten DEF Prices
<1> HIDE DEF t
<1>12. \A a \in Keys : /\ t.store[a].v \in {m.store[a].v, new[a]}
                       /\ new[a] = 0 => t.store[a] = m.store[a]
                       /\ src = "live" /\ new[a] # 0 => t.store[a].v = new[a]
    BY <1>3, <1>4, <1>8, <1>9, <1>11
<1> QED
    BY <1>2, <1>9, <1>10, <1>12 DEF new

\* The market store, a batch at once.
LEMMA BatchSound ==
    ASSUME NEW m \in Memory, NEW quotes, Priced(quotes), NEW src \in Sources, now \in 0..MaxTime
    PROVE  LET t == batchUpdateQuotes(m, quotes, src)
           IN  /\ t \in Memory /\ t.auth = m.auth /\ t.seqs = m.seqs
               /\ t.marks = m.marks /\ t.watch = m.watch
               /\ StoreAgrees(m) => StoreAgrees(t)
               /\ \A a \in Keys : src = "eod" /\ Spread(quotes)[a] # 0
                                    => t.store[a].v = Spread(quotes)[a]
<1> DEFINE new == Spread(quotes)
           free == Free(m, new, src)
           rows == IF \E a \in free : m.store[a].v # new[a] THEN free ELSE {}
           t == Written(m, new, rows, src)
<1>1. new \in Prices /\ Uniform(new)
    BY SpreadPrices
<1>2. t = batchUpdateQuotes(m, quotes, src)
    BY DEF batchUpdateQuotes
<1>3. free \in SUBSET Keys
    BY DEF Free
<1>4. StoreAgrees(m) => \A k \in Keys : \A a \in Aliases[k] : a \in free <=> k \in free
    BY <1>1, FreeTogether
<1>4a. \A a \in Keys : src = "eod" /\ new[a] # 0 => a \in free
    BY DEF Free, Protected
<1>4b. new = Spread(quotes)
    OBVIOUS
<1> HIDE DEF new, free
<1>5. /\ rows \in SUBSET Keys
      /\ StoreAgrees(m) => \A k \in Keys : \A a \in Aliases[k] : a \in rows <=> k \in rows
    BY <1>3, <1>4
<1>5a. \A a \in Keys : a \in free /\ a \notin rows => m.store[a].v = new[a]
    OBVIOUS
<1> HIDE DEF rows
<1>6. /\ t \in Memory /\ t.auth = m.auth /\ t.seqs = m.seqs
      /\ t.marks = m.marks /\ t.watch = m.watch
      /\ \A a \in Keys : t.store[a] = IF a \in rows THEN Row(new[a], src) ELSE m.store[a]
    BY <1>1, <1>5, RowsWritten
<1>7. StoreAgrees(m) => StoreAgrees(t)
    BY <1>1, <1>5, StoreKept
<1>8. \A a \in Keys : Row(new[a], src).v = new[a]
    BY <1>1, RowWritten DEF Prices
<1>9. \A a \in Keys : src = "eod" /\ new[a] # 0 => t.store[a].v = new[a]
    BY <1>4a, <1>5a, <1>6, <1>8
<1> QED
    BY <1>2, <1>4b, <1>6, <1>7, <1>9

\* The holdings take the price of a quote under a key of theirs.
LEMMA MarksSound ==
    ASSUME NEW m \in Memory, NEW quotes, Priced(quotes)
    PROVE  LET t == applyLiveQuotes(m, quotes)
           IN  /\ t \in Memory /\ t.auth = m.auth /\ t.seqs = m.seqs
               /\ t.store = m.store /\ t.watch = m.watch
               /\ \A h \in Held :
                    \/ t.marks[h] = m.marks[h] /\ \A k \in Sent(quotes) : Norm[k] # h
                    \/ \E k \in Sent(quotes) : Norm[k] = h /\ t.marks[h] = quotes[k].v
<1> DEFINE from(h) == {k \in Sent(quotes) : Norm[k] = h}
           one(h) == CHOOSE k \in from(h) : TRUE
           marks == [h \in Held |-> IF from(h) = {} THEN m.marks[h] ELSE quotes[one(h)].v]
<1>1. applyLiveQuotes(m, quotes) = [m EXCEPT !.marks = marks]
    BY DEF applyLiveQuotes, Memory
<1>2. \A h \in Held : from(h) # {} => one(h) \in from(h)
    OBVIOUS
<1>3. \A k \in Sent(quotes) : quotes[k].v \in 0..MaxTrades
    BY DEF Sent, Priced
<1> HIDE DEF one
<1>4. \A h \in Held : \/ marks[h] = m.marks[h] /\ from(h) = {}
                      \/ \E k \in from(h) : marks[h] = quotes[k].v
    BY <1>2
<1>5. marks \in [Held -> 0..MaxTrades]
    BY <1>2, <1>3 DEF Memory
<1> HIDE DEF marks
<1>6. [m EXCEPT !.marks = marks] \in Memory
    BY <1>5 DEF Memory
<1>7. /\ [m EXCEPT !.marks = marks].auth = m.auth /\ [m EXCEPT !.marks = marks].seqs = m.seqs
      /\ [m EXCEPT !.marks = marks].store = m.store /\ [m EXCEPT !.marks = marks].watch = m.watch
      /\ [m EXCEPT !.marks = marks].marks = marks
    BY DEF Memory
<1>8. \A h \in Held :
         \/ marks[h] = m.marks[h] /\ \A k \in Sent(quotes) : Norm[k] # h
         \/ \E k \in Sent(quotes) : Norm[k] = h /\ marks[h] = quotes[k].v
    BY <1>4
<1> QED
    BY <1>1, <1>6, <1>7, <1>8

\* The watchlist takes the prices of a patch.
LEMMA SetPricesSound ==
    ASSUME NEW m \in Memory, NEW new \in Prices, NEW src \in Sources
    PROVE  LET t == setPrices(m, new, src)
           IN  /\ t \in Memory /\ t.auth = m.auth /\ t.seqs = m.seqs
               /\ t.store = m.store /\ t.marks = m.marks
               /\ \A k \in Keys : t.watch[k].v = IF new[k] = 0 THEN m.watch[k].v ELSE new[k]
<1> DEFINE watch == [k \in Keys |-> IF new[k] = 0 THEN m.watch[k] ELSE [v |-> new[k], src |-> src]]
<1>1. setPrices(m, new, src) = [m EXCEPT !.watch = watch]
    BY DEF setPrices
<1>2. watch \in [Keys -> Shown]
    BY DEF Memory, Shown, Prices
<1>3. \A k \in Keys : watch[k].v = IF new[k] = 0 THEN m.watch[k].v ELSE new[k]
    OBVIOUS
<1> HIDE DEF watch
<1>4. [m EXCEPT !.watch = watch] \in Memory
    BY <1>2 DEF Memory
<1>5. /\ [m EXCEPT !.watch = watch].auth = m.auth /\ [m EXCEPT !.watch = watch].seqs = m.seqs
      /\ [m EXCEPT !.watch = watch].store = m.store /\ [m EXCEPT !.watch = watch].marks = m.marks
      /\ [m EXCEPT !.watch = watch].watch = watch
    BY DEF Memory
<1> QED
    BY <1>1, <1>3, <1>4, <1>5

LEMMA UpdatePricesSound ==
    ASSUME NEW m \in Memory, NEW new \in Prices, NEW src \in Sources
    PROVE  LET t == updatePrices(m, new, src)
           IN  /\ t \in Memory /\ t.auth = m.auth /\ t.seqs = m.seqs
               /\ t.store = m.store /\ t.marks = m.marks
               /\ \A k \in Keys : t.watch[k].v = IF new[k] = 0 THEN m.watch[k].v ELSE new[k]
<1>1. CASE \A k \in Keys : new[k] \in {0, m.watch[k].v}
    BY <1>1 DEF updatePrices
<1>2. CASE ~ \A k \in Keys : new[k] \in {0, m.watch[k].v}
    BY <1>2, SetPricesSound DEF updatePrices
<1> QED
    BY <1>1, <1>2

\* Prices that are alike under all spellings leave the watchlist so.
LEMMA WatchKept ==
    ASSUME NEW m, NEW t, NEW new, Uniform(new), WatchAgrees(m),
           \A k \in Keys : t.watch[k].v = IF new[k] = 0 THEN m.watch[k].v ELSE new[k]
    PROVE  WatchAgrees(t)
<1>1. \A k \in Keys : \A a \in Aliases[k] :
         a \in Keys /\ new[a] = new[k] /\ m.watch[a].v = m.watch[k].v
    BY AliasClass DEF Uniform, WatchAgrees
<1> QED
    BY <1>1 DEF WatchAgrees

\* An accepted quote in the stores.
LEMMA StoresApplied ==
    ASSUME NEW m \in Memory, NEW quotes, Priced(quotes), NEW src \in Sources, now \in 0..MaxTime
    PROVE  LET t == _applyToStores(m, quotes, src)
               new == Spread(quotes)
           IN  /\ t \in Memory /\ t.auth = m.auth /\ t.seqs = m.seqs
               /\ StoreAgrees(m) => StoreAgrees(t)
               /\ WatchAgrees(m) => WatchAgrees(t)
               /\ \A a \in Keys : t.store[a].v \in {m.store[a].v, new[a]}
               /\ \A a \in Keys : new[a] = 0 => t.store[a] = m.store[a]
               /\ \A a \in Keys : src = "live" /\ new[a] # 0 => t.store[a].v = new[a]
               /\ \A a \in Keys : t.watch[a].v = IF new[a] = 0 THEN m.watch[a].v ELSE new[a]
               /\ \A h \in Held :
                    \/ t.marks[h] = m.marks[h] /\ \A k \in Sent(quotes) : Norm[k] # h
                    \/ \E k \in Sent(quotes) : Norm[k] = h /\ t.marks[h] = quotes[k].v
<1> DEFINE new == Spread(quotes)
           s == updateQuote(m, quotes, src)
           h == applyLiveQuotes(s, quotes)
           t == updatePrices(h, new, src)
<1>1. new \in Prices /\ Uniform(new)
    BY SpreadPrices
<1>2. /\ s \in Memory /\ s.auth = m.auth /\ s.seqs = m.seqs
      /\ s.marks = m.marks /\ s.watch = m.watch
      /\ StoreAgrees(m) => StoreAgrees(s)
      /\ \A a \in Keys : s.store[a].v \in {m.store[a].v, new[a]}
      /\ \A a \in Keys : new[a] = 0 => s.store[a] = m.store[a]
      /\ \A a \in Keys : src = "live" /\ new[a] # 0 => s.store[a].v = new[a]
    BY UpdateQuoteSound
<1> HIDE DEF s
<1>3. /\ h \in Memory /\ h.auth = s.auth /\ h.seqs = s.seqs
      /\ h.store = s.store /\ h.watch = s.watch
      /\ \A x \in Held :
           \/ h.marks[x] = s.marks[x] /\ \A k \in Sent(quotes) : Norm[k] # x
           \/ \E k \in Sent(quotes) : Norm[k] = x /\ h.marks[x] = quotes[k].v
    BY <1>2, MarksSound
<1> HIDE DEF h, new
<1>4. /\ t \in Memory /\ t.auth = h.auth /\ t.seqs = h.seqs
      /\ t.store = h.store /\ t.marks = h.marks
      /\ \A k \in Keys : t.watch[k].v = IF new[k] = 0 THEN h.watch[k].v ELSE new[k]
    BY <1>1, <1>3, UpdatePricesSound
<1> HIDE DEF t
<1>5. t = _applyToStores(m, quotes, src)
    BY DEF _applyToStores, t, h, s, new
<1>6. StoreAgrees(m) => StoreAgrees(t)
    BY <1>2, <1>3, <1>4 DEF StoreAgrees
<1>7. WatchAgrees(m) => WatchAgrees(t)
  <2> SUFFICES ASSUME WatchAgrees(m) PROVE WatchAgrees(t)
      OBVIOUS
  <2>1. \A k \in Keys : t.watch[k].v = IF new[k] = 0 THEN m.watch[k].v ELSE new[k]
      BY <1>2, <1>3, <1>4
  <2> QED
      BY <1>1, <2>1, WatchKept
<1>8. /\ t.store = s.store /\ t.auth = m.auth /\ t.seqs = m.seqs
      /\ \A k \in Keys : t.watch[k].v = IF new[k] = 0 THEN m.watch[k].v ELSE new[k]
      /\ \A x \in Held :
           \/ t.marks[x] = m.marks[x] /\ \A k \in Sent(quotes) : Norm[k] # x
           \/ \E k \in Sent(quotes) : Norm[k] = x /\ t.marks[x] = quotes[k].v
    BY <1>2, <1>3, <1>4
<1> QED
    BY <1>2, <1>4, <1>5, <1>6, <1>7, <1>8 DEF new

\* A quote as the authority would keep it.
LEMMA IncomingType ==
    ASSUME NEW m \in Memory, NEW k \in Keys, NEW q \in Quotes, NEW src \in Sources
    PROVE  Incoming(m, k, q, src) \in Entries
<1>1. m.seqs[k] \in Nat /\ q.seq \in Nat /\ q.v \in 0..MaxTrades /\ q.ts \in 0..MaxTime
    BY QuoteAssumption DEF Memory, Quotes
<1> QED
    BY <1>1 DEF Incoming, Entries

\* What the authority accepts of a batch.
Accepted(m, quotes, src) ==
    {k \in Sent(quotes) : shouldAccept(m.auth[k], Incoming(m, k, quotes[k], src))}
AcceptedQuotes(m, quotes, src) ==
    [k \in Keys |-> IF k \in Accepted(m, quotes, src) THEN quotes[k] ELSE NoQuote]

\* The memory with the accepted quotes in the authority, and not yet in the stores.
Authorized(m, quotes, src) ==
    [m EXCEPT !.auth = [k \in Keys |-> IF k \in Accepted(m, quotes, src)
                                       THEN Incoming(m, k, quotes[k], src) ELSE m.auth[k]],
              !.seqs = [k \in Keys |-> IF k \in Accepted(m, quotes, src)
                                       THEN m.seqs[k] + 1 ELSE m.seqs[k]]]

LEMMA IngestParts ==
    ASSUME NEW m \in Memory, NEW quotes \in Batches, NEW src \in Sources
    PROVE  LET s == Authorized(m, quotes, src)
           IN  /\ ingest(m, quotes, src) = _applyToStores(s, AcceptedQuotes(m, quotes, src), src)
               /\ AcceptedQuotes(m, quotes, src) \in Batches
               /\ Sent(AcceptedQuotes(m, quotes, src)) = Accepted(m, quotes, src)
               /\ s \in Memory /\ s.store = m.store /\ s.watch = m.watch /\ s.marks = m.marks
               /\ \A k \in Keys : s.auth[k] = IF k \in Accepted(m, quotes, src)
                                              THEN Incoming(m, k, quotes[k], src) ELSE m.auth[k]
<1> DEFINE in == [k \in Keys |-> Incoming(m, k, quotes[k], src)]
           acc == Accepted(m, quotes, src)
           auth == [k \in Keys |-> IF k \in acc THEN in[k] ELSE m.auth[k]]
           seqs == [k \in Keys |-> IF k \in acc THEN m.seqs[k] + 1 ELSE m.seqs[k]]
           s == [m EXCEPT !.auth = auth, !.seqs = seqs]
<1>1. Sent(quotes) \subseteq Keys
    BY DEF Sent
<1>2. acc = {k \in Sent(quotes) : shouldAccept(m.auth[k], in[k])}
    BY <1>1 DEF Accepted
<1>3. m.auth \in [Keys -> Entries] /\ m.seqs \in [Keys -> Nat]
    BY DEF Memory
<1>4. in \in [Keys -> Entries]
    BY IncomingType DEF Batches
<1> HIDE DEF acc
<1>5. auth \in [Keys -> Entries] /\ seqs \in [Keys -> Nat]
    BY <1>3, <1>4
<1>6. Authorized(m, quotes, src) = s
    BY DEF Authorized, acc
<1>7. ingest(m, quotes, src) = _applyToStores(s, AcceptedQuotes(m, quotes, src), src)
  <2>1. ingest(m, quotes, src) =
          _applyToStores([m EXCEPT !.auth = [k \in Keys |-> IF k \in acc THEN in[k] ELSE m.auth[k]],
                                   !.seqs = [k \in Keys |-> IF k \in acc THEN m.seqs[k] + 1 ELSE m.seqs[k]]],
                         [k \in Keys |-> IF k \in acc THEN quotes[k] ELSE NoQuote], src)
      BY <1>2, <1>3 DEF ingest, Memory
  <2> QED
      BY <2>1 DEF AcceptedQuotes, acc
<1> HIDE DEF auth, seqs
<1>8. /\ s \in Memory /\ s.store = m.store /\ s.watch = m.watch /\ s.marks = m.marks
      /\ s.auth = auth
    BY <1>5 DEF Memory
<1>9. NoQuote \in Quotes
    BY QuoteAssumption DEF NoQuote, Quotes
<1>10. AcceptedQuotes(m, quotes, src) \in Batches
    BY <1>9 DEF AcceptedQuotes, Batches
<1>11. Sent(AcceptedQuotes(m, quotes, src)) = Accepted(m, quotes, src)
    BY DEF AcceptedQuotes, Accepted, Sent, NoQuote
<1> QED
    BY <1>6, <1>7, <1>8, <1>10, <1>11 DEF auth, acc

\* Passing the authority keeps the types and the agreement of the spellings, and
\* only an accepted quote replaces another.
LEMMA IngestSound ==
    ASSUME NEW m \in Memory, NEW quotes \in Batches, NEW src \in Sources, now \in 0..MaxTime
    PROVE  LET t == ingest(m, quotes, src)
           IN  /\ t \in Memory
               /\ StoreAgrees(m) => StoreAgrees(t)
               /\ WatchAgrees(m) => WatchAgrees(t)
               /\ \A k \in Keys :
                    \/ t.auth[k] = m.auth[k]
                    \/ /\ k \in Sent(quotes)
                       /\ shouldAccept(m.auth[k], Incoming(m, k, quotes[k], src))
                       /\ t.auth[k] = Incoming(m, k, quotes[k], src)
<1> DEFINE s == Authorized(m, quotes, src)
           acc == AcceptedQuotes(m, quotes, src)
           t == _applyToStores(s, acc, src)
<1>1. /\ ingest(m, quotes, src) = t
      /\ acc \in Batches /\ s \in Memory /\ s.store = m.store /\ s.watch = m.watch
      /\ \A k \in Keys : s.auth[k] = IF k \in Accepted(m, quotes, src)
                                     THEN Incoming(m, k, quotes[k], src) ELSE m.auth[k]
    BY IngestParts
<1> HIDE DEF s, acc
<1>2. /\ t \in Memory /\ t.auth = s.auth
      /\ StoreAgrees(s) => StoreAgrees(t)
      /\ WatchAgrees(s) => WatchAgrees(t)
    BY <1>1, BatchPriced, StoresApplied
<1> HIDE DEF t
<1>3. (StoreAgrees(m) => StoreAgrees(t)) /\ (WatchAgrees(m) => WatchAgrees(t))
    BY <1>1, <1>2 DEF StoreAgrees, WatchAgrees
<1>4. \A k \in Keys :
         \/ t.auth[k] = m.auth[k]
         \/ /\ k \in Sent(quotes)
            /\ shouldAccept(m.auth[k], Incoming(m, k, quotes[k], src))
            /\ t.auth[k] = Incoming(m, k, quotes[k], src)
    BY <1>1, <1>2 DEF Accepted
<1> QED
    BY <1>1, <1>2, <1>3, <1>4

--------------------------------------------------------------------------------
(* A tick, which is written under up to three keys. *)

\* A tick as the authority keeps it: the feed stamps every one.
Kept(q) == [v |-> q.v, ts |-> q.ts, src |-> "live", seq |-> q.seq]

\* What a tick may turn the memory m into: every row keeps its price or takes
\* that of the tick, and where the authority has a new quote, it is the tick, it
\* was newer, and no store was left behind.
Ticked(m, t, q) ==
    /\ \A a \in Keys : t.store[a].v \in {m.store[a].v, q.v} /\ t.watch[a].v \in {m.watch[a].v, q.v}
    /\ \A h \in Held : t.marks[h] \in {m.marks[h], q.v}
    /\ \A k \in Keys : t.auth[k] # m.auth[k] =>
         /\ t.auth[k] = Kept(q) /\ shouldAccept(m.auth[k], Kept(q))
         /\ \A a \in Aliases[k] :
              /\ t.store[a].v = q.v /\ t.watch[a].v = q.v
              /\ a \in Held => t.marks[a] = q.v

\* Types and agreement that every change of the memory keeps.
Kind(m, t) ==
    /\ t \in Memory
    /\ StoreAgrees(m) => StoreAgrees(t)
    /\ WatchAgrees(m) => WatchAgrees(t)

LEMMA TickedTwice ==
    ASSUME NEW m, NEW s, NEW t, NEW q, Ticked(m, s, q), Ticked(s, t, q)
    PROVE  Ticked(m, t, q)
<1>1. \A a \in Keys : t.store[a].v \in {m.store[a].v, q.v} /\ t.watch[a].v \in {m.watch[a].v, q.v}
    BY DEF Ticked
<1>2. \A h \in Held : t.marks[h] \in {m.marks[h], q.v}
    BY DEF Ticked
<1>3. ASSUME NEW k \in Keys, t.auth[k] # m.auth[k]
      PROVE  /\ t.auth[k] = Kept(q) /\ shouldAccept(m.auth[k], Kept(q))
             /\ \A a \in Aliases[k] :
                  /\ t.store[a].v = q.v /\ t.watch[a].v = q.v
                  /\ a \in Held => t.marks[a] = q.v
  <2>1. CASE s.auth[k] = m.auth[k]
      BY <1>3, <2>1 DEF Ticked
  <2>2. CASE s.auth[k] # m.auth[k]
    <3>1. /\ s.auth[k] = Kept(q) /\ shouldAccept(m.auth[k], Kept(q))
          /\ \A a \in Aliases[k] :
               /\ s.store[a].v = q.v /\ s.watch[a].v = q.v
               /\ a \in Held => s.marks[a] = q.v
        BY <2>2 DEF Ticked
    <3>2. t.auth[k] \in {s.auth[k], Kept(q)}
        BY DEF Ticked
    <3>3. \A a \in Aliases[k] : a \in Keys
        BY AliasClass
    <3>4. \A a \in Aliases[k] :
            /\ t.store[a].v = q.v /\ t.watch[a].v = q.v
            /\ a \in Held => t.marks[a] = q.v
        BY <3>1, <3>3 DEF Ticked
    <3> QED
        BY <3>1, <3>2, <3>4
  <2> QED
      BY <2>1, <2>2
<1> QED
    BY <1>1, <1>2, <1>3 DEF Ticked

\* A batch of one.
LEMMA OnlyOne ==
    ASSUME NEW key \in Keys, NEW q \in Quotes, q.v # 0
    PROVE  /\ Only(key, q) \in Batches /\ Only(key, q)[key] = q
           /\ Sent(Only(key, q)) = {key}
<1>1. NoQuotes \in Batches
    BY QuoteAssumption DEF NoQuotes, NoQuote, Batches, Quotes
<1>2. \A k \in Keys : Only(key, q)[k] = IF k = key THEN q ELSE NoQuote
    BY DEF Only, NoQuotes
<1>3. Only(key, q) \in Batches
    BY <1>1 DEF Only, Batches
<1>4. NoQuote.v = 0
    BY DEF NoQuote
<1> QED
    BY <1>2, <1>3, <1>4 DEF Sent

\* A tick in the market store, whatever the authority says.
LEMMA LiveUpdate ==
    ASSUME NEW m \in Memory, NEW key \in Keys, NEW q \in Quotes, q.v # 0, now \in 0..MaxTime,
           NEW src \in Sources
    PROVE  LET t == updateQuote(m, Only(key, q), src)
           IN  Kind(m, t) /\ Ticked(m, t, q)
<1> DEFINE quotes == Only(key, q)
           t == updateQuote(m, quotes, src)
           new == Spread(quotes)
<1>1. quotes \in Batches /\ quotes[key] = q /\ Sent(quotes) = {key}
    BY OnlyOne
<1>2. \A a \in Keys : new[a] \in {0, q.v}
    BY <1>1, BatchPriced, SpreadPrices
<1> HIDE DEF quotes
<1>3. /\ t \in Memory /\ t.auth = m.auth /\ t.seqs = m.seqs
      /\ t.marks = m.marks /\ t.watch = m.watch
      /\ StoreAgrees(m) => StoreAgrees(t)
      /\ \A a \in Keys : t.store[a].v \in {m.store[a].v, new[a]}
      /\ \A a \in Keys : new[a] = 0 => t.store[a] = m.store[a]
      /\ \A a \in Keys : src = "live" /\ new[a] # 0 => t.store[a].v = new[a]
    BY <1>1, BatchPriced, UpdateQuoteSound
<1> HIDE DEF t, new
<1>4. Kind(m, t)
    BY <1>3 DEF Kind, WatchAgrees
<1>5. Ticked(m, t, q)
    BY <1>2, <1>3 DEF Ticked
<1> QED
    BY <1>4, <1>5 DEF t, quotes

\* A tick through the authority: accepted, it is in every store.
LEMMA LiveIngest ==
    ASSUME NEW m \in Memory, NEW key \in Keys, NEW q \in Quotes, q.v # 0, q.seq # 0,
           now \in 0..MaxTime
    PROVE  LET t == ingest(m, Only(key, q), "live")
           IN  Kind(m, t) /\ Ticked(m, t, q)
<1> DEFINE quotes == Only(key, q)
           s == Authorized(m, quotes, "live")
           acc == AcceptedQuotes(m, quotes, "live")
           new == Spread(acc)
           t == _applyToStores(s, acc, "live")
<1>1. quotes \in Batches /\ quotes[key] = q /\ Sent(quotes) = {key} /\ "live" \in Sources
    BY OnlyOne DEF Sources
<1>2. Incoming(m, key, q, "live") = Kept(q)
    BY DEF Incoming, Kept
<1> HIDE DEF quotes
<1>3. /\ ingest(m, quotes, "live") = t
      /\ acc \in Batches /\ Sent(acc) = Accepted(m, quotes, "live")
      /\ s \in Memory /\ s.store = m.store /\ s.watch = m.watch /\ s.marks = m.marks
      /\ \A k \in Keys : s.auth[k] = IF k \in Accepted(m, quotes, "live")
                                     THEN Incoming(m, k, quotes[k], "live") ELSE m.auth[k]
    BY <1>1, IngestParts
<1>4. /\ Accepted(m, quotes, "live") \subseteq {key}
      /\ key \in Accepted(m, quotes, "live") => shouldAccept(m.auth[key], Kept(q))
    BY <1>1, <1>2 DEF Accepted
<1>5. \A k \in Sent(acc) : acc[k] = q
    BY <1>1, <1>3, <1>4 DEF AcceptedQuotes
<1> HIDE DEF s, acc
<1>6. /\ new \in Prices /\ Uniform(new)
      /\ \A a \in Keys : new[a] \in {0, q.v}
      /\ \A k \in Sent(acc) : new[k] = q.v
  <2>1. /\ new \in Prices /\ Uniform(new)
        /\ \A k \in Sent(acc) : new[k] # 0
        /\ \A a \in Keys : new[a] # 0 =>
             \E k \in Sent(acc) : k \in Aliases[a] /\ new[a] = acc[k].v
      BY <1>3, BatchPriced, SpreadPrices
  <2>2. Sent(acc) \subseteq Keys
      BY DEF Sent
  <2> QED
      BY <1>5, <2>1, <2>2
<1> HIDE DEF new
<1>7. /\ t \in Memory /\ t.auth = s.auth /\ t.seqs = s.seqs
      /\ StoreAgrees(s) => StoreAgrees(t)
      /\ WatchAgrees(s) => WatchAgrees(t)
      /\ \A a \in Keys : t.store[a].v \in {s.store[a].v, new[a]}
      /\ \A a \in Keys : new[a] = 0 => t.store[a] = s.store[a]
      /\ \A a \in Keys : new[a] # 0 => t.store[a].v = new[a]
      /\ \A a \in Keys : t.watch[a].v = IF new[a] = 0 THEN s.watch[a].v ELSE new[a]
      /\ \A h \in Held :
           \/ t.marks[h] = s.marks[h] /\ \A k \in Sent(acc) : Norm[k] # h
           \/ \E k \in Sent(acc) : Norm[k] = h /\ t.marks[h] = acc[k].v
  <2> DEFINE src == "live"
             u == _applyToStores(s, acc, src)
  <2>1. src \in Sources /\ src = "live" /\ u = t /\ Priced(acc)
      BY <1>1, <1>3, BatchPriced
  <2> HIDE DEF src, t
  <2>2. /\ u \in Memory /\ u.auth = s.auth /\ u.seqs = s.seqs
        /\ StoreAgrees(s) => StoreAgrees(u)
        /\ WatchAgrees(s) => WatchAgrees(u)
        /\ \A a \in Keys : u.store[a].v \in {s.store[a].v, Spread(acc)[a]}
        /\ \A a \in Keys : Spread(acc)[a] = 0 => u.store[a] = s.store[a]
        /\ \A a \in Keys : src = "live" /\ Spread(acc)[a] # 0 => u.store[a].v = Spread(acc)[a]
        /\ \A a \in Keys : u.watch[a].v = IF Spread(acc)[a] = 0 THEN s.watch[a].v ELSE Spread(acc)[a]
        /\ \A h \in Held :
             \/ u.marks[h] = s.marks[h] /\ \A k \in Sent(acc) : Norm[k] # h
             \/ \E k \in Sent(acc) : Norm[k] = h /\ u.marks[h] = acc[k].v
      BY <1>3, <2>1, StoresApplied
  <2> HIDE DEF u, t
  <2> QED
      BY <2>1, <2>2 DEF new
<1> HIDE DEF t
<1>8. Kind(m, t)
    BY <1>3, <1>7 DEF Kind, StoreAgrees, WatchAgrees
<1>9. \A a \in Keys : t.store[a].v \in {m.store[a].v, q.v} /\ t.watch[a].v \in {m.watch[a].v, q.v}
    BY <1>3, <1>6, <1>7
<1>10. \A h \in Held : t.marks[h] \in {m.marks[h], q.v}
    BY <1>3, <1>5, <1>7
<1>11. ASSUME NEW k \in Keys, t.auth[k] # m.auth[k]
       PROVE  /\ t.auth[k] = Kept(q) /\ shouldAccept(m.auth[k], Kept(q))
              /\ \A a \in Aliases[k] :
                   /\ t.store[a].v = q.v /\ t.watch[a].v = q.v
                   /\ a \in Held => t.marks[a] = q.v
  <2>1. k \in Sent(acc) /\ k = key
      BY <1>3, <1>4, <1>7, <1>11
  <2>2. t.auth[k] = Kept(q) /\ shouldAccept(m.auth[k], Kept(q))
      BY <1>1, <1>2, <1>3, <1>4, <1>7, <2>1
  <2>3. ASSUME NEW a \in Aliases[k]
        PROVE  /\ t.store[a].v = q.v /\ t.watch[a].v = q.v
               /\ a \in Held => t.marks[a] = q.v
    <3>1. a \in Keys /\ new[a] = q.v /\ Norm[a] = Norm[k]
        BY <1>6, <2>1, AliasClass DEF Uniform
    <3>2. t.store[a].v = q.v /\ t.watch[a].v = q.v
        BY <1>7, <3>1
    <3>3. a \in Held => Norm[k] = a
        BY <3>1, QuoteAssumption
    <3> QED
        BY <1>5, <1>7, <2>1, <3>2, <3>3
  <2> QED
      BY <2>2, <2>3
<1>12. Ticked(m, t, q)
    BY <1>9, <1>10, <1>11 DEF Ticked
<1> QED
    BY <1>3, <1>8, <1>12 DEF quotes

\* One key of a tick, and the tick.
LEMMA UnderSound ==
    ASSUME NEW m \in Memory, NEW keys \in Seq(Keys), NEW i \in 1..3, NEW q \in Quotes,
           q.v # 0, q.seq # 0, now \in 0..MaxTime, NEW src \in Sources
    PROVE  LET t == applyUnder(m, keys, i, q, src)
           IN  Kind(m, t) /\ Ticked(m, t, q)
<1>1. CASE i > Len(keys)
  <2>1. applyUnder(m, keys, i, q, src) = m
      BY <1>1 DEF applyUnder
  <2> QED
      BY <2>1 DEF Kind, Ticked
<1>2. CASE ~(i > Len(keys))
  <2> DEFINE s == ingest(m, Only(keys[i], q), "live")
             t == updateQuote(s, Only(keys[i], q), src)
  <2>1. keys[i] \in Keys
      BY <1>2
  <2>2. Kind(m, s) /\ Ticked(m, s, q)
      BY <2>1, LiveIngest
  <2> HIDE DEF s
  <2>3. s \in Memory
      BY <2>2 DEF Kind
  <2>4. Kind(s, t) /\ Ticked(s, t, q)
      BY <2>1, <2>3, LiveUpdate
  <2>5. applyUnder(m, keys, i, q, src) = t
      BY <1>2 DEF applyUnder, s
  <2> HIDE DEF t
  <2>6. Kind(m, t)
      BY <2>2, <2>4 DEF Kind
  <2>7. Ticked(m, t, q)
      BY <2>2, <2>4, TickedTwice
  <2> QED
      BY <2>5, <2>6, <2>7
<1> QED
    BY <1>1, <1>2

LEMMA TickSound ==
    ASSUME NEW m \in Memory, NEW sym \in Symbols, NEW q \in Quotes, q.v # 0, q.seq # 0,
           now \in 0..MaxTime, NEW src \in Sources
    PROVE  LET t == applyIncomingQuote(m, sym, q, src)
           IN  Kind(m, t) /\ Ticked(m, t, q)
<1> DEFINE keys == TickKeys[sym]
           t1 == applyUnder(m, keys, 1, q, src)
           t2 == applyUnder(t1, keys, 2, q, src)
           t3 == applyUnder(t2, keys, 3, q, src)
           refused == ~shouldAccept(m.auth[keys[1]], Incoming(m, keys[1], q, "live"))
<1>1. keys \in Seq(Keys)
    BY QuoteAssumption
<1>2. applyIncomingQuote(m, sym, q, src) = IF refused THEN m ELSE t3
    BY DEF applyIncomingQuote
<1> HIDE DEF keys, refused
<1>3. Kind(m, t1) /\ Ticked(m, t1, q)
    BY <1>1, UnderSound
<1> HIDE DEF t1
<1>4. t1 \in Memory
    BY <1>3 DEF Kind
<1>5. Kind(t1, t2) /\ Ticked(t1, t2, q)
    BY <1>1, <1>4, UnderSound
<1> HIDE DEF t2
<1>6. t2 \in Memory
    BY <1>5 DEF Kind
<1>7. Kind(t2, t3) /\ Ticked(t2, t3, q)
    BY <1>1, <1>6, UnderSound
<1> HIDE DEF t3
<1>8. Ticked(m, t3, q)
    BY <1>3, <1>5, <1>7, TickedTwice
<1>9. Kind(m, t3)
    BY <1>3, <1>5, <1>7 DEF Kind
<1>10. Kind(m, m) /\ Ticked(m, m, q)
    BY DEF Kind, Ticked
<1> QED
    BY <1>2, <1>8, <1>9, <1>10

--------------------------------------------------------------------------------
(* What the backend answers. *)

\* Every nonempty set of numbers has a least one: what the inductions rest on.
LEMMA LeastNumber ==
    ASSUME NEW T \in SUBSET Nat, T # {}
    PROVE  \E x \in T : \A y \in T : x <= y
<1> DEFINE Less == {p \in Nat \X Nat : p[1] < p[2]}
<1>1. IsWellFoundedOn(Less, Nat)
    BY NatLessThanWellFounded DEF OpToRel
<1> HIDE DEF Less
<1>2. PICK x \in T : \A y \in T : ~(<<y, x>> \in Less)
    BY <1>1, WFMin
<1>3. \A y \in T : ~(y < x)
    BY <1>2 DEF Less
<1> QED
    BY <1>3

LEMMA GreatestNumber ==
    ASSUME NEW n \in Nat, NEW T \in SUBSET (0..n), T # {}
    PROVE  \E x \in T : \A y \in T : y <= x
<1> DEFINE D == {n - x : x \in T}
<1>0. \A x \in T : x \in 0..n /\ n - x \in Nat
    OBVIOUS
<1>1. D \in SUBSET Nat /\ D # {}
    BY <1>0, Zenon
<1>2. PICK d \in D : \A e \in D : d <= e
    BY <1>1, LeastNumber
<1>3. PICK x \in T : d = n - x
    BY <1>2
<1>4. \A y \in T : d <= n - y
    BY <1>2
<1>5. \A y \in T : y <= x
    BY <1>3, <1>4
<1> QED
    BY <1>5

TapeQuotes == {tape[s] : s \in Symbols}

\* The last trade under a key is one on the tape, and the same under every
\* spelling of an instrument.
LEMMA LastTradeSound ==
    ASSUME tape \in [Symbols -> Quotes]
    PROVE  /\ \A k \in Keys : LastTrade(k) \in TapeQuotes \cup {NoQuote}
           /\ \A k \in Keys : \A a \in Aliases[k] : LastTrade(a) = LastTrade(k)
<1> DEFINE of(k) == {s \in Symbols : \E i \in DOMAIN TickKeys[s] : k \in Aliases[TickKeys[s][i]]}
           traded(k) == {s \in of(k) : tape[s].v # 0}
           last(k) == CHOOSE s \in traded(k) : \A t \in traded(k) : tape[t].v <= tape[s].v
<1>1. \A k : LastTrade(k) = IF traded(k) = {} THEN NoQuote ELSE tape[last(k)]
    BY DEF LastTrade
<1>2. ASSUME NEW k \in Keys, traded(k) # {}
      PROVE  last(k) \in traded(k)
  <2> DEFINE T == {tape[s].v : s \in traded(k)}
  <2>0. \A s \in traded(k) : tape[s].v \in 0..MaxTrades
      BY DEF Quotes
  <2>1. T \in SUBSET (0..MaxTrades) /\ T # {}
      BY <1>2, <2>0, Zenon
  <2>2. MaxTrades \in Nat
      BY QuoteAssumption
  <2> HIDE DEF T
  <2>3. PICK x \in T : \A y \in T : y <= x
      BY <2>1, <2>2, GreatestNumber
  <2>4. \E s \in traded(k) : \A t \in traded(k) : tape[t].v <= tape[s].v
      BY <2>3 DEF T
  <2> QED
      BY <2>4
<1>3. ASSUME NEW k \in Keys, NEW a \in Aliases[k]
      PROVE  LastTrade(a) = LastTrade(k)
  <2>1. a \in Keys /\ Aliases[a] = Aliases[k] /\ a \in Aliases[a] /\ k \in Aliases[k]
      BY AliasClass, QuoteAssumption
  <2>2. \A x \in Keys : a \in Aliases[x] <=> k \in Aliases[x]
      BY <2>1, QuoteAssumption
  <2>3. \A s \in Symbols : \A i \in DOMAIN TickKeys[s] : TickKeys[s][i] \in Keys
      BY QuoteAssumption
  <2>4. of(a) = of(k)
      BY <2>2, <2>3
  <2>5. traded(a) = traded(k)
      BY <2>4
  <2>6. last(a) = last(k)
      BY <2>5
  <2> HIDE DEF traded, last
  <2> QED
      BY <1>1, <2>5, <2>6
<1> HIDE DEF last
<1>4. \A k \in Keys : LastTrade(k) \in TapeQuotes \cup {NoQuote}
    BY <1>1, <1>2 DEF TapeQuotes
<1> QED
    BY <1>3, <1>4

\* A set of keys with every spelling of theirs.
Whole(keys) == \A k \in Keys : \A a \in Aliases[k] : a \in keys <=> k \in keys

\* An answer is a batch; what it has of stamped quotes is on the tape; and if it
\* is about whole instruments the spellings agree.
LEMMA AnswerSound ==
    ASSUME tape \in [Symbols -> Quotes], NEW keys, NEW form
    PROVE  /\ Answer(keys, form) \in Batches
           /\ \A k \in Keys : Answer(keys, form)[k].ts # 0 => Answer(keys, form)[k] \in TapeQuotes
           /\ Whole(keys) =>
                \A k \in Keys : \A a \in Aliases[k] : Answer(keys, form)[a].v = Answer(keys, form)[k].v
<1>1. NoQuote \in Quotes /\ NoQuote.v = 0 /\ NoQuote.ts = 0
    BY QuoteAssumption DEF NoQuote, Quotes
<1>2. TapeQuotes \subseteq Quotes
    BY DEF TapeQuotes
<1>3. \A q \in Quotes : /\ Stamp(q, form) \in Quotes /\ Stamp(q, form).v = q.v
                        /\ Stamp(q, form).ts # 0 => Stamp(q, form) = q
  <2> SUFFICES ASSUME NEW q \in Quotes
               PROVE  /\ Stamp(q, form) \in Quotes /\ Stamp(q, form).v = q.v
                      /\ Stamp(q, form).ts # 0 => Stamp(q, form) = q
      OBVIOUS
  <2>1. Stamp(q, form) \in {q, [q EXCEPT !.ts = 0, !.seq = 0]}
      BY DEF Stamp
  <2>2. 0 \in 0..MaxTime /\ 0 \in 0..MaxTrades
      BY QuoteAssumption
  <2>3. /\ [q EXCEPT !.ts = 0, !.seq = 0] \in Quotes
        /\ [q EXCEPT !.ts = 0, !.seq = 0].v = q.v /\ [q EXCEPT !.ts = 0, !.seq = 0].ts = 0
      BY <2>2 DEF Quotes
  <2> QED
      BY <2>1, <2>3
<1>4. /\ \A k \in Keys : LastTrade(k) \in TapeQuotes \cup {NoQuote}
      /\ \A k \in Keys : \A a \in Aliases[k] : LastTrade(a) = LastTrade(k)
    BY LastTradeSound
<1>5. \A k \in Keys : Answer(keys, form)[k] =
                        IF k \in keys THEN Stamp(LastTrade(k), form) ELSE NoQuote
    BY DEF Answer
<1>6. \A k \in Keys : LastTrade(k) \in Quotes
    BY <1>1, <1>2, <1>4
<1>7. \A k \in Keys : /\ Answer(keys, form)[k] \in Quotes
                      /\ Answer(keys, form)[k].ts # 0 => Answer(keys, form)[k] \in TapeQuotes
    BY <1>1, <1>3, <1>4, <1>5, <1>6
<1>8. Answer(keys, form) \in Batches
    BY <1>7 DEF Answer, Batches
<1>9. ASSUME Whole(keys), NEW k \in Keys, NEW a \in Aliases[k]
      PROVE  Answer(keys, form)[a].v = Answer(keys, form)[k].v
    BY <1>4, <1>5, <1>9, AliasClass DEF Whole
<1> QED
    BY <1>7, <1>8, <1>9

--------------------------------------------------------------------------------
(* The invariant. *)

Kinds == {"hydrate", "quote", "holdings", "eod"}
Callings == [kind : Kinds, quotes : Batches, official : BOOLEAN]
Recons == [due : BOOLEAN, phase : Phases, todo : SUBSET Keys,
           official : {"none", "yes", "no"}, got : Batches]
Ticks == [sym : Symbols, q : Quotes]

Typed ==
    /\ now \in 1..MaxTime /\ trades \in 0..MaxTrades
    /\ tape \in [Symbols -> Quotes]
    /\ ws \in [up : BOOLEAN, queue : Seq(Ticks)]
    /\ Len(ws.queue) <= MaxQueue /\ (ws.queue # <<>> => ws.up = TRUE)
    /\ mem \in Memory /\ eod \in Prices
    /\ calls \subseteq Callings
    /\ hydrating \in BOOLEAN /\ open \in BOOLEAN /\ recon \in Recons
    /\ prices \in [busy : BOOLEAN, todo : SUBSET Keys, got : Batches]
    /\ prices.todo # {} => prices.busy = TRUE

\* The spellings agree in the stores, in the answers that overwrite the watchlist
\* key by key, and in the chunks collected for it and for the reconciliation, whose
\* stamped quotes are in the cache before they are in the stores.
SamePrice(quotes) == \A k \in Keys : \A a \in Aliases[k] : quotes[a].v = quotes[k].v
Alike ==
    /\ StoreAgrees(mem) /\ WatchAgrees(mem)
    /\ \A c \in calls : c.kind = "eod" => SamePrice(c.quotes)
    /\ SamePrice(prices.got) /\ SamePrice(recon.got)
    /\ recon.phase = "stamped" =>
         \A k \in Keys : recon.got[k].v # 0 => eod[k] = recon.got[k].v

\* The stamped quotes on the tape, under way and in the authority. Each is a trade
\* of the past that carries its number, and of two trades the later has the
\* higher number. What is under way on the socket is stamped.
QueueQuotes == {ws.queue[i].q : i \in 1..Len(ws.queue)}
CallQuotes == UNION {{c.quotes[k] : k \in Keys} : c \in calls}
QuoteOf(e) == [v |-> e.v, ts |-> e.ts, seq |-> e.seq]
AuthQuotes == {QuoteOf(mem.auth[k]) : k \in Keys}
Stamped == {q \in TapeQuotes \cup QueueQuotes \cup CallQuotes \cup AuthQuotes : q.ts # 0}
Chrono ==
    /\ \A q \in Stamped : q.v \in 1..trades /\ q.seq = q.v /\ q.ts <= now
    /\ \A q, r \in Stamped : q.ts < r.ts => q.v < r.v
    /\ \A i \in 1..Len(ws.queue) : ws.queue[i].q.ts # 0

\* A request adds a call whose answer is right for the tape.
LEMMA CallSound ==
    ASSUME Typed, NEW kind \in Kinds, NEW keys, Call(kind, keys)
    PROVE  \A c \in calls' \ calls :
              /\ c \in Callings /\ c.kind = kind
              /\ \A k \in Keys : c.quotes[k].ts # 0 => c.quotes[k] \in TapeQuotes
              /\ Whole(keys) => SamePrice(c.quotes)
<1>1. PICK form \in (IF kind = "hydrate" THEN RestForms ELSE {"bare"}),
           official \in (IF kind = "eod" THEN OfficialAnswers ELSE {FALSE}) :
         calls' = calls \cup {[kind |-> kind, quotes |-> Answer(keys, form),
                               official |-> official]}
    BY DEF Call
<1> DEFINE ans == Answer(keys, form)
           r == [kind |-> kind, quotes |-> ans, official |-> official]
<1>2. official \in BOOLEAN
    BY QuoteAssumption
<1>3. /\ ans \in Batches
      /\ \A k \in Keys : ans[k].ts # 0 => ans[k] \in TapeQuotes
      /\ Whole(keys) => SamePrice(ans)
    BY AnswerSound DEF Typed, SamePrice
<1> HIDE DEF ans
<1>4. r \in Callings /\ r.kind = kind /\ r.quotes = ans
    BY <1>2, <1>3 DEF Callings
<1> HIDE DEF r
<1>5. calls' = calls \cup {r}
    BY <1>1 DEF r, ans
<1> QED
    BY <1>3, <1>4, <1>5

\* The tick at the head of the queue is a quote with a trade in it.
LEMMA HeadTick ==
    ASSUME Typed, Chrono, ws.queue # <<>>
    PROVE  /\ Head(ws.queue).sym \in Symbols /\ Head(ws.queue).q \in Quotes
           /\ Head(ws.queue).q \in Stamped
           /\ Head(ws.queue).q.v # 0 /\ Head(ws.queue).q.seq # 0
<1>1. ws.queue \in Seq(Ticks) /\ Head(ws.queue) = ws.queue[1] /\ 1 \in 1..Len(ws.queue)
    BY DEF Typed
<1>2. ws.queue[1] \in Ticks
    BY <1>1
<1>3. ws.queue[1].sym \in Symbols /\ ws.queue[1].q \in Quotes
    BY <1>2 DEF Ticks
<1>4. ws.queue[1].q \in Stamped
    BY <1>1 DEF Chrono, Stamped, QueueQuotes
<1>5. ws.queue[1].q.v \in 1..trades /\ ws.queue[1].q.seq = ws.queue[1].q.v
    BY <1>4 DEF Chrono
<1> QED
    BY <1>1, <1>3, <1>4, <1>5 DEF Typed

\* The polls, the watchlist's commit and the reconciliation leave the authority alone.
LEMMA PolledMemory ==
    ASSUME Typed, Alike, QuoteAnswers \/ HoldingsAnswer
    PROVE  Kind(mem, mem') /\ mem'.auth = mem.auth
<1>1. PICK c \in calls :
        LET s == updateQuote(mem, c.quotes, "poll")
        IN  mem' = s \/ mem' = applyLiveQuotes(s, c.quotes)
    BY DEF QuoteAnswers, HoldingsAnswer
<1> DEFINE s == updateQuote(mem, c.quotes, "poll")
           t == applyLiveQuotes(s, c.quotes)
           new == Spread(c.quotes)
<1>2. mem \in Memory /\ c.quotes \in Batches /\ "poll" \in Sources /\ now \in 0..MaxTime
    BY QuoteAssumption DEF Typed, Callings, Sources
<1>3. Priced(c.quotes)
    BY <1>2, BatchPriced
<1>4. /\ s \in Memory /\ s.auth = mem.auth /\ s.seqs = mem.seqs
      /\ s.marks = mem.marks /\ s.watch = mem.watch
      /\ StoreAgrees(mem) => StoreAgrees(s)
      /\ \A a \in Keys : s.store[a].v \in {mem.store[a].v, new[a]}
      /\ \A a \in Keys : new[a] = 0 => s.store[a] = mem.store[a]
      /\ \A a \in Keys : "poll" = "live" /\ new[a] # 0 => s.store[a].v = new[a]
    BY <1>2, <1>3, UpdateQuoteSound
<1> HIDE DEF s
<1>5. /\ t \in Memory /\ t.auth = s.auth /\ t.seqs = s.seqs
      /\ t.store = s.store /\ t.watch = s.watch
  <2>1. /\ t \in Memory /\ t.auth = s.auth /\ t.seqs = s.seqs
        /\ t.store = s.store /\ t.watch = s.watch
        /\ \A h \in Held :
             \/ t.marks[h] = s.marks[h] /\ \A k \in Sent(c.quotes) : Norm[k] # h
             \/ \E k \in Sent(c.quotes) : Norm[k] = h /\ t.marks[h] = c.quotes[k].v
      BY <1>3, <1>4, MarksSound
  <2> QED
      BY <2>1
<1> HIDE DEF t
<1>6. mem' = s \/ mem' = t
    BY <1>1 DEF s, t
<1> QED
    BY <1>4, <1>5, <1>6 DEF Kind, StoreAgrees, WatchAgrees

LEMMA CommittedMemory ==
    ASSUME Typed, Alike, CommitPrices
    PROVE  Kind(mem, mem') /\ mem'.auth = mem.auth
<1> DEFINE new == [k \in Keys |-> prices.got[k].v]
           s == setPrices(mem, new, "poll")
           u == batchUpdateQuotes(s, prices.got, "poll")
           w == batchUpdateQuotes(u, u.watch, "poll")
           t == applyLiveQuotes(w, u.watch)
<1>1. mem' = t
    BY DEF CommitPrices
<1>2. /\ mem \in Memory /\ prices.got \in Batches /\ "poll" \in Sources /\ now \in 0..MaxTime
      /\ SamePrice(prices.got)
    BY QuoteAssumption DEF Typed, Alike, Sources
<1>3. Priced(prices.got)
    BY <1>2, BatchPriced
<1>4. new \in Prices
    BY <1>3 DEF Prices, Priced
<1>5. Uniform(new)
    BY <1>2, AliasClass DEF Uniform, SamePrice
<1> HIDE DEF new
<1>6. /\ s \in Memory /\ s.auth = mem.auth /\ s.seqs = mem.seqs
      /\ s.store = mem.store /\ s.marks = mem.marks
      /\ \A k \in Keys : s.watch[k].v = IF new[k] = 0 THEN mem.watch[k].v ELSE new[k]
    BY <1>2, <1>4, SetPricesSound
<1> HIDE DEF s
<1>7. WatchAgrees(mem) => WatchAgrees(s)
    BY <1>5, <1>6, WatchKept
<1>8. /\ u \in Memory /\ u.auth = s.auth /\ u.seqs = s.seqs
      /\ u.marks = s.marks /\ u.watch = s.watch
      /\ StoreAgrees(s) => StoreAgrees(u)
    BY <1>2, <1>3, <1>6, BatchSound
<1> HIDE DEF u
<1>9. Priced(u.watch)
    BY <1>8 DEF Priced, Memory, Shown
<1>10. /\ w \in Memory /\ w.auth = u.auth /\ w.seqs = u.seqs
       /\ w.marks = u.marks /\ w.watch = u.watch
       /\ StoreAgrees(u) => StoreAgrees(w)
    BY <1>2, <1>8, <1>9, BatchSound
<1> HIDE DEF w
<1>11. /\ t \in Memory /\ t.auth = w.auth /\ t.seqs = w.seqs
       /\ t.store = w.store /\ t.watch = w.watch
       /\ \A h \in Held :
            \/ t.marks[h] = w.marks[h] /\ \A k \in Sent(u.watch) : Norm[k] # h
            \/ \E k \in Sent(u.watch) : Norm[k] = h /\ t.marks[h] = u.watch[k].v
    BY <1>9, <1>10, MarksSound
<1> HIDE DEF t
<1>12. StoreAgrees(mem) => StoreAgrees(t)
  <2>1. StoreAgrees(mem) => StoreAgrees(s)
      BY <1>6 DEF StoreAgrees
  <2>2. StoreAgrees(w) => StoreAgrees(t)
      BY <1>11 DEF StoreAgrees
  <2> QED
      BY <1>8, <1>10, <2>1, <2>2
<1>13. WatchAgrees(mem) => WatchAgrees(t)
    BY <1>7, <1>8, <1>10, <1>11 DEF WatchAgrees
<1> QED
    BY <1>1, <1>6, <1>8, <1>10, <1>11, <1>12, <1>13 DEF Kind

LEMMA ReconciledMemory ==
    ASSUME Typed, Alike, applyToStores
    PROVE  /\ Kind(mem, mem') /\ mem'.auth = mem.auth /\ eod' = eod
           /\ \A k \in Keys : recon.got[k].v # 0 =>
                \A a \in Aliases[k] :
                   /\ mem'.store[a].v = recon.got[k].v /\ mem'.watch[a].v = recon.got[k].v
                   /\ a \in Held => mem'.marks[a] = recon.got[k].v
<1> DEFINE got == recon.got
           new == [k \in Keys |-> got[k].v]
           s == batchUpdateQuotes(mem, got, "eod")
           u == updatePrices(s, new, "eod")
           t == applyLiveQuotes(u, got)
<1>1. mem' = t /\ eod' = eod
    BY DEF applyToStores
<1>2. /\ mem \in Memory /\ got \in Batches /\ "eod" \in Sources
      /\ now \in 0..MaxTime /\ SamePrice(got)
    BY QuoteAssumption DEF Typed, Alike, Recons, Sources
<1> HIDE DEF got
<1>3. Priced(got)
    BY <1>2, BatchPriced
<1>4. new \in Prices
    BY <1>3 DEF Prices, Priced
<1>5. Uniform(new) /\ \A k \in Keys : new[k] = got[k].v
    BY <1>2, AliasClass DEF Uniform, SamePrice
<1>6. \A k \in Keys : got[k].v # 0 => \A a \in Aliases[k] : Spread(got)[a] = got[k].v
  <2>1. /\ \A k \in Sent(got) : Spread(got)[k] # 0
        /\ \A a \in Keys : Spread(got)[a] # 0 =>
             \E k \in Sent(got) : k \in Aliases[a] /\ Spread(got)[a] = got[k].v
      BY <1>3, SpreadPrices
  <2>2. ASSUME NEW k \in Keys, got[k].v # 0, NEW a \in Aliases[k]
        PROVE  Spread(got)[a] = got[k].v
    <3>1. a \in Keys /\ got[a].v = got[k].v
        BY <1>2, AliasClass DEF SamePrice
    <3>2. a \in Sent(got)
        BY <2>2, <3>1 DEF Sent
    <3>3. PICK b \in Sent(got) : b \in Aliases[a] /\ Spread(got)[a] = got[b].v
        BY <2>1, <3>1, <3>2
    <3>4. got[b].v = got[a].v
        BY <1>2, <3>1, <3>3 DEF SamePrice
    <3> QED
        BY <3>1, <3>3, <3>4
  <2> QED
      BY <2>2
<1> HIDE DEF new
<1>7. /\ s \in Memory /\ s.auth = mem.auth /\ s.seqs = mem.seqs
      /\ s.marks = mem.marks /\ s.watch = mem.watch
      /\ StoreAgrees(mem) => StoreAgrees(s)
      /\ \A a \in Keys : Spread(got)[a] # 0 => s.store[a].v = Spread(got)[a]
  <2> DEFINE src == "eod"
             z == batchUpdateQuotes(mem, got, src)
  <2>1. src \in Sources /\ src = "eod" /\ z = s
      BY <1>2
  <2> HIDE DEF src, s
  <2>2. /\ z \in Memory /\ z.auth = mem.auth /\ z.seqs = mem.seqs
        /\ z.marks = mem.marks /\ z.watch = mem.watch
        /\ StoreAgrees(mem) => StoreAgrees(z)
        /\ \A a \in Keys : src = "eod" /\ Spread(got)[a] # 0 => z.store[a].v = Spread(got)[a]
      BY <1>2, <1>3, <2>1, BatchSound
  <2> HIDE DEF z
  <2> QED
      BY <2>1, <2>2
<1> HIDE DEF s
<1>8. /\ u \in Memory /\ u.auth = s.auth /\ u.seqs = s.seqs
      /\ u.store = s.store /\ u.marks = s.marks
      /\ \A k \in Keys : u.watch[k].v = IF new[k] = 0 THEN s.watch[k].v ELSE new[k]
    BY <1>2, <1>4, <1>7, UpdatePricesSound
<1> HIDE DEF u
<1>9. WatchAgrees(s) => WatchAgrees(u)
    BY <1>5, <1>8, WatchKept
<1>10. /\ t \in Memory /\ t.auth = u.auth /\ t.seqs = u.seqs
       /\ t.store = u.store /\ t.watch = u.watch
       /\ \A h \in Held :
            \/ t.marks[h] = u.marks[h] /\ \A k \in Sent(got) : Norm[k] # h
            \/ \E k \in Sent(got) : Norm[k] = h /\ t.marks[h] = got[k].v
    BY <1>3, <1>8, MarksSound
<1> HIDE DEF t
<1>11. Kind(mem, t) /\ t.auth = mem.auth
    BY <1>7, <1>8, <1>9, <1>10 DEF Kind, StoreAgrees, WatchAgrees
<1>12. ASSUME NEW k \in Keys, got[k].v # 0, NEW a \in Aliases[k]
       PROVE  /\ t.store[a].v = got[k].v /\ t.watch[a].v = got[k].v
              /\ a \in Held => t.marks[a] = got[k].v
  <2>1. a \in Keys /\ got[a].v = got[k].v /\ Aliases[a] = Aliases[k]
      BY <1>2, AliasClass DEF SamePrice
  <2>2. t.store[a].v = got[k].v
      BY <1>6, <1>7, <1>8, <1>10, <1>12, <2>1
  <2>3. t.watch[a].v = got[k].v
      BY <1>5, <1>8, <1>10, <1>12, <2>1
  <2>4. ASSUME a \in Held
        PROVE  t.marks[a] = got[k].v
    <3>1. Norm[a] = a /\ a \in Sent(got)
        BY <1>12, <2>1, <2>4, QuoteAssumption DEF Sent
    <3>2. PICK b \in Sent(got) : Norm[b] = a /\ t.marks[a] = got[b].v
        BY <1>10, <2>4, <3>1
    <3>3. b \in Keys /\ a \in Aliases[b]
        BY <3>2, QuoteAssumption DEF Sent
    <3>4. got[a].v = got[b].v
        BY <1>2, <3>3 DEF SamePrice
    <3> QED
        BY <2>1, <3>2, <3>4
  <2> QED
      BY <2>2, <2>3, <2>4
<1> QED
    BY <1>1, <1>11, <1>12 DEF got

\* The other steps of a reconciliation only move it along.
ReconSteps ==
    \/ executeReconciliation \/ ChunkAnswers \/ stampEODQuotes \/ reconcileTickerAndIndices
    \/ \E k \in Keys : fetchBatchQuotes(k)

LEMMA ReconFrame ==
    ASSUME ReconSteps
    PROVE  UNCHANGED <<now, tape, trades, ws, mem, hydrating, prices, open>>
BY DEF ReconSteps, executeReconciliation, ChunkAnswers, stampEODQuotes,
       reconcileTickerAndIndices, fetchBatchQuotes

\* Whatever happens, the memory keeps its type and the agreement of the spellings.
LEMMA MemoryKept ==
    ASSUME Typed, Alike, Chrono, [Next]_vars
    PROVE  Kind(mem, mem')
<1>0. mem \in Memory /\ now \in 0..MaxTime
    BY QuoteAssumption DEF Typed
<1>1. CASE mem' = mem
    BY <1>0, <1>1 DEF Kind
<1>2. CASE ReceiveTick
  <2>1. PICK src \in TickSources :
            mem' = applyIncomingQuote(mem, Head(ws.queue).sym, Head(ws.queue).q, src)
      BY <1>2 DEF ReceiveTick
  <2>2. ws.queue # <<>> /\ src \in Sources
      BY <1>2, QuoteAssumption DEF ReceiveTick, Sources
  <2> QED
      BY <1>0, <2>1, <2>2, HeadTick, TickSound
<1>3. CASE HydrateAnswers
  <2>1. PICK c \in calls : mem' = ingest(mem, c.quotes, "poll")
      BY <1>3 DEF HydrateAnswers
  <2>2. c.quotes \in Batches /\ "poll" \in Sources
      BY DEF Typed, Callings, Sources
  <2> DEFINE t == ingest(mem, c.quotes, "poll")
  <2>3. /\ t \in Memory
        /\ StoreAgrees(mem) => StoreAgrees(t)
        /\ WatchAgrees(mem) => WatchAgrees(t)
        /\ \A k \in Keys :
             \/ t.auth[k] = mem.auth[k]
             \/ /\ k \in Sent(c.quotes)
                /\ shouldAccept(mem.auth[k], Incoming(mem, k, c.quotes[k], "poll"))
                /\ t.auth[k] = Incoming(mem, k, c.quotes[k], "poll")
      BY <1>0, <2>2, IngestSound
  <2> QED
      BY <2>1, <2>3 DEF Kind
<1>4. CASE QuoteAnswers \/ HoldingsAnswer
    BY <1>4, PolledMemory
<1>5. CASE CommitPrices
    BY <1>5, CommittedMemory
<1>6. CASE applyToStores
    BY <1>6, ReconciledMemory
<1>7. CASE ReconSteps
    BY <1>1, <1>7, ReconFrame
<1> QED
    BY <1>1, <1>2, <1>3, <1>4, <1>5, <1>6, <1>7
       DEF Next, vars, Tick, ConnectAndHydrate, Disconnect, Trade, PollQuote, FetchChunk,
           PollHoldings, CallFails, FetchPrices, SessionChanges, ReconSteps

--------------------------------------------------------------------------------
(* The steps keep the invariant. *)

\* What a step asks of the backend: the answer has a type and is right for the tape.
LEMMA NewCalls ==
    ASSUME Typed, [Next]_vars
    PROVE  \A c \in calls' \ calls :
              /\ c \in Callings
              /\ \A k \in Keys : c.quotes[k].ts # 0 => c.quotes[k] \in TapeQuotes
              /\ c.kind = "eod" => SamePrice(c.quotes)
<1> DEFINE Right == \A c \in calls' \ calls :
              /\ c \in Callings
              /\ \A k \in Keys : c.quotes[k].ts # 0 => c.quotes[k] \in TapeQuotes
              /\ c.kind = "eod" => SamePrice(c.quotes)
<1>1. calls' \subseteq calls => Right
    OBVIOUS
<1>2. ASSUME NEW kind \in Kinds, NEW keys, Call(kind, keys), kind = "eod" => Whole(keys)
      PROVE  Right
  <2>1. \A c \in calls' \ calls :
              /\ c \in Callings /\ c.kind = kind
              /\ \A k \in Keys : c.quotes[k].ts # 0 => c.quotes[k] \in TapeQuotes
              /\ Whole(keys) => SamePrice(c.quotes)
      BY <1>2, CallSound
  <2> QED
      BY <1>2, <2>1
<1> SUFFICES Right
    OBVIOUS
<1> HIDE DEF Right
<1>3. CASE ConnectAndHydrate
    BY <1>1, <1>2, <1>3 DEF ConnectAndHydrate, Kinds
<1>4. CASE \E k \in {Norm[x] : x \in Keys} : PollQuote(k)
    BY <1>2, <1>4 DEF PollQuote, Kinds
<1>5. CASE PollHoldings
    BY <1>2, <1>5 DEF PollHoldings, Kinds
<1>6. CASE \E k \in Keys : fetchBatchQuotes(k)
  <2>1. PICK k \in Keys : Call("eod", Aliases[k])
      BY <1>6 DEF fetchBatchQuotes
  <2>2. Whole(Aliases[k])
    <3> SUFFICES ASSUME NEW x \in Keys, NEW a \in Aliases[x]
                 PROVE  a \in Aliases[k] <=> x \in Aliases[k]
        BY DEF Whole
    <3>1. a \in Keys /\ Aliases[a] = Aliases[x] /\ x \in Aliases[a]
        BY AliasClass
    <3> QED
        BY <3>1, QuoteAssumption
  <2> QED
      BY <1>2, <2>1, <2>2 DEF Kinds
<1>7. CASE HydrateAnswers \/ QuoteAnswers \/ HoldingsAnswer \/ CallFails \/ ChunkAnswers
  <2>1. calls' \subseteq calls
      BY <1>7 DEF HydrateAnswers, QuoteAnswers, HoldingsAnswer, CallFails, ChunkAnswers
  <2> QED
      BY <1>1, <2>1
<1>8. CASE \/ UNCHANGED vars \/ Tick \/ ReceiveTick \/ Disconnect \/ FetchPrices \/ CommitPrices
           \/ SessionChanges \/ executeReconciliation \/ stampEODQuotes \/ applyToStores
           \/ reconcileTickerAndIndices
           \/ \E s \in Symbols : Trade(s)
           \/ \E k \in {Norm[x] : x \in Keys} : FetchChunk(k)
  <2>1. calls' = calls
      BY <1>8 DEF vars, Tick, ReceiveTick, Disconnect, FetchPrices, CommitPrices,
                  SessionChanges, Trade, FetchChunk, executeReconciliation, stampEODQuotes,
                  applyToStores, reconcileTickerAndIndices
  <2> QED
      BY <1>1, <2>1
<1> QED
    BY <1>3, <1>4, <1>5, <1>6, <1>7, <1>8 DEF Next

\* The watchlist's run collects a batch that is alike under all spellings.
LEMMA PricesKept ==
    ASSUME Typed, Alike, [Next]_vars
    PROVE  /\ prices' \in [busy : BOOLEAN, todo : SUBSET Keys, got : Batches]
           /\ prices'.todo # {} => prices'.busy = TRUE
           /\ SamePrice(prices'.got)
<1>0. /\ prices \in [busy : BOOLEAN, todo : SUBSET Keys, got : Batches]
      /\ prices.todo # {} => prices.busy = TRUE
      /\ SamePrice(prices.got)
    BY DEF Typed, Alike
<1>1. CASE prices' = prices
    BY <1>0, <1>1
<1>2. NoQuotes \in Batches /\ SamePrice(NoQuotes)
  <2>1. NoQuote \in Quotes
      BY QuoteAssumption DEF NoQuote, Quotes
  <2> QED
      BY <2>1, AliasClass DEF NoQuotes, Batches, SamePrice
<1>3. CASE FetchPrices
  <2>1. {Norm[k] : k \in Keys} \in SUBSET Keys
      BY QuoteAssumption
  <2>2. prices' = [busy |-> TRUE, todo |-> {Norm[k] : k \in Keys}, got |-> NoQuotes]
      BY <1>3 DEF FetchPrices
  <2> QED
      BY <1>2, <2>1, <2>2
<1>4. CASE CommitPrices
    BY <1>2, <1>4 DEF CommitPrices
<1>5. CASE \E k \in {Norm[x] : x \in Keys} : FetchChunk(k)
  <2>1. PICK k \in Keys, answered \in BOOLEAN :
          /\ k \in prices.todo
          /\ prices' = [prices EXCEPT
               !.todo = @ \ {k},
               !.got = [x \in Keys |-> IF answered /\ x \in Aliases[k]
                                       THEN Answer({k}, "bare")[k] ELSE @[x]]]
      BY <1>0, <1>5 DEF FetchChunk
  <2> DEFINE q == Answer({k}, "bare")[k]
             got == [x \in Keys |-> IF answered /\ x \in Aliases[k] THEN q ELSE prices.got[x]]
  <2>2. Answer({k}, "bare") \in Batches
      BY AnswerSound DEF Typed
  <2>3. q \in Quotes
      BY <2>2 DEF Batches
  <2>4. /\ prices'.busy = prices.busy /\ prices'.todo = prices.todo \ {k} /\ prices'.got = got
        /\ prices' \in [busy : BOOLEAN, todo : SUBSET Keys, got : {got}]
      BY <1>0, <2>1
  <2> HIDE DEF q
  <2>5. got \in Batches
      BY <1>0, <2>3 DEF Batches
  <2>6. SamePrice(got)
    <3> SUFFICES ASSUME NEW x \in Keys, NEW a \in Aliases[x]
                 PROVE  got[a].v = got[x].v
        BY DEF SamePrice
    <3>1. a \in Keys /\ Aliases[a] = Aliases[x] /\ x \in Aliases[a]
        BY AliasClass
    <3>2. a \in Aliases[k] <=> x \in Aliases[k]
        BY <3>1, QuoteAssumption
    <3>3. prices.got[a].v = prices.got[x].v
        BY <1>0 DEF SamePrice
    <3> QED
        BY <3>1, <3>2, <3>3
  <2> HIDE DEF got
  <2> QED
      BY <1>0, <2>1, <2>4, <2>5, <2>6
<1>6. CASE \/ UNCHANGED vars \/ Tick \/ ReceiveTick \/ ConnectAndHydrate \/ Disconnect
           \/ (\E s \in Symbols : Trade(s)) \/ \E k \in {Norm[x] : x \in Keys} : PollQuote(k)
    BY <1>1, <1>6 DEF vars, Tick, ReceiveTick, ConnectAndHydrate, Disconnect, Trade, PollQuote
<1>7. CASE \/ HydrateAnswers \/ QuoteAnswers \/ PollHoldings \/ HoldingsAnswer \/ CallFails
           \/ SessionChanges \/ applyToStores
    BY <1>1, <1>7 DEF HydrateAnswers, QuoteAnswers, PollHoldings, HoldingsAnswer, CallFails,
                      SessionChanges, applyToStores
<1>8. CASE ReconSteps
    BY <1>1, <1>8, ReconFrame
<1> QED
    BY <1>3, <1>4, <1>5, <1>6, <1>7, <1>8 DEF Next, ReconSteps

\* The trades, the clock and the socket keep their types.
LEMMA FlowKept ==
    ASSUME Typed, [Next]_vars
    PROVE  /\ now' \in 1..MaxTime /\ trades' \in 0..MaxTrades
           /\ tape' \in [Symbols -> Quotes]
           /\ ws' \in [up : BOOLEAN, queue : Seq(Ticks)]
           /\ Len(ws'.queue) <= MaxQueue /\ (ws'.queue # <<>> => ws'.up = TRUE)
<1>0. /\ now \in 1..MaxTime /\ trades \in 0..MaxTrades
      /\ tape \in [Symbols -> Quotes]
      /\ ws \in [up : BOOLEAN, queue : Seq(Ticks)]
      /\ Len(ws.queue) <= MaxQueue /\ (ws.queue # <<>> => ws.up = TRUE)
      /\ MaxTime \in Nat /\ MaxTrades \in Nat /\ MaxQueue \in Nat
    BY QuoteAssumption DEF Typed
<1>1. CASE UNCHANGED <<now, tape, trades, ws>>
    BY <1>0, <1>1
<1>2. CASE Tick
    BY <1>0, <1>2 DEF Tick
<1>3. CASE \E s \in Symbols : Trade(s)
  <2> DEFINE q == [v |-> trades + 1, ts |-> now, seq |-> trades + 1]
  <2>1. PICK s \in Symbols :
          /\ trades < MaxTrades /\ trades' = trades + 1 /\ now' = now
          /\ tape' = [tape EXCEPT ![s] = q]
          /\ \/ /\ ws.up /\ Len(ws.queue) < MaxQueue
                /\ ws' = [ws EXCEPT !.queue = Append(@, [sym |-> s, q |-> q])]
             \/ ~ws.up /\ ws' = ws
      BY <1>3 DEF Trade
  <2>2. q \in Quotes
      BY <1>0, <2>1 DEF Quotes
  <2> HIDE DEF q
  <2> DEFINE tick == [sym |-> s, q |-> q]
  <2>3. tick \in Ticks
      BY <2>2 DEF Ticks
  <2> HIDE DEF tick
  <2>4. CASE ws.up /\ Len(ws.queue) < MaxQueue /\ ws' = [ws EXCEPT !.queue = Append(@, tick)]
    <3>1. ws.up = TRUE
        BY <1>0, <2>4
    <3>2. /\ ws'.up = TRUE /\ ws'.queue = Append(ws.queue, tick)
          /\ ws' = [up |-> TRUE, queue |-> Append(ws.queue, tick)]
        BY <1>0, <2>4, <3>1
    <3>3. Append(ws.queue, tick) \in Seq(Ticks) /\ Len(Append(ws.queue, tick)) = Len(ws.queue) + 1
        BY <1>0, <2>3
    <3>4. Len(ws.queue) \in Nat
        BY <1>0
    <3>5. ws' \in [up : BOOLEAN, queue : Seq(Ticks)]
        BY <3>2, <3>3
    <3>6. Len(ws.queue) + 1 <= MaxQueue
        BY <1>0, <2>4, <3>4
    <3>7. Len(ws'.queue) <= MaxQueue
        BY <3>2, <3>3, <3>6
    <3> QED
        BY <1>0, <2>1, <2>2, <3>2, <3>5, <3>7
  <2>5. CASE ws' = ws
      BY <1>0, <2>1, <2>2, <2>5
  <2> QED
      BY <2>1, <2>4, <2>5 DEF tick
<1>4. CASE ReceiveTick
  <2>1. ws' = [ws EXCEPT !.queue = Tail(@)] /\ ws.queue # <<>> /\ UNCHANGED <<now, tape, trades>>
      BY <1>4 DEF ReceiveTick
  <2>2. Tail(ws.queue) \in Seq(Ticks) /\ Len(Tail(ws.queue)) = Len(ws.queue) - 1
      BY <1>0, <2>1
  <2>3. Len(ws.queue) \in Nat
      BY <1>0
  <2>4. ws'.queue = Tail(ws.queue) /\ ws'.up = TRUE /\ ws' \in [up : BOOLEAN, queue : Seq(Ticks)]
      BY <1>0, <2>1, <2>2
  <2> QED
      BY <1>0, <2>1, <2>2, <2>3, <2>4
<1>5. CASE ConnectAndHydrate
    BY <1>0, <1>5 DEF ConnectAndHydrate
<1>6. CASE Disconnect
    BY <1>0, <1>6 DEF Disconnect
<1>7. CASE \/ HydrateAnswers \/ QuoteAnswers \/ PollHoldings \/ HoldingsAnswer \/ CallFails
           \/ \E k \in {Norm[x] : x \in Keys} : PollQuote(k) \/ FetchChunk(k)
  <2>1. UNCHANGED <<now, tape, trades, ws>>
      BY <1>7 DEF HydrateAnswers, QuoteAnswers, PollHoldings, HoldingsAnswer, CallFails,
                  PollQuote, FetchChunk
  <2> QED
      BY <1>1, <2>1
<1>8. CASE \/ UNCHANGED vars \/ FetchPrices \/ CommitPrices
           \/ SessionChanges \/ applyToStores \/ ReconSteps
  <2>1. UNCHANGED <<now, tape, trades, ws>>
      BY <1>8, ReconFrame DEF vars, FetchPrices, CommitPrices, SessionChanges, applyToStores
  <2> QED
      BY <1>1, <2>1
<1> QED
    BY <1>2, <1>3, <1>4, <1>5, <1>6, <1>7, <1>8 DEF Next, ReconSteps

\* So do the flags of the requests.
LEMMA FlagsKept ==
    ASSUME Typed, [Next]_vars
    PROVE  hydrating' \in BOOLEAN /\ open' \in BOOLEAN
<1>0. hydrating \in BOOLEAN /\ open \in BOOLEAN
    BY DEF Typed
<1>1. CASE ConnectAndHydrate \/ HydrateAnswers \/ CallFails
    BY <1>0, <1>1 DEF ConnectAndHydrate, HydrateAnswers, CallFails
<1>2. CASE SessionChanges \/ applyToStores \/ ReconSteps
    BY <1>0, <1>2, ReconFrame DEF SessionChanges, applyToStores
<1>3. CASE \/ UNCHANGED vars \/ Tick \/ ReceiveTick \/ Disconnect
           \/ (\E s \in Symbols : Trade(s))
           \/ \E k \in {Norm[x] : x \in Keys} : PollQuote(k) \/ FetchChunk(k)
    BY <1>0, <1>3 DEF vars, Tick, ReceiveTick, Disconnect, Trade, PollQuote, FetchChunk
<1>4. CASE \/ QuoteAnswers \/ PollHoldings \/ HoldingsAnswer \/ FetchPrices \/ CommitPrices
    BY <1>0, <1>4 DEF QuoteAnswers, PollHoldings, HoldingsAnswer, FetchPrices, CommitPrices
<1> QED
    BY <1>1, <1>2, <1>3, <1>4 DEF Next, ReconSteps

\* A reconciliation keeps its type, its quotes stay alike under all spellings, and what
\* it has stamped stays in the cache until the stores have it.
LEMMA ReconKept ==
    ASSUME Typed, Alike, [Next]_vars
    PROVE  /\ recon' \in Recons /\ eod' \in Prices /\ SamePrice(recon'.got)
           /\ recon'.phase = "stamped" =>
                \A k \in Keys : recon'.got[k].v # 0 => eod'[k] = recon'.got[k].v
<1> DEFINE Good(r, cache) ==
             /\ r \in Recons /\ cache \in Prices /\ SamePrice(r.got)
             /\ r.phase = "stamped" => \A k \in Keys : r.got[k].v # 0 => cache[k] = r.got[k].v
<1>0. Good(recon, eod)
    BY DEF Typed, Alike
<1>1. /\ recon \in Recons /\ eod \in Prices /\ SamePrice(recon.got)
      /\ recon.due \in BOOLEAN /\ recon.phase \in Phases /\ recon.todo \in SUBSET Keys
      /\ recon.official \in {"none", "yes", "no"} /\ recon.got \in Batches
    BY DEF Typed, Alike, Recons
<1>2. NoQuotes \in Batches /\ SamePrice(NoQuotes)
  <2>1. NoQuote \in Quotes
      BY QuoteAssumption DEF NoQuote, Quotes
  <2> QED
      BY <2>1, AliasClass DEF NoQuotes, Batches, SamePrice
<1>3. ASSUME NEW due \in BOOLEAN, NEW phase \in Phases, NEW todo \in SUBSET Keys,
             NEW official \in {"none", "yes", "no"}, NEW got \in Batches,
             SamePrice(got), phase # "stamped"
      PROVE  Good(Recon(due, phase, todo, official, got), eod)
  <2> DEFINE r == Recon(due, phase, todo, official, got)
  <2>1. r \in Recons
      BY DEF Recon, Recons
  <2>2. r.phase = phase /\ r.got = got
      BY DEF Recon
  <2> HIDE DEF r
  <2>3. Good(r, eod)
      BY <1>1, <1>3, <2>1, <2>2
  <2> QED
      BY <2>3 DEF r
<1>4. ASSUME NEW due \in BOOLEAN
      PROVE  Good(Recon(due, recon.phase, recon.todo, recon.official, recon.got), eod)
  <2> DEFINE r == Recon(due, recon.phase, recon.todo, recon.official, recon.got)
  <2>1. r \in Recons
      BY <1>1 DEF Recon, Recons
  <2>2. r.phase = recon.phase /\ r.got = recon.got
      BY DEF Recon
  <2> HIDE DEF r
  <2>3. Good(r, eod)
      BY <1>0, <2>1, <2>2
  <2> QED
      BY <2>3 DEF r
<1>5. TRUE \in BOOLEAN /\ FALSE \in BOOLEAN /\ "none" \in {"none", "yes", "no"}
      /\ {"idle", "fetch", "chunk", "stamped", "ticker"} = Phases /\ {} \in SUBSET Keys
    BY DEF Phases
<1> SUFFICES Good(recon', eod')
    OBVIOUS
<1> HIDE DEF Good
<1>6. CASE recon' = recon /\ eod' = eod
    BY <1>0, <1>6
<1>7. CASE CallFails
  <2>1. /\ eod' = eod
        /\ \/ recon' = recon
           \/ recon' = Recon(recon.due, "fetch", recon.todo, recon.official, recon.got)
      BY <1>7 DEF CallFails
  <2> QED
      BY <1>0, <1>1, <1>3, <1>5, <2>1
<1>8. CASE SessionChanges
  <2>1. /\ eod' = eod
        /\ \/ recon' = recon
           \/ recon' = Recon(TRUE, recon.phase, recon.todo, recon.official, recon.got)
      BY <1>8 DEF SessionChanges
  <2> QED
      BY <1>0, <1>4, <1>5, <2>1
<1>9. CASE executeReconciliation
  <2>1. {Norm[k] : k \in Keys} \in SUBSET Keys
      BY QuoteAssumption
  <2>2. PICK symbols \in {{}, {Norm[k] : k \in Keys}} :
            recon' = IF recon.phase # "idle" \/ open
                     THEN Recon(FALSE, recon.phase, recon.todo, recon.official, recon.got)
                     ELSE Recon(FALSE, "fetch", symbols, "none", NoQuotes)
      BY <1>9 DEF executeReconciliation
  <2>3. symbols \in SUBSET Keys /\ eod' = eod
      BY <1>9, <2>1 DEF executeReconciliation
  <2>4. Good(Recon(FALSE, "fetch", symbols, "none", NoQuotes), eod)
      BY <1>2, <1>3, <1>5, <2>3
  <2> QED
      BY <1>4, <1>5, <2>2, <2>3, <2>4
<1>10. CASE \E k \in Keys : fetchBatchQuotes(k)
  <2>1. PICK k \in Keys :
            recon' = Recon(recon.due, "chunk", recon.todo \ {k}, recon.official, recon.got)
      BY <1>10 DEF fetchBatchQuotes
  <2>2. eod' = eod /\ recon.todo \ {k} \in SUBSET Keys
      BY <1>1, <1>10 DEF fetchBatchQuotes
  <2> QED
      BY <1>1, <1>3, <1>5, <2>1, <2>2
<1>11. CASE ChunkAnswers
  <2>1. PICK c \in calls, marked \in OfficialAnswers :
          /\ c.kind = "eod"
          /\ LET official == IF recon.official # "none" THEN recon.official
                             ELSE IF c.official = TRUE THEN "yes" ELSE "no"
                 got == [k \in Keys |->
                            IF c.quotes[k].v # 0 /\ isOfficialBackendQuote(marked, official)
                            THEN c.quotes[k] ELSE recon.got[k]]
             IN  recon' = Recon(recon.due, "fetch", recon.todo, official, got)
      BY <1>11 DEF ChunkAnswers
  <2> DEFINE official == IF recon.official # "none" THEN recon.official
                         ELSE IF c.official = TRUE THEN "yes" ELSE "no"
             counts == isOfficialBackendQuote(marked, official)
             got == [k \in Keys |-> IF c.quotes[k].v # 0 /\ counts
                                    THEN c.quotes[k] ELSE recon.got[k]]
  <2>2. recon' = Recon(recon.due, "fetch", recon.todo, official, got) /\ eod' = eod
      BY <1>11, <2>1 DEF ChunkAnswers
  <2>3. official \in {"none", "yes", "no"}
      BY <1>1
  <2> HIDE DEF official, counts
  <2>4. c.quotes \in Batches /\ SamePrice(c.quotes)
      BY <2>1 DEF Typed, Callings, Alike
  <2>5. got \in Batches
      BY <1>1, <2>4 DEF Batches
  <2>6. SamePrice(got)
    <3> SUFFICES ASSUME NEW x \in Keys, NEW a \in Aliases[x]
                 PROVE  got[a].v = got[x].v
        BY DEF SamePrice
    <3>1. a \in Keys /\ c.quotes[a].v = c.quotes[x].v /\ recon.got[a].v = recon.got[x].v
        BY <1>1, <2>4, AliasClass DEF SamePrice
    <3> QED
        BY <3>1
  <2> HIDE DEF got
  <2> QED
      BY <1>1, <1>3, <1>5, <2>2, <2>3, <2>5, <2>6
<1>12. CASE stampEODQuotes
  <2> DEFINE cache == [k \in Keys |-> IF recon.got[k].v = 0 THEN eod[k] ELSE recon.got[k].v]
             r == Recon(recon.due, "stamped", {}, "none", recon.got)
  <2>1. recon' = r /\ eod' = cache
      BY <1>12 DEF stampEODQuotes
  <2>2. Priced(recon.got)
      BY <1>1, BatchPriced
  <2>3. cache \in Prices
      BY <1>1, <2>2 DEF Prices, Priced
  <2>4. r \in Recons /\ r.got = recon.got
      BY <1>1, <1>5 DEF Recon, Recons
  <2>5. \A k \in Keys : recon.got[k].v # 0 => cache[k] = recon.got[k].v
      OBVIOUS
  <2> HIDE DEF cache, r
  <2>6. Good(r, cache)
      BY <1>1, <2>3, <2>4, <2>5 DEF Good
  <2> QED
      BY <2>1, <2>6
<1>13. CASE applyToStores
  <2>1. recon' = Recon(recon.due, "ticker", {}, "none", NoQuotes) /\ eod' = eod
      BY <1>13 DEF applyToStores
  <2> QED
      BY <1>1, <1>2, <1>3, <1>5, <2>1
<1>14. CASE reconcileTickerAndIndices
  <2>1. recon' = Recon(recon.due, "idle", {}, "none", NoQuotes) /\ eod' = eod
      BY <1>14 DEF reconcileTickerAndIndices
  <2> QED
      BY <1>1, <1>2, <1>3, <1>5, <2>1
<1>15. CASE \/ UNCHANGED vars \/ Tick \/ ReceiveTick \/ ConnectAndHydrate \/ Disconnect
            \/ (\E s \in Symbols : Trade(s))
            \/ \E k \in {Norm[x] : x \in Keys} : PollQuote(k) \/ FetchChunk(k)
    BY <1>6, <1>15 DEF vars, Tick, ReceiveTick, ConnectAndHydrate, Disconnect, Trade, PollQuote,
                       FetchChunk
<1>16. CASE \/ HydrateAnswers \/ QuoteAnswers \/ PollHoldings \/ HoldingsAnswer
            \/ FetchPrices \/ CommitPrices
    BY <1>6, <1>16 DEF HydrateAnswers, QuoteAnswers, PollHoldings, HoldingsAnswer,
                       FetchPrices, CommitPrices
<1> QED
    BY <1>7, <1>8, <1>9, <1>10, <1>11, <1>12, <1>13, <1>14, <1>15, <1>16 DEF Next

LEMMA TypedKept ==
    ASSUME Typed, Alike, Chrono, [Next]_vars
    PROVE  Typed'
<1>1. mem' \in Memory
    BY MemoryKept DEF Kind
<1>2. eod' \in Prices /\ recon' \in Recons
    BY ReconKept
<1>3. calls' \subseteq Callings
    BY NewCalls DEF Typed
<1>4. /\ prices' \in [busy : BOOLEAN, todo : SUBSET Keys, got : Batches]
      /\ prices'.todo # {} => prices'.busy = TRUE
    BY PricesKept
<1> QED
    BY <1>1, <1>2, <1>3, <1>4, FlowKept, FlagsKept DEF Typed

LEMMA AlikeKept ==
    ASSUME Typed, Alike, Chrono, [Next]_vars
    PROVE  Alike'
<1>1. StoreAgrees(mem') /\ WatchAgrees(mem')
    BY MemoryKept DEF Kind, Alike
<1>2. \A c \in calls' : c.kind = "eod" => SamePrice(c.quotes)
    BY NewCalls DEF Alike
<1>3. SamePrice(prices'.got)
    BY PricesKept
<1>4. /\ SamePrice(recon'.got)
      /\ recon'.phase = "stamped" =>
           \A k \in Keys : recon'.got[k].v # 0 => eod'[k] = recon'.got[k].v
    BY ReconKept
<1> QED
    BY <1>1, <1>2, <1>3, <1>4 DEF Alike, StoreAgrees, WatchAgrees, SamePrice

\* Where the authority has a new entry, it was newer than the old one, if it has a
\* time it was made of a stamped quote, and if it is a tick every store shows it.
LEMMA AuthStep ==
    ASSUME Typed, Alike, Chrono, [Next]_vars, NEW k \in Keys, mem'.auth[k] # mem.auth[k]
    PROVE  /\ shouldAccept(mem.auth[k], mem'.auth[k])
           /\ mem'.auth[k] \in Entries
           /\ mem'.auth[k].ts # 0 => QuoteOf(mem'.auth[k]) \in Stamped
           /\ mem'.auth[k].src = "live" =>
                \A a \in Aliases[k] :
                  /\ mem'.store[a].v = mem'.auth[k].v
                  /\ mem'.watch[a].v = mem'.auth[k].v
                  /\ a \in Held => mem'.marks[a] = mem'.auth[k].v
<1>0. mem \in Memory /\ now \in 0..MaxTime /\ mem' \in Memory
  <2>1. mem \in Memory /\ now \in 0..MaxTime
      BY QuoteAssumption DEF Typed
  <2>2. mem' \in Memory
      BY MemoryKept DEF Kind
  <2> QED
      BY <2>1, <2>2
<1>1. mem'.auth[k] \in Entries
    BY <1>0 DEF Memory
<1>2. CASE ReceiveTick
  <2> DEFINE q == Head(ws.queue).q
             sym == Head(ws.queue).sym
  <2>0. PICK src \in TickSources : mem' = applyIncomingQuote(mem, sym, q, src)
      BY <1>2 DEF ReceiveTick
  <2> DEFINE t == applyIncomingQuote(mem, sym, q, src)
  <2>1. mem' = t /\ ws.queue # <<>> /\ src \in Sources
      BY <1>2, <2>0, QuoteAssumption DEF ReceiveTick, Sources
  <2>2. sym \in Symbols /\ q \in Quotes /\ q \in Stamped /\ q.v # 0 /\ q.seq # 0
      BY <2>1, HeadTick
  <2> HIDE DEF q, sym
  <2>3. Kind(mem, t) /\ Ticked(mem, t, q)
      BY <1>0, <2>1, <2>2, TickSound
  <2> HIDE DEF t
  <2>4. /\ mem'.auth[k] = Kept(q) /\ shouldAccept(mem.auth[k], Kept(q))
        /\ \A a \in Aliases[k] :
             /\ mem'.store[a].v = q.v /\ mem'.watch[a].v = q.v
             /\ a \in Held => mem'.marks[a] = q.v
      BY <2>1, <2>3 DEF Ticked
  <2>5. q = QuoteOf(Kept(q)) /\ Kept(q).v = q.v
      BY <2>2 DEF Quotes, QuoteOf, Kept
  <2> QED
      BY <1>1, <2>2, <2>4, <2>5
<1>3. CASE HydrateAnswers
  <2>1. PICK c \in calls : mem' = ingest(mem, c.quotes, "poll")
      BY <1>3 DEF HydrateAnswers
  <2> DEFINE q == c.quotes[k]
             e == Incoming(mem, k, q, "poll")
             t == ingest(mem, c.quotes, "poll")
  <2>2. c.quotes \in Batches /\ "poll" \in Sources /\ q \in Quotes
      BY DEF Typed, Callings, Sources, Batches
  <2>3. /\ t \in Memory
        /\ StoreAgrees(mem) => StoreAgrees(t)
        /\ WatchAgrees(mem) => WatchAgrees(t)
        /\ \A x \in Keys :
             \/ t.auth[x] = mem.auth[x]
             \/ /\ x \in Sent(c.quotes)
                /\ shouldAccept(mem.auth[x], Incoming(mem, x, c.quotes[x], "poll"))
                /\ t.auth[x] = Incoming(mem, x, c.quotes[x], "poll")
      BY <1>0, <2>2, IngestSound
  <2> HIDE DEF t
  <2>4. mem'.auth[k] = e /\ shouldAccept(mem.auth[k], e)
      BY <2>1, <2>3 DEF t
  <2>5. e.v = q.v /\ e.ts = q.ts /\ e.src = "poll" /\ (q.seq # 0 => e.seq = q.seq)
      BY DEF Incoming
  <2>6. q.ts # 0 => q \in Stamped
      BY DEF Stamped, CallQuotes
  <2>7. q.ts # 0 => q.seq # 0
    <3> SUFFICES ASSUME q.ts # 0 PROVE q.seq # 0
        OBVIOUS
    <3>1. q.v \in 1..trades /\ q.seq = q.v
        BY <2>6 DEF Chrono
    <3> QED
        BY <3>1 DEF Typed
  <2>8. q.ts # 0 => QuoteOf(e) = q
      BY <2>2, <2>5, <2>7 DEF QuoteOf, Quotes
  <2> HIDE DEF e, q
  <2> QED
      BY <1>1, <2>4, <2>5, <2>6, <2>8
<1>4. CASE mem'.auth = mem.auth
    BY <1>4
<1>5. CASE \/ QuoteAnswers \/ HoldingsAnswer \/ CommitPrices \/ applyToStores
    BY <1>4, <1>5, PolledMemory, CommittedMemory, ReconciledMemory
<1>6. CASE \/ UNCHANGED vars \/ Tick \/ ConnectAndHydrate \/ Disconnect
           \/ (\E s \in Symbols : Trade(s))
           \/ \E x \in {Norm[y] : y \in Keys} : PollQuote(x) \/ FetchChunk(x)
  <2>1. mem' = mem
      BY <1>6 DEF vars, Tick, ConnectAndHydrate, Disconnect, Trade, PollQuote, FetchChunk
  <2> QED
      BY <1>4, <2>1
<1>7. CASE \/ PollHoldings \/ CallFails \/ FetchPrices \/ SessionChanges \/ ReconSteps
  <2>1. mem' = mem
      BY <1>7, ReconFrame DEF PollHoldings, CallFails, FetchPrices, SessionChanges
  <2> QED
      BY <1>4, <2>1
<1> QED
    BY <1>2, <1>3, <1>5, <1>6, <1>7 DEF Next, ReconSteps

\* A trade of this step.
Fresh == [v |-> trades + 1, ts |-> now, seq |-> trades + 1]

\* The backend's side of a step: nothing new on the tape and on the socket, or the
\* fresh trade.
LEMMA FeedStep ==
    ASSUME Typed, [Next]_vars
    PROVE  \/ /\ trades' = trades /\ now' >= now
              /\ TapeQuotes' \subseteq TapeQuotes /\ QueueQuotes' \subseteq QueueQuotes
           \/ /\ trades' = trades + 1 /\ now' = now
              /\ TapeQuotes' \subseteq TapeQuotes \cup {Fresh}
              /\ QueueQuotes' \subseteq QueueQuotes \cup {Fresh}
<1>0. ws \in [up : BOOLEAN, queue : Seq(Ticks)] /\ now \in Nat
    BY QuoteAssumption DEF Typed
<1>1. CASE UNCHANGED <<trades, tape, ws>> /\ now' \in {now, now + 1}
    BY <1>0, <1>1 DEF TapeQuotes, QueueQuotes
<1>2. CASE \E s \in Symbols : Trade(s)
  <2>1. PICK s \in Symbols :
          /\ trades' = trades + 1 /\ now' = now
          /\ tape' = [tape EXCEPT ![s] = Fresh]
          /\ \/ ws' = [ws EXCEPT !.queue = Append(@, [sym |-> s, q |-> Fresh])]
             \/ ws' = ws
      BY <1>2 DEF Trade, Fresh
  <2>2. TapeQuotes' \subseteq TapeQuotes \cup {Fresh}
      BY <2>1 DEF TapeQuotes, Typed
  <2>3. QueueQuotes' \subseteq QueueQuotes \cup {Fresh}
    <3> DEFINE tick == [sym |-> s, q |-> Fresh]
    <3>0. tick.q = Fresh
        OBVIOUS
    <3> HIDE DEF tick
    <3>1. CASE ws' = [ws EXCEPT !.queue = Append(@, tick)]
      <4>1. ws'.queue = Append(ws.queue, tick) /\ ws.queue \in Seq(Ticks)
          BY <1>0, <3>1
      <4>2. Len(ws'.queue) = Len(ws.queue) + 1 /\ Len(ws.queue) \in Nat
          BY <4>1
      <4>3. ASSUME NEW i \in 1..Len(ws'.queue)
            PROVE  ws'.queue[i].q \in QueueQuotes \cup {Fresh}
        <5>1. CASE i \in 1..Len(ws.queue)
          <6>1. ws'.queue[i] = ws.queue[i]
              BY <4>1, <5>1
          <6> QED
              BY <5>1, <6>1 DEF QueueQuotes
        <5>2. CASE i = Len(ws.queue) + 1
          <6>1. ws'.queue[i] = tick
              BY <4>1, <5>2
          <6> QED
              BY <3>0, <6>1
        <5> QED
            BY <4>2, <5>1, <5>2
      <4> QED
          BY <4>3 DEF QueueQuotes
    <3>2. CASE ws' = ws
        BY <3>2 DEF QueueQuotes
    <3> QED
        BY <2>1, <3>1, <3>2 DEF tick
  <2> QED
      BY <2>1, <2>2, <2>3
<1>3. CASE ReceiveTick
  <2>1. ws' = [ws EXCEPT !.queue = Tail(@)] /\ ws.queue # <<>> /\ UNCHANGED <<now, tape, trades>>
      BY <1>3 DEF ReceiveTick
  <2>2. /\ ws'.queue = Tail(ws.queue) /\ Len(ws'.queue) = Len(ws.queue) - 1
        /\ Len(ws.queue) \in Nat /\ ws.queue \in Seq(Ticks)
      BY <1>0, <2>1
  <2>3. \A i \in 1..Len(ws'.queue) : i + 1 \in 1..Len(ws.queue) /\ ws'.queue[i] = ws.queue[i + 1]
      BY <2>1, <2>2
  <2>4. \A i \in 1..Len(ws'.queue) : ws'.queue[i].q \in QueueQuotes
      BY <2>3 DEF QueueQuotes
  <2>5. QueueQuotes' \subseteq QueueQuotes
      BY <2>4 DEF QueueQuotes
  <2> QED
      BY <1>0, <2>1, <2>5 DEF TapeQuotes
<1>4. CASE ConnectAndHydrate
  <2>1. ws'.queue = ws.queue /\ UNCHANGED <<now, tape, trades>>
      BY <1>0, <1>4 DEF ConnectAndHydrate
  <2> QED
      BY <1>0, <2>1 DEF TapeQuotes, QueueQuotes
<1>5. CASE Disconnect
  <2>1. ws'.queue = <<>> /\ UNCHANGED <<now, tape, trades>>
      BY <1>0, <1>5 DEF Disconnect
  <2> QED
      BY <1>0, <2>1 DEF TapeQuotes, QueueQuotes
<1>6. CASE \/ Tick \/ HydrateAnswers \/ QuoteAnswers \/ PollHoldings \/ HoldingsAnswer \/ CallFails
           \/ \E k \in {Norm[x] : x \in Keys} : PollQuote(k) \/ FetchChunk(k)
  <2>1. UNCHANGED <<trades, tape, ws>> /\ now' \in {now, now + 1}
      BY <1>6 DEF Tick, HydrateAnswers, QuoteAnswers, PollHoldings, HoldingsAnswer, CallFails,
                  PollQuote, FetchChunk
  <2> QED
      BY <1>1, <2>1
<1>7. CASE \/ UNCHANGED vars \/ FetchPrices \/ CommitPrices
           \/ SessionChanges \/ applyToStores \/ ReconSteps
  <2>1. UNCHANGED <<trades, tape, ws>> /\ now' \in {now, now + 1}
      BY <1>7, ReconFrame DEF vars, FetchPrices, CommitPrices, SessionChanges, applyToStores
  <2> QED
      BY <1>1, <2>1
<1> QED
    BY <1>2, <1>3, <1>4, <1>5, <1>6, <1>7 DEF Next, ReconSteps

\* What is stamped after a step was so before it, or is the fresh trade.
LEMMA StampedStep ==
    ASSUME Typed, Alike, Chrono, [Next]_vars, NEW q \in Stamped'
    PROVE  q \in Stamped \/ (q = Fresh /\ trades' = trades + 1 /\ now' = now)
<1>1. q \in TapeQuotes' \cup QueueQuotes' \cup CallQuotes' \cup AuthQuotes' /\ q.ts # 0
    BY DEF Stamped
<1>2. CASE q \in TapeQuotes' \cup QueueQuotes'
    BY <1>1, <1>2, FeedStep DEF Stamped
<1>3. CASE q \in CallQuotes'
  <2>1. PICK c \in calls', k \in Keys : q = c.quotes[k]
      BY <1>3 DEF CallQuotes
  <2>2. CASE c \in calls
      BY <1>1, <2>1, <2>2 DEF Stamped, CallQuotes
  <2>3. CASE c \notin calls
      BY <1>1, <2>1, <2>3, NewCalls DEF Stamped
  <2> QED
      BY <2>2, <2>3
<1>4. CASE q \in AuthQuotes'
  <2>1. PICK k \in Keys : q = QuoteOf(mem'.auth[k])
      BY <1>4 DEF AuthQuotes, QuoteOf
  <2>2. mem'.auth[k].ts # 0
      BY <1>1, <2>1 DEF QuoteOf
  <2>3. CASE mem'.auth[k] = mem.auth[k]
      BY <1>1, <2>1, <2>3 DEF Stamped, AuthQuotes
  <2>4. CASE mem'.auth[k] # mem.auth[k]
      BY <2>1, <2>2, <2>4, AuthStep
  <2> QED
      BY <2>3, <2>4
<1> QED
    BY <1>1, <1>2, <1>3, <1>4

LEMMA StampedTimes == ASSUME Typed PROVE \A q \in Stamped : q.ts \in Nat
<1>0. MaxTime \in Nat
    BY QuoteAssumption
<1>1. \A q \in TapeQuotes : q.ts \in 0..MaxTime
    BY DEF Typed, TapeQuotes, Quotes
<1>2. \A q \in QueueQuotes : q.ts \in 0..MaxTime
  <2>1. ws.queue \in Seq(Ticks)
      BY DEF Typed
  <2>2. \A i \in 1..Len(ws.queue) : ws.queue[i] \in Ticks
      BY <2>1
  <2>3. \A i \in 1..Len(ws.queue) : ws.queue[i].q.ts \in 0..MaxTime
      BY <2>2 DEF Ticks, Quotes
  <2> QED
      BY <2>3 DEF QueueQuotes
<1>3. \A q \in CallQuotes : q.ts \in 0..MaxTime
    BY DEF Typed, CallQuotes, Callings, Batches, Quotes
<1>4. \A q \in AuthQuotes : q.ts \in 0..MaxTime
    BY DEF Typed, AuthQuotes, QuoteOf, Memory, Entries
<1> QED
    BY <1>0, <1>1, <1>2, <1>3, <1>4 DEF Stamped

LEMMA ChronoKept ==
    ASSUME Typed, Alike, Chrono, [Next]_vars
    PROVE  Chrono'
<1>1. /\ trades \in Nat /\ now \in Nat /\ now # 0
      /\ \A q \in Stamped : q.v \in 1..trades /\ q.seq = q.v /\ q.ts <= now /\ q.ts \in Nat
      /\ \A q, r \in Stamped : q.ts < r.ts => q.v < r.v
      /\ \A q \in QueueQuotes : q.ts # 0
  <2>1. MaxTime \in Nat /\ MaxTrades \in Nat /\ now \in 1..MaxTime /\ trades \in 0..MaxTrades
      BY QuoteAssumption DEF Typed
  <2>2. \A q \in QueueQuotes : q.ts # 0
      BY DEF Chrono, QueueQuotes
  <2>3. /\ \A q \in Stamped : q.v \in 1..trades /\ q.seq = q.v /\ q.ts <= now
        /\ \A q, r \in Stamped : q.ts < r.ts => q.v < r.v
      BY DEF Chrono
  <2> QED
      BY <2>1, <2>2, <2>3, StampedTimes
<1>2. Fresh.v = trades + 1 /\ Fresh.ts = now /\ Fresh.seq = trades + 1
    BY DEF Fresh
<1>3. trades' \in {trades, trades + 1} /\ now' \in Nat /\ now' >= now
  <2>0. MaxTime \in Nat /\ now' \in 1..MaxTime
      BY FlowKept, QuoteAssumption
  <2>1. now' \in Nat
      BY <2>0
  <2> QED
      BY <1>1, <2>1, FeedStep
<1>4. ASSUME NEW q \in Stamped'
      PROVE  q.v \in 1..trades' /\ q.seq = q.v /\ q.ts <= now' /\ q.ts \in Nat
  <2>1. CASE q \in Stamped
      BY <1>1, <1>3, <2>1
  <2>2. CASE q = Fresh /\ trades' = trades + 1 /\ now' = now
      BY <1>1, <1>2, <2>2
  <2> QED
      BY <2>1, <2>2, StampedStep
<1>5. ASSUME NEW q \in Stamped', NEW r \in Stamped', q.ts < r.ts
      PROVE  q.v < r.v
  <2>1. CASE q \in Stamped /\ r \in Stamped
      BY <1>1, <1>5, <2>1
  <2>2. CASE q = Fresh /\ now' = now
      BY <1>1, <1>2, <1>4, <1>5, <2>2
  <2>3. CASE q \in Stamped /\ r = Fresh
      BY <1>1, <1>2, <2>3
  <2> QED
      BY <2>1, <2>2, <2>3, StampedStep
<1>6. \A q \in QueueQuotes' : q.ts # 0
    BY <1>1, <1>2, FeedStep
<1>7. \A i \in 1..Len(ws'.queue) : ws'.queue[i].q.ts # 0
    BY <1>6 DEF QueueQuotes
<1> QED
    BY <1>4, <1>5, <1>7 DEF Chrono

\* The inductive invariant.
QInv == Typed /\ Alike /\ Chrono

LEMMA QInvStarts == Init => QInv
<1> SUFFICES ASSUME Init PROVE QInv
    OBVIOUS
<1>0. 0 \in 0..MaxTrades /\ 0 \in 0..MaxTime /\ 1 \in 1..MaxTime /\ 0 \in Nat /\ MaxQueue \in Nat
    BY QuoteAssumption
<1>1. NoQuote \in Quotes /\ NoQuotes \in Batches
    BY <1>0 DEF NoQuote, NoQuotes, Quotes, Batches
<1>2. /\ NoEntry \in Entries /\ NoRow \in Rows
      /\ [v |-> 0, src |-> "none"] \in Shown
    BY <1>0 DEF NoEntry, NoRow, Entries, Rows, Shown, Sources
<1>3. mem \in Memory
    BY <1>0, <1>2 DEF Init, Memory
<1>4. Typed
  <2>1. /\ now \in 1..MaxTime /\ trades \in 0..MaxTrades /\ tape \in [Symbols -> Quotes]
        /\ eod \in Prices
      BY <1>0, <1>1 DEF Init, Prices
  <2>2. /\ ws \in [up : BOOLEAN, queue : Seq(Ticks)]
        /\ Len(ws.queue) <= MaxQueue /\ (ws.queue # <<>> => ws.up = TRUE)
      BY <1>0 DEF Init
  <2>3. /\ prices \in [busy : BOOLEAN, todo : SUBSET Keys, got : Batches]
        /\ prices.todo # {} => prices.busy = TRUE
      BY <1>1 DEF Init
  <2>4. calls \subseteq Callings /\ hydrating \in BOOLEAN /\ open \in BOOLEAN
      BY DEF Init
  <2>5. recon \in Recons
    <3>1. \A due \in BOOLEAN : Recon(due, "idle", {}, "none", NoQuotes) \in Recons
        BY <1>1 DEF Recon, Recons, Phases
    <3> QED
        BY <3>1 DEF Init
  <2> QED
      BY <1>3, <2>1, <2>2, <2>3, <2>4, <2>5 DEF Typed
<1>5. Alike
  <2>0. recon.phase = "idle" /\ recon.got = NoQuotes
      BY DEF Init, Recon
  <2>1. \A k \in Keys : mem.store[k] = NoRow /\ mem.watch[k].v = 0 /\ prices.got[k] = NoQuote
                        /\ recon.got[k] = NoQuote
      BY <2>0 DEF Init, NoQuotes
  <2>2. calls = {}
      BY DEF Init
  <2> QED
      BY <2>0, <2>1, <2>2, AliasClass DEF Alike, StoreAgrees, WatchAgrees, SamePrice
<1>6. Chrono
  <2>1. \A q \in TapeQuotes \cup AuthQuotes : q.ts = 0
      BY DEF Init, TapeQuotes, AuthQuotes, QuoteOf, NoQuote, NoEntry
  <2>2. Len(ws.queue) = 0 /\ calls = {}
      BY DEF Init
  <2>3. Stamped = {}
      BY <2>1, <2>2 DEF Stamped, QueueQuotes, CallQuotes
  <2> QED
      BY <2>2, <2>3 DEF Chrono
<1> QED
    BY <1>4, <1>5, <1>6 DEF QInv

LEMMA QInvKept == ASSUME QInv, [Next]_vars PROVE QInv'
BY TypedKept, AlikeKept, ChronoKept DEF QInv

LEMMA QInvHolds == Spec => []QInv
BY QInvStarts, QInvKept, PTL DEF Spec

--------------------------------------------------------------------------------
(* The theorems. *)

\* However many symbols, spellings, ticks, polls and answers there are, in any
\* order: every map of the stores keeps its type, and ticks wait on open sockets only.
THEOREM TypesHold == Spec => []TypeOK
<1>1. Typed => TypeOK
    BY DEF Typed, TypeOK, Memory, Entries, Rows, Shown, Prices, Recons
<1> QED
    BY <1>1, QInvHolds, PTL DEF QInv

\* However ticks, polls, chunks of a watchlist and reconciliations write an instrument
\* under its spellings: the market store and the watchlist show one price under all of
\* them.
THEOREM SpellingsAlwaysAgree == Spec => []SpellingsAgree
<1>1. Alike => SpellingsAgree
    BY AliasClass DEF Alike, StoreAgrees, WatchAgrees, SpellingsAgree
<1> QED
    BY <1>1, QInvHolds, PTL DEF QInv

\* However late a tick or the answer of a hydration comes in: where the quotes carry
\* the exchange time the authority never goes back to an older trade.
THEOREM AuthorityKeepsOrder == Spec => AuthorityNeverRewinds
<1> DEFINE Forward == \A k \in Keys : mem.auth[k].ts # 0 /\ mem'.auth[k].ts # 0
                                        => mem'.auth[k].v >= mem.auth[k].v
<1>1. QInv /\ [Next]_vars => Forward
  <2> SUFFICES ASSUME QInv, [Next]_vars, NEW k \in Keys,
                      mem.auth[k].ts # 0, mem'.auth[k].ts # 0
               PROVE  mem'.auth[k].v >= mem.auth[k].v
      OBVIOUS
  <2> DEFINE e == mem.auth[k]
             f == mem'.auth[k]
  <2>1. e \in Entries /\ MaxTrades \in Nat
      BY QuoteAssumption DEF QInv, Typed, Memory
  <2>2. CASE f = e
      BY <2>1, <2>2 DEF Entries
  <2>3. CASE f # e
    <3>1. shouldAccept(e, f) /\ f \in Entries /\ QuoteOf(f) \in Stamped
        BY <2>3, AuthStep DEF QInv
    <3>2. QuoteOf(e) \in Stamped
        BY DEF Stamped, AuthQuotes, QuoteOf
    <3> HIDE DEF e, f
    <3>3. /\ e.v \in Nat /\ f.v \in Nat /\ e.ts \in Nat /\ f.ts \in Nat
          /\ e.seq = e.v /\ f.seq = f.v
          /\ e.ts < f.ts => e.v < f.v
          /\ f.ts < e.ts => f.v < e.v
      <4>1. \A q \in Stamped : q.v \in 1..trades /\ q.seq = q.v /\ q.ts \in Nat
          BY StampedTimes DEF QInv, Chrono
      <4>2. \A q, r \in Stamped : q.ts < r.ts => q.v < r.v
          BY DEF QInv, Chrono
      <4> QED
          BY <3>1, <3>2, <4>1, <4>2 DEF QuoteOf
    <3>4. e # NoEntry /\ parseTs(e) = e.ts /\ parseTs(f) = f.ts
        BY DEF e, f, NoEntry, parseTs
    <3>5. f.ts > e.ts \/ f.seq >= e.seq
        BY <3>1, <3>3, <3>4 DEF shouldAccept
    <3>6. f.v >= e.v
        BY <3>3, <3>5
    <3> QED
        BY <3>6 DEF e, f
  <2> QED
      BY <2>2, <2>3
<1> HIDE DEF Forward
<1>2. Spec => [][Forward]_vars
    BY <1>1, QInvHolds, PTL DEF Spec
<1> QED
    BY <1>2 DEF Forward, AuthorityNeverRewinds

\* Whatever rows polls, protections and spellings have left behind: a tick the authority
\* accepts shows at once in the market store, the watchlist and the portfolio, under
\* every spelling.
THEOREM TicksReachStores == Spec => TickReachesEveryStore
<1> DEFINE Shows == \A k \in Keys :
        mem'.auth[k] # mem.auth[k] /\ mem'.auth[k].src = "live"
        => \A a \in Aliases[k] :
             /\ mem'.store[a].v = mem'.auth[k].v
             /\ mem'.watch[a].v = mem'.auth[k].v
             /\ a \in Held => mem'.marks[a] = mem'.auth[k].v
<1>1. QInv /\ [Next]_vars => Shows
    BY AuthStep DEF QInv
<1> HIDE DEF Shows
<1>2. Spec => [][Shows]_vars
    BY <1>1, QInvHolds, PTL DEF Spec
<1> QED
    BY <1>2 DEF Shows, TickReachesEveryStore

\* What the resolver shows where the candidates it knows have one price.
LEMMA OnePrice ==
    ASSUME NEW m \in Memory, NEW cache \in Prices, NEW a \in Keys, NEW v, v # 0,
           m.store[a].v = v, m.watch[a].v = v, cache[a] = v
    PROVE  resolveSymbolPrice(m, cache, a) = v
<1> DEFINE rows == <<m.store[a], m.watch[a], [v |-> cache[a], src |-> "eod"]>>
           rank(i) == sourcePriority[rows[i].src]
           known == {i \in 1..3 : rows[i].v # 0}
           best == {i \in known : \A j \in known :
                       sourcePriority[rows[j].src] <= sourcePriority[rows[i].src]}
           one == CHOOSE i \in best : \A j \in best : i <= j
<1>1. rows[1].v = v /\ rows[2].v = v /\ rows[3].v = v
    OBVIOUS
<1>2. known = {1, 2, 3}
  <2>1. \A i \in 1..3 : i = 1 \/ i = 2 \/ i = 3
      OBVIOUS
  <2>2. \A i \in 1..3 : rows[i].v # 0
      BY <1>1, <2>1
  <2> HIDE DEF rows
  <2> QED
      BY <2>1, <2>2
<1>3. rank(1) \in 0..5 /\ rank(2) \in 0..5 /\ rank(3) \in 0..5
  <2>1. \A src \in Sources : sourcePriority[src] \in 0..5
      BY DEF Sources, sourcePriority
  <2>2. m.store[a].src \in Sources /\ m.watch[a].src \in Sources /\ "eod" \in Sources
      BY DEF Memory, Rows, Shown, Sources
  <2> QED
      BY <2>1, <2>2
<1>4. resolveSymbolPrice(m, cache, a) = IF known = {} THEN 0 ELSE rows[one].v
    BY DEF resolveSymbolPrice
<1>5. best = {i \in known : \A j \in known : rank(j) <= rank(i)}
    OBVIOUS
<1> HIDE DEF rows, rank, known, best, one
<1>6. best # {} /\ best \subseteq {1, 2, 3}
  <2>1. CASE rank(1) >= rank(2) /\ rank(1) >= rank(3)
    <3>1. 1 \in best
        BY <1>2, <1>3, <1>5, <2>1
    <3> QED
        BY <1>2, <1>5, <3>1
  <2>2. CASE rank(2) >= rank(1) /\ rank(2) >= rank(3)
    <3>1. 2 \in best
        BY <1>2, <1>3, <1>5, <2>2
    <3> QED
        BY <1>2, <1>5, <3>1
  <2>3. CASE rank(3) >= rank(1) /\ rank(3) >= rank(2)
    <3>1. 3 \in best
        BY <1>2, <1>3, <1>5, <2>3
    <3> QED
        BY <1>2, <1>5, <3>1
  <2> QED
      BY <1>3, <2>1, <2>2, <2>3
<1>7. \E i \in best : \A j \in best : i <= j
  <2>1. best \in SUBSET Nat
      BY <1>6
  <2> QED
      BY <1>6, <2>1, LeastNumber
<1>8. one \in best
    BY <1>7 DEF one
<1> QED
    BY <1>1, <1>2, <1>4, <1>6, <1>8

\* Whatever ticks, polls and sessions came between the chunks of a reconciliation: its
\* official prices are in every store and on the screens in the step that applies them,
\* under every spelling, over rows a tick has just protected too.
THEOREM OfficialReachesStores == Spec => OfficialReachesEveryStore
<1> DEFINE Shows ==
        recon.phase = "stamped" /\ recon'.phase = "ticker" =>
          \A k \in Keys : recon.got[k].v # 0 =>
            \A a \in Aliases[k] :
                /\ mem'.store[a].v = recon.got[k].v /\ mem'.watch[a].v = recon.got[k].v
                /\ a \in Held => mem'.marks[a] = recon.got[k].v
                /\ resolveSymbolPrice(mem', eod', a) = recon.got[k].v
<1>1. QInv /\ QInv' /\ [Next]_vars => Shows
  <2> SUFFICES ASSUME QInv, QInv', [Next]_vars,
                      recon.phase = "stamped", recon'.phase = "ticker",
                      NEW k \in Keys, recon.got[k].v # 0, NEW a \in Aliases[k]
               PROVE  /\ mem'.store[a].v = recon.got[k].v /\ mem'.watch[a].v = recon.got[k].v
                      /\ a \in Held => mem'.marks[a] = recon.got[k].v
                      /\ resolveSymbolPrice(mem', eod', a) = recon.got[k].v
      OBVIOUS
  <2>1. applyToStores
    <3>1. recon'.phase # recon.phase
        OBVIOUS
    <3>2. CASE recon'.phase = recon.phase \/ recon'.phase \in {"fetch", "chunk", "stamped", "idle"}
        BY <3>1, <3>2
    <3>3. CASE \/ SessionChanges \/ CallFails \/ ReconSteps
      <4>1. CASE SessionChanges
          BY <3>2, <4>1 DEF SessionChanges, Recon
      <4>2. CASE CallFails
          BY <3>2, <4>2 DEF CallFails, Recon
      <4>3. CASE executeReconciliation
          BY <3>2, <4>3 DEF executeReconciliation, Recon
      <4>4. CASE ChunkAnswers \/ stampEODQuotes
          BY <3>2, <4>4 DEF ChunkAnswers, stampEODQuotes, Recon
      <4>5. CASE reconcileTickerAndIndices \/ \E x \in Keys : fetchBatchQuotes(x)
          BY <3>2, <4>5 DEF reconcileTickerAndIndices, fetchBatchQuotes, Recon
      <4> QED
          BY <3>3, <4>1, <4>2, <4>3, <4>4, <4>5 DEF ReconSteps
    <3>4. CASE recon' = recon
        BY <3>2, <3>4
    <3>5. CASE \/ UNCHANGED vars \/ Tick \/ ReceiveTick \/ ConnectAndHydrate \/ Disconnect
               \/ (\E s \in Symbols : Trade(s))
               \/ \E x \in {Norm[y] : y \in Keys} : PollQuote(x) \/ FetchChunk(x)
        BY <3>4, <3>5 DEF vars, Tick, ReceiveTick, ConnectAndHydrate, Disconnect, Trade,
                          PollQuote, FetchChunk
    <3>6. CASE \/ HydrateAnswers \/ QuoteAnswers \/ PollHoldings \/ HoldingsAnswer
               \/ FetchPrices \/ CommitPrices
        BY <3>4, <3>6 DEF HydrateAnswers, QuoteAnswers, PollHoldings, HoldingsAnswer,
                          FetchPrices, CommitPrices
    <3> QED
        BY <3>3, <3>5, <3>6 DEF Next, ReconSteps
  <2>2. /\ a \in Keys
        /\ eod' = eod
        /\ mem'.store[a].v = recon.got[k].v /\ mem'.watch[a].v = recon.got[k].v
        /\ a \in Held => mem'.marks[a] = recon.got[k].v
      BY <2>1, ReconciledMemory, AliasClass DEF QInv
  <2>3. eod'[a] = recon.got[k].v
    <3>1. recon.got[a].v = recon.got[k].v
        BY DEF QInv, Alike, SamePrice
    <3> QED
        BY <2>2, <3>1 DEF QInv, Alike
  <2>4. mem' \in Memory /\ eod' \in Prices
      BY DEF QInv, Typed
  <2>5. resolveSymbolPrice(mem', eod', a) = recon.got[k].v
    <3> DEFINE v == recon.got[k].v
    <3>1. /\ v # 0 /\ mem'.store[a].v = v /\ mem'.watch[a].v = v /\ eod'[a] = v
        BY <2>2, <2>3
    <3> HIDE DEF v
    <3>2. resolveSymbolPrice(mem', eod', a) = v
        BY <2>2, <2>4, <3>1, OnePrice
    <3> QED
        BY <3>2 DEF v
  <2> QED
      BY <2>2, <2>5
<1> HIDE DEF Shows
<1>2. Spec => [][Shows]_vars
    BY <1>1, QInvHolds, PTL DEF Spec
<1> QED
    BY <1>2 DEF Shows, OfficialReachesEveryStore

--------------------------------------------------------------------------------
(* The flags of the requests. *)

\* A flag, or the phase of a run, waits exactly while its request is under way.
Guards ==
    /\ hydrating \in BOOLEAN
    /\ hydrating = TRUE <=> \E c \in calls : c.kind = "hydrate"
    /\ recon.phase = "chunk" <=> \E c \in calls : c.kind = "eod"
    /\ \A c, d \in calls : c.kind = d.kind /\ c.kind \in {"hydrate", "eod"} => c = d

\* One call of the kind is under way in addition.
Called(kind) ==
    /\ \A c \in calls' : c \in calls \/ c.kind = kind
    /\ calls \subseteq calls' /\ \E c \in calls' : c.kind = kind
    /\ \A c, d \in calls' \ calls : c = d

\* A request adds a call of its kind.
LEMMA CallAdds == ASSUME NEW kind, NEW keys, Call(kind, keys) PROVE Called(kind)
<1>1. PICK form \in (IF kind = "hydrate" THEN RestForms ELSE {"bare"}),
           official \in (IF kind = "eod" THEN OfficialAnswers ELSE {FALSE}) :
         calls' = calls \cup {[kind |-> kind, quotes |-> Answer(keys, form),
                               official |-> official]}
    BY DEF Call
<1> DEFINE r == [kind |-> kind, quotes |-> Answer(keys, form), official |-> official]
<1>2. r.kind = kind
    OBVIOUS
<1> HIDE DEF r
<1> QED
    BY <1>1, <1>2 DEF Called, r

\* Where requests of a kind are kept apart by a flag, adding one keeps them apart.
LEMMA GuardsKept == ASSUME Guards, [Next]_vars PROVE Guards'
<1> USE DEF Guards
<1>1. CASE UNCHANGED <<calls, hydrating>> /\ recon'.phase = recon.phase
    BY <1>1
<1>2. CASE ConnectAndHydrate
  <2>1. recon' = recon
      BY <1>2 DEF ConnectAndHydrate
  <2>2. CASE UNCHANGED <<calls, hydrating>>
      BY <2>1, <2>2
  <2>3. CASE ~hydrating /\ hydrating' = TRUE /\ Call("hydrate", Keys)
    <3>1. Called("hydrate")
        BY <2>3, CallAdds
    <3> QED
        BY <2>1, <2>3, <3>1 DEF Called
  <2> QED
      BY <1>2, <2>2, <2>3 DEF ConnectAndHydrate
<1>3. CASE HydrateAnswers
    BY <1>3 DEF HydrateAnswers
<1>4. CASE QuoteAnswers \/ HoldingsAnswer
    BY <1>4 DEF QuoteAnswers, HoldingsAnswer
<1>5. CASE CallFails
  <2>1. PICK c \in calls :
          /\ calls' = calls \ {c}
          /\ hydrating' = IF c.kind = "hydrate" THEN FALSE ELSE hydrating
          /\ recon' = IF c.kind = "eod"
                      THEN Recon(recon.due, "fetch", recon.todo, recon.official, recon.got)
                      ELSE recon
      BY <1>5 DEF CallFails
  <2>2. c.kind = "eod" => recon'.phase = "fetch"
      BY <2>1 DEF Recon
  <2>3. c.kind # "eod" => recon'.phase = recon.phase
      BY <2>1
  <2> QED
      BY <2>1, <2>2, <2>3
<1>6. CASE (\E k \in {Norm[x] : x \in Keys} : PollQuote(k)) \/ PollHoldings
  <2>1. Called("quote") \/ Called("holdings")
      BY <1>6, CallAdds DEF PollQuote, PollHoldings
  <2>2. UNCHANGED <<hydrating, recon>>
      BY <1>6 DEF PollQuote, PollHoldings
  <2> QED
      BY <2>1, <2>2 DEF Called
<1>7. CASE SessionChanges
  <2>1. UNCHANGED <<calls, hydrating>> /\ recon'.phase = recon.phase
      BY <1>7 DEF SessionChanges, Recon
  <2> QED
      BY <1>1, <2>1
<1>8. CASE executeReconciliation \/ applyToStores \/ stampEODQuotes \/ reconcileTickerAndIndices
  <2>1. UNCHANGED <<calls, hydrating>>
      BY <1>8 DEF executeReconciliation, applyToStores, stampEODQuotes, reconcileTickerAndIndices
  <2>2. \/ recon'.phase = recon.phase
        \/ recon.phase # "chunk" /\ recon'.phase # "chunk"
      BY <1>8 DEF executeReconciliation, applyToStores, stampEODQuotes,
                  reconcileTickerAndIndices, Recon
  <2> QED
      BY <2>1, <2>2
<1>9. CASE \E k \in Keys : fetchBatchQuotes(k)
  <2>1. /\ recon.phase = "fetch" /\ recon'.phase = "chunk" /\ hydrating' = hydrating
        /\ \E k \in Keys : Call("eod", Aliases[k])
      BY <1>9 DEF fetchBatchQuotes, Recon
  <2>2. Called("eod")
      BY <2>1, CallAdds
  <2> QED
      BY <2>1, <2>2 DEF Called
<1>10. CASE ChunkAnswers
  <2>1. /\ recon'.phase = "fetch" /\ hydrating' = hydrating
        /\ \E c \in calls : c.kind = "eod" /\ calls' = calls \ {c}
      BY <1>10 DEF ChunkAnswers, Recon
  <2> QED
      BY <2>1
<1> QED
    BY <1>1, <1>2, <1>3, <1>4, <1>5, <1>6, <1>7, <1>8, <1>9, <1>10
       DEF Next, vars, Tick, ReceiveTick, Disconnect, Trade, FetchChunk, FetchPrices, CommitPrices

\* The flags and the calls they stand for agree in every reachable state.
LEMMA GuardsHold == Spec => []Guards
<1>1. Init => Guards
  <2>1. Init => recon.phase = "idle" /\ calls = {} /\ hydrating = FALSE
      BY DEF Init, Recon
  <2> QED
      BY <2>1 DEF Guards
<1> QED
    BY <1>1, GuardsKept, PTL DEF Spec

\* However many symbols, calls and reconnects there are: a hydration and a chunk of a
\* reconciliation are waited for exactly while they are under way, and once at a time.
THEOREM GuardsNeverStick == Spec => []NoStuckGuards
<1>1. Guards => NoStuckGuards
  <2> SUFFICES ASSUME Guards PROVE NoStuckGuards
      OBVIOUS
  <2>1. ASSUME NEW kind \in {"hydrate", "eod"}
        PROVE  Cardinality({c \in calls : c.kind = kind}) <= 1
    <3>1. CASE {c \in calls : c.kind = kind} = {}
        BY <3>1, FS_EmptySet
    <3>2. CASE \E c \in calls : c.kind = kind
      <4>1. PICK c \in calls : c.kind = kind
          BY <3>2
      <4>2. {d \in calls : d.kind = kind} = {c}
          BY <4>1 DEF Guards
      <4> QED
          BY <4>2, FS_Singleton
    <3> QED
        BY <3>1, <3>2
  <2> QED
      BY <2>1 DEF Guards, NoStuckGuards
<1> QED
    BY <1>1, GuardsHold, PTL
================================================================================
