------------------------ MODULE EconomyPayoutsProofs ------------------------
(***************************************************************************)
(* Proofs about EconomyPayouts, for any contributors, wallets, periods,    *)
(* runs, requests and faults.                                              *)
(***************************************************************************)
EXTENDS PayoutRefinement, TLAPS

-----------------------------------------------------------------------------
(* What the tables say of each other, and what a request knows of them.    *)

AllPaid(r) ==
  \A u \in Users : recip[r][u] # None /\ recip[r][u].amount > 0 => sent[r][u] # <<>>

RunOK(r) ==
  /\ run[r].status = "none" =>
       run[r].period = None /\ \A u \in Users : recip[r][u] = None /\ sent[r][u] = <<>>
  /\ run[r].status # "none" => run[r].period \in Periods
  /\ run[r].status = "settled" => AllPaid(r)

RowOK(r, u) ==
  recip[r][u] # None =>
    /\ recip[r][u].status = "confirmed" => sent[r][u] # <<>>
    /\ recip[r][u].status = "skipped" => recip[r][u].amount = 0

Loop == {"settle", "confirm", "fail"}

\* The rows in memory are those of the run, up to status and address.
SameRows(h) ==
  \A u \in Users :
    /\ hand[h].rows[u] = None <=> recip[hand[h].run][u] = None
    /\ hand[h].rows[u] # None => hand[h].rows[u].amount = recip[hand[h].run][u].amount

HandOK(h) ==
  /\ hand[h].pc = "idle" => hand[h].run = None
  /\ hand[h].pc \in {"shares", "insert"} => hand[h].run = None /\ hand[h].period \in Periods
  /\ hand[h].pc = "shares" => hand[h].feeBps <= 10000
  /\ hand[h].pc = "insert" =>
       \A u \in Users : hand[h].rows[u] # None => hand[h].rows[u].status = "pending"
  /\ hand[h].pc \in Loop \cup {"mark", "list", "finish"} =>
       hand[h].run \in Runs /\ run[hand[h].run].status # "none"
  /\ hand[h].pc = "mark" => hand[h].seen \in {"pending", "partial"}
  /\ hand[h].pc \in Loop =>
       /\ SameRows(h)
       /\ hand[h].lookup \cup hand[h].write \cup hand[h].due \subseteq Listed(hand[h].rows)
  /\ hand[h].pc \in {"confirm", "fail"} =>
       hand[h].cur \in Users /\ hand[h].rows[hand[h].cur] # None
  /\ hand[h].pc = "confirm" => sent[hand[h].run][hand[h].cur] # <<>>
  /\ hand[h].pc = "finish" /\ hand[h].seen = "settled" => AllPaid(hand[h].run)

Base ==
  /\ TypeOK
  /\ \A r \in Runs : RunOK(r) /\ \A u \in Users : RowOK(r, u)
  /\ \A h \in Handlers : HandOK(h)

-----------------------------------------------------------------------------
(* One assembly of a period at a time, unless it is in past.doubled.       *)

Alone(p) ==
  /\ \A g, h \in Assembling(p) : g = h
  /\ Assembling(p) # {} => Existing(p) = {}
  /\ \A r, q \in Existing(p) : r = q

OneInv == \A p \in Periods \ past.doubled : Alone(p)

-----------------------------------------------------------------------------
(* One settlement of a run at a time, unless it is in past.raced.          *)

\* The only address that may differ is one still to be written.
Known(h) ==
  /\ hand[h].pc \in Loop => \A u \in Listed(hand[h].rows) :
       u \notin hand[h].write => hand[h].rows[u].wallet = recip[hand[h].run][u].wallet
  /\ hand[h].pc \in {"confirm", "fail"} => hand[h].write = {}
  /\ hand[h].pc = "confirm" =>
       \E i \in DOMAIN sent[hand[h].run][hand[h].cur] :
         sent[hand[h].run][hand[h].cur][i] = hand[h].rows[hand[h].cur].wallet

AddrOK(r, u) ==
  recip[r][u] # None /\ <<r, u>> \notin past.moved =>
    (recip[r][u].status = "confirmed" =>
       \E i \in DOMAIN sent[r][u] : sent[r][u][i] = recip[r][u].wallet)

Traced(r) ==
  /\ \A g, h \in Settling(r) : g = h
  /\ \A h \in Settling(r) : Known(h)
  /\ \A u \in Users : AddrOK(r, u)

AddrInv == \A r \in Runs \ past.raced : Traced(r)

\* A payment is confirmed, about to be, or its settlement was cut short and left
\* the run where nothing settles it.
Recorded(r, u) ==
  /\ Len(sent[r][u]) <= 1
  /\ sent[r][u] # <<>> =>
       /\ recip[r][u] # None
       /\ \/ recip[r][u].status = "confirmed"
          \/ \E h \in Settling(r) : hand[h].pc = "confirm" /\ hand[h].cur = u
          \/ run[r].status = "settling" /\ Settling(r) = {}

InTurn(h) ==
  LET r == hand[h].run IN
  /\ hand[h].pc = "mark" => run[r].status = hand[h].seen
  /\ hand[h].pc # "mark" => run[r].status = "settling"
  /\ hand[h].pc \in Loop => \A u \in hand[h].due : sent[r][u] = <<>>
  /\ hand[h].pc = "fail" => sent[r][hand[h].cur] = <<>>

Orderly(r) ==
  /\ \A g, h \in Settling(r) : g = h
  /\ \A h \in Settling(r) : InTurn(h)
  /\ \A u \in Users : Recorded(r, u)

OnceInv == \A r \in Runs \ (past.raced \cup past.lost) : Orderly(r)

-----------------------------------------------------------------------------
(* Updates of a request's record.                                          *)

Pcs == {"idle", "shares", "insert", "mark", "list", "settle", "confirm", "fail", "finish"}

LEMMA Put ==
  ASSUME TypeOK, NEW h \in Handlers, NEW rec \in Hand, Goes(h, rec)
  PROVE  /\ hand' \in [Handlers -> Hand]
         /\ hand'[h] = rec
         /\ \A g \in Handlers : g # h => hand'[g] = hand[g]
BY DEF TypeOK, Goes

LEMMA IdleHand == Idle \in Hand /\ Idle.pc = "idle" /\ Idle.run = None
BY DEF Idle, Hand, Nobody

LEMMA SetPc ==
  ASSUME NEW x \in Hand, NEW p \in Pcs
  PROVE  LET y == [x EXCEPT !.pc = p] IN
         /\ y \in Hand /\ y.pc = p
         /\ y.period = x.period /\ y.revenue = x.revenue /\ y.feeBps = x.feeBps
         /\ y.run = x.run /\ y.seen = x.seen /\ y.rows = x.rows
         /\ y.lookup = x.lookup /\ y.write = x.write /\ y.due = x.due /\ y.cur = x.cur
BY DEF Hand, Pcs

LEMMA SetAssembly ==
  ASSUME NEW p \in Periods, NEW m \in Revenues, NEW f \in Fees
  PROVE  LET y == [Idle EXCEPT !.pc = "shares", !.period = p, !.revenue = m, !.feeBps = f] IN
         y \in Hand /\ y.pc = "shares" /\ y.period = p /\ y.feeBps = f /\ y.run = None
<1>1. m \in Nat /\ f \in Nat
  BY MoneyAssumption
<1> QED
  BY <1>1, IdleHand DEF Hand, Idle

LEMMA SetRows ==
  ASSUME NEW x \in Hand, NEW rows \in [Users -> Recip \cup {None}]
  PROVE  LET y == [x EXCEPT !.pc = "insert", !.rows = rows] IN
         /\ y \in Hand /\ y.pc = "insert" /\ y.rows = rows
         /\ y.run = x.run /\ y.period = x.period
BY DEF Hand

LEMMA SetSettlement ==
  ASSUME NEW r \in Runs, NEW s \in {"pending", "partial"}
  PROVE  LET y == [Idle EXCEPT !.pc = "mark", !.run = r, !.seen = s] IN
         y \in Hand /\ y.pc = "mark" /\ y.run = r /\ y.seen = s
BY DEF Hand, Idle, Nobody

LEMMA SetLookup ==
  ASSUME NEW x \in Hand, NEW u
  PROVE  LET y == [x EXCEPT !.lookup = @ \ {u}] IN
         /\ y \in Hand /\ y.lookup = x.lookup \ {u}
         /\ y.pc = x.pc /\ y.run = x.run /\ y.rows = x.rows /\ y.write = x.write
         /\ y.due = x.due /\ y.cur = x.cur
BY DEF Hand

LEMMA AddressedType ==
  ASSUME NEW rows \in [Users -> Recip \cup {None}], NEW u \in Users, NEW w \in Wallets,
         rows[u] # None
  PROVE  Addressed(rows, u, w) \in [Users -> Recip \cup {None}]
BY DEF Addressed, Recip

LEMMA AddressedRows ==
  ASSUME NEW rows \in [Users -> Recip \cup {None}], NEW u \in Users, NEW w \in Wallets,
         rows[u] # None, NEW v \in Users
  PROVE  LET new == Addressed(rows, u, w) IN
         /\ new[v] = None <=> rows[v] = None
         /\ rows[v] # None => new[v].amount = rows[v].amount
         /\ v # u => new[v] = rows[v]
         /\ new[u].wallet = w
<1> DEFINE x == rows[u]  y == [x EXCEPT !.wallet = w]
<1>1. x \in Recip
  OBVIOUS
<1>2. y \in Recip /\ y.amount = x.amount /\ y.wallet = w
  BY <1>1 DEF Recip
<1>3. y # None
  BY <1>2, RowsAssumption
<1>4. Addressed(rows, u, w) = [rows EXCEPT ![u] = y]
  BY DEF Addressed
<1> HIDE DEF y
<1> QED
  BY <1>2, <1>3, <1>4

LEMMA SetWrite ==
  ASSUME NEW x \in Hand, NEW u
  PROVE  LET y == [x EXCEPT !.write = @ \ {u}] IN
         /\ y \in Hand /\ y.write = x.write \ {u}
         /\ y.pc = x.pc /\ y.run = x.run /\ y.rows = x.rows /\ y.lookup = x.lookup
         /\ y.due = x.due /\ y.cur = x.cur
BY DEF Hand

LEMMA SetDue ==
  ASSUME NEW x \in Hand, NEW u
  PROVE  LET y == [x EXCEPT !.due = @ \ {u}] IN
         /\ y \in Hand /\ y.due = x.due \ {u}
         /\ y.pc = x.pc /\ y.run = x.run /\ y.rows = x.rows /\ y.lookup = x.lookup
         /\ y.write = x.write /\ y.cur = x.cur
BY DEF Hand

LEMMA ClearCur ==
  ASSUME NEW x \in Hand
  PROVE  LET y == [x EXCEPT !.pc = "settle", !.cur = None] IN
         /\ y \in Hand /\ y.pc = "settle" /\ y.due = x.due
         /\ y.run = x.run /\ y.rows = x.rows /\ y.lookup = x.lookup /\ y.write = x.write
BY DEF Hand

LEMMA SetSeen ==
  ASSUME NEW x \in Hand, NEW s \in {"settled", "partial"}
  PROVE  LET y == [x EXCEPT !.pc = "finish", !.seen = s] IN
         y \in Hand /\ y.pc = "finish" /\ y.seen = s /\ y.run = x.run
BY DEF Hand

LEMMA Status ==
  ASSUME TypeOK, NEW r \in Runs, NEW s \in {"pending", "settling", "settled", "partial"},
         run' = [run EXCEPT ![r].status = s]
  PROVE  /\ run' \in [Runs -> Run]
         /\ run'[r].status = s /\ run'[r].period = run[r].period
         /\ \A q \in Runs : q # r => run'[q] = run[q]
BY DEF TypeOK, Run

LEMMA NewRow ==
  ASSUME TypeOK, NEW r \in Runs, NEW u \in Users, NEW row \in Recip, Row(r, u, row)
  PROVE  /\ recip' \in [Runs -> [Users -> Recip \cup {None}]]
         /\ recip'[r][u] = row
         /\ \A q \in Runs, v \in Users : q # r \/ v # u => recip'[q][v] = recip[q][v]
BY DEF TypeOK, Row

LEMMA RecipStatus ==
  ASSUME TypeOK, NEW r \in Runs, NEW u \in Users, recip[r][u] # None,
         NEW s \in {"confirmed", "failed", "skipped"}, Row(r, u, [recip[r][u] EXCEPT !.status = s])
  PROVE  /\ recip' \in [Runs -> [Users -> Recip \cup {None}]]
         /\ recip'[r][u] # None /\ recip'[r][u].status = s
         /\ recip'[r][u].amount = recip[r][u].amount
         /\ recip'[r][u].wallet = recip[r][u].wallet
         /\ \A q \in Runs, v \in Users : q # r \/ v # u => recip'[q][v] = recip[q][v]
<1> DEFINE x == recip[r][u]  y == [x EXCEPT !.status = s]
<1>1. x \in Recip
  BY DEF TypeOK
<1>2. y \in Recip /\ y.status = s /\ y.amount = x.amount /\ y.wallet = x.wallet
  <2> HIDE DEF x
  <2> QED
    BY <1>1 DEF Recip
<1>3. Row(r, u, y)
  OBVIOUS
<1> HIDE DEF y
<1>4. /\ recip' \in [Runs -> [Users -> Recip \cup {None}]]
      /\ recip'[r][u] = y
      /\ \A q \in Runs, v \in Users : q # r \/ v # u => recip'[q][v] = recip[q][v]
  BY <1>2, <1>3, NewRow
<1> QED
  BY <1>2, <1>4, RowsAssumption

LEMMA RecipWallet ==
  ASSUME TypeOK, NEW r \in Runs, NEW u \in Users, recip[r][u] # None,
         NEW w \in Wallets \cup {None}, Row(r, u, [recip[r][u] EXCEPT !.wallet = w])
  PROVE  /\ recip' \in [Runs -> [Users -> Recip \cup {None}]]
         /\ recip'[r][u] # None /\ recip'[r][u].wallet = w
         /\ recip'[r][u].amount = recip[r][u].amount
         /\ recip'[r][u].status = recip[r][u].status
         /\ \A q \in Runs, v \in Users : q # r \/ v # u => recip'[q][v] = recip[q][v]
<1> DEFINE x == recip[r][u]  y == [x EXCEPT !.wallet = w]
<1>1. x \in Recip
  BY DEF TypeOK
<1>2. y \in Recip /\ y.wallet = w /\ y.amount = x.amount /\ y.status = x.status
  <2> HIDE DEF x
  <2> QED
    BY <1>1 DEF Recip
<1>3. Row(r, u, y)
  OBVIOUS
<1> HIDE DEF y
<1>4. /\ recip' \in [Runs -> [Users -> Recip \cup {None}]]
      /\ recip'[r][u] = y
      /\ \A q \in Runs, v \in Users : q # r \/ v # u => recip'[q][v] = recip[q][v]
  BY <1>2, <1>3, NewRow
<1> QED
  BY <1>2, <1>4, RowsAssumption

LEMMA Sends ==
  ASSUME TypeOK, NEW r \in Runs, NEW u \in Users, NEW w \in Wallets, Pays(r, u, w)
  PROVE  /\ sent' \in [Runs -> [Users -> Seq(Wallets)]]
         /\ sent'[r][u] # <<>> /\ Len(sent'[r][u]) = Len(sent[r][u]) + 1
         /\ \E i \in DOMAIN sent'[r][u] : sent'[r][u][i] = w
         /\ \A i \in DOMAIN sent[r][u] : i \in DOMAIN sent'[r][u] /\ sent'[r][u][i] = sent[r][u][i]
         /\ \A q \in Runs, v \in Users : q # r \/ v # u => sent'[q][v] = sent[q][v]
<1> DEFINE s == sent[r][u]  t == Append(s, w)
<1>1. s \in Seq(Wallets)
  BY DEF TypeOK
<1>2. sent' = [sent EXCEPT ![r][u] = t]
  BY DEF Pays
<1>3. t \in Seq(Wallets) /\ Len(t) = Len(s) + 1 /\ t # <<>> /\ t[Len(s) + 1] = w
      /\ Len(s) + 1 \in DOMAIN t
      /\ \A i \in DOMAIN s : i \in DOMAIN t /\ t[i] = s[i]
  BY <1>1
<1>4. sent'[r][u] = t /\ sent' \in [Runs -> [Users -> Seq(Wallets)]]
  BY <1>2, <1>3 DEF TypeOK
<1>5. \A q \in Runs, v \in Users : q # r \/ v # u => sent'[q][v] = sent[q][v]
  BY <1>2 DEF TypeOK
<1> HIDE DEF t
<1> QED
  BY <1>3, <1>4, <1>5

-----------------------------------------------------------------------------
(* A step that creates no run: the rows of every run stay, none is unpaid. *)

Grows ==
  \A r \in Runs : run[r].status # "none" =>
    /\ run'[r].status # "none" /\ run'[r].period = run[r].period
    /\ \A u \in Users :
         /\ recip'[r][u] = None <=> recip[r][u] = None
         /\ recip[r][u] # None => recip'[r][u].amount = recip[r][u].amount
         /\ sent[r][u] # <<>> => sent'[r][u] # <<>>

Untouched ==
  \A r \in Runs : run[r].status = "none" =>
    run'[r] = run[r] /\ recip'[r] = recip[r] /\ sent'[r] = sent[r]

LEMMA PaidKept ==
  ASSUME Grows, NEW r \in Runs, run[r].status # "none", AllPaid(r)
  PROVE  AllPaid(r)'
BY DEF Grows, AllPaid

LEMMA SameKept ==
  ASSUME Grows, NEW h \in Handlers, hand[h].run \in Runs, run[hand[h].run].status # "none",
         SameRows(h), hand'[h].run = hand[h].run,
         \A u \in Users : /\ hand'[h].rows[u] = None <=> hand[h].rows[u] = None
                          /\ hand[h].rows[u] # None =>
                               hand'[h].rows[u].amount = hand[h].rows[u].amount
  PROVE  SameRows(h)'
<1> SUFFICES ASSUME NEW u \in Users
             PROVE  /\ hand'[h].rows[u] = None <=> recip'[hand[h].run][u] = None
                    /\ hand'[h].rows[u] # None =>
                         hand'[h].rows[u].amount = recip'[hand[h].run][u].amount
  BY DEF SameRows
<1> QED
  BY DEF Grows, SameRows

LEMMA HandKept ==
  ASSUME Base, Grows, NEW g \in Handlers, hand'[g] = hand[g]
  PROVE  HandOK(g)'
<1>1. HandOK(g)
  BY DEF Base
<1>2. hand[g].pc \in Loop => SameRows(g)'
  BY <1>1, SameKept DEF HandOK, Loop
<1>3. hand[g].pc \in Loop \cup {"mark", "list", "finish"} =>
        hand[g].run \in Runs /\ run'[hand[g].run].status # "none"
  BY <1>1 DEF HandOK, Grows
<1>4. hand[g].pc = "confirm" => sent'[hand[g].run][hand[g].cur] # <<>>
  BY <1>1 DEF HandOK, Grows, Loop
<1>5. ASSUME NEW r \in Runs, r = hand[g].run, hand[g].pc = "finish", hand[g].seen = "settled"
      PROVE  \A u \in Users : recip'[r][u] # None /\ recip'[r][u].amount > 0 => sent'[r][u] # <<>>
  BY <1>1, <1>5, PaidKept DEF HandOK, AllPaid
<1>6. hand'[g].pc = "finish" /\ hand'[g].seen = "settled" =>
        \A u \in Users : recip'[hand'[g].run][u] # None /\ recip'[hand'[g].run][u].amount > 0 =>
          sent'[hand'[g].run][u] # <<>>
  BY <1>3, <1>5
<1>7. hand'[g].pc = "insert" =>
       \A u \in Users : hand'[g].rows[u] # None => hand'[g].rows[u].status = "pending"
  BY <1>1 DEF HandOK
<1>8. hand'[g].pc \in Loop =>
        hand'[g].lookup \cup hand'[g].write \cup hand'[g].due \subseteq Listed(hand'[g].rows)
  BY <1>1 DEF HandOK
<1> QED
  BY <1>1, <1>2, <1>3, <1>4, <1>6, <1>7, <1>8 DEF HandOK, AllPaid

LEMMA Together ==
  ASSUME Base, TypeOK', Grows, Untouched, NEW h \in Handlers,
         \A r \in Runs : run'[r].status = "settled" => run[r].status = "settled" \/ AllPaid(r),
         \A r \in Runs, u \in Users : RowOK(r, u)',
         \A g \in Handlers : g # h => hand'[g] = hand[g],
         HandOK(h)'
  PROVE  Base'
<1>1. ASSUME NEW r \in Runs PROVE RunOK(r)'
  <2>1. RunOK(r)
    BY DEF Base
  <2>2. CASE run[r].status = "none"
    BY <2>1, <2>2 DEF RunOK, Untouched
  <2>3. CASE run[r].status # "none"
    <3>1. run'[r].status = "settled" => AllPaid(r)
      BY <2>1 DEF RunOK
    <3>2. run'[r].status = "settled" => AllPaid(r)'
      BY <2>3, <3>1, PaidKept
    <3> QED
      BY <2>1, <2>3, <3>2 DEF RunOK, Grows
  <2> QED
    BY <2>2, <2>3
<1>2. ASSUME NEW g \in Handlers PROVE HandOK(g)'
  BY HandKept
<1> QED
  BY <1>1, <1>2 DEF Base

LEMMA Quiet ==
  ASSUME Base, UNCHANGED <<run, recip, sent>>, NEW h \in Handlers, NEW rec \in Hand,
         Goes(h, rec), HandOK(h)',
         share' \in [Users -> Share \cup {None}], faults' \in Nat, calls' \in Nat, past' \in Past
  PROVE  Base'
<1>1. TypeOK
  BY DEF Base
<1>2. hand' \in [Handlers -> Hand] /\ \A g \in Handlers : g # h => hand'[g] = hand[g]
  BY <1>1, Put
<1>3. TypeOK'
  BY <1>1, <1>2 DEF TypeOK
<1>4. Grows /\ Untouched
  BY DEF Grows, Untouched
<1>5. \A r \in Runs, u \in Users : RowOK(r, u)'
  BY DEF Base, RowOK
<1> QED
  BY <1>2, <1>3, <1>4, <1>5, Together

-----------------------------------------------------------------------------
(* Base is kept by each action.                                            *)

LEMMA Ended ==
  ASSUME NEW h \in Handlers, hand'[h] = Idle
  PROVE  HandOK(h)'
BY IdleHand DEF HandOK, Loop

LEMMA SharesBase ==
  ASSUME Base, UNCHANGED <<run, recip, sent, hand, used, past>>,
         share' \in [Users -> Share \cup {None}]
  PROVE  Base'
<1>1. TypeOK'
  BY DEF Base, TypeOK, used
<1>2. \A r \in Runs : RunOK(r)' /\ \A u \in Users : RowOK(r, u)'
  BY DEF Base, RunOK, RowOK, AllPaid
<1>3. ASSUME NEW h \in Handlers PROVE HandOK(h)'
  <2>1. Grows
    BY DEF Grows
  <2> QED
    BY <2>1, HandKept
<1> QED
  BY <1>1, <1>2, <1>3 DEF Base

LEMMA UpsertShareBase ==
  ASSUME Base, NEW u \in Users, NEW bps \in Shares, UpsertShare(u, bps)
  PROVE  Base'
<1>1. [bps |-> bps, active |-> TRUE] \in Share
  BY SharesAssumption DEF Share
<1>2. share' \in [Users -> Share \cup {None}]
  BY <1>1 DEF UpsertShare, Base, TypeOK
<1> QED
  BY <1>2, SharesBase DEF UpsertShare

LEMMA ReplaceSharesBase ==
  ASSUME Base, NEW list \in Lists, ReplaceShares(list)
  PROVE  Base'
<1>1. ASSUME NEW u \in Users, u \in DOMAIN list
      PROVE  [bps |-> list[u], active |-> TRUE] \in Share
  BY <1>1, SharesAssumption DEF Share
<1>2. ASSUME NEW u \in Users, share[u] # None
      PROVE  [share[u] EXCEPT !.active = FALSE] \in Share
  BY <1>2 DEF Share, Base, TypeOK
<1>3. share' \in [Users -> Share \cup {None}]
  BY <1>1, <1>2 DEF ReplaceShares
<1> QED
  BY <1>3, SharesBase DEF ReplaceShares

LEMMA AssembleReadBase ==
  ASSUME Base, NEW h \in Handlers, NEW p \in Periods, NEW m \in Revenues, NEW f \in Fees,
         AssembleRead(h, p, m, f)
  PROVE  Base'
<1> DEFINE rec == [Idle EXCEPT !.pc = "shares", !.period = p, !.revenue = m, !.feeBps = f]
<1>1. rec \in Hand /\ rec.pc = "shares" /\ rec.period = p /\ rec.feeBps = f /\ rec.run = None
  BY SetAssembly DEF Idle
<1>2. Goes(h, rec) /\ UNCHANGED <<share, run, recip, sent, faults>> /\ calls' = calls + 1
  BY DEF AssembleRead
<1> HIDE DEF rec
<1>3. hand'[h] = rec
  BY <1>1, <1>2, Put DEF Base
<1>4. HandOK(h)'
  BY <1>1, <1>3, MoneyAssumption DEF HandOK, Loop
<1>5. past' \in Past
  BY DEF AssembleRead, Base, TypeOK, Past
<1>6. /\ share' \in [Users -> Share \cup {None}] /\ faults' \in Nat /\ calls' \in Nat
      /\ UNCHANGED <<run, recip, sent>>
  BY <1>2 DEF Base, TypeOK
<1> QED
  BY <1>1, <1>2, <1>4, <1>5, <1>6, Quiet

LEMMA PartType ==
  ASSUME NEW m \in Nat, NEW f \in Nat, NEW b \in Nat, f <= 10000
  PROVE  Fee(m, f) \in Nat /\ Part(m, f, b) \in Nat
<1>1. m * f <= m * 10000 /\ m * f \in Nat
  OBVIOUS
<1>2. Fee(m, f) \in Nat /\ Fee(m, f) <= m
  BY <1>1 DEF Fee
<1>3. (m - Fee(m, f)) * b \in Nat
  BY <1>2
<1> QED
  BY <1>2, <1>3 DEF Part

LEMMA ReadSharesBase ==
  ASSUME Base, NEW h \in Handlers, ReadShares(h)
  PROVE  Base'
<1>1. TypeOK /\ HandOK(h) /\ hand[h] \in Hand /\ hand[h].pc = "shares"
  BY DEF Base, TypeOK, ReadShares, At
<1>2. /\ UNCHANGED <<run, recip, sent>> /\ share' \in [Users -> Share \cup {None}]
      /\ faults' \in Nat /\ calls' \in Nat /\ past' \in Past
  BY DEF ReadShares, Base, TypeOK, used
<1>3. CASE Splittable(ActiveShares)
  <2> DEFINE rows == applySplit(h)  x == hand[h]
             rec == [x EXCEPT !.pc = "insert", !.rows = rows]
  <2>1. ASSUME NEW u \in ActiveShares
        PROVE  Part(hand[h].revenue, hand[h].feeBps, share[u].bps) \in Nat
    <3> DEFINE m == hand[h].revenue  f == hand[h].feeBps  b == share[u].bps
    <3>1. b \in Nat
      BY <1>1 DEF ActiveShares, TypeOK, Share
    <3>2. m \in Nat /\ f \in Nat /\ f <= 10000
      BY <1>1 DEF Hand, HandOK
    <3> HIDE DEF m, f, b
    <3>3. Part(m, f, b) \in Nat
      BY <3>1, <3>2, PartType
    <3> QED
      BY <3>3 DEF m, f, b
  <2>2. /\ rows \in [Users -> Recip \cup {None}]
        /\ \A u \in Users : rows[u] # None => rows[u].status = "pending"
    <3>1. ASSUME NEW m \in Nat
          PROVE  [status |-> "pending", wallet |-> None, amount |-> m] \in Recip
      BY DEF Recip
    <3>2. ASSUME NEW u \in Users
          PROVE  rows[u] \in Recip \cup {None} /\ (rows[u] # None => rows[u].status = "pending")
      <4>1. CASE u \in ActiveShares
        BY <2>1, <3>1, <4>1 DEF applySplit
      <4>2. CASE u \notin ActiveShares
        BY <4>2 DEF applySplit
      <4> QED
        BY <4>1, <4>2
    <3>3. rows = [u \in Users |-> rows[u]]
      BY DEF applySplit
    <3> HIDE DEF rows
    <3> QED
      BY <3>2, <3>3
  <2> HIDE DEF rows, x
  <2>3. x \in Hand
    BY <1>1 DEF x
  <2>4. rec \in Hand /\ rec.pc = "insert" /\ rec.rows = rows /\ rec.run = x.run
        /\ rec.period = x.period
    BY <2>2, <2>3, SetRows
  <2>5. Goes(h, rec)
    BY <1>3 DEF ReadShares, x, rows
  <2> HIDE DEF rec
  <2>6. hand'[h] = rec
    BY <1>1, <2>4, <2>5, Put
  <2>7. HandOK(h)'
    BY <1>1, <2>2, <2>4, <2>6 DEF HandOK, Loop, x
  <2> QED
    BY <1>2, <2>4, <2>5, <2>7, Quiet
<1>4. CASE ~Splittable(ActiveShares)
  <2>1. Goes(h, Idle)
    BY <1>4 DEF ReadShares, Ends
  <2>2. hand'[h] = Idle
    BY <1>1, <2>1, IdleHand, Put
  <2> QED
    BY <1>2, <2>1, <2>2, IdleHand, Ended, Quiet
<1> QED
  BY <1>3, <1>4

LEMMA SettleReadBase ==
  ASSUME Base, NEW h \in Handlers, NEW r \in Runs, SettleRead(h, r)
  PROVE  Base'
<1> DEFINE s == run[r].status  rec == [Idle EXCEPT !.pc = "mark", !.run = r, !.seen = s]
<1>1. s \in {"pending", "partial"}
  BY DEF SettleRead
<1>2. Goes(h, rec) /\ UNCHANGED <<share, run, recip, sent, faults>> /\ calls' = calls + 1
  BY DEF SettleRead
<1>3. s # "none"
  BY <1>1
<1> HIDE DEF s
<1>4. rec \in Hand /\ rec.pc = "mark" /\ rec.run = r /\ rec.seen = s
  BY <1>1, SetSettlement DEF Idle
<1> HIDE DEF rec
<1>5. hand'[h] = rec
  BY <1>2, <1>4, Put DEF Base
<1>6. HandOK(h)'
  BY <1>1, <1>2, <1>3, <1>4, <1>5 DEF HandOK, Loop, s
<1>7. past' \in Past
  BY DEF SettleRead, Base, TypeOK, Past
<1>8. /\ share' \in [Users -> Share \cup {None}] /\ faults' \in Nat /\ calls' \in Nat
      /\ UNCHANGED <<run, recip, sent>>
  BY <1>2 DEF Base, TypeOK
<1> QED
  BY <1>2, <1>4, <1>6, <1>7, <1>8, Quiet

LEMMA HandFaultBase ==
  ASSUME Base, NEW h \in Handlers, HandFault(h)
  PROVE  Base'
<1>1. Goes(h, Idle)
  BY DEF HandFault, Ends
<1>2. hand'[h] = Idle
  BY <1>1, IdleHand, Put DEF Base
<1>3. past' \in Past
  <2>1. hand[h].run \in Runs \cup {None}
    BY DEF Base, TypeOK, Hand
  <2> QED
    BY <2>1 DEF HandFault, Base, TypeOK, Past
<1>4. /\ share' \in [Users -> Share \cup {None}] /\ faults' \in Nat /\ calls' \in Nat
      /\ UNCHANGED <<run, recip, sent>>
  BY DEF HandFault, Base, TypeOK
<1> QED
  BY <1>1, <1>2, <1>3, <1>4, IdleHand, Ended, Quiet

-----------------------------------------------------------------------------
(* The steps of a settlement.                                              *)

LEMMA Settler ==
  ASSUME Base, NEW h \in Handlers, hand[h].pc \in Loop \cup {"mark", "list", "finish"}
  PROVE  /\ TypeOK /\ HandOK(h) /\ hand[h] \in Hand
         /\ hand[h].run \in Runs /\ run[hand[h].run].status # "none"
         /\ run[hand[h].run] \in Run
         /\ RunOK(hand[h].run)
BY DEF Base, TypeOK, HandOK

LEMMA MarkBase ==
  ASSUME Base, NEW h \in Handlers, Mark(h)
  PROVE  Base'
<1> DEFINE r == hand[h].run  rec == [hand[h] EXCEPT !.pc = "list"]
<1>1. /\ TypeOK /\ HandOK(h) /\ hand[h] \in Hand
      /\ r \in Runs /\ run[r].status # "none" /\ hand[h].pc = "mark"
  BY Settler DEF Mark, At
<1>2. rec \in Hand /\ rec.pc = "list" /\ rec.run = r /\ Goes(h, rec)
  BY <1>1, SetPc DEF Mark, To, Pcs
<1>3. \/ run' = run
      \/ run' = [run EXCEPT ![r].status = "settling"]
  BY DEF Mark
<1> HIDE DEF rec, r
<1>4. /\ run' \in [Runs -> Run]
      /\ \A q \in Runs : q # r => run'[q] = run[q]
      /\ run'[r].period = run[r].period
      /\ run'[r].status \in {run[r].status, "settling"}
  BY <1>1, <1>3, Status DEF TypeOK
<1>5. UNCHANGED <<share, recip, sent, faults, calls, past>>
  BY DEF Mark, used
<1>6. /\ hand' \in [Handlers -> Hand] /\ hand'[h] = rec
      /\ \A g \in Handlers : g # h => hand'[g] = hand[g]
  BY <1>1, <1>2, Put
<1>7. TypeOK'
  BY <1>1, <1>4, <1>5, <1>6 DEF TypeOK
<1>8. Grows
  BY <1>1, <1>4, <1>5 DEF Grows
<1>9. Untouched
  BY <1>1, <1>4, <1>5 DEF Untouched
<1>10. \A q \in Runs : run'[q].status = "settled" => run[q].status = "settled"
  BY <1>4
<1>11. \A q \in Runs, u \in Users : RowOK(q, u)'
  BY <1>5 DEF Base, RowOK
<1>12. HandOK(h)'
  BY <1>1, <1>2, <1>4, <1>6 DEF HandOK, Loop
<1> QED
  BY <1>6, <1>7, <1>8, <1>9, <1>10, <1>11, <1>12, Together

LEMMA FinishBase ==
  ASSUME Base, NEW h \in Handlers, Finish(h)
  PROVE  Base'
<1> DEFINE r == hand[h].run  s == hand[h].seen
<1>1. /\ TypeOK /\ HandOK(h) /\ hand[h] \in Hand
      /\ r \in Runs /\ run[r].status # "none" /\ hand[h].pc = "finish"
  BY Settler DEF Finish, At
<1>2. Goes(h, Idle) /\ run' = [run EXCEPT ![r].status = s]
  BY DEF Finish, Ends
<1>3. s \in {"pending", "settled", "partial"} /\ (s = "settled" => AllPaid(r))
  BY <1>1 DEF Hand, HandOK
<1> HIDE DEF r, s
<1>4. /\ run' \in [Runs -> Run]
      /\ \A q \in Runs : q # r => run'[q] = run[q]
      /\ run'[r].period = run[r].period /\ run'[r].status = s
  BY <1>1, <1>2, <1>3, Status
<1>5. UNCHANGED <<share, recip, sent, faults, calls, past>>
  BY DEF Finish, used
<1>6. /\ hand' \in [Handlers -> Hand] /\ hand'[h] = Idle
      /\ \A g \in Handlers : g # h => hand'[g] = hand[g]
  BY <1>1, <1>2, IdleHand, Put
<1>7. TypeOK'
  BY <1>1, <1>4, <1>5, <1>6 DEF TypeOK
<1>8. Grows
  BY <1>1, <1>3, <1>4, <1>5 DEF Grows
<1>9. Untouched
  BY <1>1, <1>4, <1>5 DEF Untouched
<1>10. \A q \in Runs : run'[q].status = "settled" => run[q].status = "settled" \/ AllPaid(q)
  BY <1>3, <1>4
<1>11. \A q \in Runs, u \in Users : RowOK(q, u)'
  BY <1>5 DEF Base, RowOK
<1> QED
  BY <1>6, <1>7, <1>8, <1>9, <1>10, <1>11, Ended, Together

LEMMA ListRecipientsBase ==
  ASSUME Base, NEW h \in Handlers, ListRecipients(h)
  PROVE  Base'
<1> DEFINE r == hand[h].run  x == hand[h]  rows == recip[r]  l == Listed(rows)  d == Due(rows)
           rec == [x EXCEPT !.pc = "settle", !.rows = rows, !.lookup = l, !.write = {}, !.due = d]
<1>1. /\ TypeOK /\ HandOK(h) /\ x \in Hand
      /\ r \in Runs /\ run[r].status # "none" /\ hand[h].pc = "list"
  BY Settler DEF ListRecipients, At
<1>2. Goes(h, rec)
  BY DEF ListRecipients
<1>3. rows \in [Users -> Recip \cup {None}]
  BY <1>1 DEF TypeOK
<1>4. l \in SUBSET Users /\ d \in SUBSET Users /\ d \subseteq l
  BY DEF Listed, Due
<1>5. l = Listed(rows) /\ rows = recip[r] /\ r = x.run
  OBVIOUS
<1> HIDE DEF x, rows, l, d, r
<1>6. /\ rec \in Hand /\ rec.pc = "settle" /\ rec.rows = rows /\ rec.lookup = l
      /\ rec.write = {} /\ rec.due = d /\ rec.run = x.run
  BY <1>1, <1>3, <1>4 DEF Hand
<1> HIDE DEF rec
<1>7. hand'[h] = rec
  BY <1>1, <1>2, <1>6, Put
<1>8. /\ UNCHANGED <<share, run, recip, sent>> /\ share' \in [Users -> Share \cup {None}]
      /\ faults' \in Nat /\ calls' \in Nat /\ past' \in Past
  BY <1>1 DEF ListRecipients, TypeOK, used
<1>9. HandOK(h)'
  <2>1. SameRows(h)'
    BY <1>5, <1>6, <1>7, <1>8 DEF SameRows
  <2>2. hand'[h].lookup \cup hand'[h].write \cup hand'[h].due \subseteq Listed(hand'[h].rows)
    BY <1>4, <1>5, <1>6, <1>7
  <2>3. rec.run \in Runs /\ run'[rec.run].status # "none"
    BY <1>1, <1>5, <1>6, <1>8
  <2> QED
    BY <1>6, <1>7, <2>1, <2>2, <2>3 DEF HandOK, Loop
<1> QED
  BY <1>2, <1>6, <1>8, <1>9, Quiet

Todo(x) == x.lookup \cup x.write \cup x.due

\* A request that goes on settling its run.
LEMMA Onward ==
  ASSUME Base, Grows, NEW h \in Handlers, hand[h].pc \in Loop,
         NEW x \in Hand, hand'[h] = x, x.pc \in Loop, x.run = hand[h].run,
         \A u \in Users : /\ x.rows[u] = None <=> hand[h].rows[u] = None
                          /\ hand[h].rows[u] # None => x.rows[u].amount = hand[h].rows[u].amount,
         Todo(x) \subseteq Todo(hand[h]),
         x.pc \in {"confirm", "fail"} => x.cur \in Users /\ hand[h].rows[x.cur] # None,
         x.pc = "confirm" => sent'[x.run][x.cur] # <<>>
  PROVE  HandOK(h)'
<1>1. /\ HandOK(h) /\ hand[h].run \in Runs /\ run[hand[h].run].status # "none"
      /\ hand[h] \in Hand
  BY Settler
<1>2. SameRows(h) /\ Todo(hand[h]) \subseteq Listed(hand[h].rows)
  BY <1>1 DEF HandOK, Todo
<1>3. SameRows(h)'
  BY <1>1, <1>2, SameKept
<1>4. Todo(hand'[h]) \subseteq Listed(hand'[h].rows)
  BY <1>2 DEF Listed
<1>5. x.run \in Runs /\ run'[x.run].status # "none"
  BY <1>1 DEF Grows
<1>6. x.pc \in {"confirm", "fail"} => x.cur \in Users /\ x.rows[x.cur] # None
  OBVIOUS
<1> QED
  BY <1>3, <1>4, <1>5, <1>6 DEF HandOK, Loop, Todo

LEMMA ResolveBase ==
  ASSUME Base, NEW h \in Handlers, Resolve(h)
  PROVE  Base'
<1> DEFINE x == hand[h]
<1>1. TypeOK /\ HandOK(h) /\ x \in Hand /\ hand[h].pc = "settle"
  BY Settler DEF Resolve, At, Loop
<1>2. /\ UNCHANGED <<share, run, recip, sent>> /\ share' \in [Users -> Share \cup {None}]
      /\ faults' \in Nat /\ calls' \in Nat /\ past' \in Past
  BY <1>1 DEF Resolve, TypeOK, used
<1>3. PICK u \in x.lookup, w \in Wallets \cup {None} :
        IF w = None \/ w = x.rows[u].wallet
        THEN Goes(h, [x EXCEPT !.lookup = @ \ {u}])
        ELSE Goes(h, [x EXCEPT !.lookup = @ \ {u}, !.write = @ \cup {u},
                               !.rows = Addressed(@, u, w)])
  BY DEF Resolve
<1>4. Grows
  BY <1>2 DEF Grows
<1>5. u \in Users /\ x.rows[u] # None /\ x.rows \in [Users -> Recip \cup {None}]
  BY <1>1 DEF HandOK, Loop, Listed, Hand
<1> HIDE DEF x
<1>6. CASE w = None \/ w = x.rows[u].wallet
  <2> DEFINE y == [x EXCEPT !.lookup = @ \ {u}]
  <2>1. /\ y \in Hand /\ y.lookup = x.lookup \ {u} /\ y.pc = x.pc /\ y.run = x.run
        /\ y.rows = x.rows /\ y.write = x.write /\ y.due = x.due /\ y.cur = x.cur
    BY <1>1, SetLookup
  <2>2. Goes(h, y)
    BY <1>3, <1>6
  <2> HIDE DEF y
  <2>3. hand'[h] = y
    BY <1>1, <2>1, <2>2, Put
  <2>4. HandOK(h)'
    BY <1>1, <1>4, <2>1, <2>3, Onward DEF Todo, Loop, x
  <2> QED
    BY <1>2, <2>1, <2>2, <2>4, Quiet
<1>7. CASE ~(w = None \/ w = x.rows[u].wallet)
  <2> DEFINE y == [x EXCEPT !.lookup = @ \ {u}, !.write = @ \cup {u},
                            !.rows = Addressed(@, u, w)]
  <2>0. w \in Wallets
    BY <1>7
  <2>1. /\ y \in Hand /\ y.lookup = x.lookup \ {u} /\ y.write = x.write \cup {u}
        /\ y.rows = Addressed(x.rows, u, w)
        /\ y.pc = x.pc /\ y.run = x.run /\ y.due = x.due /\ y.cur = x.cur
    <3>1. Addressed(x.rows, u, w) \in [Users -> Recip \cup {None}]
      BY <1>5, <2>0, AddressedType
    <3>2. x.write \cup {u} \in SUBSET Users
      BY <1>1, <1>5 DEF Hand
    <3> QED
      BY <1>1, <3>1, <3>2 DEF Hand
  <2>2. Goes(h, y)
    BY <1>3, <1>7
  <2> HIDE DEF y
  <2>3. hand'[h] = y
    BY <1>1, <2>1, <2>2, Put
  <2>4. \A v \in Users : /\ y.rows[v] = None <=> x.rows[v] = None
                         /\ x.rows[v] # None => y.rows[v].amount = x.rows[v].amount
    <3> SUFFICES ASSUME NEW v \in Users
                 PROVE  /\ y.rows[v] = None <=> x.rows[v] = None
                        /\ x.rows[v] # None => y.rows[v].amount = x.rows[v].amount
      OBVIOUS
    <3> DEFINE rows == x.rows
    <3>1. rows \in [Users -> Recip \cup {None}] /\ rows[u] # None
      BY <1>5
    <3> HIDE DEF rows
    <3>2. LET new == Addressed(rows, u, w) IN
            /\ new[v] = None <=> rows[v] = None
            /\ rows[v] # None => new[v].amount = rows[v].amount
      BY <1>5, <2>0, <3>1, AddressedRows
    <3> QED
      BY <2>1, <3>2 DEF rows
  <2>5. Todo(y) \subseteq Todo(x)
    BY <2>1 DEF Todo
  <2>6. y.pc = "settle" /\ x.pc = "settle"
    BY <1>1, <2>1 DEF x
  <2>7. HandOK(h)'
    BY <1>4, <2>1, <2>3, <2>4, <2>5, <2>6, Onward DEF Loop, x
  <2> QED
    BY <1>2, <2>1, <2>2, <2>7, Quiet
<1> QED
  BY <1>6, <1>7

LEMMA RereadBase ==
  ASSUME Base, NEW h \in Handlers, Reread(h)
  PROVE  Base'
<1> DEFINE x == hand[h]  s == IF Unpaid(hand[h].run) = {} THEN "settled" ELSE "partial"
           rec == [x EXCEPT !.pc = "finish", !.seen = s]
<1>1. /\ TypeOK /\ HandOK(h) /\ x \in Hand /\ hand[h].pc = "settle"
      /\ x.run \in Runs /\ run[x.run].status # "none"
  BY Settler DEF Reread, Paying, At, Loop
<1>2. /\ UNCHANGED <<share, run, recip, sent>> /\ share' \in [Users -> Share \cup {None}]
      /\ faults' \in Nat /\ calls' \in Nat /\ past' \in Past
  BY <1>1 DEF Reread, TypeOK, used
<1>3. s \in {"settled", "partial"} /\ Goes(h, rec)
  BY DEF Reread
<1>4. s = "settled" => AllPaid(x.run)
  <2> SUFFICES ASSUME Unpaid(x.run) = {}, NEW u \in Users,
                      recip[x.run][u] # None, recip[x.run][u].amount > 0
               PROVE  sent[x.run][u] # <<>>
    BY DEF AllPaid
  <2>1. recip[x.run][u].status \notin {"failed", "pending"}
    BY DEF Unpaid
  <2>2. recip[x.run][u].status \in {"pending", "confirmed", "failed", "skipped"}
    BY <1>1 DEF TypeOK, Recip
  <2>3. RowOK(x.run, u)
    BY <1>1 DEF Base
  <2> QED
    BY <2>1, <2>2, <2>3 DEF RowOK
<1> HIDE DEF x, s
<1>5. rec \in Hand /\ rec.pc = "finish" /\ rec.seen = s /\ rec.run = x.run
  BY <1>1, <1>3, SetSeen
<1> HIDE DEF rec
<1>6. hand'[h] = rec
  BY <1>1, <1>3, <1>5, Put
<1>7. AllPaid(x.run) => \A u \in Users :
        recip'[x.run][u] # None /\ recip'[x.run][u].amount > 0 => sent'[x.run][u] # <<>>
  BY <1>2 DEF AllPaid
<1>8. HandOK(h)'
  BY <1>1, <1>2, <1>4, <1>5, <1>6, <1>7 DEF HandOK, Loop, AllPaid
<1> QED
  BY <1>2, <1>3, <1>5, <1>8, Quiet

\* A write to one row that a run has, with its amount left alone.
RowWrite(r, u) ==
  /\ recip' \in [Runs -> [Users -> Recip \cup {None}]]
  /\ recip[r][u] # None /\ recip'[r][u] # None
  /\ recip'[r][u].amount = recip[r][u].amount
  /\ \A q \in Runs, v \in Users : q # r \/ v # u => recip'[q][v] = recip[q][v]

LEMMA RowGrows ==
  ASSUME Base, NEW r \in Runs, NEW u \in Users, run[r].status # "none", RowWrite(r, u),
         UNCHANGED <<run, sent>>
  PROVE  Grows /\ Untouched
<1>1. \A q \in Runs, v \in Users :
        /\ recip'[q][v] = None <=> recip[q][v] = None
        /\ recip[q][v] # None => recip'[q][v].amount = recip[q][v].amount
  BY DEF RowWrite
<1>2. \A q \in Runs : q # r => recip'[q] = recip[q]
  BY DEF RowWrite, Base, TypeOK
<1> QED
  BY <1>1, <1>2 DEF Grows, Untouched

LEMMA RowBase ==
  ASSUME Base, NEW r \in Runs, NEW u \in Users, run[r].status # "none", RowWrite(r, u),
         RowOK(r, u)', UNCHANGED <<share, run, sent, faults, calls>>, past' \in Past,
         NEW h \in Handlers, NEW x \in Hand, Goes(h, x), HandOK(h)'
  PROVE  Base'
<1>1. Grows /\ Untouched
  BY RowGrows
<1>2. hand' \in [Handlers -> Hand] /\ \A g \in Handlers : g # h => hand'[g] = hand[g]
  BY Put DEF Base
<1>3. TypeOK'
  BY <1>2 DEF Base, TypeOK, RowWrite
<1>4. ASSUME NEW q \in Runs, NEW v \in Users PROVE RowOK(q, v)'
  <2>1. CASE q = r /\ v = u
    BY <2>1
  <2>2. CASE q # r \/ v # u
    BY <2>2 DEF Base, RowOK, RowWrite
  <2> QED
    BY <2>1, <2>2
<1> QED
  BY <1>1, <1>2, <1>3, <1>4, Together

LEMMA PersistBase ==
  ASSUME Base, NEW h \in Handlers, Persist(h)
  PROVE  Base'
<1> DEFINE x == hand[h]
<1>0. PICK r \in Runs : r = hand[h].run
  BY Settler DEF Persist, At, Loop
<1>1. /\ TypeOK /\ HandOK(h) /\ x \in Hand /\ x.pc = "settle"
      /\ r = x.run /\ r \in Runs /\ run[r].status # "none"
  BY <1>0, Settler DEF Persist, At, Loop
<1>2. PICK u \in x.write :
        /\ Row(r, u, [recip[r][u] EXCEPT !.wallet = x.rows[u].wallet])
        /\ Goes(h, [x EXCEPT !.write = @ \ {u}])
        /\ past' = [past EXCEPT !.moved = IF recip[r][u].status # "confirmed" THEN @
                                          ELSE @ \cup {<<r, u>>}]
  BY <1>0 DEF Persist
<1>3. u \in Users /\ recip[r][u] # None /\ x.rows[u].wallet \in Wallets \cup {None}
  <2>1. u \in Users /\ x.rows[u] # None /\ x.rows[u] \in Recip
    BY <1>1 DEF HandOK, Loop, Listed, Hand
  <2> QED
    BY <1>1, <2>1 DEF HandOK, Loop, SameRows, Recip
<1>4. UNCHANGED <<share, run, sent, faults, calls>> /\ past' \in Past
  <2>1. UNCHANGED <<share, run, sent, faults, calls>>
    BY DEF Persist, used
  <2>2. <<r, u>> \in Runs \X Users
    BY <1>3
  <2>3. past' \in Past
    BY <1>1, <1>2, <2>2 DEF TypeOK, Past
  <2> QED
    BY <2>1, <2>3
<1> DEFINE w == x.rows[u].wallet  y == [x EXCEPT !.write = @ \ {u}]
<1> HIDE DEF x, w
<1>5. RowWrite(r, u) /\ recip'[r][u].status = recip[r][u].status
  <2>1. Row(r, u, [recip[r][u] EXCEPT !.wallet = w])
    BY <1>2 DEF w
  <2>2. w \in Wallets \cup {None}
    BY <1>3 DEF w
  <2> QED
    BY <1>1, <1>3, <2>1, <2>2, RecipWallet DEF RowWrite
<1>6. /\ y \in Hand /\ y.write = x.write \ {u} /\ y.pc = x.pc /\ y.run = x.run
      /\ y.rows = x.rows /\ y.lookup = x.lookup /\ y.due = x.due /\ y.cur = x.cur
  BY <1>1, SetWrite
<1>7. Goes(h, y)
  BY <1>2
<1> HIDE DEF y
<1>8. hand'[h] = y
  BY <1>1, <1>6, <1>7, Put
<1>9. Grows
  BY <1>1, <1>3, <1>4, <1>5, RowGrows
<1>10. HandOK(h)'
  <2>1. Todo(y) \subseteq Todo(x)
    BY <1>6 DEF Todo
  <2> QED
    BY <1>1, <1>6, <1>8, <1>9, <2>1, Onward DEF Loop, x
<1>11. RowOK(r, u)'
  BY <1>1, <1>3, <1>4, <1>5 DEF RowOK, Base, RowWrite
<1> QED
  BY <1>1, <1>3, <1>4, <1>5, <1>6, <1>7, <1>10, <1>11, RowBase

LEMMA SkipBase ==
  ASSUME Base, NEW h \in Handlers, Skip(h)
  PROVE  Base'
<1> DEFINE x == hand[h]
<1>0. PICK r \in Runs : r = hand[h].run
  BY Settler DEF Skip, Paying, At, Loop
<1>1. /\ TypeOK /\ HandOK(h) /\ x \in Hand /\ x.pc = "settle"
      /\ r = x.run /\ r \in Runs /\ run[r].status # "none"
  BY <1>0, Settler DEF Skip, Paying, At, Loop
<1>2. PICK u \in Payable(h) :
        /\ x.rows[u].amount = 0
        /\ Row(r, u, [recip[r][u] EXCEPT !.status = "skipped"])
        /\ Goes(h, [x EXCEPT !.due = @ \ {u}])
  BY <1>0 DEF Skip
<1>3. u \in Users /\ recip[r][u] # None /\ recip[r][u].amount = 0
  <2>1. u \in x.due /\ u \in Users /\ x.rows[u] # None
    BY <1>1 DEF Payable, HandOK, Loop, Listed, Hand
  <2> QED
    BY <1>1, <1>2, <2>1 DEF HandOK, Loop, SameRows
<1>4. UNCHANGED <<share, run, sent, faults, calls>> /\ past' \in Past
  BY <1>1 DEF Skip, used, TypeOK
<1> DEFINE y == [x EXCEPT !.due = @ \ {u}]
<1> HIDE DEF x
<1>5. RowWrite(r, u) /\ recip'[r][u].status = "skipped"
  BY <1>1, <1>2, <1>3, RecipStatus DEF RowWrite
<1>6. /\ y \in Hand /\ y.due = x.due \ {u} /\ y.pc = x.pc /\ y.run = x.run
      /\ y.rows = x.rows /\ y.lookup = x.lookup /\ y.write = x.write /\ y.cur = x.cur
  BY <1>1, SetDue
<1>7. Goes(h, y)
  BY <1>2
<1> HIDE DEF y
<1>8. hand'[h] = y
  BY <1>1, <1>6, <1>7, Put
<1>9. Grows
  BY <1>1, <1>3, <1>4, <1>5, RowGrows
<1>10. HandOK(h)'
  <2>1. Todo(y) \subseteq Todo(x)
    BY <1>6 DEF Todo
  <2> QED
    BY <1>1, <1>6, <1>8, <1>9, <2>1, Onward DEF Loop, x
<1>11. RowOK(r, u)'
  BY <1>3, <1>5 DEF RowOK, RowWrite
<1> QED
  BY <1>1, <1>3, <1>4, <1>5, <1>6, <1>7, <1>10, <1>11, RowBase

LEMMA WritesBase ==
  ASSUME Base, NEW h \in Handlers, NEW s \in {"confirmed", "failed"}, Writes(h, s),
         hand[h].pc = IF s = "confirmed" THEN "confirm" ELSE "fail"
  PROVE  Base'
<1> DEFINE x == hand[h]
<1>0. PICK r \in Runs, u \in Users : r = hand[h].run /\ u = hand[h].cur
  <2>1. HandOK(h) /\ hand[h].pc \in {"confirm", "fail"}
    BY DEF Base
  <2> QED
    BY <2>1 DEF HandOK, Loop
<1>1. /\ TypeOK /\ HandOK(h) /\ x \in Hand /\ x.pc \in {"confirm", "fail"}
      /\ r = x.run /\ r \in Runs /\ run[r].status # "none" /\ u = x.cur
      /\ s = "confirmed" => x.pc = "confirm"
  BY <1>0, Settler DEF Loop
<1>2. /\ Row(r, u, [recip[r][u] EXCEPT !.status = s])
      /\ Goes(h, [x EXCEPT !.pc = "settle", !.cur = None])
  BY <1>0 DEF Writes
<1>3. u \in Users /\ recip[r][u] # None /\ (s = "confirmed" => sent[r][u] # <<>>)
  BY <1>1 DEF HandOK, Loop, SameRows
<1>4. UNCHANGED <<share, run, sent, faults, calls>> /\ past' \in Past
  BY <1>1 DEF Writes, used, TypeOK
<1> DEFINE y == [x EXCEPT !.pc = "settle", !.cur = None]
<1> HIDE DEF x
<1>5. RowWrite(r, u) /\ recip'[r][u].status = s
  <2> DEFINE old == recip[r][u]  row == [old EXCEPT !.status = s]
  <2>1. Row(r, u, row)
    BY <1>2
  <2>2. old \in Recip
    BY <1>1, <1>3 DEF TypeOK
  <2>3. row \in Recip /\ row.status = s /\ row.amount = old.amount
    <3> HIDE DEF old
    <3> QED
      BY <2>2 DEF Recip
  <2> HIDE DEF row
  <2> QED
    BY <1>1, <1>3, <2>1, <2>3, NewRow, RowsAssumption DEF RowWrite
<1>6. /\ y \in Hand /\ y.pc = "settle" /\ y.due = x.due /\ y.run = x.run
      /\ y.rows = x.rows /\ y.lookup = x.lookup /\ y.write = x.write
  BY <1>1, ClearCur
<1>7. Goes(h, y)
  BY <1>2
<1> HIDE DEF y
<1>8. hand'[h] = y
  BY <1>1, <1>6, <1>7, Put
<1>9. Grows
  BY <1>1, <1>3, <1>4, <1>5, RowGrows
<1>10. HandOK(h)'
  <2>1. Todo(y) \subseteq Todo(x)
    BY <1>6 DEF Todo
  <2> QED
    BY <1>1, <1>6, <1>8, <1>9, <2>1, Onward DEF Loop, x
<1>11. RowOK(r, u)'
  BY <1>3, <1>4, <1>5 DEF RowOK, RowWrite
<1> QED
  BY <1>1, <1>3, <1>4, <1>5, <1>6, <1>7, <1>10, <1>11, RowBase

LEMMA SentBase ==
  ASSUME Base, NEW r \in Runs, NEW u \in Users, NEW w \in Wallets, Pays(r, u, w),
         run[r].status # "none", UNCHANGED <<share, run, recip, calls>>,
         faults' \in Nat, past' \in Past,
         NEW h \in Handlers, NEW x \in Hand, Goes(h, x), HandOK(h)'
  PROVE  Base'
<1>1. TypeOK
  BY DEF Base
<1>2. hand' \in [Handlers -> Hand] /\ \A g \in Handlers : g # h => hand'[g] = hand[g]
  BY <1>1, Put
<1>3. /\ sent' \in [Runs -> [Users -> Seq(Wallets)]] /\ sent'[r][u] # <<>>
      /\ \A q \in Runs, v \in Users : q # r \/ v # u => sent'[q][v] = sent[q][v]
  BY <1>1, Sends
<1>4. TypeOK'
  BY <1>1, <1>2, <1>3 DEF TypeOK
<1>5. \A q \in Runs, v \in Users : sent[q][v] # <<>> => sent'[q][v] # <<>>
  BY <1>3
<1>6. Grows
  BY <1>5 DEF Grows
<1>7. Untouched
  <2>1. \A q \in Runs : q # r => sent'[q] = sent[q]
    BY <1>1, <1>3 DEF TypeOK
  <2> QED
    BY <2>1 DEF Untouched
<1>8. \A q \in Runs, v \in Users : RowOK(q, v)'
  BY <1>5 DEF Base, RowOK
<1> QED
  BY <1>2, <1>4, <1>6, <1>7, <1>8, Together

\* The request after a transfer was asked for.
LEMMA AskedHand ==
  ASSUME Base, Grows, NEW h \in Handlers, NEW u \in Payable(h), Paying(h),
         NEW p \in {"confirm", "fail"},
         Goes(h, [hand[h] EXCEPT !.pc = p, !.cur = u, !.due = @ \ {u}]),
         p = "confirm" => sent'[hand[h].run][u] # <<>>
  PROVE  HandOK(h)' /\ \E y \in Hand : Goes(h, y)
<1> DEFINE x == hand[h]  y == [x EXCEPT !.pc = p, !.cur = u, !.due = @ \ {u}]
<1>1. TypeOK /\ HandOK(h) /\ x \in Hand /\ x.pc = "settle"
  BY Settler DEF Paying, At, Loop
<1>2. u \in Users /\ x.rows[u] # None
  BY <1>1 DEF Payable, HandOK, Loop, Listed, Hand
<1>3. Goes(h, y)
  OBVIOUS
<1> HIDE DEF x
<1>4. /\ y \in Hand /\ y.pc = p /\ y.cur = u /\ y.due = x.due \ {u}
      /\ y.run = x.run /\ y.rows = x.rows /\ y.lookup = x.lookup /\ y.write = x.write
  BY <1>1, <1>2 DEF Hand
<1> HIDE DEF y
<1>5. hand'[h] = y
  BY <1>1, <1>3, <1>4, Put
<1>6. Todo(y) \subseteq Todo(x)
  BY <1>4 DEF Todo
<1>7. HandOK(h)'
  BY <1>1, <1>2, <1>4, <1>5, <1>6, Onward DEF Loop, x
<1> QED
  BY <1>3, <1>4, <1>7

LEMMA PayGrows ==
  ASSUME Base, NEW r \in Runs, NEW u \in Users, NEW w \in Wallets, Pays(r, u, w),
         UNCHANGED <<run, recip>>
  PROVE  Grows /\ sent'[r][u] # <<>>
<1>1. /\ sent'[r][u] # <<>>
      /\ \A q \in Runs, v \in Users : q # r \/ v # u => sent'[q][v] = sent[q][v]
  BY Sends DEF Base
<1>2. \A q \in Runs, v \in Users : sent[q][v] # <<>> => sent'[q][v] # <<>>
  BY <1>1
<1> QED
  BY <1>1, <1>2 DEF Grows

LEMMA Asking ==
  ASSUME Base, NEW h \in Handlers, Paying(h), NEW u \in Payable(h)
  PROVE  /\ u \in Users /\ hand[h].run \in Runs /\ run[hand[h].run].status # "none"
         /\ hand[h].rows[u].wallet \in Wallets /\ recip[hand[h].run][u] # None
         /\ u \in hand[h].due /\ hand[h].pc = "settle"
<1>1. /\ HandOK(h) /\ hand[h] \in Hand /\ hand[h].pc = "settle"
      /\ hand[h].run \in Runs /\ run[hand[h].run].status # "none"
  BY Settler DEF Paying, At, Loop
<1>2. u \in Users /\ hand[h].rows[u] # None /\ hand[h].rows[u].wallet # None
  BY <1>1 DEF Payable, HandOK, Loop, Listed, Hand
<1>3. hand[h].rows[u] \in Recip
  BY <1>1, <1>2 DEF Hand
<1> QED
  BY <1>1, <1>2, <1>3 DEF Recip, HandOK, SameRows, Loop, Payable

LEMMA TransferBase ==
  ASSUME Base, NEW h \in Handlers, Transfer(h)
  PROVE  Base'
<1>1. Paying(h) /\ UNCHANGED <<share, run, recip, calls, faults, past>>
  BY DEF Transfer, used
<1>2. PICK u \in Payable(h) :
        /\ Pays(hand[h].run, u, hand[h].rows[u].wallet)
        /\ Goes(h, [hand[h] EXCEPT !.pc = "confirm", !.cur = u, !.due = @ \ {u}])
  BY DEF Transfer
<1>3. PICK r \in Runs, w \in Wallets : r = hand[h].run /\ w = hand[h].rows[u].wallet
  BY <1>1, Asking
<1>4. u \in Users /\ run[r].status # "none"
  BY <1>1, <1>3, Asking
<1>5. Pays(r, u, w)
  BY <1>2, <1>3
<1>6. Grows /\ sent'[r][u] # <<>>
  BY <1>1, <1>4, <1>5, PayGrows
<1>7. HandOK(h)' /\ \E y \in Hand : Goes(h, y)
  BY <1>1, <1>2, <1>3, <1>6, AskedHand
<1>8. faults' \in Nat /\ past' \in Past
  BY <1>1 DEF Base, TypeOK
<1> QED
  BY <1>1, <1>4, <1>5, <1>7, <1>8, SentBase

LEMMA TransferFailsBase ==
  ASSUME Base, NEW h \in Handlers, TransferFails(h)
  PROVE  Base'
<1>1. Paying(h) /\ UNCHANGED <<share, run, recip, calls>> /\ faults' \in Nat
  BY DEF TransferFails, Base, TypeOK
<1>2. PICK u \in Payable(h) :
        /\ \/ UNCHANGED <<sent, past>>
           \/ /\ Pays(hand[h].run, u, hand[h].rows[u].wallet)
              /\ past' = [past EXCEPT !.lost = @ \cup {hand[h].run}]
        /\ Goes(h, [hand[h] EXCEPT !.pc = "fail", !.cur = u, !.due = @ \ {u}])
  BY DEF TransferFails
<1>3. PICK r \in Runs, w \in Wallets : r = hand[h].run /\ w = hand[h].rows[u].wallet
  BY <1>1, Asking
<1>4. u \in Users /\ run[r].status # "none"
  BY <1>1, <1>3, Asking
<1>5. CASE UNCHANGED <<sent, past>>
  <2>1. Grows /\ Untouched
    BY <1>1, <1>5 DEF Grows, Untouched
  <2>2. HandOK(h)' /\ \E y \in Hand : Goes(h, y)
    BY <1>1, <1>2, <2>1, AskedHand
  <2>3. /\ share' \in [Users -> Share \cup {None}] /\ calls' \in Nat /\ past' \in Past
        /\ UNCHANGED <<run, recip, sent>>
    BY <1>1, <1>5 DEF Base, TypeOK
  <2> QED
    BY <1>1, <2>2, <2>3, Quiet
<1>6. CASE Pays(r, u, w) /\ past' = [past EXCEPT !.lost = @ \cup {r}]
  <2>1. Grows /\ sent'[r][u] # <<>>
    BY <1>1, <1>4, <1>6, PayGrows
  <2>2. HandOK(h)' /\ \E y \in Hand : Goes(h, y)
    BY <1>1, <1>2, <2>1, AskedHand
  <2>3. past' \in Past
    BY <1>6 DEF Base, TypeOK, Past
  <2> QED
    BY <1>1, <1>4, <1>6, <2>2, <2>3, SentBase
<1> QED
  BY <1>2, <1>3, <1>5, <1>6

LEMMA InsertRunBase ==
  ASSUME Base, NEW h \in Handlers, InsertRun(h)
  PROVE  Base'
<1>1. /\ TypeOK /\ HandOK(h) /\ hand[h] \in Hand /\ hand[h].pc = "insert"
      /\ hand[h].period \in Periods
  BY DEF Base, TypeOK, InsertRun, At, HandOK
<1>2. PICK r \in Runs :
        /\ run[r].status = "none"
        /\ run' = [run EXCEPT ![r] = [status |-> "pending", period |-> hand[h].period,
                                      revenue |-> hand[h].revenue,
                                      fee |-> Fee(hand[h].revenue, hand[h].feeBps)]]
        /\ recip' = [recip EXCEPT ![r] = hand[h].rows]
  BY DEF InsertRun
<1>3. UNCHANGED <<share, sent, faults, calls, past>> /\ Goes(h, Idle)
  BY DEF InsertRun, used, Ends
<1>4. /\ hand' \in [Handlers -> Hand] /\ hand'[h] = Idle
      /\ \A g \in Handlers : g # h => hand'[g] = hand[g]
  BY <1>1, <1>3, IdleHand, Put
<1>5. /\ run' \in [Runs -> Run] /\ run'[r].status = "pending"
      /\ run'[r].period \in Periods
      /\ \A q \in Runs : q # r => run'[q] = run[q]
  <2> DEFINE m == hand[h].revenue  f == hand[h].feeBps  fee == Fee(m, f)
             new == [status |-> "pending", period |-> hand[h].period, revenue |-> m, fee |-> fee]
  <2>1. m \in Nat /\ f \in Nat /\ hand[h].period \in Periods
    BY <1>1 DEF Hand
  <2>2. fee \in Nat
    <3> HIDE DEF m, f
    <3>1. m * f \in Nat
      BY <2>1
    <3> QED
      BY <3>1 DEF Fee
  <2> HIDE DEF fee
  <2>3. new \in Run
    BY <2>1, <2>2 DEF Run
  <2>4. new.status = "pending" /\ new.period = hand[h].period
    OBVIOUS
  <2>5. run' = [run EXCEPT ![r] = new]
    BY <1>2 DEF fee
  <2> HIDE DEF new
  <2> QED
    BY <1>1, <2>3, <2>4, <2>5 DEF TypeOK
<1>6. /\ recip' \in [Runs -> [Users -> Recip \cup {None}]] /\ recip'[r] = hand[h].rows
      /\ \A q \in Runs : q # r => recip'[q] = recip[q]
  BY <1>1, <1>2 DEF TypeOK, Hand
<1>7. TypeOK'
  BY <1>1, <1>3, <1>4, <1>5, <1>6 DEF TypeOK
<1>8. Grows
  BY <1>2, <1>3, <1>5, <1>6 DEF Grows
<1>9. ASSUME NEW q \in Runs PROVE RunOK(q)'
  <2>1. CASE q = r
    BY <1>5, <2>1 DEF RunOK
  <2>2. CASE q # r
    <3>1. run'[q] = run[q] /\ recip'[q] = recip[q] /\ sent'[q] = sent[q]
      BY <1>3, <1>5, <1>6, <2>2
    <3>2. RunOK(q)
      BY DEF Base
    <3> QED
      BY <3>1, <3>2 DEF RunOK, AllPaid
  <2> QED
    BY <2>1, <2>2
<1>10. ASSUME NEW q \in Runs, NEW u \in Users PROVE RowOK(q, u)'
  <2>1. CASE q = r
    BY <1>1, <1>6, <2>1 DEF RowOK, HandOK
  <2>2. CASE q # r
    BY <1>3, <1>6, <2>2 DEF RowOK, Base
  <2> QED
    BY <2>1, <2>2
<1>11. ASSUME NEW g \in Handlers PROVE HandOK(g)'
  BY <1>4, <1>8, Ended, HandKept
<1> QED
  BY <1>7, <1>9, <1>10, <1>11 DEF Base

-----------------------------------------------------------------------------

LEMMA StartBase == Init => Base
<1> SUFFICES ASSUME Init PROVE Base
  OBVIOUS
<1>1. share \in [Users -> Share \cup {None}]
  BY DEF Init, Nobody
<1>2. run \in [Runs -> Run]
      /\ \A r \in Runs : run[r].status = "none" /\ run[r].period = None
  BY DEF Init, Run
<1>3. recip \in [Runs -> [Users -> Recip \cup {None}]]
      /\ \A r \in Runs, u \in Users : recip[r][u] = None
  BY DEF Init, Nobody
<1>4. sent \in [Runs -> [Users -> Seq(Wallets)]]
      /\ \A r \in Runs, u \in Users : sent[r][u] = <<>>
  BY DEF Init
<1>5. hand \in [Handlers -> Hand] /\ \A h \in Handlers : hand[h] = Idle
  BY IdleHand DEF Init
<1>6. faults \in Nat /\ calls \in Nat
  BY DEF Init
<1>7. past \in Past
  BY DEF Init, Past
<1>8. TypeOK
  BY <1>1, <1>2, <1>3, <1>4, <1>5, <1>6, <1>7 DEF TypeOK
<1>9. \A r \in Runs : RunOK(r) /\ \A u \in Users : RowOK(r, u)
  BY <1>2, <1>3, <1>4 DEF RunOK, RowOK
<1>10. \A h \in Handlers : HandOK(h)
  BY <1>5, IdleHand DEF HandOK, Loop
<1> QED
  BY <1>8, <1>9, <1>10 DEF Base

LEMMA StepBase == Base /\ [Next]_vars => Base'
<1> SUFFICES ASSUME Base, [Next]_vars PROVE Base'
  OBVIOUS
<1>1. CASE \E u \in Users, bps \in Shares : UpsertShare(u, bps)
  BY <1>1, UpsertShareBase
<1>2. CASE \E list \in Lists : ReplaceShares(list)
  BY <1>2, ReplaceSharesBase
<1>3. ASSUME NEW h \in Handlers,
             \/ \E p \in Periods, m \in Revenues, f \in Fees : AssembleRead(h, p, m, f)
             \/ ReadShares(h) \/ InsertRun(h)
             \/ \E r \in Runs : SettleRead(h, r)
             \/ TransferFails(h) \/ HandFault(h)
      PROVE  Base'
  BY <1>3, AssembleReadBase, ReadSharesBase, InsertRunBase, SettleReadBase,
     TransferFailsBase, HandFaultBase
<1>4. ASSUME NEW h \in Handlers, Settles(h)
      PROVE  Base'
  <2>1. CASE Confirm(h)
    BY <2>1, WritesBase DEF Confirm, At
  <2>2. CASE Fail(h)
    BY <2>2, WritesBase DEF Fail, At
  <2> QED
    BY <1>4, <2>1, <2>2, MarkBase, ListRecipientsBase, ResolveBase, PersistBase, SkipBase,
       TransferBase, RereadBase, FinishBase DEF Settles
<1>5. CASE UNCHANGED vars
  BY <1>5, SharesBase DEF vars, used, Base, TypeOK
<1> QED
  BY <1>1, <1>2, <1>3, <1>4, <1>5 DEF Next

LEMMA AlwaysBase == Spec => []Base
<1>1. Init => Base
  BY StartBase
<1>2. Base /\ [Next]_vars => Base'
  BY StepBase
<1> QED
  BY <1>1, <1>2, PTL DEF Spec

\* Every table and every request keeps its type: amounts and fees never go below
\* zero, whatever shares, revenues and fees are used.
THEOREM TypeCorrect == Spec => []TypeOK
<1>1. Base => TypeOK
  BY DEF Base
<1> QED
  BY <1>1, AlwaysBase, PTL

\* A settled run has paid everyone who has anything to get, whatever overlapped,
\* failed or was retried (payouts.ts counts who is unpaid, then writes "settled").
THEOREM SettledRunsPaid == Spec => []SettledIsPaid
<1>1. Base => SettledIsPaid
  BY DEF Base, RunOK, AllPaid, SettledIsPaid
<1> QED
  BY <1>1, AlwaysBase, PTL

-----------------------------------------------------------------------------
(* What each step of a settlement does to the request that takes it.       *)

Others(h) == \A g \in Handlers : g # h => hand'[g] = hand[g]

LEMMA Steps ==
  ASSUME TypeOK, NEW h \in Handlers, NEW x, Goes(h, x)
  PROVE  Others(h) /\ hand'[h] = x
BY DEF TypeOK, Goes, Others

LEMMA MarkDoes ==
  ASSUME TypeOK, NEW h \in Handlers, Mark(h)
  PROVE  /\ Others(h) /\ hand[h].pc = "mark"
         /\ hand'[h].pc = "list" /\ hand'[h].run = hand[h].run
         /\ UNCHANGED <<recip, sent, past>>
<1>1. Others(h) /\ hand'[h] = [hand[h] EXCEPT !.pc = "list"]
  BY Steps DEF Mark, To
<1>2. hand[h] \in Hand
  BY DEF TypeOK
<1> QED
  BY <1>1, <1>2 DEF Mark, At, Hand, used

LEMMA ListDoes ==
  ASSUME TypeOK, NEW h \in Handlers, ListRecipients(h)
  PROVE  /\ Others(h) /\ hand[h].pc = "list"
         /\ hand'[h].pc = "settle" /\ hand'[h].run = hand[h].run
         /\ hand'[h].rows = recip[hand[h].run] /\ hand'[h].write = {}
         /\ hand'[h].due = Due(recip[hand[h].run])
         /\ UNCHANGED <<run, recip, sent, past>>
<1> DEFINE rows == recip[hand[h].run]  l == Listed(rows)  d == Due(rows)  x == hand[h]
<1>1. Others(h) /\ hand'[h] = [x EXCEPT !.pc = "settle", !.rows = rows, !.lookup = l,
                                        !.write = {}, !.due = d]
  BY Steps DEF ListRecipients
<1>2. x \in Hand
  BY DEF TypeOK
<1>3. hand[h].pc = "list" /\ UNCHANGED <<run, recip, sent, past>>
  BY DEF ListRecipients, At, used
<1>4. x.run = hand[h].run /\ rows = recip[hand[h].run] /\ d = Due(recip[hand[h].run])
  OBVIOUS
<1> HIDE DEF rows, l, d, x
<1>5. /\ hand'[h].pc = "settle" /\ hand'[h].run = x.run /\ hand'[h].rows = rows
      /\ hand'[h].write = {} /\ hand'[h].due = d
  BY <1>1, <1>2 DEF Hand
<1> QED
  BY <1>1, <1>3, <1>4, <1>5

LEMMA ResolveDoes ==
  ASSUME TypeOK, NEW h \in Handlers, Resolve(h)
  PROVE  /\ Others(h) /\ hand[h].pc = "settle"
         /\ hand'[h].pc = "settle" /\ hand'[h].run = hand[h].run
         /\ hand'[h].due = hand[h].due /\ hand'[h].cur = hand[h].cur
         /\ UNCHANGED <<run, recip, sent, past>>
         /\ \/ hand'[h].rows = hand[h].rows /\ hand'[h].write = hand[h].write
            \/ \E u \in hand[h].lookup, w \in Wallets :
                 /\ hand'[h].rows = Addressed(hand[h].rows, u, w)
                 /\ hand'[h].write = hand[h].write \cup {u}
<1> DEFINE x == hand[h]
<1>1. PICK u \in x.lookup, w \in Wallets \cup {None} :
        IF w = None \/ w = x.rows[u].wallet
        THEN Goes(h, [x EXCEPT !.lookup = @ \ {u}])
        ELSE Goes(h, [x EXCEPT !.lookup = @ \ {u}, !.write = @ \cup {u},
                               !.rows = Addressed(@, u, w)])
  BY DEF Resolve
<1>2. x \in Hand /\ x.pc = "settle" /\ UNCHANGED <<run, recip, sent, past>>
  BY DEF Resolve, At, TypeOK, used
<1> HIDE DEF x
<1>3. CASE w = None \/ w = x.rows[u].wallet
  <2>1. Others(h) /\ hand'[h] = [x EXCEPT !.lookup = @ \ {u}]
    BY <1>1, <1>3, Steps
  <2>2. /\ hand'[h].pc = x.pc /\ hand'[h].run = x.run /\ hand'[h].rows = x.rows
        /\ hand'[h].write = x.write /\ hand'[h].due = x.due /\ hand'[h].cur = x.cur
    BY <1>2, <2>1 DEF Hand
  <2> QED
    BY <1>2, <2>1, <2>2 DEF x
<1>4. CASE ~(w = None \/ w = x.rows[u].wallet)
  <2> DEFINE new == Addressed(x.rows, u, w)  wr == x.write \cup {u}
  <2>1. Others(h) /\ hand'[h] = [x EXCEPT !.lookup = @ \ {u}, !.write = wr, !.rows = new]
    BY <1>1, <1>4, Steps
  <2>2. new = Addressed(x.rows, u, w) /\ wr = x.write \cup {u} /\ w \in Wallets
    BY <1>4
  <2> HIDE DEF new, wr
  <2>3. /\ hand'[h].pc = x.pc /\ hand'[h].run = x.run /\ hand'[h].rows = new
        /\ hand'[h].write = wr /\ hand'[h].due = x.due /\ hand'[h].cur = x.cur
    BY <1>2, <2>1 DEF Hand
  <2> QED
    BY <1>2, <2>1, <2>2, <2>3 DEF x
<1> QED
  BY <1>3, <1>4

LEMMA RereadDoes ==
  ASSUME TypeOK, NEW h \in Handlers, Reread(h)
  PROVE  /\ Others(h) /\ hand[h].pc = "settle"
         /\ hand'[h].pc = "finish" /\ hand'[h].run = hand[h].run
         /\ UNCHANGED <<run, recip, sent, past>>
<1> DEFINE s == IF Unpaid(hand[h].run) = {} THEN "settled" ELSE "partial"
<1>1. Others(h) /\ hand'[h] = [hand[h] EXCEPT !.pc = "finish", !.seen = s]
  BY Steps DEF Reread
<1>2. hand[h] \in Hand
  BY DEF TypeOK
<1> HIDE DEF s
<1> QED
  BY <1>1, <1>2 DEF Reread, Paying, At, Hand, used

LEMMA IdleDoes ==
  ASSUME TypeOK, NEW h \in Handlers, Ends(h)
  PROVE  Others(h) /\ hand'[h].pc = "idle" /\ hand'[h].run = None
BY Steps, IdleHand DEF Ends

LEMMA PersistDoes ==
  ASSUME Base, NEW h \in Handlers, Persist(h), NEW r \in Runs, r = hand[h].run
  PROVE  /\ Others(h) /\ hand[h].pc = "settle"
         /\ hand'[h].pc = "settle" /\ hand'[h].run = r
         /\ hand'[h].due = hand[h].due /\ hand'[h].rows = hand[h].rows
         /\ UNCHANGED <<run, sent>>
         /\ \E u \in Users :
              /\ RowWrite(r, u) /\ hand[h].rows[u] # None
              /\ recip'[r][u].status = recip[r][u].status
              /\ recip'[r][u].wallet = hand[h].rows[u].wallet
              /\ hand'[h].write = hand[h].write \ {u}
              /\ past' = [past EXCEPT !.moved = IF recip[r][u].status # "confirmed" THEN @
                                                ELSE @ \cup {<<r, u>>}]
<1> DEFINE x == hand[h]
<1>1. /\ TypeOK /\ HandOK(h) /\ x \in Hand /\ x.pc = "settle" /\ r = x.run
  BY Settler DEF Persist, At, Loop
<1>2. PICK u \in x.write :
        /\ Row(r, u, [recip[r][u] EXCEPT !.wallet = x.rows[u].wallet])
        /\ Goes(h, [x EXCEPT !.write = @ \ {u}])
        /\ past' = [past EXCEPT !.moved = IF recip[r][u].status # "confirmed" THEN @
                                          ELSE @ \cup {<<r, u>>}]
  BY DEF Persist
<1>3. u \in Users /\ x.rows[u] # None /\ recip[r][u] # None
      /\ x.rows[u].wallet \in Wallets \cup {None}
  <2>1. u \in Users /\ x.rows[u] # None /\ x.rows[u] \in Recip
    BY <1>1 DEF HandOK, Loop, Listed, Hand
  <2> QED
    BY <1>1, <2>1 DEF HandOK, Loop, SameRows, Recip
<1>4. UNCHANGED <<run, sent>>
  BY DEF Persist
<1> DEFINE w == x.rows[u].wallet  y == [x EXCEPT !.write = @ \ {u}]
<1>5. Others(h) /\ hand'[h] = y
  BY <1>1, <1>2, Steps
<1>6. w = x.rows[u].wallet
  OBVIOUS
<1> HIDE DEF x, w
<1>7. RowWrite(r, u) /\ recip'[r][u].status = recip[r][u].status /\ recip'[r][u].wallet = w
  <2>1. Row(r, u, [recip[r][u] EXCEPT !.wallet = w])
    BY <1>2, <1>6
  <2>2. w \in Wallets \cup {None}
    BY <1>3, <1>6
  <2> QED
    BY <1>1, <1>3, <2>1, <2>2, RecipWallet DEF RowWrite
<1>8. y.write = x.write \ {u} /\ y.pc = x.pc /\ y.run = x.run /\ y.rows = x.rows /\ y.due = x.due
  BY <1>1, SetWrite
<1> HIDE DEF y
<1> QED
  BY <1>1, <1>2, <1>3, <1>4, <1>5, <1>6, <1>7, <1>8 DEF x

LEMMA SkipDoes ==
  ASSUME Base, NEW h \in Handlers, Skip(h), NEW r \in Runs, r = hand[h].run
  PROVE  /\ Others(h) /\ hand[h].pc = "settle"
         /\ hand'[h].pc = "settle" /\ hand'[h].run = r
         /\ hand'[h].rows = hand[h].rows /\ hand'[h].write = hand[h].write
         /\ UNCHANGED <<run, sent, past>>
         /\ \E u \in hand[h].due :
              /\ u \in Users /\ RowWrite(r, u) /\ recip'[r][u].status = "skipped"
              /\ recip'[r][u].wallet = recip[r][u].wallet
              /\ hand'[h].due = hand[h].due \ {u}
<1> DEFINE x == hand[h]
<1>1. Paying(h) /\ TypeOK /\ x \in Hand
  BY DEF Skip, Base, TypeOK
<1>2. PICK u \in Payable(h) :
        /\ Row(r, u, [recip[r][u] EXCEPT !.status = "skipped"])
        /\ Goes(h, [x EXCEPT !.due = @ \ {u}])
  BY DEF Skip
<1>3. u \in x.due /\ u \in Users /\ recip[r][u] # None /\ x.pc = "settle"
  BY <1>1, Asking
<1>4. Others(h) /\ hand'[h] = [x EXCEPT !.due = @ \ {u}]
  BY <1>1, <1>2, Steps
<1> DEFINE y == [x EXCEPT !.due = @ \ {u}]
<1>5. hand'[h] = y
  BY <1>4
<1> HIDE DEF x
<1>6. RowWrite(r, u) /\ recip'[r][u].status = "skipped"
      /\ recip'[r][u].wallet = recip[r][u].wallet
  BY <1>1, <1>2, <1>3, RecipStatus DEF RowWrite
<1>7. y.due = x.due \ {u} /\ y.pc = x.pc /\ y.run = x.run /\ y.rows = x.rows /\ y.write = x.write
  BY <1>1, SetDue
<1> HIDE DEF y
<1> QED
  BY <1>3, <1>4, <1>5, <1>6, <1>7 DEF x, Skip, used

LEMMA WritesDoes ==
  ASSUME Base, NEW h \in Handlers, Confirm(h) \/ Fail(h),
         NEW r \in Runs, NEW u \in Users, r = hand[h].run, u = hand[h].cur
  PROVE  /\ Others(h) /\ hand'[h].pc = "settle" /\ hand'[h].run = r
         /\ hand'[h].rows = hand[h].rows /\ hand'[h].write = hand[h].write
         /\ hand'[h].due = hand[h].due
         /\ UNCHANGED <<run, sent, past>> /\ RowWrite(r, u)
         /\ recip'[r][u].wallet = recip[r][u].wallet
         /\ \/ hand[h].pc = "confirm" /\ recip'[r][u].status = "confirmed"
            \/ hand[h].pc = "fail" /\ recip'[r][u].status = "failed"
<1> DEFINE x == hand[h]  y == [x EXCEPT !.pc = "settle", !.cur = None]
<1>1. TypeOK /\ HandOK(h) /\ x \in Hand /\ x.pc \in {"confirm", "fail"}
  BY DEF Base, TypeOK, Confirm, Fail, At
<1>2. recip[r][u] # None /\ x.run = r
  BY <1>1 DEF HandOK, Loop, SameRows
<1>3. UNCHANGED <<run, sent, past>> /\ Goes(h, y)
  BY DEF Confirm, Fail, Writes, used
<1>4. Others(h) /\ hand'[h] = y
  BY <1>1, <1>3, Steps
<1> HIDE DEF x
<1>5. /\ y.pc = "settle" /\ y.due = x.due /\ y.run = x.run /\ y.rows = x.rows
      /\ y.write = x.write
  BY <1>1, ClearCur
<1> HIDE DEF y
<1>6. /\ RowWrite(r, u) /\ recip'[r][u].wallet = recip[r][u].wallet
      /\ \/ hand[h].pc = "confirm" /\ recip'[r][u].status = "confirmed"
         \/ hand[h].pc = "fail" /\ recip'[r][u].status = "failed"
  <2>1. CASE Confirm(h)
    <3>1. Row(r, u, [recip[r][u] EXCEPT !.status = "confirmed"]) /\ hand[h].pc = "confirm"
      BY <2>1 DEF Confirm, Writes, At
    <3> QED
      BY <1>1, <1>2, <3>1, RecipStatus DEF RowWrite
  <2>2. CASE Fail(h)
    <3>1. Row(r, u, [recip[r][u] EXCEPT !.status = "failed"]) /\ hand[h].pc = "fail"
      BY <2>2 DEF Fail, Writes, At
    <3> QED
      BY <1>1, <1>2, <3>1, RecipStatus DEF RowWrite
  <2> QED
    BY <2>1, <2>2
<1> QED
  BY <1>2, <1>3, <1>4, <1>5, <1>6 DEF x

LEMMA AskedDoes ==
  ASSUME Base, NEW h \in Handlers, Paying(h), NEW u \in Payable(h), NEW p \in {"confirm", "fail"},
         Goes(h, [hand[h] EXCEPT !.pc = p, !.cur = u, !.due = @ \ {u}])
  PROVE  /\ Others(h) /\ hand[h].pc = "settle" /\ hand[h].write = {}
         /\ hand'[h].pc = p /\ hand'[h].cur = u /\ hand'[h].due = hand[h].due \ {u}
         /\ hand'[h].run = hand[h].run /\ hand'[h].rows = hand[h].rows
         /\ hand'[h].write = hand[h].write
<1> DEFINE x == hand[h]
<1>1. TypeOK /\ x \in Hand /\ x.pc = "settle" /\ x.write = {}
  BY DEF Base, TypeOK, Paying, At
<1>2. Others(h) /\ hand'[h] = [x EXCEPT !.pc = p, !.cur = u, !.due = @ \ {u}]
  BY <1>1, Steps
<1> HIDE DEF x
<1>3. /\ hand'[h].pc = p /\ hand'[h].cur = u /\ hand'[h].due = x.due \ {u}
      /\ hand'[h].run = x.run /\ hand'[h].rows = x.rows /\ hand'[h].write = x.write
  BY <1>1, <1>2 DEF Hand
<1> QED
  BY <1>1, <1>2, <1>3 DEF x

-----------------------------------------------------------------------------
(* OnceInv is kept.                                                        *)

\* A run the step leaves alone.
Elsewhere(r) ==
  /\ run'[r] = run[r] /\ recip'[r] = recip[r] /\ sent'[r] = sent[r]
  /\ \A g \in Handlers : hand'[g] = hand[g] \/ (hand[g].run # r /\ hand'[g].run # r)

LEMMA OrderlyElsewhere ==
  ASSUME NEW r \in Runs, Orderly(r), Elsewhere(r)
  PROVE  Orderly(r)'
<1>1. Settling(r)' = Settling(r) /\ \A h \in Settling(r) : hand'[h] = hand[h]
  BY DEF Settling, Elsewhere
<1>2. \A h \in Settling(r) : InTurn(h)'
  BY <1>1 DEF Orderly, InTurn, Elsewhere, Settling
<1>3. ASSUME NEW u \in Users PROVE Recorded(r, u)'
  <2>1. Recorded(r, u)
    BY DEF Orderly
  <2> QED
    BY <1>1, <2>1 DEF Recorded, Elsewhere
<1> QED
  BY <1>1, <1>2, <1>3 DEF Orderly

Done(r, u) ==
  /\ Len(sent[r][u]) <= 1
  /\ sent[r][u] # <<>> => recip[r][u] # None /\ recip[r][u].status = "confirmed"

LEMMA DoneBefore ==
  ASSUME NEW r \in Runs, Orderly(r), NEW h \in Handlers, hand[h].run = r,
         NEW u \in Users, ~(hand[h].pc = "confirm" /\ hand[h].cur = u)
  PROVE  Done(r, u)
<1>1. \A g \in Settling(r) : g = h
  BY DEF Orderly, Settling
<1>2. h \in Settling(r)
  BY DEF Settling
<1> QED
  BY <1>1, <1>2 DEF Orderly, Recorded, Done

LEMMA OrderlyOn ==
  ASSUME NEW r \in Runs, Orderly(r), NEW h \in Handlers, hand[h].run = r, Others(h),
         hand'[h].run = r, InTurn(h)',
         \A u \in Users : Done(r, u)' \/ (/\ Len(sent'[r][u]) <= 1 /\ recip'[r][u] # None
                                          /\ hand'[h].pc = "confirm" /\ hand'[h].cur = u)
  PROVE  Orderly(r)'
<1>1. Settling(r) = {h} /\ Settling(r)' = {h}
  BY DEF Orderly, Settling, Others
<1>2. \A u \in Users : Recorded(r, u)'
  BY <1>1 DEF Recorded, Done
<1> QED
  BY <1>1, <1>2 DEF Orderly

LEMMA MarkOrderly ==
  ASSUME Base, NEW h \in Handlers, Mark(h), NEW r \in Runs, Orderly(r)
  PROVE  Orderly(r)'
<1>1. /\ Others(h) /\ hand[h].pc = "mark" /\ hand'[h].pc = "list"
      /\ hand'[h].run = hand[h].run /\ UNCHANGED <<recip, sent, past>>
  BY MarkDoes DEF Base
<1>2. hand[h].run \in Runs /\ run \in [Runs -> Run]
  BY <1>1, Settler DEF Base, TypeOK
<1>3. CASE hand[h].run = r
  <2>1. run[r].status = hand[h].seen
    BY <1>1, <1>3 DEF Orderly, InTurn, Settling
  <2>2. run' = [run EXCEPT ![r].status = "settling"]
    BY <1>3, <2>1 DEF Mark
  <2>3. run'[r].status = "settling"
    BY <1>2, <2>2 DEF Run
  <2>4. InTurn(h)'
    BY <1>1, <1>3, <2>3 DEF InTurn, Loop
  <2>5. \A u \in Users : Done(r, u)'
    BY <1>1, <1>3, DoneBefore DEF Done
  <2> QED
    BY <1>1, <1>3, <2>4, <2>5, OrderlyOn
<1>4. CASE hand[h].run # r
  <2>1. run'[r] = run[r]
    BY <1>2, <1>4 DEF Mark
  <2> QED
    BY <1>1, <1>4, <2>1, OrderlyElsewhere DEF Elsewhere, Others
<1> QED
  BY <1>3, <1>4

LEMMA ListOrderly ==
  ASSUME Base, NEW h \in Handlers, ListRecipients(h), NEW r \in Runs, Orderly(r)
  PROVE  Orderly(r)'
<1>1. /\ Others(h) /\ hand[h].pc = "list" /\ hand'[h].pc = "settle"
      /\ hand'[h].run = hand[h].run /\ hand'[h].due = Due(recip[hand[h].run])
      /\ UNCHANGED <<run, recip, sent, past>>
  BY ListDoes DEF Base
<1>2. CASE hand[h].run = r
  <2>1. \A u \in Users : Done(r, u)
    BY <1>1, <1>2, DoneBefore
  <2>2. \A u \in Due(recip[r]) : sent[r][u] = <<>>
    BY <2>1 DEF Done, Due, Listed
  <2>3. run[r].status = "settling"
    BY <1>1, <1>2 DEF Orderly, InTurn, Settling
  <2>4. InTurn(h)'
    BY <1>1, <1>2, <2>2, <2>3 DEF InTurn, Loop
  <2>5. \A u \in Users : Done(r, u)'
    BY <1>1, <2>1 DEF Done
  <2> QED
    BY <1>1, <1>2, <2>4, <2>5, OrderlyOn
<1>3. CASE hand[h].run # r
  BY <1>1, <1>3, OrderlyElsewhere DEF Elsewhere, Others
<1> QED
  BY <1>2, <1>3

LEMMA ResolveOrderly ==
  ASSUME Base, NEW h \in Handlers, Resolve(h) \/ Reread(h), NEW r \in Runs, Orderly(r)
  PROVE  Orderly(r)'
<1>1. /\ Others(h) /\ hand[h].pc = "settle" /\ hand'[h].pc \in {"settle", "finish"}
      /\ hand'[h].run = hand[h].run /\ (hand'[h].pc = "settle" => hand'[h].due = hand[h].due)
      /\ UNCHANGED <<run, recip, sent, past>>
  BY ResolveDoes, RereadDoes DEF Base
<1>2. CASE hand[h].run = r
  <2>1. InTurn(h)
    BY <1>2 DEF Orderly, Settling
  <2>2. InTurn(h)'
    BY <1>1, <2>1 DEF InTurn, Loop
  <2>3. \A u \in Users : Done(r, u)'
    BY <1>1, <1>2, DoneBefore DEF Done
  <2> QED
    BY <1>1, <1>2, <2>2, <2>3, OrderlyOn
<1>3. CASE hand[h].run # r
  BY <1>1, <1>3, OrderlyElsewhere DEF Elsewhere, Others
<1> QED
  BY <1>2, <1>3

LEMMA PersistOrderly ==
  ASSUME Base, NEW h \in Handlers, Persist(h), NEW r \in Runs, Orderly(r)
  PROVE  Orderly(r)'
<1>1. PICK q \in Runs : q = hand[h].run
  BY Settler DEF Persist, At, Loop
<1>2. /\ Others(h) /\ hand[h].pc = "settle" /\ hand'[h].pc = "settle" /\ hand'[h].run = q
      /\ hand'[h].due = hand[h].due /\ UNCHANGED <<run, sent>>
  BY <1>1, PersistDoes
<1>3. PICK v \in Users : RowWrite(q, v) /\ recip'[q][v].status = recip[q][v].status
  BY <1>1, PersistDoes
<1>4. CASE q = r
  <2>1. InTurn(h)
    BY <1>1, <1>4 DEF Orderly, Settling
  <2>2. InTurn(h)'
    BY <1>1, <1>2, <1>4, <2>1 DEF InTurn, Loop
  <2>3. ASSUME NEW u \in Users PROVE Done(r, u)'
    <3>1. Done(r, u)
      BY <1>1, <1>2, <1>4, DoneBefore
    <3>2. /\ recip[r][u] # None => recip'[r][u] # None
          /\ recip'[r][u].status = recip[r][u].status
      BY <1>3, <1>4 DEF RowWrite
    <3> QED
      BY <1>2, <3>1, <3>2 DEF Done
  <2> QED
    BY <1>1, <1>2, <1>4, <2>2, <2>3, OrderlyOn
<1>5. CASE q # r
  <2>1. recip'[r] = recip[r]
    BY <1>3, <1>5 DEF RowWrite, Base, TypeOK
  <2> QED
    BY <1>1, <1>2, <1>5, <2>1, OrderlyElsewhere DEF Elsewhere, Others
<1> QED
  BY <1>4, <1>5

LEMMA SkipOrderly ==
  ASSUME Base, NEW h \in Handlers, Skip(h), NEW r \in Runs, Orderly(r)
  PROVE  Orderly(r)'
<1>1. PICK q \in Runs : q = hand[h].run
  BY Settler DEF Skip, Paying, At, Loop
<1>2. /\ Others(h) /\ hand[h].pc = "settle" /\ hand'[h].pc = "settle" /\ hand'[h].run = q
      /\ UNCHANGED <<run, sent>>
  BY <1>1, SkipDoes
<1>3. PICK v \in hand[h].due : v \in Users /\ RowWrite(q, v) /\ hand'[h].due = hand[h].due \ {v}
  BY <1>1, SkipDoes
<1>4. CASE q = r
  <2>1. InTurn(h)
    BY <1>1, <1>4 DEF Orderly, Settling
  <2>2. InTurn(h)'
    BY <1>1, <1>2, <1>3, <1>4, <2>1 DEF InTurn, Loop
  <2>3. ASSUME NEW u \in Users PROVE Done(r, u)'
    <3>1. Done(r, u)
      BY <1>1, <1>2, <1>4, DoneBefore
    <3>2. sent[r][v] = <<>>
      BY <1>1, <1>2, <1>3, <1>4, <2>1 DEF InTurn, Loop
    <3>3. u # v => recip'[r][u] = recip[r][u]
      BY <1>3, <1>4 DEF RowWrite
    <3> QED
      BY <1>2, <3>1, <3>2, <3>3 DEF Done
  <2> QED
    BY <1>1, <1>2, <1>4, <2>2, <2>3, OrderlyOn
<1>5. CASE q # r
  <2>1. recip'[r] = recip[r]
    BY <1>3, <1>5 DEF RowWrite, Base, TypeOK
  <2> QED
    BY <1>1, <1>2, <1>5, <2>1, OrderlyElsewhere DEF Elsewhere, Others
<1> QED
  BY <1>4, <1>5

LEMMA WriteCell ==
  ASSUME Base, NEW h \in Handlers, Confirm(h) \/ Fail(h)
  PROVE  /\ hand[h].run \in Runs /\ hand[h].cur \in Users /\ run[hand[h].run].status # "none"
<1>1. HandOK(h) /\ hand[h].pc \in {"confirm", "fail"}
  BY DEF Base, Confirm, Fail, At
<1> QED
  BY <1>1 DEF HandOK, Loop

LEMMA WritesOrderly ==
  ASSUME Base, NEW h \in Handlers, Confirm(h) \/ Fail(h), NEW r \in Runs, Orderly(r)
  PROVE  Orderly(r)'
<1>1. PICK q \in Runs, v \in Users : q = hand[h].run /\ v = hand[h].cur
  BY WriteCell
<1>2. /\ Others(h) /\ hand'[h].pc = "settle" /\ hand'[h].run = q
      /\ hand'[h].due = hand[h].due /\ UNCHANGED <<run, sent>> /\ RowWrite(q, v)
      /\ \/ hand[h].pc = "confirm" /\ recip'[q][v].status = "confirmed"
         \/ hand[h].pc = "fail" /\ recip'[q][v].status = "failed"
  BY <1>1, WritesDoes
<1>3. CASE q = r
  <2>1. InTurn(h)
    BY <1>1, <1>3 DEF Orderly, Settling
  <2>2. InTurn(h)'
    BY <1>1, <1>2, <1>3, <2>1 DEF InTurn, Loop
  <2>3. ASSUME NEW u \in Users PROVE Done(r, u)'
    <3>1. CASE u # v
      <4>1. Done(r, u)
        BY <1>1, <1>3, <3>1, DoneBefore
      <4>2. recip'[r][u] = recip[r][u]
        BY <1>2, <1>3, <3>1 DEF RowWrite
      <4> QED
        BY <1>2, <4>1, <4>2 DEF Done
    <3>2. CASE u = v /\ hand[h].pc = "confirm"
      <4>1. Len(sent[r][u]) <= 1
        BY DEF Orderly, Recorded
      <4>2. recip'[r][u] # None /\ recip'[r][u].status = "confirmed"
        BY <1>2, <1>3, <3>2 DEF RowWrite
      <4> QED
        BY <1>2, <4>1, <4>2 DEF Done
    <3>3. CASE u = v /\ hand[h].pc = "fail"
      <4>1. sent[r][u] = <<>>
        BY <1>1, <1>3, <2>1, <3>3 DEF InTurn
      <4> QED
        BY <1>2, <4>1 DEF Done
    <3> QED
      BY <1>2, <3>1, <3>2, <3>3
  <2> QED
    BY <1>1, <1>2, <1>3, <2>2, <2>3, OrderlyOn
<1>4. CASE q # r
  <2>1. recip'[r] = recip[r]
    BY <1>2, <1>4 DEF RowWrite, Base, TypeOK
  <2> QED
    BY <1>1, <1>2, <1>4, <2>1, OrderlyElsewhere DEF Elsewhere, Others
<1> QED
  BY <1>3, <1>4

LEMMA TransferOrderly ==
  ASSUME Base, NEW h \in Handlers, Transfer(h) \/ TransferFails(h),
         NEW r \in Runs, r \notin past'.lost, Orderly(r)
  PROVE  Orderly(r)'
<1>1. PICK u \in Payable(h), p \in {"confirm", "fail"} :
        /\ Paying(h) /\ UNCHANGED <<run, recip>>
        /\ Goes(h, [hand[h] EXCEPT !.pc = p, !.cur = u, !.due = @ \ {u}])
        /\ \/ p = "fail" /\ UNCHANGED sent
           \/ p = "confirm" /\ Pays(hand[h].run, u, hand[h].rows[u].wallet)
           \/ /\ p = "fail" /\ Pays(hand[h].run, u, hand[h].rows[u].wallet)
              /\ past' = [past EXCEPT !.lost = @ \cup {hand[h].run}]
  <2>1. CASE Transfer(h)
    BY <2>1 DEF Transfer
  <2>2. CASE TransferFails(h)
    BY <2>2 DEF TransferFails
  <2> QED
    BY <2>1, <2>2
<1>2. PICK q \in Runs, w \in Wallets : q = hand[h].run /\ w = hand[h].rows[u].wallet
  BY <1>1, Asking
<1>3. u \in Users /\ recip[q][u] # None /\ u \in hand[h].due
  BY <1>1, <1>2, Asking
<1>4. /\ Others(h) /\ hand[h].pc = "settle" /\ hand'[h].pc = p /\ hand'[h].cur = u
      /\ hand'[h].due = hand[h].due \ {u} /\ hand'[h].run = q
  BY <1>1, <1>2, AskedDoes
<1>5. \A c \in Runs, v \in Users : c # q \/ v # u => sent'[c][v] = sent[c][v]
  BY <1>1, <1>2, <1>3, Sends DEF Base
<1>6. p = "confirm" \/ q = r => Len(sent'[q][u]) = (IF p = "confirm" THEN Len(sent[q][u]) + 1
                                                    ELSE Len(sent[q][u]))
  <2>1. CASE p = "confirm"
    BY <1>1, <1>2, <1>3, <2>1, Sends DEF Base
  <2>2. CASE p = "fail" /\ UNCHANGED sent
    BY <2>2
  <2>3. CASE p = "fail" /\ past' = [past EXCEPT !.lost = @ \cup {hand[h].run}]
    <3>1. q \in past'.lost
      BY <1>2, <2>3 DEF Base, TypeOK, Past
    <3> QED
      BY <2>3, <3>1
  <2> QED
    BY <1>1, <2>1, <2>2, <2>3
<1>7. CASE q = r
  <2>0. InTurn(h) /\ hand[h].due \subseteq Users
    BY <1>2, <1>7 DEF Orderly, Settling, Base, TypeOK, Hand
  <2>1. sent[r][u] = <<>> /\ run[r].status = "settling" /\ \A v \in hand[h].due : sent[r][v] = <<>>
    BY <1>2, <1>3, <1>4, <1>7, <2>0 DEF InTurn, Loop
  <2>2. Len(sent'[r][u]) = IF p = "confirm" THEN 1 ELSE 0
    BY <1>6, <1>7, <2>1
  <2>3. sent'[r][u] \in Seq(Wallets)
    <3>1. Base'
      BY TransferBase, TransferFailsBase
    <3> QED
      BY <1>3, <3>1 DEF Base, TypeOK
  <2>4. p = "fail" => sent'[r][u] = <<>>
    BY <2>2, <2>3
  <2>5. InTurn(h)'
    <3>1. \A v \in hand'[h].due : sent'[r][v] = <<>>
      BY <1>4, <1>5, <1>7, <2>0, <2>1
    <3>2. run'[r].status = "settling" /\ hand'[h].run = r
      BY <1>1, <1>4, <1>7, <2>1
    <3> QED
      BY <1>4, <2>4, <3>1, <3>2 DEF InTurn
  <2>6. ASSUME NEW v \in Users, v # u PROVE Done(r, v)'
    <3>1. Done(r, v)
      BY <1>2, <1>4, <1>7, DoneBefore
    <3> QED
      BY <1>1, <1>5, <2>6, <3>1 DEF Done
  <2>7. \/ Done(r, u)'
        \/ /\ Len(sent'[r][u]) <= 1 /\ recip'[r][u] # None
           /\ hand'[h].pc = "confirm" /\ hand'[h].cur = u
    <3>1. CASE p = "confirm"
      BY <1>1, <1>3, <1>4, <1>7, <2>2, <3>1
    <3>2. CASE p = "fail"
      BY <2>2, <2>4, <3>2 DEF Done
    <3> QED
      BY <3>1, <3>2
  <2> QED
    BY <1>2, <1>4, <1>7, <2>5, <2>6, <2>7, OrderlyOn
<1>8. CASE q # r
  <2>1. sent'[r] = sent[r]
    <3>1. Base'
      BY TransferBase, TransferFailsBase
    <3>2. sent'[r] \in [Users -> Seq(Wallets)] /\ sent[r] \in [Users -> Seq(Wallets)]
      BY <3>1 DEF Base, TypeOK
    <3>3. \A v \in Users : sent'[r][v] = sent[r][v]
      BY <1>5, <1>8
    <3> QED
      BY <3>2, <3>3
  <2> QED
    BY <1>1, <1>2, <1>4, <1>8, <2>1, OrderlyElsewhere DEF Elsewhere, Others
<1> QED
  BY <1>7, <1>8

\* A request that leaves the run it was settling.
LEMMA LeavesOrderly ==
  ASSUME Base, NEW h \in Handlers, Finish(h) \/ HandFault(h), NEW r \in Runs, Orderly(r)
  PROVE  Orderly(r)'
<1>1. /\ Others(h) /\ hand'[h].run = None /\ UNCHANGED <<recip, sent>>
      /\ \A q \in Runs : q # hand[h].run => run'[q] = run[q]
      /\ HandFault(h) => run' = run
      /\ Finish(h) => hand[h].pc = "finish"
  BY IdleDoes DEF Finish, HandFault, At, Base, TypeOK
<1>2. r # None
  BY NoneAssumption
<1>3. CASE hand[h].run = r
  <2>1. Settling(r) = {h} /\ Settling(r)' = {} /\ InTurn(h)
    BY <1>1, <1>2, <1>3 DEF Orderly, Settling, Others
  <2>2. ASSUME NEW u \in Users PROVE Recorded(r, u)'
    <3>1. Recorded(r, u)
      BY DEF Orderly
    <3>2. CASE hand[h].pc = "confirm"
      <4>1. run'[r].status = "settling"
        BY <1>1, <1>3, <2>1, <3>2 DEF InTurn
      <4>2. Len(sent'[r][u]) <= 1 /\ (sent'[r][u] # <<>> => recip'[r][u] # None)
        BY <1>1, <3>1 DEF Recorded
      <4> QED
        BY <2>1, <4>1, <4>2 DEF Recorded
    <3>3. CASE hand[h].pc # "confirm"
      <4>1. Done(r, u)
        BY <1>3, <3>3, DoneBefore
      <4> QED
        BY <1>1, <4>1 DEF Done, Recorded
    <3> QED
      BY <3>2, <3>3
  <2> QED
    BY <2>1, <2>2 DEF Orderly
<1>4. CASE hand[h].run # r
  BY <1>1, <1>2, <1>4, OrderlyElsewhere DEF Elsewhere, Others
<1> QED
  BY <1>3, <1>4

LEMMA SettleReadOrderly ==
  ASSUME Base, NEW h \in Handlers, NEW q \in Runs, SettleRead(h, q),
         NEW r \in Runs, r \notin past'.raced, Orderly(r)
  PROVE  Orderly(r)'
<1> DEFINE s == run[q].status
<1>1. Others(h) /\ hand'[h] = [Idle EXCEPT !.pc = "mark", !.run = q, !.seen = s]
  BY Steps DEF SettleRead, Base
<1>2. s = run[q].status /\ s \in {"pending", "partial"}
  BY DEF SettleRead
<1> HIDE DEF s
<1>3. hand'[h].pc = "mark" /\ hand'[h].run = q /\ hand'[h].seen = s
  BY <1>1 DEF Idle
<1>4. hand[h].run = None /\ None # r
  BY NoneAssumption DEF Base, HandOK, SettleRead, At
<1>5. UNCHANGED <<run, recip, sent>>
  BY DEF SettleRead
<1>6. CASE q = r
  <2>1. Settling(r) = {}
    BY <1>6 DEF SettleRead, Base, TypeOK, Past
  <2>2. Settling(r)' = {h}
    <3>1. hand'[h].run = r /\ \A g \in Handlers : g # h => hand'[g] = hand[g]
      BY <1>1, <1>3, <1>6 DEF Others
    <3>2. \A g \in Handlers : hand[g].run # r
      BY <2>1 DEF Settling
    <3> QED
      BY <3>1, <3>2 DEF Settling
  <2>3. InTurn(h)'
    BY <1>2, <1>3, <1>5, <1>6 DEF InTurn, Loop
  <2>4. ASSUME NEW u \in Users PROVE Recorded(r, u)'
    <3>1. Recorded(r, u)
      BY DEF Orderly
    <3>2. Done(r, u)
      BY <1>2, <1>6, <2>1, <3>1 DEF Recorded, Done
    <3> QED
      BY <1>5, <3>2 DEF Done, Recorded
  <2> QED
    BY <2>2, <2>3, <2>4 DEF Orderly
<1>7. CASE q # r
  BY <1>1, <1>3, <1>4, <1>5, <1>7, OrderlyElsewhere DEF Elsewhere, Others
<1> QED
  BY <1>6, <1>7

LEMMA AssemblyElsewhere ==
  ASSUME Base, NEW h \in Handlers, NEW r \in Runs,
         \/ \E p \in Periods, m \in Revenues, f \in Fees : AssembleRead(h, p, m, f)
         \/ ReadShares(h)
  PROVE  Elsewhere(r)
<1>1. hand[h].run = None /\ UNCHANGED <<run, recip, sent>> /\ TypeOK /\ None # r
  <2>1. hand[h].pc \in {"idle", "shares"} /\ UNCHANGED <<run, recip, sent>>
    BY DEF AssembleRead, ReadShares, At
  <2>2. TypeOK /\ HandOK(h)
    BY DEF Base
  <2> QED
    BY <2>1, <2>2, NoneAssumption DEF HandOK
<1>2. Others(h) /\ hand'[h].run = None
  <2>1. ASSUME NEW p \in Periods, NEW m \in Revenues, NEW f \in Fees, AssembleRead(h, p, m, f)
        PROVE  Others(h) /\ hand'[h].run = None
    <3>1. Others(h) /\ hand'[h] = [Idle EXCEPT !.pc = "shares", !.period = p, !.revenue = m,
                                               !.feeBps = f]
      BY <1>1, <2>1, Steps DEF AssembleRead
    <3> QED
      BY <3>1 DEF Idle
  <2>2. ASSUME ReadShares(h), Splittable(ActiveShares)
        PROVE  Others(h) /\ hand'[h].run = None
    <3> DEFINE x == hand[h]  rows == applySplit(h)
    <3>1. Others(h) /\ hand'[h] = [x EXCEPT !.pc = "insert", !.rows = rows]
      BY <1>1, <2>2, Steps DEF ReadShares
    <3>2. x \in Hand /\ x.run = None
      BY <1>1 DEF TypeOK
    <3> HIDE DEF x, rows
    <3> QED
      BY <3>1, <3>2 DEF Hand
  <2>3. ASSUME ReadShares(h), ~Splittable(ActiveShares)
        PROVE  Others(h) /\ hand'[h].run = None
    BY <1>1, <2>3, IdleDoes DEF ReadShares
  <2> QED
    BY <2>1, <2>2, <2>3
<1> QED
  BY <1>1, <1>2 DEF Elsewhere, Others

LEMMA InsertRunOrderly ==
  ASSUME Base, NEW h \in Handlers, InsertRun(h), NEW r \in Runs, Orderly(r)
  PROVE  Orderly(r)'
<1>1. PICK q \in Runs :
        /\ run[q].status = "none"
        /\ \A c \in Runs : c # q => run'[c] = run[c] /\ recip'[c] = recip[c]
  BY DEF InsertRun, Base, TypeOK
<1>2. /\ Others(h) /\ hand'[h].run = None /\ hand[h].run = None /\ UNCHANGED sent /\ None # r
  BY IdleDoes, NoneAssumption DEF InsertRun, Base, HandOK, At
<1>3. CASE q = r
  <2>1. \A g \in Handlers : hand[g].run # r
    <3> SUFFICES ASSUME NEW g \in Handlers, hand[g].run = r PROVE FALSE
      OBVIOUS
    <3>1. HandOK(g) /\ hand[g].pc \in Pcs
      BY DEF Base, TypeOK, Hand, Pcs
    <3> QED
      BY <1>1, <1>2, <1>3, <3>1 DEF HandOK, Loop, Pcs
  <2>2. Settling(r)' = {}
    BY <1>2, <2>1 DEF Settling, Others
  <2>3. \A u \in Users : sent'[r][u] = <<>>
    BY <1>1, <1>2, <1>3 DEF Base, RunOK
  <2> QED
    BY <2>2, <2>3 DEF Orderly, Recorded
<1>4. CASE q # r
  BY <1>1, <1>2, <1>4, OrderlyElsewhere DEF Elsewhere, Others
<1> QED
  BY <1>3, <1>4

LEMMA SharesOnly ==
  ASSUME \/ \E u \in Users, bps \in Shares : UpsertShare(u, bps)
         \/ \E list \in Lists : ReplaceShares(list)
  PROVE  UNCHANGED run /\ UNCHANGED recip /\ UNCHANGED sent /\ UNCHANGED hand /\ UNCHANGED past
<1>1. ASSUME NEW u \in Users, NEW bps \in Shares, UpsertShare(u, bps)
      PROVE  UNCHANGED <<run, recip, sent, hand, used, past>>
  BY <1>1 DEF UpsertShare
<1>2. ASSUME NEW list \in Lists, ReplaceShares(list)
      PROVE  UNCHANGED <<run, recip, sent, hand, used, past>>
  BY <1>2 DEF ReplaceShares
<1>3. UNCHANGED <<run, recip, sent, hand, used, past>>
  BY <1>1, <1>2
<1> QED
  BY <1>3

LEMMA SettlesPast ==
  ASSUME Base, NEW h \in Handlers, Settles(h)
  PROVE  /\ UNCHANGED <<share, faults, calls>>
         /\ past'.doubled = past.doubled /\ past'.raced = past.raced
         /\ past'.lost = past.lost /\ past.moved \subseteq past'.moved
<1>1. past \in Past
  BY DEF Base, TypeOK
<1>2. CASE Persist(h)
  BY <1>1, <1>2 DEF Persist, Past, used
<1>3. CASE ~Persist(h)
  BY <1>3 DEF Settles, Mark, ListRecipients, Resolve, Skip, Transfer, Confirm, Fail, Writes,
              Reread, Finish, used
<1> QED
  BY <1>2, <1>3

LEMMA PastGrows ==
  ASSUME Base, [Next]_vars
  PROVE  /\ past.doubled \subseteq past'.doubled /\ past.raced \subseteq past'.raced
         /\ past.lost \subseteq past'.lost /\ past.moved \subseteq past'.moved
<1>1. past \in Past
  BY DEF Base, TypeOK
<1>2. CASE \E h \in Handlers : Settles(h)
  BY <1>2, SettlesPast
<1>3. CASE \E h \in Handlers, p \in Periods, m \in Revenues, f \in Fees : AssembleRead(h, p, m, f)
  BY <1>1, <1>3 DEF AssembleRead, Past
<1>4. CASE \E h \in Handlers, r \in Runs : SettleRead(h, r)
  BY <1>1, <1>4 DEF SettleRead, Past
<1>5. CASE \E h \in Handlers : TransferFails(h)
  BY <1>1, <1>5 DEF TransferFails, Past
<1>6. CASE \E h \in Handlers : HandFault(h)
  BY <1>1, <1>6 DEF HandFault, Past
<1>7. CASE UNCHANGED past
  BY <1>7
<1>8. CASE \/ \E u \in Users, bps \in Shares : UpsertShare(u, bps)
           \/ \E list \in Lists : ReplaceShares(list)
  BY <1>7, <1>8, SharesOnly
<1>10. CASE \E h \in Handlers : ReadShares(h) \/ InsertRun(h)
  BY <1>7, <1>10 DEF ReadShares, InsertRun
<1>9. CASE UNCHANGED vars
  BY <1>7, <1>9 DEF vars
<1> QED
  BY <1>2, <1>3, <1>4, <1>5, <1>6, <1>8, <1>9, <1>10 DEF Next

LEMMA StepOnce == Base /\ OnceInv /\ [Next]_vars => OnceInv'
<1> SUFFICES ASSUME Base, OnceInv, [Next]_vars,
                    NEW r \in Runs, r \notin past'.raced, r \notin past'.lost
             PROVE  Orderly(r)'
  BY DEF OnceInv
<1>1. Orderly(r)
  BY PastGrows DEF OnceInv
<1>2. CASE UNCHANGED <<run, recip, sent, hand>>
  BY <1>1, <1>2, OrderlyElsewhere DEF Elsewhere
<1>3. CASE \/ \E u \in Users, bps \in Shares : UpsertShare(u, bps)
           \/ \E list \in Lists : ReplaceShares(list)
  BY <1>2, <1>3, SharesOnly
<1>6. CASE UNCHANGED vars
  BY <1>2, <1>6 DEF vars
<1>4. ASSUME NEW h \in Handlers, Settles(h)
      PROVE  Orderly(r)'
  BY <1>1, <1>4, MarkOrderly, ListOrderly, ResolveOrderly, PersistOrderly, SkipOrderly,
     TransferOrderly, WritesOrderly, LeavesOrderly DEF Settles
<1>5. ASSUME NEW h \in Handlers,
             \/ \E p \in Periods, m \in Revenues, f \in Fees : AssembleRead(h, p, m, f)
             \/ ReadShares(h) \/ InsertRun(h)
             \/ \E q \in Runs : SettleRead(h, q)
             \/ TransferFails(h) \/ HandFault(h)
      PROVE  Orderly(r)'
  BY <1>1, <1>5, AssemblyElsewhere, OrderlyElsewhere, InsertRunOrderly, SettleReadOrderly,
     TransferOrderly, LeavesOrderly
<1> QED
  BY <1>3, <1>4, <1>5, <1>6 DEF Next

LEMMA StartOnce == Init => OnceInv
<1> SUFFICES ASSUME Init, NEW r \in Runs PROVE Orderly(r)
  BY DEF OnceInv
<1>1. Settling(r) = {}
  BY NoneAssumption, IdleHand DEF Init, Settling
<1>2. \A u \in Users : sent[r][u] = <<>>
  BY DEF Init
<1> QED
  BY <1>1, <1>2 DEF Orderly, Recorded

\* Retrying a partial run pays nobody twice, unless two settlements of it
\* overlapped or a transfer was made that could not be recorded (payouts.ts).
THEOREM RetriesPayOnce == Spec => []PaidOnce
<1>1. Init => OnceInv
  BY StartOnce
<1>2. Base /\ OnceInv /\ [Next]_vars => OnceInv'
  BY StepOnce
<1>3. OnceInv => PaidOnce
  BY DEF OnceInv, Orderly, Recorded, PaidOnce
<1> QED
  BY <1>1, <1>2, <1>3, AlwaysBase, PTL DEF Spec

-----------------------------------------------------------------------------
(* OneInv is kept.                                                         *)

LEMMA SettlesDoes ==
  ASSUME Base, NEW h \in Handlers, Settles(h)
  PROVE  /\ Others(h) /\ hand[h].pc \notin {"shares", "insert"}
         /\ hand'[h].pc \notin {"shares", "insert"}
         /\ \A q \in Runs : /\ run'[q].status = "none" <=> run[q].status = "none"
                            /\ run'[q].period = run[q].period
<1>1. CASE Mark(h)
  <2>1. Others(h) /\ hand[h].pc = "mark" /\ hand'[h].pc = "list"
    BY <1>1, MarkDoes DEF Base
  <2>2. PICK r \in Runs : r = hand[h].run /\ run[r].status # "none"
    BY <2>1, Settler
  <2>3. run' = run \/ run' = [run EXCEPT ![r].status = "settling"]
    BY <1>1, <2>2 DEF Mark
  <2>4. CASE run' = run
    BY <2>1, <2>4
  <2>5. CASE run' = [run EXCEPT ![r].status = "settling"]
    <3>1. /\ run'[r].status = "settling" /\ run'[r].period = run[r].period
          /\ \A q \in Runs : q # r => run'[q] = run[q]
      BY <2>5, Status DEF Base
    <3> QED
      BY <2>1, <2>2, <3>1
  <2> QED
    BY <2>3, <2>4, <2>5
<1>2. CASE Finish(h)
  <2>1. Others(h) /\ hand[h].pc = "finish" /\ hand'[h].pc = "idle"
    BY <1>2, IdleDoes DEF Base, Finish, At
  <2>2. PICK r \in Runs, s \in {"pending", "partial", "settled"} :
          r = hand[h].run /\ run[r].status # "none" /\ s = hand[h].seen
    BY <2>1, Settler DEF Hand
  <2>3. run' = [run EXCEPT ![r].status = s]
    BY <1>2, <2>2 DEF Finish
  <2>4. \A q \in Runs : /\ run'[q].status = "none" <=> run[q].status = "none"
                        /\ run'[q].period = run[q].period
    BY <2>2, <2>3 DEF Base, TypeOK, Run
  <2> QED
    BY <2>1, <2>4
<1>3. CASE ListRecipients(h)
  BY <1>3, ListDoes DEF Base
<1>4. CASE Resolve(h)
  BY <1>4, ResolveDoes DEF Base
<1>5. CASE Reread(h)
  BY <1>5, RereadDoes DEF Base
<1>6. CASE Persist(h)
  <2>1. PICK r \in Runs : r = hand[h].run
    BY <1>6, Settler DEF Persist, At, Loop
  <2> QED
    BY <1>6, <2>1, PersistDoes
<1>7. CASE Skip(h)
  <2>1. PICK r \in Runs : r = hand[h].run
    BY <1>7, Settler DEF Skip, Paying, At, Loop
  <2> QED
    BY <1>7, <2>1, SkipDoes
<1>8. CASE Transfer(h)
  BY <1>8, AskedDoes DEF Transfer
<1>9. CASE Confirm(h) \/ Fail(h)
  <2>1. PICK r \in Runs, u \in Users : r = hand[h].run /\ u = hand[h].cur
    BY <1>9, WriteCell
  <2> QED
    BY <1>9, <2>1, WritesDoes
<1> QED
  BY <1>1, <1>2, <1>3, <1>4, <1>5, <1>6, <1>7, <1>8, <1>9 DEF Settles

LEMMA AloneKept ==
  ASSUME NEW p \in Periods, Alone(p),
         \A g \in Handlers : hand'[g].pc \in {"shares", "insert"} /\ hand'[g].period = p =>
           hand[g].pc \in {"shares", "insert"} /\ hand[g].period = p,
         \A q \in Runs : /\ run'[q].status = "none" <=> run[q].status = "none"
                         /\ run'[q].period = run[q].period
  PROVE  Alone(p)'
<1>1. Assembling(p)' \subseteq Assembling(p)
  BY DEF Assembling
<1>2. Existing(p)' = Existing(p)
  BY DEF Existing
<1> QED
  BY <1>1, <1>2 DEF Alone

LEMMA AssembleReadAlone ==
  ASSUME Base, NEW h \in Handlers, NEW p \in Periods, NEW m \in Revenues, NEW f \in Fees,
         AssembleRead(h, p, m, f), NEW c \in Periods, c \notin past'.doubled, Alone(c)
  PROVE  Alone(c)'
<1>1. Others(h) /\ hand'[h] = [Idle EXCEPT !.pc = "shares", !.period = p, !.revenue = m,
                                           !.feeBps = f]
  BY Steps DEF AssembleRead, Base
<1>2. hand'[h].pc = "shares" /\ hand'[h].period = p
  BY <1>1 DEF Idle
<1>3. UNCHANGED run /\ Existing(p) = {}
  BY DEF AssembleRead
<1>4. CASE c # p
  BY <1>1, <1>2, <1>3, <1>4, AloneKept DEF Others
<1>5. CASE c = p
  <2>1. Assembling(p) = {}
    BY <1>5 DEF AssembleRead, Base, TypeOK, Past
  <2>2. Assembling(p)' \subseteq {h}
    <3>1. \A g \in Handlers : ~(hand[g].pc \in {"shares", "insert"} /\ hand[g].period = p)
      BY <2>1 DEF Assembling
    <3>2. \A g \in Handlers : g # h => hand'[g] = hand[g]
      BY <1>1 DEF Others
    <3> QED
      BY <3>1, <3>2 DEF Assembling
  <2>3. Existing(p)' = {}
    BY <1>3 DEF Existing
  <2> QED
    BY <1>5, <2>2, <2>3 DEF Alone
<1> QED
  BY <1>4, <1>5

LEMMA ReadSharesAlone ==
  ASSUME Base, NEW h \in Handlers, ReadShares(h), NEW c \in Periods, Alone(c)
  PROVE  Alone(c)'
<1>1. UNCHANGED run /\ hand[h].pc = "shares" /\ hand[h] \in Hand /\ TypeOK
  BY DEF ReadShares, At, Base, TypeOK
<1>2. Others(h) /\ (hand'[h].pc = "idle" \/ (hand'[h].pc = "insert"
                                            /\ hand'[h].period = hand[h].period))
  <2>1. CASE Splittable(ActiveShares)
    <3> DEFINE x == hand[h]  rows == applySplit(h)
    <3>1. Others(h) /\ hand'[h] = [x EXCEPT !.pc = "insert", !.rows = rows]
      BY <1>1, <2>1, Steps DEF ReadShares
    <3>2. x \in Hand /\ x.period = hand[h].period
      BY <1>1
    <3> HIDE DEF x, rows
    <3> QED
      BY <3>1, <3>2 DEF Hand
  <2>2. CASE ~Splittable(ActiveShares)
    BY <1>1, <2>2, IdleDoes DEF ReadShares
  <2> QED
    BY <2>1, <2>2
<1> QED
  BY <1>1, <1>2, AloneKept DEF Others

LEMMA InsertRunAlone ==
  ASSUME Base, NEW h \in Handlers, InsertRun(h), NEW c \in Periods, Alone(c)
  PROVE  Alone(c)'
<1>1. /\ Others(h) /\ hand'[h].pc = "idle" /\ hand[h].pc = "insert"
      /\ hand[h].period \in Periods /\ run \in [Runs -> Run]
  BY IdleDoes DEF InsertRun, Base, TypeOK, At, HandOK
<1>2. PICK r \in Runs :
        /\ run[r].status = "none"
        /\ run' = [run EXCEPT ![r] = [status |-> "pending", period |-> hand[h].period,
                                      revenue |-> hand[h].revenue,
                                      fee |-> Fee(hand[h].revenue, hand[h].feeBps)]]
  BY DEF InsertRun
<1>3. /\ run'[r].status = "pending" /\ run'[r].period = hand[h].period
      /\ \A q \in Runs : q # r => run'[q] = run[q]
  BY <1>1, <1>2
<1>4. Assembling(c)' \subseteq Assembling(c) \ {h}
  BY <1>1 DEF Assembling, Others
<1>5. CASE hand[h].period = c
  <2>1. Assembling(c) = {h}
    BY <1>1, <1>5 DEF Alone, Assembling
  <2>2. Existing(c) = {}
    BY <2>1 DEF Alone
  <2>3. Existing(c)' \subseteq {r}
    BY <1>3, <2>2 DEF Existing
  <2> QED
    BY <1>4, <2>1, <2>3 DEF Alone
<1>6. CASE hand[h].period # c
  <2>1. Existing(c)' = Existing(c)
    BY <1>2, <1>3, <1>6 DEF Existing
  <2> QED
    BY <1>4, <2>1 DEF Alone
<1> QED
  BY <1>5, <1>6

LEMMA StepOne == Base /\ OneInv /\ [Next]_vars => OneInv'
<1> SUFFICES ASSUME Base, OneInv, [Next]_vars, NEW c \in Periods, c \notin past'.doubled
             PROVE  Alone(c)'
  BY DEF OneInv
<1>1. Alone(c)
  BY PastGrows DEF OneInv
<1>2. CASE UNCHANGED <<run, hand>>
  BY <1>1, <1>2, AloneKept
<1>3. CASE \/ \E u \in Users, bps \in Shares : UpsertShare(u, bps)
           \/ \E list \in Lists : ReplaceShares(list)
  BY <1>2, <1>3, SharesOnly
<1>4. ASSUME NEW h \in Handlers, Settles(h)
      PROVE  Alone(c)'
  BY <1>1, <1>4, SettlesDoes, AloneKept DEF Others
<1>5. ASSUME NEW h \in Handlers, \E r \in Runs : SettleRead(h, r)
      PROVE  Alone(c)'
  <2>1. PICK r \in Runs : SettleRead(h, r)
    BY <1>5
  <2>2. Others(h) /\ hand'[h] = [Idle EXCEPT !.pc = "mark", !.run = r, !.seen = run[r].status]
    BY <2>1, Steps DEF SettleRead, Base
  <2>3. hand'[h].pc = "mark"
    BY <2>2 DEF Idle
  <2>4. UNCHANGED run
    BY <2>1 DEF SettleRead
  <2> QED
    BY <1>1, <2>2, <2>3, <2>4, AloneKept DEF Others
<1>6. ASSUME NEW h \in Handlers, TransferFails(h)
      PROVE  Alone(c)'
  <2>1. Others(h) /\ hand'[h].pc = "fail" /\ UNCHANGED run
    BY <1>6, AskedDoes DEF TransferFails
  <2> QED
    BY <1>1, <2>1, AloneKept DEF Others
<1>7. ASSUME NEW h \in Handlers, HandFault(h)
      PROVE  Alone(c)'
  <2>1. Others(h) /\ hand'[h].pc = "idle" /\ UNCHANGED run
    BY <1>7, IdleDoes DEF HandFault, Base
  <2> QED
    BY <1>1, <2>1, AloneKept DEF Others
<1>8. CASE UNCHANGED vars
  BY <1>2, <1>8 DEF vars
<1> QED
  BY <1>1, <1>3, <1>4, <1>5, <1>6, <1>7, <1>8, AssembleReadAlone, ReadSharesAlone,
     InsertRunAlone DEF Next

LEMMA StartOne == Init => OneInv
<1> SUFFICES ASSUME Init, NEW c \in Periods PROVE Alone(c)
  BY DEF OneInv
<1>1. Assembling(c) = {}
  BY IdleHand DEF Init, Assembling
<1>2. Existing(c) = {}
  BY DEF Init, Existing
<1> QED
  BY <1>1, <1>2 DEF Alone

\* A period is paid out by one run, unless two assemblies of it overlapped between
\* the look for a run and the insert (payouts.ts).
THEOREM PeriodsPayOnce == Spec => []OneRunPerPeriod
<1>1. Init => OneInv
  BY StartOne
<1>2. Base /\ OneInv /\ [Next]_vars => OneInv'
  BY StepOne
<1>3. Base /\ OneInv => OneRunPerPeriod
  <2> SUFFICES ASSUME Base, OneInv, NEW r \in Runs, NEW q \in Runs,
                      run[r].status # "none", run[r].period = run[q].period,
                      run[r].period \notin past.doubled
               PROVE  r = q
    BY DEF OneRunPerPeriod
  <2>1. run[r].period \in Periods /\ run[q].status # "none"
    BY NoneAssumption DEF Base, RunOK
  <2> QED
    BY <2>1 DEF OneInv, Alone, Existing
<1> QED
  BY <1>1, <1>2, <1>3, AlwaysBase, PTL DEF Spec

-----------------------------------------------------------------------------
(* AddrInv is kept.                                                        *)

LEMMA TracedElsewhere ==
  ASSUME NEW r \in Runs, Traced(r), Elsewhere(r), past.moved \subseteq past'.moved
  PROVE  Traced(r)'
<1>1. Settling(r)' = Settling(r) /\ \A h \in Settling(r) : hand'[h] = hand[h] /\ hand[h].run = r
  BY DEF Settling, Elsewhere
<1>2. ASSUME NEW h \in Settling(r) PROVE Known(h)'
  <2>1. Known(h) /\ hand'[h] = hand[h] /\ hand[h].run = r
    BY <1>1 DEF Traced
  <2>2. Listed(hand[h].rows)' = Listed(hand[h].rows)
    BY <2>1 DEF Listed
  <2> QED
    BY <2>1, <2>2 DEF Known, Elsewhere
<1>3. \A u \in Users : AddrOK(r, u)'
  BY DEF Traced, AddrOK, Elsewhere
<1> QED
  BY <1>1, <1>2, <1>3 DEF Traced

LEMMA TracedOn ==
  ASSUME NEW r \in Runs, Traced(r), NEW h \in Handlers, hand[h].run = r, Others(h),
         hand'[h].run = r, Known(h)', \A u \in Users : AddrOK(r, u)'
  PROVE  Traced(r)'
<1>1. Settling(r) = {h} /\ Settling(r)' = {h}
  BY DEF Traced, Settling, Others
<1> QED
  BY <1>1 DEF Traced

\* The address on a row whose status and address stay, or whose run is paid more.
LEMMA AddrKept ==
  ASSUME NEW r \in Runs, NEW u \in Users, AddrOK(r, u), past.moved \subseteq past'.moved,
         recip'[r][u] = recip[r][u],
         \A i \in DOMAIN sent[r][u] : i \in DOMAIN sent'[r][u] /\ sent'[r][u][i] = sent[r][u][i]
  PROVE  AddrOK(r, u)'
BY DEF AddrOK

LEMMA QuietTraced ==
  ASSUME Base, NEW h \in Handlers,
         Mark(h) \/ ListRecipients(h) \/ Reread(h), NEW r \in Runs, Traced(r)
  PROVE  Traced(r)'
<1>1. /\ Others(h) /\ hand'[h].run = hand[h].run /\ UNCHANGED <<recip, sent, past>>
      /\ \/ hand'[h].pc \in {"list", "finish"}
         \/ /\ hand'[h].pc = "settle" /\ hand'[h].rows = recip[hand[h].run]
      /\ \A q \in Runs : q # hand[h].run => run'[q] = run[q]
  <2>1. CASE Mark(h)
    <3>1. \A q \in Runs : q # hand[h].run => run'[q] = run[q]
      BY <2>1 DEF Mark, Base, TypeOK
    <3> QED
      BY <2>1, <3>1, MarkDoes DEF Base
  <2>2. CASE ListRecipients(h)
    BY <2>2, ListDoes DEF Base
  <2>3. CASE Reread(h)
    BY <2>3, RereadDoes DEF Base
  <2> QED
    BY <2>1, <2>2, <2>3
<1>2. CASE hand[h].run = r
  <2>1. Known(h)'
    BY <1>1, <1>2 DEF Known, Loop
  <2>2. \A u \in Users : AddrOK(r, u)'
    BY <1>1 DEF Traced, AddrOK
  <2> QED
    BY <1>1, <1>2, <2>1, <2>2, TracedOn
<1>3. CASE hand[h].run # r
  BY <1>1, <1>3, TracedElsewhere DEF Elsewhere, Others
<1> QED
  BY <1>2, <1>3

LEMMA ResolveTraced ==
  ASSUME Base, NEW h \in Handlers, Resolve(h), NEW r \in Runs, Traced(r)
  PROVE  Traced(r)'
<1>1. /\ Others(h) /\ hand[h].pc = "settle" /\ hand'[h].pc = "settle"
      /\ hand'[h].run = hand[h].run /\ UNCHANGED <<run, recip, sent, past>>
      /\ \/ hand'[h].rows = hand[h].rows /\ hand'[h].write = hand[h].write
         \/ \E u \in hand[h].lookup, w \in Wallets :
              /\ hand'[h].rows = Addressed(hand[h].rows, u, w)
              /\ hand'[h].write = hand[h].write \cup {u}
  BY ResolveDoes DEF Base
<1>2. CASE hand[h].run = r
  <2>1. Known(h) /\ HandOK(h) /\ hand[h] \in Hand
    BY <1>2 DEF Traced, Settling, Base, TypeOK
  <2>2. CASE hand'[h].rows = hand[h].rows /\ hand'[h].write = hand[h].write
    <3>1. Known(h)'
      BY <1>1, <1>2, <2>1, <2>2 DEF Known, Loop, Listed
    <3> QED
      BY <1>1, <1>2, <3>1, TracedOn DEF Traced, AddrOK
  <2>3. CASE \E u \in hand[h].lookup, w \in Wallets :
               /\ hand'[h].rows = Addressed(hand[h].rows, u, w)
               /\ hand'[h].write = hand[h].write \cup {u}
    <3>1. PICK u \in hand[h].lookup, w \in Wallets :
            /\ hand'[h].rows = Addressed(hand[h].rows, u, w)
            /\ hand'[h].write = hand[h].write \cup {u}
      BY <2>3
    <3> DEFINE rows == hand[h].rows
    <3>2. rows \in [Users -> Recip \cup {None}] /\ u \in Users /\ rows[u] # None
      BY <1>1, <2>1 DEF HandOK, Loop, Listed, Hand
    <3>3. rows = hand[h].rows
      OBVIOUS
    <3> HIDE DEF rows
    <3>4. \A v \in Users : /\ Addressed(rows, u, w)[v] = None <=> rows[v] = None
                           /\ v # u => Addressed(rows, u, w)[v] = rows[v]
      BY <3>2, AddressedRows
    <3>5. Known(h)'
      BY <1>1, <1>2, <2>1, <3>1, <3>3, <3>4 DEF Known, Loop, Listed
    <3> QED
      BY <1>1, <1>2, <3>5, TracedOn DEF Traced, AddrOK
  <2> QED
    BY <1>1, <2>2, <2>3
<1>3. CASE hand[h].run # r
  BY <1>1, <1>3, TracedElsewhere DEF Elsewhere, Others
<1> QED
  BY <1>2, <1>3

LEMMA PersistTraced ==
  ASSUME Base, NEW h \in Handlers, Persist(h), NEW r \in Runs, Traced(r),
         past.moved \subseteq past'.moved
  PROVE  Traced(r)'
<1>1. PICK q \in Runs : q = hand[h].run
  BY Settler DEF Persist, At, Loop
<1>2. /\ Others(h) /\ hand[h].pc = "settle" /\ hand'[h].pc = "settle" /\ hand'[h].run = q
      /\ hand'[h].rows = hand[h].rows /\ UNCHANGED <<run, sent>>
  BY <1>1, PersistDoes
<1>3. PICK v \in Users :
        /\ RowWrite(q, v) /\ recip'[q][v].status = recip[q][v].status
        /\ recip'[q][v].wallet = hand[h].rows[v].wallet
        /\ hand'[h].write = hand[h].write \ {v}
        /\ past' = [past EXCEPT !.moved = IF recip[q][v].status # "confirmed" THEN @
                                          ELSE @ \cup {<<q, v>>}]
  BY <1>1, PersistDoes
<1>4. CASE q = r
  <2>1. Known(h)
    BY <1>1, <1>4 DEF Traced, Settling
  <2>2. Known(h)'
    <3>1. \A u \in Users : u # v => recip'[r][u] = recip[r][u]
      BY <1>3, <1>4 DEF RowWrite
    <3>2. Listed(hand'[h].rows) = Listed(hand[h].rows)
      BY <1>2
    <3>3. \A u \in Listed(hand[h].rows) :
            u \notin hand'[h].write => hand[h].rows[u].wallet = recip'[r][u].wallet
      BY <1>1, <1>2, <1>3, <1>4, <2>1, <3>1 DEF Known, Loop, Listed
    <3> QED
      BY <1>2, <1>4, <3>2, <3>3 DEF Known, Loop
  <2>3. ASSUME NEW u \in Users PROVE AddrOK(r, u)'
    <3>1. AddrOK(r, u)
      BY DEF Traced
    <3>2. CASE u # v
      <4>1. recip'[r][u] = recip[r][u]
        BY <1>3, <1>4, <3>2 DEF RowWrite
      <4> QED
        BY <1>2, <3>1, <4>1, AddrKept
    <3>3. CASE u = v /\ recip[r][u].status # "confirmed"
      BY <1>3, <1>4, <3>3 DEF AddrOK
    <3>4. CASE u = v /\ recip[r][u].status = "confirmed"
      <4>1. <<r, u>> \in past'.moved
        BY <1>3, <1>4, <3>4 DEF Base, TypeOK, Past
      <4> QED
        BY <4>1 DEF AddrOK
    <3> QED
      BY <3>2, <3>3, <3>4
  <2> QED
    BY <1>1, <1>2, <1>4, <2>2, <2>3, TracedOn
<1>5. CASE q # r
  <2>1. recip'[r] = recip[r]
    BY <1>3, <1>5 DEF RowWrite, Base, TypeOK
  <2> QED
    BY <1>1, <1>2, <1>5, <2>1, TracedElsewhere DEF Elsewhere, Others
<1> QED
  BY <1>4, <1>5

LEMMA SkipTraced ==
  ASSUME Base, NEW h \in Handlers, Skip(h), NEW r \in Runs, Traced(r)
  PROVE  Traced(r)'
<1>1. PICK q \in Runs : q = hand[h].run
  BY Settler DEF Skip, Paying, At, Loop
<1>2. /\ Others(h) /\ hand[h].pc = "settle" /\ hand'[h].pc = "settle" /\ hand'[h].run = q
      /\ hand'[h].rows = hand[h].rows /\ hand'[h].write = hand[h].write
      /\ UNCHANGED <<run, sent, past>>
  BY <1>1, SkipDoes
<1>3. PICK v \in Users : /\ RowWrite(q, v) /\ recip'[q][v].status = "skipped"
                         /\ recip'[q][v].wallet = recip[q][v].wallet
  BY <1>1, SkipDoes
<1>4. CASE q = r
  <2>1. Known(h)
    BY <1>1, <1>4 DEF Traced, Settling
  <2>2. \A u \in Users : recip'[r][u].wallet = recip[r][u].wallet
    BY <1>3, <1>4 DEF RowWrite
  <2>3. Known(h)'
    BY <1>1, <1>2, <1>4, <2>1, <2>2 DEF Known, Loop, Listed
  <2>4. ASSUME NEW u \in Users PROVE AddrOK(r, u)'
    <3>1. CASE u # v
      BY <1>2, <1>3, <1>4, <3>1 DEF RowWrite, Traced, AddrOK
    <3>2. CASE u = v
      BY <1>3, <1>4, <3>2 DEF AddrOK
    <3> QED
      BY <3>1, <3>2
  <2> QED
    BY <1>1, <1>2, <1>4, <2>3, <2>4, TracedOn
<1>5. CASE q # r
  <2>1. recip'[r] = recip[r]
    BY <1>3, <1>5 DEF RowWrite, Base, TypeOK
  <2> QED
    BY <1>1, <1>2, <1>5, <2>1, TracedElsewhere DEF Elsewhere, Others
<1> QED
  BY <1>4, <1>5

LEMMA WritesTraced ==
  ASSUME Base, NEW h \in Handlers, Confirm(h) \/ Fail(h), NEW r \in Runs, Traced(r)
  PROVE  Traced(r)'
<1>1. PICK q \in Runs, v \in Users : q = hand[h].run /\ v = hand[h].cur
  BY WriteCell
<1>2. /\ Others(h) /\ hand'[h].pc = "settle" /\ hand'[h].run = q
      /\ hand'[h].rows = hand[h].rows /\ hand'[h].write = hand[h].write
      /\ UNCHANGED <<run, sent, past>> /\ RowWrite(q, v)
      /\ recip'[q][v].wallet = recip[q][v].wallet
      /\ \/ hand[h].pc = "confirm" /\ recip'[q][v].status = "confirmed"
         \/ hand[h].pc = "fail" /\ recip'[q][v].status = "failed"
  BY <1>1, WritesDoes
<1>3. CASE q = r
  <2>1. Known(h) /\ HandOK(h)
    BY <1>1, <1>3 DEF Traced, Settling, Base
  <2>2. \A u \in Users : recip'[r][u].wallet = recip[r][u].wallet
    BY <1>2, <1>3 DEF RowWrite
  <2>3. Known(h)'
    BY <1>1, <1>2, <1>3, <2>1, <2>2 DEF Known, Loop, Listed
  <2>4. ASSUME NEW u \in Users PROVE AddrOK(r, u)'
    <3>1. CASE u # v
      BY <1>2, <1>3, <3>1 DEF RowWrite, Traced, AddrOK
    <3>2. CASE u = v /\ recip'[r][u].status = "failed"
      BY <3>2 DEF AddrOK
    <3>3. CASE u = v /\ hand[h].pc = "confirm"
      <4>1. v \in Listed(hand[h].rows) /\ hand[h].write = {}
        BY <1>1, <2>1, <3>3 DEF HandOK, Known, Listed
      <4>2. hand[h].rows[v].wallet = recip[r][v].wallet
        BY <1>1, <1>3, <2>1, <3>3, <4>1 DEF Known, Loop
      <4>3. \E i \in DOMAIN sent[r][v] : sent[r][v][i] = recip'[r][v].wallet
        BY <1>1, <1>3, <2>1, <2>2, <3>3, <4>2 DEF Known
      <4> QED
        BY <1>2, <3>3, <4>3 DEF AddrOK
    <3> QED
      BY <1>2, <1>3, <3>1, <3>2, <3>3
  <2> QED
    BY <1>1, <1>2, <1>3, <2>3, <2>4, TracedOn
<1>4. CASE q # r
  <2>1. recip'[r] = recip[r]
    BY <1>2, <1>4 DEF RowWrite, Base, TypeOK
  <2> QED
    BY <1>1, <1>2, <1>4, <2>1, TracedElsewhere DEF Elsewhere, Others
<1> QED
  BY <1>3, <1>4

LEMMA TransferTraced ==
  ASSUME Base, NEW h \in Handlers, Transfer(h) \/ TransferFails(h), NEW r \in Runs, Traced(r),
         past.moved \subseteq past'.moved
  PROVE  Traced(r)'
<1>1. PICK u \in Payable(h), p \in {"confirm", "fail"} :
        /\ Paying(h) /\ UNCHANGED <<run, recip>>
        /\ Goes(h, [hand[h] EXCEPT !.pc = p, !.cur = u, !.due = @ \ {u}])
        /\ \/ p = "fail" /\ UNCHANGED sent
           \/ Pays(hand[h].run, u, hand[h].rows[u].wallet)
  <2>1. CASE Transfer(h)
    BY <2>1 DEF Transfer
  <2>2. CASE TransferFails(h)
    BY <2>2 DEF TransferFails
  <2> QED
    BY <2>1, <2>2
<1>2. PICK q \in Runs, w \in Wallets : q = hand[h].run /\ w = hand[h].rows[u].wallet
  BY <1>1, Asking
<1>3. u \in Users
  BY <1>1, Asking
<1>4. /\ Others(h) /\ hand[h].pc = "settle" /\ hand[h].write = {} /\ hand'[h].pc = p
      /\ hand'[h].cur = u /\ hand'[h].run = q /\ hand'[h].rows = hand[h].rows
      /\ hand'[h].write = hand[h].write
  BY <1>1, <1>2, AskedDoes
<1>5. /\ \A c \in Runs, v \in Users : c # q \/ v # u => sent'[c][v] = sent[c][v]
      /\ \A i \in DOMAIN sent[q][u] : i \in DOMAIN sent'[q][u] /\ sent'[q][u][i] = sent[q][u][i]
      /\ p = "confirm" => \E i \in DOMAIN sent'[q][u] : sent'[q][u][i] = w
  <2>1. CASE Pays(q, u, w)
    BY <1>3, <2>1, Sends DEF Base
  <2>2. CASE p = "fail" /\ UNCHANGED sent
    BY <2>2
  <2> QED
    BY <1>1, <1>2, <2>1, <2>2
<1>6. CASE q = r
  <2>1. Known(h)
    BY <1>2, <1>6 DEF Traced, Settling
  <2>2. Known(h)'
    BY <1>1, <1>2, <1>4, <1>5, <1>6, <2>1 DEF Known, Loop, Listed
  <2>3. ASSUME NEW v \in Users PROVE AddrOK(r, v)'
    <3>1. AddrOK(r, v)
      BY DEF Traced
    <3>2. \A i \in DOMAIN sent[r][v] : i \in DOMAIN sent'[r][v] /\ sent'[r][v][i] = sent[r][v][i]
      BY <1>5, <1>6
    <3> QED
      BY <1>1, <3>1, <3>2, AddrKept
  <2> QED
    BY <1>2, <1>4, <1>6, <2>2, <2>3, TracedOn
<1>7. CASE q # r
  <2>1. sent'[r] = sent[r]
    <3>1. Base'
      BY TransferBase, TransferFailsBase
    <3>2. sent'[r] \in [Users -> Seq(Wallets)] /\ sent[r] \in [Users -> Seq(Wallets)]
      BY <3>1 DEF Base, TypeOK
    <3>3. \A v \in Users : sent'[r][v] = sent[r][v]
      BY <1>5, <1>7
    <3> QED
      BY <3>2, <3>3
  <2> QED
    BY <1>1, <1>2, <1>4, <1>7, <2>1, TracedElsewhere DEF Elsewhere, Others
<1> QED
  BY <1>6, <1>7

LEMMA LeavesTraced ==
  ASSUME Base, NEW h \in Handlers, Finish(h) \/ HandFault(h), NEW r \in Runs, Traced(r),
         past.moved \subseteq past'.moved
  PROVE  Traced(r)'
<1>1. /\ Others(h) /\ hand'[h].run = None /\ UNCHANGED <<recip, sent>>
      /\ \A q \in Runs : q # hand[h].run => run'[q] = run[q]
  BY IdleDoes DEF Finish, HandFault, At, Base, TypeOK
<1>2. r # None
  BY NoneAssumption
<1>3. CASE hand[h].run = r
  <2>1. Settling(r)' = {}
    BY <1>1, <1>2, <1>3 DEF Traced, Settling, Others
  <2>2. \A u \in Users : AddrOK(r, u)'
    BY <1>1 DEF Traced, AddrOK
  <2> QED
    BY <2>1, <2>2 DEF Traced
<1>4. CASE hand[h].run # r
  BY <1>1, <1>2, <1>4, TracedElsewhere DEF Elsewhere, Others
<1> QED
  BY <1>3, <1>4

LEMMA SettleReadTraced ==
  ASSUME Base, NEW h \in Handlers, NEW q \in Runs, SettleRead(h, q),
         NEW r \in Runs, r \notin past'.raced, Traced(r), past.moved \subseteq past'.moved
  PROVE  Traced(r)'
<1>1. Others(h) /\ hand'[h] = [Idle EXCEPT !.pc = "mark", !.run = q, !.seen = run[q].status]
  BY Steps DEF SettleRead, Base
<1>2. hand'[h].pc = "mark" /\ hand'[h].run = q
  BY <1>1 DEF Idle
<1>3. hand[h].run = None /\ None # r
  BY NoneAssumption DEF Base, HandOK, SettleRead, At
<1>4. UNCHANGED <<run, recip, sent>>
  BY DEF SettleRead
<1>5. CASE q = r
  <2>1. Settling(r) = {}
    BY <1>5 DEF SettleRead, Base, TypeOK, Past
  <2>2. Settling(r)' = {h}
    <3>1. hand'[h].run = r /\ \A g \in Handlers : g # h => hand'[g] = hand[g]
      BY <1>1, <1>2, <1>5 DEF Others
    <3>2. \A g \in Handlers : hand[g].run # r
      BY <2>1 DEF Settling
    <3> QED
      BY <3>1, <3>2 DEF Settling
  <2>3. Known(h)'
    BY <1>2 DEF Known, Loop
  <2>4. \A u \in Users : AddrOK(r, u)'
    BY <1>4 DEF Traced, AddrOK
  <2> QED
    BY <2>2, <2>3, <2>4 DEF Traced
<1>6. CASE q # r
  BY <1>1, <1>2, <1>3, <1>4, <1>6, TracedElsewhere DEF Elsewhere, Others
<1> QED
  BY <1>5, <1>6

LEMMA InsertRunTraced ==
  ASSUME Base, NEW h \in Handlers, InsertRun(h), NEW r \in Runs, Traced(r)
  PROVE  Traced(r)'
<1>1. PICK q \in Runs :
        /\ run[q].status = "none" /\ recip'[q] = hand[h].rows
        /\ \A c \in Runs : c # q => run'[c] = run[c] /\ recip'[c] = recip[c]
  BY DEF InsertRun, Base, TypeOK
<1>2. /\ Others(h) /\ hand'[h].run = None /\ hand[h].run = None /\ UNCHANGED <<sent, past>>
      /\ None # r
  BY IdleDoes, NoneAssumption DEF InsertRun, Base, HandOK, At
<1>3. CASE q = r
  <2>1. \A g \in Handlers : hand[g].run # r
    <3> SUFFICES ASSUME NEW g \in Handlers, hand[g].run = r PROVE FALSE
      OBVIOUS
    <3>1. HandOK(g) /\ hand[g].pc \in Pcs
      BY DEF Base, TypeOK, Hand, Pcs
    <3> QED
      BY <1>1, <1>2, <1>3, <3>1 DEF HandOK, Loop, Pcs
  <2>2. Settling(r)' = {}
    BY <1>2, <2>1 DEF Settling, Others
  <2>3. \A u \in Users : AddrOK(r, u)'
    BY <1>1, <1>3 DEF Base, HandOK, AddrOK, InsertRun, At
  <2> QED
    BY <2>2, <2>3 DEF Traced
<1>4. CASE q # r
  BY <1>1, <1>2, <1>4, TracedElsewhere DEF Elsewhere, Others
<1> QED
  BY <1>3, <1>4

LEMMA StepAddr == Base /\ AddrInv /\ [Next]_vars => AddrInv'
<1> SUFFICES ASSUME Base, AddrInv, [Next]_vars, NEW r \in Runs, r \notin past'.raced
             PROVE  Traced(r)'
  BY DEF AddrInv
<1>1. Traced(r) /\ past.moved \subseteq past'.moved
  BY PastGrows DEF AddrInv
<1>2. CASE UNCHANGED <<run, recip, sent, hand>>
  BY <1>1, <1>2, TracedElsewhere DEF Elsewhere
<1>3. CASE \/ \E u \in Users, bps \in Shares : UpsertShare(u, bps)
           \/ \E list \in Lists : ReplaceShares(list)
  BY <1>2, <1>3, SharesOnly
<1>4. ASSUME NEW h \in Handlers, Settles(h)
      PROVE  Traced(r)'
  BY <1>1, <1>4, QuietTraced, ResolveTraced, PersistTraced, SkipTraced, TransferTraced,
     WritesTraced, LeavesTraced DEF Settles
<1>5. ASSUME NEW h \in Handlers,
             \/ \E p \in Periods, m \in Revenues, f \in Fees : AssembleRead(h, p, m, f)
             \/ ReadShares(h)
      PROVE  Traced(r)'
  BY <1>1, <1>5, AssemblyElsewhere, TracedElsewhere
<1>6. ASSUME NEW h \in Handlers,
             InsertRun(h) \/ (\E q \in Runs : SettleRead(h, q)) \/ TransferFails(h) \/ HandFault(h)
      PROVE  Traced(r)'
  BY <1>1, <1>6, InsertRunTraced, SettleReadTraced, TransferTraced, LeavesTraced
<1>7. CASE UNCHANGED vars
  BY <1>2, <1>7 DEF vars
<1> QED
  BY <1>3, <1>4, <1>5, <1>6, <1>7 DEF Next

LEMMA StartAddr == Init => AddrInv
<1> SUFFICES ASSUME Init, NEW r \in Runs PROVE Traced(r)
  BY DEF AddrInv
<1>1. Settling(r) = {}
  BY NoneAssumption, IdleHand DEF Init, Settling
<1>2. \A u \in Users : recip[r][u] = None
  BY DEF Init, Nobody
<1> QED
  BY <1>1, <1>2 DEF Traced, AddrOK

\* "so the persistent state matches what we actually paid": the address on a
\* confirmed row was paid, unless a later settlement has overwritten it or two of
\* them overlapped (payouts.ts).
THEOREM ConfirmedAddressPaid == Spec => []AddressIsPaid
<1>1. Init => AddrInv
  BY StartAddr
<1>2. Base /\ AddrInv /\ [Next]_vars => AddrInv'
  BY StepAddr
<1>3. AddrInv => AddressIsPaid
  BY DEF AddrInv, Traced, AddrOK, AddressIsPaid
<1> QED
  BY <1>1, <1>2, <1>3, AlwaysBase, PTL DEF Spec

-----------------------------------------------------------------------------
(* Every address on record, or in the memory of a request, is one of the   *)
(* user's own.                                                             *)

Owned(rows) == \A u \in Users : rows[u] # None /\ rows[u].wallet # None => Owner[rows[u].wallet] = u

OwnInv ==
  /\ \A r \in Runs : Owned(recip[r])
  /\ \A h \in Handlers : Owned(hand[h].rows)

LEMMA NobodyOwned == Owned(Nobody) /\ Owned(Idle.rows)
BY DEF Owned, Nobody, Idle

LEMMA IdleRows ==
  ASSUME TypeOK, NEW h \in Handlers, Ends(h)
  PROVE  Others(h) /\ hand'[h].rows = Nobody
BY Steps DEF Ends, Idle

\* A step that writes no row and leaves one request with rows that are owned.
LEMMA OwnKept ==
  ASSUME OwnInv, NEW h \in Handlers, Others(h), Owned(hand'[h].rows), UNCHANGED recip
  PROVE  OwnInv'
BY DEF OwnInv, Others, Owned

LEMMA RowOwned ==
  ASSUME Base, OwnInv, NEW h \in Handlers, Others(h), hand'[h].rows = hand[h].rows,
         NEW r \in Runs, NEW u \in Users, RowWrite(r, u),
         recip'[r][u].wallet = recip[r][u].wallet \/
           (hand[h].rows[u] # None /\ recip'[r][u].wallet = hand[h].rows[u].wallet)
  PROVE  OwnInv'
<1>1. ASSUME NEW q \in Runs, NEW v \in Users, recip'[q][v] # None, recip'[q][v].wallet # None
      PROVE  Owner[recip'[q][v].wallet] = v
  <2>1. CASE q = r /\ v = u
    <3>1. Owned(recip[r]) /\ Owned(hand[h].rows)
      BY DEF OwnInv
    <3>2. CASE recip'[r][u].wallet = recip[r][u].wallet
      BY <1>1, <2>1, <3>1, <3>2 DEF Owned, RowWrite
    <3>3. CASE hand[h].rows[u] # None /\ recip'[r][u].wallet = hand[h].rows[u].wallet
      BY <1>1, <2>1, <3>1, <3>3 DEF Owned
    <3> QED
      BY <3>2, <3>3
  <2>2. CASE q # r \/ v # u
    BY <1>1, <2>2 DEF RowWrite, OwnInv, Owned
  <2> QED
    BY <2>1, <2>2
<1>2. \A q \in Runs : Owned(recip'[q])
  BY <1>1 DEF Owned
<1>3. \A g \in Handlers : Owned(hand'[g].rows)
  <2> SUFFICES ASSUME NEW g \in Handlers PROVE Owned(hand'[g].rows)
    OBVIOUS
  <2>1. hand'[g].rows = hand[g].rows
    BY DEF Others
  <2> QED
    BY <2>1 DEF OwnInv
<1> QED
  BY <1>2, <1>3 DEF OwnInv, Owned

LEMMA ResolveOwned ==
  ASSUME Base, OwnInv, NEW h \in Handlers, Resolve(h)
  PROVE  OwnInv'
<1> DEFINE x == hand[h]
<1>1. PICK u \in x.lookup, w \in Wallets \cup {None} :
        /\ w # None => Owner[w] = u
        /\ IF w = None \/ w = x.rows[u].wallet
           THEN Goes(h, [x EXCEPT !.lookup = @ \ {u}])
           ELSE Goes(h, [x EXCEPT !.lookup = @ \ {u}, !.write = @ \cup {u},
                                  !.rows = Addressed(@, u, w)])
  BY DEF Resolve
<1>2. /\ TypeOK /\ x \in Hand /\ Owned(x.rows) /\ UNCHANGED recip
      /\ u \in Users /\ x.rows[u] # None /\ x.rows \in [Users -> Recip \cup {None}]
  <2>1. HandOK(h) /\ x \in Hand /\ x.pc = "settle"
    BY Settler DEF Resolve, At, Loop
  <2> QED
    BY <1>1, <2>1 DEF Base, OwnInv, Resolve, HandOK, Loop, Listed, Hand
<1> HIDE DEF x
<1>3. CASE w = None \/ w = x.rows[u].wallet
  <2>1. Others(h) /\ hand'[h] = [x EXCEPT !.lookup = @ \ {u}]
    BY <1>1, <1>2, <1>3, Steps
  <2>2. hand'[h].rows = x.rows
    BY <1>2, <2>1 DEF Hand
  <2> QED
    BY <1>2, <2>1, <2>2, OwnKept
<1>4. CASE ~(w = None \/ w = x.rows[u].wallet)
  <2> DEFINE new == Addressed(x.rows, u, w)  wr == x.write \cup {u}
  <2>1. Others(h) /\ hand'[h] = [x EXCEPT !.lookup = @ \ {u}, !.write = wr, !.rows = new]
    BY <1>1, <1>2, <1>4, Steps
  <2>2. \A v \in Users : /\ v # u => new[v] = x.rows[v]
                         /\ new[u].wallet = w
    BY <1>2, <1>4, AddressedRows
  <2>3. Owned(new)
    <3> HIDE DEF new
    <3> QED
      BY <1>1, <1>2, <1>4, <2>2 DEF Owned
  <2> HIDE DEF new, wr
  <2>4. hand'[h].rows = new
    BY <1>2, <2>1 DEF Hand
  <2> QED
    BY <1>2, <2>1, <2>3, <2>4, OwnKept
<1> QED
  BY <1>3, <1>4

LEMMA InsertRunDoes ==
  ASSUME Base, NEW h \in Handlers, InsertRun(h)
  PROVE  /\ Others(h) /\ hand'[h].rows = Nobody /\ UNCHANGED <<sent, past>>
         /\ \E r \in Runs :
              /\ run[r].status = "none" /\ run'[r].status = "pending"
              /\ recip'[r] = hand[h].rows
              /\ \A q \in Runs : q # r => run'[q] = run[q] /\ recip'[q] = recip[q]
<1>1. PICK r \in Runs :
        /\ run[r].status = "none"
        /\ run' = [run EXCEPT ![r] = [status |-> "pending", period |-> hand[h].period,
                                      revenue |-> hand[h].revenue,
                                      fee |-> Fee(hand[h].revenue, hand[h].feeBps)]]
        /\ recip' = [recip EXCEPT ![r] = hand[h].rows]
  BY DEF InsertRun
<1>2. run'[r].status = "pending" /\ recip'[r] = hand[h].rows
  BY <1>1 DEF Base, TypeOK
<1>3. \A q \in Runs : q # r => run'[q] = run[q] /\ recip'[q] = recip[q]
  BY <1>1 DEF Base, TypeOK
<1>4. Others(h) /\ hand'[h].rows = Nobody /\ UNCHANGED <<sent, past>>
  BY IdleRows DEF InsertRun, Base
<1> QED
  BY <1>1, <1>2, <1>3, <1>4

LEMMA SettlesOwned ==
  ASSUME Base, OwnInv, NEW h \in Handlers, Settles(h)
  PROVE  OwnInv'
<1>1. Owned(hand[h].rows) /\ TypeOK
  BY DEF OwnInv, Base
<1>2. CASE Mark(h)
  <2>1. Others(h) /\ hand'[h] = [hand[h] EXCEPT !.pc = "list"] /\ UNCHANGED recip
    BY <1>1, <1>2, Steps DEF Mark, To
  <2>2. hand'[h].rows = hand[h].rows
    BY <1>1, <2>1 DEF TypeOK, Hand
  <2> QED
    BY <1>1, <2>1, <2>2, OwnKept
<1>3. CASE ListRecipients(h)
  <2>1. Others(h) /\ hand'[h].rows = recip[hand[h].run] /\ UNCHANGED recip
    BY <1>1, <1>3, ListDoes
  <2>2. hand[h].run \in Runs
    BY <1>3, Settler DEF ListRecipients, At
  <2> QED
    BY <2>1, <2>2, OwnKept DEF OwnInv
<1>4. CASE Reread(h)
  <2> DEFINE s == IF Unpaid(hand[h].run) = {} THEN "settled" ELSE "partial"
  <2>1. Others(h) /\ hand'[h] = [hand[h] EXCEPT !.pc = "finish", !.seen = s] /\ UNCHANGED recip
    BY <1>1, <1>4, Steps DEF Reread
  <2> HIDE DEF s
  <2>2. hand'[h].rows = hand[h].rows
    BY <1>1, <2>1 DEF TypeOK, Hand
  <2> QED
    BY <1>1, <2>1, <2>2, OwnKept
<1>5. CASE Finish(h)
  <2>1. Others(h) /\ hand'[h].rows = Nobody /\ UNCHANGED recip
    BY <1>1, <1>5, IdleRows DEF Finish
  <2> QED
    BY <2>1, NobodyOwned, OwnKept
<1>6. CASE Persist(h)
  <2>1. PICK r \in Runs : r = hand[h].run
    BY <1>6, Settler DEF Persist, At, Loop
  <2>2. Others(h) /\ hand'[h].rows = hand[h].rows
    BY <1>6, <2>1, PersistDoes
  <2>3. PICK u \in Users : /\ RowWrite(r, u) /\ hand[h].rows[u] # None
                           /\ recip'[r][u].wallet = hand[h].rows[u].wallet
    BY <1>6, <2>1, PersistDoes
  <2> QED
    BY <2>2, <2>3, RowOwned
<1>7. CASE Skip(h)
  <2>1. PICK r \in Runs : r = hand[h].run
    BY <1>7, Settler DEF Skip, Paying, At, Loop
  <2>2. Others(h) /\ hand'[h].rows = hand[h].rows
    BY <1>7, <2>1, SkipDoes
  <2>3. PICK u \in Users : RowWrite(r, u) /\ recip'[r][u].wallet = recip[r][u].wallet
    BY <1>7, <2>1, SkipDoes
  <2> QED
    BY <2>2, <2>3, RowOwned
<1>8. CASE Transfer(h)
  <2>1. Others(h) /\ hand'[h].rows = hand[h].rows /\ UNCHANGED recip
    BY <1>8, AskedDoes DEF Transfer
  <2> QED
    BY <1>1, <2>1, OwnKept
<1>9. CASE Confirm(h) \/ Fail(h)
  <2>1. PICK r \in Runs, u \in Users : r = hand[h].run /\ u = hand[h].cur
    BY <1>9, WriteCell
  <2>2. /\ Others(h) /\ hand'[h].rows = hand[h].rows
        /\ RowWrite(r, u) /\ recip'[r][u].wallet = recip[r][u].wallet
    BY <1>9, <2>1, WritesDoes
  <2> QED
    BY <2>2, RowOwned
<1>10. CASE Resolve(h)
  BY <1>10, ResolveOwned
<1> QED
  BY <1>2, <1>3, <1>4, <1>5, <1>6, <1>7, <1>8, <1>9, <1>10 DEF Settles

LEMMA StepOwned == Base /\ OwnInv /\ [Next]_vars => OwnInv'
<1> SUFFICES ASSUME Base, OwnInv, [Next]_vars PROVE OwnInv'
  OBVIOUS
<1>1. TypeOK
  BY DEF Base
<1>2. CASE \/ \E u \in Users, bps \in Shares : UpsertShare(u, bps)
           \/ \E list \in Lists : ReplaceShares(list)
  BY <1>2, SharesOnly DEF OwnInv, Owned
<1>3. CASE UNCHANGED vars
  BY <1>3 DEF vars, OwnInv, Owned
<1>4. ASSUME NEW h \in Handlers, NEW p \in Periods, NEW m \in Revenues, NEW f \in Fees,
             AssembleRead(h, p, m, f)
      PROVE  OwnInv'
  <2>1. /\ Others(h) /\ UNCHANGED recip
        /\ hand'[h] = [Idle EXCEPT !.pc = "shares", !.period = p, !.revenue = m, !.feeBps = f]
    BY <1>1, <1>4, Steps DEF AssembleRead
  <2>2. hand'[h].rows = Nobody
    BY <2>1 DEF Idle
  <2> QED
    BY <2>1, <2>2, NobodyOwned, OwnKept
<1>5. ASSUME NEW h \in Handlers, ReadShares(h)
      PROVE  OwnInv'
  <2>1. UNCHANGED recip
    BY <1>5 DEF ReadShares
  <2>2. CASE Splittable(ActiveShares)
    <3> DEFINE rows == applySplit(h)
    <3>1. Others(h) /\ hand'[h] = [hand[h] EXCEPT !.pc = "insert", !.rows = rows]
      BY <1>1, <1>5, <2>2, Steps DEF ReadShares
    <3>2. Owned(rows)
      BY DEF Owned, applySplit
    <3> HIDE DEF rows
    <3>3. hand'[h].rows = rows
      BY <1>1, <3>1 DEF TypeOK, Hand
    <3> QED
      BY <2>1, <3>1, <3>2, <3>3, OwnKept
  <2>3. CASE ~Splittable(ActiveShares)
    BY <1>1, <1>5, <2>1, <2>3, IdleRows, NobodyOwned, OwnKept DEF ReadShares
  <2> QED
    BY <2>2, <2>3
<1>6. ASSUME NEW h \in Handlers, InsertRun(h)
      PROVE  OwnInv'
  <2>1. /\ Others(h) /\ hand'[h].rows = Nobody
        /\ \A q \in Runs : recip'[q] = hand[h].rows \/ recip'[q] = recip[q]
    BY <1>6, InsertRunDoes
  <2>2. \A q \in Runs : Owned(recip'[q])
    BY <2>1 DEF OwnInv
  <2>3. \A g \in Handlers : Owned(hand'[g].rows)
    BY <2>1, NobodyOwned DEF OwnInv, Others
  <2> QED
    BY <2>2, <2>3 DEF OwnInv, Owned
<1>7. ASSUME NEW h \in Handlers, NEW r \in Runs, SettleRead(h, r)
      PROVE  OwnInv'
  <2>1. /\ Others(h) /\ UNCHANGED recip
        /\ hand'[h] = [Idle EXCEPT !.pc = "mark", !.run = r, !.seen = run[r].status]
    BY <1>1, <1>7, Steps DEF SettleRead
  <2>2. hand'[h].rows = Nobody
    BY <2>1 DEF Idle
  <2> QED
    BY <2>1, <2>2, NobodyOwned, OwnKept
<1>8. ASSUME NEW h \in Handlers, TransferFails(h)
      PROVE  OwnInv'
  <2>1. Others(h) /\ hand'[h].rows = hand[h].rows /\ UNCHANGED recip
    BY <1>8, AskedDoes DEF TransferFails
  <2> QED
    BY <2>1, OwnKept DEF OwnInv
<1>9. ASSUME NEW h \in Handlers, HandFault(h)
      PROVE  OwnInv'
  BY <1>1, <1>9, IdleRows, NobodyOwned, OwnKept DEF HandFault
<1> QED
  BY <1>2, <1>3, <1>4, <1>5, <1>6, <1>7, <1>8, <1>9, SettlesOwned DEF Next

LEMMA StartOwned == Init => OwnInv
BY NobodyOwned DEF Init, OwnInv

-----------------------------------------------------------------------------
(* Each step is a step of PayoutPromise.                                   *)

\* What PayoutPromise sees is left alone.
Unseen ==
  /\ \A r \in Runs : /\ run'[r].status = "none" <=> run[r].status = "none"
                     /\ run'[r].status = "settled" <=> run[r].status = "settled"
  /\ \A r \in Runs, u \in Users :
       /\ recip'[r][u] = None <=> recip[r][u] = None
       /\ recip[r][u] # None => recip'[r][u].amount = recip[r][u].amount
  /\ past'.raced = past.raced /\ past'.lost = past.lost

\* The amounts that are due, and those of the next state.
LEMMA DueType ==
  ASSUME TypeOK
  PROVE  \A r \in Runs, u \in Users : Amount(r, u) \in Nat
BY DEF TypeOK, Recip, Amount

LEMMA AmountKept ==
  ASSUME NEW r \in Runs, NEW u \in Users,
         recip'[r][u] = None <=> recip[r][u] = None,
         recip[r][u] # None => recip'[r][u].amount = recip[r][u].amount
  PROVE  Amount(r, u)' = Amount(r, u)
BY DEF Amount

\* The values of PayoutPromise's variables that most steps keep.
LEMMA SeesNothing ==
  ASSUME Unseen
  PROVE  /\ UNCHANGED {r \in Runs : run[r].status # "none"}
         /\ UNCHANGED [r \in Runs |-> [u \in Users |-> Amount(r, u)]]
         /\ UNCHANGED {r \in Runs : run[r].status = "settled"}
         /\ UNCHANGED (past.raced \cup past.lost)
<1>1. \A r \in Runs, u \in Users : Amount(r, u)' = Amount(r, u)
  BY AmountKept DEF Unseen
<1> QED
  BY <1>1 DEF Unseen

LEMMA Stutters ==
  ASSUME Unseen, UNCHANGED sent
  PROVE  UNCHANGED Promise!vars
BY SeesNothing DEF Promise!vars

LEMMA RowUnseen ==
  ASSUME NEW r \in Runs, NEW u \in Users, RowWrite(r, u), UNCHANGED run,
         past'.raced = past.raced, past'.lost = past.lost
  PROVE  Unseen
BY DEF RowWrite, Unseen

\* Of a settlement's steps only a transfer and the last one show.
LEMMA QuietStutters ==
  ASSUME Base, NEW h \in Handlers, Settles(h), ~Transfer(h), ~Finish(h)
  PROVE  UNCHANGED Promise!vars
<1>1. past'.raced = past.raced /\ past'.lost = past.lost
  BY SettlesPast
<1>2. CASE Mark(h)
  <2>1. PICK r \in Runs : r = hand[h].run /\ HandOK(h)
    BY <1>2, Settler DEF Mark, At
  <2>2. hand[h].seen \in {"pending", "partial"} /\ UNCHANGED <<recip, sent>>
    BY <1>2, <2>1 DEF Mark, At, HandOK
  <2>3. run' = run \/ (run[r].status = hand[h].seen
                       /\ run' = [run EXCEPT ![r].status = "settling"])
    BY <1>2, <2>1 DEF Mark
  <2>4. CASE run' = run
    BY <1>1, <2>2, <2>4, Stutters DEF Unseen
  <2>5. CASE run[r].status = hand[h].seen /\ run' = [run EXCEPT ![r].status = "settling"]
    <3>1. run'[r].status = "settling" /\ \A q \in Runs : q # r => run'[q] = run[q]
      BY <2>5, Status DEF Base
    <3>2. Unseen
      BY <1>1, <2>2, <2>5, <3>1 DEF Unseen
    <3> QED
      BY <2>2, <3>2, Stutters
  <2> QED
    BY <2>3, <2>4, <2>5
<1>3. CASE UNCHANGED <<run, recip, sent>>
  BY <1>1, <1>3, Stutters DEF Unseen
<1>4. CASE ListRecipients(h) \/ Resolve(h) \/ Reread(h)
  BY <1>3, <1>4 DEF ListRecipients, Resolve, Reread
<1>5. CASE Persist(h)
  <2>1. PICK r \in Runs : r = hand[h].run
    BY <1>5, Settler DEF Persist, At, Loop
  <2>2. (\E u \in Users : RowWrite(r, u)) /\ UNCHANGED <<run, sent>>
    BY <1>5, <2>1, PersistDoes
  <2> QED
    BY <1>1, <2>2, RowUnseen, Stutters
<1>6. CASE Skip(h)
  <2>1. PICK r \in Runs : r = hand[h].run
    BY <1>6, Settler DEF Skip, Paying, At, Loop
  <2>2. (\E u \in Users : RowWrite(r, u)) /\ UNCHANGED <<run, sent>>
    BY <1>6, <2>1, SkipDoes
  <2> QED
    BY <1>1, <2>2, RowUnseen, Stutters
<1>7. CASE Confirm(h) \/ Fail(h)
  <2>1. PICK r \in Runs, u \in Users : r = hand[h].run /\ u = hand[h].cur
    BY <1>7, WriteCell
  <2>2. RowWrite(r, u) /\ UNCHANGED <<run, sent>>
    BY <1>7, <2>1, WritesDoes
  <2> QED
    BY <1>1, <2>2, RowUnseen, Stutters
<1> QED
  BY <1>2, <1>4, <1>5, <1>6, <1>7 DEF Settles

\* A payment goes to an address of the recipient's, who has something to get and
\* has not had it, unless the run is loose.
LEMMA PaysPromised ==
  ASSUME Base, OnceInv, OwnInv, NEW h \in Handlers, Paying(h), NEW u \in Payable(h),
         hand[h].rows[u].amount > 0,
         NEW r \in Runs, r = hand[h].run, NEW w \in Wallets, w = hand[h].rows[u].wallet,
         Pays(r, u, w), UNCHANGED <<run, recip>>, past'.raced = past.raced,
         past'.lost = past.lost \/ past'.lost = past.lost \cup {r}
  PROVE  Promise!Pay(r, u, w)
<1>1. /\ u \in Users /\ recip[r][u] # None /\ u \in hand[h].due /\ hand[h].pc = "settle"
      /\ HandOK(h) /\ TypeOK
  BY Asking DEF Base
<1>2. hand[h].rows[u] # None /\ hand[h].rows[u].amount = recip[r][u].amount
  BY <1>1 DEF HandOK, Loop, SameRows
<1>3. Amount(r, u) > 0
  BY <1>1, <1>2 DEF Amount
<1>4. Owner[w] = u
  BY <1>1, <1>2, NoneAssumption DEF OwnInv, Owned
<1>5. r \in past.raced \cup past.lost \/ (run[r].status # "settled" /\ sent[r][u] = <<>>)
  <2> SUFFICES ASSUME r \notin past.raced \cup past.lost
               PROVE  run[r].status # "settled" /\ sent[r][u] = <<>>
    OBVIOUS
  <2>1. Orderly(r) /\ h \in Settling(r)
    BY DEF OnceInv, Settling
  <2>2. InTurn(h)
    BY <2>1 DEF Orderly
  <2> QED
    BY <1>1, <2>2 DEF InTurn, Loop
<1>6. \A q \in Runs, v \in Users : Amount(q, v)' = Amount(q, v)
  BY DEF Amount
<1>7. /\ UNCHANGED {q \in Runs : run[q].status # "none"}
      /\ UNCHANGED [q \in Runs |-> [v \in Users |-> Amount(q, v)]]
      /\ UNCHANGED {q \in Runs : run[q].status = "settled"}
  BY <1>6
<1>8. past'.raced \cup past'.lost
        \in {past.raced \cup past.lost, (past.raced \cup past.lost) \cup {r}}
  BY Zenon
<1> QED
  BY <1>1, <1>3, <1>4, <1>5, <1>7, <1>8 DEF Promise!Pay, Pays

\* The last write closes the run if all are paid; one that does not close it
\* opens it again only if two settlements of the run overlapped, or a transfer
\* was lost.
LEMMA FinishPromised ==
  ASSUME Base, OnceInv, NEW h \in Handlers, Finish(h), NEW r \in Runs, r = hand[h].run
  PROVE  Promise!Close(r) \/ Promise!Reopen(r) \/ UNCHANGED Promise!vars
<1>1. /\ TypeOK /\ HandOK(h) /\ hand[h] \in Hand /\ hand[h].pc = "finish"
      /\ run[r].status # "none"
  BY Settler DEF Finish, At
<1>2. PICK s \in {"pending", "partial", "settled"} : s = hand[h].seen
  BY <1>1 DEF Hand
<1>3. run' = [run EXCEPT ![r].status = s] /\ UNCHANGED <<recip, sent, past>>
  BY <1>2 DEF Finish, used
<1>4. run'[r].status = s /\ \A q \in Runs : q # r => run'[q] = run[q]
  BY <1>1, <1>3 DEF TypeOK, Run
<1>5. \A q \in Runs, u \in Users : Amount(q, u)' = Amount(q, u)
  BY <1>3 DEF Amount
<1>6. /\ UNCHANGED {q \in Runs : run[q].status # "none"}
      /\ UNCHANGED [q \in Runs |-> [u \in Users |-> Amount(q, u)]]
      /\ UNCHANGED (past.raced \cup past.lost)
      /\ UNCHANGED sent
  BY <1>1, <1>2, <1>3, <1>4, <1>5
<1>7. CASE s = "settled"
  <2>1. AllPaid(r)
    BY <1>1, <1>2, <1>7 DEF HandOK
  <2>2. \A u \in Users : Amount(r, u) > 0 => sent[r][u] # <<>>
    BY <2>1 DEF AllPaid, Amount
  <2>3. {q \in Runs : run'[q].status = "settled"} = {q \in Runs : run[q].status = "settled"} \cup {r}
    BY <1>4, <1>7
  <2> QED
    BY <1>1, <1>6, <2>2, <2>3 DEF Promise!Close
<1>8. CASE s # "settled"
  <2>1. {q \in Runs : run'[q].status = "settled"} = {q \in Runs : run[q].status = "settled"} \ {r}
    BY <1>4, <1>8
  <2>2. CASE r \in past.raced \cup past.lost
    BY <1>6, <2>1, <2>2 DEF Promise!Reopen
  <2>3. CASE r \notin past.raced \cup past.lost
    <3>1. Orderly(r) /\ h \in Settling(r)
      BY <2>3 DEF OnceInv, Settling
    <3>2. run[r].status = "settling"
      BY <1>1, <3>1 DEF Orderly, InTurn
    <3>3. UNCHANGED {q \in Runs : run[q].status = "settled"}
      BY <2>1, <3>2
    <3> QED
      BY <1>6, <3>3 DEF Promise!vars
  <2> QED
    BY <2>2, <2>3
<1> QED
  BY <1>7, <1>8

\* The insert fixes what is due.
LEMMA InsertRunPromised ==
  ASSUME Base, Base', NEW h \in Handlers, InsertRun(h)
  PROVE  \E r \in Runs : Promise!Open(r)
<1>1. PICK r \in Runs :
        /\ run[r].status = "none" /\ run'[r].status = "pending"
        /\ \A q \in Runs : q # r => run'[q] = run[q] /\ recip'[q] = recip[q]
  BY InsertRunDoes
<1>2. UNCHANGED <<sent, past>>
  BY InsertRunDoes
<1>3. \A q \in Runs, u \in Users : Amount(q, u)' \in Nat
  BY DueType DEF Base, TypeOK, Recip, Amount
<1>4. \A q \in Runs \ {r}, u \in Users : Amount(q, u)' = Amount(q, u)
  BY <1>1 DEF Amount
<1>5. [q \in Runs |-> [u \in Users |-> Amount(q, u)]]' \in [Runs -> [Users -> Nat]]
  BY <1>3
<1>6. {q \in Runs : run'[q].status # "none"} = {q \in Runs : run[q].status # "none"} \cup {r}
  BY <1>1
<1>7. UNCHANGED {q \in Runs : run[q].status = "settled"}
  BY <1>1
<1>8. Promise!Open(r)
  BY <1>1, <1>2, <1>4, <1>5, <1>6, <1>7 DEF Promise!Open
<1> QED
  BY <1>8

LEMMA StepKeepsPromise ==
  Base /\ OnceInv /\ OwnInv /\ [Next]_vars => [Promise!Next]_(Promise!vars)
<1> SUFFICES ASSUME Base, OnceInv, OwnInv, [Next]_vars
             PROVE  Promise!Next \/ UNCHANGED Promise!vars
  OBVIOUS
<1>1. TypeOK /\ past \in Past
  BY DEF Base, TypeOK
<1>2. CASE UNCHANGED <<run, recip, sent, past>>
  BY <1>2, Stutters DEF Unseen
<1>3. CASE \/ \E u \in Users, bps \in Shares : UpsertShare(u, bps)
           \/ \E list \in Lists : ReplaceShares(list)
  BY <1>2, <1>3, SharesOnly
<1>4. CASE UNCHANGED vars
  BY <1>2, <1>4 DEF vars
<1>5. ASSUME NEW h \in Handlers, NEW p \in Periods, NEW m \in Revenues, NEW f \in Fees,
             AssembleRead(h, p, m, f)
      PROVE  UNCHANGED Promise!vars
  <2>1. UNCHANGED <<run, recip, sent>> /\ past'.raced = past.raced /\ past'.lost = past.lost
    BY <1>1, <1>5 DEF AssembleRead, Past
  <2> QED
    BY <2>1, Stutters DEF Unseen
<1>6. ASSUME NEW h \in Handlers, ReadShares(h)
      PROVE  UNCHANGED Promise!vars
  <2>1. UNCHANGED <<run, recip, sent>> /\ UNCHANGED past
    BY <1>6 DEF ReadShares
  <2> QED
    BY <2>1, Stutters DEF Unseen
<1>7. ASSUME NEW h \in Handlers, InsertRun(h)
      PROVE  Promise!Next
  <2>1. Base'
    BY StepBase
  <2> QED
    BY <1>7, <2>1, InsertRunPromised DEF Promise!Next
<1>8. ASSUME NEW h \in Handlers, NEW r \in Runs, SettleRead(h, r)
      PROVE  Promise!Next \/ UNCHANGED Promise!vars
  <2>1. UNCHANGED <<run, recip, sent>>
    BY <1>8 DEF SettleRead
  <2>2. past'.lost = past.lost /\ (past'.raced = past.raced \/ past'.raced = past.raced \cup {r})
    BY <1>1, <1>8 DEF SettleRead, Past
  <2>3. CASE past'.raced = past.raced
    BY <2>1, <2>2, <2>3, Stutters DEF Unseen
  <2>4. CASE past'.raced = past.raced \cup {r}
    <3>1. past'.raced \cup past'.lost = (past.raced \cup past.lost) \cup {r}
      BY <2>2, <2>4
    <3>2. \A q \in Runs, u \in Users : Amount(q, u)' = Amount(q, u)
      BY <2>1 DEF Amount
    <3>3. Promise!Loosen(r)
      BY <2>1, <3>1, <3>2 DEF Promise!Loosen
    <3> QED
      BY <3>3 DEF Promise!Next
  <2> QED
    BY <2>2, <2>3, <2>4
<1>9. ASSUME NEW h \in Handlers, Settles(h)
      PROVE  Promise!Next \/ UNCHANGED Promise!vars
  <2>1. CASE Transfer(h)
    <3>1. Paying(h) /\ UNCHANGED <<run, recip, past>>
      BY <2>1 DEF Transfer
    <3>2. PICK u \in Payable(h) :
            hand[h].rows[u].amount > 0 /\ Pays(hand[h].run, u, hand[h].rows[u].wallet)
      BY <2>1 DEF Transfer
    <3>3. PICK r \in Runs, w \in Wallets : r = hand[h].run /\ w = hand[h].rows[u].wallet
      BY <3>1, Asking
    <3>4. Promise!Pay(r, u, w) /\ u \in Users
      BY <3>1, <3>2, <3>3, PaysPromised, Asking
    <3> QED
      BY <3>4 DEF Promise!Next
  <2>2. CASE Finish(h)
    <3>1. PICK r \in Runs : r = hand[h].run
      BY <2>2, Settler DEF Finish, At
    <3> QED
      BY <2>2, <3>1, FinishPromised DEF Promise!Next
  <2> QED
    BY <1>9, <2>1, <2>2, QuietStutters
<1>10. ASSUME NEW h \in Handlers, TransferFails(h)
       PROVE  Promise!Next \/ UNCHANGED Promise!vars
  <2>1. Paying(h) /\ UNCHANGED <<run, recip>>
    BY <1>10 DEF TransferFails
  <2>2. PICK u \in Payable(h) :
          /\ hand[h].rows[u].amount > 0
          /\ \/ UNCHANGED <<sent, past>>
             \/ /\ Pays(hand[h].run, u, hand[h].rows[u].wallet)
                /\ past' = [past EXCEPT !.lost = @ \cup {hand[h].run}]
    BY <1>10 DEF TransferFails
  <2>3. CASE UNCHANGED <<sent, past>>
    BY <1>2, <2>1, <2>3
  <2>4. PICK r \in Runs, w \in Wallets : r = hand[h].run /\ w = hand[h].rows[u].wallet
    BY <2>1, Asking
  <2>5. CASE Pays(r, u, w) /\ past' = [past EXCEPT !.lost = @ \cup {r}]
    <3>1. past'.raced = past.raced /\ past'.lost = past.lost \cup {r}
      BY <1>1, <2>5 DEF Past
    <3>2. Promise!Pay(r, u, w) /\ u \in Users
      BY <2>1, <2>2, <2>4, <2>5, <3>1, PaysPromised, Asking
    <3> QED
      BY <3>2 DEF Promise!Next
  <2> QED
    BY <2>2, <2>3, <2>4, <2>5
<1>11. ASSUME NEW h \in Handlers, HandFault(h)
       PROVE  UNCHANGED Promise!vars
  <2>1. UNCHANGED <<run, recip, sent>> /\ past'.raced = past.raced /\ past'.lost = past.lost
    BY <1>1, <1>11 DEF HandFault, Past
  <2> QED
    BY <2>1, Stutters DEF Unseen
<1> QED
  BY <1>3, <1>4, <1>5, <1>6, <1>7, <1>8, <1>9, <1>10, <1>11 DEF Next

LEMMA StartPromised == Init => Promise!Init
<1> SUFFICES ASSUME Init PROVE Promise!Init
  OBVIOUS
<1>1. {r \in Runs : run[r].status # "none"} = {} /\ {r \in Runs : run[r].status = "settled"} = {}
  BY DEF Init
<1>2. \A r \in Runs, u \in Users : Amount(r, u) = 0
  BY DEF Init, Nobody, Amount
<1>3. past.raced \cup past.lost = {}
  BY DEF Init
<1> QED
  BY <1>1, <1>2, <1>3 DEF Promise!Init, Init

\* EconomyPayouts implements PayoutPromise: whatever overlaps, fails, is retried or
\* changes its wallets, a payment goes to a recipient of the run at an address of
\* their own, once unless the run is loose, and a run closes when all are paid
\* (assemblePayout and settleRun in payouts.ts).
THEOREM PayoutsKeepPromise == Spec => KeepsPromise
<1>1. Init => Promise!Init
  BY StartPromised
<1>2. Spec => []OnceInv
  <2>1. Init => OnceInv
    BY StartOnce
  <2>2. Base /\ OnceInv /\ [Next]_vars => OnceInv'
    BY StepOnce
  <2> QED
    BY <2>1, <2>2, AlwaysBase, PTL DEF Spec
<1>3. Spec => []OwnInv
  <2>1. Init => OwnInv
    BY StartOwned
  <2>2. Base /\ OwnInv /\ [Next]_vars => OwnInv'
    BY StepOwned
  <2> QED
    BY <2>1, <2>2, AlwaysBase, PTL DEF Spec
<1>4. Base /\ OnceInv /\ OwnInv /\ [Next]_vars => [Promise!Next]_(Promise!vars)
  BY StepKeepsPromise
<1> QED
  BY <1>1, <1>2, <1>3, <1>4, AlwaysBase, PTL DEF Spec, KeepsPromise, Promise!Spec

=============================================================================
