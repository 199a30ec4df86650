------------------------ MODULE EconomyPayoutsRevenue ------------------------
(***************************************************************************)
(* What a run pays out is within the revenue of its period, for any        *)
(* contributors, shares, revenues and fees.                                *)
(*                                                                         *)
(* The division rounds every part and the fee down, so the parts of a net  *)
(* amount add up to no more than it as long as the shares add up to no     *)
(* more than 10000 basis points.  That is looked at when the shares are    *)
(* read; the rows of the run keep the amounts from then on, whatever       *)
(* becomes of the shares.                                                  *)
(***************************************************************************)
EXTENDS EconomyPayoutsProofs, SumLemmas

-----------------------------------------------------------------------------
(* The inductive invariant: the fee and the amounts of a run, and of one   *)
(* about to be inserted, fit the revenue.                                  *)

Owing(rows) == SumFunction([u \in Listed(rows) |-> rows[u].amount])

RunFits(r) == run[r].fee + Owing(recip[r]) <= run[r].revenue

HandFits(h) ==
  hand[h].pc = "insert" =>
    Fee(hand[h].revenue, hand[h].feeBps) + Owing(hand[h].rows) <= hand[h].revenue

FitsInv == (\A r \in Runs : RunFits(r)) /\ (\A h \in Handlers : HandFits(h))

-----------------------------------------------------------------------------
(* The split.                                                              *)

LEMMA FeeWithin ==
  ASSUME NEW m \in Nat, NEW f \in Nat, f <= 10000
  PROVE  Fee(m, f) \in Nat /\ Fee(m, f) <= m
<1>1. m * f <= m * 10000 /\ m * f \in Nat
  OBVIOUS
<1> QED
  BY <1>1 DEF Fee

\* Of shares that add up to 100% at most, the parts add up to the net at most.
LEMMA PartsWithin ==
  ASSUME NEW S, IsFiniteSet(S), NEW n \in Nat,
         NEW b \in [S -> Nat], NEW a \in [S -> Nat],
         \A u \in S : a[u] = (n * b[u]) \div 10000,
         SumFunction(b) <= 10000
  PROVE  SumFunction(a) <= n
<1> DEFINE tenK == 10000
           p == [u \in S |-> tenK * a[u]]
           q == [u \in S |-> n * b[u]]
<1>1. p \in [S -> Int] /\ q \in [S -> Int] /\ a \in [S -> Int] /\ b \in [S -> Int]
  OBVIOUS
<1>2. \A u \in S : p[u] <= q[u]
  <2>1. ASSUME NEW u \in S PROVE p[u] <= q[u]
    <3>1. n * b[u] \in Nat
      OBVIOUS
    <3>2. \A x \in Nat : 10000 * (x \div 10000) <= x
      OBVIOUS
    <3> QED
      BY <3>1, <3>2
  <2> QED
    BY <2>1
<1>3. \A u \in S : p[u] = tenK * a[u] /\ q[u] = n * b[u]
  OBVIOUS
<1>4. tenK \in Int /\ n \in Int
  OBVIOUS
<1> HIDE DEF p, q, tenK
<1>5. SumFunction(p) <= SumFunction(q)
  BY <1>1, <1>2, SumLe
<1>6. SumFunction(p) = tenK * SumFunction(a)
  BY <1>1, <1>3, <1>4, SumTimes
<1>7. SumFunction(q) = n * SumFunction(b)
  BY <1>1, <1>3, <1>4, SumTimes
<1>8. SumFunction(a) \in Int /\ SumFunction(b) \in Int
  BY <1>1, SumInt
<1>9. ASSUME NEW x \in Int, NEW y \in Int, 10000 * x <= n * y, y <= 10000
      PROVE  x <= n
  <2>1. n * y <= n * 10000
    BY <1>9
  <2>2. n * y \in Int
    BY <1>9
  <2> HIDE DEF tenK
  <2> QED
    BY <1>9, <2>1, <2>2
<1>10. 10000 * SumFunction(a) <= n * SumFunction(b)
  BY <1>5, <1>6, <1>7 DEF tenK
<1> QED
  BY <1>8, <1>9, <1>10

LEMMA SplitWithin ==
  ASSUME Base, NEW h \in Handlers, hand[h].pc = "shares", Splittable(ActiveShares)
  PROVE  Fee(hand[h].revenue, hand[h].feeBps) + Owing(applySplit(h)) <= hand[h].revenue
<1> DEFINE m == hand[h].revenue  f == hand[h].feeBps  F == Fee(m, f)  n == m - F
           S == ActiveShares
           b == [u \in S |-> share[u].bps]
           a == [u \in S |-> Part(m, f, share[u].bps)]
<1>1. m \in Nat /\ f \in Nat /\ f <= 10000
  BY DEF Base, TypeOK, Hand, HandOK
<1>2. F \in Nat /\ F <= m
  <2> HIDE DEF m, f
  <2> QED
    BY <1>1, FeeWithin
<1>3. n \in Nat
  <2> HIDE DEF m, F
  <2> QED
    BY <1>1, <1>2
<1>4. S \subseteq Users /\ IsFiniteSet(S)
  BY SharesAssumption, FS_Subset DEF ActiveShares
<1>5. \A u \in S : share[u].bps \in Nat
  BY DEF ActiveShares, Base, TypeOK, Share
<1>6. b \in [S -> Nat] /\ SumFunction(b) <= 10000
  BY <1>5 DEF Splittable
<1>7. a \in [S -> Nat]
  <2> DEFINE v(x) == Part(m, f, share[x].bps)
  <2>1. ASSUME NEW u \in S PROVE v(u) \in Nat
    <3> DEFINE c == share[u].bps
    <3>1. c \in Nat
      BY <1>5
    <3> HIDE DEF m, f, c
    <3>2. Part(m, f, c) \in Nat
      BY <1>1, <3>1, PartType
    <3> QED
      BY <3>2 DEF c
  <2>2. a = [u \in S |-> v(u)]
    OBVIOUS
  <2> HIDE DEF a, v, S
  <2> QED
    BY <2>1, <2>2
<1>8. \A u \in S : a[u] = (n * b[u]) \div 10000
  BY DEF Part
<1>9. Owing(applySplit(h)) = SumFunction(a)
  <2>1. ASSUME NEW u \in Users
        PROVE  IF u \in S THEN applySplit(h)[u] # None /\ applySplit(h)[u].amount = a[u]
               ELSE applySplit(h)[u] = None
    <3>1. CASE u \in S
      <4> DEFINE x == Part(m, f, share[u].bps)
      <4>1. x \in Nat
        BY <1>7, <3>1
      <4>2. applySplit(h)[u] = [status |-> "pending", wallet |-> None, amount |-> x]
        BY <3>1 DEF applySplit
      <4> HIDE DEF x
      <4>3. applySplit(h)[u] \in Recip /\ applySplit(h)[u].amount = x
        BY <4>1, <4>2 DEF Recip
      <4> QED
        BY <3>1, <4>3, RowsAssumption DEF x
    <3>2. CASE u \notin S
      BY <3>2 DEF applySplit
    <3> QED
      BY <3>1, <3>2
  <2>2. Listed(applySplit(h)) = S
    <3> HIDE DEF a, S
    <3> QED
      BY <1>4, <2>1 DEF Listed
  <2>3. [u \in S |-> applySplit(h)[u].amount] = a
    <3>1. \A u \in S : applySplit(h)[u].amount = a[u]
      <4> HIDE DEF a, S
      <4> QED
        BY <1>4, <2>1
    <3> HIDE DEF S
    <3> QED
      BY <3>1
  <2> HIDE DEF a, S
  <2> QED
    BY <2>2, <2>3 DEF Owing
<1>10. SumFunction(a) <= n /\ SumFunction(a) \in Int
  <2> HIDE DEF a, b, n, S
  <2>1. a \in [S -> Int]
    BY <1>7
  <2> QED
    BY <1>3, <1>4, <1>6, <1>7, <1>8, <2>1, PartsWithin, SumInt
<1> DEFINE s == SumFunction(a)
<1>11. s <= m - F /\ s \in Int
  BY <1>10
<1>12. Owing(applySplit(h)) = s
  BY <1>9
<1> HIDE DEF s, F, m
<1>13. F + s <= m
  BY <1>1, <1>2, <1>11
<1> QED
  BY <1>12, <1>13 DEF F, m

-----------------------------------------------------------------------------
(* FitsInv is kept.                                                        *)

\* The rows of a run keep their amounts, and the run its fee and revenue.
Keeps(q) ==
  /\ run'[q].fee = run[q].fee /\ run'[q].revenue = run[q].revenue
  /\ \A u \in Users : /\ recip'[q][u] = None <=> recip[q][u] = None
                      /\ recip[q][u] # None => recip'[q][u].amount = recip[q][u].amount

LEMMA KeepsFits ==
  ASSUME NEW q \in Runs, RunFits(q), Keeps(q)
  PROVE  RunFits(q)'
<1>1. Listed(recip[q])' = Listed(recip[q])
  BY DEF Keeps, Listed
<1>2. [u \in Listed(recip[q]) |-> recip'[q][u].amount]
        = [u \in Listed(recip[q]) |-> recip[q][u].amount]
  BY DEF Keeps, Listed
<1>3. Owing(recip[q])' = Owing(recip[q])
  BY <1>1, <1>2 DEF Owing
<1> QED
  BY <1>3 DEF Keeps, RunFits

LEMMA RowKeeps ==
  ASSUME NEW r \in Runs, NEW u \in Users, RowWrite(r, u), UNCHANGED run, NEW q \in Runs
  PROVE  Keeps(q)
BY DEF RowWrite, Keeps

LEMMA SettlesKeeps ==
  ASSUME Base, NEW h \in Handlers, Settles(h), NEW q \in Runs
  PROVE  Keeps(q)
<1>1. CASE Mark(h)
  <2>1. UNCHANGED recip /\ hand[h].pc = "mark"
    BY <1>1, MarkDoes DEF Base
  <2>2. PICK r \in Runs : r = hand[h].run
    BY <2>1, Settler
  <2>3. \/ run' = run
        \/ run' = [run EXCEPT ![r].status = "settling"]
    BY <1>1, <2>2 DEF Mark
  <2>4. run'[q].fee = run[q].fee /\ run'[q].revenue = run[q].revenue
    <3>1. CASE run' = run
      BY <3>1
    <3>2. CASE run' = [run EXCEPT ![r].status = "settling"]
      BY <3>2 DEF Base, TypeOK, Run
    <3> QED
      BY <2>3, <3>1, <3>2
  <2> QED
    BY <2>1, <2>4 DEF Keeps
<1>2. CASE Finish(h)
  <2>1. UNCHANGED recip /\ hand[h].pc = "finish"
    BY <1>2 DEF Finish, At
  <2>2. PICK r \in Runs, s \in {"pending", "partial", "settled"} :
          r = hand[h].run /\ s = hand[h].seen
    BY <2>1, Settler DEF Hand
  <2>3. run' = [run EXCEPT ![r].status = s]
    BY <1>2, <2>2 DEF Finish
  <2> QED
    BY <2>1, <2>3 DEF Keeps, Base, TypeOK, Run
<1>3. CASE ListRecipients(h) \/ Resolve(h) \/ Reread(h) \/ Transfer(h)
  BY <1>3, ListDoes, ResolveDoes, RereadDoes DEF Base, Transfer, Keeps
<1>4. CASE Persist(h)
  <2>1. PICK r \in Runs : r = hand[h].run
    BY <1>4, Settler DEF Persist, At, Loop
  <2> QED
    BY <1>4, <2>1, PersistDoes, RowKeeps
<1>5. CASE Skip(h)
  <2>1. PICK r \in Runs : r = hand[h].run
    BY <1>5, Settler DEF Skip, Paying, At, Loop
  <2> QED
    BY <1>5, <2>1, SkipDoes, RowKeeps
<1>6. CASE Confirm(h) \/ Fail(h)
  <2>1. PICK r \in Runs, u \in Users : r = hand[h].run /\ u = hand[h].cur
    BY <1>6, WriteCell
  <2> QED
    BY <1>6, <2>1, WritesDoes, RowKeeps
<1> QED
  BY <1>1, <1>2, <1>3, <1>4, <1>5, <1>6 DEF Settles

LEMMA ReadSharesFits ==
  ASSUME Base, NEW h \in Handlers, ReadShares(h)
  PROVE  HandFits(h)'
<1>1. TypeOK /\ hand[h] \in Hand /\ hand[h].pc = "shares"
  BY DEF Base, TypeOK, ReadShares, At
<1>2. CASE Splittable(ActiveShares)
  <2> DEFINE x == hand[h]  rows == applySplit(h)
  <2>1. hand'[h] = [x EXCEPT !.pc = "insert", !.rows = rows]
    BY <1>1, <1>2, Steps DEF ReadShares
  <2>2. Fee(x.revenue, x.feeBps) + Owing(rows) <= x.revenue /\ x \in Hand
    BY <1>1, <1>2, SplitWithin
  <2> HIDE DEF x, rows
  <2>3. hand'[h].revenue = x.revenue /\ hand'[h].feeBps = x.feeBps /\ hand'[h].rows = rows
    BY <2>1, <2>2 DEF Hand
  <2> QED
    BY <2>2, <2>3 DEF HandFits
<1>3. CASE ~Splittable(ActiveShares)
  BY <1>1, <1>3, IdleDoes DEF ReadShares, HandFits
<1> QED
  BY <1>2, <1>3

LEMMA InsertRunFits ==
  ASSUME Base, FitsInv, NEW h \in Handlers, InsertRun(h), NEW q \in Runs
  PROVE  RunFits(q)'
<1> DEFINE F == Fee(hand[h].revenue, hand[h].feeBps)
           new == [status |-> "pending", period |-> hand[h].period,
                   revenue |-> hand[h].revenue, fee |-> F]
<1>1. PICK r \in Runs : /\ run' = [run EXCEPT ![r] = new]
                        /\ recip' = [recip EXCEPT ![r] = hand[h].rows]
  BY DEF InsertRun
<1>2. HandFits(h) /\ RunFits(q) /\ hand[h].pc = "insert"
  BY DEF FitsInv, InsertRun, At
<1>3. CASE q = r
  <2>1. run'[r].revenue = hand[h].revenue /\ run'[r].fee = F /\ recip'[r] = hand[h].rows
    BY <1>1 DEF Base, TypeOK
  <2> QED
    BY <1>2, <1>3, <2>1 DEF HandFits, RunFits
<1>4. CASE q # r
  <2>1. run'[q] = run[q] /\ recip'[q] = recip[q]
    BY <1>1, <1>4 DEF Base, TypeOK
  <2> QED
    BY <1>2, <2>1 DEF RunFits
<1> QED
  BY <1>3, <1>4

LEMMA HandsFit ==
  ASSUME FitsInv, NEW h \in Handlers, Others(h), HandFits(h)'
  PROVE  \A g \in Handlers : HandFits(g)'
BY DEF FitsInv, Others, HandFits

LEMMA StepFits == Base /\ FitsInv /\ [Next]_vars => FitsInv'
<1> SUFFICES ASSUME Base, FitsInv, [Next]_vars
             PROVE  FitsInv'
  OBVIOUS
<1>1. CASE UNCHANGED <<run, recip, hand>>
  BY <1>1 DEF FitsInv, RunFits, HandFits
<1>2. CASE \/ \E u \in Users, bps \in Shares : UpsertShare(u, bps)
           \/ \E list \in Lists : ReplaceShares(list)
  BY <1>1, <1>2, SharesOnly
<1>3. CASE UNCHANGED vars
  BY <1>1, <1>3 DEF vars
<1>4. ASSUME UNCHANGED <<run, recip>>
      PROVE  \A q \in Runs : RunFits(q)'
  BY <1>4 DEF FitsInv, RunFits
<1>5. ASSUME NEW h \in Handlers, Settles(h)
      PROVE  FitsInv'
  <2>1. \A q \in Runs : RunFits(q)'
    BY <1>5, SettlesKeeps, KeepsFits DEF FitsInv
  <2>2. Others(h) /\ HandFits(h)'
    BY <1>5, SettlesDoes DEF HandFits
  <2> QED
    BY <2>1, <2>2, HandsFit DEF FitsInv
<1>6. ASSUME NEW h \in Handlers, ReadShares(h)
      PROVE  FitsInv'
  <2>1. UNCHANGED <<run, recip>>
    BY <1>6 DEF ReadShares
  <2>2. Others(h)
    BY <1>6, AssemblyElsewhere DEF Base, ReadShares, Ends, Goes, Others, TypeOK
  <2> QED
    BY <1>4, <1>6, <2>1, <2>2, ReadSharesFits, HandsFit DEF FitsInv
<1>7. ASSUME NEW h \in Handlers, InsertRun(h)
      PROVE  FitsInv'
  <2>1. Others(h) /\ HandFits(h)'
    BY <1>7, IdleDoes DEF Base, InsertRun, HandFits
  <2> QED
    BY <1>7, <2>1, InsertRunFits, HandsFit DEF FitsInv
<1>8. ASSUME NEW h \in Handlers, NEW p \in Periods, NEW m \in Revenues, NEW f \in Fees,
             AssembleRead(h, p, m, f)
      PROVE  FitsInv'
  <2>1. Others(h) /\ hand'[h] = [Idle EXCEPT !.pc = "shares", !.period = p, !.revenue = m,
                                             !.feeBps = f]
    BY <1>8, Steps DEF AssembleRead, Base
  <2>2. hand'[h].pc = "shares"
    BY <2>1 DEF Idle
  <2>3. HandFits(h)' /\ UNCHANGED <<run, recip>>
    BY <1>8, <2>2 DEF HandFits, AssembleRead
  <2> QED
    BY <1>4, <2>1, <2>3, HandsFit DEF FitsInv
<1>9. ASSUME NEW h \in Handlers, NEW r \in Runs, SettleRead(h, r)
      PROVE  FitsInv'
  <2>1. Others(h) /\ hand'[h] = [Idle EXCEPT !.pc = "mark", !.run = r, !.seen = run[r].status]
    BY <1>9, Steps DEF SettleRead, Base
  <2>2. hand'[h].pc = "mark"
    BY <2>1 DEF Idle
  <2>3. HandFits(h)' /\ UNCHANGED <<run, recip>>
    BY <1>9, <2>2 DEF HandFits, SettleRead
  <2> QED
    BY <1>4, <2>1, <2>3, HandsFit DEF FitsInv
<1>10. ASSUME NEW h \in Handlers, TransferFails(h) \/ HandFault(h)
       PROVE  FitsInv'
  <2>1. Others(h) /\ hand'[h].pc \in {"fail", "idle"}
    BY <1>10, AskedDoes, IdleDoes DEF TransferFails, HandFault, Base
  <2>2. HandFits(h)' /\ UNCHANGED <<run, recip>>
    BY <1>10, <2>1 DEF HandFits, TransferFails, HandFault
  <2> QED
    BY <1>4, <2>1, <2>2, HandsFit DEF FitsInv
<1> QED
  BY <1>2, <1>3, <1>5, <1>6, <1>7, <1>8, <1>9, <1>10 DEF Next

LEMMA StartFits == Init => FitsInv
<1> SUFFICES ASSUME Init PROVE FitsInv
  OBVIOUS
<1>1. ASSUME NEW r \in Runs PROVE RunFits(r)
  <2>1. run[r].fee = 0 /\ run[r].revenue = 0 /\ Listed(recip[r]) = {}
    BY DEF Init, Nobody, Listed
  <2>2. Owing(recip[r]) = 0
    BY <2>1, SumNone DEF Owing
  <2> QED
    BY <2>1, <2>2 DEF RunFits
<1>2. ASSUME NEW h \in Handlers PROVE HandFits(h)
  BY IdleHand DEF Init, HandFits
<1> QED
  BY <1>1, <1>2 DEF FitsInv

-----------------------------------------------------------------------------

LEMMA FitsPaid ==
  ASSUME Base, OnceInv, FitsInv
  PROVE  WithinRevenue
<1> SUFFICES ASSUME NEW r \in Runs, r \notin past.raced, r \notin past.lost
             PROVE  run[r].fee
                      + SumFunction([u \in Paid(r) |-> Len(sent[r][u]) * recip[r][u].amount])
                      <= run[r].revenue
  BY DEF WithinRevenue
<1> DEFINE T == Listed(recip[r])  S == Paid(r)
           f == [u \in T |-> recip[r][u].amount]
           g == [u \in S |-> Len(sent[r][u]) * recip[r][u].amount]
<1>1. TypeOK /\ RunFits(r) /\ Orderly(r)
  BY DEF Base, OnceInv, FitsInv
<1>2. T \subseteq Users /\ IsFiniteSet(T)
  BY SharesAssumption, FS_Subset DEF Listed
<1>3. S \subseteq T
  BY <1>1 DEF Paid, Listed, Orderly, Recorded
<1>4. \A u \in T : recip[r][u].amount \in Nat
  <2>1. \A u \in T : recip[r][u] \in Recip
    BY <1>1 DEF TypeOK, Listed
  <2> QED
    BY <2>1 DEF Recip
<1>5. \A u \in S : Len(sent[r][u]) \in 0..1
  <2>1. ASSUME NEW u \in S PROVE Len(sent[r][u]) \in 0..1
    <3> DEFINE t == sent[r][u]
    <3>1. t \in Seq(Wallets) /\ Len(t) <= 1
      BY <1>1 DEF TypeOK, Orderly, Recorded, Paid
    <3> HIDE DEF t
    <3>2. Len(t) \in Nat
      BY <3>1
    <3> DEFINE n == Len(t)
    <3>3. n \in Nat /\ n <= 1
      BY <3>1, <3>2
    <3> HIDE DEF n
    <3>4. n \in 0..1
      BY <3>3
    <3> QED
      BY <3>4 DEF t, n
  <2> QED
    BY <2>1
<1>6. \A u \in S : g[u] \in Int /\ g[u] <= f[u]
  <2>1. ASSUME NEW u \in S PROVE g[u] \in Int /\ g[u] <= f[u]
    <3> DEFINE n == Len(sent[r][u])  a == recip[r][u].amount
    <3>1. n \in 0..1 /\ a \in Nat
      BY <1>3, <1>4, <1>5
    <3>2. g[u] = n * a /\ f[u] = a
      BY <1>3
    <3> HIDE DEF n, a, f, g
    <3>3. n * a \in Int /\ n * a <= a
      BY <3>1
    <3> QED
      BY <3>2, <3>3
  <2> QED
    BY <2>1
<1>7. f \in [T -> Nat] /\ g \in [S -> Int]
  <2> HIDE DEF T, S
  <2> QED
    BY <1>4, <1>6
<1>8. SumFunction(g) <= SumFunction(f)
  <2> HIDE DEF T, S, f, g
  <2> QED
    BY <1>2, <1>3, <1>6, <1>7, SumPart
<1>9. SumFunction(f) \in Int /\ SumFunction(g) \in Int
  <2>1. f \in [T -> Int] /\ IsFiniteSet(S)
    BY <1>2, <1>3, <1>7, FS_Subset
  <2> HIDE DEF T, S, f, g
  <2> QED
    BY <1>2, <1>7, <2>1, SumInt
<1> DEFINE x == run[r].fee  y == run[r].revenue  p == SumFunction(f)  q == SumFunction(g)
<1>10. x \in Int /\ y \in Int
  BY <1>1 DEF TypeOK, Run
<1>11. x + p <= y
  BY <1>1 DEF RunFits, Owing
<1>12. q <= p /\ p \in Int /\ q \in Int
  BY <1>8, <1>9
<1> HIDE DEF x, y, p, q
<1>13. x + q <= y
  BY <1>10, <1>11, <1>12
<1> QED
  BY <1>13 DEF x, y, q

\* A run never pays out, with its fee, more than the revenue of its period, for
\* any shares, revenues and fees: the split of splits.ts rounds down, and a
\* settlement of payouts.ts pays the amounts of its rows once.
THEOREM PayoutsWithinRevenue == Spec => []WithinRevenue
<1>1. Init => OnceInv /\ FitsInv
  BY StartOnce, StartFits
<1>2. Base /\ OnceInv /\ FitsInv /\ [Next]_vars => OnceInv' /\ FitsInv'
  BY StepOnce, StepFits
<1>3. Base /\ OnceInv /\ FitsInv => WithinRevenue
  BY FitsPaid
<1> QED
  BY <1>1, <1>2, <1>3, AlwaysBase, PTL DEF Spec

=============================================================================
