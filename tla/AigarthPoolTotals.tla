-------------------------- MODULE AigarthPoolTotals --------------------------
(***************************************************************************)
(* Theorems about the amounts of the pool, for any users, ANNs and shares: *)
(* the totals it reports are those of the open positions, no user passes   *)
(* the cap of an epoch, and no value appears or is paid twice.             *)
(*                                                                         *)
(* Each is a sum over the positions or the entries of all users, and a     *)
(* step changes what one user has: the lemmas say by how much each sum     *)
(* changes with that.                                                      *)
(***************************************************************************)
EXTENDS AigarthPoolProofs, SumLemmas

-----------------------------------------------------------------------------
(* The inductive invariant.                                                *)

\* The count of the epoch is what the positions opened in it add up to, whether
\* or not a call has restarted the count yet.
CountOf(u) ==
  /\ recent[u].last <= epoch
  /\ \A i \in DOMAIN positions[u] : positions[u][i].at <= epoch
  /\ Amount(u, Today(u)) = Spent(u)
  /\ Spent(u) <= MaxStakePerUserPerEpoch

CountKept == \A u \in Users : CountOf(u)

AccountInv == TotalsAgree /\ CountKept /\ ValueKept

-----------------------------------------------------------------------------
(* The amounts of one user.                                                *)

LEMMA PositionsOf ==
  ASSUME NEW P \in [Users -> Seq(Position)], NEW u \in Users, NEW S \in SUBSET DOMAIN P[u]
  PROVE  /\ IsFiniteSet(S) /\ Cardinality(S) \in Int
         /\ [i \in S |-> P[u][i].amount] \in [S -> Int]
         /\ SumFunction([i \in S |-> P[u][i].amount]) \in Int
<1>1. P[u] \in Seq(Position)  OBVIOUS
<1>2. DOMAIN P[u] = 1..Len(P[u]) /\ Len(P[u]) \in Nat  BY <1>1
<1>3. IsFiniteSet(S)
  <2>1. IsFiniteSet(1..Len(P[u]))  BY <1>2, FS_Interval
  <2> QED  BY <1>2, <2>1, FS_Subset
<1>4. [i \in S |-> P[u][i].amount] \in [S -> Int]
  <2>1. ASSUME NEW i \in S PROVE P[u][i].amount \in Int
    <3>1. P[u][i] \in Position  BY <1>1, <1>2
    <3> QED  BY <3>1, PositionType
  <2> QED  BY <2>1
<1>5. Cardinality(S) \in Int
  <2>1. Cardinality(S) \in Nat  BY <1>3, FS_CardinalityType
  <2> QED  BY <2>1
<1> QED  BY <1>3, <1>4, <1>5, SumInt

\* The amounts of S stay, and n is one more position.
LEMMA AmountMore ==
  ASSUME TypeOK, NEW u \in Users, NEW S \in SUBSET DOMAIN positions[u],
         NEW n, n \notin S, NEW ps, ps[n].amount \in Int, \A i \in S : ps[i] = positions[u][i]
  PROVE  SumFunction([i \in S \cup {n} |-> ps[i].amount]) = Amount(u, S) + ps[n].amount
<1> DEFINE f == [i \in S |-> positions[u][i].amount]
           T == S \cup {n}
           g == [i \in T |-> ps[i].amount]
<1>1. IsFiniteSet(S) /\ f \in [S -> Int]  BY PositionsOf DEF TypeOK
<1>2. \A i \in S : f[i] \in Int  BY <1>1
<1>3. \A i \in S : g[i] = f[i]  OBVIOUS
<1>4. g[n] = ps[n].amount  OBVIOUS
<1>5. g \in [T -> Int]  BY <1>2, <1>3, <1>4
<1>6. SumFunction(f) = Amount(u, S)  BY DEF Amount
<1>8. T = S \cup {n}  OBVIOUS
<1> HIDE DEF f, g, T
<1>7. SumFunction(g) = SumFunction(f) + g[n]  BY <1>1, <1>3, <1>5, <1>8, SumOneMore
<1> QED  BY <1>4, <1>6, <1>7 DEF g, T

\* The amounts of S stay, but n of them is left out.
LEMMA AmountLess ==
  ASSUME TypeOK, NEW u \in Users, NEW S \in SUBSET DOMAIN positions[u],
         NEW n \in S, NEW ps, \A i \in S \ {n} : ps[i] = positions[u][i]
  PROVE  SumFunction([i \in S \ {n} |-> ps[i].amount]) = Amount(u, S) - positions[u][n].amount
<1> DEFINE f == [i \in S |-> positions[u][i].amount]
           T == S \ {n}
           g == [i \in T |-> ps[i].amount]
<1>1. IsFiniteSet(S) /\ f \in [S -> Int]  BY PositionsOf DEF TypeOK
<1>2. \A i \in S : f[i] \in Int  BY <1>1
<1>3. \A i \in T : g[i] = f[i]  OBVIOUS
<1>4. f[n] = positions[u][n].amount  OBVIOUS
<1>5. g \in [T -> Int]  BY <1>2, <1>3
<1>6. SumFunction(f) = Amount(u, S)  BY DEF Amount
<1>8. T = S \ {n}  OBVIOUS
<1> HIDE DEF f, g, T
<1>7. SumFunction(g) = SumFunction(f) - f[n]  BY <1>1, <1>3, <1>5, <1>8, SumOneLess
<1> QED  BY <1>4, <1>6, <1>7 DEF g, T

LEMMA AmountSame ==
  ASSUME NEW u, NEW S, NEW ps, \A i \in S : ps[i].amount = positions[u][i].amount
  PROVE  SumFunction([i \in S |-> ps[i].amount]) = Amount(u, S)
<1>1. [i \in S |-> ps[i].amount] = [i \in S |-> positions[u][i].amount]  OBVIOUS
<1> QED  BY <1>1 DEF Amount

LEMMA ActiveOf ==
  ASSUME TypeOK, NEW u \in Users
  PROVE  /\ IsFiniteSet(Active(u)) /\ Cardinality(Active(u)) \in Int
         /\ Active(u) \subseteq DOMAIN positions[u]
         /\ Amount(u, Active(u)) \in Int /\ Amount(u, DOMAIN positions[u]) \in Int
<1>1. Active(u) \in SUBSET DOMAIN positions[u]
      /\ DOMAIN positions[u] \in SUBSET DOMAIN positions[u]
  BY DEF Active
<1> QED  BY <1>1, PositionsOf DEF TypeOK, Amount

\* The same of the state after a step.
LEMMA ActiveOfNext ==
  ASSUME TypeOK', NEW u \in Users
  PROVE  /\ Cardinality(Active(u))' \in Int
         /\ Amount(u, Active(u))' \in Int /\ Amount(u, DOMAIN positions[u])' \in Int
<1>1. Active(u)' \in SUBSET DOMAIN positions'[u]
      /\ DOMAIN positions'[u] \in SUBSET DOMAIN positions'[u]
  BY DEF Active
<1> QED  BY <1>1, PositionsOf DEF TypeOK, Amount

-----------------------------------------------------------------------------
(* The sums over all users.                                                *)

\* A sum over the users, of which one changes by d.
LEMMA UsersSum ==
  ASSUME NEW f \in [Users -> Int], NEW g \in [Users -> Int], NEW u \in Users, NEW d \in Int,
         \A v \in Users : v # u => g[v] = f[v], g[u] = f[u] + d
  PROVE  SumFunction(g) = SumFunction(f) + d
<1>1. SumFunction(g) = SumFunction(f) - f[u] + g[u]  BY FiniteAssumption, SumChange
<1>2. SumFunction(f) \in Int /\ f[u] \in Int  BY FiniteAssumption, SumInt
<1> QED  BY <1>1, <1>2

LEMMA UnclaimedType ==
  ASSUME NEW u \in Users, NEW a \in Anns
  PROVE  /\ TypeOK => Unclaimed(u, a) \in Int
         /\ TypeOK' => Unclaimed(u, a)' \in Int
<1>1. TypeOK => owed[u][a] \in Owed \cup {None}  BY DEF TypeOK
<1>2. TypeOK' => owed'[u][a] \in Owed \cup {None}  BY DEF TypeOK
<1> QED  BY <1>1, <1>2 DEF Owed, Unclaimed

\* The open positions and their number change as the totals do.
LEMMA TotalsStep ==
  ASSUME TypeOK, TypeOK', TotalsAgree, NEW u \in Users, NEW d \in Int, NEW k \in Int,
         \A v \in Users : v # u => positions'[v] = positions[v],
         Amount(u, Active(u))' = Amount(u, Active(u)) + d,
         Cardinality(Active(u))' = Cardinality(Active(u)) + k,
         totals'.staked = totals.staked + d, totals'.positions = totals.positions + k
  PROVE  TotalsAgree'
<1> DEFINE f == [v \in Users |-> Amount(v, Active(v))]
           g == [v \in Users |-> Amount(v, Active(v))']
           m == [v \in Users |-> Cardinality(Active(v))]
           n == [v \in Users |-> Cardinality(Active(v))']
<1>1. f \in [Users -> Int] /\ m \in [Users -> Int]  BY ActiveOf
<1>2. g \in [Users -> Int] /\ n \in [Users -> Int]
  <2>1. ASSUME NEW v \in Users
        PROVE  Amount(v, Active(v))' \in Int /\ Cardinality(Active(v))' \in Int
    BY ActiveOfNext
  <2> QED  BY <2>1
<1>3. ASSUME NEW v \in Users, v # u PROVE g[v] = f[v] /\ n[v] = m[v]
  BY <1>3 DEF Active, Amount
<1>4. g[u] = f[u] + d /\ n[u] = m[u] + k  OBVIOUS
<1>5. totals.staked = SumFunction(f) /\ totals.positions = SumFunction(m)  BY DEF TotalsAgree
<1>6. TotalsAgree' <=> totals'.staked = SumFunction(g) /\ totals'.positions = SumFunction(n)
  BY DEF TotalsAgree
<1> HIDE DEF f, g, m, n
<1>7. SumFunction(g) = SumFunction(f) + d  BY <1>1, <1>2, <1>3, <1>4, UsersSum
<1>8. SumFunction(n) = SumFunction(m) + k  BY <1>1, <1>2, <1>3, <1>4, UsersSum
<1> QED  BY <1>5, <1>6, <1>7, <1>8

\* What has gone out of the pool or is locked in it, less what it has earned.
Out == totals.staked + totals.toCreator + totals.toTreasury + paid + lost - totals.yield

LEMMA OutType ==
  ASSUME TypeOK
  PROVE  /\ totals.staked \in Int /\ totals.yield \in Int /\ totals.toCreator \in Int
         /\ totals.toTreasury \in Int /\ paid \in Int /\ lost \in Int
         /\ Out \in Int
<1>1. /\ totals.staked \in Int /\ totals.yield \in Int /\ totals.toCreator \in Int
      /\ totals.toTreasury \in Int
  BY TotalsFields
<1>2. paid \in Int /\ lost \in Int  BY DEF TypeOK
<1> QED  BY <1>1, <1>2 DEF Out

LEMMA OutTypeNext ==
  ASSUME TypeOK'
  PROVE  /\ totals'.staked \in Int /\ totals'.yield \in Int /\ totals'.toCreator \in Int
         /\ totals'.toTreasury \in Int /\ paid' \in Int /\ lost' \in Int
         /\ Out' \in Int
<1>1. /\ totals'.staked \in Int /\ totals'.yield \in Int /\ totals'.toCreator \in Int
      /\ totals'.toTreasury \in Int
  BY DEF TypeOK, Totals
<1>2. paid' \in Int /\ lost' \in Int  BY DEF TypeOK
<1> QED  BY <1>1, <1>2 DEF Out

\* What a step adds on one side of the balance it adds on the other.
LEMMA ValueStep ==
  ASSUME TypeOK, TypeOK', ValueKept, NEW u \in Users, NEW a \in Anns, NEW d \in Int, NEW e \in Int,
         \A v \in Users : v # u => positions'[v] = positions[v],
         Amount(u, DOMAIN positions[u])' = Amount(u, DOMAIN positions[u]) + d,
         \A v \in Users, b \in Anns : v # u \/ b # a => owed'[v][b] = owed[v][b],
         Unclaimed(u, a)' = Unclaimed(u, a) + e,
         Out' = Out + d - e
  PROVE  ValueKept'
<1> DEFINE f == [v \in Users |-> Amount(v, DOMAIN positions[v])]
           g == [v \in Users |-> Amount(v, DOMAIN positions[v])']
           m == [x \in Users \X Anns |-> Unclaimed(x[1], x[2])]
           n == [x \in Users \X Anns |-> Unclaimed(x[1], x[2])']
           F == SumFunction(f)
           M == SumFunction(m)
<1>1. f \in [Users -> Int] /\ m \in [Users \X Anns -> Int]
  <2>1. \A v \in Users : Amount(v, DOMAIN positions[v]) \in Int  BY ActiveOf
  <2>2. \A x \in Users \X Anns : Unclaimed(x[1], x[2]) \in Int  BY UnclaimedType
  <2> QED  BY <2>1, <2>2
<1>2. g \in [Users -> Int] /\ n \in [Users \X Anns -> Int]
  <2>1. ASSUME NEW v \in Users PROVE Amount(v, DOMAIN positions[v])' \in Int
    BY ActiveOfNext
  <2>2. ASSUME NEW x \in Users \X Anns PROVE Unclaimed(x[1], x[2])' \in Int
    <3>1. x[1] \in Users /\ x[2] \in Anns  OBVIOUS
    <3> QED  BY <3>1, UnclaimedType
  <2> QED  BY <2>1, <2>2
<1>3. \A v \in Users : v # u => g[v] = f[v]  BY DEF Amount
<1>4. g[u] = f[u] + d  OBVIOUS
<1>5. ASSUME NEW x \in Users \X Anns, x # <<u, a>> PROVE n[x] = m[x]
  <2>1. x[1] \in Users /\ x[2] \in Anns /\ (x[1] # u \/ x[2] # a)  BY <1>5
  <2>2. owed'[x[1]][x[2]] = owed[x[1]][x[2]]  BY <2>1
  <2> QED  BY <2>2 DEF Unclaimed
<1>6. <<u, a>> \in Users \X Anns /\ n[<<u, a>>] = m[<<u, a>>] + e  OBVIOUS
<1>9. IsFiniteSet(Users \X Anns)  BY FiniteAssumption, FS_Product
<1>7. ValueKept <=> F = Out + M
  <2>1. F \in Int /\ M \in Int
    <3> HIDE DEF f, m
    <3> QED  BY <1>1, <1>9, FiniteAssumption, SumInt
  <2>2. ValueKept <=> F + totals.yield
                      = totals.staked + totals.toCreator + totals.toTreasury + paid + lost + M
    BY DEF ValueKept
  <2> HIDE DEF F, M
  <2> QED  BY <2>1, <2>2, OutType DEF Out
<1>8. ValueKept' <=> SumFunction(g) = Out' + SumFunction(n)
  <2> DEFINE G == SumFunction(g)
             N == SumFunction(n)
  <2>1. G \in Int /\ N \in Int
    <3> HIDE DEF g, n
    <3> QED  BY <1>2, <1>9, FiniteAssumption, SumInt
  <2>2. ValueKept' <=> G + totals'.yield
                      = totals'.staked + totals'.toCreator + totals'.toTreasury + paid' + lost' + N
    BY DEF ValueKept
  <2> HIDE DEF G, N
  <2>3. Out' = totals'.staked + totals'.toCreator + totals'.toTreasury + paid' + lost'
                 - totals'.yield
    BY DEF Out
  <2>4. /\ totals'.staked \in Int /\ totals'.yield \in Int /\ totals'.toCreator \in Int
        /\ totals'.toTreasury \in Int /\ paid' \in Int /\ lost' \in Int /\ Out' \in Int
    BY OutTypeNext
  <2> DEFINE s == totals'.staked  y == totals'.yield  c == totals'.toCreator
             t == totals'.toTreasury  p == paid'  l == lost'  o == Out'
  <2>5. /\ s \in Int /\ y \in Int /\ c \in Int /\ t \in Int /\ p \in Int /\ l \in Int
        /\ o \in Int /\ o = s + c + t + p + l - y
    BY <2>3, <2>4
  <2>6. ValueKept' <=> G + y = s + c + t + p + l + N  BY <2>2
  <2> HIDE DEF s, y, c, t, p, l, o
  <2>7. (G + y = s + c + t + p + l + N) <=> (G = o + N)  BY <2>1, <2>5
  <2> QED  BY <2>6, <2>7 DEF G, N, o
<1> HIDE DEF f, g, m, n
<1>10. SumFunction(g) = F + d  BY <1>1, <1>2, <1>3, <1>4, UsersSum
<1>11. SumFunction(n) = M + e
  <2> DEFINE z == <<u, a>>
             D == Users \X Anns
  <2>0. z \in D /\ n[z] = m[z] + e /\ \A x \in D : x # z => n[x] = m[x]  BY <1>5, <1>6
  <2>3. m \in [D -> Int] /\ n \in [D -> Int] /\ IsFiniteSet(D)  BY <1>1, <1>2, <1>9
  <2> HIDE DEF z, D
  <2>1. SumFunction(n) = M - m[z] + n[z]  BY <2>0, <2>3, SumChange
  <2>2. m[z] \in Int /\ M \in Int  BY <2>0, <2>3, SumInt
  <2> QED  BY <2>0, <2>1, <2>2
<1>12. F \in Int /\ M \in Int  BY <1>1, <1>9, FiniteAssumption, SumInt
<1>13. Out \in Int /\ Out' \in Int  BY OutType, OutTypeNext
<1>14. F = Out + M  BY <1>7
<1> HIDE DEF F, M
<1>15. F + d = Out' + (M + e)  BY <1>12, <1>13, <1>14
<1> QED  BY <1>8, <1>10, <1>11, <1>15

-----------------------------------------------------------------------------
(* The steps.                                                              *)

LEMMA CountOther ==
  ASSUME CountKept, NEW v \in Users,
         epoch' = epoch, positions'[v] = positions[v], recent'[v] = recent[v]
  PROVE  CountOf(v)'
<1>1. CountOf(v)  BY DEF CountKept
<1>2. Today(v)' = Today(v) /\ Spent(v)' = Spent(v)  BY DEF Today, Spent
<1>3. Amount(v, Today(v))' = Amount(v, Today(v))  BY <1>2 DEF Amount
<1> QED  BY <1>1, <1>2, <1>3 DEF CountOf

LEMMA SameAccounts ==
  ASSUME AccountInv, UNCHANGED <<epoch, positions, owed, recent, totals, paid, lost>>
  PROVE  AccountInv'
<1>1. CountKept'  BY CountOther DEF AccountInv, CountKept
<1>2. TotalsAgree' /\ ValueKept'
  BY DEF AccountInv, TotalsAgree, ValueKept, Amount, Active, Unclaimed
<1> QED  BY <1>1, <1>2 DEF AccountInv

\* A call that is refused restarts a count that is of an older epoch: nothing was
\* staked in this one.
LEMMA RefusedAccounts ==
  ASSUME IInv, IInv', AccountInv, NEW u \in Users, NEW a \in Anns, NEW amount \in Amounts,
         StakeRefused(u, a, amount)
  PROVE  AccountInv'
<1>1. UNCHANGED <<epoch, positions, owed, totals, paid, lost>>  BY DEF StakeRefused
<1>2. recent' = [recent EXCEPT ![u] = [staked |-> 0, last |-> epoch]] /\ epoch > recent[u].last
  BY DEF StakeRefused
<1>3. epoch \in Nat /\ recent \in [Users -> [staked: Nat, last: Int]]  BY DEF IInv, TypeOK
<1>4. recent'[u].last = epoch /\ recent'[u].staked = 0  BY <1>2, <1>3
<1>5. Spent(u) = 0  BY <1>2 DEF Spent
<1>6. Spent(u)' = 0  BY <1>1, <1>3, <1>4 DEF Spent
<1>7. CountOf(u)'
  <2>1. CountOf(u)  BY DEF AccountInv, CountKept
  <2>2. Amount(u, Today(u))' = Amount(u, Today(u))  BY <1>1 DEF Amount, Today
  <2>3. recent'[u].last <= epoch'  BY <1>1, <1>3, <1>4
  <2> QED  BY <1>1, <1>5, <1>6, <2>1, <2>2, <2>3 DEF CountOf
<1>8. \A v \in Users : v # u => CountOf(v)'
  <2>1. \A v \in Users : v # u => recent'[v] = recent[v]  BY <1>2, <1>3
  <2> QED  BY <1>1, <2>1, CountOther DEF AccountInv
<1>9. CountKept'  BY <1>7, <1>8 DEF CountKept
<1>10. TotalsAgree' /\ ValueKept'
  BY <1>1 DEF AccountInv, TotalsAgree, ValueKept, Amount, Active, Unclaimed
<1> QED  BY <1>9, <1>10 DEF AccountInv

\* In a new epoch nobody has staked yet, and every count is of an older one.
LEMMA AdvanceAccounts ==
  ASSUME IInv, AccountInv, AdvanceEpochs
  PROVE  AccountInv'
<1>1. epoch' = epoch + 1 /\ UNCHANGED <<positions, owed, recent, totals, paid, lost>>
  BY DEF AdvanceEpochs, staking
<1>2. epoch \in Nat /\ recent \in [Users -> [staked: Nat, last: Int]]
      /\ positions \in [Users -> Seq(Position)]
  BY DEF IInv, TypeOK
<1>3. ASSUME NEW u \in Users PROVE CountOf(u)'
  <2>1. CountOf(u)  BY DEF AccountInv, CountKept
  <2>2. recent[u].last \in Int  BY <1>2
  <2>3. epoch' > recent'[u].last  BY <1>1, <1>2, <2>1, <2>2 DEF CountOf
  <2>4. Spent(u)' = 0  BY <2>3 DEF Spent
  <2>5. ASSUME NEW i \in DOMAIN positions[u]
        PROVE  positions[u][i].at \in Nat /\ positions[u][i].at <= epoch
    <3>1. positions[u][i] \in Position  BY <1>2
    <3> QED  BY <2>1, <3>1, PositionType DEF CountOf
  <2>6. \A i \in DOMAIN positions'[u] :
          positions'[u][i].at <= epoch' /\ positions'[u][i].at # epoch'
    BY <1>1, <1>2, <2>5
  <2>7. Today(u)' = {}  BY <2>6 DEF Today
  <2>8. Amount(u, Today(u))' = 0
    <3>1. Amount(u, Today(u))' = SumFunction([i \in {} |-> positions'[u][i].amount])
      BY <2>7 DEF Amount
    <3> DEFINE f == [i \in {} |-> positions'[u][i].amount]
    <3>2. DOMAIN f = {}  OBVIOUS
    <3> HIDE DEF f
    <3>3. SumFunction(f) = 0  BY <3>2, SumNone
    <3> QED  BY <3>1, <3>3 DEF f
  <2>9. recent'[u].last <= epoch'  BY <1>1, <1>2, <2>1, <2>2 DEF CountOf
  <2> QED  BY <2>4, <2>6, <2>8, <2>9, LimitsAssumption DEF CountOf
<1>4. CountKept'  BY <1>3 DEF CountKept
<1>5. TotalsAgree' /\ ValueKept'
  BY <1>1 DEF AccountInv, TotalsAgree, ValueKept, Amount, Active, Unclaimed
<1> QED  BY <1>4, <1>5 DEF AccountInv

\* A stake is one more open position of its user, of this epoch.
LEMMA StakeAccounts ==
  ASSUME IInv, IInv', AccountInv, NEW u \in Users, NEW a \in Anns, NEW amount \in Amounts,
         NEW weeks \in 1..EpochsPerYear, StakeForAnn(u, a, amount, weeks)
  PROVE  AccountInv'
<1> DEFINE p == [ann |-> a, amount |-> amount, weeks |-> weeks, until |-> epoch + weeks,
                 active |-> TRUE, at |-> epoch]
           n == Len(positions[u]) + 1
<1>1. /\ epoch' = epoch /\ UNCHANGED <<owed, paid, lost>>
      /\ positions' = [positions EXCEPT ![u] = Append(positions[u], p)]
      /\ recent' = [recent EXCEPT ![u] =
                      [staked |-> Spent(u) + amount,
                       last |-> IF epoch > recent[u].last THEN epoch ELSE recent[u].last]]
      /\ totals' = [totals EXCEPT !.staked = totals.staked + amount,
                                  !.positions = totals.positions + 1]
      /\ ~Refused(u, amount)
  BY DEF StakeForAnn
<1>2. TypeOK /\ TypeOK'  BY DEF IInv
<1>3. /\ positions \in [Users -> Seq(Position)] /\ epoch \in Nat /\ amount \in Int
      /\ recent \in [Users -> [staked: Nat, last: Int]] /\ totals \in Totals
  BY <1>2, AmountsAssumption DEF TypeOK
<1>4. \A v \in Users : v # u => positions'[v] = positions[v] /\ recent'[v] = recent[v]
  BY <1>1, <1>3
<1>5. /\ DOMAIN positions'[u] = DOMAIN positions[u] \cup {n}
      /\ n \notin DOMAIN positions[u]
      /\ positions'[u][n] = p
      /\ \A i \in DOMAIN positions[u] : positions'[u][i] = positions[u][i]
  <2>1. positions[u] \in Seq(Position) /\ positions'[u] = Append(positions[u], p)  BY <1>1, <1>3
  <2>2. Len(positions[u]) \in Nat /\ DOMAIN positions[u] = 1..Len(positions[u])  BY <2>1
  <2>3. 1..n = (1..Len(positions[u])) \cup {n} /\ n \notin 1..Len(positions[u])  BY <2>2
  <2> HIDE DEF p
  <2>4. /\ DOMAIN positions'[u] = 1..n /\ positions'[u][n] = p
        /\ \A i \in 1..Len(positions[u]) : positions'[u][i] = positions[u][i]
    BY <2>1, <2>2
  <2> QED  BY <2>2, <2>3, <2>4
<1>6. p.amount = amount /\ p.active /\ p.at = epoch  OBVIOUS
<1> HIDE DEF p, n
<1>7. Active(u)' = Active(u) \cup {n} /\ n \notin Active(u)
      /\ Active(u) \in SUBSET DOMAIN positions[u]
  BY <1>5, <1>6 DEF Active
<1>8. Today(u)' = Today(u) \cup {n} /\ n \notin Today(u)
      /\ Today(u) \in SUBSET DOMAIN positions[u]
  BY <1>1, <1>5, <1>6 DEF Today
<1>9. ASSUME NEW S \in SUBSET DOMAIN positions[u], n \notin S
      PROVE  SumFunction([i \in S \cup {n} |-> positions'[u][i].amount]) = Amount(u, S) + amount
  <2>1. positions'[u][n].amount = amount /\ \A i \in S : positions'[u][i] = positions[u][i]
    BY <1>5, <1>6
  <2> DEFINE ps == positions'[u]
  <2>2. ps[n].amount = amount /\ \A i \in S : ps[i] = positions[u][i]  BY <2>1
  <2> HIDE DEF ps
  <2>3. SumFunction([i \in S \cup {n} |-> ps[i].amount]) = Amount(u, S) + ps[n].amount
    BY <1>2, <1>3, <1>9, <2>2, AmountMore
  <2> QED  BY <2>2, <2>3 DEF ps
<1>10. Amount(u, Active(u))' = Amount(u, Active(u)) + amount
  BY <1>7, <1>9 DEF Amount
<1>11. Amount(u, Today(u))' = Amount(u, Today(u)) + amount
  BY <1>8, <1>9 DEF Amount
<1>12. Amount(u, DOMAIN positions[u])' = Amount(u, DOMAIN positions[u]) + amount
  <2>1. DOMAIN positions[u] \in SUBSET DOMAIN positions[u]  OBVIOUS
  <2>2. SumFunction([i \in DOMAIN positions[u] \cup {n} |-> positions'[u][i].amount])
          = Amount(u, DOMAIN positions[u]) + amount
    BY <1>5, <1>9, <2>1
  <2> QED  BY <1>5, <2>2 DEF Amount
<1>13. Cardinality(Active(u))' = Cardinality(Active(u)) + 1
  BY <1>2, <1>7, ActiveOf, FS_AddElement
<1>14. /\ totals'.staked = totals.staked + amount /\ totals'.positions = totals.positions + 1
       /\ totals'.yield = totals.yield /\ totals'.toCreator = totals.toCreator
       /\ totals'.toTreasury = totals.toTreasury
  BY <1>1, <1>3 DEF Totals
<1>15. TotalsAgree'
  BY <1>2, <1>3, <1>4, <1>10, <1>13, <1>14, TotalsStep DEF AccountInv
<1>16. ValueKept'
  <2> DEFINE e == 0
  <2>1. Out' = Out + amount - e
    <3>1. Out' = (totals.staked + amount) + totals.toCreator + totals.toTreasury + paid + lost
                   - totals.yield
      BY <1>1, <1>14 DEF Out
    <3>2. Out = totals.staked + totals.toCreator + totals.toTreasury + paid + lost
                  - totals.yield
      BY DEF Out
    <3>3. /\ totals.staked \in Int /\ totals.yield \in Int /\ totals.toCreator \in Int
          /\ totals.toTreasury \in Int /\ paid \in Int /\ lost \in Int
      BY <1>2, OutType
    <3>4. amount \in Int  BY <1>3
    <3> QED  BY <3>1, <3>2, <3>3, <3>4
  <2>2. Unclaimed(u, a)' = Unclaimed(u, a) + e
    <3>1. Unclaimed(u, a)' = Unclaimed(u, a)  BY <1>1 DEF Unclaimed
    <3> QED  BY <1>2, <3>1, UnclaimedType
  <2>3. \A v \in Users, b \in Anns : v # u \/ b # a => owed'[v][b] = owed[v][b]  BY <1>1
  <2>4. e \in Int  OBVIOUS
  <2> HIDE DEF e
  <2> QED  BY <1>2, <1>3, <1>4, <1>12, <2>1, <2>2, <2>3, <2>4, ValueStep DEF AccountInv
<1>17. CountOf(u)'
  <2>1. CountOf(u)  BY DEF AccountInv, CountKept
  <2>2. recent[u].last \in Int /\ recent[u].staked \in Nat /\ recent[u].last <= epoch
    BY <1>3, <2>1 DEF CountOf
  <2>3. Spent(u) \in Nat  BY <2>2 DEF Spent
  <2>4. recent'[u].last = epoch /\ recent'[u].staked = Spent(u) + amount
    <3>1. recent'[u] = [staked |-> Spent(u) + amount,
                        last |-> IF epoch > recent[u].last THEN epoch ELSE recent[u].last]
      BY <1>1, <1>3
    <3>2. (IF epoch > recent[u].last THEN epoch ELSE recent[u].last) = epoch  BY <1>3, <2>2
    <3> QED  BY <3>1, <3>2
  <2>5. Spent(u)' = Spent(u) + amount  BY <1>1, <1>3, <2>4 DEF Spent
  <2>6. Spent(u) + amount <= MaxStakePerUserPerEpoch
    <3>1. ~(Spent(u) + amount > MaxStakePerUserPerEpoch)  BY <1>1 DEF Refused
    <3> QED  BY <3>1, <1>3, <2>3, LimitsAssumption
  <2>7. \A i \in DOMAIN positions'[u] : positions'[u][i].at <= epoch'
    <3>1. \A i \in DOMAIN positions[u] : positions'[u][i].at <= epoch
      BY <1>5, <2>1 DEF CountOf
    <3>2. positions'[u][n].at <= epoch  BY <1>3, <1>5, <1>6
    <3> QED  BY <1>1, <1>5, <3>1, <3>2
  <2>8. Amount(u, Today(u))' = Spent(u)'  BY <1>11, <2>1, <2>5 DEF CountOf
  <2>9. recent'[u].last <= epoch'  BY <1>1, <1>3, <2>4
  <2>10. Spent(u)' <= MaxStakePerUserPerEpoch  BY <2>5, <2>6
  <2> QED  BY <2>7, <2>8, <2>9, <2>10 DEF CountOf
<1>18. \A v \in Users : v # u => CountOf(v)'
  BY <1>1, <1>4, CountOther DEF AccountInv
<1>19. CountKept'  BY <1>17, <1>18 DEF CountKept
<1> QED  BY <1>15, <1>16, <1>19 DEF AccountInv

\* One position changes and keeps its amount and epoch: what was staked in all, and
\* in this epoch, is as before.
LEMMA AmountsKept ==
  ASSUME TypeOK, TypeOK', NEW u \in Users, NEW i \in DOMAIN positions[u], NEW p,
         epoch' = epoch, recent' = recent,
         \A v \in Users : DOMAIN positions'[v] = DOMAIN positions[v],
         \A v \in Users : \A j \in DOMAIN positions[v] :
           positions'[v][j] = IF v = u /\ j = i THEN p ELSE positions[v][j],
         p.amount = positions[u][i].amount, p.at = positions[u][i].at
  PROVE  /\ \A v \in Users : v # u => positions'[v] = positions[v]
         /\ Amount(u, DOMAIN positions[u])' = Amount(u, DOMAIN positions[u])
         /\ CountKept => CountKept'
<1>1. \A v \in Users : \A j \in DOMAIN positions[v] :
        positions'[v][j].amount = positions[v][j].amount /\ positions'[v][j].at = positions[v][j].at
  OBVIOUS
<1>2. \A v \in Users : v # u => positions'[v] = positions[v]
  <2>1. ASSUME NEW v \in Users, v # u PROVE positions'[v] = positions[v]
    <3>1. positions[v] \in Seq(Position) /\ positions'[v] \in Seq(Position)  BY <2>1 DEF TypeOK
    <3>2. DOMAIN positions'[v] = DOMAIN positions[v]
          /\ \A j \in DOMAIN positions[v] : positions'[v][j] = positions[v][j]
      BY <2>1
    <3>3. /\ positions[v] = [j \in DOMAIN positions[v] |-> positions[v][j]]
          /\ positions'[v] = [j \in DOMAIN positions'[v] |-> positions'[v][j]]
      BY <3>1
    <3> QED  BY <3>2, <3>3
  <2> QED  BY <2>1
<1>3. ASSUME NEW v \in Users, NEW S \in SUBSET DOMAIN positions[v]
      PROVE  SumFunction([j \in S |-> positions'[v][j].amount]) = Amount(v, S)
  <2> DEFINE ps == positions'[v]
  <2>1. \A j \in S : ps[j].amount = positions[v][j].amount  BY <1>1, <1>3
  <2> HIDE DEF ps
  <2>2. SumFunction([j \in S |-> ps[j].amount]) = Amount(v, S)  BY <2>1, AmountSame
  <2> QED  BY <2>2 DEF ps
<1>4. Amount(u, DOMAIN positions[u])' = Amount(u, DOMAIN positions[u])
  <2>1. DOMAIN positions[u] \in SUBSET DOMAIN positions[u]  OBVIOUS
  <2> QED  BY <1>3, <2>1 DEF Amount
<1>5. ASSUME NEW v \in Users, CountOf(v) PROVE CountOf(v)'
  <2>1. Today(v)' = Today(v) /\ Today(v) \in SUBSET DOMAIN positions[v]  BY <1>1 DEF Today
  <2>2. Amount(v, Today(v))' = Amount(v, Today(v))  BY <1>3, <2>1 DEF Amount
  <2>3. Spent(v)' = Spent(v)  BY DEF Spent
  <2>4. \A j \in DOMAIN positions'[v] : positions'[v][j].at <= epoch'
    BY <1>1, <1>5 DEF CountOf
  <2> QED  BY <1>5, <2>2, <2>3, <2>4 DEF CountOf
<1>6. CountKept => CountKept'  BY <1>5 DEF CountKept
<1> QED  BY <1>2, <1>4, <1>6

\* A longer lock moves no amount.
LEMMA ExtendAccounts ==
  ASSUME IInv, IInv', AccountInv, NEW u \in Users, NEW a \in Anns, NEW more \in 1..EpochsPerYear,
         ExtendLock(u, a, more)
  PROVE  AccountInv'
<1>1. PICK i \in Target(u, a) :
        positions' = [positions EXCEPT ![u][i].until =
                        epoch + ((positions[u][i].until - epoch) + more)]
  BY DEF ExtendLock
<1> DEFINE q == positions[u][i]
           x == epoch + ((q.until - epoch) + more)
           p == [q EXCEPT !.until = x]
<1>2. i \in DOMAIN positions[u]  BY DEF Target, Active
<1>3. positions \in [Users -> Seq(Position)] /\ epoch \in Nat /\ more \in Int
  BY LimitsAssumption DEF IInv, TypeOK
<1>4. q \in Position  BY <1>2, <1>3
<1>5. p \in Position /\ p.at = q.at /\ p.active = q.active /\ p.amount = q.amount
  <2>1. q.until \in Int  BY <1>4, PositionType
  <2>2. x \in Int
    <3> HIDE DEF q
    <3> QED  BY <1>3, <2>1
  <2> HIDE DEF q, x
  <2>3. p \in Position /\ p.at = q.at /\ p.active = q.active  BY <1>4, <2>2, ExtendedType
  <2> QED  BY <1>4, <2>3 DEF Position
<1>6. /\ \A v \in Users : DOMAIN positions'[v] = DOMAIN positions[v]
      /\ \A v \in Users : \A j \in DOMAIN positions[v] :
           positions'[v][j] = IF v = u /\ j = i THEN p ELSE positions[v][j]
  <2>1. positions' = [positions EXCEPT ![u][i] = p]  BY <1>1
  <2> HIDE DEF p
  <2> QED  BY <1>3, <1>5, <2>1, OneChanged
<1>7. UNCHANGED <<epoch, recent, owed, totals, paid, lost>> /\ TypeOK /\ TypeOK'
  BY DEF ExtendLock, IInv
<1> HIDE DEF p
<1>8. /\ \A v \in Users : v # u => positions'[v] = positions[v]
      /\ Amount(u, DOMAIN positions[u])' = Amount(u, DOMAIN positions[u])
      /\ CountKept'
  BY <1>2, <1>5, <1>6, <1>7, AmountsKept DEF AccountInv
<1>9. Active(u)' = Active(u) /\ Active(u) \in SUBSET DOMAIN positions[u]
  BY <1>5, <1>6 DEF Active
<1>10. Amount(u, Active(u))' = Amount(u, Active(u))
  <2> DEFINE ps == positions'[u]
             S == Active(u)
  <2>1. \A j \in S : ps[j].amount = positions[u][j].amount  BY <1>5, <1>6, <1>9
  <2> HIDE DEF ps, S
  <2>2. SumFunction([j \in S |-> ps[j].amount]) = Amount(u, S)  BY <2>1, AmountSame
  <2> QED  BY <1>9, <2>2 DEF Amount, ps, S
<1> DEFINE z == 0
<1>11. z \in Int /\ \A y \in Int : y + z = y /\ y - z = y  OBVIOUS
<1> HIDE DEF z
<1>12. TotalsAgree'
  <2>1. Amount(u, Active(u))' = Amount(u, Active(u)) + z  BY <1>7, <1>10, <1>11, ActiveOf
  <2>2. Cardinality(Active(u))' = Cardinality(Active(u)) + z  BY <1>7, <1>9, <1>11, ActiveOf
  <2>3. totals'.staked = totals.staked + z /\ totals'.positions = totals.positions + z
    BY <1>7, <1>11, TotalsFields
  <2> QED  BY <1>7, <1>8, <1>11, <2>1, <2>2, <2>3, TotalsStep DEF AccountInv
<1>13. ValueKept'
  <2>1. Amount(u, DOMAIN positions[u])' = Amount(u, DOMAIN positions[u]) + z
    BY <1>7, <1>8, <1>11, ActiveOf
  <2>2. Unclaimed(u, a)' = Unclaimed(u, a) + z
    <3>1. Unclaimed(u, a)' = Unclaimed(u, a)  BY <1>7 DEF Unclaimed
    <3> QED  BY <1>7, <1>11, <3>1, UnclaimedType
  <2>3. Out' = Out + z - z
    <3>1. Out' = Out  BY <1>7 DEF Out
    <3>2. Out \in Int  BY <1>7, OutType
    <3> QED  BY <1>11, <3>1, <3>2
  <2>4. \A v \in Users, b \in Anns : v # u \/ b # a => owed'[v][b] = owed[v][b]  BY <1>7
  <2> QED  BY <1>7, <1>8, <1>11, <2>1, <2>2, <2>3, <2>4, ValueStep DEF AccountInv
<1> QED  BY <1>8, <1>12, <1>13 DEF AccountInv

\* A split leaves nothing over.
LEMMA SplitExact ==
  ASSUME NEW y \in Int, NEW s \in Shares
  PROVE  y = applySplits(y, s).creator + applySplits(y, s).user + applySplits(y, s).treasury
<1> DEFINE c == (y * s.creator) \div 10000
           t == (y * (10000 - s.creator - s.user)) \div 10000
<1>1. /\ applySplits(y, s).creator = c /\ applySplits(y, s).treasury = t
      /\ applySplits(y, s).user = y - c - t
  BY DEF applySplits
<1>2. c \in Int /\ t \in Int  BY <1>1, YieldType
<1> HIDE DEF c, t
<1> QED  BY <1>1, <1>2

\* What an unlock takes out of the open positions, and the yield it earned, are
\* what it splits off, owes, and overwrites.
LEMMA UnlockAccounts ==
  ASSUME IInv, IInv', AccountInv, NEW u \in Users, NEW a \in Anns, Unlock(u, a)
  PROVE  AccountInv'
<1> DEFINE Y(i) == computeYield(positions[u][i].amount, positions[u][i].weeks)
           S(i) == applySplits(Y(i), splits[a].share)
<1>1. PICK i \in Target(u, a) :
        /\ positions' = [positions EXCEPT ![u][i].active = FALSE]
        /\ owed' = [owed EXCEPT ![u][a] = [principal |-> positions[u][i].amount,
                                           yield |-> S(i).user, claimed |-> FALSE]]
        /\ totals' = [totals EXCEPT !.yield = @ + Y(i), !.toCreator = @ + S(i).creator,
                                    !.toTreasury = @ + S(i).treasury,
                                    !.staked = @ - positions[u][i].amount, !.positions = @ - 1]
  BY DEF Unlock
<1> DEFINE q == positions[u][i]
           p == [q EXCEPT !.active = FALSE]
           m == q.amount
           y == Y(i)
           c == S(i).creator
           w == S(i).user
           t == S(i).treasury
<1>2. i \in DOMAIN positions[u] /\ i \in Active(u) /\ positions[u][i].active
  BY DEF Target, Active
<1>3. positions \in [Users -> Seq(Position)]  BY DEF IInv, TypeOK
<1>4. q \in Position /\ m \in Int /\ q.weeks \in Int
  <2>1. q \in Position  BY <1>2, <1>3
  <2> HIDE DEF q
  <2> QED  BY <2>1, PositionType
<1>5. p \in Position /\ p.at = q.at /\ p.amount = q.amount /\ ~p.active
  <2> HIDE DEF q
  <2> QED  BY <1>4 DEF Position
<1>6. /\ \A v \in Users : DOMAIN positions'[v] = DOMAIN positions[v]
      /\ \A v \in Users : \A j \in DOMAIN positions[v] :
           positions'[v][j] = IF v = u /\ j = i THEN p ELSE positions[v][j]
  <2>1. positions' = [positions EXCEPT ![u][i] = p]  BY <1>1
  <2> HIDE DEF p
  <2> QED  BY <1>3, <1>5, <2>1, OneChanged
<1>7. UNCHANGED <<epoch, recent, paid>> /\ lost' = lost + Unclaimed(u, a) /\ TypeOK /\ TypeOK'
  BY DEF Unlock, IInv
<1>8. y \in Int
  <2>1. m * 400 * q.weeks \in Int
    <3>1. \A k, n \in Int : k * n \in Int  OBVIOUS
    <3> HIDE DEF m, q
    <3> QED  BY <1>4, <3>1
  <2>2. \A n \in Int : n \div (10000 * 52) \in Int  OBVIOUS
  <2> QED  BY <2>1, <2>2 DEF computeYield
<1>9. c \in Int /\ w \in Int /\ t \in Int /\ y = c + w + t
  <2>1. splits[a].share \in Shares  BY DEF Unlock, IInv, TypeOK, Split
  <2> HIDE DEF Y
  <2> QED  BY <1>8, <2>1, YieldType, SplitExact
<1>10. /\ totals'.staked = totals.staked - m /\ totals'.positions = totals.positions - 1
       /\ totals'.yield = totals.yield + y /\ totals'.toCreator = totals.toCreator + c
       /\ totals'.toTreasury = totals.toTreasury + t
  <2>1. totals \in Totals  BY <1>7 DEF TypeOK
  <2>2. totals' = [totals EXCEPT !.yield = totals.yield + y, !.toCreator = totals.toCreator + c,
                                 !.toTreasury = totals.toTreasury + t,
                                 !.staked = totals.staked - m, !.positions = totals.positions - 1]
    BY <1>1
  <2> HIDE DEF y, c, t, m
  <2> QED  BY <2>1, <2>2 DEF Totals
<1>11. /\ \A v \in Users, b \in Anns : v # u \/ b # a => owed'[v][b] = owed[v][b]
       /\ Unclaimed(u, a)' = m + w
  <2> DEFINE r == [principal |-> m, yield |-> w, claimed |-> FALSE]
  <2>1. owed' = [owed EXCEPT ![u][a] = r]  BY <1>1
  <2>2. r # None /\ r.principal = m /\ r.yield = w /\ ~r.claimed
    <3> HIDE DEF m, w
    <3>1. m \in Int /\ w \in Int
      BY <1>4, <1>9 DEF m
    <3>2. r \in [principal: Int, yield: Int, claimed: BOOLEAN]
      BY <3>1
    <3>3. r # None
      <4> HIDE DEF r
      <4> QED
        BY <3>2, NoneAssumption
    <3> QED
      BY <3>3
  <2> HIDE DEF r
  <2>3. owed \in [Users -> [Anns -> Owed \cup {None}]]  BY <1>7 DEF TypeOK
  <2>4. owed'[u][a] = r
        /\ \A v \in Users, b \in Anns : v # u \/ b # a => owed'[v][b] = owed[v][b]
    BY <2>1, <2>3
  <2> QED  BY <2>2, <2>4 DEF Unclaimed
<1> HIDE DEF p, m, y, c, w, t
<1>12. /\ \A v \in Users : v # u => positions'[v] = positions[v]
       /\ Amount(u, DOMAIN positions[u])' = Amount(u, DOMAIN positions[u])
       /\ CountKept'
  BY <1>2, <1>5, <1>6, <1>7, AmountsKept DEF AccountInv
<1>13. Active(u)' = Active(u) \ {i} /\ Active(u) \in SUBSET DOMAIN positions[u]
       /\ \A j \in Active(u) \ {i} : positions'[u][j] = positions[u][j]
  BY <1>5, <1>6 DEF Active
<1>14. Amount(u, Active(u))' = Amount(u, Active(u)) + (0 - m)
  <2> DEFINE ps == positions'[u]
             A == Active(u)
  <2>1. \A j \in A \ {i} : ps[j] = positions[u][j]  BY <1>13
  <2> HIDE DEF ps, A
  <2>2. SumFunction([j \in A \ {i} |-> ps[j].amount]) = Amount(u, A) - positions[u][i].amount
    BY <1>2, <1>7, <1>13, <2>1, AmountLess DEF A
  <2>3. Amount(u, Active(u))' = Amount(u, Active(u)) - m
    BY <1>13, <2>2 DEF Amount, ps, A, m
  <2>4. Amount(u, Active(u)) \in Int  BY <1>7, ActiveOf
  <2> QED  BY <1>4, <2>3, <2>4
<1>15. Cardinality(Active(u))' = Cardinality(Active(u)) + (0 - 1)
  <2>1. IsFiniteSet(Active(u)) /\ Cardinality(Active(u)) \in Int  BY <1>7, ActiveOf
  <2>2. Cardinality(Active(u) \ {i}) = Cardinality(Active(u)) - 1
    BY <1>2, <2>1, FS_RemoveElement
  <2> QED  BY <1>13, <2>1, <2>2
<1> DEFINE d == 0 - m
           k == 0 - 1
           o == Unclaimed(u, a)
           e == (m + w) - o
           z == 0
<1>16. o \in Int  BY <1>7, UnclaimedType
<1>17. d \in Int /\ k \in Int /\ e \in Int /\ z \in Int  BY <1>4, <1>9, <1>16
<1>18. TotalsAgree'
  <2>1. totals'.staked = totals.staked + d /\ totals'.positions = totals.positions + k
    BY <1>4, <1>7, <1>10, TotalsFields
  <2>2. Amount(u, Active(u))' = Amount(u, Active(u)) + d
        /\ Cardinality(Active(u))' = Cardinality(Active(u)) + k
    BY <1>14, <1>15
  <2> HIDE DEF d, k
  <2> QED  BY <1>7, <1>12, <1>17, <2>1, <2>2, TotalsStep DEF AccountInv
<1>19. ValueKept'
  <2>1. Amount(u, DOMAIN positions[u])' = Amount(u, DOMAIN positions[u]) + z
    BY <1>7, <1>12, ActiveOf
  <2>2. Unclaimed(u, a)' = Unclaimed(u, a) + e  BY <1>4, <1>9, <1>11, <1>16
  <2>3. Out' = Out + z - e
    <3>1. Out' = (totals.staked - m) + (totals.toCreator + c) + (totals.toTreasury + t) + paid
                   + (lost + o) - (totals.yield + y)
      BY <1>7, <1>10 DEF Out
    <3>2. Out = totals.staked + totals.toCreator + totals.toTreasury + paid + lost
                  - totals.yield
      BY DEF Out
    <3>3. /\ totals.staked \in Int /\ totals.yield \in Int /\ totals.toCreator \in Int
          /\ totals.toTreasury \in Int /\ paid \in Int /\ lost \in Int
      BY <1>7, OutType
    <3>4. m \in Int  BY <1>4
    <3> HIDE DEF o
    <3> QED  BY <1>9, <1>16, <3>1, <3>2, <3>3, <3>4
  <2> HIDE DEF e, z
  <2> QED  BY <1>7, <1>11, <1>12, <1>17, <2>1, <2>2, <2>3, ValueStep DEF AccountInv
<1> QED  BY <1>12, <1>18, <1>19 DEF AccountInv

\* A claim pays what was owed, once.
LEMMA ClaimAccounts ==
  ASSUME IInv, IInv', AccountInv, NEW u \in Users, NEW a \in Anns, ClaimRewards(u, a)
  PROVE  AccountInv'
<1> DEFINE o == owed[u][a].principal + owed[u][a].yield
           e == 0 - o
           z == 0
<1>1. /\ UNCHANGED <<epoch, positions, recent, totals, lost>> /\ TypeOK /\ TypeOK'
      /\ owed[u][a] # None /\ ~owed[u][a].claimed
      /\ owed' = [owed EXCEPT ![u][a].claimed = TRUE]
      /\ paid' = paid + owed[u][a].principal + owed[u][a].yield
  BY DEF ClaimRewards, IInv
<1>2. owed \in [Users -> [Anns -> Owed \cup {None}]] /\ owed[u][a] \in Owed
  BY <1>1 DEF TypeOK
<1>3. owed[u][a].principal \in Int /\ owed[u][a].yield \in Int
  BY <1>2 DEF Owed
<1>4. o \in Int /\ e \in Int /\ z \in Int  BY <1>3
<1>5. \A v \in Users, b \in Anns : v # u \/ b # a => owed'[v][b] = owed[v][b]
  BY <1>1, <1>2
<1>6. owed'[u][a].claimed
  <2>1. owed'[u][a] = [owed[u][a] EXCEPT !.claimed = TRUE]  BY <1>1, <1>2
  <2> QED  BY <1>2, <2>1 DEF Owed
<1>7. Unclaimed(u, a) = o /\ Unclaimed(u, a)' = 0  BY <1>1, <1>6 DEF Unclaimed
<1>8. ValueKept'
  <2>1. Amount(u, DOMAIN positions[u])' = Amount(u, DOMAIN positions[u]) + z
    <3>1. Amount(u, DOMAIN positions[u])' = Amount(u, DOMAIN positions[u])
      BY <1>1 DEF Amount
    <3> QED  BY <1>1, <3>1, ActiveOf
  <2>2. Unclaimed(u, a)' = Unclaimed(u, a) + e
    <3> HIDE DEF o
    <3> QED  BY <1>4, <1>7
  <2>3. Out' = Out + z - e
    <3>1. Out' = totals.staked + totals.toCreator + totals.toTreasury
                   + (paid + owed[u][a].principal + owed[u][a].yield) + lost - totals.yield
      BY <1>1 DEF Out
    <3>2. Out = totals.staked + totals.toCreator + totals.toTreasury + paid + lost
                  - totals.yield
      BY DEF Out
    <3>3. /\ totals.staked \in Int /\ totals.yield \in Int /\ totals.toCreator \in Int
          /\ totals.toTreasury \in Int /\ paid \in Int /\ lost \in Int
      BY <1>1, OutType
    <3> QED  BY <1>3, <3>1, <3>2, <3>3
  <2>4. \A v \in Users : v # u => positions'[v] = positions[v]  BY <1>1
  <2> HIDE DEF e, z
  <2> QED  BY <1>1, <1>4, <1>5, <2>1, <2>2, <2>3, <2>4, ValueStep DEF AccountInv
<1>9. CountKept'  BY <1>1, CountOther DEF AccountInv, CountKept
<1>10. TotalsAgree'  BY <1>1 DEF AccountInv, TotalsAgree, Amount, Active
<1> QED  BY <1>8, <1>9, <1>10 DEF AccountInv

LEMMA StakingAccounts == ASSUME IInv, IInv', AccountInv, Staking PROVE AccountInv'
<1>1. CASE \E u \in Users, a \in Anns :
        \/ \E amount \in Amounts, weeks \in 1..EpochsPerYear : StakeForAnn(u, a, amount, weeks)
        \/ \E amount \in Amounts : StakeRefused(u, a, amount)
  BY <1>1, StakeAccounts, RefusedAccounts
<1>2. CASE \E u \in Users, a \in Anns :
        \/ \E more \in 1..EpochsPerYear : ExtendLock(u, a, more)
        \/ Unlock(u, a)
        \/ ClaimRewards(u, a)
  BY <1>2, ExtendAccounts, UnlockAccounts, ClaimAccounts
<1>3. CASE \E caller \in Identities, wallet \in Wallets, a \in Anns, share \in Shares :
             SetAnnSplits(caller, a, share, wallet)
  <2>1. UNCHANGED <<epoch, positions, owed, recent, totals, paid, lost>>
    BY <1>3 DEF SetAnnSplits
  <2> QED  BY <2>1, SameAccounts
<1> QED  BY <1>1, <1>2, <1>3 DEF Staking

-----------------------------------------------------------------------------
(* The theorems.                                                           *)

LEMMA InitAccounts == Init => AccountInv
<1> SUFFICES ASSUME Init PROVE AccountInv  OBVIOUS
<1>1. TypeOK  BY InitInv DEF IInv
<1>2. ASSUME NEW u \in Users PROVE positions[u] = <<>> /\ DOMAIN positions[u] = {}
  BY DEF Init
<1>3. ASSUME NEW u \in Users, NEW S, S = {} PROVE Amount(u, S) = 0
  <2> DEFINE f == [i \in S |-> positions[u][i].amount]
  <2>1. DOMAIN f = {}  BY <1>3
  <2> HIDE DEF f
  <2>2. SumFunction(f) = 0  BY <2>1, SumNone
  <2> QED  BY <2>2 DEF f, Amount
<1>5. ASSUME NEW u \in Users
      PROVE  Active(u) = {} /\ Today(u) = {} /\ Cardinality(Active(u)) = 0
  BY <1>2, FS_EmptySet DEF Active, Today
<1>6. TotalsAgree
  <2> DEFINE f == [u \in Users |-> Amount(u, Active(u))]
             g == [u \in Users |-> Cardinality(Active(u))]
  <2>1. f \in [Users -> Int] /\ g \in [Users -> Int] /\ \A u \in Users : f[u] = 0 /\ g[u] = 0
    BY <1>3, <1>5
  <2> HIDE DEF f, g
  <2>2. SumFunction(f) = 0 /\ SumFunction(g) = 0  BY <2>1, FiniteAssumption, SumZero
  <2>3. totals.staked = 0 /\ totals.positions = 0  BY DEF Init
  <2> QED  BY <2>2, <2>3 DEF TotalsAgree, f, g
<1>7. CountKept
  <2>1. ASSUME NEW u \in Users PROVE CountOf(u)
    <3>1. recent[u].last = -1 /\ recent[u].staked = 0 /\ epoch = 0  BY DEF Init
    <3>2. Spent(u) = 0 /\ recent[u].last <= epoch  BY <3>1 DEF Spent
    <3>3. Amount(u, Today(u)) = 0  BY <1>3, <1>5
    <3> QED  BY <1>2, <3>2, <3>3, LimitsAssumption DEF CountOf
  <2> QED  BY <2>1 DEF CountKept
<1>8. ValueKept
  <2> DEFINE f == [u \in Users |-> Amount(u, DOMAIN positions[u])]
             D == Users \X Anns
             g == [x \in D |-> Unclaimed(x[1], x[2])]
  <2>1. f \in [Users -> Int] /\ \A u \in Users : f[u] = 0  BY <1>2, <1>3
  <2>2. g \in [D -> Int] /\ \A x \in D : g[x] = 0
    <3>1. \A u \in Users, a \in Anns : Unclaimed(u, a) = 0  BY DEF Init, Unclaimed
    <3> QED  BY <3>1
  <2>3. IsFiniteSet(D)  BY FiniteAssumption, FS_Product
  <2>4. ValueKept <=> SumFunction(f) + totals.yield
          = totals.staked + totals.toCreator + totals.toTreasury + paid + lost + SumFunction(g)
    BY DEF ValueKept
  <2> HIDE DEF f, g, D
  <2>5. SumFunction(f) = 0 /\ SumFunction(g) = 0  BY <2>1, <2>2, <2>3, FiniteAssumption, SumZero
  <2>6. totals.staked = 0 /\ totals.yield = 0 /\ totals.toCreator = 0 /\ totals.toTreasury = 0
        /\ paid = 0 /\ lost = 0
    BY DEF Init
  <2> QED  BY <2>4, <2>5, <2>6
<1> QED  BY <1>6, <1>7, <1>8 DEF AccountInv

LEMMA NextAccounts == IInv /\ IInv' /\ AccountInv /\ [Next]_vars => AccountInv'
<1> SUFFICES ASSUME IInv, IInv', AccountInv, [Next]_vars PROVE AccountInv'  OBVIOUS
<1>1. CASE Staking  BY <1>1, StakingAccounts
<1>2. CASE AdvanceEpochs  BY <1>2, AdvanceAccounts
<1>3. CASE Governance
  <2>1. UNCHANGED <<epoch, staking>>
    BY <1>3 DEF Governance, InitGovernance, SubmitTreasuryTransfer, ApproveTreasuryTransfer,
                ExecuteTreasuryTransfer, SubmitSignerChange, ApproveSignerChange,
                DropExpiredChange, ExecuteSignerChange, TogglePause
  <2> QED  BY <2>1, SameAccounts DEF staking
<1>4. CASE UNCHANGED vars  BY <1>4, SameAccounts DEF vars, staking
<1> QED  BY <1>1, <1>2, <1>3, <1>4 DEF Next

LEMMA AccountsInvariant == Spec => []AccountInv
<1>1. Spec => []IInv  BY Invariance
<1> QED  BY <1>1, InitAccounts, NextAccounts, PTL DEF Spec

\* The totals the pool reports are those of the positions that are open, however
\* many users stake, extend and unlock.
THEOREM TotalsAreOpenPositions == Spec => []TotalsAgree
BY AccountsInvariant, PTL DEF AccountInv

\* No user stakes more than the cap in an epoch, whichever calls are refused and
\* however they fall between epochs.
THEOREM CapPerEpoch == Spec => []EpochCap
<1>1. AccountInv => EpochCap  BY DEF AccountInv, CountKept, CountOf, EpochCap
<1> QED  BY <1>1, AccountsInvariant, PTL

\* All that was staked and earned is locked, owed, split off, paid, or was
\* overwritten by a later unlock: nothing appears, and nothing is paid twice.
THEOREM NoValueAppears == Spec => []ValueKept
BY AccountsInvariant, PTL DEF AccountInv

=============================================================================
