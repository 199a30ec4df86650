-------------------------- MODULE AigarthPoolProofs --------------------------
(***************************************************************************)
(* Theorems about the pool, for any users, signers, changes and limits:    *)
(* the governance can always act, acts only with a threshold of the        *)
(* signers of the moment behind it, keeps their number near the cap, and   *)
(* no stake leaves before the term its yield is computed from.             *)
(*                                                                         *)
(* A change is checked when it is submitted and applied when it executes,  *)
(* so the invariant says that what was checked is still true of the        *)
(* signers there are: nothing else changes them while it is pending.       *)
(***************************************************************************)
EXTENDS AigarthPool, FiniteSetTheorems, SequenceTheorems, TLAPS

-----------------------------------------------------------------------------
(* The inductive invariant.                                                *)

Counted(op) == op.count = Cardinality(op.approvals)

ChangeFits ==
  change # None => /\ gov.initialized
                   /\ Allowed(change.what)
                   /\ Counted(change.op)
                   /\ change.op.approvals \subseteq gov.signers

TransferCounted ==
  transfer # None => /\ gov.initialized
                     /\ Counted(transfer.op)
                     /\ transfer.rotated \/ transfer.op.approvals \subseteq gov.signers

\* A lock ends no earlier than its weeks after it was opened.
LocksHeld ==
  \A u \in Users : \A i \in DOMAIN positions[u] :
    positions[u][i].until >= positions[u][i].at + positions[u][i].weeks

IInv == TypeOK /\ ChangeFits /\ TransferCounted /\ ThresholdReachable /\ SignerCap /\ LocksHeld

-----------------------------------------------------------------------------
(* Counting.                                                               *)

\* A set of identities is finite, and its size a number.
LEMMA IdentitiesFinite ==
  ASSUME NEW S \in SUBSET Identities
  PROVE  IsFiniteSet(S) /\ Cardinality(S) \in Nat
BY FS_Subset, FS_CardinalityType, ChangesAssumption

\* A list removes no more identities than it has entries.
LEMMA RemovedBound ==
  ASSUME NEW c \in Changes
  PROVE  /\ Removed(c) \subseteq Identities
         /\ Len(c.remove) \in Nat
         /\ Cardinality(Removed(c)) <= Len(c.remove)
<1>1. c.remove \in Seq(Identities)  BY ChangesAssumption
<1>2. DOMAIN c.remove = 1..Len(c.remove) /\ Len(c.remove) \in Nat  BY <1>1
<1>3. Removed(c) \subseteq Identities  BY <1>1, <1>2 DEF Removed
<1>4. c.remove \in Surjection(1..Len(c.remove), Removed(c))
  <2>1. c.remove = [i \in 1..Len(c.remove) |-> c.remove[i]]  BY <1>1, <1>2
  <2>2. c.remove \in [1..Len(c.remove) -> Removed(c)]  BY <2>1, <1>2 DEF Removed
  <2> QED  BY <2>2, <1>2 DEF Surjection, Removed
<1>5. IsFiniteSet(1..Len(c.remove)) /\ Cardinality(1..Len(c.remove)) = Len(c.remove)
  BY <1>2, FS_Interval
<1>6. Cardinality(Removed(c)) <= Cardinality(1..Len(c.remove))
  BY <1>4, <1>5, FS_Surjection
<1> QED  BY <1>2, <1>3, <1>5, <1>6

\* An allowed change leaves as many signers as the sizes say: whom it adds is
\* not a signer already, unless it removes them first.
LEMMA ChangedSize ==
  ASSUME TypeOK, NEW c \in Changes, Allowed(c)
  PROVE  /\ Changed(c) \in SUBSET Identities
         /\ Cardinality(Changed(c)) =
              Cardinality(gov.signers) - Cardinality(Removed(c)) + Cardinality(c.add)
<1>1. gov.signers \in SUBSET Identities /\ c.add \in SUBSET Identities
  BY ChangesAssumption DEF TypeOK, Gov
<1>2. Removed(c) \subseteq gov.signers /\ c.add \cap gov.signers \subseteq Removed(c)
  BY DEF Allowed
<1>3. IsFiniteSet(gov.signers) /\ IsFiniteSet(c.add) /\ Cardinality(gov.signers) \in Nat
      /\ Cardinality(c.add) \in Nat
  BY <1>1, IdentitiesFinite
<1>4. gov.signers \cap Removed(c) = Removed(c)  BY <1>2
<1>5. /\ IsFiniteSet(gov.signers \ Removed(c))
      /\ Cardinality(gov.signers \ Removed(c)) = Cardinality(gov.signers) - Cardinality(Removed(c))
  BY <1>3, <1>4, FS_Difference
<1>6. (gov.signers \ Removed(c)) \cap c.add = {}  BY <1>2
<1>7. Cardinality(Changed(c)) =
        Cardinality(gov.signers \ Removed(c)) + Cardinality(c.add) - Cardinality({})
  BY <1>3, <1>5, <1>6, FS_Union DEF Changed
<1>8. Cardinality({}) = 0  BY FS_EmptySet
<1>9. Cardinality(Removed(c)) \in Nat  BY <1>1, <1>2, IdentitiesFinite
<1>10. Changed(c) \in SUBSET Identities  BY <1>1 DEF Changed
<1> QED  BY <1>3, <1>5, <1>7, <1>8, <1>9, <1>10

\* Fewer repetitions than that: at least one signer remains, no more than the
\* cap and the repetitions allow, and the new threshold is one they can reach.
LEMMA ChangedFits ==
  ASSUME TypeOK, ThresholdReachable, SignerCap, gov.initialized,
         NEW c \in Changes, Allowed(c)
  PROVE  /\ NewThreshold(c) \in 1..Cardinality(Changed(c))
         /\ Cardinality(Changed(c)) <= MaxSigners + (Len(c.remove) - Cardinality(Removed(c)))
         /\ Len(c.remove) - Cardinality(Removed(c)) \in Nat
<1> DEFINE n == Cardinality(gov.signers)
           r == Cardinality(Removed(c))
           k == Cardinality(c.add)
           m == Cardinality(Changed(c))
<1>1. c.add \in SUBSET Identities /\ c.threshold \in Int \cup {None}
  BY ChangesAssumption
<1>2. n \in Nat /\ k \in Nat  BY <1>1, IdentitiesFinite DEF TypeOK, Gov
<1>3. r \in Nat /\ Len(c.remove) \in Nat /\ r <= Len(c.remove)
  BY RemovedBound, IdentitiesFinite
<1>4. m = n - r + k  BY ChangedSize
<1>5. n - Len(c.remove) + k \in 1..MaxSigners  BY DEF Allowed, ResultingCount
<1>6. c.threshold # None => c.threshold \in 1..(n - Len(c.remove) + k)
  BY DEF Allowed, ResultingCount
<1>7. MaxSigners \in Nat  BY LimitsAssumption
<1>8. gov.threshold \in 1..n  BY DEF ThresholdReachable
<1>9. m \in Nat /\ m >= 1 /\ m <= MaxSigners + (Len(c.remove) - r)
  <2> HIDE DEF n, r, k, m
  <2> QED  BY <1>2, <1>3, <1>4, <1>5, <1>7
<1>10. NewThreshold(c) \in 1..m
  <2>1. CASE c.threshold # None
    <3>1. NewThreshold(c) = c.threshold  BY <2>1 DEF NewThreshold
    <3>2. NewThreshold(c) \in 1..(n - Len(c.remove) + k)  BY <3>1, <2>1, <1>6
    <3>3. n - Len(c.remove) + k \in Int /\ n - Len(c.remove) + k <= m
      <4> HIDE DEF n, r, k, m
      <4> QED  BY <1>2, <1>3, <1>4
    <3> HIDE DEF n, r, k, m
    <3> QED  BY <3>2, <3>3, <1>9
  <2>2. CASE c.threshold = None
    <3>1. NewThreshold(c) = IF gov.threshold > m THEN m ELSE gov.threshold
      BY <2>2 DEF NewThreshold
    <3> HIDE DEF n, r, k, m
    <3> QED  BY <3>1, <1>8, <1>9
  <2> QED  BY <2>1, <2>2
<1>11. Len(c.remove) - r \in Nat
  <2> HIDE DEF n, r, k, m
  <2> QED  BY <1>3
<1> QED  BY <1>9, <1>10, <1>11

\* One more approval keeps the count, whoever approves.
LEMMA ApprovedCounted ==
  ASSUME TypeOK, NEW op \in Pending, NEW caller, CanApprove(caller, op), Counted(op)
  PROVE  /\ Approved(caller, op) \in Pending
         /\ Counted(Approved(caller, op))
         /\ Approved(caller, op).approvals = op.approvals \cup {caller}
         /\ caller \in gov.signers
<1>1. op.approvals \in SUBSET Identities /\ op.count \in Nat  BY DEF Pending
<1>2. caller \in gov.signers /\ caller \notin op.approvals  BY DEF CanApprove
<1>3. caller \in Identities  BY <1>2 DEF TypeOK, Gov
<1>4. Cardinality(op.approvals \cup {caller}) = Cardinality(op.approvals) + 1
  BY <1>1, <1>2, IdentitiesFinite, FS_AddElement
<1>5. Approved(caller, op) = [at |-> op.at, approvals |-> op.approvals \cup {caller},
                              count |-> op.count + 1]
  BY DEF Approved
<1>6. op.at \in Nat /\ op.approvals \cup {caller} \in SUBSET Identities /\ op.count + 1 \in Nat
  BY <1>1, <1>3 DEF Pending
<1>7. Approved(caller, op) \in Pending  BY <1>5, <1>6 DEF Pending
<1> QED  BY <1>2, <1>4, <1>5, <1>7 DEF Counted

LEMMA FreshCounted == ASSUME TypeOK PROVE Fresh \in Pending /\ Counted(Fresh) /\ Fresh.approvals = {}
BY FS_EmptySet DEF Fresh, Pending, Counted, TypeOK

-----------------------------------------------------------------------------
(* Staking leaves the governance alone and keeps the locks.                *)

LEMMA GovernanceKept ==
  ASSUME IInv, UNCHANGED governing
  PROVE  ChangeFits' /\ TransferCounted' /\ ThresholdReachable' /\ SignerCap'
BY DEF IInv, governing, ChangeFits, TransferCounted, ThresholdReachable, SignerCap,
       Allowed, Removed, ResultingCount, Counted

\* Changing one position of one user, at an index it has or has not.
LEMMA OneChanged ==
  ASSUME NEW ps \in [Users -> Seq(Position)], NEW u \in Users, NEW i, NEW p,
         i \in DOMAIN ps[u] => p \in Position
  PROVE  /\ [ps EXCEPT ![u][i] = p] \in [Users -> Seq(Position)]
         /\ \A v \in Users : DOMAIN [ps EXCEPT ![u][i] = p][v] = DOMAIN ps[v]
         /\ \A v \in Users : \A j \in DOMAIN ps[v] :
              [ps EXCEPT ![u][i] = p][v][j] = IF v = u /\ j = i THEN p ELSE ps[v][j]
<1>1. ps[u] \in Seq(Position)  OBVIOUS
<1> DEFINE q == [ps[u] EXCEPT ![i] = p]
<1>2. q \in Seq(Position)
  <2>1. CASE i \in DOMAIN ps[u]  BY <1>1, <2>1, ExceptSeq
  <2>2. CASE i \notin DOMAIN ps[u]
    <3>1. q = ps[u]  BY <1>1, <2>2
    <3> QED  BY <1>1, <3>1
  <2> QED  BY <2>1, <2>2
<1>3. DOMAIN q = DOMAIN ps[u] /\ \A j \in DOMAIN ps[u] : q[j] = IF j = i THEN p ELSE ps[u][j]
  OBVIOUS
<1>4. [ps EXCEPT ![u] = q] \in [Users -> Seq(Position)]
      /\ \A v \in Users : [ps EXCEPT ![u] = q][v] = IF v = u THEN q ELSE ps[v]
  <2> HIDE DEF q
  <2> QED  BY <1>2
<1> QED
  <2> HIDE DEF q
  <2>1. [ps EXCEPT ![u][i] = p] = [ps EXCEPT ![u] = q]  BY DEF q
  <2> QED  BY <2>1, <1>3, <1>4

\* A position, with another end, and closed.
LEMMA PositionType ==
  ASSUME NEW q \in Position
  PROVE  q.until \in Int /\ q.at \in Nat /\ q.weeks \in Nat /\ q.amount \in Nat
<1>1. q.amount \in Amounts /\ q.until \in Int /\ q.at \in Nat /\ q.weeks \in Nat  BY DEF Position
<1> QED  BY <1>1, AmountsAssumption

LEMMA ExtendedType ==
  ASSUME NEW q \in Position, NEW x \in Int
  PROVE  /\ [q EXCEPT !.until = x] \in Position
         /\ [q EXCEPT !.until = x].until = x
         /\ [q EXCEPT !.until = x].at = q.at /\ [q EXCEPT !.until = x].weeks = q.weeks
         /\ [q EXCEPT !.until = x].active = q.active
BY DEF Position

LEMMA ClosedType ==
  ASSUME NEW q \in Position
  PROVE  /\ [q EXCEPT !.active = FALSE] \in Position
         /\ [q EXCEPT !.active = FALSE].until = q.until
         /\ [q EXCEPT !.active = FALSE].at = q.at /\ [q EXCEPT !.active = FALSE].weeks = q.weeks
BY DEF Position

\* New values in the totals.
LEMMA TotalsType ==
  ASSUME TypeOK, NEW a \in Int, NEW b \in Int, NEW c \in Int, NEW d \in Int, NEW e \in Int
  PROVE  /\ [totals EXCEPT !.staked = a, !.positions = b] \in Totals
         /\ [totals EXCEPT !.yield = c, !.toCreator = d, !.toTreasury = e,
                           !.staked = a, !.positions = b] \in Totals
BY DEF TypeOK, Totals

LEMMA TotalsFields ==
  TypeOK => /\ totals.staked \in Int /\ totals.positions \in Int /\ totals.yield \in Int
            /\ totals.toCreator \in Int /\ totals.toTreasury \in Int
BY DEF TypeOK, Totals

LEMMA YieldType ==
  ASSUME NEW y \in Int, NEW s \in Shares
  PROVE  /\ applySplits(y, s).creator \in Int /\ applySplits(y, s).user \in Int
         /\ applySplits(y, s).treasury \in Int
<1>1. s.creator \in Int /\ s.user \in Int  BY SharesAssumption
<1>2. (y * s.creator) \in Int /\ (y * (10000 - s.creator - s.user)) \in Int
  <2>1. \A m, n \in Int : m * n \in Int  OBVIOUS
  <2>2. 10000 - s.creator - s.user \in Int  BY <1>1
  <2> QED  BY <1>1, <2>1, <2>2
<1> DEFINE a == y * s.creator
           b == y * (10000 - s.creator - s.user)
<1>3. a \div 10000 \in Int /\ b \div 10000 \in Int
  <2> HIDE DEF a, b
  <2> SUFFICES ASSUME a \in Int, b \in Int PROVE a \div 10000 \in Int /\ b \div 10000 \in Int
    BY <1>2 DEF a, b
  <2> QED  OBVIOUS
<1> QED  BY <1>3 DEF applySplits

-----------------------------------------------------------------------------
(* One lemma for each kind of step.                                        *)

LEMMA InitInv == Init => IInv
<1> SUFFICES ASSUME Init PROVE IInv  OBVIOUS
<1>1. gov \in Gov  BY DEF Init, Gov
<1>2. totals \in Totals  BY DEF Init, Totals
<1>3. recent \in [Users -> [staked: Nat, last: Int]]  BY DEF Init
<1>4. positions \in [Users -> Seq(Position)] /\ \A u \in Users : DOMAIN positions[u] = {}
  BY DEF Init
<1>7. owed \in [Users -> [Anns -> Owed \cup {None}]]
  <2> DEFINE none == [a \in Anns |-> None]
  <2>1. none \in [Anns -> Owed \cup {None}]  OBVIOUS
  <2>2. owed = [u \in Users |-> none]  BY DEF Init
  <2> HIDE DEF none
  <2> QED  BY <2>1, <2>2
<1>8. splits \in [Anns -> Split \cup {None}]  BY DEF Init
<1>9. epoch \in Nat /\ paid \in Int /\ lost \in Int /\ repeats \in Nat
  <2>1. epoch = 0 /\ paid = 0 /\ lost = 0 /\ repeats = 0  BY DEF Init
  <2> QED  BY <2>1
<1>11. paused \in BOOLEAN
  <2>1. paused = FALSE  BY DEF Init
  <2> QED  BY <2>1
<1>10. transfer \in Transfer \cup {None} /\ change \in Change \cup {None}  BY DEF Init
<1>5. TypeOK  BY <1>1, <1>2, <1>3, <1>4, <1>7, <1>8, <1>9, <1>10, <1>11 DEF TypeOK
<1>6. SignerCap  BY FS_EmptySet, LimitsAssumption DEF Init, SignerCap
<1> QED
  BY <1>4, <1>5, <1>6 DEF Init, IInv, ChangeFits, TransferCounted, ThresholdReachable, LocksHeld

\* What a staking step does to the positions: at most one of them changes or is
\* new, and it keeps its term.
LEMMA StakeKept ==
  ASSUME IInv, NEW u \in Users, NEW a \in Anns, NEW amount \in Amounts,
         NEW weeks \in 1..EpochsPerYear, StakeForAnn(u, a, amount, weeks)
  PROVE  /\ TypeOK' /\ LocksHeld'
         /\ \A v \in Users : \A j \in DOMAIN positions[v] :
              positions'[v][j].active = positions[v][j].active
<1> DEFINE p == [ann |-> a, amount |-> amount, weeks |-> weeks, until |-> epoch + weeks,
                 active |-> TRUE, at |-> epoch]
<1>1. epoch \in Nat /\ weeks \in Nat /\ EpochsPerYear \in Nat /\ amount \in Nat
      /\ epoch + weeks \in Nat
  BY LimitsAssumption, AmountsAssumption DEF IInv, TypeOK
<1>2. p \in Position  BY <1>1 DEF Position
<1>3. positions \in [Users -> Seq(Position)]  BY DEF IInv, TypeOK
<1>4. positions' = [positions EXCEPT ![u] = Append(positions[u], p)]  BY DEF StakeForAnn
<1>5. /\ Append(positions[u], p) \in Seq(Position)
      /\ Len(Append(positions[u], p)) = Len(positions[u]) + 1
      /\ \A i \in 1..Len(positions[u]) : Append(positions[u], p)[i] = positions[u][i]
      /\ Append(positions[u], p)[Len(positions[u]) + 1] = p
  <2> HIDE DEF p
  <2> QED  BY <1>2, <1>3, AppendProperties
<1>6. positions' \in [Users -> Seq(Position)]  BY <1>3, <1>4, <1>5
<1>7. LocksHeld'
  <2>1. SUFFICES ASSUME NEW v \in Users, NEW i \in DOMAIN positions'[v]
                 PROVE  positions'[v][i].until >= positions'[v][i].at + positions'[v][i].weeks
    BY DEF LocksHeld
  <2>2. CASE v # u
    <3>1. positions'[v] = positions[v]  BY <1>3, <1>4, <2>2
    <3> QED  BY <3>1 DEF IInv, LocksHeld
  <2>3. CASE v = u
    <3>1. positions'[v] = Append(positions[u], p)  BY <1>3, <1>4, <2>3
    <3>2. positions[u] \in Seq(Position)  BY <1>3
    <3>3. i \in 1..(Len(positions[u]) + 1) /\ Len(positions[u]) \in Nat
      BY <3>1, <3>2, <1>5
    <3>4. CASE i = Len(positions[u]) + 1
      <4>1. positions'[v][i] = p  BY <3>1, <3>4, <1>5
      <4> QED  BY <4>1, <1>1
    <3>5. CASE i \in 1..Len(positions[u])
      <4>1. positions'[v][i] = positions[u][i]  BY <3>1, <3>5, <1>5
      <4>2. i \in DOMAIN positions[u]  BY <3>2, <3>5
      <4> QED  BY <4>1, <4>2 DEF IInv, LocksHeld
    <3> QED  BY <3>3, <3>4, <3>5
  <2> QED  BY <2>2, <2>3
<1>8. Spent(u) \in Nat
  <2>1. recent[u].staked \in Nat  BY DEF IInv, TypeOK
  <2> QED  BY <2>1 DEF Spent
<1>9. recent' \in [Users -> [staked: Nat, last: Int]]
  <2>1. recent[u].last \in Int  BY DEF IInv, TypeOK
  <2>2. [staked |-> Spent(u) + amount,
         last |-> IF epoch > recent[u].last THEN epoch ELSE recent[u].last]
          \in [staked: Nat, last: Int]
    BY <1>1, <1>8, <2>1
  <2>3. recent' = [recent EXCEPT ![u] =
                     [staked |-> Spent(u) + amount,
                      last |-> IF epoch > recent[u].last THEN epoch ELSE recent[u].last]]
    BY DEF StakeForAnn
  <2> QED  BY <2>2, <2>3 DEF IInv, TypeOK
<1>10. totals' \in Totals
  <2>1. TypeOK  BY DEF IInv
  <2>2. totals.staked + amount \in Int /\ totals.positions + 1 \in Int
    BY <1>1, <2>1, TotalsFields
  <2>3. totals' = [totals EXCEPT !.staked = totals.staked + amount,
                                 !.positions = totals.positions + 1]
    BY DEF StakeForAnn
  <2> QED  BY <2>1, <2>2, <2>3, TotalsType
<1>11. TypeOK'
  BY <1>6, <1>9, <1>10 DEF IInv, TypeOK, StakeForAnn, governing
<1>12. ASSUME NEW v \in Users, NEW j \in DOMAIN positions[v]
       PROVE  positions'[v][j] = positions[v][j]
  <2>1. CASE v # u  BY <1>3, <1>4, <2>1
  <2>2. CASE v = u
    <3>1. positions'[v] = Append(positions[u], p)  BY <1>3, <1>4, <2>2
    <3>2. j \in 1..Len(positions[u])  BY <1>3, <2>2
    <3> QED  BY <3>1, <3>2, <2>2, <1>5
  <2> QED  BY <2>1, <2>2
<1> QED  BY <1>7, <1>11, <1>12

LEMMA RefusedKept ==
  ASSUME IInv, NEW u \in Users, NEW a \in Anns, NEW amount \in Amounts,
         StakeRefused(u, a, amount)
  PROVE  TypeOK' /\ LocksHeld'
<1>1. recent' \in [Users -> [staked: Nat, last: Int]]
  <2>1. [staked |-> 0, last |-> epoch] \in [staked: Nat, last: Int]  BY DEF IInv, TypeOK
  <2> QED  BY <2>1 DEF IInv, TypeOK, StakeRefused
<1> QED  BY <1>1 DEF IInv, TypeOK, LocksHeld, StakeRefused, governing

LEMMA ExtendKept ==
  ASSUME IInv, NEW u \in Users, NEW a \in Anns, NEW more \in 1..EpochsPerYear,
         ExtendLock(u, a, more)
  PROVE  /\ TypeOK' /\ LocksHeld'
         /\ \A v \in Users : \A j \in DOMAIN positions[v] :
              positions'[v][j].active = positions[v][j].active
<1>1. PICK i \in Target(u, a) :
        positions' = [positions EXCEPT ![u][i].until =
                        epoch + ((positions[u][i].until - epoch) + more)]
  BY DEF ExtendLock
<1> DEFINE q == positions[u][i]
           p == [q EXCEPT !.until = epoch + ((q.until - epoch) + more)]
<1>2. i \in DOMAIN positions[u]  BY DEF Target, Active
<1>3. positions \in [Users -> Seq(Position)] /\ epoch \in Nat /\ more \in Int
  BY LimitsAssumption DEF IInv, TypeOK
<1>4. q \in Position  BY <1>2, <1>3
<1>5. p \in Position /\ p.until = epoch + ((q.until - epoch) + more) /\ p.at = q.at
      /\ p.weeks = q.weeks /\ p.active = q.active
  <2>1. q.until \in Int  BY <1>4, PositionType
  <2>2. epoch + ((q.until - epoch) + more) \in Int  BY <1>3, <2>1
  <2> HIDE DEF q
  <2> QED  BY <1>4, <2>2, ExtendedType
<1>6. positions' = [positions EXCEPT ![u][i] = p]  BY <1>1
<1>7. /\ positions' \in [Users -> Seq(Position)]
      /\ \A v \in Users : DOMAIN positions'[v] = DOMAIN positions[v]
      /\ \A v \in Users : \A j \in DOMAIN positions[v] :
           positions'[v][j] = IF v = u /\ j = i THEN p ELSE positions[v][j]
  <2> HIDE DEF p
  <2> QED  BY <1>3, <1>5, <1>6, OneChanged
<1>8. p.until >= p.at + p.weeks
  <2>1. q.until >= q.at + q.weeks  BY <1>2 DEF IInv, LocksHeld
  <2>2. q.until \in Int /\ q.at \in Int /\ q.weeks \in Int /\ more \in Int /\ more >= 1
    BY <1>3, <1>4, PositionType
  <2> QED  BY <1>3, <1>5, <2>1, <2>2
<1>9. LocksHeld'
  <2> HIDE DEF p
  <2> QED  BY <1>7, <1>8 DEF IInv, LocksHeld
<1>10. TypeOK'
  BY <1>7 DEF IInv, TypeOK, ExtendLock, governing
<1>11. \A v \in Users : \A j \in DOMAIN positions[v] :
         positions'[v][j].active = positions[v][j].active
  <2> HIDE DEF p
  <2> QED  BY <1>5, <1>7
<1> QED  BY <1>9, <1>10, <1>11

LEMMA UnlockKept ==
  ASSUME IInv, NEW u \in Users, NEW a \in Anns, Unlock(u, a)
  PROVE  /\ TypeOK' /\ LocksHeld'
         /\ \A v \in Users : \A j \in DOMAIN positions[v] :
              positions[v][j].active /\ ~positions'[v][j].active =>
                epoch >= positions[v][j].at + positions[v][j].weeks
<1> DEFINE Y(i) == computeYield(positions[u][i].amount, positions[u][i].weeks)
           S(i) == applySplits(Y(i), splits[a].share)
<1>1. PICK i \in Target(u, a) :
        /\ positions[u][i].until <= epoch
        /\ positions' = [positions EXCEPT ![u][i].active = FALSE]
        /\ owed' = [owed EXCEPT ![u][a] = [principal |-> positions[u][i].amount,
                                           yield |-> S(i).user, claimed |-> FALSE]]
        /\ totals' = [totals EXCEPT !.yield = @ + Y(i), !.toCreator = @ + S(i).creator,
                                    !.toTreasury = @ + S(i).treasury,
                                    !.staked = @ - positions[u][i].amount, !.positions = @ - 1]
  BY DEF Unlock
<1> DEFINE q == positions[u][i]
           p == [q EXCEPT !.active = FALSE]
<1>2. i \in DOMAIN positions[u]  BY DEF Target, Active
<1>3. positions \in [Users -> Seq(Position)] /\ epoch \in Nat  BY DEF IInv, TypeOK
<1>4. q \in Position  BY <1>2, <1>3
<1>5. p \in Position /\ p.until = q.until /\ p.at = q.at /\ p.weeks = q.weeks
  <2> HIDE DEF q
  <2> QED  BY <1>4, ClosedType
<1>6. positions' = [positions EXCEPT ![u][i] = p]  BY <1>1
<1>7. /\ positions' \in [Users -> Seq(Position)]
      /\ \A v \in Users : DOMAIN positions'[v] = DOMAIN positions[v]
      /\ \A v \in Users : \A j \in DOMAIN positions[v] :
           positions'[v][j] = IF v = u /\ j = i THEN p ELSE positions[v][j]
  <2> HIDE DEF p
  <2> QED  BY <1>3, <1>5, <1>6, OneChanged
<1>8. q.until >= q.at + q.weeks  BY <1>2 DEF IInv, LocksHeld
<1>9. q.until \in Int /\ q.at \in Int /\ q.weeks \in Int /\ q.amount \in Nat
  BY <1>4, PositionType
<1>10. LocksHeld'
  <2> HIDE DEF p
  <2> QED  BY <1>5, <1>7, <1>8 DEF IInv, LocksHeld
<1>11. \A v \in Users : \A j \in DOMAIN positions[v] :
         positions[v][j].active /\ ~positions'[v][j].active =>
           epoch >= positions[v][j].at + positions[v][j].weeks
  <2>1. epoch >= q.at + q.weeks  BY <1>1, <1>3, <1>8, <1>9
  <2>2. SUFFICES ASSUME NEW v \in Users, NEW j \in DOMAIN positions[v],
                        positions[v][j].active /\ ~positions'[v][j].active
                 PROVE  v = u /\ j = i
    BY <2>1
  <2>3. v # u \/ j # i => positions'[v][j] = positions[v][j]
    <3> HIDE DEF p
    <3> QED  BY <1>7
  <2> QED  BY <2>2, <2>3, Zenon
<1>12. Y(i) \in Int
  <2>1. q.amount * 400 * q.weeks \in Int
    <3>1. \A m, n \in Int : m * n \in Int  OBVIOUS
    <3> QED  BY <1>9, <3>1
  <2>2. \A n \in Int : n \div (10000 * 52) \in Int  OBVIOUS
  <2> QED  BY <2>1, <2>2 DEF computeYield
<1>13. splits[a].share \in Shares
  BY DEF Unlock, IInv, TypeOK, Split
<1>14. S(i).creator \in Int /\ S(i).user \in Int /\ S(i).treasury \in Int
  <2> HIDE DEF Y
  <2> QED  BY <1>12, <1>13, YieldType
<1>15. owed' \in [Users -> [Anns -> Owed \cup {None}]]
  <2>1. [principal |-> q.amount, yield |-> S(i).user, claimed |-> FALSE] \in Owed
    <3> HIDE DEF S, q
    <3> QED  BY <1>9, <1>14 DEF Owed
  <2> HIDE DEF S
  <2> QED  BY <1>1, <2>1 DEF IInv, TypeOK
<1>16. totals' \in Totals
  <2>1. TypeOK  BY DEF IInv
  <2>2. totals' = [totals EXCEPT !.yield = totals.yield + Y(i),
                                 !.toCreator = totals.toCreator + S(i).creator,
                                 !.toTreasury = totals.toTreasury + S(i).treasury,
                                 !.staked = totals.staked - q.amount,
                                 !.positions = totals.positions - 1]
    BY <1>1
  <2>3. totals.yield + Y(i) \in Int /\ totals.toCreator + S(i).creator \in Int
        /\ totals.toTreasury + S(i).treasury \in Int /\ totals.staked - q.amount \in Int
        /\ totals.positions - 1 \in Int
    <3> HIDE DEF S, Y, q
    <3> QED  BY <1>9, <1>12, <1>14, <2>1, TotalsFields
  <2> HIDE DEF S, Y, q
  <2> QED  BY <2>1, <2>2, <2>3, TotalsType
<1>17. Unclaimed(u, a) \in Int
  <2>1. owed[u][a] \in Owed \cup {None}  BY DEF IInv, TypeOK
  <2> QED  BY <2>1 DEF Owed, Unclaimed
<1>18. TypeOK'
  BY <1>7, <1>15, <1>16, <1>17 DEF IInv, TypeOK, Unlock, governing
<1> QED  BY <1>10, <1>11, <1>18

LEMMA ClaimKept ==
  ASSUME IInv, NEW u \in Users, NEW a \in Anns, ClaimRewards(u, a)
  PROVE  TypeOK' /\ LocksHeld'
<1>1. owed[u][a] \in Owed
  BY DEF ClaimRewards, IInv, TypeOK
<1>2. [owed[u][a] EXCEPT !.claimed = TRUE] \in Owed  BY <1>1 DEF Owed
<1>3. owed' \in [Users -> [Anns -> Owed \cup {None}]]
  <2>1. owed' = [owed EXCEPT ![u] = [owed[u] EXCEPT ![a] = [owed[u][a] EXCEPT !.claimed = TRUE]]]
    BY DEF ClaimRewards
  <2>2. [owed[u] EXCEPT ![a] = [owed[u][a] EXCEPT !.claimed = TRUE]] \in [Anns -> Owed \cup {None}]
    BY <1>2 DEF IInv, TypeOK
  <2> QED  BY <2>1, <2>2 DEF IInv, TypeOK
<1>4. paid' \in Int  BY <1>1 DEF ClaimRewards, IInv, TypeOK, Owed
<1> QED  BY <1>3, <1>4 DEF ClaimRewards, IInv, TypeOK, LocksHeld, governing

LEMMA SplitsKept ==
  ASSUME IInv, NEW caller \in Identities, NEW wallet \in Wallets, NEW a \in Anns,
         NEW share \in Shares, SetAnnSplits(caller, a, share, wallet)
  PROVE  TypeOK' /\ LocksHeld'
<1>1. [creator |-> wallet, share |-> share] \in Split  BY ChangesAssumption DEF Split
<1>2. splits' \in [Anns -> Split \cup {None}]  BY <1>1 DEF SetAnnSplits, IInv, TypeOK
<1> QED  BY <1>2 DEF SetAnnSplits, IInv, TypeOK, LocksHeld, governing

LEMMA StakingGoverning == Staking => UNCHANGED governing
<1>1. \A u, a, n, w : StakeForAnn(u, a, n, w) => UNCHANGED governing  BY DEF StakeForAnn
<1>2. \A u, a, n : StakeRefused(u, a, n) => UNCHANGED governing  BY DEF StakeRefused
<1>3. \A u, a, n : ExtendLock(u, a, n) => UNCHANGED governing  BY DEF ExtendLock
<1>4. \A u, a : Unlock(u, a) => UNCHANGED governing  BY DEF Unlock
<1>5. \A u, a : ClaimRewards(u, a) => UNCHANGED governing  BY DEF ClaimRewards
<1>6. \A c, a, n, w : SetAnnSplits(c, a, n, w) => UNCHANGED governing  BY DEF SetAnnSplits
<1> HIDE DEF governing
<1> QED  BY <1>1, <1>2, <1>3, <1>4, <1>5, <1>6, Zenon DEF Staking

\* What staking and the clock change leaves the governance as it is.
LEMMA StakingKept ==
  ASSUME IInv, Staking
  PROVE  /\ IInv'
         /\ \A v \in Users : \A j \in DOMAIN positions[v] :
              positions[v][j].active /\ ~positions'[v][j].active =>
                epoch >= positions[v][j].at + positions[v][j].weeks
<1> DEFINE Term == \A v \in Users : \A j \in DOMAIN positions[v] :
                     positions[v][j].active /\ ~positions'[v][j].active =>
                       epoch >= positions[v][j].at + positions[v][j].weeks
<1>1. UNCHANGED governing  BY StakingGoverning
<1>2. ChangeFits' /\ TransferCounted' /\ ThresholdReachable' /\ SignerCap'
  BY <1>1, GovernanceKept
<1>3. TypeOK' /\ LocksHeld'
  BY StakeKept, RefusedKept, ExtendKept, UnlockKept, ClaimKept, SplitsKept DEF Staking
<1>4. Term
  <2>1. ASSUME NEW u \in Users, NEW a \in Anns, NEW amount \in Amounts,
               NEW weeks \in 1..EpochsPerYear, StakeForAnn(u, a, amount, weeks)
        PROVE  Term
    BY <2>1, StakeKept, Zenon
  <2>2. ASSUME NEW u \in Users, NEW a \in Anns, NEW more \in 1..EpochsPerYear,
               ExtendLock(u, a, more)
        PROVE  Term
    BY <2>2, ExtendKept, Zenon
  <2>3. ASSUME NEW u \in Users, NEW a \in Anns, Unlock(u, a) PROVE Term
    BY <2>3, UnlockKept
  <2>4. UNCHANGED positions => Term  OBVIOUS
  <2> HIDE DEF Term
  <2> QED  BY <2>1, <2>2, <2>3, <2>4 DEF Staking, StakeRefused, ClaimRewards, SetAnnSplits
<1> QED  BY <1>2, <1>3, <1>4 DEF IInv

LEMMA AdvanceKept == IInv /\ AdvanceEpochs => IInv'
<1> SUFFICES ASSUME IInv, AdvanceEpochs PROVE IInv'  OBVIOUS
<1>1. ChangeFits' /\ TransferCounted' /\ ThresholdReachable' /\ SignerCap'
  BY GovernanceKept DEF AdvanceEpochs
<1>2. TypeOK' /\ LocksHeld'
  BY DEF IInv, TypeOK, LocksHeld, AdvanceEpochs, staking, governing
<1> QED  BY <1>1, <1>2 DEF IInv

-----------------------------------------------------------------------------
(* Governance.                                                             *)

\* A governance step that sets these five well sets all well.
LEMMA GovernanceType ==
  ASSUME IInv, UNCHANGED <<epoch, staking>>, paused' \in BOOLEAN, gov' \in Gov,
         transfer' \in Transfer \cup {None}, change' \in Change \cup {None}, repeats' \in Nat
  PROVE  TypeOK' /\ LocksHeld'
BY DEF IInv, TypeOK, LocksHeld, staking

LEMMA InitGovernanceKept ==
  ASSUME IInv, NEW d \in Deployments, InitGovernance(d)
  PROVE  IInv'
<1>1. d.signers \subseteq Identities /\ d.first \in d.signers /\ d.threshold \in Int
  BY DeploymentsAssumption
<1>2. gov' \in Gov  BY <1>1 DEF InitGovernance, Gov
<1>3. TypeOK' /\ LocksHeld'
  BY <1>2, GovernanceType DEF IInv, TypeOK, InitGovernance
<1>4. transfer = None /\ change = None
  BY DEF IInv, ChangeFits, TransferCounted, InitGovernance
<1>5. ChangeFits' /\ TransferCounted'
  BY <1>4 DEF InitGovernance, ChangeFits, TransferCounted
<1>6. gov'.signers = d.signers /\ gov'.threshold = d.threshold  BY DEF InitGovernance
<1>7. ThresholdReachable' /\ SignerCap'
  <2>1. repeats' \in Nat /\ MaxSigners \in Nat
    BY LimitsAssumption DEF IInv, TypeOK, InitGovernance
  <2> QED  BY <1>6, <2>1 DEF InitGovernance, ThresholdReachable, SignerCap
<1> QED  BY <1>3, <1>5, <1>7 DEF IInv

\* The signers stay: what was checked against them still holds.
LEMMA SameSigners ==
  ASSUME IInv, UNCHANGED <<epoch, staking, repeats>>, paused' \in BOOLEAN,
         gov' \in Gov, gov'.initialized = gov.initialized, gov'.signers = gov.signers,
         gov'.threshold = gov.threshold,
         transfer' \in Transfer \cup {None}, change' \in Change \cup {None},
         TransferCounted', ChangeFits'
  PROVE  IInv'
<1>1. TypeOK' /\ LocksHeld'  BY GovernanceType DEF IInv, TypeOK
<1>2. ThresholdReachable' /\ SignerCap'
  BY DEF IInv, ThresholdReachable, SignerCap
<1> QED  BY <1>1, <1>2 DEF IInv

LEMMA ChangeKept ==
  ASSUME IInv, gov'.initialized = gov.initialized, gov'.signers = gov.signers, UNCHANGED change
  PROVE  ChangeFits' /\ change' \in Change \cup {None}
BY DEF IInv, TypeOK, ChangeFits, Allowed, Removed, ResultingCount, Counted

LEMMA TransferKept ==
  ASSUME IInv, gov'.initialized = gov.initialized, gov'.signers = gov.signers, UNCHANGED transfer
  PROVE  TransferCounted' /\ transfer' \in Transfer \cup {None}
BY DEF IInv, TypeOK, TransferCounted, Counted

LEMMA TransferStepsKept ==
  ASSUME IInv,
         \/ \E caller \in Identities, to \in Wallets : SubmitTreasuryTransfer(caller, to)
         \/ \E caller \in Identities : ApproveTreasuryTransfer(caller)
         \/ ExecuteTreasuryTransfer
  PROVE  IInv'
<1>1. TypeOK  BY DEF IInv
<1>2. UNCHANGED <<epoch, staking, paused, change, repeats>>
  BY DEF SubmitTreasuryTransfer, ApproveTreasuryTransfer, ExecuteTreasuryTransfer
<1>3. gov \in Gov /\ paused' \in BOOLEAN  BY <1>2 DEF IInv, TypeOK
<1>4. gov' \in Gov /\ gov'.initialized = gov.initialized /\ gov'.signers = gov.signers
      /\ gov'.threshold = gov.threshold
  <2>1. CASE gov' = gov  BY <2>1, <1>3
  <2>2. CASE transfer # None /\ gov' = [gov EXCEPT !.treasury = transfer.to]
    <3>1. transfer.to \in Identities  BY <2>2 DEF IInv, TypeOK, Transfer
    <3> QED  BY <2>2, <3>1, <1>3 DEF Gov
  <2> QED
    BY <2>1, <2>2 DEF SubmitTreasuryTransfer, ApproveTreasuryTransfer, ExecuteTreasuryTransfer
<1>5. TransferCounted' /\ transfer' \in Transfer \cup {None}
  <2>1. ASSUME NEW caller \in Identities, NEW to \in Wallets, SubmitTreasuryTransfer(caller, to)
        PROVE  TransferCounted' /\ transfer' \in Transfer
    <3>1. transfer' = [to |-> to, op |-> Fresh, rotated |-> FALSE] /\ gov' = gov /\ gov.initialized
      BY <2>1 DEF SubmitTreasuryTransfer
    <3>2. Fresh \in Pending /\ Counted(Fresh) /\ Fresh.approvals = {}  BY <1>1, FreshCounted
    <3>3. to \in Identities  BY ChangesAssumption
    <3>4. transfer' \in Transfer
      <4> HIDE DEF Fresh
      <4> QED  BY <3>1, <3>2, <3>3 DEF Transfer
    <3>5. Counted(transfer'.op) /\ transfer'.op.approvals = {}  BY <3>1, <3>2
    <3> QED  BY <3>1, <3>4, <3>5 DEF TransferCounted, Counted
  <2>2. ASSUME NEW caller \in Identities, ApproveTreasuryTransfer(caller)
        PROVE  TransferCounted' /\ transfer' \in Transfer
    <3>1. transfer \in Transfer /\ gov' = gov /\ CanApprove(caller, transfer.op)
      BY <2>2 DEF ApproveTreasuryTransfer, IInv, TypeOK
    <3>2. /\ transfer.to \in Identities /\ transfer.rotated \in BOOLEAN /\ transfer.op \in Pending
          /\ transfer' = [to |-> transfer.to, op |-> Approved(caller, transfer.op),
                          rotated |-> transfer.rotated]
      BY <2>2, <3>1 DEF ApproveTreasuryTransfer, Transfer
    <3>3. /\ gov.initialized /\ Counted(transfer.op)
          /\ transfer.rotated \/ transfer.op.approvals \subseteq gov.signers
      BY <2>2 DEF ApproveTreasuryTransfer, IInv, TransferCounted
    <3>4. /\ Approved(caller, transfer.op) \in Pending
          /\ Counted(Approved(caller, transfer.op))
          /\ Approved(caller, transfer.op).approvals = transfer.op.approvals \cup {caller}
          /\ caller \in gov.signers
      BY <1>1, <3>1, <3>2, <3>3, ApprovedCounted
    <3>5. transfer' \in Transfer  BY <3>2, <3>4 DEF Transfer
    <3>6. transfer'.op = Approved(caller, transfer.op) /\ transfer'.rotated = transfer.rotated
      BY <3>2
    <3> QED  BY <3>1, <3>3, <3>4, <3>5, <3>6 DEF TransferCounted, Counted
  <2>3. ExecuteTreasuryTransfer => TransferCounted' /\ transfer' = None
    BY DEF ExecuteTreasuryTransfer, TransferCounted
  <2> QED  BY <2>1, <2>2, <2>3
<1>6. ChangeFits' /\ change' \in Change \cup {None}  BY <1>2, <1>4, ChangeKept
<1> QED  BY <1>2, <1>3, <1>4, <1>5, <1>6, SameSigners

LEMMA ChangeStepsKept ==
  ASSUME IInv,
         \/ \E caller \in Identities, c \in Changes : SubmitSignerChange(caller, c)
         \/ \E caller \in Identities : ApproveSignerChange(caller)
         \/ DropExpiredChange
         \/ \E caller \in Identities : TogglePause(caller)
  PROVE  IInv'
<1>1. TypeOK  BY DEF IInv
<1>2. UNCHANGED <<epoch, staking, gov, transfer, repeats>>
  BY DEF SubmitSignerChange, ApproveSignerChange, DropExpiredChange, TogglePause, governing
<1>3. gov' \in Gov /\ paused' \in BOOLEAN
  <2>1. paused' = paused \/ paused' = ~paused
    BY DEF SubmitSignerChange, ApproveSignerChange, DropExpiredChange, TogglePause
  <2> QED  BY <2>1, <1>2 DEF IInv, TypeOK
<1>4. ChangeFits' /\ change' \in Change \cup {None}
  <2>1. ASSUME NEW caller \in Identities, NEW c \in Changes, SubmitSignerChange(caller, c)
        PROVE  ChangeFits' /\ change' \in Change
    <3>1. change' = [what |-> c, op |-> Fresh] /\ gov.initialized /\ Allowed(c)
      BY <2>1 DEF SubmitSignerChange
    <3>2. Fresh \in Pending /\ Counted(Fresh) /\ Fresh.approvals = {}  BY <1>1, FreshCounted
    <3>3. change' \in Change /\ change'.what = c /\ change'.op = Fresh
      <4> HIDE DEF Fresh
      <4> QED  BY <3>1, <3>2 DEF Change
    <3> QED
      BY <1>2, <3>1, <3>2, <3>3 DEF ChangeFits, Allowed, Removed, ResultingCount, Counted
  <2>2. ASSUME NEW caller \in Identities, ApproveSignerChange(caller)
        PROVE  ChangeFits' /\ change' \in Change
    <3>1. change \in Change /\ CanApprove(caller, change.op)
      BY <2>2 DEF ApproveSignerChange, IInv, TypeOK
    <3>2. /\ change.what \in Changes /\ change.op \in Pending
          /\ change' = [what |-> change.what, op |-> Approved(caller, change.op)]
      BY <2>2, <3>1 DEF ApproveSignerChange, Change
    <3>3. /\ gov.initialized /\ Allowed(change.what) /\ Counted(change.op)
          /\ change.op.approvals \subseteq gov.signers
      BY <2>2 DEF ApproveSignerChange, IInv, ChangeFits
    <3>4. /\ Approved(caller, change.op) \in Pending
          /\ Counted(Approved(caller, change.op))
          /\ Approved(caller, change.op).approvals = change.op.approvals \cup {caller}
          /\ caller \in gov.signers
      BY <1>1, <3>1, <3>2, <3>3, ApprovedCounted
    <3>5. change' \in Change  BY <3>2, <3>4 DEF Change
    <3>6. change'.op = Approved(caller, change.op) /\ change'.what = change.what  BY <3>2
    <3> QED
      BY <1>2, <3>3, <3>4, <3>5, <3>6 DEF ChangeFits, Allowed, Removed, ResultingCount, Counted
  <2>3. DropExpiredChange => ChangeFits' /\ change' = None
    BY DEF DropExpiredChange, ChangeFits
  <2>4. ASSUME NEW caller \in Identities, TogglePause(caller)
        PROVE  ChangeFits' /\ change' \in Change \cup {None}
    <3>1. UNCHANGED change  BY <2>4 DEF TogglePause, governing
    <3> QED  BY <3>1, <1>2, ChangeKept
  <2> QED  BY <2>1, <2>2, <2>3, <2>4
<1>5. TransferCounted' /\ transfer' \in Transfer \cup {None}  BY <1>2, TransferKept
<1> QED  BY <1>2, <1>3, <1>4, <1>5, SameSigners

LEMMA ExecuteChangeKept ==
  ASSUME IInv, ExecuteSignerChange
  PROVE  IInv'
<1> DEFINE c == change.what
           x == Len(c.remove) - Cardinality(Removed(c))
<1>1. c \in Changes /\ gov \in Gov  BY DEF IInv, TypeOK, Change, ExecuteSignerChange
<1>2. gov.initialized /\ Allowed(c)  BY DEF IInv, ChangeFits, ExecuteSignerChange
<1>3. Changed(c) \in SUBSET Identities  BY <1>1, <1>2, ChangedSize DEF IInv
<1>4. /\ NewThreshold(c) \in 1..Cardinality(Changed(c))
      /\ Cardinality(Changed(c)) <= MaxSigners + x
      /\ x \in Nat
  BY <1>1, <1>2, ChangedFits DEF IInv
<1>5. gov' = [gov EXCEPT !.signers = Changed(c), !.threshold = NewThreshold(c)]
      /\ repeats' = repeats + x
  BY DEF ExecuteSignerChange
<1>6. Cardinality(Changed(c)) \in Nat  BY <1>3, IdentitiesFinite
<1>7. NewThreshold(c) \in Int  BY <1>4, <1>6
<1>8. gov' \in Gov /\ gov'.signers = Changed(c) /\ gov'.threshold = NewThreshold(c)
  <2> HIDE DEF c
  <2> QED  BY <1>1, <1>3, <1>5, <1>7 DEF Gov
<1>9. repeats' \in Nat
  <2> HIDE DEF x
  <2> QED  BY <1>4, <1>5 DEF IInv, TypeOK
<1>10. transfer' \in Transfer \cup {None} /\ TransferCounted'
  <2>1. CASE transfer = None  BY <2>1 DEF ExecuteSignerChange, TransferCounted
  <2>2. CASE transfer # None
    <3>1. transfer \in Transfer  BY <2>2 DEF IInv, TypeOK
    <3>2. /\ transfer.to \in Identities /\ transfer.op \in Pending
          /\ transfer' = [to |-> transfer.to, op |-> transfer.op, rotated |-> TRUE]
      BY <2>2, <3>1 DEF ExecuteSignerChange, Transfer
    <3>3. transfer' \in Transfer /\ transfer'.op = transfer.op /\ transfer'.rotated
      BY <3>2 DEF Transfer
    <3>4. gov'.initialized  BY <1>1, <1>2, <1>5 DEF Gov
    <3>5. Counted(transfer.op)  BY <2>2 DEF IInv, TransferCounted
    <3> QED  BY <3>3, <3>4, <3>5 DEF TransferCounted, Counted
  <2> QED  BY <2>1, <2>2
<1>11. change' = None /\ ChangeFits'  BY DEF ExecuteSignerChange, ChangeFits
<1>12. TypeOK' /\ LocksHeld'
  BY <1>8, <1>9, <1>10, <1>11, GovernanceType DEF IInv, TypeOK, ExecuteSignerChange
<1>13. ThresholdReachable'  BY <1>4, <1>8 DEF ThresholdReachable
<1>14. SignerCap'
  <2>1. repeats \in Nat /\ MaxSigners \in Nat  BY LimitsAssumption DEF IInv, TypeOK
  <2>2. Cardinality(Changed(c)) <= MaxSigners + (repeats + x)
    <3> HIDE DEF c, x
    <3> QED  BY <1>4, <1>6, <2>1
  <2> QED  BY <1>5, <1>8, <2>2 DEF SignerCap
<1> QED  BY <1>10, <1>11, <1>12, <1>13, <1>14 DEF IInv

-----------------------------------------------------------------------------
(* The theorems.                                                           *)

LEMMA NextKept == IInv /\ [Next]_vars => IInv'
<1> SUFFICES ASSUME IInv, [Next]_vars PROVE IInv'  OBVIOUS
<1>1. CASE AdvanceEpochs  BY <1>1, AdvanceKept
<1>2. CASE Staking  BY <1>2, StakingKept
<1>3. CASE Governance
  <2>1. CASE \E d \in Deployments : InitGovernance(d)  BY <2>1, InitGovernanceKept
  <2>2. CASE \/ \E caller \in Identities, to \in Wallets : SubmitTreasuryTransfer(caller, to)
             \/ \E caller \in Identities : ApproveTreasuryTransfer(caller)
             \/ ExecuteTreasuryTransfer
    BY <2>2, TransferStepsKept
  <2>3. CASE \/ \E caller \in Identities, c \in Changes : SubmitSignerChange(caller, c)
             \/ \E caller \in Identities : ApproveSignerChange(caller)
             \/ DropExpiredChange
             \/ \E caller \in Identities : TogglePause(caller)
    BY <2>3, ChangeStepsKept
  <2>4. CASE ExecuteSignerChange  BY <2>4, ExecuteChangeKept
  <2> QED  BY <1>3, <2>1, <2>2, <2>3, <2>4 DEF Governance
<1>4. CASE UNCHANGED vars
  <2>1. UNCHANGED governing /\ UNCHANGED staking /\ UNCHANGED <<epoch, paused>>
    BY <1>4 DEF vars
  <2>2. ChangeFits' /\ TransferCounted' /\ ThresholdReachable' /\ SignerCap'
    BY <2>1, GovernanceKept
  <2>3. TypeOK' /\ LocksHeld'  BY <2>1 DEF IInv, TypeOK, LocksHeld, staking, governing
  <2> QED  BY <2>2, <2>3 DEF IInv
<1> QED  BY <1>1, <1>2, <1>3, <1>4 DEF Next

LEMMA Invariance == Spec => []IInv
BY InitInv, NextKept, PTL DEF Spec

\* Every variable of the pool keeps its type.
THEOREM TypeCorrect == Spec => []TypeOK
BY Invariance, PTL DEF IInv

\* The signers can always reach the threshold: no sequence of submitted, approved
\* and executed changes, expired ones among them, locks the governance.
THEOREM GovernanceNeverLocked == Spec => []ThresholdReachable
BY Invariance, PTL DEF IInv

\* The number of signers exceeds the cap by repeated removals only.
THEOREM SignersNearCap == Spec => []SignerCap
BY Invariance, PTL DEF IInv

\* Signers and treasury change only with a threshold of the signers of the
\* moment behind it, transfers pending across a rotation excepted.
LEMMA StepNeedsQuorum ==
  ASSUME IInv, [Next]_vars, gov.initialized
  PROVE  /\ gov'.signers # gov.signers =>
              Cardinality(change.op.approvals \cap gov.signers) >= gov.threshold
         /\ gov'.treasury # gov.treasury =>
              \/ transfer.rotated
              \/ Cardinality(transfer.op.approvals \cap gov.signers) >= gov.threshold
<1> DEFINE P == /\ gov'.signers # gov.signers =>
                     Cardinality(change.op.approvals \cap gov.signers) >= gov.threshold
                /\ gov'.treasury # gov.treasury =>
                     \/ transfer.rotated
                     \/ Cardinality(transfer.op.approvals \cap gov.signers) >= gov.threshold
<1>1. gov' = gov => P  OBVIOUS
<1>2. CASE ExecuteTreasuryTransfer /\ gov' = [gov EXCEPT !.treasury = transfer.to]
           /\ ~Expired(transfer.op)
  <2>1. Counted(transfer.op) /\ (transfer.rotated \/ transfer.op.approvals \subseteq gov.signers)
    BY <1>2 DEF ExecuteTreasuryTransfer, IInv, TransferCounted
  <2>2. gov'.signers = gov.signers  BY <1>2 DEF IInv, TypeOK, Gov
  <2>3. transfer.op.count >= gov.threshold  BY <1>2 DEF ExecuteTreasuryTransfer
  <2>4. transfer.op.approvals \subseteq gov.signers =>
          transfer.op.approvals \cap gov.signers = transfer.op.approvals
    OBVIOUS
  <2> QED  BY <2>1, <2>2, <2>3, <2>4 DEF Counted
<1>3. CASE ExecuteSignerChange
  <2>1. Counted(change.op) /\ change.op.approvals \subseteq gov.signers
    BY <1>3 DEF ExecuteSignerChange, IInv, ChangeFits
  <2>2. gov'.treasury = gov.treasury  BY <1>3 DEF ExecuteSignerChange, IInv, TypeOK, Gov
  <2>3. change.op.count >= gov.threshold  BY <1>3 DEF ExecuteSignerChange
  <2>4. change.op.approvals \cap gov.signers = change.op.approvals  BY <2>1
  <2> QED  BY <2>1, <2>2, <2>3, <2>4 DEF Counted
<1>4. gov' = gov \/ ExecuteSignerChange
      \/ (ExecuteTreasuryTransfer /\ gov' = [gov EXCEPT !.treasury = transfer.to]
           /\ ~Expired(transfer.op))
  <2>1. Staking \/ AdvanceEpochs \/ UNCHANGED vars => gov' = gov
    BY StakingGoverning DEF AdvanceEpochs, vars, governing
  <2>2. Governance => \/ gov' = gov \/ ExecuteSignerChange \/ ExecuteTreasuryTransfer
    BY DEF Governance, InitGovernance, SubmitTreasuryTransfer, ApproveTreasuryTransfer,
           SubmitSignerChange, ApproveSignerChange, DropExpiredChange, TogglePause, governing
  <2> QED  BY <2>1, <2>2 DEF Next, ExecuteTreasuryTransfer
<1> HIDE DEF P
<1>5. P  BY <1>1, <1>2, <1>3, <1>4 DEF P
<1> QED  BY <1>5 DEF P

THEOREM QuorumBehindEveryChange == Spec => QuorumActs
<1>1. IInv /\ [Next]_vars =>
        [gov.initialized =>
           /\ gov'.signers # gov.signers =>
                Cardinality(change.op.approvals \cap gov.signers) >= gov.threshold
           /\ gov'.treasury # gov.treasury =>
                \/ transfer.rotated
                \/ Cardinality(transfer.op.approvals \cap gov.signers) >= gov.threshold]_gov
  BY StepNeedsQuorum
<1> QED  BY <1>1, Invariance, PTL DEF Spec, QuorumActs

\* No position closes before the weeks its yield is computed from have passed.
THEOREM YieldIsForTheTerm == Spec => FullTerm
<1>1. IInv /\ [Next]_vars =>
        [\A u \in Users : \A i \in DOMAIN positions[u] :
           positions[u][i].active /\ ~positions'[u][i].active =>
             epoch >= positions[u][i].at + positions[u][i].weeks]_positions
  <2>1. Staking \/ UNCHANGED positions \/ ~[Next]_vars
    BY DEF Next, AdvanceEpochs, Governance, InitGovernance, SubmitTreasuryTransfer,
           ApproveTreasuryTransfer, ExecuteTreasuryTransfer, SubmitSignerChange,
           ApproveSignerChange, DropExpiredChange, ExecuteSignerChange, TogglePause, vars, staking
  <2> QED  BY <2>1, StakingKept
<1> QED  BY <1>1, Invariance, PTL DEF Spec, FullTerm

=============================================================================
