----------------------------- MODULE AigarthPool -----------------------------
(***************************************************************************)
(* The AigarthPool contract as packages/aigarthpool runs it in process     *)
(* (simulator.ts): stakes locked for an ANN, their yield split at unlock,  *)
(* and the multi-signature governance of the treasury wallet, the signers  *)
(* and the circuit breaker.                                                *)
(*                                                                         *)
(* No procedure awaits anything, so each is one action, refused calls that *)
(* change nothing are left out, and so are nonces (a caller states the     *)
(* pending one or is refused) and events.                                  *)
(***************************************************************************)
EXTENDS Integers, Sequences, FiniteSets, Functions

CONSTANTS
  Users,                   \* identities that stake
  Anns,                    \* ANN ids
  Identities,              \* identities that register ANNs, sign or hold the treasury
  Wallets,                 \* those that a transfer or a registration names
  Amounts,                 \* amounts staked
  Shares,                  \* [creator, user] basis points an ANN may be given
  Deployments,             \* [signers, first, threshold] the pool may be deployed with
  Changes,                 \* [add, remove, threshold] signer changes submitted
  EpochsPerYear,           \* longest lock (52)
  MaxStakePerTx,           \* per-call cap
  MaxStakePerUserPerEpoch, \* per-user cap within an epoch
  MaxPositionsPerUser,     \* cap on active positions (64)
  MaxSigners,              \* cap on signers (16)
  PendingOpTtlEpochs,      \* epochs a pending operation lives (4)
  MaxEpoch, MaxStakes,     \* epochs passed, stakes of a user (bounds)
  None                     \* null

ASSUME FiniteAssumption == IsFiniteSet(Users) /\ IsFiniteSet(Anns)
ASSUME AmountsAssumption == Amounts \subseteq Nat \ {0}
ASSUME SharesAssumption ==
  \A s \in Shares : s \in [creator: Nat, user: Nat] /\ s.creator + s.user <= 10000
ASSUME ChangesAssumption ==
  /\ IsFiniteSet(Identities) /\ Wallets \subseteq Identities
  /\ \A c \in Changes : /\ DOMAIN c = {"add", "remove", "threshold"}
                        /\ c.add \subseteq Identities
                        /\ c.remove \in Seq(Identities)
                        /\ c.threshold \in Int \cup {None}
ASSUME DeploymentsAssumption ==
  \A d \in Deployments : d.signers \subseteq Identities /\ d.first \in d.signers /\ d.threshold \in Int
ASSUME LimitsAssumption ==
  /\ EpochsPerYear \in Nat /\ MaxStakePerTx \in Nat /\ MaxStakePerUserPerEpoch \in Nat
  /\ MaxPositionsPerUser \in Nat /\ MaxSigners \in Nat /\ PendingOpTtlEpochs \in Nat
  /\ MaxEpoch \in Nat /\ MaxStakes \in Nat
ASSUME NoneAssumption ==
  None \notin Identities \cup Int \cup [principal: Int, yield: Int, claimed: BOOLEAN]

VARIABLES
  epoch,      \* currentEpoch
  paused,
  splits,     \* ANN -> its creator wallet and shares
  positions,  \* user -> its positions, oldest first
  owed,       \* user -> ANN -> what an unlock left to claim
  recent,     \* user -> stakedThisEpoch and lastStakeEpoch
  totals,
  paid,       \* history: what claimRewards has returned in all
  lost,       \* history: what was unclaimed in entries an unlock overwrote
  gov,        \* initialized, signers, signerThreshold, treasuryWallet
  transfer,   \* pendingTreasuryTransfer
  change,     \* pendingSignerChange
  repeats     \* history: repeated entries in the toRemove of executed changes

staking == <<splits, positions, owed, recent, totals, paid, lost>>
governing == <<gov, transfer, change, repeats>>
vars == <<epoch, paused, staking, governing>>

-----------------------------------------------------------------------------
Split    == [creator: Identities, share: Shares]
Position == [ann: Anns, amount: Amounts, weeks: Nat, until: Int, active: BOOLEAN,
             at: Nat]                          \* history: the epoch it was opened in
Owed     == [principal: Nat, yield: Int, claimed: BOOLEAN]
Totals   == [staked: Int, positions: Int, yield: Int, toCreator: Int, toTreasury: Int]
Pending  == [at: Nat, approvals: SUBSET Identities, count: Nat]
Gov      == [initialized: BOOLEAN, signers: SUBSET Identities, threshold: Int,
             treasury: Identities \cup {None}]
Transfer == [to: Identities, op: Pending,
             rotated: BOOLEAN]                 \* history: a signer change executed meanwhile
Change   == [what: Changes, op: Pending]

TypeOK ==
  /\ epoch \in Nat
  /\ paused \in BOOLEAN
  /\ splits \in [Anns -> Split \cup {None}]
  /\ positions \in [Users -> Seq(Position)]
  /\ owed \in [Users -> [Anns -> Owed \cup {None}]]
  /\ recent \in [Users -> [staked: Nat, last: Int]]
  /\ totals \in Totals
  /\ paid \in Int
  /\ lost \in Int
  /\ gov \in Gov
  /\ transfer \in Transfer \cup {None}
  /\ change \in Change \cup {None}
  /\ repeats \in Nat

Init ==
  /\ epoch = 0
  /\ paused = FALSE
  /\ splits = [a \in Anns |-> None]
  /\ positions = [u \in Users |-> <<>>]
  /\ owed = [u \in Users |-> [a \in Anns |-> None]]
  /\ recent = [u \in Users |-> [staked |-> 0, last |-> -1]]
  /\ totals = [staked |-> 0, positions |-> 0, yield |-> 0, toCreator |-> 0, toTreasury |-> 0]
  /\ paid = 0
  /\ lost = 0
  /\ gov = [initialized |-> FALSE, signers |-> {}, threshold |-> 0, treasury |-> None]
  /\ transfer = None
  /\ change = None
  /\ repeats = 0

AdvanceEpochs ==
  /\ epoch < MaxEpoch
  /\ epoch' = epoch + 1
  /\ UNCHANGED <<paused, staking, governing>>

-----------------------------------------------------------------------------
(* Staking.                                                                *)

Active(u) == {i \in DOMAIN positions[u] : positions[u][i].active}

\* Mutant of Target: closed positions are found too.
TargetAny(u, a) ==
  {i \in DOMAIN positions[u] : /\ positions[u][i].ann = a
                               /\ \A j \in 1..(i - 1) : positions[u][j].ann # a}

\* The position extendLock and unlock find: the oldest active one, if any.
Target(u, a) ==
  {i \in Active(u) : /\ positions[u][i].ann = a
                     /\ \A j \in Active(u) : positions[u][j].ann = a => i <= j}

computeYield(amount, weeks) == (amount * 400 * weeks) \div (10000 * 52)

\* Mutant of applySplits: the user's part is rounded down too.
applySplitsFloor(y, s) ==
  [creator |-> (y * s.creator) \div 10000, user |-> (y * s.user) \div 10000,
   treasury |-> (y * (10000 - s.creator - s.user)) \div 10000]

applySplits(y, s) ==
  LET creator  == (y * s.creator) \div 10000
      treasury == (y * (10000 - s.creator - s.user)) \div 10000
  IN  [creator |-> creator, user |-> y - creator - treasury, treasury |-> treasury]

\* Mutant of Spent: the count is always started anew.
SpentNever(u) == 0

\* What the user has staked in this epoch: an older count no longer matters.
Spent(u) == IF epoch > recent[u].last THEN 0 ELSE recent[u].staked

Refused(u, amount) ==
  \/ Spent(u) + amount > MaxStakePerUserPerEpoch
  \/ Cardinality(Active(u)) >= MaxPositionsPerUser

StakeForAnn(u, a, amount, weeks) ==
  /\ ~paused
  /\ splits[a] # None
  /\ amount <= MaxStakePerTx
  /\ ~Refused(u, amount)
  /\ Len(positions[u]) < MaxStakes
  /\ positions' = [positions EXCEPT ![u] = Append(@,
       [ann |-> a, amount |-> amount, weeks |-> weeks, until |-> epoch + weeks,
        active |-> TRUE, at |-> epoch])]
  /\ recent' = [recent EXCEPT ![u] = [staked |-> Spent(u) + amount,
                                      last |-> IF epoch > @.last THEN epoch ELSE @.last]]
  /\ totals' = [totals EXCEPT !.staked = @ + amount, !.positions = @ + 1]
  /\ UNCHANGED <<epoch, paused, splits, owed, paid, lost, governing>>

\* A refused call has restarted the count of the epoch all the same.
StakeRefused(u, a, amount) ==
  /\ ~paused
  /\ splits[a] # None
  /\ amount <= MaxStakePerTx
  /\ Refused(u, amount)
  /\ epoch > recent[u].last
  /\ recent' = [recent EXCEPT ![u] = [staked |-> 0, last |-> epoch]]
  /\ UNCHANGED <<epoch, paused, splits, positions, owed, totals, paid, lost, governing>>

\* Mutant of ExtendLock: the new weeks replace what remains of the lock.
ExtendLockAnew(u, a, more) ==
  /\ ~paused
  /\ \E i \in Target(u, a) : positions' = [positions EXCEPT ![u][i].until = epoch + more]
  /\ UNCHANGED <<epoch, paused, splits, owed, recent, totals, paid, lost, governing>>

ExtendLock(u, a, more) ==
  /\ ~paused
  /\ \E i \in Target(u, a) :
       LET remaining == positions[u][i].until - epoch IN
       /\ remaining + more <= EpochsPerYear
       /\ positions' = [positions EXCEPT ![u][i].until = epoch + (remaining + more)]
  /\ UNCHANGED <<epoch, paused, splits, owed, recent, totals, paid, lost, governing>>

Unclaimed(u, a) ==
  IF owed[u][a] = None \/ owed[u][a].claimed THEN 0 ELSE owed[u][a].principal + owed[u][a].yield

\* Leaves what is owed in the one entry of (user, ANN), over any that was there.
Unlock(u, a) ==
  /\ ~paused
  /\ splits[a] # None
  /\ \E i \in Target(u, a) :
       LET p == positions[u][i]
           y == computeYield(p.amount, p.weeks)
           s == applySplits(y, splits[a].share)
       IN
       /\ p.until <= epoch
       /\ positions' = [positions EXCEPT ![u][i].active = FALSE]
       /\ owed' = [owed EXCEPT ![u][a] = [principal |-> p.amount, yield |-> s.user,
                                          claimed |-> FALSE]]
       /\ totals' = [totals EXCEPT !.yield = @ + y, !.toCreator = @ + s.creator,
                                   !.toTreasury = @ + s.treasury,
                                   !.staked = @ - p.amount, !.positions = @ - 1]
  /\ lost' = lost + Unclaimed(u, a)
  /\ UNCHANGED <<epoch, paused, splits, recent, paid, governing>>

ClaimRewards(u, a) ==
  /\ ~paused
  /\ owed[u][a] # None
  /\ ~owed[u][a].claimed
  /\ owed' = [owed EXCEPT ![u][a].claimed = TRUE]
  /\ paid' = paid + owed[u][a].principal + owed[u][a].yield
  /\ UNCHANGED <<epoch, paused, splits, positions, recent, totals, lost, governing>>

\* The first call registers the ANN; later ones are the creator's or a signer's.
SetAnnSplits(caller, a, share, wallet) ==
  /\ ~paused
  /\ splits[a] # None => splits[a].creator = caller \/ caller \in gov.signers
  /\ splits' = [splits EXCEPT ![a] = [creator |-> wallet, share |-> share]]
  /\ UNCHANGED <<epoch, paused, positions, owed, recent, totals, paid, lost, governing>>

Staking ==
  \/ \E u \in Users, a \in Anns :
       \/ \E amount \in Amounts, weeks \in 1..EpochsPerYear : StakeForAnn(u, a, amount, weeks)
       \/ \E amount \in Amounts : StakeRefused(u, a, amount)
       \/ \E more \in 1..EpochsPerYear : ExtendLock(u, a, more)
       \/ Unlock(u, a)
       \/ ClaimRewards(u, a)
  \/ \E caller \in Identities, wallet \in Wallets, a \in Anns, share \in Shares :
       SetAnnSplits(caller, a, share, wallet)

-----------------------------------------------------------------------------
(* Governance.  None of these looks at paused.                             *)

InitGovernance(d) ==
  /\ ~gov.initialized
  /\ Cardinality(d.signers) \in 1..MaxSigners
  /\ d.threshold \in 1..Cardinality(d.signers)
  /\ gov' = [initialized |-> TRUE, signers |-> d.signers, threshold |-> d.threshold,
             treasury |-> d.first]
  /\ UNCHANGED <<epoch, paused, staking, transfer, change, repeats>>

\* Mutant of Fresh: an operation is dated one epoch early.
FreshEarly == [at |-> epoch - 1, approvals |-> {}, count |-> 0]

Fresh == [at |-> epoch, approvals |-> {}, count |-> 0]

Expired(op) == epoch > op.at + PendingOpTtlEpochs

\* Mutant of CanApprove: a second approval of the same signer counts too.
CanApproveAgain(caller, op) ==
  /\ gov.initialized
  /\ ~Expired(op)
  /\ caller \in gov.signers

CanApprove(caller, op) ==
  /\ gov.initialized
  /\ ~Expired(op)
  /\ caller \in gov.signers
  /\ caller \notin op.approvals

Approved(caller, op) ==
  [at |-> op.at, approvals |-> op.approvals \cup {caller}, count |-> op.count + 1]

SubmitTreasuryTransfer(caller, to) ==
  /\ gov.initialized
  /\ caller \in gov.signers
  /\ transfer = None
  /\ transfer' = [to |-> to, op |-> Fresh, rotated |-> FALSE]
  /\ UNCHANGED <<epoch, paused, staking, gov, change, repeats>>

ApproveTreasuryTransfer(caller) ==
  /\ transfer # None
  /\ CanApprove(caller, transfer.op)
  /\ transfer' = [transfer EXCEPT !.op = Approved(caller, @)]
  /\ UNCHANGED <<epoch, paused, staking, gov, change, repeats>>

\* Anyone may call it.  Too late, it clears the transfer and changes nothing else.
ExecuteTreasuryTransfer ==
  /\ gov.initialized
  /\ transfer # None
  /\ Expired(transfer.op) \/ transfer.op.count >= gov.threshold
  /\ gov' = IF Expired(transfer.op) THEN gov ELSE [gov EXCEPT !.treasury = transfer.to]
  /\ transfer' = None
  /\ UNCHANGED <<epoch, paused, staking, change, repeats>>

\* The list of removals is counted with its repetitions.
ResultingCount(c) == Cardinality(gov.signers) - Len(c.remove) + Cardinality(c.add)
Removed(c) == {c.remove[i] : i \in DOMAIN c.remove}

\* Mutant of Allowed: the size is not checked.
AllowedAnySize(c) ==
  /\ Removed(c) \subseteq gov.signers
  /\ ResultingCount(c) >= 1
  /\ c.threshold # None => c.threshold \in 1..ResultingCount(c)
  /\ c.add \cap gov.signers \subseteq Removed(c)

Allowed(c) ==
  /\ Removed(c) \subseteq gov.signers
  /\ ResultingCount(c) \in 1..MaxSigners
  /\ c.threshold # None => c.threshold \in 1..ResultingCount(c)
  /\ c.add \cap gov.signers \subseteq Removed(c)

SubmitSignerChange(caller, c) ==
  /\ gov.initialized
  /\ caller \in gov.signers
  /\ change = None
  /\ Allowed(c)
  /\ change' = [what |-> c, op |-> Fresh]
  /\ UNCHANGED <<epoch, paused, staking, gov, transfer, repeats>>

ApproveSignerChange(caller) ==
  /\ change # None
  /\ CanApprove(caller, change.op)
  /\ change' = [change EXCEPT !.op = Approved(caller, @)]
  /\ UNCHANGED <<epoch, paused, staking, gov, transfer, repeats>>

\* The signers and the threshold after a change.
Changed(c) == (gov.signers \ Removed(c)) \cup c.add
\* Mutant of NewThreshold: fewer signers leave the threshold as it is.
NewThresholdKept(c) == IF c.threshold # None THEN c.threshold ELSE gov.threshold

NewThreshold(c) ==
  IF c.threshold # None THEN c.threshold
  ELSE IF gov.threshold > Cardinality(Changed(c)) THEN Cardinality(Changed(c)) ELSE gov.threshold

DropExpiredChange ==
  /\ gov.initialized
  /\ change # None
  /\ Expired(change.op)
  /\ change' = None
  /\ UNCHANGED <<epoch, paused, staking, gov, transfer, repeats>>

\* The approvals of a pending transfer stay, whoever the signers are now.
ExecuteSignerChange ==
  /\ gov.initialized
  /\ change # None
  /\ ~Expired(change.op)
  /\ change.op.count >= gov.threshold
  /\ gov' = [gov EXCEPT !.signers = Changed(change.what), !.threshold = NewThreshold(change.what)]
  /\ change' = None
  /\ transfer' = IF transfer = None THEN None ELSE [transfer EXCEPT !.rotated = TRUE]
  /\ repeats' = repeats + (Len(change.what.remove) - Cardinality(Removed(change.what)))
  /\ UNCHANGED <<epoch, paused, staking>>

\* pause and unpause: a signer turns the circuit breaker.
TogglePause(caller) ==
  /\ gov.initialized
  /\ caller \in gov.signers
  /\ paused' = ~paused
  /\ UNCHANGED <<epoch, staking, governing>>

Governance ==
  \/ \E d \in Deployments : InitGovernance(d)
  \/ \E caller \in Identities :
       \/ \E to \in Wallets : SubmitTreasuryTransfer(caller, to)
       \/ ApproveTreasuryTransfer(caller)
       \/ \E c \in Changes : SubmitSignerChange(caller, c)
       \/ ApproveSignerChange(caller)
       \/ TogglePause(caller)
  \/ ExecuteTreasuryTransfer
  \/ DropExpiredChange
  \/ ExecuteSignerChange

Next == AdvanceEpochs \/ Staking \/ Governance
Spec == Init /\ [][Next]_vars

-----------------------------------------------------------------------------
(* Properties.                                                             *)

\* Once there is a governance it can always act: between one signer and all of
\* them suffice, whatever changes were submitted, approved and executed since.
ThresholdReachable ==
  gov.initialized => gov.threshold \in 1..Cardinality(gov.signers)

\* The signers outnumber the cap by no more than the removals that executed
\* changes had listed twice: the count made at submission deducts each of them.
SignerCap == Cardinality(gov.signers) <= MaxSigners + repeats

\* The signers and the treasury wallet change only when a threshold of the
\* signers of that moment has approved; a transfer that was pending while the
\* signers changed may count approvals of identities that are signers no more.
QuorumActs ==
  [][gov.initialized =>
       /\ gov'.signers # gov.signers =>
            Cardinality(change.op.approvals \cap gov.signers) >= gov.threshold
       /\ gov'.treasury # gov.treasury =>
            \/ transfer.rotated
            \/ Cardinality(transfer.op.approvals \cap gov.signers) >= gov.threshold]_gov

Amount(u, S) == SumFunction([i \in S |-> positions[u][i].amount])

\* The totals the pool reports are those of the positions that are open.
TotalsAgree ==
  /\ totals.staked = SumFunction([u \in Users |-> Amount(u, Active(u))])
  /\ totals.positions = SumFunction([u \in Users |-> Cardinality(Active(u))])

Today(u) == {i \in DOMAIN positions[u] : positions[u][i].at = epoch}

\* In no epoch does a user stake more than the cap, however the calls, refused
\* ones among them, fall between epochs.
EpochCap == \A u \in Users : Amount(u, Today(u)) <= MaxStakePerUserPerEpoch

\* A position is closed no earlier than the weeks its yield is computed from,
\* extended or not.
FullTerm ==
  [][\A u \in Users : \A i \in DOMAIN positions[u] :
       positions[u][i].active /\ ~positions'[u][i].active =>
         epoch >= positions[u][i].at + positions[u][i].weeks]_positions

\* No value appears, is split away or is paid twice: all that was staked and
\* earned is locked, owed, split off, paid, or was overwritten by a later unlock of
\* the same user and ANN, the only way to lose it.
ValueKept ==
  SumFunction([u \in Users |-> Amount(u, DOMAIN positions[u])]) + totals.yield
    = totals.staked + totals.toCreator + totals.toTreasury + paid + lost
        + SumFunction([x \in Users \X Anns |-> Unclaimed(x[1], x[2])])

=============================================================================
