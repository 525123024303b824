---------------------------- MODULE GainScheduler ----------------------------
(***************************************************************************)
(* GainScheduler (expert_bank.py): which experts to train next, from the   *)
(* gains last observed and a share of the picks kept for exploration.      *)
(*                                                                         *)
(* The credit is a double and is rounded as one: numbers are counted in    *)
(* grains, a grain being finer than any number in play, and the result of  *)
(* an operation is the nearest number a double can hold, the even one of   *)
(* two as near.  A gain is its rank among the gains that can be observed.  *)
(***************************************************************************)
EXTENDS Integers, Sequences, FiniteSets, FiniteSetsExt, Functions

CONSTANTS
  TotalExperts,
  Grains,           (* grains in one pick, the number 1.0                    *)
  Share,            (* exploration_fraction, in grains                       *)
  Tolerance,        (* 1e-12, in grains                                      *)
  Significands,     (* 2^53                                                  *)
  Spacings,         (* the distances between neighbouring doubles, in grains *)
  MostPicks,        (* picks one call may ask for: 4096                      *)
  MaxGain,          (* gains are 0 .. MaxGain; 0 is none                     *)
  MaxRequested      (* bound: picks ever asked for                           *)

(* No sum of a call is above it. *)
Top == (MostPicks + 1) * Grains + Tolerance

ASSUME SchedulerAssumption ==
  /\ {TotalExperts, Grains, Share, MostPicks} \subseteq Nat \ {0} /\ Share <= Grains
  /\ {Tolerance, Significands, MaxGain, MaxRequested} \subseteq Nat

(* Whole picks are doubles as far as they are needed. *)
ASSUME SpacingAssumption ==
  /\ \A u \in Spacings : u \in Nat \ {0} /\ Grains % u = 0
  /\ \E u \in Spacings : Top < Significands * u

(* The double nearest to a number, which has as many bits as any other.    *)
Spacing(x) == Min({u \in Spacings : x < Significands * u})

Rounded(x) ==
  LET u == Spacing(x)
      below == x \div u
      over == 2 * (x % u)
      up == over > u \/ (over = u /\ below % 2 = 1)
  IN  (IF up THEN below + 1 ELSE below) * u

Experts == 0 .. TotalExperts - 1

VARIABLES
  gains,      (* observations: the gain per second of each, 0 unobserved     *)
  cursor, credit,
  answer,     (* [picks, reserved]: the last call's, explored ones first     *)
  history     (* [calls, requested, reserved, waited]                        *)

vars == <<gains, cursor, credit, answer, history>>

Init ==
  /\ gains = [e \in Experts |-> 0]
  /\ cursor = 0 /\ credit = 0
  /\ answer = [picks |-> << >>, reserved |-> 0]
  /\ history = [calls |-> 0, requested |-> 0, reserved |-> 0,
                waited |-> [e \in Experts |-> 0]]

Chosen(picks) == Range(picks)

(* Mutant: the cursor does not pass what it skipped or took. *)
ExploredFromStart(s) ==
  LET e == Min(Experts \ Chosen(s.picks))
  IN  [picks |-> Append(s.picks, e), cursor |-> s.cursor]

(* explore(): the first expert from the cursor on that this call has not   *)
(* chosen yet, around the end; the cursor goes past it.                    *)
Explored(s) ==
  LET ahead(e) == (e + TotalExperts - s.cursor) % TotalExperts
      e == CHOOSE x \in Experts \ Chosen(s.picks) :
             \A y \in Experts \ Chosen(s.picks) : ahead(x) <= ahead(y)
  IN  [picks |-> Append(s.picks, e), cursor |-> (e + 1) % TotalExperts]

ExploredTimes(s, n) ==
  LET after[i \in 0 .. n] == IF i = 0 THEN s ELSE Explored(after[i-1])
  IN  after[n]

(* The order of the ranking: the higher gain first, then the lower id. *)
Before(d, e) ==
  \/ gains[d] > gains[e]
  \/ gains[d] = gains[e] /\ d < e

(* Mutant: the worst come first. *)
RankedWorst(s, count) ==
  LET left == {e \in Experts : gains[e] > 0} \ Chosen(s.picks)
      rank(e) == Cardinality({d \in left : Before(e, d)})
      n == Min({count - Len(s.picks), Cardinality(left)})
  IN  [s EXCEPT !.picks = @ \o [i \in 1 .. n |-> CHOOSE e \in left : rank(e) = i-1]]

(* The ranked experts fill what is left of the request, as far as they go. *)
Ranked(s, count) ==
  LET left == {e \in Experts : gains[e] > 0} \ Chosen(s.picks)
      rank(e) == Cardinality({d \in left : Before(d, e)})
      n == Min({count - Len(s.picks), Cardinality(left)})
  IN  [s EXCEPT !.picks = @ \o [i \in 1 .. n |-> CHOOSE e \in left : rank(e) = i-1]]

(* Mutant: what is left of the credit is forgotten. *)
CreditSpent(earned, reserve) == 0

CreditLeft(earned, reserve) ==
  IF earned >= reserve * Grains THEN Rounded(earned - reserve * Grains) ELSE 0

(* A pick other than e while e waits; a call that picks e ends its wait.   *)
Waited(e, picks, explored) ==
  IF e \in Chosen(picks) THEN 0 ELSE history.waited[e] + explored

Select(count) ==
  /\ count <= TotalExperts /\ count <= MostPicks
  /\ history.requested + count <= MaxRequested
  /\ LET earned == Rounded(credit + Rounded(count * Share))
         reserve == Min({count, Rounded(earned + Tolerance) \div Grains})
         explored == ExploredTimes([picks |-> << >>, cursor |-> cursor], reserve)
         ranked == Ranked(explored, count)
         filler == count - Len(ranked.picks)
         all == ExploredTimes(ranked, filler)
     IN  /\ credit' = CreditLeft(earned, reserve)
         /\ cursor' = all.cursor
         /\ answer' = [picks |-> all.picks, reserved |-> reserve]
         /\ history' = [calls |-> history.calls + 1,
                        requested |-> history.requested + count,
                        reserved |-> history.reserved + reserve,
                        waited |-> [e \in Experts |->
                          Waited(e, all.picks, reserve + filler)]]
  /\ UNCHANGED gains

(* observe: the latest observation of an expert replaces the one before. *)
Observe(e, gain) ==
  /\ gains' = [gains EXCEPT ![e] = gain]
  /\ UNCHANGED <<cursor, credit, answer, history>>

Next ==
  \/ \E count \in 1 .. TotalExperts : Select(count)
  \/ \E e \in Experts, gain \in 0 .. MaxGain : Observe(e, gain)

Spec == Init /\ [][Next]_vars
-----------------------------------------------------------------------------
(* The scheduler's parts have the types the code gives them. *)
TypeOK ==
  /\ gains \in [Experts -> 0 .. MaxGain]
  /\ cursor \in Experts
  /\ credit \in 0 .. Grains
  /\ answer.picks \in Seq(Experts)
  /\ IsInjective(answer.picks)

(* The most, in half grains, that one call adds to or takes from the       *)
(* account: the tolerance once, and the rounding of three results.         *)
DriftPerCall == 2 * Tolerance + 3 * Spacing(Top)

(* Over all calls, single-expert requests included, the share of what was  *)
(* asked for is kept for exploration (expert_bank.py:447-449): never more  *)
(* than it, and never less by more than the pick under way, but for what   *)
(* the sums of the calls are rounded.                                      *)
ShareIsKept ==
  LET owed == 2 * history.requested * Share
      kept == 2 * history.reserved * Grains
      drift == history.calls * DriftPerCall
  IN  kept - drift <= owed /\ owed <= kept + 2 * Grains + drift

(* However the gains lie, an expert that is not picked is explored after   *)
(* at most as many exploring picks as there are other experts: the cursor  *)
(* passes over nobody but who has just been picked.                        *)
NobodyStarves == \A e \in Experts : history.waited[e] < TotalExperts

(* The picks not kept for exploration went to the best: no expert with a   *)
(* gain was left out for one with less, or with the same and a higher id.  *)
BestFirst ==
  [][\A count \in 1 .. TotalExperts : Select(count) =>
       \A i \in answer'.reserved + 1 .. Len(answer'.picks) :
         \A e \in Experts \ Chosen(answer'.picks) :
           gains[e] > 0 => Before(answer'.picks[i], e)]_vars
=============================================================================
