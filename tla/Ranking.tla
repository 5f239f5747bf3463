------------------------------ MODULE Ranking ------------------------------
(***************************************************************************)
(* Which member speed and cheapest call (strategy/speed.rs, cheapest.rs):  *)
(* one query per member, in order, while the probe loop writes samples and *)
(* an operator writes prices.  Throughputs and estimated costs are numbers *)
(* of which only the order matters.                                        *)
(***************************************************************************)
EXTENDS Integers, Sequences

CONSTANTS
    Models,         \* ids of models
    Members,        \* the members of the virtual model, in order
    Top,            \* f64::MAX, above every throughput and cost
    NoOffer         \* a model without a sample, or without a price

ASSUME RankingAssumption ==
    /\ Members \in Seq(Models) /\ Members # <<>>
    /\ Top \in Nat \ {0}
    /\ NoOffer \notin Nat

Offers == 0 .. Top - 1

VARIABLES
    kind,       \* "speed" or "cheapest"
    explore,    \* params.explore
    offer,      \* the average throughput of each model, or its estimated cost, now
    seen,       \* history: what the queries answered, one per member
    best,       \* best_idx, counted from 1
    bestScore   \* best_score or best_cost

vars == <<kind, explore, offer, seen, best, bestScore>>

RankingTypeOK ==
    /\ kind \in {"speed", "cheapest"} /\ explore \in BOOLEAN
    /\ offer \in [Models -> Offers \cup {NoOffer}]
    /\ seen \in Seq(Offers \cup {NoOffer}) /\ Len(seen) <= Len(Members)
    /\ best \in 1 .. Len(Members)
    /\ bestScore \in -1 .. Top

Init ==
    /\ kind \in {"speed", "cheapest"} /\ explore \in BOOLEAN
    /\ offer \in [Models -> Offers \cup {NoOffer}]
    /\ seen = <<>>
    /\ best = 1
    /\ bestScore = IF kind = "speed" THEN -1 ELSE Top

Ranked == Len(seen) = Len(Members)

\* A model without a sample counts as the fastest, to have it explored, or
\* as standing still; one without a price costs more than any other.
Score(o) ==
    CASE o # NoOffer                     -> o
      [] o = NoOffer /\ kind = "speed"   -> IF explore THEN Top ELSE 0
      [] o = NoOffer /\ kind = "cheapest" -> Top

\* Mutant of Improves: a later member wins a tie.
ImprovesOrTies(score) ==
    IF kind = "speed" THEN score >= bestScore ELSE score <= bestScore

Improves(score) ==
    IF kind = "speed" THEN score > bestScore ELSE score < bestScore

\* The next member is looked up and compared.
Look ==
    /\ ~Ranked
    /\ LET o == offer[Members[Len(seen) + 1]]
       IN  /\ seen' = Append(seen, o)
           /\ IF Improves(Score(o))
              THEN best' = Len(seen) + 1 /\ bestScore' = Score(o)
              ELSE UNCHANGED <<best, bestScore>>
    /\ UNCHANGED <<kind, explore, offer>>

\* A sample is written, or a price is set or deleted.
OfferChanges ==
    /\ ~Ranked
    /\ \E m \in Models, o \in Offers \cup {NoOffer} : offer' = [offer EXCEPT ![m] = o]
    /\ UNCHANGED <<kind, explore, seen, best, bestScore>>

Next == Look \/ OfferChanges

\* When all are ranked the best is called, where SingleModel goes on; when a
\* query fails so does the request, and nothing more is ranked.
Spec == Init /\ [][Next]_vars

-----------------------------------------------------------------------------
\* i is to be called rather than j, by what was seen of them.
Preferred(i, j) ==
    LET a == Score(seen[i])
        b == Score(seen[j])
    IN  \/ kind = "speed" /\ a > b
        \/ kind = "cheapest" /\ a < b
        \/ a = b /\ i <= j

\* The member that is called is the best of those seen, the first of equals
\* (the comparison and the starting values of the loops, which f64::MIN and
\* f64::MAX stand for): with explore a model without samples goes first, and
\* one without a price only when no member has one.
ChosenIsBest == Ranked => \A j \in 1 .. Len(Members) : Preferred(best, j)
=============================================================================
