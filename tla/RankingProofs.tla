--------------------------- MODULE RankingProofs ---------------------------
(***************************************************************************)
(* The member that is called is the best of those seen, for every list of  *)
(* members, every order of samples and prices and every edit in between.   *)
(* The loop's invariant: best is the best of what has been seen so far,    *)
(* and bestScore its score.                                                *)
(***************************************************************************)
EXTENDS Ranking, TLAPS

Seen == 1 .. Len(seen)

Leading ==
    IF seen = <<>>
    THEN best = 1 /\ bestScore = (IF kind = "speed" THEN -1 ELSE Top)
    ELSE /\ best \in Seen
         /\ bestScore = Score(seen[best])
         /\ \A j \in Seen : Preferred(best, j)

RankInv == RankingTypeOK /\ Leading

\* Scores are not above Top and not negative (f64::MAX, f64::MIN).
LEMMA ScoreRange ==
    ASSUME kind \in {"speed", "cheapest"}, NEW o \in Offers \cup {NoOffer}
    PROVE  Score(o) \in 0 .. Top
<1>1. CASE o = NoOffer
    BY <1>1, RankingAssumption DEF Score
<1>2. CASE o # NoOffer
    <2>1. Score(o) = o
        BY <1>2 DEF Score
    <2> QED BY <1>2, <2>1, RankingAssumption DEF Offers
<1> QED BY <1>1, <1>2

LEMMA InitLeads == Init => RankInv
<1> SUFFICES ASSUME Init PROVE RankInv
    OBVIOUS
<1> USE RankingAssumption
<1>1. Len(Members) \in Nat \ {0}
    BY DEF Init
<1>2. seen \in Seq(Offers \cup {NoOffer}) /\ Len(seen) = 0
    BY DEF Init
<1>3. RankingTypeOK
    BY <1>1, <1>2 DEF Init, RankingTypeOK
<1>4. Leading
    BY DEF Init, Leading
<1> QED BY <1>3, <1>4 DEF RankInv

\* One more member is compared with the best of those before it.
LEMMA LookLeads == RankInv /\ Look => RankInv'
<1> SUFFICES ASSUME RankInv, Look PROVE RankInv'
    OBVIOUS
<1> USE RankingAssumption
<1> DEFINE n == Len(seen)
           o == offer[Members[n + 1]]
<1>1. n \in Nat /\ Len(Members) \in Nat /\ n + 1 <= Len(Members)
    BY DEF RankInv, RankingTypeOK, Look, Ranked
<1>2. Members[n + 1] \in Models
    BY <1>1
<1>3. o \in Offers \cup {NoOffer}
    BY <1>2 DEF RankInv, RankingTypeOK
<1>4. seen \in Seq(Offers \cup {NoOffer})
    BY DEF RankInv, RankingTypeOK
<1>5. /\ seen' = Append(seen, o)
      /\ UNCHANGED <<kind, explore, offer>>
    BY DEF Look
<1> HIDE DEF o
<1>6. /\ seen' \in Seq(Offers \cup {NoOffer})
      /\ Len(seen') = n + 1
      /\ seen'[n + 1] = o
      /\ \A j \in 1 .. n : seen'[j] = seen[j]
    BY <1>3, <1>4, <1>5
<1>7. kind \in {"speed", "cheapest"} /\ explore \in BOOLEAN
    BY DEF RankInv, RankingTypeOK
<1>8. Score(o) \in 0 .. Top
    BY <1>3, <1>7, ScoreRange
<1>9. \A j \in 1 .. n : seen[j] \in Offers \cup {NoOffer} /\ Score(seen[j]) \in 0 .. Top
    <2> SUFFICES ASSUME NEW j \in 1 .. n
                 PROVE  seen[j] \in Offers \cup {NoOffer} /\ Score(seen[j]) \in 0 .. Top
        OBVIOUS
    <2>1. seen[j] \in Offers \cup {NoOffer}
        BY <1>4
    <2> QED BY <2>1, <1>7, ScoreRange
<1>10. CASE Improves(Score(o))
    <2>1. best' = n + 1 /\ bestScore' = Score(o)
        BY <1>10 DEF Look, o
    <2>2. best' \in 1 .. Len(Members) /\ bestScore' \in -1 .. Top
        BY <1>1, <1>8, <2>1
    <2>3. seen'[best'] = o
        BY <1>6, <2>1
    <2>4. bestScore' = Score(seen[best])'
        BY <1>5, <2>1, <2>3 DEF Score
    <2>5. ASSUME NEW j \in 1 .. n + 1 PROVE Preferred(best, j)'
        <3>1. CASE j = n + 1
            BY <1>5, <2>1, <3>1 DEF Preferred, Score
        <3>2. CASE j \in 1 .. n
            <4>1. Score(seen[j]) \in 0 .. Top /\ seen'[j] = seen[j]
                BY <1>6, <1>9, <3>2
            <4>2. Preferred(best, j) /\ bestScore = Score(seen[best]) /\ best \in 1 .. n
                BY <3>2 DEF RankInv, Leading, Seen
            <4>3. IF kind = "speed" THEN Score(o) > Score(seen[j]) ELSE Score(o) < Score(seen[j])
                BY <1>7, <1>8, <1>9, <1>10, <4>1, <4>2 DEF Preferred, Improves
            <4> QED BY <1>5, <1>7, <2>3, <4>1, <4>3 DEF Preferred, Score
        <3> QED BY <1>1, <3>1, <3>2
    <2> QED BY <1>1, <1>5, <1>6, <1>7, <2>1, <2>2, <2>4, <2>5
            DEF RankInv, RankingTypeOK, Leading, Seen
<1>11. CASE ~Improves(Score(o))
    <2>1. best' = best /\ bestScore' = bestScore
        BY <1>11 DEF Look, o
    <2>2. CASE seen = <<>>
        <3>1. n = 0 /\ best = 1 /\ bestScore = (IF kind = "speed" THEN -1 ELSE Top)
            BY <2>2 DEF RankInv, Leading
        <3>2. kind = "cheapest" /\ Score(o) = Top
            BY <1>7, <1>8, <1>11, <3>1 DEF Improves
        <3>3. seen'[1] = o /\ best' = 1 /\ bestScore' = Score(o)
            BY <1>6, <2>1, <3>1, <3>2
        <3>4. bestScore' = Score(seen[best])'
            BY <1>5, <3>3 DEF Score
        <3>5. \A j \in 1 .. 1 : Preferred(best, j)'
            BY <1>5, <1>7, <3>3 DEF Preferred
        <3> QED BY <1>1, <1>5, <1>6, <1>7, <2>1, <3>1, <3>3, <3>4, <3>5
                DEF RankInv, RankingTypeOK, Leading, Seen
    <2>3. CASE seen # <<>>
        <3>1. /\ best \in 1 .. n /\ bestScore = Score(seen[best])
              /\ \A j \in 1 .. n : Preferred(best, j)
            BY <2>3 DEF RankInv, Leading, Seen
        <3>2. seen'[best'] = seen[best]
            BY <1>6, <2>1, <3>1
        <3>3. bestScore' = Score(seen[best])'
            BY <1>5, <2>1, <3>1, <3>2 DEF Score
        <3>4. ASSUME NEW j \in 1 .. n + 1 PROVE Preferred(best, j)'
            <4>1. CASE j = n + 1
                <5>1. /\ Score(seen[best]) \in 0 .. Top
                      /\ IF kind = "speed" THEN Score(o) <= Score(seen[best])
                         ELSE Score(o) >= Score(seen[best])
                    BY <1>7, <1>8, <1>9, <1>11, <3>1 DEF Improves
                <5> QED BY <1>1, <1>5, <1>6, <1>7, <1>8, <2>1, <3>1, <3>2, <4>1, <5>1
                        DEF Preferred, Score
            <4>2. CASE j \in 1 .. n
                <5>1. seen'[j] = seen[j] /\ Preferred(best, j)
                    BY <1>6, <3>1, <4>2
                <5> QED BY <1>5, <2>1, <3>2, <5>1 DEF Preferred, Score
            <4> QED BY <1>1, <4>1, <4>2
        <3> QED BY <1>1, <1>5, <1>6, <1>7, <2>1, <3>1, <3>3, <3>4
                DEF RankInv, RankingTypeOK, Leading, Seen
    <2> QED BY <2>2, <2>3
<1> QED BY <1>10, <1>11

\* What was seen is not seen again: a later sample or price changes nothing.
LEMMA ChangeLeads == RankInv /\ (OfferChanges \/ UNCHANGED vars) => RankInv'
<1> SUFFICES ASSUME RankInv, OfferChanges \/ UNCHANGED vars PROVE RankInv'
    OBVIOUS
<1>1. UNCHANGED <<kind, explore, seen, best, bestScore>>
    BY DEF OfferChanges, vars
<1>2. offer' \in [Models -> Offers \cup {NoOffer}]
    BY DEF RankInv, RankingTypeOK, OfferChanges, vars
<1>3. RankingTypeOK'
    BY <1>1, <1>2 DEF RankInv, RankingTypeOK
<1>4. Leading'
    BY <1>1 DEF RankInv, Leading, Seen, Preferred, Score
<1> QED BY <1>3, <1>4 DEF RankInv

\* Types of the ranking's locals; best is always the index of a member
\* (speed and cheapest index ctx.members with it).
THEOREM RankingTypeCorrect == Spec => []RankingTypeOK
<1>1. RankInv /\ [Next]_vars => RankInv'
    BY LookLeads, ChangeLeads DEF Next
<1>2. RankInv => RankingTypeOK
    BY DEF RankInv
<1> QED BY InitLeads, <1>1, <1>2, PTL DEF Spec

\* speed and cheapest call the best of the members they looked at, the first
\* of equals.
THEOREM ChosenIsBestForAll == Spec => []ChosenIsBest
<1>1. RankInv /\ [Next]_vars => RankInv'
    BY LookLeads, ChangeLeads DEF Next
<1>2. RankInv => ChosenIsBest
    <2> SUFFICES ASSUME RankInv, Ranked, NEW j \in 1 .. Len(Members)
                 PROVE  Preferred(best, j)
        BY DEF ChosenIsBest
    <2>1. Len(Members) \in Nat \ {0}
        BY RankingAssumption
    <2>2. seen # <<>>
        BY <2>1 DEF Ranked
    <2> QED BY <2>2 DEF RankInv, Leading, Ranked, Seen
<1> QED BY InitLeads, <1>1, <1>2, PTL DEF Spec
=============================================================================
