------------------------ MODULE TranslationProofs ------------------------
(***************************************************************************)
(* What the translations between the protocols do to a request of any      *)
(* length: the operators that walk over a list are shown to satisfy the    *)
(* equations of a fold, and from these their properties follow by          *)
(* induction on the list.                                                  *)
(***************************************************************************)
EXTENDS ExchangeProperties, FiniteSetTheorems, SequenceTheorems, WellFoundedInduction, TLAPS

-----------------------------------------------------------------------------
(* Induction *)

\* Induction over the natural numbers, for a set in place of a predicate.
LEMMA Induction ==
    ASSUME NEW S, 0 \in S, \A n \in Nat : n \in S => n + 1 \in S
    PROVE  \A n \in Nat : n \in S
<1> DEFINE T == {n \in Nat : n \notin S}
<1>1. SUFFICES ASSUME T # {} PROVE FALSE
  BY <1>1
<1>2. IsWellFoundedOn(OpToRel(<, Nat), Nat) BY NatLessThanWellFounded
<1>3. T \subseteq Nat OBVIOUS
<1> HIDE DEF T
<1>4. PICK x \in T : \A y \in T : ~ (<<y, x>> \in OpToRel(<, Nat))
  BY <1>1, <1>2, <1>3, WFMin
<1>5. x \in Nat /\ x \notin S BY DEF T
<1>6. x # 0 BY <1>5
<1>7. x - 1 \in Nat /\ x - 1 < x /\ (x - 1) + 1 = x BY <1>5, <1>6
<1>8. x - 1 \notin S BY <1>5, <1>7
<1>9. x - 1 \in T BY <1>7, <1>8 DEF T
<1>10. <<x - 1, x>> \in OpToRel(<, Nat) BY <1>5, <1>7 DEF OpToRel
<1>11. QED BY <1>4, <1>9, <1>10

LEMMA MaxExists ==
    ASSUME NEW N \in Nat, NEW P \in SUBSET (1 .. N), P # {}
    PROVE  Max(P) \in P /\ \A y \in P : Max(P) >= y
<1> DEFINE S == {n \in Nat : \A Q \in SUBSET (1 .. n) : Q # {} => \E x \in Q : \A y \in Q : x >= y}
<1>1. 0 \in S
  <2>1. 1 .. 0 = {} OBVIOUS
  <2>2. \A Q \in SUBSET (1 .. 0) : Q = {} BY <2>1
  <2>3. QED BY <2>2
<1>2. ASSUME NEW n \in Nat, n \in S PROVE n + 1 \in S
  <2>1. SUFFICES ASSUME NEW Q \in SUBSET (1 .. n + 1), Q # {} PROVE \E x \in Q : \A y \in Q : x >= y
    OBVIOUS
  <2>2. CASE n + 1 \in Q
    <3>1. \A y \in Q : n + 1 >= y OBVIOUS
    <3>2. QED BY <2>2, <3>1
  <2>3. CASE n + 1 \notin Q
    <3>1. Q \in SUBSET (1 .. n) BY <2>3
    <3>2. QED BY <1>2, <2>1, <3>1
  <2>4. QED BY <2>2, <2>3
<1>3. N \in S
  <2> HIDE DEF S
  <2>1. \A n \in Nat : n \in S BY <1>1, <1>2, Induction
  <2>2. QED BY <2>1
<1>4. \E x \in P : \A y \in P : x >= y BY <1>3
<1>5. QED BY <1>4 DEF Max

Folding(f, T, base, N, step) ==
    /\ f \in [SUBSET (1 .. N) -> T]
    /\ f = [P \in SUBSET (1 .. N) |->
              IF P = {} THEN base ELSE step[<<Max(P), f[P \ {Max(P)}]>>]]

LEMMA FoldExists ==
    ASSUME NEW T, NEW base \in T, NEW N \in Nat, NEW step \in [(1 .. N) \X T -> T]
    PROVE  \E f : Folding(f, T, base, N, step)
<1> DEFINE S == {n \in Nat : n <= N => \E f : Folding(f, T, base, n, step)}
<1>1. 0 \in S
  <2> DEFINE f == [P \in SUBSET (1 .. 0) |-> base]
  <2>1. f \in [SUBSET (1 .. 0) -> T] OBVIOUS
  <2>2. \A P \in SUBSET (1 .. 0) : P = {} OBVIOUS
  <2>3. f = [P \in SUBSET (1 .. 0) |-> IF P = {} THEN base ELSE step[<<Max(P), f[P \ {Max(P)}]>>]]
    BY <2>2
  <2>4. Folding(f, T, base, 0, step) BY <2>1, <2>3 DEF Folding
  <2>5. QED BY <2>4
<1>2. ASSUME NEW n \in Nat, n \in S PROVE n + 1 \in S
  <2>1. SUFFICES ASSUME n + 1 <= N PROVE \E f : Folding(f, T, base, n + 1, step)
    OBVIOUS
  <2>2. PICK f : Folding(f, T, base, n, step) BY <1>2, <2>1
  <2> DEFINE g == [P \in SUBSET (1 .. n + 1) |->
                     IF n + 1 \in P THEN step[<<n + 1, f[P \ {n + 1}]>>] ELSE f[P]]
  <2>3. ASSUME NEW P \in SUBSET (1 .. n + 1)
        PROVE  g[P] \in T /\ g[P] = IF P = {} THEN base ELSE step[<<Max(P), g[P \ {Max(P)}]>>]
    <3>1. CASE n + 1 \in P
      <4>1. \A y \in P : n + 1 >= y OBVIOUS
      <4>2. n + 1 \in Nat /\ P # {} BY <3>1
      <4>a. Max(P) \in P /\ \A y \in P : Max(P) >= y BY ONLY <4>2, MaxExists, P \in SUBSET (1 .. n + 1)
      <4>3. Max(P) = n + 1
        <5>1. Max(P) >= n + 1 /\ n + 1 >= Max(P) BY <3>1, <4>1, <4>a
        <5>2. Max(P) \in 1 .. n + 1 BY ONLY <4>a, P \in SUBSET (1 .. n + 1)
        <5> HIDE DEF g
        <5>3. QED BY ONLY <5>1, <5>2, n \in Nat
      <4>4. P \ {n + 1} \in SUBSET (1 .. n) /\ P \ {n + 1} \in SUBSET (1 .. n + 1) OBVIOUS
      <4>5. f[P \ {n + 1}] \in T BY <2>2, <4>4 DEF Folding
      <4>6. step[<<n + 1, f[P \ {n + 1}]>>] \in T BY <2>1, <4>5
      <4>7. g[P \ {n + 1}] = f[P \ {n + 1}] BY <4>4
      <4>8. g[P] = step[<<n + 1, f[P \ {n + 1}]>>] BY <3>1
      <4> HIDE DEF g
      <4>9. QED BY <3>1, <4>3, <4>6, <4>7, <4>8
    <3>2. CASE n + 1 \notin P
      <4>1. P \in SUBSET (1 .. n) BY <3>2
      <4>2. g[P] = f[P] BY <3>2
      <4>3. f[P] \in T /\ f[P] = IF P = {} THEN base ELSE step[<<Max(P), f[P \ {Max(P)}]>>]
        BY <2>2, <4>1 DEF Folding
      <4>4. P \ {Max(P)} \in SUBSET (1 .. n + 1) /\ n + 1 \notin P \ {Max(P)} BY <3>2
      <4>5. g[P \ {Max(P)}] = f[P \ {Max(P)}] BY <4>4
      <4> HIDE DEF g
      <4>6. QED BY <4>2, <4>3, <4>5
    <3>3. QED BY <3>1, <3>2
  <2>4. g = [P \in SUBSET (1 .. n + 1) |-> g[P]] OBVIOUS
  <2> HIDE DEF g
  <2>5. g \in [SUBSET (1 .. n + 1) -> T] BY <2>3, <2>4
  <2>6. g = [P \in SUBSET (1 .. n + 1) |-> IF P = {} THEN base ELSE step[<<Max(P), g[P \ {Max(P)}]>>]]
    BY <2>3, <2>4
  <2>7. Folding(g, T, base, n + 1, step) BY <2>5, <2>6 DEF Folding
  <2>8. QED BY <2>7
<1>3. \A n \in Nat : n \in S
  <2> HIDE DEF S
  <2>1. QED BY <1>1, <1>2, Induction
<1>4. QED BY <1>3


-----------------------------------------------------------------------------
(* Folds over a sequence, as FoldLeft defines them *)

\* f is the function by which FoldLeft defines its value, for an operator that
\* is op on T \X E.
IsFold(f, T, base, op, s) ==
    /\ f = [P \in SUBSET DOMAIN s |-> f[P]]
    /\ f[{}] = base
    /\ \A P \in SUBSET DOMAIN s :
          P # {} /\ f[P \ {Max(P)}] \in T => f[P] = op[<<f[P \ {Max(P)}], s[Max(P)]>>]

IsTypedFold(f, T, base, op, s) ==
    /\ f \in [SUBSET DOMAIN s -> T]
    /\ f[{}] = base
    /\ \A P \in SUBSET DOMAIN s : P # {} => f[P] = op[<<f[P \ {Max(P)}], s[Max(P)]>>]

LEMMA FoldTyped ==
    ASSUME NEW E, NEW T, NEW base \in T, NEW op \in [T \X E -> T], NEW s \in Seq(E)
    PROVE  \E f : IsTypedFold(f, T, base, op, s)
<1> DEFINE N == Len(s)
           step == [p \in (1 .. N) \X T |-> op[<<p[2], s[p[1]]>>]]
<1>1. N \in Nat /\ DOMAIN s = 1 .. N /\ \A i \in 1 .. N : s[i] \in E OBVIOUS
<1>2. \A i \in 1 .. N, x \in T : step[<<i, x>>] = op[<<x, s[i]>>] OBVIOUS
<1>3. step \in [(1 .. N) \X T -> T] BY <1>1
<1> HIDE DEF step, N
<1>4. PICK f : Folding(f, T, base, N, step) BY <1>1, <1>3, FoldExists
<1>5. f \in [SUBSET DOMAIN s -> T] BY <1>1, <1>4 DEF Folding
<1>6. f[{}] = base BY <1>4 DEF Folding
<1>7. ASSUME NEW P \in SUBSET DOMAIN s, P # {}
      PROVE  f[P] = op[<<f[P \ {Max(P)}], s[Max(P)]>>]
  <2>1. f[P] = step[<<Max(P), f[P \ {Max(P)}]>>] BY <1>1, <1>4, <1>7 DEF Folding
  <2>2. Max(P) \in 1 .. N BY <1>1, <1>7, MaxExists
  <2>3. f[P \ {Max(P)}] \in T BY <1>5
  <2>4. QED BY <1>2, <2>1, <2>2, <2>3
<1>8. QED BY <1>5, <1>6, <1>7 DEF IsTypedFold

LEMMA MaxOfPrefix ==
    ASSUME NEW n \in Nat
    PROVE  /\ Max(1 .. n + 1) = n + 1
           /\ (1 .. n + 1) \ {n + 1} = 1 .. n
<1>1. (1 .. n + 1) # {} /\ n + 1 \in 1 .. n + 1 OBVIOUS
<1>2. Max(1 .. n + 1) \in 1 .. n + 1 /\ \A y \in 1 .. n + 1 : Max(1 .. n + 1) >= y
  BY <1>1, MaxExists, n + 1 \in Nat
<1>3. QED BY <1>1, <1>2

\* Along the prefixes of s, f is what op makes of its value one element before.
IsWalk(f, T, op, s) ==
    \A n \in 0 .. Len(s) :
       /\ f[1 .. n] \in T
       /\ n < Len(s) => f[1 .. n + 1] = op[<<f[1 .. n], s[n + 1]>>]

LEMMA FoldWalk ==
    ASSUME NEW E, NEW T, NEW base \in T, NEW op \in [T \X E -> T], NEW s \in Seq(E),
           NEW f, IsFold(f, T, base, op, s)
    PROVE  IsWalk(f, T, op, s)
<1> DEFINE N == Len(s)
           S == {n \in Nat : n <= N => f[1 .. n] \in T}
<1>1. N \in Nat /\ DOMAIN s = 1 .. N /\ \A i \in 1 .. N : s[i] \in E OBVIOUS
<1>2. ASSUME NEW n \in Nat, n + 1 <= N, f[1 .. n] \in T
      PROVE  f[1 .. n + 1] = op[<<f[1 .. n], s[n + 1]>>] /\ f[1 .. n + 1] \in T
  <2>1. (1 .. n + 1) \in SUBSET DOMAIN s /\ (1 .. n + 1) # {}
    <3>1. 1 \in 1 .. n + 1 OBVIOUS
    <3>2. \A i \in 1 .. n + 1 : i \in 1 .. N BY <1>1, <1>2
    <3>3. QED BY <1>1, <3>1, <3>2
  <2>2. Max(1 .. n + 1) = n + 1 /\ (1 .. n + 1) \ {n + 1} = 1 .. n BY MaxOfPrefix
  <2>3. f[1 .. n + 1] = op[<<f[1 .. n], s[n + 1]>>] BY <1>2, <2>1, <2>2 DEF IsFold
  <2>4. s[n + 1] \in E BY <1>1, <1>2
  <2>5. QED BY <1>2, <2>3, <2>4
<1>3. 0 \in S
  <2>1. 1 .. 0 = {} OBVIOUS
  <2>2. QED BY <2>1 DEF IsFold
<1>4. ASSUME NEW n \in Nat, n \in S PROVE n + 1 \in S
  <2>1. SUFFICES ASSUME n + 1 <= N PROVE f[1 .. n + 1] \in T OBVIOUS
  <2>2. f[1 .. n] \in T BY <1>1, <1>4, <2>1
  <2>3. QED BY <1>2, <2>1, <2>2
<1>5. \A n \in Nat : n \in S
  <2> HIDE DEF S
  <2>1. QED BY <1>3, <1>4, Induction
<1>6. \A n \in 0 .. N : f[1 .. n] \in T BY <1>1, <1>5
<1>7. QED
  <2> HIDE DEF N
  <2>1. \A n \in 0 .. N : n \in Nat /\ (n < N => n + 1 <= N) BY <1>1
  <2>2. QED BY <1>2, <1>6, <2>1 DEF N, IsWalk

IsFoldOf(F, E, T, base, op) ==
    \A s \in Seq(E) : \E f : IsFold(f, T, base, op, s) /\ F[s] = f[DOMAIN s]

Equations(F, E, T, base, op) ==
    /\ \A s \in Seq(E) : F[s] \in T
    /\ F[<< >>] = base
    /\ \A s \in Seq(E), x \in E : F[Append(s, x)] = op[<<F[s], x>>]

\* An operator whose values are folds satisfies a fold's equations.
LEMMA FoldEquations ==
    ASSUME NEW E, NEW T, NEW base \in T, NEW op \in [T \X E -> T], NEW F,
           IsFoldOf(F, E, T, base, op)
    PROVE  Equations(F, E, T, base, op)
<1> USE DEF IsFoldOf
<1>1. ASSUME NEW s \in Seq(E) PROVE F[s] \in T
  <2>1. PICK f : IsFold(f, T, base, op, s) /\ F[s] = f[DOMAIN s] OBVIOUS
  <2>2. Len(s) \in 0 .. Len(s) /\ DOMAIN s = 1 .. Len(s) OBVIOUS
  <2>3. f[1 .. Len(s)] \in T BY <2>1, <2>2, FoldWalk DEF IsWalk
  <2>4. QED BY <2>1, <2>2, <2>3
<1>2. F[<< >>] = base
  <2>1. << >> \in Seq(E) /\ DOMAIN << >> = {} OBVIOUS
  <2>2. PICK f : IsFold(f, T, base, op, << >>) /\ F[<< >>] = f[DOMAIN << >>] BY <2>1
  <2>3. QED BY <2>1, <2>2 DEF IsFold
<1>3. ASSUME NEW s \in Seq(E), NEW x \in E
      PROVE  F[Append(s, x)] = op[<<F[s], x>>]
  <2> DEFINE t == Append(s, x)
             n == Len(s)
  <2>1. /\ t \in Seq(E) /\ n \in Nat /\ Len(t) = n + 1 /\ t[n + 1] = x
        /\ \A i \in 1 .. n : t[i] = s[i]
        /\ DOMAIN s = 1 .. n /\ DOMAIN t = 1 .. n + 1
    OBVIOUS
  <2> HIDE DEF t, n
  <2>2. PICK f : IsFold(f, T, base, op, s) /\ F[s] = f[DOMAIN s] OBVIOUS
  <2>3. PICK g : IsFold(g, T, base, op, t) /\ F[t] = g[DOMAIN t] BY <2>1
  <2>4. \A k \in 0 .. Len(s) :
           f[1 .. k] \in T /\ (k < Len(s) => f[1 .. k + 1] = op[<<f[1 .. k], s[k + 1]>>])
    <3>1. IsWalk(f, T, op, s) BY <2>2, FoldWalk
    <3>2. QED BY <3>1 DEF IsWalk
  <2>5. \A k \in 0 .. Len(t) :
           g[1 .. k] \in T /\ (k < Len(t) => g[1 .. k + 1] = op[<<g[1 .. k], t[k + 1]>>])
    <3>1. IsWalk(g, T, op, t) BY <2>1, <2>3, FoldWalk
    <3>2. QED BY <3>1 DEF IsWalk
  <2> DEFINE S == {k \in Nat : k <= n => g[1 .. k] = f[1 .. k]}
  <2>6. 0 \in S
    <3>1. 1 .. 0 = {} OBVIOUS
    <3>2. QED BY <2>2, <2>3, <3>1 DEF IsFold
  <2>7. ASSUME NEW k \in Nat, k \in S PROVE k + 1 \in S
    <3>1. SUFFICES ASSUME k + 1 <= n PROVE g[1 .. k + 1] = f[1 .. k + 1] OBVIOUS
    <3>2. g[1 .. k] = f[1 .. k] BY <2>1, <2>7, <3>1
    <3>3. k \in 0 .. n /\ k < n /\ k \in 0 .. n + 1 /\ k < n + 1 /\ k + 1 \in 1 .. n BY <2>1, <3>1
    <3>4. f[1 .. k + 1] = op[<<f[1 .. k], s[k + 1]>>] BY <2>4, <3>3 DEF n
    <3>5. g[1 .. k + 1] = op[<<g[1 .. k], t[k + 1]>>] BY <2>1, <2>5, <3>3
    <3>6. t[k + 1] = s[k + 1] BY <2>1, <3>3
    <3>7. QED BY <3>2, <3>4, <3>5, <3>6
  <2>8. \A k \in Nat : k \in S
    <3> HIDE DEF S
    <3>1. QED BY <2>6, <2>7, Induction
  <2>9. g[1 .. n] = f[1 .. n] BY <2>1, <2>8
  <2>10. n \in 0 .. Len(t) /\ n < Len(t) BY <2>1
  <2>11. g[1 .. n + 1] = op[<<g[1 .. n], t[n + 1]>>] BY <2>5, <2>10
  <2>12. F[t] = op[<<F[s], x>>] BY <2>1, <2>2, <2>3, <2>9, <2>11
  <2>13. QED BY <2>12 DEF t
<1>4. QED BY <1>1, <1>2, <1>3 DEF Equations

\* Induction over sequences, for a set in place of a predicate.
LEMMA SeqInduction ==
    ASSUME NEW E, NEW G, << >> \in G,
           \A s \in Seq(E), x \in E : s \in G => Append(s, x) \in G
    PROVE  \A s \in Seq(E) : s \in G
<1> DEFINE S == {n \in Nat : \A s \in Seq(E) : Len(s) = n => s \in G}
<1>1. 0 \in S
  <2>1. \A s \in Seq(E) : Len(s) = 0 => s = << >> OBVIOUS
  <2>2. QED BY <2>1
<1>2. ASSUME NEW n \in Nat, n \in S PROVE n + 1 \in S
  <2>1. SUFFICES ASSUME NEW s \in Seq(E), Len(s) = n + 1 PROVE s \in G OBVIOUS
  <2>2. PICK t \in Seq(E), x \in E : s = Append(t, x)
    <3>1. s # << >> BY <2>1
    <3>2. QED BY <2>1, <3>1, SequenceEmptyOrAppend
  <2>3. Len(t) = n BY <2>1, <2>2
  <2>4. t \in G BY <1>2, <2>3
  <2>5. QED BY <2>2, <2>4
<1>3. \A n \in Nat : n \in S
  <2> HIDE DEF S
  <2>1. QED BY <1>1, <1>2, Induction
<1>4. QED
  <2>1. \A s \in Seq(E) : Len(s) \in Nat OBVIOUS
  <2>2. QED BY <1>3, <2>1

-----------------------------------------------------------------------------
(* Only *)

LEMMA OnlyEquations ==
    ASSUME NEW E, NEW S
    PROVE  /\ \A s \in Seq(E) : Only(s, S) \in Seq(E)
           /\ Only(<< >>, S) = << >>
           /\ \A s \in Seq(E), x \in E :
                 Only(Append(s, x), S) = IF x \in S THEN Append(Only(s, S), x) ELSE Only(s, S)
<1> DEFINE T == Seq(E)
           op == [p \in T \X E |-> IF p[2] \in S THEN Append(p[1], p[2]) ELSE p[1]]
           F == [s \in T |-> Only(s, S)]
           IsIt(f, s) == f = [P \in SUBSET DOMAIN s |->
                       IF P = {} THEN << >>
                       ELSE LET i == Max(P) IN
                            IF s[i] \in S THEN Append(f[P \ {i}], s[i]) ELSE f[P \ {i}]]
<1>1. << >> \in T /\ op \in [T \X E -> T] OBVIOUS
<1>2. \A t \in T, x \in E : op[<<t, x>>] = IF x \in S THEN Append(t, x) ELSE t OBVIOUS
<1> HIDE DEF op
<1>3. ASSUME NEW s \in Seq(E)
      PROVE  \E f : IsFold(f, T, << >>, op, s) /\ F[s] = f[DOMAIN s]
  <2>1. PICK f : IsTypedFold(f, T, << >>, op, s) BY <1>1, FoldTyped
  <2>2. ASSUME NEW P \in SUBSET DOMAIN s, P # {}
        PROVE  s[Max(P)] \in E
    <3>1. Len(s) \in Nat /\ DOMAIN s = 1 .. Len(s) OBVIOUS
    <3>2. Max(P) \in DOMAIN s BY <2>2, <3>1, MaxExists
    <3>3. QED BY <3>2
  <2>3. IsIt(f, s) BY <1>2, <2>1, <2>2 DEF IsTypedFold
  <2>4. Only(s, S) = (CHOOSE g : IsIt(g, s))[DOMAIN s] BY DEF Only, FoldLeft, MapThenFoldSet
  <2> DEFINE h == CHOOSE g : IsIt(g, s)
  <2> HIDE DEF IsIt
  <2>5. IsIt(h, s) BY <2>3
  <2> HIDE DEF h
  <2> USE DEF IsIt
  <2>6. IsFold(h, T, << >>, op, s) BY <1>2, <2>2, <2>5 DEF IsFold
  <2>7. QED BY <2>4, <2>6 DEF h
<1> HIDE DEF F
<1>4. IsFoldOf(F, E, T, << >>, op) BY <1>3 DEF IsFoldOf
<1>5. Equations(F, E, T, << >>, op) BY <1>1, <1>4, FoldEquations
<1>6. \A s \in T : F[s] = Only(s, S) BY DEF F
<1>7. \A s \in T, x \in E : Append(s, x) \in T OBVIOUS
<1>8. \A s \in T : Only(s, S) \in T BY <1>5, <1>6 DEF Equations
<1>9. Only(<< >>, S) = << >> BY <1>1, <1>5, <1>6 DEF Equations
<1>10. ASSUME NEW s \in T, NEW x \in E
       PROVE  Only(Append(s, x), S) = IF x \in S THEN Append(Only(s, S), x) ELSE Only(s, S)
  <2>1. F[Append(s, x)] = op[<<F[s], x>>] BY <1>5, <1>10 DEF Equations
  <2>2. F[Append(s, x)] = Only(Append(s, x), S) /\ F[s] = Only(s, S) BY <1>6, <1>7, <1>10
  <2>3. QED BY <1>2, <1>8, <2>1, <2>2
<1>11. QED BY <1>8, <1>9, <1>10

LEMMA OnlyEmpty == ASSUME NEW S PROVE Only(<< >>, S) = << >>
BY OnlyEquations

LEMMA OnlyType ==
    ASSUME NEW E, NEW S, NEW s \in Seq(E)
    PROVE  Only(s, S) \in Seq(E)
BY OnlyEquations

LEMMA OnlyAppend ==
    ASSUME NEW E, NEW S, NEW s \in Seq(E), NEW x \in E
    PROVE  Only(Append(s, x), S) = IF x \in S THEN Append(Only(s, S), x) ELSE Only(s, S)
BY OnlyEquations

LEMMA OnlyWithin ==
    ASSUME NEW E, NEW S
    PROVE  \A s \in Seq(E) : Only(s, S) \in Seq(E \cap S)
<1> DEFINE G == {s \in Seq(E) : Only(s, S) \in Seq(E \cap S)}
<1>1. << >> \in G
  <2>1. Only(<< >>, S) = << >> BY OnlyEmpty
  <2>2. << >> \in Seq(E) /\ << >> \in Seq(E \cap S) OBVIOUS
  <2>3. Only(<< >>, S) \in Seq(E \cap S) BY <2>1, <2>2
  <2>4. QED BY <2>2, <2>3
<1>2. ASSUME NEW s \in Seq(E), NEW x \in E, s \in G PROVE Append(s, x) \in G
  <2>1. Only(Append(s, x), S) = IF x \in S THEN Append(Only(s, S), x) ELSE Only(s, S)
    BY OnlyAppend
  <2>2. QED BY <1>2, <2>1
<1>3. QED
  <2>1. \A s \in Seq(E) : s \in G
    <3> HIDE DEF G
    <3>1. QED BY <1>1, <1>2, SeqInduction
  <2>2. QED BY <2>1

LEMMA OnlyAll ==
    ASSUME NEW S
    PROVE  \A s \in Seq(S) : Only(s, S) = s
<1> DEFINE G == {s \in Seq(S) : Only(s, S) = s}
<1>1. << >> \in G BY OnlyEmpty
<1>2. ASSUME NEW s \in Seq(S), NEW x \in S, s \in G PROVE Append(s, x) \in G
  <2>1. Only(Append(s, x), S) = Append(Only(s, S), x) BY OnlyAppend
  <2>2. QED BY <1>2, <2>1
<1>3. QED
  <2>1. \A s \in Seq(S) : s \in G
    <3> HIDE DEF G
    <3>1. QED BY <1>1, <1>2, SeqInduction
  <2>2. QED BY <2>1

LEMMA OnlyNone ==
    ASSUME NEW E, NEW S, E \cap S = {}
    PROVE  \A s \in Seq(E) : Only(s, S) = << >>
<1>1. SUFFICES ASSUME NEW s \in Seq(E) PROVE Only(s, S) = << >> OBVIOUS
<1>2. Only(s, S) \in Seq({}) BY OnlyWithin
<1>3. QED BY <1>2

LEMMA OnlyConcat ==
    ASSUME NEW E, NEW S, NEW a \in Seq(E)
    PROVE  \A b \in Seq(E) : Only(a \o b, S) = Only(a, S) \o Only(b, S)
<1> DEFINE G == {b \in Seq(E) : Only(a \o b, S) = Only(a, S) \o Only(b, S)}
<1>0. Only(a, S) \in Seq(E) BY OnlyType
<1>1. << >> \in G
  <2>1. a \o << >> = a OBVIOUS
  <2>2. Only(<< >>, S) = << >> BY OnlyEmpty
  <2>3. Only(a, S) \o << >> = Only(a, S) BY <1>0, ConcatEmptySeq
  <2>4. Only(a \o << >>, S) = Only(a, S) \o Only(<< >>, S) BY ONLY <2>1, <2>2, <2>3
  <2>5. << >> \in Seq(E) OBVIOUS
  <2>6. QED BY <2>4, <2>5
<1>2. ASSUME NEW b \in Seq(E), NEW x \in E, b \in G PROVE Append(b, x) \in G
  <2>1. a \o b \in Seq(E) /\ a \o Append(b, x) = Append(a \o b, x) OBVIOUS
  <2>2. Only(b, S) \in Seq(E) BY OnlyType
  <2>3. Only(a, S) \o Append(Only(b, S), x) = Append(Only(a, S) \o Only(b, S), x)
    BY <1>0, <2>2
  <2>4. Only(Append(b, x), S) = IF x \in S THEN Append(Only(b, S), x) ELSE Only(b, S)
    BY OnlyAppend
  <2>5. Only(Append(a \o b, x), S) =
          IF x \in S THEN Append(Only(a \o b, S), x) ELSE Only(a \o b, S)
    <3>1. a \o b \in Seq(E) BY <2>1
    <3>2. \A t \in Seq(E) :
             Only(Append(t, x), S) = IF x \in S THEN Append(Only(t, S), x) ELSE Only(t, S)
      BY OnlyAppend
    <3>3. QED BY <3>1, <3>2
  <2>6. Only(a \o Append(b, x), S) = Only(a, S) \o Only(Append(b, x), S)
    BY <1>2, <2>1, <2>3, <2>4, <2>5
  <2>7. QED BY <2>6
<1>3. QED
  <2>1. \A s \in Seq(E) : s \in G
    <3> HIDE DEF G
    <3>1. QED BY <1>1, <1>2, SeqInduction
  <2>2. QED BY <2>1

\* A filter may come before or after a change of every element.
Mapped(g, s) == [i \in DOMAIN s |-> g[s[i]]]

LEMMA MappedType ==
    ASSUME NEW D, NEW E, NEW g \in [D -> E], NEW s \in Seq(D)
    PROVE  Mapped(g, s) \in Seq(E) /\ Len(Mapped(g, s)) = Len(s)
BY DEF Mapped

LEMMA MappedAppend ==
    ASSUME NEW D, NEW E, NEW g \in [D -> E], NEW s \in Seq(D), NEW x \in D
    PROVE  Mapped(g, Append(s, x)) = Append(Mapped(g, s), g[x])
<1> DEFINE long == Append(s, x)
           one == Mapped(g, long)
           two == Append(Mapped(g, s), g[x])
<1>1. long \in Seq(D) /\ Len(long) = Len(s) + 1 OBVIOUS
<1>2. Mapped(g, s) \in Seq(E) /\ Len(Mapped(g, s)) = Len(s) BY DEF Mapped
<1>3. one \in Seq(E) /\ Len(one) = Len(s) + 1
  <2>1. \A t \in Seq(D) : Mapped(g, t) \in Seq(E) /\ Len(Mapped(g, t)) = Len(t) BY DEF Mapped
  <2> HIDE DEF long
  <2>2. QED BY <1>1, <2>1
<1>4. two \in Seq(E) /\ Len(two) = Len(s) + 1 BY <1>2
<1>5. ASSUME NEW i \in 1 .. Len(s) + 1 PROVE one[i] = two[i]
  BY <1>1, <1>2 DEF Mapped
<1>6. QED BY <1>3, <1>4, <1>5, SeqEqual

\* g changes elements of D into elements of E, those of R into those of S.
Separates(g, D, E, R, S) ==
    g \in [D -> E] /\ \A x \in D : g[x] \in S <=> x \in R

LEMMA OnlyMapped ==
    ASSUME NEW D, NEW E, NEW g, NEW R, NEW S, Separates(g, D, E, R, S)
    PROVE  \A s \in Seq(D) : Only(Mapped(g, s), S) = Mapped(g, Only(s, R))
<1> DEFINE G == {s \in Seq(D) : Only(Mapped(g, s), S) = Mapped(g, Only(s, R))}
<1>0. g \in [D -> E] /\ \A x \in D : g[x] \in S <=> x \in R BY DEF Separates
<1>1. << >> \in G
  <2>1. Only(<< >>, S) = << >> /\ Only(<< >>, R) = << >> BY OnlyEmpty
  <2>2. Mapped(g, << >>) = << >> BY DEF Mapped
  <2>3. QED BY <2>1, <2>2
<1>2. ASSUME NEW s \in Seq(D), NEW x \in D, s \in G PROVE Append(s, x) \in G
  <2>1. Mapped(g, s) \in Seq(E) /\ Mapped(g, Append(s, x)) = Append(Mapped(g, s), g[x])
    BY <1>0, MappedType, MappedAppend
  <2>2. Only(Append(Mapped(g, s), g[x]), S) =
          IF g[x] \in S THEN Append(Only(Mapped(g, s), S), g[x]) ELSE Only(Mapped(g, s), S)
    BY <1>0, <2>1, OnlyAppend
  <2>3. Only(s, R) \in Seq(D) BY OnlyType
  <2>4. Only(Append(s, x), R) = IF x \in R THEN Append(Only(s, R), x) ELSE Only(s, R)
    BY OnlyAppend
  <2>5. Mapped(g, Append(Only(s, R), x)) = Append(Mapped(g, Only(s, R)), g[x])
    BY <1>0, <2>3, MappedAppend
  <2>6. Only(Mapped(g, Append(s, x)), S) = Mapped(g, Only(Append(s, x), R))
    BY <1>2, <2>1, <2>2, <2>4, <2>5, <1>0
  <2>7. QED BY <2>6
<1>3. QED
  <2>1. \A s \in Seq(D) : s \in G
    <3> HIDE DEF G
    <3>1. QED BY <1>1, <1>2, SeqInduction
  <2>2. QED BY <2>1

-----------------------------------------------------------------------------
(* FlattenSeq *)

LEMMA FlattenWalk ==
    ASSUME NEW E, NEW op, op = [p \in Seq(E) \X Seq(E) |-> p[1] \o p[2]],
           NEW ss \in Seq(Seq(E)), NEW f, IsWalk(f, Seq(E), op, ss), f[1 .. 0] = << >>
    PROVE  FlattenSeq(ss) = f[1 .. Len(ss)]
<1> DEFINE n == Len(ss)
           IsIt(h) == h = [i \in 1 .. n |-> IF i = 1 THEN ss[i] ELSE h[i - 1] \o ss[i]]
<1>1. n \in Nat /\ (n = 0 => ss = << >>) /\ \A i \in 1 .. n : ss[i] \in Seq(E) OBVIOUS
<1>2. \A i \in 0 .. n : f[1 .. i] \in Seq(E) BY DEF IsWalk
<1> HIDE DEF n
<1>3. \A i \in 1 .. n : f[1 .. i] = f[1 .. i - 1] \o ss[i]
  <2>1. SUFFICES ASSUME NEW i \in 1 .. n PROVE f[1 .. i] = f[1 .. i - 1] \o ss[i] OBVIOUS
  <2>2. i - 1 \in 0 .. n /\ i - 1 < n /\ (i - 1) + 1 = i BY <1>1
  <2>3. f[1 .. (i - 1) + 1] = op[<<f[1 .. i - 1], ss[(i - 1) + 1]>>]
    BY <2>2 DEF IsWalk, n
  <2>4. f[1 .. i - 1] \in Seq(E) /\ ss[i] \in Seq(E) BY <1>1, <1>2, <2>2
  <2>5. op[<<f[1 .. i - 1], ss[i]>>] = f[1 .. i - 1] \o ss[i] BY <2>4
  <2>6. QED BY <2>2, <2>3, <2>5
<1>4. CASE n = 0
  <2>1. FlattenSeq(ss) = << >> BY <1>1, <1>4 DEF FlattenSeq, n
  <2>2. QED BY <1>4, <2>1 DEF n
<1>5. CASE n # 0
  <2> DEFINE g == [i \in 1 .. n |-> f[1 .. i]]
             h == CHOOSE h : IsIt(h)
  <2>1. 1 \in 1 .. n BY <1>1, <1>5
  <2>2. f[1 .. 1] = ss[1]
    <3>1. f[1 .. 1] = f[1 .. 1 - 1] \o ss[1] BY <1>3, <2>1
    <3>2. f[1 .. 1 - 1] = << >> OBVIOUS
    <3>3. ss[1] \in Seq(E) BY <1>1, <2>1
    <3>4. QED BY <3>1, <3>2, <3>3, ConcatEmptySeq
  <2>3. \A i \in 1 .. n : i # 1 => i - 1 \in 1 .. n BY <1>1
  <2>4. IsIt(g) BY <1>3, <2>2, <2>3
  <2>5. FlattenSeq(ss) = h[n] BY <1>5 DEF FlattenSeq, n
  <2> HIDE DEF IsIt
  <2>6. IsIt(h) BY <2>4
  <2> HIDE DEF h
  <2> USE DEF IsIt
  <2> DEFINE S == {i \in Nat : i + 1 \in 1 .. n => h[i + 1] = f[1 .. i + 1]}
  <2>7. 0 \in S BY <2>1, <2>2, <2>6
  <2>8. ASSUME NEW i \in Nat, i \in S PROVE i + 1 \in S
    <3>1. SUFFICES ASSUME (i + 1) + 1 \in 1 .. n PROVE h[(i + 1) + 1] = f[1 .. (i + 1) + 1] OBVIOUS
    <3>2. i + 1 \in 1 .. n /\ ((i + 1) + 1) - 1 = i + 1 /\ (i + 1) + 1 # 1 BY <1>1, <3>1
    <3>3. h[i + 1] = f[1 .. i + 1] BY <2>8, <3>2
    <3>4. h[(i + 1) + 1] = h[i + 1] \o ss[(i + 1) + 1] BY <2>6, <3>1, <3>2
    <3>5. f[1 .. (i + 1) + 1] = f[1 .. i + 1] \o ss[(i + 1) + 1] BY <1>3, <3>1, <3>2
    <3>6. QED BY <3>3, <3>4, <3>5
  <2>9. \A i \in Nat : i \in S
    <3> HIDE DEF S
    <3>1. QED BY <2>7, <2>8, Induction
  <2>10. n - 1 \in Nat /\ (n - 1) + 1 = n /\ n \in 1 .. n BY <1>1, <1>5
  <2>11. h[n] = f[1 .. n] BY <2>9, <2>10
  <2>12. QED BY <2>5, <2>11 DEF n
<1>6. QED BY <1>4, <1>5

LEMMA FlattenEquations ==
    ASSUME NEW E
    PROVE  /\ \A ss \in Seq(Seq(E)) : FlattenSeq(ss) \in Seq(E)
           /\ FlattenSeq(<< >>) = << >>
           /\ \A ss \in Seq(Seq(E)), t \in Seq(E) :
                 FlattenSeq(Append(ss, t)) = FlattenSeq(ss) \o t
<1> DEFINE T == Seq(E)
           op == [p \in T \X T |-> p[1] \o p[2]]
           F == [ss \in Seq(T) |-> FlattenSeq(ss)]
<1>1. << >> \in T /\ op \in [T \X T -> T] OBVIOUS
<1>2. \A t, u \in T : op[<<t, u>>] = t \o u OBVIOUS
<1>a. op = [p \in T \X T |-> p[1] \o p[2]] OBVIOUS
<1> HIDE DEF op
<1>3. ASSUME NEW ss \in Seq(T)
      PROVE  \E f : IsFold(f, T, << >>, op, ss) /\ F[ss] = f[DOMAIN ss]
  <2>1. PICK f : IsTypedFold(f, T, << >>, op, ss) BY <1>1, FoldTyped
  <2>2. IsFold(f, T, << >>, op, ss) BY <2>1 DEF IsFold, IsTypedFold
  <2>3. IsWalk(f, T, op, ss) BY <1>1, <2>2, FoldWalk
  <2>4. 1 .. 0 = {} /\ DOMAIN ss = 1 .. Len(ss) OBVIOUS
  <2>5. f[1 .. 0] = << >> BY <2>1, <2>4 DEF IsTypedFold
  <2>6. FlattenSeq(ss) = f[1 .. Len(ss)] BY <1>a, <2>3, <2>5, FlattenWalk
  <2>7. QED BY <2>2, <2>4, <2>6
<1> HIDE DEF F
<1>4. IsFoldOf(F, T, T, << >>, op) BY <1>3 DEF IsFoldOf
<1>5. Equations(F, T, T, << >>, op) BY <1>1, <1>4, FoldEquations
<1>6. \A ss \in Seq(T) : F[ss] = FlattenSeq(ss) BY DEF F
<1>7. \A ss \in Seq(T), t \in T : Append(ss, t) \in Seq(T) OBVIOUS
<1>8. \A ss \in Seq(T) : FlattenSeq(ss) \in T BY <1>5, <1>6 DEF Equations
<1>9. FlattenSeq(<< >>) = << >> BY <1>5, <1>6, << >> \in Seq(T) DEF Equations
<1>10. ASSUME NEW ss \in Seq(T), NEW t \in T
       PROVE  FlattenSeq(Append(ss, t)) = FlattenSeq(ss) \o t
  <2>1. F[Append(ss, t)] = op[<<F[ss], t>>] BY <1>5, <1>10 DEF Equations
  <2>2. F[Append(ss, t)] = FlattenSeq(Append(ss, t)) /\ F[ss] = FlattenSeq(ss) BY <1>6, <1>7, <1>10
  <2>3. QED BY <1>2, <1>8, <2>1, <2>2
<1>11. QED BY <1>8, <1>9, <1>10

LEMMA FlattenType ==
    ASSUME NEW E, NEW ss \in Seq(Seq(E))
    PROVE  FlattenSeq(ss) \in Seq(E)
BY FlattenEquations

LEMMA FlattenEmpty == FlattenSeq(<< >>) = << >>
BY FlattenEquations

LEMMA FlattenAppend ==
    ASSUME NEW E, NEW ss \in Seq(Seq(E)), NEW t \in Seq(E)
    PROVE  FlattenSeq(Append(ss, t)) = FlattenSeq(ss) \o t
BY FlattenEquations

-----------------------------------------------------------------------------
(* The system texts, joined *)

Joined(items) == FoldLeft(JoinSystem, << >>, items)

Texts(items) == [i \in DOMAIN items |-> items[i].text]

JoinedTexts == Seq(Words \cup {NewLine})

LEMMA JoinSystemType ==
    ASSUME NEW joined \in JoinedTexts, NEW item \in Items
    PROVE  JoinSystem(joined, item) \in JoinedTexts
<1>1. item.text \in JoinedTexts BY DEF Items, JoinedTexts
<1>2. <<NewLine>> \in JoinedTexts BY DEF JoinedTexts
<1>3. joined \o <<NewLine>> \o item.text \in JoinedTexts BY <1>1, <1>2 DEF JoinedTexts
<1>4. QED BY <1>1, <1>3 DEF JoinSystem

LEMMA JoinedEquations ==
    /\ \A items \in Seq(Items) : Joined(items) \in JoinedTexts
    /\ Joined(<< >>) = << >>
    /\ \A items \in Seq(Items), item \in Items :
          Joined(Append(items, item)) = JoinSystem(Joined(items), item)
<1> DEFINE T == JoinedTexts
           op == [p \in T \X Items |-> JoinSystem(p[1], p[2])]
           F == [s \in Seq(Items) |-> Joined(s)]
           IsIt(f, s) == f = [P \in SUBSET DOMAIN s |->
                       IF P = {} THEN << >>
                       ELSE LET i == Max(P) IN JoinSystem(f[P \ {i}], s[i])]
<1>0. op \in [T \X Items -> T]
  <2>1. \A p \in T \X Items : JoinSystem(p[1], p[2]) \in T BY JoinSystemType
  <2>2. QED BY <2>1
<1>1. << >> \in T /\ op \in [T \X Items -> T] BY <1>0 DEF JoinedTexts
<1>2. \A t \in T, x \in Items : op[<<t, x>>] = JoinSystem(t, x) OBVIOUS
<1> HIDE DEF op
<1>3. ASSUME NEW s \in Seq(Items)
      PROVE  \E f : IsFold(f, T, << >>, op, s) /\ F[s] = f[DOMAIN s]
  <2>1. PICK f : IsTypedFold(f, T, << >>, op, s) BY <1>1, FoldTyped
  <2>2. ASSUME NEW P \in SUBSET DOMAIN s, P # {}
        PROVE  s[Max(P)] \in Items
    <3>1. Len(s) \in Nat /\ DOMAIN s = 1 .. Len(s) OBVIOUS
    <3>2. Max(P) \in DOMAIN s BY <2>2, <3>1, MaxExists
    <3>3. QED BY <3>2
  <2>3. IsIt(f, s) BY <1>2, <2>1, <2>2 DEF IsTypedFold
  <2>4. Joined(s) = (CHOOSE g : IsIt(g, s))[DOMAIN s] BY DEF Joined, FoldLeft, MapThenFoldSet
  <2> DEFINE h == CHOOSE g : IsIt(g, s)
  <2> HIDE DEF IsIt
  <2>5. IsIt(h, s) BY <2>3
  <2> HIDE DEF h
  <2> USE DEF IsIt
  <2>6. IsFold(h, T, << >>, op, s) BY <1>2, <2>2, <2>5 DEF IsFold
  <2>7. QED BY <2>4, <2>6 DEF h
<1> HIDE DEF F
<1>4. IsFoldOf(F, Items, T, << >>, op) BY <1>3 DEF IsFoldOf
<1>5. Equations(F, Items, T, << >>, op) BY <1>1, <1>4, FoldEquations
<1>6. \A s \in Seq(Items) : F[s] = Joined(s) BY DEF F
<1>7. \A s \in Seq(Items), x \in Items : Append(s, x) \in Seq(Items) OBVIOUS
<1>8. \A s \in Seq(Items) : Joined(s) \in T BY <1>5, <1>6 DEF Equations
<1>9. Joined(<< >>) = << >> BY <1>5, <1>6, << >> \in Seq(Items) DEF Equations
<1>10. ASSUME NEW s \in Seq(Items), NEW x \in Items
       PROVE  Joined(Append(s, x)) = JoinSystem(Joined(s), x)
  <2>1. F[Append(s, x)] = op[<<F[s], x>>] BY <1>5, <1>10 DEF Equations
  <2>2. F[Append(s, x)] = Joined(Append(s, x)) /\ F[s] = Joined(s) BY <1>6, <1>7, <1>10
  <2>3. QED BY <1>2, <1>8, <2>1, <2>2
<1>11. QED BY <1>8, <1>9, <1>10

LEMMA TextsEquations ==
    /\ \A items \in Seq(Items) : Texts(items) \in Seq(Seq(Words))
    /\ Texts(<< >>) = << >>
    /\ \A items \in Seq(Items), item \in Items :
          Texts(Append(items, item)) = Append(Texts(items), item.text)
<1> DEFINE text == [item \in Items |-> item.text]
<1>1. text \in [Items -> Seq(Words)] BY DEF Items
<1>2. \A items \in Seq(Items) : Texts(items) = Mapped(text, items)
  <2>1. ASSUME NEW items \in Seq(Items) PROVE Texts(items) = Mapped(text, items)
    <3>1. \A i \in DOMAIN items : items[i] \in Items OBVIOUS
    <3>2. \A i \in DOMAIN items : items[i].text = text[items[i]] BY <3>1
    <3>3. QED BY <3>2 DEF Texts, Mapped
  <2>2. QED BY <2>1
<1>3. \A items \in Seq(Items), item \in Items :
         Append(items, item) \in Seq(Items) /\ text[item] = item.text
  OBVIOUS
<1> HIDE DEF text
<1>4. \A items \in Seq(Items) : Texts(items) \in Seq(Seq(Words)) BY <1>1, <1>2, MappedType
<1>5. ASSUME NEW items \in Seq(Items), NEW item \in Items
      PROVE  Texts(Append(items, item)) = Append(Texts(items), item.text)
  <2>1. Mapped(text, Append(items, item)) = Append(Mapped(text, items), text[item])
    BY <1>1, MappedAppend
  <2>2. QED BY <1>2, <1>3, <2>1
<1>6. Texts(<< >>) = << >> BY DEF Texts
<1>7. QED BY <1>4, <1>5, <1>6

\* Joining adds separators and nothing else.
LEMMA JoinedWords ==
    \A items \in Seq(Items) : Only(Joined(items), Words) = FlattenSeq(Texts(items))
<1> DEFINE G == {items \in Seq(Items) : Only(Joined(items), Words) = FlattenSeq(Texts(items))}
           W == Words \cup {NewLine}
<1>1. << >> \in G
  <2>1. Joined(<< >>) = << >> /\ Texts(<< >>) = << >> BY JoinedEquations, TextsEquations
  <2>2. Only(<< >>, Words) = << >> /\ FlattenSeq(<< >>) = << >> BY OnlyEmpty, FlattenEmpty
  <2>3. Only(Joined(<< >>), Words) = FlattenSeq(Texts(<< >>)) BY ONLY <2>1, <2>2
  <2>4. << >> \in Seq(Items) OBVIOUS
  <2>5. QED BY <2>3, <2>4
<1>2. ASSUME NEW items \in Seq(Items), NEW item \in Items, items \in G
      PROVE  Append(items, item) \in G
  <2> DEFINE joined == Joined(items)
             text == item.text
  <2>1. joined \in Seq(W) BY JoinedEquations DEF JoinedTexts
  <2>2. text \in Seq(Words) /\ text \in Seq(W) BY DEF Items
  <2>3. Texts(items) \in Seq(Seq(Words)) BY TextsEquations
  <2>4. Only(joined, Words) = FlattenSeq(Texts(items)) BY <1>2
  <2>5. FlattenSeq(Texts(Append(items, item))) = FlattenSeq(Texts(items)) \o text
    <3>1. Texts(Append(items, item)) = Append(Texts(items), text) BY TextsEquations
    <3>2. QED BY <2>2, <2>3, <3>1, FlattenAppend
  <2>6. Joined(Append(items, item)) = JoinSystem(joined, item) BY JoinedEquations
  <2>7. Only(text, Words) = text BY <2>2, OnlyAll
  <2>8. Only(JoinSystem(joined, item), Words) = Only(joined, Words) \o text
    <3> HIDE DEF joined, text
    <3>1. CASE joined = << >>
      <4>1. JoinSystem(joined, item) = text BY <3>1 DEF JoinSystem, text
      <4>2. Only(joined, Words) = << >> BY <3>1, OnlyEmpty
      <4>3. QED BY <2>2, <2>7, <4>1, <4>2, ConcatEmptySeq
    <3>2. CASE joined # << >>
      <4>1. JoinSystem(joined, item) = joined \o <<NewLine>> \o text
        BY <3>2 DEF JoinSystem, text
      <4>2. <<NewLine>> \in Seq(W) /\ <<NewLine>> \in Seq({NewLine}) OBVIOUS
      <4>3. Only(<<NewLine>>, Words) = << >>
        <5>1. {NewLine} \cap Words = {} BY TranslationAssumption
        <5>2. QED BY <4>2, <5>1, OnlyNone
      <4>4. joined \o <<NewLine>> \in Seq(W) BY <2>1, <4>2
      <4>5. Only(joined \o <<NewLine>>, Words) = Only(joined, Words) \o Only(<<NewLine>>, Words)
        BY <2>1, <4>2, OnlyConcat
      <4>6. Only(joined \o <<NewLine>> \o text, Words)
              = Only(joined \o <<NewLine>>, Words) \o Only(text, Words)
        <5> DEFINE front == joined \o <<NewLine>>
        <5> HIDE DEF front
        <5>1. front \in Seq(W) BY <4>4 DEF front
        <5>2. Only(front \o text, Words) = Only(front, Words) \o Only(text, Words)
          BY <2>2, <5>1, OnlyConcat
        <5>3. QED BY <5>2 DEF front
      <4>7. Only(joined, Words) \in Seq(W) BY <2>1, OnlyType
      <4>8. Only(joined, Words) \o << >> = Only(joined, Words) BY <4>7, ConcatEmptySeq
      <4>9. QED BY <2>7, <4>1, <4>3, <4>5, <4>6, <4>8
    <3>3. QED BY <3>1, <3>2
  <2>9. Append(items, item) \in Seq(Items) OBVIOUS
  <2>10. QED BY <2>4, <2>5, <2>6, <2>8, <2>9
<1>3. QED
  <2>1. \A items \in Seq(Items) : items \in G
    <3> HIDE DEF G
    <3>1. QED BY <1>1, <1>2, SeqInduction
  <2>2. QED BY <2>1

-----------------------------------------------------------------------------
(* Ingress *)

\* What the items of a request say: its instructions, and all the rest.
Instructed(items) == FlattenSeq(Texts(Only(items, SystemItems)))

Others(items) == Only(items, Items \ SystemItems)

LEMMA WordsOnly ==
    ASSUME NEW content \in Contents
    PROVE  ContentToText(content) \in Seq(Words) /\ ContentToText(content) = OnlyWords(content.parts)
<1>1. content.parts \in Seq(Words \cup {Image}) BY ExchangeAssumption
<1>2. Only(content.parts, Words) \in Seq((Words \cup {Image}) \cap Words) BY <1>1, OnlyWithin
<1>3. (Words \cup {Image}) \cap Words = Words OBVIOUS
<1>4. Only(content.parts, Words) \in Seq(Words) BY <1>2, <1>3
<1>5. QED BY <1>4 DEF ContentToText, OnlyWords

LEMMA ConversationType ==
    ASSUME NEW client, NEW b \in Bodies(client)
    PROVE  b.messages \in Seq(Messages)
<1>1. b.messages \in Conversations BY DEF Bodies
<1>2. PICK n \in 0 .. MaxMessages : b.messages \in [1 .. n -> Messages]
  BY <1>1 DEF Conversations
<1>3. n \in Nat BY <1>2, ExchangeAssumption
<1>4. QED BY <1>2, <1>3

\* A message as chat completions and responses take it in.
OpenAiItem == [m \in Messages |->
    Message(IF m.role \in {"system", "assistant", "tool"} THEN m.role ELSE "user",
            ContentToText(m.content))]

LEMMA OpenAiItemIs ==
    /\ OpenAiItem \in [Messages -> Items]
    /\ \A m \in Messages :
          /\ OpenAiItem[m] \in SystemItems <=> m.role = "system"
          /\ OpenAiItem[m].text = OnlyWords(m.content.parts)
          /\ OpenAiItem[m].role = "assistant" <=> m.role = "assistant"
<1>1. ASSUME NEW m \in Messages
      PROVE  /\ OpenAiItem[m] \in Items
             /\ OpenAiItem[m] \in SystemItems <=> m.role = "system"
             /\ OpenAiItem[m].text = OnlyWords(m.content.parts)
             /\ OpenAiItem[m].role = "assistant" <=> m.role = "assistant"
  <2> DEFINE role == IF m.role \in {"system", "assistant", "tool"} THEN m.role ELSE "user"
             text == ContentToText(m.content)
  <2>1. text \in Seq(Words) /\ text = OnlyWords(m.content.parts) BY WordsOnly DEF Messages
  <2>2. OpenAiItem[m] = [role |-> role, text |-> text] BY DEF OpenAiItem, Message
  <2>3. role \in ItemRoles BY DEF ItemRoles
  <2>4. (role = "system" <=> m.role = "system") /\ (role = "assistant" <=> m.role = "assistant")
    OBVIOUS
  <2> HIDE DEF role, text
  <2>5. QED BY <2>1, <2>2, <2>3, <2>4 DEF Items, SystemItems
<1>2. OpenAiItem \in [Messages -> Items] BY <1>1 DEF OpenAiItem
<1>3. QED BY <1>1, <1>2

\* A message as the messages API takes it in.
AnthropicItem == [m \in Messages |->
    Message(IF m.role = "assistant" THEN "assistant" ELSE "user", ContentToText(m.content))]

LEMMA AnthropicItemIs ==
    /\ AnthropicItem \in [Messages -> Items \ SystemItems]
    /\ \A m \in Messages :
          /\ AnthropicItem[m].text = OnlyWords(m.content.parts)
          /\ AnthropicItem[m].role = "assistant" <=> m.role = "assistant"
<1>1. ASSUME NEW m \in Messages
      PROVE  /\ AnthropicItem[m] \in Items \ SystemItems
             /\ AnthropicItem[m].text = OnlyWords(m.content.parts)
             /\ AnthropicItem[m].role = "assistant" <=> m.role = "assistant"
  <2> DEFINE role == IF m.role = "assistant" THEN "assistant" ELSE "user"
             text == ContentToText(m.content)
  <2>1. text \in Seq(Words) /\ text = OnlyWords(m.content.parts) BY WordsOnly DEF Messages
  <2>2. AnthropicItem[m] = [role |-> role, text |-> text] BY DEF AnthropicItem, Message
  <2>3. role \in ItemRoles /\ role # "system" BY DEF ItemRoles
  <2>4. role = "assistant" <=> m.role = "assistant" OBVIOUS
  <2> HIDE DEF role, text
  <2>5. QED BY <2>1, <2>2, <2>3, <2>4 DEF Items, SystemItems
<1>2. AnthropicItem \in [Messages -> Items \ SystemItems] BY <1>1 DEF AnthropicItem
<1>3. QED BY <1>1, <1>2

\* The messages of a conversation in which OpenAI's clients give instructions.
SystemMessages == [role : {"system"}, content : Contents]

LEMMA OpenAiItems ==
    ASSUME NEW messages \in Seq(Messages), NEW limit
    PROVE  LET items == ParseOpenAi(messages, limit).items IN
           /\ items \in Seq(Items)
           /\ Only(items, SystemItems) = Mapped(OpenAiItem, Only(messages, SystemMessages))
           /\ Others(items) = Mapped(OpenAiItem, Only(messages, Messages \ SystemMessages))
<1> DEFINE items == ParseOpenAi(messages, limit).items
<1>1. \A i \in DOMAIN messages : messages[i] \in Messages OBVIOUS
<1>2. items = Mapped(OpenAiItem, messages)
  BY <1>1 DEF ParseOpenAi, Mapped, OpenAiItem
<1>3. \A m \in Messages : m \in SystemMessages <=> m.role = "system"
  BY DEF Messages, SystemMessages
<1>4. Separates(OpenAiItem, Messages, Items, SystemMessages, SystemItems)
  BY <1>3, OpenAiItemIs DEF Separates
<1>5. OpenAiItem \in [Messages -> Items] BY OpenAiItemIs
<1>6. Separates(OpenAiItem, Messages, Items, Messages \ SystemMessages, Items \ SystemItems)
  BY <1>4, <1>5 DEF Separates
<1> HIDE DEF items
<1>7. items \in Seq(Items) BY <1>2, <1>5, MappedType
<1>8. \A s \in Seq(Messages) :
         Only(Mapped(OpenAiItem, s), SystemItems) = Mapped(OpenAiItem, Only(s, SystemMessages))
  BY ONLY <1>4, OnlyMapped
<1>9. \A s \in Seq(Messages) :
         Only(Mapped(OpenAiItem, s), Items \ SystemItems)
           = Mapped(OpenAiItem, Only(s, Messages \ SystemMessages))
  BY ONLY <1>6, OnlyMapped
<1>10. QED BY <1>2, <1>7, <1>8, <1>9 DEF items, Others

LEMMA AnthropicItems ==
    ASSUME NEW b \in Bodies("anthropic")
    PROVE  LET items == ParseAnthropic(b).items IN
           /\ items \in Seq(Items)
           /\ Only(items, SystemItems) = SystemItem(b)
           /\ Others(items) = Mapped(AnthropicItem, b.messages)
<1> DEFINE items == ParseAnthropic(b).items
           messages == b.messages
           turns == Mapped(AnthropicItem, messages)
           sys == SystemItem(b)
<1>1. messages \in Seq(Messages) BY ConversationType
<1>2. \A i \in DOMAIN messages : messages[i] \in Messages BY <1>1
<1>3. items = sys \o turns BY <1>2 DEF ParseAnthropic, Mapped, AnthropicItem
<1>4. turns \in Seq(Items \ SystemItems) BY <1>1, AnthropicItemIs, MappedType
<1>5. sys \in Seq(SystemItems)
  <2>1. b.system \in Contents BY DEF Bodies
  <2>2. CASE b.system.form = "string" /\ b.system.parts # << >>
    <3>1. b.system.parts \in Seq(Words) BY <2>1, <2>2, ExchangeAssumption
    <3>2. Message("system", b.system.parts) \in SystemItems BY <3>1 DEF Message, SystemItems
    <3>3. QED BY <2>2, <3>2 DEF SystemItem
  <2>3. CASE ~(b.system.form = "string" /\ b.system.parts # << >>) BY <2>3 DEF SystemItem
  <2>4. QED BY <2>2, <2>3
<1>6. SystemItems \subseteq Items BY DEF SystemItems, Items, ItemRoles
<1> HIDE DEF items, turns, sys
<1>7. sys \in Seq(Items) /\ turns \in Seq(Items) BY <1>4, <1>5, <1>6
<1>8. Only(sys, SystemItems) = sys BY <1>5, OnlyAll
<1>9. Only(turns, SystemItems) = << >>
  <2>1. (Items \ SystemItems) \cap SystemItems = {} OBVIOUS
  <2>2. QED BY <1>4, <2>1, OnlyNone
<1>10. Only(sys, Items \ SystemItems) = << >>
  <2>1. SystemItems \cap (Items \ SystemItems) = {} OBVIOUS
  <2>2. QED BY <1>5, <2>1, OnlyNone
<1>11. Only(turns, Items \ SystemItems) = turns BY <1>4, OnlyAll
<1>12. Only(items, SystemItems) = sys
  <2>1. Only(sys \o turns, SystemItems) = Only(sys, SystemItems) \o Only(turns, SystemItems)
    BY <1>7, OnlyConcat
  <2>2. sys \o << >> = sys BY <1>7, ConcatEmptySeq
  <2>3. QED BY <1>3, <1>8, <1>9, <2>1, <2>2
<1>13. Others(items) = turns
  <2>1. Only(sys \o turns, Items \ SystemItems)
          = Only(sys, Items \ SystemItems) \o Only(turns, Items \ SystemItems)
    BY <1>7, OnlyConcat
  <2>2. << >> \o turns = turns BY <1>7, ConcatEmptySeq
  <2>3. QED BY <1>3, <1>10, <1>11, <2>1, <2>2 DEF Others
<1>14. items \in Seq(Items) BY <1>3, <1>7
<1>15. QED BY <1>12, <1>13, <1>14 DEF items, turns, sys

-----------------------------------------------------------------------------
(* Egress *)

\* Two lists of items say the same, as far as a provider can tell who says it.
SameSaid(s, t) ==
    /\ Len(s) = Len(t)
    /\ \A i \in DOMAIN s :
          s[i].text = t[i].text /\ (s[i].role = "assistant" <=> t[i].role = "assistant")

\* What a connector may do to a request: the instructions go into the system
\* field or stay where they are, and the rest is said by whoever said it.
BuiltWell(post, items) ==
    /\ post.system \in JoinedTexts
    /\ post.turns \in Seq(Items)
    /\ OnlyWords(post.system) \o Instructed(post.turns) = Instructed(items)
    /\ SameSaid(Others(post.turns), Others(items))

LEMMA NoSystemField == OnlyWords(<< >>) = << >> /\ << >> \in JoinedTexts
BY OnlyEmpty DEF OnlyWords, JoinedTexts

LEMMA InstructedType ==
    ASSUME NEW items \in Seq(Items)
    PROVE  /\ Only(items, SystemItems) \in Seq(Items)
           /\ Texts(Only(items, SystemItems)) \in Seq(Seq(Words))
           /\ Instructed(items) \in Seq(Words)
<1>1. Only(items, SystemItems) \in Seq(Items) BY OnlyType
<1>2. Texts(Only(items, SystemItems)) \in Seq(Seq(Words)) BY <1>1, TextsEquations
<1>3. FlattenSeq(Texts(Only(items, SystemItems))) \in Seq(Words) BY <1>2, FlattenType
<1>4. QED BY <1>1, <1>2, <1>3 DEF Instructed

LEMMA ChatBuilt ==
    ASSUME NEW req, req.items \in Seq(Items), NEW default
    PROVE  BuiltWell(BuildChat(req, default), req.items)
<1> DEFINE post == BuildChat(req, default)
<1>1. post.system = << >> /\ post.turns = req.items BY DEF BuildChat
<1> HIDE DEF post
<1>2. Instructed(req.items) \in Seq(Words) BY InstructedType
<1>3. << >> \o Instructed(req.items) = Instructed(req.items) BY <1>2, ConcatEmptySeq
<1>4. SameSaid(Others(req.items), Others(req.items)) BY DEF SameSaid
<1>5. BuiltWell(post, req.items) BY <1>1, <1>3, <1>4, NoSystemField DEF BuiltWell
<1>6. QED BY <1>5 DEF post

ResponsesItem == [x \in Items |->
    Message(IF x.role = "tool" THEN "user" ELSE x.role, x.text)]

LEMMA ResponsesItemIs ==
    /\ ResponsesItem \in [Items -> Items]
    /\ \A x \in Items :
          /\ ResponsesItem[x].text = x.text
          /\ ResponsesItem[x].role = "assistant" <=> x.role = "assistant"
          /\ ResponsesItem[x] \in SystemItems <=> x \in SystemItems
<1>1. ASSUME NEW x \in Items
      PROVE  /\ ResponsesItem[x] \in Items
             /\ ResponsesItem[x].text = x.text
             /\ ResponsesItem[x].role = "assistant" <=> x.role = "assistant"
             /\ ResponsesItem[x] \in SystemItems <=> x \in SystemItems
  <2> DEFINE role == IF x.role = "tool" THEN "user" ELSE x.role
  <2>1. x.role \in ItemRoles /\ x.text \in Seq(Words) BY DEF Items
  <2>2. /\ role \in ItemRoles
        /\ role = "assistant" <=> x.role = "assistant"
        /\ role = "system" <=> x.role = "system"
    BY <2>1 DEF ItemRoles
  <2>3. ResponsesItem[x] = [role |-> role, text |-> x.text] BY DEF ResponsesItem, Message
  <2> HIDE DEF role
  <2>4. QED BY <2>1, <2>2, <2>3 DEF Items, SystemItems
<1>2. ResponsesItem \in [Items -> Items] BY <1>1 DEF ResponsesItem
<1>3. QED BY <1>1, <1>2

\* A change that keeps the text and the speaker of every item keeps what is said.
LEMMA MappedSame ==
    ASSUME NEW D \in SUBSET Items, NEW g \in [D -> Items],
           \A x \in D : /\ g[x].text = x.text
                        /\ g[x].role = "assistant" <=> x.role = "assistant",
           NEW s \in Seq(D)
    PROVE  /\ Texts(Mapped(g, s)) = Texts(s)
           /\ SameSaid(Mapped(g, s), s)
<1>1. \A i \in DOMAIN s : s[i] \in D OBVIOUS
<1>2. Len(Mapped(g, s)) = Len(s) BY DEF Mapped
<1>3. DOMAIN Mapped(g, s) = DOMAIN s /\ \A i \in DOMAIN s : Mapped(g, s)[i] = g[s[i]]
  BY DEF Mapped
<1>4. QED BY <1>1, <1>2, <1>3 DEF Texts, SameSaid

LEMMA ResponsesBuilt ==
    ASSUME NEW req, req.items \in Seq(Items), NEW default
    PROVE  BuiltWell(BuildResponses(req, default), req.items)
<1> DEFINE post == BuildResponses(req, default)
           items == req.items
<1>1. \A i \in DOMAIN items : items[i] \in Items OBVIOUS
<1>2. post.system = << >> /\ post.turns = Mapped(ResponsesItem, items)
  BY <1>1 DEF BuildResponses, Mapped, ResponsesItem
<1> HIDE DEF post, items
<1>3. items \in Seq(Items) BY DEF items
<1>4. ResponsesItem \in [Items -> Items] BY ResponsesItemIs
<1>5. post.turns \in Seq(Items) BY <1>2, <1>3, <1>4, MappedType
<1>6. Separates(ResponsesItem, Items, Items, SystemItems, SystemItems)
  BY ResponsesItemIs DEF Separates
<1>7. Separates(ResponsesItem, Items, Items, Items \ SystemItems, Items \ SystemItems)
  BY ResponsesItemIs DEF Separates
<1>8. \A s \in Seq(Items) :
         Only(Mapped(ResponsesItem, s), SystemItems) = Mapped(ResponsesItem, Only(s, SystemItems))
  BY ONLY <1>6, OnlyMapped
<1>9. \A s \in Seq(Items) :
         Only(Mapped(ResponsesItem, s), Items \ SystemItems)
           = Mapped(ResponsesItem, Only(s, Items \ SystemItems))
  BY ONLY <1>7, OnlyMapped
<1>10. \A s \in Seq(Items) :
         /\ Texts(Mapped(ResponsesItem, s)) = Texts(s)
         /\ SameSaid(Mapped(ResponsesItem, s), s)
  BY <1>4, ResponsesItemIs, MappedSame
<1>11. Only(items, SystemItems) \in Seq(Items) /\ Others(items) \in Seq(Items)
  BY <1>3, OnlyType DEF Others
<1>12. Instructed(post.turns) = Instructed(items)
  BY <1>2, <1>3, <1>8, <1>10, <1>11 DEF Instructed
<1>13. Others(post.turns) = Mapped(ResponsesItem, Others(items)) BY <1>2, <1>3, <1>9 DEF Others
<1>14. SameSaid(Others(post.turns), Others(items)) BY <1>10, <1>11, <1>13
<1>15. Instructed(items) \in Seq(Words) BY <1>3, InstructedType
<1>16. << >> \o Instructed(items) = Instructed(items) BY <1>15, ConcatEmptySeq
<1>17. BuiltWell(post, items) BY <1>2, <1>5, <1>12, <1>14, <1>16, NoSystemField DEF BuiltWell
<1>18. QED BY <1>17 DEF post, items

AnthropicTurn == [x \in Items \ SystemItems |->
    Message(IF x.role = "assistant" THEN "assistant" ELSE "user", x.text)]

LEMMA AnthropicTurnIs ==
    /\ AnthropicTurn \in [Items \ SystemItems -> Items \ SystemItems]
    /\ \A x \in Items \ SystemItems :
          /\ AnthropicTurn[x].text = x.text
          /\ AnthropicTurn[x].role = "assistant" <=> x.role = "assistant"
<1>1. ASSUME NEW x \in Items \ SystemItems
      PROVE  /\ AnthropicTurn[x] \in Items \ SystemItems
             /\ AnthropicTurn[x].text = x.text
             /\ AnthropicTurn[x].role = "assistant" <=> x.role = "assistant"
  <2> DEFINE role == IF x.role = "assistant" THEN "assistant" ELSE "user"
  <2>1. x.text \in Seq(Words) BY DEF Items
  <2>2. /\ role \in ItemRoles /\ role # "system"
        /\ role = "assistant" <=> x.role = "assistant"
    BY DEF ItemRoles
  <2>3. AnthropicTurn[x] = [role |-> role, text |-> x.text] BY DEF AnthropicTurn, Message
  <2> HIDE DEF role
  <2>4. QED BY <2>1, <2>2, <2>3 DEF Items, SystemItems
<1>2. AnthropicTurn \in [Items \ SystemItems -> Items \ SystemItems]
  BY <1>1 DEF AnthropicTurn
<1>3. QED BY <1>1, <1>2

LEMMA AnthropicBuilt ==
    ASSUME NEW req, req.items \in Seq(Items), NEW default
    PROVE  BuiltWell(BuildAnthropic(req, default), req.items)
<1> DEFINE post == BuildAnthropic(req, default)
           items == req.items
           D == Items \ SystemItems
           turns == Others(items)
<1>1. items \in Seq(Items) OBVIOUS
<1>2. turns \in Seq(D)
  <2>1. Items \cap D = D OBVIOUS
  <2>2. Only(items, D) \in Seq(Items \cap D) BY <1>1, OnlyWithin
  <2>3. QED BY <2>1, <2>2 DEF Others
<1>3. \A i \in DOMAIN turns : turns[i] \in D BY <1>2
<1>4. /\ post.system = Joined(Only(items, SystemItems))
      /\ post.turns = Mapped(AnthropicTurn, turns)
  BY <1>3 DEF BuildAnthropic, Mapped, AnthropicTurn, Others, Joined
<1> HIDE DEF post, items, turns
<1>5. AnthropicTurn \in [D -> D] BY AnthropicTurnIs
<1>6. post.turns \in Seq(D) BY <1>2, <1>4, <1>5, MappedType
<1>7. post.turns \in Seq(Items) BY <1>6
<1>8. Only(items, SystemItems) \in Seq(Items) BY <1>1, OnlyType
<1>9. post.system \in JoinedTexts BY <1>4, <1>8, JoinedEquations
<1>10. OnlyWords(post.system) = Instructed(items)
  BY <1>4, <1>8, JoinedWords DEF OnlyWords, Instructed
<1>11. Instructed(post.turns) = << >>
  <2>1. D \cap SystemItems = {} OBVIOUS
  <2>2. Only(post.turns, SystemItems) = << >> BY <1>6, <2>1, OnlyNone
  <2>3. Texts(<< >>) = << >> BY TextsEquations
  <2>4. QED BY <2>2, <2>3, FlattenEmpty DEF Instructed
<1>12. Others(post.turns) = post.turns BY <1>6, OnlyAll DEF Others
<1>13. AnthropicTurn \in [D -> Items] BY <1>5
<1>14. SameSaid(post.turns, turns)
  <2>1. D \in SUBSET Items OBVIOUS
  <2>2. \A s \in Seq(D) : SameSaid(Mapped(AnthropicTurn, s), s)
    BY <1>13, <2>1, AnthropicTurnIs, MappedSame
  <2>3. QED BY <1>2, <1>4, <2>2
<1>15. Instructed(items) \in Seq(Words) BY <1>1, InstructedType
<1>16. Instructed(items) \o << >> = Instructed(items) BY <1>15, ConcatEmptySeq
<1>17. BuiltWell(post, items)
  BY <1>7, <1>9, <1>10, <1>11, <1>12, <1>14, <1>16 DEF BuiltWell, turns
<1>18. QED BY <1>17 DEF post, items

-----------------------------------------------------------------------------
(* From a client to a provider *)

LEMMA BuiltRequest ==
    ASSUME NEW connector \in Protocols, NEW req, req.items \in Seq(Items), NEW default
    PROVE  BuiltWell(BuildRequest(connector, req, default), req.items)
BY ChatBuilt, ResponsesBuilt, AnthropicBuilt DEF BuildRequest, Protocols

\* The items of an OpenAI client's request, against what the client wrote.
LEMMA OpenAiSaid ==
    ASSUME route.client \in {"chat", "responses"}, NEW limit,
           body.messages \in Seq(Messages)
    PROVE  LET items == ParseOpenAi(body.messages, limit).items IN
           /\ Instructed(items) = InstructionsDue
           /\ Len(Others(items)) = Len(Said)
           /\ \A i \in DOMAIN Said :
                 /\ Others(items)[i].text = OnlyWords(Said[i].content.parts)
                 /\ Others(items)[i].role = "assistant" <=> Said[i].role = "assistant"
<1> DEFINE items == ParseOpenAi(body.messages, limit).items
           told == Only(body.messages, SystemMessages)
<1>1. InstructionMessages = SystemMessages BY DEF InstructionMessages, SystemMessages
<1>2. /\ Only(items, SystemItems) = Mapped(OpenAiItem, told)
      /\ Others(items) = Mapped(OpenAiItem, Only(body.messages, Messages \ SystemMessages))
  BY OpenAiItems
<1> HIDE DEF items, told
<1>3. told \in Seq(Messages) BY OnlyType DEF told
<1>4. Said = Only(body.messages, Messages \ SystemMessages) BY <1>1 DEF Said
<1>5. Said \in Seq(Messages) BY <1>4, OnlyType
<1>6. \A i \in DOMAIN told : told[i] \in Messages BY <1>3
<1>7. Texts(Mapped(OpenAiItem, told)) = [i \in DOMAIN told |-> OnlyWords(told[i].content.parts)]
  BY <1>6, OpenAiItemIs DEF Texts, Mapped
<1>8. Instructions = FlattenSeq([i \in DOMAIN told |-> OnlyWords(told[i].content.parts)])
  BY <1>1 DEF Instructions, told
<1>9. Instructed(items) = InstructionsDue
  BY <1>2, <1>7, <1>8 DEF Instructed, InstructionsDue, SystemInBlocks
<1>10. Others(items) = Mapped(OpenAiItem, Said) BY <1>2, <1>4
<1>11. \A i \in DOMAIN Said : Said[i] \in Messages BY <1>5
<1>12. Len(Others(items)) = Len(Said) BY <1>5, <1>10 DEF Mapped
<1>13. \A i \in DOMAIN Said : Others(items)[i] = OpenAiItem[Said[i]] BY <1>10 DEF Mapped
<1>14. QED BY <1>9, <1>11, <1>12, <1>13, OpenAiItemIs DEF items

LEMMA AnthropicSaid ==
    ASSUME route.client = "anthropic", body \in Bodies("anthropic")
    PROVE  LET items == ParseAnthropic(body).items IN
           /\ Instructed(items) = InstructionsDue
           /\ Len(Others(items)) = Len(Said)
           /\ \A i \in DOMAIN Said :
                 /\ Others(items)[i].text = OnlyWords(Said[i].content.parts)
                 /\ Others(items)[i].role = "assistant" <=> Said[i].role = "assistant"
<1> DEFINE items == ParseAnthropic(body).items
<1>1. /\ Only(items, SystemItems) = SystemItem(body)
      /\ Others(items) = Mapped(AnthropicItem, body.messages)
  BY AnthropicItems
<1> HIDE DEF items
<1>2. body.messages \in Seq(Messages) BY ConversationType
<1>3. Said = body.messages
  <2>1. InstructionMessages = {} BY DEF InstructionMessages
  <2>2. Messages \ {} = Messages OBVIOUS
  <2>3. Only(body.messages, Messages) = body.messages BY <1>2, OnlyAll
  <2>4. QED BY <2>1, <2>2, <2>3 DEF Said
<1>4. \A i \in DOMAIN Said : Said[i] \in Messages BY <1>2, <1>3
<1>5. Others(items) = Mapped(AnthropicItem, Said) BY <1>1, <1>3
<1>6. Len(Others(items)) = Len(Said) BY <1>2, <1>3, <1>5 DEF Mapped
<1>7. \A i \in DOMAIN Said : Others(items)[i] = AnthropicItem[Said[i]] BY <1>5 DEF Mapped
<1>8. Instructed(items) = InstructionsDue
  <2> DEFINE parts == body.system.parts
             form == body.system.form
  <2>1. /\ form \in {"string", "blocks", "none"}
        /\ form = "string" => parts \in Seq(Words)
        /\ form = "none" => parts = << >>
    BY ExchangeAssumption DEF Bodies
  <2>2. InstructionsDue = IF form = "blocks" THEN << >> ELSE OnlyWords(parts)
    BY DEF InstructionsDue, SystemInBlocks, Instructions
  <2>3. CASE form = "string" /\ parts # << >>
    <3>1. parts \in Seq(Words) BY <2>1, <2>3
    <3>2. SystemItem(body) = <<Message("system", parts)>> BY <2>3 DEF SystemItem
    <3>3. Texts(<<Message("system", parts)>>) = <<parts>> BY DEF Texts, Message
    <3>4. <<parts>> = Append(<< >>, parts) OBVIOUS
    <3>5. FlattenSeq(Append(<< >>, parts)) = FlattenSeq(<< >>) \o parts
      <4>1. << >> \in Seq(Seq(Words)) OBVIOUS
      <4>2. QED BY <3>1, <4>1, FlattenAppend
    <3>6. << >> \o parts = parts BY <3>1, ConcatEmptySeq
    <3>7. Instructed(items) = FlattenSeq(<<parts>>) BY <1>1, <3>2, <3>3 DEF Instructed
    <3>8. OnlyWords(parts) = parts BY <3>1, OnlyAll DEF OnlyWords
    <3>9. InstructionsDue = parts BY <2>2, <2>3, <3>8
    <3>10. QED BY <3>4, <3>5, <3>6, <3>7, <3>9, FlattenEmpty
  <2>4. CASE ~(form = "string" /\ parts # << >>)
    <3>1. SystemItem(body) = << >> BY <2>4 DEF SystemItem
    <3>2. Texts(<< >>) = << >> BY TextsEquations
    <3>3. Instructed(items) = << >> BY <1>1, <3>1, <3>2, FlattenEmpty DEF Instructed
    <3>4. OnlyWords(<< >>) = << >> BY OnlyEmpty DEF OnlyWords
    <3>5. InstructionsDue = << >> BY <2>1, <2>2, <2>4, <3>4
    <3>6. QED BY <3>3, <3>5
  <2>5. QED BY <2>3, <2>4
<1>9. QED BY <1>4, <1>6, <1>7, <1>8, AnthropicItemIs DEF items

LEMMA ParsedItems ==
    ASSUME route \in Routes, body \in Bodies(route.client)
    PROVE  LET items == ParseRequest(route.client, body).items IN
           /\ items \in Seq(Items)
           /\ Instructed(items) = InstructionsDue
           /\ Len(Others(items)) = Len(Said)
           /\ \A i \in DOMAIN Said :
                 /\ Others(items)[i].text = OnlyWords(Said[i].content.parts)
                 /\ Others(items)[i].role = "assistant" <=> Said[i].role = "assistant"
<1>1. route.client \in {"chat", "responses", "anthropic"} BY DEF Routes, Protocols
<1>2. CASE route.client \in {"chat", "responses"}
  <2>1. body.messages \in Seq(Messages) BY ConversationType
  <2>2. ParseRequest(route.client, body) = ParseOpenAi(body.messages, body.limit)
    BY <1>2 DEF ParseRequest, ParseChat, ParseResponses
  <2>3. ParseOpenAi(body.messages, body.limit).items \in Seq(Items) BY <2>1, OpenAiItems
  <2>4. QED BY <1>2, <2>1, <2>2, <2>3, OpenAiSaid
<1>3. CASE route.client = "anthropic"
  <2>1. body \in Bodies("anthropic") BY <1>3
  <2>2. ParseRequest(route.client, body) = ParseAnthropic(body) BY <1>3 DEF ParseRequest
  <2>3. ParseAnthropic(body).items \in Seq(Items) BY <2>1, AnthropicItems
  <2>4. QED BY <1>3, <2>1, <2>2, <2>3, AnthropicSaid
<1>4. QED BY <1>1, <1>2, <1>3

LEMMA ParsedLimit ==
    ASSUME NEW client \in Protocols, NEW b
    PROVE  ParseRequest(client, b).limit = AsU32(b.limit)
BY DEF ParseRequest, ParseChat, ParseResponses, ParseOpenAi, ParseAnthropic, Protocols

\* A limit that is cut to 32 bits, and what the cut leaves alone.
LEMMA CutLimit ==
    ASSUME NEW limit \in Nat \cup {Unset}
    PROVE  /\ AsU32(limit) \in Nat \cup {Unset}
           /\ AsU32(limit) = Unset <=> limit = Unset
           /\ limit \in 0 .. U32 - 1 => AsU32(limit) = limit
<1>1. U32 \in Nat \ {0} /\ Unset \notin Nat BY TranslationAssumption, ExchangeAssumption
<1>2. CASE limit = Unset BY <1>1, <1>2 DEF AsU32
<1>3. CASE limit # Unset
  <2>1. limit \in Nat BY <1>3
  <2>2. AsU32(limit) = limit % U32 BY <1>3 DEF AsU32
  <2>3. limit % U32 \in Nat BY <1>1, <2>1
  <2>4. limit \in 0 .. U32 - 1 => limit % U32 = limit BY <1>1, <2>1
  <2>5. QED BY <1>1, <1>3, <2>2, <2>3, <2>4
<1>4. QED BY <1>2, <1>3

LEMMA BuiltLimit ==
    ASSUME NEW connector \in Protocols, NEW req, NEW default
    PROVE  BuildRequest(connector, req, default).limit =
             IF connector = "anthropic" /\ LimitOr(req, default) = Unset
               THEN Fallback ELSE LimitOr(req, default)
BY DEF BuildRequest, BuildChat, BuildResponses, BuildAnthropic, Protocols

\* Whatever the client wrote and whoever the provider is.
LEMMA PostedWell ==
    ASSUME route \in Routes, body \in Bodies(route.client),
           model.default \in Nat \cup {Unset},
           posted = BuildRequest(route.connector, ParseRequest(route.client, body),
                                 AsU32(model.default))
    PROVE  /\ SaidInOrder /\ LimitArrives
           /\ posted.system \in JoinedTexts /\ posted.turns \in Seq(Items)
           /\ posted.limit \in Nat \cup {Unset}
<1> DEFINE req == ParseRequest(route.client, body)
           items == req.items
           default == AsU32(model.default)
<1>1. route.client \in Protocols /\ route.connector \in Protocols BY DEF Routes
<1>2. /\ items \in Seq(Items)
      /\ Instructed(items) = InstructionsDue
      /\ Len(Others(items)) = Len(Said)
      /\ \A i \in DOMAIN Said :
            /\ Others(items)[i].text = OnlyWords(Said[i].content.parts)
            /\ Others(items)[i].role = "assistant" <=> Said[i].role = "assistant"
  BY ParsedItems
<1>3. req.limit = AsU32(body.limit) BY <1>1, ParsedLimit
<1> HIDE DEF req
<1>4. BuiltWell(posted, items) BY <1>1, <1>2, BuiltRequest DEF req
<1>5. posted.limit = IF route.connector = "anthropic" /\ LimitOr(req, default) = Unset
                       THEN Fallback ELSE LimitOr(req, default)
  BY <1>1, BuiltLimit DEF req
<1> HIDE DEF items
<1>6. InstructionsPosted = OnlyWords(posted.system) \o Instructed(posted.turns)
  BY DEF InstructionsPosted, Instructed, Texts
<1>7. TurnsPosted = Others(posted.turns) BY DEF TurnsPosted, Others
<1>8. InstructionsPosted = InstructionsDue BY <1>2, <1>4, <1>6 DEF BuiltWell
<1>9. SameSaid(TurnsPosted, Others(items)) BY <1>4, <1>7 DEF BuiltWell
<1>10. SaidInOrder
  <2>1. TurnsPosted \in Seq(Items) BY <1>4, <1>7, OnlyType DEF BuiltWell, Others
  <2>2. Said \in Seq(Messages)
    <3>1. body.messages \in Seq(Messages) BY ConversationType
    <3>2. QED BY <3>1, OnlyType DEF Said
  <2>3. DOMAIN TurnsPosted = 1 .. Len(TurnsPosted) /\ DOMAIN Said = 1 .. Len(Said)
    BY <2>1, <2>2
  <2>4. Len(TurnsPosted) = Len(Said) BY <1>2, <1>9 DEF SameSaid
  <2>5. QED BY <1>2, <1>8, <1>9, <2>3, <2>4 DEF SaidInOrder, SameSaid
<1>11. body.limit \in Nat \cup {Unset}
  <2>1. body.limit \in Limits BY DEF Bodies
  <2>2. QED BY <2>1, ExchangeAssumption
<1>12. /\ req.limit \in Nat \cup {Unset}
       /\ req.limit = Unset <=> body.limit = Unset
       /\ body.limit \in 0 .. U32 - 1 => req.limit = body.limit
  BY <1>3, <1>11, CutLimit
<1>13. /\ default \in Nat \cup {Unset}
       /\ default = Unset <=> model.default = Unset
       /\ model.default \in 0 .. U32 - 1 => default = model.default
  BY CutLimit
<1> HIDE DEF default
<1>14. LimitArrives /\ posted.limit \in Nat \cup {Unset}
  <2>1. Unset \notin Nat /\ Fallback \in Nat BY TranslationAssumption, ExchangeAssumption
  <2>2. LimitOr(req, default) = IF req.limit = Unset THEN default ELSE req.limit BY DEF LimitOr
  <2>3. 0 .. U32 - 1 \subseteq Nat OBVIOUS
  <2> DEFINE given == req.limit
             limit == posted.limit
             wrote == body.limit
             stored == model.default
  <2> HIDE DEF given, limit, wrote, stored
  <2>4. LimitArrives BY <1>5, <1>12, <1>13, <2>1, <2>2, <2>3 DEF LimitArrives
  <2>5. posted.limit \in Nat \cup {Unset} BY <1>5, <1>12, <1>13, <2>1, <2>2
  <2>6. QED BY <2>4, <2>5
<1>15. QED BY <1>4, <1>10, <1>14 DEF BuiltWell

-----------------------------------------------------------------------------
(* Translators *)

LEMMA CountedType ==
    ASSUME NEW kind \in Protocols, NEW n \in Nat
    PROVE  Counted(kind, n) \in Counts
<1>1. PerDelta * n \in Nat BY CountsAssumption
<1>2. QED BY <1>1, CountsAssumption DEF Counted, Counts

LEMMA AddTextType ==
    ASSUME NEW t \in Translators
    PROVE  /\ AddText(t) \in Translators
           /\ AddText(t) = [text |-> t.text + 1, input |-> t.input, output |-> t.output,
                            read |-> t.read, write |-> t.write, known |-> t.known]
BY DEF AddText, Translators

\* What push makes of a translator, field by field.
LEMMA PushChatIs ==
    ASSUME NEW t \in Translators, NEW frame \in FrameKinds, NEW said \in Counts
    PROVE  PushChat(t, frame, said) =
             [text   |-> IF frame = "text" THEN t.text + 1 ELSE t.text,
              input  |-> IF frame = "usage" THEN said.input ELSE t.input,
              output |-> IF frame = "usage" THEN said.output ELSE t.output,
              read   |-> IF frame = "usage" THEN said.read ELSE t.read,
              write  |-> t.write,
              known  |-> IF frame = "usage" THEN TRUE ELSE t.known]
<1>1. CASE frame = "text" BY <1>1, AddTextType DEF PushChat
<1>2. CASE frame = "usage" BY <1>2 DEF PushChat, Translators
<1>3. CASE frame \notin {"text", "usage"} BY <1>3 DEF PushChat, Translators
<1>4. QED BY <1>1, <1>2, <1>3

LEMMA PushResponsesIs ==
    ASSUME NEW t \in Translators, NEW frame \in FrameKinds, NEW said \in Counts
    PROVE  PushResponses(t, frame, said) = PushChat(t, frame, said)
<1>1. CASE frame = "text" BY <1>1 DEF PushChat, PushResponses
<1>2. CASE frame = "usage" BY <1>2 DEF PushChat, PushResponses
<1>3. CASE frame \notin {"text", "usage"} BY <1>3 DEF PushChat, PushResponses
<1>4. QED BY <1>1, <1>2, <1>3

LEMMA PushAnthropicIs ==
    ASSUME NEW t \in Translators, NEW frame \in FrameKinds, NEW said \in Counts
    PROVE  PushAnthropic(t, frame, said) =
             [text   |-> IF frame = "text" THEN t.text + 1 ELSE t.text,
              input  |-> IF frame = "start" THEN said.input ELSE t.input,
              output |-> IF frame = "usage" THEN said.output ELSE t.output,
              read   |-> IF frame = "start" THEN said.read ELSE t.read,
              write  |-> IF frame = "start" THEN said.write ELSE t.write,
              known  |-> IF frame \in {"start", "usage"} THEN TRUE ELSE t.known]
<1>1. CASE frame = "text" BY <1>1, AddTextType DEF PushAnthropic
<1>2. CASE frame = "usage" BY <1>2 DEF PushAnthropic, Translators
<1>3. CASE frame = "start" BY <1>3 DEF PushAnthropic, Translators
<1>4. CASE frame \notin {"text", "usage", "start"} BY <1>4 DEF PushAnthropic, Translators
<1>5. QED BY <1>1, <1>2, <1>3, <1>4

LEMMA PushChatFields ==
    ASSUME NEW t \in Translators, NEW frame \in FrameKinds, NEW said \in Counts,
           NEW p, p = PushChat(t, frame, said)
    PROVE  /\ p.text = IF frame = "text" THEN t.text + 1 ELSE t.text
           /\ p.input = IF frame = "usage" THEN said.input ELSE t.input
           /\ p.output = IF frame = "usage" THEN said.output ELSE t.output
           /\ p.read = IF frame = "usage" THEN said.read ELSE t.read
           /\ p.known <=> frame = "usage" \/ t.known
<1>1. CASE frame = "text" BY <1>1, AddTextType DEF PushChat
<1>2. CASE frame = "usage" BY <1>2 DEF PushChat, Translators
<1>3. CASE frame \notin {"text", "usage"} BY <1>3 DEF PushChat, Translators
<1>4. QED BY <1>1, <1>2, <1>3

LEMMA PushAnthropicFields ==
    ASSUME NEW t \in Translators, NEW frame \in FrameKinds, NEW said \in Counts,
           NEW p, p = PushAnthropic(t, frame, said)
    PROVE  /\ p.text = IF frame = "text" THEN t.text + 1 ELSE t.text
           /\ p.input = IF frame = "start" THEN said.input ELSE t.input
           /\ p.output = IF frame = "usage" THEN said.output ELSE t.output
           /\ p.read = IF frame = "start" THEN said.read ELSE t.read
           /\ p.known <=> frame \in {"start", "usage"} \/ t.known
<1>1. CASE frame = "text" BY <1>1, AddTextType DEF PushAnthropic
<1>2. CASE frame = "usage" BY <1>2 DEF PushAnthropic, Translators
<1>3. CASE frame = "start" BY <1>3 DEF PushAnthropic, Translators
<1>4. CASE frame \notin {"text", "usage", "start"} BY <1>4 DEF PushAnthropic, Translators
<1>5. QED BY <1>1, <1>2, <1>3, <1>4

LEMMA TranslatorMade ==
    ASSUME NEW text \in Nat, NEW input \in Nat, NEW output \in Nat, NEW read \in Nat,
           NEW write \in Nat, NEW known \in BOOLEAN
    PROVE  [text |-> text, input |-> input, output |-> output, read |-> read,
            write |-> write, known |-> known] \in Translators
BY DEF Translators

LEMMA PushChatType ==
    ASSUME NEW t \in Translators, NEW frame \in FrameKinds, NEW said \in Counts
    PROVE  /\ PushChat(t, frame, said) \in Translators
           /\ PushChat(t, frame, said).text = IF frame = "text" THEN t.text + 1 ELSE t.text
<1> DEFINE text   == IF frame = "text" THEN t.text + 1 ELSE t.text
           input  == IF frame = "usage" THEN said.input ELSE t.input
           output == IF frame = "usage" THEN said.output ELSE t.output
           read   == IF frame = "usage" THEN said.read ELSE t.read
           known  == IF frame = "usage" THEN TRUE ELSE t.known
<1>1. /\ text \in Nat /\ input \in Nat /\ output \in Nat /\ read \in Nat
      /\ known \in BOOLEAN /\ t.write \in Nat
  <2>1. /\ t.text \in Nat /\ t.input \in Nat /\ t.output \in Nat /\ t.read \in Nat
        /\ t.write \in Nat
        /\ said.input \in Nat /\ said.output \in Nat /\ said.read \in Nat
    BY DEF Translators, Counts
  <2>2. t.known \in BOOLEAN BY DEF Translators
  <2>3. known \in BOOLEAN
    <3>1. CASE frame = "usage" BY <3>1
    <3>2. CASE frame # "usage" BY <2>2, <3>2
    <3>3. QED BY <3>1, <3>2
  <2> HIDE DEF known
  <2>4. QED BY <2>1, <2>3
<1>2. PushChat(t, frame, said) =
        [text |-> text, input |-> input, output |-> output, read |-> read,
         write |-> t.write, known |-> known]
  BY PushChatIs
<1> HIDE DEF text, input, output, read, known
<1>3. PushChat(t, frame, said) \in Translators /\ PushChat(t, frame, said).text = text
  BY <1>1, <1>2, TranslatorMade
<1>4. QED BY <1>3 DEF text

LEMMA PushAnthropicType ==
    ASSUME NEW t \in Translators, NEW frame \in FrameKinds, NEW said \in Counts
    PROVE  /\ PushAnthropic(t, frame, said) \in Translators
           /\ PushAnthropic(t, frame, said).text = IF frame = "text" THEN t.text + 1 ELSE t.text
<1> DEFINE text   == IF frame = "text" THEN t.text + 1 ELSE t.text
           input  == IF frame = "start" THEN said.input ELSE t.input
           output == IF frame = "usage" THEN said.output ELSE t.output
           read   == IF frame = "start" THEN said.read ELSE t.read
           write  == IF frame = "start" THEN said.write ELSE t.write
           known  == IF frame \in {"start", "usage"} THEN TRUE ELSE t.known
<1>1. /\ text \in Nat /\ input \in Nat /\ output \in Nat /\ read \in Nat
      /\ known \in BOOLEAN /\ write \in Nat
  <2>1. /\ t.text \in Nat /\ t.input \in Nat /\ t.output \in Nat /\ t.read \in Nat
        /\ t.write \in Nat
        /\ said.input \in Nat /\ said.output \in Nat /\ said.read \in Nat
        /\ said.write \in Nat
    BY DEF Translators, Counts
  <2>2. t.known \in BOOLEAN BY DEF Translators
  <2>3. known \in BOOLEAN
    <3>1. CASE frame \in {"start", "usage"} BY <3>1
    <3>2. CASE frame \notin {"start", "usage"} BY <2>2, <3>2
    <3>3. QED BY <3>1, <3>2
  <2> HIDE DEF known
  <2>4. QED BY <2>1, <2>3
<1>2. PushAnthropic(t, frame, said) =
        [text |-> text, input |-> input, output |-> output, read |-> read,
         write |-> write, known |-> known]
  BY PushAnthropicIs
<1> HIDE DEF text, input, output, read, write, known
<1>3. PushAnthropic(t, frame, said) \in Translators /\ PushAnthropic(t, frame, said).text = text
  BY <1>1, <1>2, TranslatorMade
<1>4. QED BY <1>3 DEF text

\* push keeps the type, and text is all that it counts as text.
LEMMA PushType ==
    ASSUME NEW kind \in Protocols, NEW t \in Translators, NEW frame \in FrameKinds,
           NEW said \in Counts
    PROVE  /\ Push(kind, t, frame, said) \in Translators
           /\ Push(kind, t, frame, said).text = IF frame = "text" THEN t.text + 1 ELSE t.text
<1>1. CASE kind = "chat"
  <2>1. Push(kind, t, frame, said) = PushChat(t, frame, said) BY <1>1 DEF Push
  <2>2. QED BY <2>1, PushChatType
<1>2. CASE kind = "responses"
  <2>1. Push(kind, t, frame, said) = PushChat(t, frame, said)
    BY <1>2, PushResponsesIs DEF Push
  <2>2. QED BY <2>1, PushChatType
<1>3. CASE kind = "anthropic"
  <2>1. Push(kind, t, frame, said) = PushAnthropic(t, frame, said) BY <1>3 DEF Push
  <2>2. QED BY <2>1, PushAnthropicType
<1>4. QED BY <1>1, <1>2, <1>3 DEF Protocols

LEMMA EstimateType ==
    ASSUME NEW t \in Translators
    PROVE  Estimate(t) \in Nat
<1>1. DeltaChars * t.text \in Nat BY CountsAssumption DEF Translators
<1>2. QED BY <1>1 DEF Estimate

LEMMA FinishType ==
    ASSUME NEW kind \in Protocols, NEW t \in Translators
    PROVE  Finish(kind, t) \in Calls
<1>0. Estimate(t) \in Nat BY EstimateType
<1>1. CASE kind = "chat"
  BY <1>0, <1>1 DEF Finish, FinishChat, OpenAiCall, SaturatingSub, Calls, Translators
<1>2. CASE kind = "responses"
  BY <1>0, <1>2 DEF Finish, FinishResponses, OpenAiCall, SaturatingSub, Calls, Translators
<1>3. CASE kind = "anthropic"
  BY <1>0, <1>3 DEF Finish, FinishAnthropic, AnthropicCall, Calls, Translators
<1>4. QED BY <1>1, <1>2, <1>3 DEF Protocols

-----------------------------------------------------------------------------
(* Frames written and read *)

\* How often y is in s.
Occurrences(s, y) == Cardinality({i \in DOMAIN s : s[i] = y})

LEMMA OccurrencesAppend ==
    ASSUME NEW E, NEW s \in Seq(E), NEW x \in E, NEW y
    PROVE  /\ Occurrences(s, y) \in Nat
           /\ Occurrences(Append(s, x), y) =
                IF x = y THEN Occurrences(s, y) + 1 ELSE Occurrences(s, y)
<1> DEFINE At(t) == {i \in DOMAIN t : t[i] = y}
           long == Append(s, x)
<1>1. Len(s) \in Nat /\ DOMAIN s = 1 .. Len(s) OBVIOUS
<1>2. IsFiniteSet(At(s))
  <2>1. IsFiniteSet(1 .. Len(s)) BY <1>1, FS_Interval
  <2>2. At(s) \subseteq 1 .. Len(s) BY <1>1
  <2>3. QED BY <2>1, <2>2, FS_Subset
<1>3. Cardinality(At(s)) \in Nat BY <1>2, FS_CardinalityType
<1>4. Len(s) + 1 \notin At(s) BY <1>1
<1>5. /\ DOMAIN long = 1 .. Len(s) + 1
      /\ \A i \in 1 .. Len(s) : long[i] = s[i]
      /\ long[Len(s) + 1] = x
  BY <1>1
<1> HIDE DEF long
<1>6. CASE x = y
  <2>1. At(long) = At(s) \cup {Len(s) + 1} BY <1>1, <1>5, <1>6
  <2>2. Cardinality(At(s) \cup {Len(s) + 1}) = Cardinality(At(s)) + 1
    BY <1>2, <1>4, FS_AddElement
  <2>3. QED BY <1>3, <1>6, <2>1, <2>2 DEF Occurrences, long
<1>7. CASE x # y
  <2>1. At(long) = At(s) BY <1>1, <1>5, <1>7
  <2>2. QED BY <1>3, <1>7, <2>1 DEF Occurrences, long
<1>8. QED BY <1>6, <1>7

\* The deltas of a stream that has one more event.
LEMMA DeltasAppend ==
    ASSUME NEW s \in Seq(EventKinds), NEW kind \in EventKinds
    PROVE  /\ DeltasIn(s) \in Nat
           /\ DeltasIn(Append(s, kind)) = IF kind = "delta" THEN DeltasIn(s) + 1 ELSE DeltasIn(s)
<1>1. \A t : DeltasIn(t) = Occurrences(t, "delta") BY DEF DeltasIn, Occurrences
<1>2. QED BY <1>1, OccurrencesAppend

LEMMA TextFramesAppend ==
    ASSUME NEW s \in Seq(FrameKinds), NEW frame \in FrameKinds
    PROVE  /\ TextFrames(s) \in Nat
           /\ TextFrames(Append(s, frame)) =
                IF frame = "text" THEN TextFrames(s) + 1 ELSE TextFrames(s)
<1>1. \A t : TextFrames(t) = Occurrences(t, "text") BY DEF TextFrames, Occurrences
<1>2. QED BY <1>1, OccurrencesAppend

Holds(s, x) == \E i \in DOMAIN s : s[i] = x

LEMMA HoldsAppend ==
    ASSUME NEW E, NEW s \in Seq(E), NEW y \in E, NEW x
    PROVE  Holds(Append(s, y), x) <=> Holds(s, x) \/ y = x
<1>1. /\ DOMAIN s = 1 .. Len(s) /\ Len(s) \in Nat
      /\ DOMAIN Append(s, y) = 1 .. Len(s) + 1
      /\ \A i \in 1 .. Len(s) : Append(s, y)[i] = s[i]
      /\ Append(s, y)[Len(s) + 1] = y
  OBVIOUS
<1>2. \A i \in 1 .. Len(s) : i \in 1 .. Len(s) + 1 BY <1>1
<1>3. Len(s) + 1 \in 1 .. Len(s) + 1 BY <1>1
<1>4. \A i \in 1 .. Len(s) + 1 : i \in 1 .. Len(s) \/ i = Len(s) + 1 BY <1>1
<1>5. QED BY <1>1, <1>2, <1>3, <1>4 DEF Holds

\* The counts of which a translator reads, whatever else comes with them.
CountsOf(said) ==
    [input |-> said.input, output |-> said.output, read |-> said.read, write |-> said.write]

LEMMA PushCounts ==
    ASSUME NEW kind \in Protocols, NEW t, NEW frame, NEW said
    PROVE  Push(kind, t, frame, said) = Push(kind, t, frame, CountsOf(said))
<1>1. /\ CountsOf(said).input = said.input /\ CountsOf(said).output = said.output
      /\ CountsOf(said).read = said.read /\ CountsOf(said).write = said.write
  BY DEF CountsOf
<1>2. QED BY <1>1 DEF Push, PushChat, PushResponses, PushAnthropic

\* What a reader has made of frames that are not the last.
Heard(kind, said, frames) ==
    LET step(heard, frame) == Push(kind, heard, frame, said)
    IN  FoldLeft(step, NewTranslator, frames)

LEMMA HeardEquations ==
    ASSUME NEW kind \in Protocols, NEW said, CountsOf(said) \in Counts
    PROVE  /\ \A frames \in Seq(FrameKinds) : Heard(kind, said, frames) \in Translators
           /\ Heard(kind, said, << >>) = NewTranslator
           /\ \A frames \in Seq(FrameKinds), frame \in FrameKinds :
                 Heard(kind, said, Append(frames, frame)) =
                   Push(kind, Heard(kind, said, frames), frame, said)
<1> DEFINE T == Translators
           E == FrameKinds
           op == [p \in T \X E |-> Push(kind, p[1], p[2], said)]
           F == [s \in Seq(E) |-> Heard(kind, said, s)]
           IsIt(f, s) == f = [P \in SUBSET DOMAIN s |->
                       IF P = {} THEN NewTranslator
                       ELSE LET i == Max(P) IN Push(kind, f[P \ {i}], s[i], said)]
<1>0. op \in [T \X E -> T]
  <2>1. ASSUME NEW p \in T \X E PROVE Push(kind, p[1], p[2], said) \in T
    <3>1. p[1] \in T /\ p[2] \in E OBVIOUS
    <3>2. Push(kind, p[1], p[2], CountsOf(said)) \in T BY <3>1, PushType
    <3>3. QED BY <3>2, PushCounts
  <2>2. QED BY <2>1
<1>1. NewTranslator \in T BY DEF NewTranslator, Translators
<1>2. \A t \in T, x \in E : op[<<t, x>>] = Push(kind, t, x, said) OBVIOUS
<1> HIDE DEF op
<1>3. ASSUME NEW s \in Seq(E)
      PROVE  \E f : IsFold(f, T, NewTranslator, op, s) /\ F[s] = f[DOMAIN s]
  <2>1. PICK f : IsTypedFold(f, T, NewTranslator, op, s) BY <1>0, <1>1, FoldTyped
  <2>2. ASSUME NEW P \in SUBSET DOMAIN s, P # {}
        PROVE  s[Max(P)] \in E
    <3>1. Len(s) \in Nat /\ DOMAIN s = 1 .. Len(s) OBVIOUS
    <3>2. Max(P) \in DOMAIN s BY <2>2, <3>1, MaxExists
    <3>3. QED BY <3>2
  <2>3. IsIt(f, s) BY <1>2, <2>1, <2>2 DEF IsTypedFold
  <2>4. Heard(kind, said, s) = (CHOOSE g : IsIt(g, s))[DOMAIN s]
    BY DEF Heard, FoldLeft, MapThenFoldSet
  <2> DEFINE h == CHOOSE g : IsIt(g, s)
  <2> HIDE DEF IsIt
  <2>5. IsIt(h, s) BY <2>3
  <2> HIDE DEF h
  <2> USE DEF IsIt
  <2>6. IsFold(h, T, NewTranslator, op, s) BY <1>2, <2>2, <2>5 DEF IsFold
  <2>7. QED BY <2>4, <2>6 DEF h
<1> HIDE DEF F
<1>4. IsFoldOf(F, E, T, NewTranslator, op) BY <1>3 DEF IsFoldOf
<1>5. Equations(F, E, T, NewTranslator, op) BY <1>0, <1>1, <1>4, FoldEquations
<1>6. \A s \in Seq(E) : F[s] = Heard(kind, said, s) BY DEF F
<1>7. \A s \in Seq(E), x \in E : Append(s, x) \in Seq(E) OBVIOUS
<1>8. \A s \in Seq(E) : Heard(kind, said, s) \in T BY <1>5, <1>6 DEF Equations
<1>9. Heard(kind, said, << >>) = NewTranslator BY <1>5, <1>6, << >> \in Seq(E) DEF Equations
<1>10. ASSUME NEW s \in Seq(E), NEW x \in E
       PROVE  Heard(kind, said, Append(s, x)) = Push(kind, Heard(kind, said, s), x, said)
  <2>1. F[Append(s, x)] = op[<<F[s], x>>] BY <1>5, <1>10 DEF Equations
  <2>2. F[Append(s, x)] = Heard(kind, said, Append(s, x)) /\ F[s] = Heard(kind, said, s)
    BY <1>6, <1>7, <1>10
  <2>3. QED BY <1>2, <1>8, <2>1, <2>2
<1>11. QED BY <1>8, <1>9, <1>10

\* Frames of which a reader makes the same.
SameRead(kind, said, s, t) ==
    /\ TextFrames(s) = TextFrames(t)
    /\ Holds(s, "bad") <=> Holds(t, "bad")
    /\ Heard(kind, said, s) = Heard(kind, said, t)

LEMMA SameAppend ==
    ASSUME NEW kind \in Protocols, NEW said, CountsOf(said) \in Counts,
           NEW s \in Seq(FrameKinds), NEW t \in Seq(FrameKinds), SameRead(kind, said, s, t),
           NEW frame \in FrameKinds
    PROVE  SameRead(kind, said, Append(s, frame), Append(t, frame))
<1>1. TextFrames(Append(s, frame)) = TextFrames(Append(t, frame))
  BY TextFramesAppend DEF SameRead
<1>2. Holds(Append(s, frame), "bad") <=> Holds(Append(t, frame), "bad")
  BY HoldsAppend DEF SameRead
<1>3. Heard(kind, said, Append(s, frame)) = Heard(kind, said, Append(t, frame))
  BY HeardEquations DEF SameRead
<1>4. QED BY <1>1, <1>2, <1>3 DEF SameRead

\* Frames without effect.
LEMMA NoiseAppend ==
    ASSUME NEW kind \in Protocols, NEW said, CountsOf(said) \in Counts,
           NEW s \in Seq(FrameKinds), NEW frame \in {"other", "end"}
    PROVE  Append(s, frame) \in Seq(FrameKinds) /\ SameRead(kind, said, Append(s, frame), s)
<1>0. frame \in FrameKinds /\ frame \notin {"start", "text", "usage", "bad"} BY DEF FrameKinds
<1>1. TextFrames(Append(s, frame)) = TextFrames(s) BY <1>0, TextFramesAppend
<1>2. Holds(Append(s, frame), "bad") <=> Holds(s, "bad") BY <1>0, HoldsAppend
<1>3. Heard(kind, said, Append(s, frame)) = Heard(kind, said, s)
  <2> DEFINE t == Heard(kind, said, s)
  <2>1. Heard(kind, said, Append(s, frame)) = Push(kind, t, frame, said)
    BY <1>0, HeardEquations
  <2> HIDE DEF t
  <2>2. Push(kind, t, frame, said) = t
    BY <1>0 DEF Push, PushChat, PushResponses, PushAnthropic, Protocols
  <2>3. QED BY <2>1, <2>2 DEF t
<1>4. QED BY <1>0, <1>1, <1>2, <1>3 DEF SameRead

\* The frame that carries what an event says.
Signal(event) ==
    CASE event = "delta" -> "text"
      [] event = "done"  -> "usage"
      [] event = "error" -> "bad"

LEMMA WrittenConcat ==
    ASSUME NEW client \in Protocols, NEW events \in Seq(EventKinds), NEW event \in EventKinds
    PROVE  /\ FramesWritten(client, events) \in Seq(FrameKinds)
           /\ FramesWritten(client, Append(events, event)) =
                FramesWritten(client, events) \o SseLines(client, event)
<1> DEFINE lines == [e \in EventKinds |-> SseLines(client, e)]
<1>1. ASSUME NEW e \in EventKinds PROVE SseLines(client, e) \in Seq(FrameKinds)
  <2>1. CASE e = "started"
    <3>1. SseLines(client, e) \in {<< >>, <<"other", "other">>}
      BY <2>1 DEF SseLines, ChatFrames, ResponsesFrames, AnthropicFrames, Protocols
    <3>2. << >> \in Seq(FrameKinds) /\ <<"other", "other">> \in Seq(FrameKinds) BY DEF FrameKinds
    <3>3. QED BY <3>1, <3>2
  <2>2. CASE e = "delta"
    <3>1. SseLines(client, e) = <<"text">>
      BY <2>2 DEF SseLines, ChatFrames, ResponsesFrames, AnthropicFrames, Protocols
    <3>2. QED BY <3>1 DEF FrameKinds
  <2>3. CASE e = "done"
    <3>1. SseLines(client, e) \in {<<"usage", "end">>, <<"usage">>, <<"other", "usage", "other">>}
      BY <2>3 DEF SseLines, ChatFrames, ResponsesFrames, AnthropicFrames, Protocols
    <3>2. /\ <<"usage", "end">> \in Seq(FrameKinds) /\ <<"usage">> \in Seq(FrameKinds)
          /\ <<"other", "usage", "other">> \in Seq(FrameKinds)
      BY DEF FrameKinds
    <3>3. QED BY <3>1, <3>2
  <2>4. CASE e = "error"
    <3>1. SseLines(client, e) \in {<<"bad", "end">>, <<"bad">>}
      BY <2>4 DEF SseLines, ChatFrames, ResponsesFrames, AnthropicFrames, Protocols
    <3>2. <<"bad", "end">> \in Seq(FrameKinds) /\ <<"bad">> \in Seq(FrameKinds) BY DEF FrameKinds
    <3>3. QED BY <3>1, <3>2
  <2>5. QED BY <2>1, <2>2, <2>3, <2>4 DEF EventKinds, Terminal
<1>2. lines \in [EventKinds -> Seq(FrameKinds)] BY <1>1
<1>3. \A es \in Seq(EventKinds) : FramesWritten(client, es) = FlattenSeq(Mapped(lines, es))
  <2>1. ASSUME NEW es \in Seq(EventKinds)
        PROVE  Mapped(lines, es) = [i \in DOMAIN es |-> SseLines(client, es[i])]
    <3>1. \A i \in DOMAIN es : es[i] \in EventKinds OBVIOUS
    <3>2. \A i \in DOMAIN es : lines[es[i]] = SseLines(client, es[i]) BY <3>1
    <3>3. QED BY <3>2 DEF Mapped
  <2>2. QED BY <2>1 DEF FramesWritten
<1>4. lines[event] = SseLines(client, event) OBVIOUS
<1> HIDE DEF lines
<1>5. Mapped(lines, events) \in Seq(Seq(FrameKinds)) BY <1>2, MappedType
<1>6. Mapped(lines, Append(events, event)) = Append(Mapped(lines, events), lines[event])
  BY <1>2, MappedAppend
<1>7. lines[event] \in Seq(FrameKinds) BY <1>1, <1>4
<1>8. FlattenSeq(Append(Mapped(lines, events), lines[event])) =
        FlattenSeq(Mapped(lines, events)) \o lines[event]
  BY <1>5, <1>7, FlattenAppend
<1>9. Append(events, event) \in Seq(EventKinds) OBVIOUS
<1>10. QED BY <1>3, <1>4, <1>5, <1>6, <1>8, <1>9, FlattenType

\* A reader makes of an event's frames what it makes of that frame alone.
LEMMA WrittenSame ==
    ASSUME NEW client \in Protocols, NEW said, CountsOf(said) \in Counts,
           NEW events \in Seq(EventKinds), NEW event \in EventKinds
    PROVE  SameRead(client, said, FramesWritten(client, Append(events, event)),
                    IF event = "started" THEN FramesWritten(client, events)
                    ELSE Append(FramesWritten(client, events), Signal(event)))
<1> DEFINE s == FramesWritten(client, events)
           Same(t, u) == SameRead(client, said, t, u)
<1>1. s \in Seq(FrameKinds) BY WrittenConcat
<1>2. FramesWritten(client, Append(events, event)) = s \o SseLines(client, event)
  BY WrittenConcat
<1> HIDE DEF s
<1>3. \A t, u, v \in Seq(FrameKinds) : Same(t, u) /\ Same(u, v) => Same(t, v) BY DEF SameRead
<1>4. \A t \in Seq(FrameKinds) : Same(t, t) BY DEF SameRead
<1>5. \A t \in Seq(FrameKinds), frame \in {"other", "end"} :
         Append(t, frame) \in Seq(FrameKinds) /\ Same(Append(t, frame), t)
  BY NoiseAppend
<1>6. \A t, u \in Seq(FrameKinds), frame \in FrameKinds :
         Same(t, u) => Same(Append(t, frame), Append(u, frame))
  BY SameAppend
<1>7. \A t \in Seq(FrameKinds), frame \in FrameKinds : Append(t, frame) \in Seq(FrameKinds)
  OBVIOUS
<1>8. /\ s \o << >> = s
      /\ \A x \in FrameKinds : s \o <<x>> = Append(s, x)
      /\ \A x, y \in FrameKinds : s \o <<x, y>> = Append(Append(s, x), y)
      /\ \A x, y, z \in FrameKinds : s \o <<x, y, z>> = Append(Append(Append(s, x), y), z)
  BY <1>1
<1>9. {"text", "usage", "other", "end", "bad"} \subseteq FrameKinds BY DEF FrameKinds
<1> HIDE DEF Same
<1>10. CASE event = "started"
  <2>1. SseLines(client, event) \in {<< >>, <<"other", "other">>}
    BY <1>10 DEF SseLines, ChatFrames, ResponsesFrames, AnthropicFrames, Protocols
  <2>2. Same(s, s) /\ Same(Append(Append(s, "other"), "other"), s) BY <1>1, <1>3, <1>4, <1>5
  <2>3. Same(s \o SseLines(client, event), s)
    <3>1. s \o << >> = s BY <1>8
    <3>2. s \o <<"other", "other">> = Append(Append(s, "other"), "other") BY <1>8, <1>9
    <3>3. CASE SseLines(client, event) = << >> BY <2>2, <3>1, <3>3
    <3>4. CASE SseLines(client, event) = <<"other", "other">> BY <2>2, <3>2, <3>4
    <3>5. QED BY <2>1, <3>3, <3>4
  <2>4. QED BY <1>2, <1>10, <2>3 DEF Same, s
<1>11. CASE event = "delta"
  <2>1. SseLines(client, event) = <<"text">>
    BY <1>11 DEF SseLines, ChatFrames, ResponsesFrames, AnthropicFrames, Protocols
  <2>2. Same(s \o SseLines(client, event), Append(s, "text"))
    <3>1. s \o <<"text">> = Append(s, "text") BY <1>8, <1>9
    <3>2. Append(s, "text") \in Seq(FrameKinds) BY <1>1, <1>7, <1>9
    <3>3. QED BY <1>4, <2>1, <3>1, <3>2
  <2>3. event # "started" /\ Signal(event) = "text" BY <1>11 DEF Signal
  <2>4. QED BY <1>2, <2>2, <2>3 DEF Same, s
<1>12. CASE event = "done"
  <2>1. SseLines(client, event) \in {<<"usage", "end">>, <<"usage">>, <<"other", "usage", "other">>}
    BY <1>12 DEF SseLines, ChatFrames, ResponsesFrames, AnthropicFrames, Protocols
  <2> DEFINE u == Append(s, "usage")
             o == Append(Append(s, "other"), "usage")
  <2>2. u \in Seq(FrameKinds) /\ o \in Seq(FrameKinds) BY <1>1, <1>7, <1>9
  <2>3. Same(Append(u, "end"), u) /\ Same(u, u) BY <1>4, <1>5, <2>2
  <2>4. Same(o, u) BY <1>1, <1>5, <1>6, <1>9
  <2>5. Same(Append(o, "other"), o) /\ Append(o, "other") \in Seq(FrameKinds) BY <1>5, <2>2
  <2>6. Same(Append(o, "other"), u)
    <3> HIDE DEF u, o
    <3>1. QED BY <1>3, <2>2, <2>4, <2>5
  <2>7. Same(s \o SseLines(client, event), u)
    <3>1. /\ s \o <<"usage", "end">> = Append(u, "end") /\ s \o <<"usage">> = u
          /\ s \o <<"other", "usage", "other">> = Append(o, "other")
      BY <1>8, <1>9
    <3> HIDE DEF u, o
    <3>2. QED BY <2>1, <2>3, <2>6, <3>1
  <2>8. event # "started" /\ Signal(event) = "usage" BY <1>12 DEF Signal
  <2>9. QED BY <1>2, <2>7, <2>8 DEF Same, s
<1>13. CASE event = "error"
  <2>1. SseLines(client, event) \in {<<"bad", "end">>, <<"bad">>}
    BY <1>13 DEF SseLines, ChatFrames, ResponsesFrames, AnthropicFrames, Protocols
  <2> DEFINE u == Append(s, "bad")
  <2>2. u \in Seq(FrameKinds) BY <1>1, <1>7, <1>9
  <2>3. Same(Append(u, "end"), u) /\ Same(u, u) BY <1>4, <1>5, <2>2
  <2>4. Same(s \o SseLines(client, event), u)
    <3>1. s \o <<"bad", "end">> = Append(u, "end") /\ s \o <<"bad">> = u BY <1>8, <1>9
    <3> HIDE DEF u
    <3>2. QED BY <2>1, <2>3, <3>1
  <2>5. event # "started" /\ Signal(event) = "bad" BY <1>13 DEF Signal
  <2>6. QED BY <1>2, <2>4, <2>5 DEF Same, s
<1>14. QED BY <1>10, <1>11, <1>12, <1>13 DEF EventKinds, Terminal

\* A reader's translator after one more event: said are the counts of the end.
LEMMA HeardWritten ==
    ASSUME NEW client \in Protocols, NEW said, CountsOf(said) \in Counts,
           NEW events \in Seq(EventKinds), NEW event \in EventKinds
    PROVE  LET t == Heard(client, said, FramesWritten(client, events))
               p == Heard(client, said, FramesWritten(client, Append(events, event)))
           IN  /\ t \in Translators /\ p \in Translators
               /\ p.text = IF event = "delta" THEN t.text + 1 ELSE t.text
               /\ p.input = IF event = "done" /\ client # "anthropic" THEN said.input ELSE t.input
               /\ p.output = IF event = "done" THEN said.output ELSE t.output
               /\ p.known <=> event = "done" \/ t.known
<1> DEFINE s == FramesWritten(client, events)
           long == FramesWritten(client, Append(events, event))
           t == Heard(client, said, s)
           p == Heard(client, said, long)
           counts == CountsOf(said)
           frame == Signal(event)
<1>1. s \in Seq(FrameKinds) BY WrittenConcat
<1>2. long \in Seq(FrameKinds)
  <2>1. Append(events, event) \in Seq(EventKinds) OBVIOUS
  <2>2. QED BY <2>1, WrittenConcat
<1>3. t \in Translators /\ p \in Translators BY <1>1, <1>2, HeardEquations
<1>4. SameRead(client, said, long, IF event = "started" THEN s ELSE Append(s, frame))
  BY WrittenSame
<1> HIDE DEF s, long
<1>5. CASE event = "started"
  <2>1. p = t BY <1>4, <1>5 DEF SameRead
  <2>2. QED BY <1>3, <1>5, <2>1 DEF s, long
<1>6. CASE event # "started"
  <2>1. /\ event = "delta" => frame = "text"
        /\ event = "done" => frame = "usage"
        /\ event = "error" => frame = "bad"
    BY DEF Signal
  <2>2. event \in {"delta", "done", "error"} BY <1>6 DEF EventKinds, Terminal
  <2>3. frame \in {"text", "usage", "bad"} BY <2>1, <2>2
  <2> HIDE DEF frame
  <2>4. frame \in FrameKinds BY <2>3 DEF FrameKinds
  <2>5. p = Heard(client, said, Append(s, frame)) BY <1>4, <1>6 DEF SameRead
  <2>6. p = Push(client, t, frame, counts)
    <3>1. Heard(client, said, Append(s, frame)) = Push(client, t, frame, said)
      BY <1>1, <2>4, HeardEquations
    <3>2. QED BY <2>5, <3>1, PushCounts
  <2>7. counts.input = said.input /\ counts.output = said.output BY DEF CountsOf
  <2>8. counts \in Counts OBVIOUS
  <2> HIDE DEF t, p, counts
  <2>9. CASE client \in {"chat", "responses"}
    <3>1. p = PushChat(t, frame, counts)
      BY <1>3, <2>4, <2>6, <2>8, <2>9, PushResponsesIs DEF Push
    <3>2. /\ p.text = IF frame = "text" THEN t.text + 1 ELSE t.text
          /\ p.input = IF frame = "usage" THEN counts.input ELSE t.input
          /\ p.output = IF frame = "usage" THEN counts.output ELSE t.output
          /\ p.known <=> frame = "usage" \/ t.known
      BY <1>3, <2>4, <2>8, <3>1, PushChatFields
    <3>3. QED BY <1>3, <2>1, <2>2, <2>7, <2>9, <3>2 DEF t, p, s, long
  <2>10. CASE client = "anthropic"
    <3>1. p = PushAnthropic(t, frame, counts) BY <2>6, <2>10 DEF Push
    <3>2. /\ p.text = IF frame = "text" THEN t.text + 1 ELSE t.text
          /\ p.input = IF frame = "start" THEN counts.input ELSE t.input
          /\ p.output = IF frame = "usage" THEN counts.output ELSE t.output
          /\ p.known <=> frame \in {"start", "usage"} \/ t.known
      BY <1>3, <2>4, <2>8, <3>1, PushAnthropicFields
    <3>3. frame # "start" BY <2>3
    <3>4. QED BY <1>3, <2>1, <2>2, <2>7, <2>10, <3>2, <3>3 DEF t, p, s, long
  <2>11. QED BY <2>9, <2>10 DEF Protocols
<1>7. QED BY <1>5, <1>6

\* What a reader has made of whole events: all of their text, and of a prompt
\* to Anthropic no count.
ReadSoFar(client, said, events) ==
    LET frames == FramesWritten(client, events)
        t == Heard(client, said, frames)
    IN  /\ t.text = DeltasIn(events)
        /\ client = "anthropic" => t.input = 0
        /\ TextFrames(frames) = DeltasIn(events)
        /\ Holds(frames, "bad") <=> Holds(events, "error")

LEMMA EventsRead ==
    ASSUME NEW client \in Protocols, NEW said, CountsOf(said) \in Counts
    PROVE  \A events \in Seq(EventKinds) : ReadSoFar(client, said, events)
<1> DEFINE G == {events \in Seq(EventKinds) : ReadSoFar(client, said, events)}
<1>1. << >> \in G
  <2>1. FramesWritten(client, << >>) = << >>
    <3>1. [i \in DOMAIN << >> |-> SseLines(client, << >>[i])] = << >> OBVIOUS
    <3>2. QED BY <3>1, FlattenEmpty DEF FramesWritten
  <2>2. Heard(client, said, << >>) = NewTranslator BY HeardEquations
  <2>3. {i \in DOMAIN << >> : << >>[i] = "delta"} = {}
        /\ {i \in DOMAIN << >> : << >>[i] = "text"} = {}
    OBVIOUS
  <2>4. DeltasIn(<< >>) = 0 /\ TextFrames(<< >>) = 0
    BY <2>3, FS_EmptySet DEF DeltasIn, TextFrames
  <2>5. ~Holds(<< >>, "bad") /\ ~Holds(<< >>, "error") BY DEF Holds
  <2>6. ReadSoFar(client, said, << >>)
    BY <2>1, <2>2, <2>4, <2>5 DEF ReadSoFar, NewTranslator
  <2>7. << >> \in Seq(EventKinds) OBVIOUS
  <2>8. QED BY <2>6, <2>7
<1>2. ASSUME NEW events \in Seq(EventKinds), NEW event \in EventKinds, events \in G
      PROVE  Append(events, event) \in G
  <2> DEFINE s == FramesWritten(client, events)
             long == FramesWritten(client, Append(events, event))
             t == Heard(client, said, s)
             p == Heard(client, said, long)
             frame == Signal(event)
  <2>1. s \in Seq(FrameKinds) BY WrittenConcat
  <2>2. /\ t.text = DeltasIn(events)
        /\ client = "anthropic" => t.input = 0
        /\ TextFrames(s) = DeltasIn(events)
        /\ Holds(s, "bad") <=> Holds(events, "error")
    BY <1>2 DEF ReadSoFar
  <2>3. /\ p.text = IF event = "delta" THEN t.text + 1 ELSE t.text
        /\ client = "anthropic" => p.input = t.input
    BY HeardWritten
  <2>4. SameRead(client, said, long, IF event = "started" THEN s ELSE Append(s, frame))
    BY WrittenSame
  <2>5. DeltasIn(Append(events, event)) =
          IF event = "delta" THEN DeltasIn(events) + 1 ELSE DeltasIn(events)
    BY DeltasAppend
  <2>6. Holds(Append(events, event), "error") <=> Holds(events, "error") \/ event = "error"
    BY HoldsAppend
  <2> HIDE DEF s, long, t, p
  <2>7. /\ TextFrames(long) = IF event = "delta" THEN TextFrames(s) + 1 ELSE TextFrames(s)
        /\ Holds(long, "bad") <=> Holds(s, "bad") \/ event = "error"
    <3>1. CASE event = "started" BY <2>4, <3>1 DEF SameRead
    <3>2. CASE event # "started"
      <4>1. /\ event = "delta" => frame = "text"
            /\ event = "done" => frame = "usage"
            /\ event = "error" => frame = "bad"
        BY DEF Signal
      <4>2. event \in {"delta", "done", "error"} BY <3>2 DEF EventKinds, Terminal
      <4> HIDE DEF frame
      <4>3. frame \in FrameKinds BY <4>1, <4>2 DEF FrameKinds
      <4>4. /\ TextFrames(long) = TextFrames(Append(s, frame))
            /\ Holds(long, "bad") <=> Holds(Append(s, frame), "bad")
        BY <2>4, <3>2 DEF SameRead
      <4>5. TextFrames(Append(s, frame)) = IF frame = "text" THEN TextFrames(s) + 1 ELSE TextFrames(s)
        BY <2>1, <4>3, TextFramesAppend
      <4>6. Holds(Append(s, frame), "bad") <=> Holds(s, "bad") \/ frame = "bad"
        BY <2>1, <4>3, HoldsAppend
      <4>7. QED BY <4>1, <4>2, <4>4, <4>5, <4>6
    <3>3. QED BY <3>1, <3>2
  <2>8. ReadSoFar(client, said, Append(events, event))
    BY <2>2, <2>3, <2>5, <2>6, <2>7 DEF ReadSoFar, s, long, t, p
  <2>9. QED BY <2>8
<1>3. QED
  <2>1. \A events \in Seq(EventKinds) : events \in G
    <3> HIDE DEF G
    <3>1. QED BY <1>1, <1>2, SeqInduction
  <2>2. QED BY <2>1

\* What a reader makes of a stream that is done.
LEMMA DoneRead ==
    ASSUME NEW client \in Protocols, NEW said, CountsOf(said) \in Counts,
           NEW events \in Seq(EventKinds)
    PROVE  LET read == Reading(client, FramesWritten(client, Append(events, "done")), said) IN
           /\ read.output = IF client = "chat" \/ said.output > 0 THEN said.output
                            ELSE (DeltaChars * DeltasIn(Append(events, "done"))) \div 4
           /\ read.input = IF client = "anthropic" THEN 0 ELSE said.input
<1> DEFINE long == FramesWritten(client, Append(events, "done"))
           p == Heard(client, said, long)
<1>0. "done" \in EventKinds BY DEF EventKinds, Terminal
<1>1. Append(events, "done") \in Seq(EventKinds) BY <1>0
<1>2. /\ p \in Translators
      /\ client # "anthropic" => p.input = said.input
      /\ p.output = said.output
      /\ p.known
  BY <1>0, HeardWritten
<1>3. /\ p.text = DeltasIn(Append(events, "done"))
      /\ client = "anthropic" => p.input = 0
  <2>1. ReadSoFar(client, said, Append(events, "done")) BY <1>1, EventsRead
  <2>2. QED BY <2>1 DEF ReadSoFar
<1>4. Reading(client, long, said) = Finish(client, p) BY DEF Reading, Heard
<1>5. Estimate(p) = (DeltaChars * DeltasIn(Append(events, "done"))) \div 4
  BY <1>3 DEF Estimate
<1> HIDE DEF long, p
<1>6. CASE client = "chat"
  <2>1. Finish(client, p) = FinishChat(p) BY <1>6 DEF Finish
  <2>2. QED BY <1>2, <1>4, <1>6, <2>1 DEF FinishChat, OpenAiCall, long
<1>7. CASE client = "responses"
  <2>1. Finish(client, p) = FinishResponses(p) BY <1>7 DEF Finish
  <2>2. QED BY <1>2, <1>4, <1>5, <1>7, <2>1 DEF FinishResponses, OpenAiCall, long
<1>8. CASE client = "anthropic"
  <2>1. Finish(client, p) = FinishAnthropic(p) BY <1>8 DEF Finish
  <2>2. QED BY <1>2, <1>3, <1>4, <1>5, <1>8, <2>1 DEF FinishAnthropic, AnthropicCall, long
<1>9. QED BY <1>6, <1>7, <1>8 DEF Protocols
=============================================================================
