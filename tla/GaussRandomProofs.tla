------------------------- MODULE GaussRandomProofs -------------------------
(***************************************************************************)
(* Proofs about the shared cache of gaussRandom (GaussRandom.tla), for     *)
(* every set of engines, every draw stream, every set of sizes and every   *)
(* bound on the calls.                                                     *)
(*                                                                         *)
(* TypeOK is not inductive by itself: Cached hands out v_val, which is a   *)
(* draw only while return_v is set.  CacheTyped adds that fact.            *)
(* CacheConservesDraws is inductive over IInv; the step of Accept rests on *)
(* TokensAppend.  CacheEmptyBetweenCalls needs more: Parity (values handed *)
(* out plus values still owed is even) with the hypothesis EvenSizes.      *)
(*                                                                         *)
(* Determinism stays with TLC.  Its inductive form says that Y[e] is a     *)
(* function of asked[e], the solutions randnMatrix computes from position  *)
(* 0 of the stream call after call; stating that function needs a          *)
(* recursion over the calls and the draws, and proving it needs induction  *)
(* over that data, which the provers here cannot instantiate.              *)
(***************************************************************************)
EXTENDS GaussRandom, SequenceTheorems, TLAPS

CacheTyped == return_v => v_val \in Token

IInv == TypeOK /\ CacheTyped

-----------------------------------------------------------------------------
(* rng() yields a value of the stream.                                     *)
LEMMA RngType ==
  ASSUME NEW p \in Nat
  PROVE  Rng(p) \in -4 .. 4
<1>1. Draws \in Seq(-4 .. 4) /\ Len(Draws) > 0
  BY DrawsAssumption
<1>2. (p % Len(Draws)) + 1 \in 1 .. Len(Draws)
  BY <1>1, SMT
<1>3. QED
  BY <1>1, <1>2 DEF Rng

(* The pair the busy engine draws is a pair of stream values.              *)
LEMMA PairType ==
  ASSUME TypeOK, busy # NoEngine
  PROVE  U \in -4 .. 4 /\ V \in -4 .. 4
<1>1. pos[busy] \in Nat
  BY DEF TypeOK
<1>2. QED
  BY <1>1, RngType DEF U, V

LEMMA InitIInv == Init => IInv
<1> SUFFICES ASSUME Init PROVE IInv
  OBVIOUS
<1>1. pos \in [Engines -> Nat] /\ asked \in [Engines -> Seq(Sizes)]
      /\ Y \in [Engines -> Seq(Token)]
  BY DEF Init
<1>2. v_val \in Token \cup {NoValue} /\ ~return_v
  BY DEF Init
<1>3. x \in Seq(Token) /\ emitted \in Seq(Token) /\ pairs \in Seq((-4 .. 4) \X (-4 .. 4))
  BY DEF Init
<1>4. QED
  BY <1>1, <1>2, <1>3 DEF Init, IInv, TypeOK, CacheTyped

LEMMA NextIInv == IInv /\ [Next]_vars => IInv'
<1> SUFFICES ASSUME IInv, [Next]_vars PROVE IInv'
  OBVIOUS
<1>1. TypeOK /\ CacheTyped
  BY DEF IInv
<1>2. ASSUME NEW e \in Engines, NEW n \in Sizes, InitSolution(e, n)
      PROVE  IInv'
  <2>1. n \in Nat
    BY SizesAssumption
  <2>2. QED
    BY <1>1, <1>2, <2>1 DEF InitSolution, IInv, TypeOK, CacheTyped
<1>3. CASE Cached
  <2>1. v_val \in Token /\ x \in Seq(Token) /\ emitted \in Seq(Token)
    BY <1>1, <1>3 DEF Cached, TypeOK, CacheTyped
  <2>2. Append(x, v_val) \in Seq(Token) /\ Append(emitted, v_val) \in Seq(Token)
    BY <2>1
  <2>3. rem' \in Nat /\ ~return_v'
    BY <1>1, <1>3 DEF Cached, Store, TypeOK
  <2>4. QED
    BY <1>1, <1>3, <2>2, <2>3 DEF Cached, Store, IInv, TypeOK, CacheTyped
<1>4. CASE Redraw
  BY <1>1, <1>4 DEF Redraw, IInv, TypeOK, CacheTyped
<1>5. CASE Accept
  <2>1. U \in -4 .. 4 /\ V \in -4 .. 4
    BY <1>1, <1>5, PairType DEF Accept
  <2>2. <<"u", U, V>> \in Token /\ <<"v", U, V>> \in Token
    BY <2>1 DEF Token
  <2>3. /\ Append(x, <<"u", U, V>>) \in Seq(Token)
        /\ Append(emitted, <<"u", U, V>>) \in Seq(Token)
        /\ Append(pairs, <<U, V>>) \in Seq((-4 .. 4) \X (-4 .. 4))
    BY <1>1, <2>1, <2>2 DEF TypeOK
  <2>4. pos' \in [Engines -> Nat]
    BY <1>1, <1>5 DEF Accept, TypeOK
  <2>5. QED
    BY <1>1, <1>5, <2>2, <2>3, <2>4 DEF Accept, Store, IInv, TypeOK, CacheTyped
<1>6. CASE Return
  BY <1>1, <1>6 DEF Return, IInv, TypeOK, CacheTyped
<1>7. CASE Idle \/ UNCHANGED vars
  BY <1>1, <1>7 DEF Idle, vars, IInv, TypeOK, CacheTyped
<1>8. QED
  BY <1>2, <1>3, <1>4, <1>5, <1>6, <1>7 DEF Next

(* The cache, the rng positions and the solutions stay well typed: a      *)
(* value gaussRandom hands out (cached or fresh) is always a drawn token,  *)
(* never the initial v_val = 0.0 before any pair was accepted.             *)
THEOREM TypeCorrect == Spec => []TypeOK
<1>1. Init => IInv
  BY InitIInv
<1>2. IInv /\ [Next]_vars => IInv'
  BY NextIInv
<1>3. QED
  BY <1>1, <1>2, PTL DEF Spec, IInv
-----------------------------------------------------------------------------
(* The last two places of a sequence of pairs' tokens, and the rest.      *)
LEMMA LastTwo ==
  \A l \in Nat : \A i \in 1 .. (2 * l + 2) :
    i \in 1 .. (2 * l) \/ i = 2 * l + 1 \/ i = 2 * l + 2
  BY SMT

(* The tokens of n pairs are a sequence of 2n tokens.                     *)
LEMMA TokensSeq ==
  ASSUME NEW ps \in Seq((-4 .. 4) \X (-4 .. 4))
  PROVE  Tokens(ps) \in Seq(Token) /\ Len(Tokens(ps)) = 2 * Len(ps)
<1>1. Len(ps) \in Nat
  OBVIOUS
<1>2. \A j \in 1 .. (2 * Len(ps)) : (j + 1) \div 2 \in 1 .. Len(ps)
  BY <1>1, SMT
<1>3. \A j \in 1 .. (2 * Len(ps)) : ps[(j + 1) \div 2] \in (-4 .. 4) \X (-4 .. 4)
  BY <1>2
<1>4. QED
  BY <1>1, <1>3 DEF Tokens, Token

(* Accepting the pair (a, b) extends the expected tokens by its u and v.   *)
LEMMA TokensAppend ==
  ASSUME NEW ps \in Seq((-4 .. 4) \X (-4 .. 4)), NEW a \in -4 .. 4, NEW b \in -4 .. 4
  PROVE  Append(Tokens(ps), <<"u", a, b>>) \o << <<"v", a, b>> >>
           = Tokens(Append(ps, <<a, b>>))
<1> DEFINE L == Len(ps)
           qs == Append(ps, <<a, b>>)
           R == Append(Tokens(ps), <<"u", a, b>>) \o << <<"v", a, b>> >>
<1>1. L \in Nat /\ Len(qs) = L + 1 /\ qs[L + 1] = <<a, b>>
      /\ \A k \in 1 .. L : qs[k] = ps[k]
  OBVIOUS
<1>2. Tokens(ps) \in Seq(Token) /\ Len(Tokens(ps)) = 2 * L
  BY TokensSeq
<1>3. /\ Len(R) = 2 * L + 2
      /\ \A j \in 1 .. (2 * L) : R[j] = Tokens(ps)[j]
      /\ R[2 * L + 1] = <<"u", a, b>>
      /\ R[2 * L + 2] = <<"v", a, b>>
  BY <1>1, <1>2
<1>4. /\ DOMAIN Tokens(qs) = 1 .. (2 * L + 2)
      /\ \A j \in 1 .. (2 * L) : Tokens(qs)[j] = Tokens(ps)[j]
      /\ Tokens(qs)[2 * L + 1] = <<"u", a, b>>
      /\ Tokens(qs)[2 * L + 2] = <<"v", a, b>>
  <2>1. \A j \in 1 .. (2 * L) : (j + 1) \div 2 \in 1 .. L
    BY <1>1, SMT
  <2>2. (2 * L + 1 + 1) \div 2 = L + 1 /\ (2 * L + 2 + 1) \div 2 = L + 1
    BY <1>1, SMT
  <2>3. (2 * L + 1) % 2 = 1 /\ (2 * L + 2) % 2 = 0
    BY <1>1, SMT
  <2>4. \A j \in 1 .. (2 * L) : Tokens(qs)[j] = Tokens(ps)[j]
    BY <1>1, <2>1, SMT DEF Tokens
  <2>5. DOMAIN Tokens(qs) = 1 .. (2 * L + 2)
    BY <1>1 DEF Tokens
  <2>6. Tokens(qs)[2 * L + 1] = <<"u", qs[L + 1][1], qs[L + 1][2]>>
    <3>1. 2 * L + 1 \in 1 .. (2 * Len(qs))
      BY <1>1, SMT
    <3>2. QED
      BY <1>1, <2>2, <2>3, <3>1 DEF Tokens
  <2>7. Tokens(qs)[2 * L + 2] = <<"v", qs[L + 1][1], qs[L + 1][2]>>
    <3>1. 2 * L + 2 \in 1 .. (2 * Len(qs))
      BY <1>1, SMT
    <3>2. QED
      BY <1>1, <2>2, <2>3, <3>1 DEF Tokens
  <2>8. qs[L + 1][1] = a /\ qs[L + 1][2] = b
    BY <1>1
  <2>9. QED
    BY <2>4, <2>5, <2>6, <2>7, <2>8
<1>5. R \in Seq(Token) /\ DOMAIN R = 1 .. (2 * L + 2)
  <2>1. <<"u", a, b>> \in Token /\ <<"v", a, b>> \in Token
    BY DEF Token
  <2>2. Append(Tokens(ps), <<"u", a, b>>) \in Seq(Token)
    BY <1>2, <2>1
  <2>3. R \in Seq(Token)
    BY <2>1, <2>2
  <2>4. QED
    BY <1>1, <1>3, <2>3
<1>6. Tokens(qs) = [j \in 1 .. (2 * L + 2) |-> Tokens(qs)[j]]
  BY <1>1, <1>4 DEF Tokens
<1>7. R = [j \in 1 .. (2 * L + 2) |-> R[j]]
  BY <1>5
<1>8. ASSUME NEW j \in 1 .. (2 * L + 2) PROVE R[j] = Tokens(qs)[j]
  <2>0. j \in 1 .. (2 * L) \/ j = 2 * L + 1 \/ j = 2 * L + 2
    BY <1>1, LastTwo
  <2>1. CASE j \in 1 .. (2 * L)
    BY <1>3, <1>4, <2>1
  <2>2. CASE j = 2 * L + 1
    BY <1>3, <1>4, <2>2
  <2>3. CASE j = 2 * L + 2
    BY <1>3, <1>4, <2>3
  <2>4. QED
    BY <2>0, <2>1, <2>2, <2>3
<1>9. QED
  BY <1>6, <1>7, <1>8

CInv == IInv /\ CacheConservesDraws

LEMMA InitCInv == Init => CInv
<1> SUFFICES ASSUME Init PROVE CInv
  OBVIOUS
<1>1. emitted = << >> /\ pairs = << >> /\ ~return_v
  BY DEF Init
<1>2. Tokens(pairs) = << >>
  BY <1>1 DEF Tokens
<1>3. QED
  BY <1>1, <1>2, InitIInv DEF CInv, CacheConservesDraws

LEMMA NextCInv == CInv /\ [Next]_vars => CInv'
<1> SUFFICES ASSUME CInv, [Next]_vars PROVE CacheConservesDraws'
  BY NextIInv DEF CInv
<1>1. TypeOK /\ CacheTyped /\ CacheConservesDraws
  BY DEF CInv, IInv
<1>2. ASSUME NEW e \in Engines, NEW n \in Sizes, InitSolution(e, n)
      PROVE  CacheConservesDraws'
  BY <1>1, <1>2 DEF InitSolution, CacheConservesDraws
<1>3. CASE Cached
  <2>1. v_val \in Token /\ emitted \in Seq(Token) /\ return_v
    BY <1>1, <1>3 DEF Cached, TypeOK, CacheTyped
  <2>2. emitted \o << v_val >> = Tokens(pairs)
    BY <1>1, <2>1 DEF CacheConservesDraws
  <2>3. emitted' = emitted \o << v_val >>
    BY <1>3, <2>1, AppendIsConcat DEF Cached, Store
  <2>4. emitted' \in Seq(Token)
    BY <2>1, <2>3
  <2>5. emitted' \o << >> = emitted'
    BY <2>4, ConcatEmptySeq
  <2>6. ~return_v' /\ pairs' = pairs
    BY <1>3 DEF Cached
  <2>7. QED
    BY <2>2, <2>3, <2>5, <2>6 DEF CacheConservesDraws
<1>4. CASE Redraw
  BY <1>1, <1>4 DEF Redraw, CacheConservesDraws
<1>5. CASE Accept
  <2>1. U \in -4 .. 4 /\ V \in -4 .. 4
    BY <1>1, <1>5, PairType DEF Accept
  <2>2. emitted \in Seq(Token) /\ pairs \in Seq((-4 .. 4) \X (-4 .. 4)) /\ ~return_v
    BY <1>1, <1>5 DEF Accept, TypeOK
  <2>3. emitted = Tokens(pairs)
    BY <1>1, <2>2, ConcatEmptySeq DEF CacheConservesDraws
  <2>4. /\ emitted' = Append(emitted, <<"u", U, V>>)
        /\ pairs' = Append(pairs, <<U, V>>)
        /\ return_v' /\ v_val' = <<"v", U, V>>
    BY <1>5 DEF Accept, Store
  <2>5. Append(Tokens(pairs), <<"u", U, V>>) \o << <<"v", U, V>> >>
          = Tokens(Append(pairs, <<U, V>>))
    BY <2>1, <2>2, TokensAppend
  <2>6. QED
    BY <2>3, <2>4, <2>5 DEF CacheConservesDraws
<1>6. CASE Return
  BY <1>1, <1>6 DEF Return, CacheConservesDraws
<1>7. CASE Idle \/ UNCHANGED vars
  BY <1>1, <1>7 DEF Idle, vars, CacheConservesDraws
<1>8. QED
  BY <1>2, <1>3, <1>4, <1>5, <1>6, <1>7 DEF Next

(* gaussRandom's shared cache loses and repeats no draw (the comment of    *)
(* part_000 lines 58-60): the values returned, with the cached one, are    *)
(* the u and v of every accepted pair, each once and in order.             *)
THEOREM Conserves == Spec => []CacheConservesDraws
<1>1. Init => CInv
  BY InitCInv
<1>2. CInv /\ [Next]_vars => CInv'
  BY NextCInv
<1>3. QED
  BY <1>1, <1>2, PTL DEF Spec, CInv
-----------------------------------------------------------------------------
(* nd = N*dim is even for every call (N even, or dim = 2).                 *)
EvenSizes == \A n \in Sizes : n % 2 = 0

(* Outside initSolution an even number of values has been handed out;     *)
(* inside it, the values handed out and those still to draw sum to an     *)
(* even number.                                                            *)
Parity == (Len(emitted) + (IF busy = NoEngine THEN 0 ELSE rem)) % 2 = 0

EInv == CInv /\ Parity

LEMMA InitEInv == Init => EInv
<1> SUFFICES ASSUME Init PROVE EInv
  OBVIOUS
<1>1. emitted = << >> /\ busy = NoEngine
  BY DEF Init
<1>2. QED
  BY <1>1, InitCInv DEF EInv, Parity

LEMMA NextEInv ==
  ASSUME EvenSizes
  PROVE  EInv /\ [Next]_vars => EInv'
<1> SUFFICES ASSUME EInv, [Next]_vars PROVE Parity'
  BY NextCInv DEF EInv
<1>1. TypeOK /\ Parity
  BY DEF EInv, CInv, IInv
<1>2. Len(emitted) \in Nat /\ rem \in Nat
  BY <1>1 DEF TypeOK
<1>3. ASSUME NEW e \in Engines, NEW n \in Sizes, InitSolution(e, n)
      PROVE  Parity'
  <2>1. n \in Nat /\ n % 2 = 0
    BY SizesAssumption DEF EvenSizes
  <2>2. busy = NoEngine /\ busy' = e /\ e # NoEngine
    BY <1>3, NoEngineAssumption DEF InitSolution
  <2>3. Len(emitted) % 2 = 0
    BY <1>1, <2>2 DEF Parity
  <2>4. emitted' = emitted /\ rem' = n
    BY <1>3 DEF InitSolution
  <2>5. QED
    BY <1>2, <2>1, <2>2, <2>3, <2>4 DEF Parity
<1>4. ASSUME busy # NoEngine, busy' = busy, rem > 0,
             Len(emitted') = Len(emitted) + 1, rem' = rem - 1
      PROVE  Parity'
  BY <1>1, <1>2, <1>4 DEF Parity
<1>5. CASE Cached
  <2>1. v_val \in Token /\ emitted \in Seq(Token)
    BY <1>1, <1>5 DEF Cached, TypeOK, EInv, CInv, IInv, CacheTyped
  <2>2. Len(emitted') = Len(emitted) + 1
    BY <1>5, <2>1 DEF Cached, Store
  <2>3. QED
    BY <1>4, <1>5, <2>2 DEF Cached, Store
<1>6. CASE Accept
  <2>1. emitted \in Seq(Token)
    BY <1>1 DEF TypeOK
  <2>2. Len(emitted') = Len(emitted) + 1
    BY <1>6, <2>1 DEF Accept, Store
  <2>3. QED
    BY <1>4, <1>6, <2>2 DEF Accept, Store
<1>7. CASE Redraw
  BY <1>1, <1>7 DEF Redraw, Parity
<1>8. CASE Return
  BY <1>1, <1>2, <1>8 DEF Return, Parity
<1>9. CASE Idle \/ UNCHANGED vars
  BY <1>1, <1>9 DEF Idle, vars, Parity
<1>10. QED
  BY <1>3, <1>5, <1>6, <1>7, <1>8, <1>9 DEF Next

(* Between two initSolution calls no second draw is left in the shared    *)
(* cache (part_000 lines 61-62, 94-96): draws are accepted in pairs, so   *)
(* an even number of values handed out has used every cached v.           *)
LEMMA EInvEmpty == EInv => CacheEmptyBetweenCalls
<1> SUFFICES ASSUME EInv, busy = NoEngine, return_v PROVE FALSE
  BY DEF CacheEmptyBetweenCalls
<1>1. TypeOK /\ CacheTyped /\ CacheConservesDraws /\ Parity
  BY DEF EInv, CInv, IInv
<1>2. emitted \in Seq(Token) /\ v_val \in Token
      /\ pairs \in Seq((-4 .. 4) \X (-4 .. 4))
  BY <1>1 DEF TypeOK, CacheTyped
<1>3. emitted \o << v_val >> = Tokens(pairs)
  BY <1>1 DEF CacheConservesDraws
<1>4. Len(emitted \o << v_val >>) = Len(emitted) + 1
  BY <1>2
<1>5. Len(Tokens(pairs)) = 2 * Len(pairs) /\ Len(pairs) \in Nat
  BY <1>2, TokensSeq
<1>6. Len(emitted) % 2 = 0 /\ Len(emitted) \in Nat
  BY <1>1, <1>2 DEF Parity
<1>7. QED
  BY <1>3, <1>4, <1>5, <1>6

(* When every initSolution call draws an even number of values (N*dim     *)
(* even), the cache gaussRandom shares between engines is empty whenever  *)
(* no engine is inside initSolution.  MCGaussRandomOdd shows that an odd  *)
(* N*dim leaves a draw behind for the next engine.                        *)
THEOREM CacheEmpty ==
  ASSUME EvenSizes
  PROVE  Spec => []CacheEmptyBetweenCalls
<1>1. Init => EInv
  BY InitEInv
<1>2. EInv /\ [Next]_vars => EInv'
  BY NextEInv
<1>3. EInv => CacheEmptyBetweenCalls
  BY EInvEmpty
<1>4. QED
  BY <1>1, <1>2, <1>3, PTL DEF Spec
=============================================================================
