---------------------------- MODULE GaussRandom ----------------------------
(***************************************************************************)
(* gaussRandom, randn and randnMatrix (src/unnamed/part_000 lines 58-129)  *)
(* as initSolution (lines 305-307) uses them, for several TSNE engines in  *)
(* one JavaScript realm.  The cache of the second polar draw (return_v,    *)
(* v_val, lines 61-62) is module-level: every engine shares it, while each *)
(* engine has its own rng.                                                 *)
(*                                                                         *)
(* Steps.  One step is one call of gaussRandom with its outcome: the       *)
(* cached value (lines 94-96), a rejected pair that recurses (98-102), or  *)
(* an accepted pair (98-107); each returned value is stored by the loop of *)
(* randnMatrix (125-126).  JavaScript runs initSolution to completion, so  *)
(* while one engine is inside it (busy) no other engine takes a step.      *)
(*                                                                         *)
(* Abstraction.  rng() is a fixed stream Draws of values 2*rng()-1 in      *)
(* units of 1/4 (every engine is seeded alike and starts at its head).     *)
(* r = u*u + v*v is then in units of 1/16.  An accepted pair (u, v) yields *)
(* u*c and v*c with c a function of r alone: they are kept as the tokens  *)
(* <<"u", u, v>> and <<"v", u, v>>, equal exactly when the numbers are.    *)
(* randn(rng, 0, 1e-4) scales by the same constant and is left out.        *)
(***************************************************************************)
EXTENDS Integers, Sequences

CONSTANTS
  Engines,    \* the TSNE instances
  NoEngine,   \* no engine is inside initSolution
  Draws,      \* the stream of 2*rng()-1, in units of 1/4, repeated forever
  Sizes,      \* the values N*dim with which initSolution may be called
  MaxInits    \* bound on initSolution calls per engine

ASSUME DrawsAssumption ==
  Draws \in Seq(-4 .. 4) /\ Len(Draws) > 0 /\ Len(Draws) % 2 = 0 /\
  \E k \in 1 .. (Len(Draws) \div 2) :
    LET r == Draws[2*k-1]^2 + Draws[2*k]^2 IN r # 0 /\ r <= 16
ASSUME SizesAssumption == Sizes \subseteq Nat
ASSUME MaxInitsAssumption == MaxInits \in Nat
ASSUME NoEngineAssumption == NoEngine \notin Engines

VARIABLES
  return_v, v_val,   \* the shared cache of the second draw
  pos,        \* pos[e]: how many values engine e's rng has produced
  Y,          \* Y[e]: engine e's solution, the values randnMatrix drew
  asked,      \* asked[e]: the sizes of engine e's initSolution calls so far
  busy,       \* the engine inside initSolution, or NoEngine
  x,          \* the matrix randnMatrix is filling
  rem,        \* the values randnMatrix still has to draw (nd - i)
  emitted,    \* history: every value gaussRandom returned, in call order
  pairs       \* history: every accepted pair (u, v), in order

vars == <<return_v, v_val, pos, Y, asked, busy, x, rem, emitted, pairs>>

Rng(p) == Draws[(p % Len(Draws)) + 1]
NoValue == <<"none">>
Token == {"u", "v"} \X (-4 .. 4) \X (-4 .. 4)

(* The pair the busy engine's rng yields next, and its r (lines 98-100).   *)
U == Rng(pos[busy])
V == Rng(pos[busy] + 1)
Rejected == U * U + V * V = 0 \/ U * U + V * V > 16

(* randn's value stored as x[i], one more value done (line 126).           *)
Store(val) ==
  /\ x' = Append(x, val)
  /\ emitted' = Append(emitted, val)
  /\ rem' = rem - 1
-----------------------------------------------------------------------------
Init ==
  /\ return_v = FALSE
  /\ v_val = NoValue
  /\ pos = [e \in Engines |-> 0]
  /\ Y = [e \in Engines |-> <<>>]
  /\ asked = [e \in Engines |-> <<>>]
  /\ busy = NoEngine
  /\ x = <<>>
  /\ rem = 0
  /\ emitted = <<>>
  /\ pairs = <<>>

(* Mutant of InitSolution: the loop of line 125 one value short            *)
(* (i < nd - 1).                                                           *)
InitSolutionShort(e, n) ==
  /\ busy = NoEngine
  /\ Len(asked[e]) < MaxInits
  /\ busy' = e
  /\ x' = <<>>
  /\ rem' = IF n = 0 THEN 0 ELSE n - 1
  /\ asked' = [asked EXCEPT ![e] = Append(asked[e], n)]
  /\ UNCHANGED <<return_v, v_val, pos, Y, emitted, pairs>>

(* initSolution of engine e calls randnMatrix for n = N*dim values         *)
(* (lines 305-307, 122-124).                                               *)
InitSolution(e, n) ==
  /\ busy = NoEngine
  /\ Len(asked[e]) < MaxInits
  /\ busy' = e
  /\ x' = <<>>
  /\ rem' = n
  /\ asked' = [asked EXCEPT ![e] = Append(asked[e], n)]
  /\ UNCHANGED <<return_v, v_val, pos, Y, emitted, pairs>>

(* Mutant of Cached: the test of line 94 inverted.                         *)
CachedInverted ==
  /\ busy # NoEngine /\ rem > 0
  /\ ~return_v
  /\ return_v' = FALSE
  /\ Store(v_val)
  /\ UNCHANGED <<v_val, pos, Y, asked, busy, pairs>>

(* Mutant of Cached: return_v = false (line 95) forgotten, so the cached   *)
(* value is returned again and again.                                      *)
CachedKeepFlag ==
  /\ busy # NoEngine /\ rem > 0
  /\ return_v
  /\ return_v' = TRUE
  /\ Store(v_val)
  /\ UNCHANGED <<v_val, pos, Y, asked, busy, pairs>>

(* gaussRandom returns the cached second draw (lines 94-96).               *)
Cached ==
  /\ busy # NoEngine /\ rem > 0
  /\ return_v
  /\ return_v' = FALSE
  /\ Store(v_val)
  /\ UNCHANGED <<v_val, pos, Y, asked, busy, pairs>>

(* gaussRandom draws a pair outside the unit disc, or at its centre, and   *)
(* calls itself again (lines 98-102).                                      *)
Redraw ==
  /\ busy # NoEngine /\ rem > 0
  /\ ~return_v
  /\ Rejected
  /\ pos' = [pos EXCEPT ![busy] = pos[busy] + 2]
  /\ UNCHANGED <<return_v, v_val, Y, asked, busy, x, rem, emitted, pairs>>

(* gaussRandom accepts the pair, caches v*c and returns u*c (98-107).      *)
Accept ==
  /\ busy # NoEngine /\ rem > 0
  /\ ~return_v
  /\ ~Rejected
  /\ pos' = [pos EXCEPT ![busy] = pos[busy] + 2]
  /\ v_val' = <<"v", U, V>>
  /\ return_v' = TRUE
  /\ Store(<<"u", U, V>>)
  /\ pairs' = Append(pairs, <<U, V>>)
  /\ UNCHANGED <<Y, asked, busy>>

(* randnMatrix returns x and initSolution stores it as this.Y (lines 128,  *)
(* 307).                                                                   *)
Return ==
  /\ busy # NoEngine /\ rem = 0
  /\ Y' = [Y EXCEPT ![busy] = x]
  /\ busy' = NoEngine
  /\ UNCHANGED <<return_v, v_val, pos, asked, x, rem, emitted, pairs>>

(* The caller is done with the engines.                                    *)
Idle ==
  /\ busy = NoEngine
  /\ \A e \in Engines : Len(asked[e]) = MaxInits
  /\ UNCHANGED vars

Next ==
  \/ \E e \in Engines, n \in Sizes : InitSolution(e, n)
  \/ Cached \/ Redraw \/ Accept \/ Return
  \/ Idle

Spec == Init /\ [][Next]_vars
-----------------------------------------------------------------------------
TypeOK ==
  /\ return_v \in BOOLEAN
  /\ v_val \in Token \cup {NoValue}
  /\ pos \in [Engines -> Nat]
  /\ asked \in [Engines -> Seq(Sizes)]
  /\ Y \in [Engines -> Seq(Token)]
  /\ busy \in Engines \cup {NoEngine}
  /\ x \in Seq(Token)
  /\ rem \in Nat
  /\ emitted \in Seq(Token)
  /\ pairs \in Seq((-4 .. 4) \X (-4 .. 4))

(* The u and v of every accepted pair, in order: the values gaussRandom    *)
(* must hand out, each once.                                               *)
Tokens(ps) ==
  [j \in 1 .. (2 * Len(ps)) |->
     LET p == ps[(j + 1) \div 2]
     IN  <<IF j % 2 = 1 THEN "u" ELSE "v", p[1], p[2]>>]

(* The cache loses and repeats nothing (the comment of lines 58-60): the   *)
(* values returned so far, followed by the cached one if any, are the u    *)
(* and v of every accepted pair, each once and in order.                   *)
CacheConservesDraws ==
  emitted \o (IF return_v THEN <<v_val>> ELSE <<>>) = Tokens(pairs)

(* Between two initSolution calls no second draw is pending in the shared  *)
(* cache (lines 61-62, 94-96), so the next call, of whichever engine,      *)
(* starts from its own rng alone.                                          *)
CacheEmptyBetweenCalls ==
  busy = NoEngine => ~return_v

(* Spec sections 4.1, 8 and 9: engines built alike with identically       *)
(* seeded rngs, asked for the same sizes, draw identical solutions; the    *)
(* cached draw must not leak from one engine into another.  The engine     *)
(* inside initSolution has no new solution yet and is left out.            *)
Determinism ==
  \A e1, e2 \in Engines \ {busy} : asked[e1] = asked[e2] => Y[e1] = Y[e2]
=============================================================================
