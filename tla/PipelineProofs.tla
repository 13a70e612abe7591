---------------------------- MODULE PipelineProofs ----------------------------
(***************************************************************************)
(* Theorems about the Ray Data pipeline, for any number of prompts, actors *)
(* and losses and any sizes of blocks and calls.                           *)
(***************************************************************************)
EXTENDS Pipeline, SequenceTheorems, FiniteSetTheorems, TLAPS

-----------------------------------------------------------------------------
(* Sizes and cuts.                                                          *)

\* The lesser of two numbers.
LEMMA MinOfTwo ==
  ASSUME NEW m \in Nat, NEW n \in Nat
  PROVE  /\ Min({m, n}) \in Nat /\ Min({m, n}) <= m /\ Min({m, n}) <= n
         /\ m > 0 /\ n > 0 => Min({m, n}) > 0
<1>1. \E x \in {m, n} : \A y \in {m, n} : x <= y
  OBVIOUS
<1>2. Min({m, n}) \in {m, n} /\ \A y \in {m, n} : Min({m, n}) <= y
  BY <1>1, Zenon DEF Min
<1> QED  BY <1>2

\* Rounding down is monotone, and exact on multiples.
LEMMA Division ==
  ASSUME NEW k \in Nat \ {0}
  PROVE  /\ \A x \in Nat : x \div k \in Nat
         /\ \A x, y \in Nat : x <= y => x \div k <= y \div k
         /\ \A n \in Nat : (k * n) \div k = n
<1>1. ASSUME NEW x \in Nat PROVE x \div k \in Nat
  OBVIOUS
<1>2. ASSUME NEW x \in Nat, NEW y \in Nat, x <= y PROVE x \div k <= y \div k
  BY <1>2
<1>3. ASSUME NEW n \in Nat PROVE (k * n) \div k = n
  OBVIOUS
<1> QED  BY <1>1, <1>2, <1>3

\* The cuts of the input are sequences of its prompts.
LEMMA CutsAreBlocks ==
  ASSUME NEW n \in Prompt
  PROVE  Cuts(n, NumBlocks(n)) \in Seq(Seq(Prompt))
<1> DEFINE k == NumBlocks(n)
           bound(j) == (j * n) \div k
<1>0. n \in Nat /\ n <= MaxPrompts /\ MaxPrompts \in Nat /\ BlockSize \in Nat \ {0}
  BY PipelineAssumption DEF Prompt
<1>1. k \in Nat \ {0}
  BY <1>0, Division DEF NumBlocks
<1> HIDE DEF k
<1>2. ASSUME NEW j \in 1..k
      PROVE  /\ bound(j - 1) \in Nat /\ bound(j) \in Nat
             /\ bound(j - 1) <= bound(j) /\ bound(j) <= n
  <2>1. /\ (j - 1) * n \in Nat /\ j * n \in Nat /\ k * n \in Nat
        /\ (j - 1) * n <= j * n /\ j * n <= k * n
    BY <1>0, <1>1
  <2> QED  BY <1>0, <1>1, <2>1, Division
<1>3. ASSUME NEW j \in 1..k
      PROVE  [i \in 1..(bound(j) - bound(j - 1)) |-> bound(j - 1) + i] \in Seq(Prompt)
  <2> HIDE DEF bound
  <2>1. bound(j) - bound(j - 1) \in Nat
    BY <1>2
  <2>2. ASSUME NEW i \in 1..(bound(j) - bound(j - 1))
        PROVE  bound(j - 1) + i \in Prompt
    <3>1. bound(j - 1) \in Nat /\ bound(j) \in Nat /\ bound(j) <= n
      BY <1>2
    <3>2. bound(j - 1) + i \in Nat /\ bound(j - 1) + i >= 1 /\ bound(j - 1) + i <= bound(j)
      BY <3>1
    <3> QED  BY <1>0, <3>1, <3>2 DEF Prompt
  <2> QED  BY <2>1, <2>2
<1>4. Cuts(n, k) = [j \in 1..k |->
        [i \in 1..(bound(j) - bound(j - 1)) |-> bound(j - 1) + i]]
  BY DEF Cuts
<1>5. [j \in 1..k |-> [i \in 1..(bound(j) - bound(j - 1)) |-> bound(j - 1) + i]]
        \in [1..k -> Seq(Prompt)]
  BY <1>3
<1>6. Cuts(n, k) \in Seq(Seq(Prompt))
  BY <1>1, <1>4, <1>5
<1> QED  BY <1>6 DEF k

\* Rows put after others.
LEMMA Concat ==
  ASSUME NEW x \in Seq(Row), NEW y \in Seq(Row)
  PROVE  /\ x \o y \in Seq(Row) /\ Len(x \o y) = Len(x) + Len(y)
         /\ \A i \in 1..Len(x) : (x \o y)[i] = x[i]
         /\ \A i \in 1..Len(y) : (x \o y)[Len(x) + i] = y[i]
<1>1. Len(x) \in Nat /\ Len(y) \in Nat
  OBVIOUS
<1>2. /\ x \o y \in Seq(Row) /\ Len(x \o y) = Len(x) + Len(y)
      /\ \A i \in 1..(Len(x) + Len(y)) :
           (x \o y)[i] = IF i <= Len(x) THEN x[i] ELSE y[i - Len(x)]
  BY ConcatProperties
<1>3. \A i \in 1..Len(x) : i \in 1..(Len(x) + Len(y)) /\ i <= Len(x)
  BY <1>1
<1>4. \A i \in 1..Len(y) : /\ Len(x) + i \in 1..(Len(x) + Len(y))
                           /\ ~(Len(x) + i <= Len(x)) /\ (Len(x) + i) - Len(x) = i
  BY <1>1
<1> QED  BY <1>2, <1>3, <1>4, Zenon

\* A place in x followed by y is in the one or in the other.
LEMMA PlaceInConcat ==
  ASSUME NEW o \in Nat, NEW m \in Nat, NEW i \in 1..(o + m)
  PROVE  i \in 1..o \/ \E j \in 1..m : i = o + j
<1>1. CASE i <= o
  BY <1>1
<1>2. CASE i > o
  <2>1. i - o \in 1..m /\ i = o + (i - o)
    BY <1>2
  <2> QED  BY <2>1, Zenon
<1> QED  BY <1>1, <1>2

-----------------------------------------------------------------------------
(* What an actor holds: rows that are their own prompts', a call whose      *)
(* columns are filled as far as it has come, and its block in order: rows   *)
(* put out, prompts of the call, prompts to come.                           *)

ActorState ==
  [pc : {"loading", "idle", "ready", "calling"}, block : Seq(Prompt), rest : Seq(Prompt),
   call : Seq(Prompt), at : Nat, response : Seq(0..MaxPrompts), error : Seq(BOOLEAN),
   out : Seq(Row)]

Own(r) == r.of = r.id \/ (r.error /\ r.of = 0)

CallOwn(c) ==
  /\ Len(c.response) = Len(c.call) /\ Len(c.error) = Len(c.call) /\ c.at <= Len(c.call)
  /\ \A i \in 1..Len(c.call) :
       /\ i <= c.at => c.response[i] = c.call[i] \/ (c.error[i] /\ c.response[i] = 0)
       /\ i > c.at => c.response[i] = 0 /\ c.error[i] = FALSE

Size(c) == IF c.pc = "calling" THEN Len(c.call) ELSE 0

InOrder(c) ==
  /\ Len(c.block) = Len(c.out) + Size(c) + Len(c.rest)
  /\ \A i \in 1..Len(c.out) : c.out[i].id = c.block[i]
  /\ \A i \in 1..Size(c) : c.call[i] = c.block[Len(c.out) + i]
  /\ \A i \in 1..Len(c.rest) : c.rest[i] = c.block[Len(c.out) + Size(c) + i]

ActorOK(c) ==
  /\ c \in ActorState /\ CallOwn(c) /\ InOrder(c)
  /\ \A i \in 1..Len(c.out) : Own(c.out[i])

\* An actor without a call holds nothing, or a block it has not begun.
LEMMA RestingActors ==
  /\ ActorOK(Loading) /\ ActorOK(Idle)
  /\ \A s \in Seq(Prompt) : ActorOK(Busy(s))
<1>1. /\ <<>> \in Seq(Prompt) /\ <<>> \in Seq(Row) /\ <<>> \in Seq(0..MaxPrompts)
      /\ <<>> \in Seq(BOOLEAN) /\ Len(<<>>) = 0
  BY EmptySeq
<1>2. Loading \in ActorState
  BY <1>1 DEF Loading, ActorState
<1>3. Idle \in ActorState /\ \A s \in Seq(Prompt) : Busy(s) \in ActorState
  BY <1>2 DEF Idle, Busy, ActorState
<1>4. ASSUME NEW c \in {Loading, Idle}
      PROVE  ActorOK(c)
  <2>1. /\ c.call = <<>> /\ c.response = <<>> /\ c.error = <<>> /\ c.at = 0
        /\ c.out = <<>> /\ c.block = <<>> /\ c.rest = <<>> /\ c.pc # "calling"
    BY DEF Loading, Idle
  <2> QED  BY <1>1, <1>2, <1>3, <2>1 DEF ActorOK, CallOwn, InOrder, Size
<1>5. ASSUME NEW s \in Seq(Prompt)
      PROVE  ActorOK(Busy(s))
  <2> DEFINE c == Busy(s)
  <2>1. /\ c.call = <<>> /\ c.response = <<>> /\ c.error = <<>> /\ c.at = 0
        /\ c.out = <<>> /\ c.block = s /\ c.rest = s /\ c.pc = "ready"
    BY DEF Loading, Busy
  <2>2. c \in ActorState /\ Len(s) \in Nat
    BY <1>3
  <2> HIDE DEF c
  <2>3. Len(c.out) = 0 /\ Size(c) = 0
    BY <1>1, <2>1 DEF Size
  <2>4. CallOwn(c) /\ \A i \in 1..Len(c.out) : Own(c.out[i])
    BY <1>1, <2>1 DEF CallOwn
  <2>5. InOrder(c)
    BY <2>1, <2>2, <2>3 DEF InOrder
  <2>6. ActorOK(c)
    BY <2>2, <2>4, <2>5 DEF ActorOK
  <2> QED  BY <2>6 DEF c
<1> QED  BY <1>4, <1>5

\* The first n prompts of u, and the others.
LEMMA TakeFirst ==
  ASSUME NEW u \in Seq(Prompt), NEW n \in 1..Len(u)
  PROVE  LET s == SubSeq(u, 1, n)
             t == SubSeq(u, n + 1, Len(u))
         IN  /\ s \in Seq(Prompt) /\ Len(s) = n /\ \A i \in 1..n : s[i] = u[i]
             /\ t \in Seq(Prompt) /\ Len(t) = Len(u) - n
             /\ \A i \in 1..(Len(u) - n) : t[i] = u[n + i]
<1> DEFINE s == SubSeq(u, 1, n)
           t == SubSeq(u, n + 1, Len(u))
           l == Len(u)
<1>0. l \in Nat /\ n \in 1..l
  OBVIOUS
<1>1. \A i \in 1..l : u[i] \in Prompt
  BY ElementOfSeq
<1>2. s \in Seq(Prompt) /\ Len(s) = n /\ \A i \in 1..n : s[i] = u[i]
  BY <1>1, SubSeqProperties
<1>3. t \in Seq(Prompt) /\ Len(t) = IF n + 1 <= l THEN l - (n + 1) + 1 ELSE 0
  BY <1>1, SubSeqProperties
<1>4. \A i \in 1..(l - (n + 1) + 1) : t[i] = u[(n + 1) + i - 1]
  BY <1>1, SubSeqProperties
<1> HIDE DEF s, t, l
<1>5. (IF n + 1 <= l THEN l - (n + 1) + 1 ELSE 0) = l - n /\ l - (n + 1) + 1 = l - n
  BY <1>0
<1>6. \A i \in 1..(l - n) : (n + 1) + i - 1 = n + i
  BY <1>0
<1>7. Len(t) = l - n /\ \A i \in 1..(l - n) : t[i] = u[n + i]
  BY <1>3, <1>4, <1>5, <1>6, Zenon
<1> QED  BY <1>2, <1>3, <1>7, Zenon DEF s, t, l

\* Places in a block: o rows are out, r prompts to come, n of them are called next.
LEMMA Places ==
  ASSUME NEW o \in Nat, NEW r \in Nat, NEW n \in 1..r
  PROVE  /\ o + r = o + n + (r - n)
         /\ \A i \in 1..(r - n) : n + i \in 1..r /\ o + (n + i) = o + n + i
OBVIOUS

\* A call begun has the next prompts of the block and empty columns.
LEMMA CalledIsOK ==
  ASSUME NEW c, ActorOK(c), c.pc = "ready", NEW n \in 1..Len(c.rest)
  PROVE  ActorOK(Called(c, n)) /\ Called(c, n).block = c.block /\ Called(c, n).pc = "calling"
<1> DEFINE d == Called(c, n)
           s == SubSeq(c.rest, 1, n)
           t == SubSeq(c.rest, n + 1, Len(c.rest))
<1>1. c \in ActorState /\ c.rest \in Seq(Prompt) /\ Len(c.rest) \in Nat
      /\ c.out \in Seq(Row) /\ Len(c.out) \in Nat
  BY DEF ActorOK, ActorState
<1>2. /\ s \in Seq(Prompt) /\ Len(s) = n /\ \A i \in 1..n : s[i] = c.rest[i]
      /\ t \in Seq(Prompt) /\ Len(t) = Len(c.rest) - n
      /\ \A i \in 1..(Len(c.rest) - n) : t[i] = c.rest[n + i]
  BY <1>1, TakeFirst, Zenon
<1>3. /\ d.pc = "calling" /\ d.call = s /\ d.at = 0 /\ d.rest = t
      /\ d.response = [i \in 1..n |-> 0] /\ d.error = [i \in 1..n |-> FALSE]
      /\ d.block = c.block /\ d.out = c.out
  BY <1>1 DEF Called, ActorState
<1>4. d \in ActorState
  <2>1. [i \in 1..n |-> 0] \in Seq(0..MaxPrompts) /\ [i \in 1..n |-> FALSE] \in Seq(BOOLEAN)
    BY PipelineAssumption
  <2> HIDE DEF s, t
  <2> QED  BY <1>1, <1>2, <2>1 DEF Called, ActorState, s, t
<1> HIDE DEF d, s, t
<1>5. CallOwn(d)
  <2>1. Len(d.response) = n /\ Len(d.error) = n
    BY <1>3
  <2> QED  BY <1>2, <1>3, <2>1 DEF CallOwn
<1>6. InOrder(d)
  <2>1. Size(c) = 0 /\ Size(d) = n /\ n \in Nat
    BY <1>2, <1>3 DEF Size
  <2>2. /\ Len(c.block) = Len(c.out) + Len(c.rest)
        /\ \A i \in 1..Len(c.rest) : c.rest[i] = c.block[Len(c.out) + i]
    BY <1>1, <2>1 DEF ActorOK, InOrder
  <2>3. \A i \in 1..Len(c.out) : c.out[i].id = c.block[i]
    BY DEF ActorOK, InOrder
  <2>4. Len(t) = Len(c.rest) - n /\ Len(s) = n
    BY <1>2
  <2>5. Len(c.block) = Len(c.out) + n + Len(t)
    <3>1. Len(c.out) \in Nat /\ Len(c.rest) \in Nat /\ n \in Nat
      BY <1>1, <2>1
    <3>2. Len(c.block) = Len(c.out) + Len(c.rest) /\ Len(t) = Len(c.rest) - n
      BY <2>2, <2>4
    <3>3. Len(c.out) + Len(c.rest) = Len(c.out) + n + (Len(c.rest) - n)
      BY <3>1, Places, Zenon
    <3> QED  BY <3>2, <3>3, Zenon
  <2>6. ASSUME NEW i \in 1..n
        PROVE  s[i] = c.block[Len(c.out) + i]
    <3>1. Len(c.rest) \in Nat /\ n \in 1..Len(c.rest)
      BY <1>1
    <3>2. i \in 1..Len(c.rest)
      BY <3>1
    <3> QED  BY <1>2, <2>2, <3>2, Zenon
  <2>7. ASSUME NEW i \in 1..Len(t)
        PROVE  t[i] = c.block[Len(c.out) + n + i]
    <3>1. Len(c.out) \in Nat /\ Len(c.rest) \in Nat /\ n \in 1..Len(c.rest)
      BY <1>1
    <3>2. i \in 1..(Len(c.rest) - n)
      BY <2>4
    <3>3. n + i \in 1..Len(c.rest) /\ Len(c.out) + (n + i) = Len(c.out) + n + i
      BY <3>1, <3>2, Places, Zenon
    <3>4. c.rest[n + i] = c.block[Len(c.out) + (n + i)]
      BY <2>2, <3>3, Zenon
    <3>5. t[i] = c.rest[n + i]
      BY <1>2, <3>2, Zenon
    <3> QED  BY <3>3, <3>4, <3>5, Zenon
  <2>8. /\ d.call = s /\ d.rest = t /\ d.block = c.block /\ d.out = c.out /\ Len(s) = n
    BY <1>2, <1>3
  <2> QED  BY <2>1, <2>3, <2>5, <2>6, <2>7, <2>8, Zenon DEF InOrder
<1> QED  BY <1>3, <1>4, <1>5, <1>6 DEF ActorOK, d

\* A prompt's answer, its error, or both go to its own place.
LEMMA GeneratedIsOK ==
  ASSUME NEW c, ActorOK(c), c.pc = "calling", c.at < Len(c.call),
         NEW answered \in BOOLEAN, NEW failed \in BOOLEAN, answered \/ failed, NEW d,
         d = [c EXCEPT !.at = c.at + 1, !.error[c.at + 1] = failed,
               !.response[c.at + 1] = IF answered THEN c.call[c.at + 1] ELSE 0]
  PROVE  ActorOK(d) /\ d.block = c.block /\ d.pc = c.pc
<1> DEFINE i == c.at + 1
           v == IF answered THEN c.call[i] ELSE 0
           r == [c.response EXCEPT ![i] = v]
           e == [c.error EXCEPT ![i] = failed]
<1>1. c \in ActorState /\ i \in 1..Len(c.call) /\ c.call[i] \in 0..MaxPrompts
  <2>1. c \in ActorState /\ i \in 1..Len(c.call)
    BY DEF ActorOK, ActorState
  <2>2. c.call[i] \in Prompt
    BY <2>1, ElementOfSeq DEF ActorState
  <2> QED  BY <2>1, <2>2 DEF Prompt
<1>2. /\ i \in Nat /\ i <= Len(c.call)
      /\ \A j \in 1..Len(c.call) : j <= i => j = i \/ j <= c.at
      /\ \A j \in 1..Len(c.call) : j > i => j # i /\ j > c.at
  BY <1>1 DEF ActorState
<1>3. /\ Len(c.response) = Len(c.call) /\ Len(c.error) = Len(c.call)
      /\ \A j \in 1..Len(c.call) :
           /\ j <= c.at => c.response[j] = c.call[j] \/ (c.error[j] /\ c.response[j] = 0)
           /\ j > c.at => c.response[j] = 0 /\ c.error[j] = FALSE
  BY DEF ActorOK, CallOwn
<1>4. v \in 0..MaxPrompts /\ (v = c.call[i] \/ (failed /\ v = 0))
  BY <1>1, PipelineAssumption
<1>5. d = [c EXCEPT !.at = i, !.error = e, !.response = r]
  BY <1>1 DEF ActorState
<1> HIDE DEF v, i
<1>6. /\ r \in Seq(0..MaxPrompts) /\ Len(r) = Len(c.call)
      /\ \A j \in 1..Len(c.call) : r[j] = IF j = i THEN v ELSE c.response[j]
  <2>1. c.response \in Seq(0..MaxPrompts) /\ i \in 1..Len(c.response)
    BY <1>1, <1>3 DEF ActorState
  <2> QED  BY <1>3, <1>4, <2>1, ExceptSeq
<1>7. /\ e \in Seq(BOOLEAN) /\ Len(e) = Len(c.call)
      /\ \A j \in 1..Len(c.call) : e[j] = IF j = i THEN failed ELSE c.error[j]
  <2> DEFINE Flag == BOOLEAN
  <2>1. /\ c.error \in Seq(Flag) /\ i \in 1..Len(c.error) /\ failed \in Flag
        /\ Len(c.error) = Len(c.call)
    BY <1>1, <1>3 DEF ActorState
  <2> HIDE DEF Flag
  <2>2. /\ e \in Seq(Flag) /\ Len(e) = Len(c.error)
        /\ \A j \in 1..Len(c.error) : e[j] = IF j = i THEN failed ELSE c.error[j]
    BY <2>1, ExceptSeq
  <2> HIDE DEF e
  <2> QED  BY <2>1, <2>2, Zenon DEF Flag
<1> HIDE DEF r, e
<1>8. /\ d \in ActorState /\ d.at = i /\ d.response = r /\ d.error = e
      /\ d.pc = c.pc /\ d.block = c.block /\ d.rest = c.rest /\ d.call = c.call
      /\ d.out = c.out
  BY <1>1, <1>2, <1>5, <1>6, <1>7 DEF ActorState
<1>9. ASSUME NEW j \in 1..Len(c.call)
      PROVE  /\ j <= i => r[j] = c.call[j] \/ (e[j] /\ r[j] = 0)
             /\ j > i => r[j] = 0 /\ e[j] = FALSE
  <2>1. CASE j = i
    <3>1. ~(j > i)
      BY <1>2, <2>1
    <3> QED  BY <1>4, <1>6, <1>7, <2>1, <3>1, Zenon
  <2>2. CASE j # i
    <3>1. r[j] = c.response[j] /\ e[j] = c.error[j]
      BY <1>6, <1>7, <2>2, Zenon
    <3>2. /\ j <= i => j <= c.at
          /\ j > i => j > c.at
      BY <1>2, <2>2, Zenon
    <3> QED  BY <1>3, <3>1, <3>2, Zenon
  <2> QED  BY <2>1, <2>2
<1>10. CallOwn(d)
  <2>1. /\ Len(d.response) = Len(d.call) /\ Len(d.error) = Len(d.call)
        /\ d.at <= Len(d.call)
    BY <1>2, <1>6, <1>7, <1>8, Zenon
  <2>2. ASSUME NEW j \in 1..Len(d.call)
        PROVE  /\ j <= d.at => d.response[j] = d.call[j] \/ (d.error[j] /\ d.response[j] = 0)
               /\ j > d.at => d.response[j] = 0 /\ d.error[j] = FALSE
    <3>1. j \in 1..Len(c.call)
      BY <1>8, Zenon
    <3> QED  BY <1>8, <1>9, <3>1, Zenon
  <2> QED  BY <2>1, <2>2, Zenon DEF CallOwn
<1>11. InOrder(d)
  <2>1. Size(d) = Size(c)
    BY <1>8 DEF Size
  <2> QED  BY <1>8, <2>1, Zenon DEF ActorOK, InOrder
<1> QED  BY <1>8, <1>10, <1>11, Zenon DEF ActorOK

\* The columns of a call that is through become rows of the block: each is its
\* prompt's, and they follow those of earlier calls.
LEMMA EndedIsOK ==
  ASSUME NEW c, ActorOK(c), c.pc = "calling", c.at = Len(c.call), NEW d,
         d = [c EXCEPT !.pc = "ready", !.out = c.out \o Rows(c)]
  PROVE  ActorOK(d) /\ d.block = c.block /\ d.pc = "ready"
<1> DEFINE m == Len(c.call)
           o == Len(c.out)
           r == Rows(c)
           q == c.out \o r
<1>1. /\ c \in ActorState /\ c.call \in Seq(Prompt) /\ m \in Nat /\ o \in Nat
      /\ c.out \in Seq(Row) /\ DOMAIN c.call = 1..m /\ Len(c.rest) \in Nat
  BY DEF ActorOK, ActorState
<1>2. \A i \in 1..m : /\ c.call[i] \in Prompt /\ c.response[i] \in 0..MaxPrompts
                      /\ c.error[i] \in BOOLEAN
                      /\ c.response[i] = c.call[i] \/ (c.error[i] /\ c.response[i] = 0)
  <2>1. /\ c.response \in Seq(0..MaxPrompts) /\ Len(c.response) = m
        /\ c.error \in Seq(BOOLEAN) /\ Len(c.error) = m
    BY <1>1 DEF ActorOK, CallOwn, ActorState
  <2>2. ASSUME NEW i \in 1..m
        PROVE  c.call[i] \in Prompt /\ c.response[i] \in 0..MaxPrompts
    BY <1>1, <2>1, ElementOfSeq
  <2>3. ASSUME NEW i \in 1..m PROVE c.error[i] \in BOOLEAN
    <3>1. \A e \in Seq(BOOLEAN) : \A h \in 1..Len(e) : e[h] \in BOOLEAN
      BY ElementOfSeq
    <3> QED  BY <2>1, <3>1, Zenon
  <2>4. ASSUME NEW i \in 1..m
        PROVE  c.response[i] = c.call[i] \/ (c.error[i] /\ c.response[i] = 0)
    <3>1. i <= c.at
      BY <1>1
    <3> QED  BY <3>1, Zenon DEF ActorOK, CallOwn
  <2> QED  BY <2>2, <2>3, <2>4, Zenon
<1>3. /\ r \in Seq(Row) /\ Len(r) = m
      /\ \A i \in 1..m : r[i].id = c.call[i] /\ Own(r[i])
  <2>1. r = [i \in 1..m |-> [id |-> c.call[i], of |-> c.response[i], error |-> c.error[i]]]
    BY <1>1 DEF Rows
  <2>2. ASSUME NEW i \in 1..m
        PROVE  r[i] \in Row /\ r[i].id = c.call[i] /\ Own(r[i])
    <3>1. r[i] = [id |-> c.call[i], of |-> c.response[i], error |-> c.error[i]]
      BY <2>1, Zenon
    <3>2. r[i] \in Row
      <4>1. /\ c.call[i] \in Prompt /\ c.response[i] \in 0..MaxPrompts
            /\ c.error[i] \in BOOLEAN
        BY <1>2, Zenon
      <4> QED  BY <3>1, <4>1 DEF Row
    <3>3. r[i].id = c.call[i] /\ r[i].of = c.response[i] /\ r[i].error = c.error[i]
      BY <3>1
    <3>4. Own(r[i])
      BY <1>2, <3>3, Zenon DEF Own
    <3> QED  BY <3>2, <3>3, <3>4
  <2> HIDE DEF r
  <2>3. r \in Seq(Row) /\ Len(r) = m
    <3>1. r \in [1..m -> Row]
      BY <2>1, <2>2, Zenon
    <3> QED  BY <1>1, <3>1
  <2> QED  BY <2>2, <2>3
<1> HIDE DEF r
<1>4. /\ q \in Seq(Row) /\ Len(q) = o + m
      /\ \A i \in 1..o : q[i] = c.out[i]
      /\ \A i \in 1..m : q[o + i] = r[i]
  <2>1. c.out \in Seq(Row) /\ r \in Seq(Row) /\ Len(r) = m
    BY <1>1, <1>3
  <2>2. /\ q \in Seq(Row) /\ Len(q) = Len(c.out) + Len(r)
        /\ \A i \in 1..Len(c.out) : q[i] = c.out[i]
        /\ \A i \in 1..Len(r) : q[Len(c.out) + i] = r[i]
    BY <2>1, Concat, Zenon
  <2> QED  BY <2>1, <2>2, Zenon
<1>5. \A i \in 1..(o + m) : i \in 1..o \/ \E j \in 1..m : i = o + j
  BY <1>1, PlaceInConcat, Zenon
<1> HIDE DEF q, o, m
<1>6. /\ d.pc = "ready" /\ d.out = q /\ d.block = c.block /\ d.rest = c.rest
      /\ d.call = c.call /\ d.at = c.at /\ d.response = c.response /\ d.error = c.error
  BY <1>1 DEF q, r, ActorState
<1>7. d \in ActorState
  BY <1>1, <1>4 DEF ActorState, q, r
<1>8. CallOwn(d)
  BY <1>6, Zenon DEF ActorOK, CallOwn
<1>9. \A i \in 1..Len(d.out) : Own(d.out[i])
  <2>1. ASSUME NEW i \in 1..(o + m) PROVE Own(q[i])
    <3>1. CASE i \in 1..o
      BY <1>4, <3>1, Zenon DEF ActorOK, o
    <3>2. CASE \E j \in 1..m : i = o + j
      BY <1>3, <1>4, <3>2, Zenon
    <3> QED  BY <1>5, <3>1, <3>2
  <2> QED  BY <1>4, <1>6, <2>1, Zenon
<1>10. InOrder(d)
  <2>1. /\ Size(c) = m /\ Size(d) = 0
    BY <1>6 DEF Size, m
  <2>2. /\ Len(c.block) = o + m + Len(c.rest)
        /\ \A i \in 1..o : c.out[i].id = c.block[i]
        /\ \A i \in 1..m : c.call[i] = c.block[o + i]
        /\ \A i \in 1..Len(c.rest) : c.rest[i] = c.block[o + m + i]
    BY <2>1, Zenon DEF ActorOK, InOrder, o, m
  <2>3. ASSUME NEW i \in 1..(o + m) PROVE q[i].id = c.block[i]
    <3>1. CASE i \in 1..o
      BY <1>4, <2>2, <3>1, Zenon
    <3>2. CASE \E j \in 1..m : i = o + j
      <4>1. PICK j \in 1..m : i = o + j
        BY <3>2
      <4>2. q[o + j] = r[j] /\ r[j].id = c.call[j] /\ c.call[j] = c.block[o + j]
        BY <1>3, <1>4, <2>2, Zenon
      <4> QED  BY <4>1, <4>2, Zenon
    <3> QED  BY <1>5, <3>1, <3>2
  <2>4. Len(d.out) = o + m /\ Len(d.block) = Len(c.block) /\ Len(d.rest) = Len(c.rest)
    BY <1>4, <1>6, Zenon
  <2>5. o + m + 0 = o + m /\ Len(d.out) + Size(d) = o + m
    BY <1>1, <2>1, <2>4
  <2>6. \A i \in 1..Size(d) : d.call[i] = d.block[Len(d.out) + i]
    BY <2>1
  <2>7. \A i \in 1..Len(d.out) : d.out[i].id = d.block[i]
    BY <1>6, <2>3, <2>4, Zenon
  <2>8. /\ Len(d.block) = Len(d.out) + Size(d) + Len(d.rest)
        /\ \A i \in 1..Len(d.rest) : d.rest[i] = d.block[Len(d.out) + Size(d) + i]
    BY <1>6, <2>1, <2>2, <2>4, <2>5, Zenon
  <2> QED  BY <2>6, <2>7, <2>8, Zenon DEF InOrder
<1> QED  BY <1>6, <1>7, <1>8, <1>9, <1>10 DEF ActorOK

-----------------------------------------------------------------------------
(* The invariant.  A block of the input is in the queue, with an actor, or  *)
(* its rows stand somewhere in the output, together and in order; what came *)
(* out stays where it is.                                                   *)

Blocks == Range(Cuts(total, NumBlocks(total)))

AtWork(c) == c.pc \in {"ready", "calling"}

Queued(b) == \E j \in 1..Len(queue) : queue[j] = b
Held(b)   == \E a \in Actor : AtWork(actor[a]) /\ actor[a].block = b

PlacedIn(rows, b) ==
  \E k \in 0..(Len(rows) - Len(b)) : \A i \in 1..Len(b) : rows[k + i].id = b[i]

ActorsOK == actor \in [Actor -> ActorState] /\ \A a \in Actor : ActorOK(actor[a])

RowsOwn == \A i \in 1..Len(output) : Own(output[i])

BlocksOK ==
  phase \in {"map", "write", "done"} =>
    \A b \in Blocks : Queued(b) \/ Held(b) \/ PlacedIn(output, b)

AllThrough ==
  phase \in {"write", "done"} => queue = <<>> /\ \A a \in Actor : ~AtWork(actor[a])

Typed ==
  /\ total \in Prompt /\ losses \in 0..MaxLosses
  /\ phase \in {"read", "map", "write", "done", "raised"}
  /\ queue \in Seq(Seq(Prompt)) /\ output \in Seq(Row)
  /\ file \in [state : {"absent", "torn", "whole"}, rows : Seq(Row)]

PipeInv ==
  /\ Typed /\ ActorsOK /\ RowsOwn /\ BlocksOK /\ AllThrough
  /\ phase = "done" => file.rows = output

\* The cuts of a run's input are sequences of prompts.
LEMMA BlockShape ==
  ASSUME NEW n \in Prompt
  PROVE  /\ \A b \in Range(Cuts(n, NumBlocks(n))) : b \in Seq(Prompt)
         /\ \A b \in Range(Cuts(n, NumBlocks(n))) :
              \E j \in 1..Len(Cuts(n, NumBlocks(n))) : Cuts(n, NumBlocks(n))[j] = b
<1> DEFINE q == Cuts(n, NumBlocks(n))
<1>1. q \in Seq(Seq(Prompt))
  BY CutsAreBlocks
<1> HIDE DEF q
<1>2. DOMAIN q = 1..Len(q) /\ \A j \in 1..Len(q) : q[j] \in Seq(Prompt)
  BY <1>1, ElementOfSeq
<1>3. ASSUME NEW b \in Range(q)
      PROVE  b \in Seq(Prompt) /\ \E j \in 1..Len(q) : q[j] = b
  <2>1. PICK j \in DOMAIN q : b = q[j]
    BY DEF Range
  <2> QED  BY <1>2, <2>1, Zenon
<1> QED  BY <1>3 DEF q

\* One actor changes: the others keep theirs.
LEMMA OneActorMoves ==
  ASSUME ActorsOK, NEW a \in Actor, NEW c, ActorOK(c), actor' = [actor EXCEPT ![a] = c]
  PROVE  /\ ActorsOK' /\ actor'[a] = c
         /\ \A x \in Actor : x # a => actor'[x] = actor[x]
<1>1. actor'[a] = c /\ \A x \in Actor : x # a => actor'[x] = actor[x]
  BY DEF ActorsOK
<1>2. actor' \in [Actor -> ActorState]
  BY DEF ActorsOK, ActorOK
<1>3. ASSUME NEW x \in Actor PROVE ActorOK(actor'[x])
  BY <1>1, Zenon DEF ActorsOK
<1> QED  BY <1>1, <1>2, <1>3 DEF ActorsOK

\* An actor that keeps its block, or had none, loses no block.
LEMMA BlockStays ==
  ASSUME ActorsOK, BlocksOK, NEW a \in Actor, NEW c, ActorOK(c),
         actor' = [actor EXCEPT ![a] = c],
         AtWork(actor[a]) => AtWork(c) /\ c.block = actor[a].block,
         UNCHANGED <<total, phase, queue, output>>
  PROVE  BlocksOK'
<1>1. /\ actor'[a] = c /\ \A x \in Actor : x # a => actor'[x] = actor[x]
  BY OneActorMoves
<1>2. ASSUME phase' \in {"map", "write", "done"}, NEW b \in Blocks'
      PROVE  Queued(b)' \/ Held(b)' \/ PlacedIn(output', b)
  <2>1. Queued(b) \/ Held(b) \/ PlacedIn(output, b)
    BY <1>2, Zenon DEF BlocksOK, Blocks
  <2>2. CASE Held(b)
    <3>1. PICK x \in Actor : AtWork(actor[x]) /\ actor[x].block = b
      BY <2>2 DEF Held
    <3>2. AtWork(actor'[x]) /\ actor'[x].block = b
      BY <1>1, <3>1, Zenon
    <3> QED  BY <3>2, Zenon DEF Held, AtWork
  <2> QED  BY <2>1, <2>2, Zenon DEF Queued
<1> QED  BY <1>2, Zenon DEF BlocksOK

\* Rows put after others leave the others' blocks where they are.
LEMMA StaysPlaced ==
  ASSUME NEW x \in Seq(Row), NEW y \in Seq(Row), NEW b \in Seq(Prompt), PlacedIn(x, b)
  PROVE  PlacedIn(x \o y, b)
<1>1. PICK k \in 0..(Len(x) - Len(b)) : \A i \in 1..Len(b) : x[k + i].id = b[i]
  BY DEF PlacedIn
<1>2. Len(x) \in Nat /\ Len(y) \in Nat /\ Len(b) \in Nat
  OBVIOUS
<1>3. /\ Len(x \o y) = Len(x) + Len(y) /\ \A i \in 1..Len(x) : (x \o y)[i] = x[i]
  BY Concat
<1>4. k \in 0..(Len(x \o y) - Len(b)) /\ \A i \in 1..Len(b) : k + i \in 1..Len(x)
  <2> DEFINE l == Len(x)
             m == Len(y)
             n == Len(b)
  <2>1. l \in Nat /\ m \in Nat /\ n \in Nat /\ k \in 0..(l - n) /\ Len(x \o y) = l + m
    BY <1>2, <1>3
  <2> HIDE DEF l, m, n
  <2>2. k \in 0..((l + m) - n) /\ \A i \in 1..n : k + i \in 1..l
    BY <2>1
  <2> QED  BY <2>1, <2>2, Zenon DEF l, n
<1>5. \A i \in 1..Len(b) : (x \o y)[k + i].id = b[i]
  BY <1>1, <1>3, <1>4, Zenon
<1> QED  BY <1>4, <1>5, Zenon DEF PlacedIn

\* A block's rows, put after the rows before, are in place.
LEMMA BlockIsPlaced ==
  ASSUME NEW x \in Seq(Row), NEW y \in Seq(Row), NEW b \in Seq(Prompt), Len(y) = Len(b),
         \A i \in 1..Len(y) : y[i].id = b[i]
  PROVE  PlacedIn(x \o y, b)
<1>1. Len(x) \in Nat /\ Len(y) \in Nat /\ Len(b) \in Nat
  OBVIOUS
<1>2. /\ Len(x \o y) = Len(x) + Len(y) /\ \A i \in 1..Len(y) : (x \o y)[Len(x) + i] = y[i]
  BY Concat
<1>3. Len(x) \in 0..(Len(x \o y) - Len(b))
  <2> DEFINE l == Len(x)
             n == Len(y)
  <2>1. l \in Nat /\ n \in Nat /\ Len(x \o y) = l + n /\ Len(b) = n
    BY <1>1, <1>2
  <2> HIDE DEF l, n
  <2>2. l \in 0..((l + n) - n)
    BY <2>1
  <2> QED  BY <2>1, <2>2, Zenon DEF l
<1>4. \A i \in 1..Len(b) : (x \o y)[Len(x) + i].id = b[i]
  BY <1>2, Zenon
<1> QED  BY <1>3, <1>4, Zenon DEF PlacedIn

-----------------------------------------------------------------------------
(* One lemma per kind of step.                                              *)

\* The pipeline starts with nothing queued, held or put out.
LEMMA PipeInvInit == Init => PipeInv
<1> SUFFICES ASSUME Init PROVE PipeInv
  OBVIOUS
<1>1. <<>> \in Seq(Seq(Prompt)) /\ <<>> \in Seq(Row) /\ Len(<<>>) = 0
  BY EmptySeq
<1>2. Typed
  BY <1>1, PipelineAssumption DEF Init, Typed
<1>3. ActorsOK
  <2>1. Loading \in ActorState
    BY RestingActors DEF ActorOK
  <2> QED  BY <2>1, RestingActors DEF Init, ActorsOK
<1>4. RowsOwn
  BY <1>1 DEF Init, RowsOwn
<1>5. phase = "read"
  BY DEF Init
<1> QED  BY <1>2, <1>3, <1>4, <1>5 DEF PipeInv, BlocksOK, AllThrough

\* A step of one actor that keeps its block, if it has one, and touches nothing else.
KeepsBlock(a) == \E c :
  /\ ActorOK(c) /\ actor' = [actor EXCEPT ![a] = c]
  /\ AtWork(c) <=> AtWork(actor[a])
  /\ AtWork(c) => c.block = actor[a].block
  /\ phase = "map" /\ UNCHANGED <<total, phase, queue, output, file, losses>>

\* Such a step keeps the invariant.
LEMMA ActorStepKeeps ==
  ASSUME PipeInv, NEW a \in Actor, KeepsBlock(a) PROVE PipeInv'
<1>0. PICK c : /\ ActorOK(c) /\ actor' = [actor EXCEPT ![a] = c]
               /\ AtWork(c) <=> AtWork(actor[a])
               /\ AtWork(c) => c.block = actor[a].block
               /\ phase = "map" /\ UNCHANGED <<total, phase, queue, output, file, losses>>
  BY DEF KeepsBlock
<1>1. ActorsOK' /\ BlocksOK'
  BY <1>0, OneActorMoves, BlockStays, Zenon DEF PipeInv
<1>2. Typed' /\ RowsOwn'
  BY <1>0 DEF PipeInv, Typed, RowsOwn
<1>3. phase' = "map"
  BY <1>0
<1> QED  BY <1>1, <1>2, <1>3 DEF PipeInv, AllThrough

\* The input is cut: every block is queued.
LEMMA RepartitionKeeps ==
  ASSUME PipeInv, Repartition PROVE PipeInv'
<1>1. total \in Prompt /\ total' = total /\ queue' = Cuts(total, NumBlocks(total))
      /\ phase' = "map"
  BY DEF PipeInv, Typed, Repartition
<1>2. Typed' /\ ActorsOK' /\ RowsOwn'
  BY <1>1, CutsAreBlocks
     DEF PipeInv, Typed, ActorsOK, RowsOwn, Repartition
<1>3. BlocksOK'
  <2>1. ASSUME NEW b \in Blocks' PROVE Queued(b)'
    BY <1>1, BlockShape, Zenon DEF Blocks, Queued
  <2> QED  BY <2>1, Zenon DEF BlocksOK
<1> QED  BY <1>1, <1>2, <1>3 DEF PipeInv, AllThrough

\* The steps of the driver after the last block.
LEMMA FileStepsKeep ==
  ASSUME PipeInv, OpenFile \/ WriteFile \/ WriteFails PROVE PipeInv'
<1>1. /\ UNCHANGED <<total, queue, actor, output>> /\ phase \in {"map", "write"}
      /\ phase' \in {"write", "done", "raised"}
  BY DEF OpenFile, WriteFile, WriteFails
<1>2. Typed'
  BY PipelineAssumption DEF PipeInv, Typed, OpenFile, WriteFile, WriteFails
<1>3. ActorsOK' /\ RowsOwn'
  BY <1>1 DEF PipeInv, ActorsOK, RowsOwn
<1>4. BlocksOK'
  BY <1>1, Zenon DEF PipeInv, BlocksOK, Blocks, Queued, Held
<1>5. AllThrough'
  BY <1>1 DEF PipeInv, AllThrough, AtWork, OpenFile, WriteFile, WriteFails
<1>6. phase' = "done" => file'.rows = output'
  BY <1>1 DEF PipeInv, Typed, OpenFile, WriteFile, WriteFails
<1> QED  BY <1>2, <1>3, <1>4, <1>5, <1>6 DEF PipeInv

\* A model loaded: no block is touched.
LEMMA LoadKeepsBlock ==
  ASSUME PipeInv, NEW a \in Actor, Load(a) PROVE KeepsBlock(a)
<1>1. /\ actor' = [actor EXCEPT ![a] = Idle] /\ actor[a].pc = "loading" /\ phase = "map"
      /\ UNCHANGED <<total, phase, queue, output, file, losses>>
  BY DEF Load, Trans
<1>2. ~AtWork(actor[a]) /\ ~AtWork(Idle)
  BY <1>1 DEF AtWork, Idle, Loading
<1> QED  BY <1>1, <1>2, RestingActors, Zenon DEF KeepsBlock

\* The first block of the queue is the actor's now.
LEMMA TakeBlockKeeps ==
  ASSUME PipeInv, NEW a \in Actor, TakeBlock(a) PROVE PipeInv'
<1> DEFINE h == Head(queue)
<1>1. /\ actor' = [actor EXCEPT ![a] = Busy(h)] /\ actor[a].pc = "idle"
      /\ queue # <<>> /\ queue' = Tail(queue) /\ phase = "map"
      /\ UNCHANGED <<total, phase, output, file, losses>>
  BY DEF TakeBlock, Trans
<1>2. /\ queue \in Seq(Seq(Prompt)) /\ h \in Seq(Prompt) /\ h = queue[1]
      /\ Tail(queue) \in Seq(Seq(Prompt)) /\ Len(queue) \in Nat \ {0}
      /\ Len(Tail(queue)) = Len(queue) - 1
      /\ \A j \in 1..(Len(queue) - 1) : Tail(queue)[j] = queue[j + 1]
  <2>1. queue \in Seq(Seq(Prompt)) /\ queue # <<>>
    BY <1>1 DEF PipeInv, Typed
  <2> QED  BY <2>1, HeadTailProperties, EmptySeq
<1>3. ActorOK(Busy(h)) /\ AtWork(Busy(h)) /\ Busy(h).block = h
  BY <1>2, RestingActors DEF Busy, Loading, AtWork
<1> HIDE DEF h
<1>4. /\ ActorsOK' /\ actor'[a] = Busy(h)
      /\ \A x \in Actor : x # a => actor'[x] = actor[x]
  BY <1>1, <1>3, OneActorMoves, Zenon DEF PipeInv
<1>5. Typed' /\ RowsOwn'
  BY <1>1, <1>2 DEF PipeInv, Typed, RowsOwn
<1>6. ASSUME NEW b \in Blocks'
      PROVE  Queued(b)' \/ Held(b)' \/ PlacedIn(output', b)
  <2>1. Queued(b) \/ Held(b) \/ PlacedIn(output, b)
    BY <1>1, <1>6 DEF PipeInv, BlocksOK, Blocks
  <2>2. CASE Queued(b)
    <3>1. PICK j \in 1..Len(queue) : queue[j] = b
      BY <2>2 DEF Queued
    <3>2. CASE j = 1
      <4>1. AtWork(actor'[a]) /\ actor'[a].block = b
        BY <1>2, <1>3, <1>4, <3>1, <3>2, Zenon
      <4> QED  BY <4>1, Zenon DEF Held, AtWork
    <3>3. CASE j # 1
      <4>1. j - 1 \in 1..(Len(queue) - 1) /\ (j - 1) + 1 = j
        BY <1>2, <3>3
      <4>2. Tail(queue)[j - 1] = b /\ j - 1 \in 1..Len(Tail(queue))
        BY <1>2, <3>1, <4>1, Zenon
      <4> QED  BY <1>1, <4>2, Zenon DEF Queued
    <3> QED  BY <3>2, <3>3
  <2>3. CASE Held(b)
    <3>1. PICK x \in Actor : AtWork(actor[x]) /\ actor[x].block = b
      BY <2>3 DEF Held
    <3>2. x # a
      BY <1>1, <3>1 DEF AtWork
    <3>3. AtWork(actor'[x]) /\ actor'[x].block = b
      BY <1>4, <3>1, <3>2, Zenon
    <3> QED  BY <3>3, Zenon DEF Held, AtWork
  <2>4. CASE PlacedIn(output, b)
    BY <1>1, <2>4, Zenon
  <2> QED  BY <2>1, <2>2, <2>3, <2>4
<1>7. BlocksOK'
  BY <1>6, Zenon DEF BlocksOK
<1> QED  BY <1>1, <1>4, <1>5, <1>7 DEF PipeInv, AllThrough

\* A call begun: its prompts are the next ones of the block.
LEMMA BeginCallKeepsBlock ==
  ASSUME PipeInv, NEW a \in Actor, BeginCall(a) PROVE KeepsBlock(a)
<1> DEFINE c == actor[a]
           n == Min({CallSize, Len(c.rest)})
<1>1. /\ actor' = [actor EXCEPT ![a] = Called(c, n)] /\ c.pc = "ready" /\ c.rest # <<>>
      /\ phase = "map" /\ UNCHANGED <<total, phase, queue, output, file, losses>>
  BY DEF BeginCall, Trans
<1>2. ActorOK(c)
  BY DEF PipeInv, ActorsOK
<1>3. n \in 1..Len(c.rest)
  <2>1. c.rest \in Seq(Prompt)
    BY <1>2 DEF ActorOK, ActorState
  <2>2. Len(c.rest) \in Nat /\ Len(c.rest) > 0
    BY <1>1, <2>1, EmptySeq
  <2>3. CallSize \in Nat /\ CallSize > 0
    BY PipelineAssumption
  <2> HIDE DEF c
  <2>4. n \in Nat /\ n <= Len(c.rest) /\ n > 0
    BY <2>2, <2>3, MinOfTwo
  <2> HIDE DEF n
  <2> QED  BY <2>2, <2>4
<1> HIDE DEF n
<1>4. /\ ActorOK(Called(c, n)) /\ AtWork(Called(c, n)) /\ AtWork(c)
      /\ Called(c, n).block = c.block
  BY <1>1, <1>2, <1>3, CalledIsOK DEF AtWork
<1> QED  BY <1>1, <1>4, Zenon DEF KeepsBlock

\* A prompt answered, failed, or both, within its call.
LEMMA GenerateKeepsBlock ==
  ASSUME PipeInv, NEW a \in Actor, Generate(a) PROVE KeepsBlock(a)
<1> DEFINE c == actor[a]
           After(answered, failed) ==
             [c EXCEPT !.at = c.at + 1, !.error[c.at + 1] = failed,
               !.response[c.at + 1] = IF answered THEN c.call[c.at + 1] ELSE 0]
<1>1. PICK answered \in BOOLEAN, failed \in BOOLEAN :
        /\ answered \/ failed
        /\ Trans(a, "calling", After(answered, failed))
        /\ c.at < Len(c.call) /\ UNCHANGED <<phase, queue, output, losses>>
  BY DEF Generate
<1> DEFINE d == After(answered, failed)
<1>2. /\ c.pc = "calling" /\ c.at < Len(c.call) /\ phase = "map"
      /\ actor' = [actor EXCEPT ![a] = d]
      /\ UNCHANGED <<total, phase, queue, output, file, losses>>
  BY <1>1 DEF Trans
<1>3. ActorOK(c)
  BY DEF PipeInv, ActorsOK
<1>4. ActorOK(d) /\ d.block = c.block /\ d.pc = "calling"
  BY <1>1, <1>2, <1>3, GeneratedIsOK
<1>5. AtWork(c) /\ AtWork(d)
  BY <1>2, <1>4 DEF AtWork
<1> HIDE DEF d
<1> QED  BY <1>2, <1>4, <1>5, Zenon DEF KeepsBlock

\* A call ended: its rows join those of the block.
LEMMA EndCallKeepsBlock ==
  ASSUME PipeInv, NEW a \in Actor, EndCall(a) PROVE KeepsBlock(a)
<1> DEFINE c == actor[a]
           d == [c EXCEPT !.pc = "ready", !.out = c.out \o Rows(c)]
<1>1. /\ c.pc = "calling" /\ c.at = Len(c.call) /\ phase = "map"
      /\ actor' = [actor EXCEPT ![a] = d]
      /\ UNCHANGED <<total, phase, queue, output, file, losses>>
  BY DEF EndCall, Trans
<1>2. ActorOK(c)
  BY DEF PipeInv, ActorsOK
<1>3. ActorOK(d) /\ d.block = c.block /\ d.pc = "ready"
  BY <1>1, <1>2, EndedIsOK
<1>4. AtWork(c) /\ AtWork(d)
  BY <1>1, <1>3 DEF AtWork
<1> QED  BY <1>1, <1>3, <1>4, Zenon DEF KeepsBlock

\* All of a block is out: a row per prompt, in its order.
LEMMA AllOut ==
  ASSUME NEW c, ActorOK(c), c.pc = "ready", c.rest = <<>>
  PROVE  /\ c.out \in Seq(Row) /\ c.block \in Seq(Prompt) /\ Len(c.out) = Len(c.block)
         /\ \A i \in 1..Len(c.out) : c.out[i].id = c.block[i] /\ Own(c.out[i])
<1>1. c \in ActorState /\ c.out \in Seq(Row) /\ c.block \in Seq(Prompt)
  BY DEF ActorOK, ActorState
<1>2. Size(c) = 0 /\ Len(c.rest) = 0
  BY EmptySeq DEF Size
<1>3. Len(c.block) = Len(c.out) + 0 + 0
  BY <1>2, Zenon DEF ActorOK, InOrder
<1>4. Len(c.out) \in Nat
  BY <1>1
<1>5. Len(c.out) + 0 + 0 = Len(c.out)
  BY <1>4
<1>6. \A i \in 1..Len(c.out) : c.out[i].id = c.block[i] /\ Own(c.out[i])
  BY <1>2, Zenon DEF ActorOK, InOrder
<1> QED  BY <1>1, <1>3, <1>5, <1>6, Zenon

\* The rows of a block that is through join the output, its blocks in place.
LEMMA EndBlockKeeps ==
  ASSUME PipeInv, NEW a \in Actor, EndBlock(a) PROVE PipeInv'
<1> DEFINE c == actor[a]
<1>1. /\ c.pc = "ready" /\ c.rest = <<>> /\ phase = "map"
      /\ actor' = [actor EXCEPT ![a] = Idle] /\ output' = output \o c.out
      /\ UNCHANGED <<total, phase, queue, file, losses>>
  BY DEF EndBlock, Trans
<1>2. ActorOK(c) /\ output \in Seq(Row) /\ total \in Prompt
  BY DEF PipeInv, ActorsOK, Typed
<1>3. /\ c.out \in Seq(Row) /\ c.block \in Seq(Prompt) /\ Len(c.out) = Len(c.block)
      /\ \A i \in 1..Len(c.out) : c.out[i].id = c.block[i] /\ Own(c.out[i])
  BY <1>1, <1>2, AllOut
<1>4. /\ ActorsOK' /\ \A x \in Actor : x # a => actor'[x] = actor[x]
  BY <1>1, OneActorMoves, RestingActors, Zenon DEF PipeInv
<1>5. /\ output' \in Seq(Row) /\ Len(output') = Len(output) + Len(c.out)
      /\ \A i \in 1..Len(output) : output'[i] = output[i]
      /\ \A i \in 1..Len(c.out) : output'[Len(output) + i] = c.out[i]
  BY <1>1, <1>2, <1>3, Concat, Zenon
<1>6. RowsOwn'
  <2>1. Len(output) \in Nat /\ Len(c.out) \in Nat
    BY <1>2, <1>3
  <2>2. ASSUME NEW i \in 1..(Len(output) + Len(c.out)) PROVE Own(output'[i])
    <3>1. CASE i \in 1..Len(output)
      BY <1>5, <3>1, Zenon DEF PipeInv, RowsOwn
    <3>2. CASE \E j \in 1..Len(c.out) : i = Len(output) + j
      BY <1>3, <1>5, <3>2, Zenon
    <3> QED  BY <2>1, <3>1, <3>2, PlaceInConcat, Zenon
  <2> QED  BY <1>5, <2>2, Zenon DEF RowsOwn, Own
<1>7. ASSUME NEW b \in Blocks'
      PROVE  Queued(b)' \/ Held(b)' \/ PlacedIn(output', b)
  <2>1. b \in Seq(Prompt) /\ (Queued(b) \/ Held(b) \/ PlacedIn(output, b))
    <3>1. b \in Blocks
      BY <1>1, <1>7 DEF Blocks
    <3> QED  BY <1>1, <1>2, <3>1, BlockShape DEF PipeInv, BlocksOK, Blocks
  <2>2. CASE Queued(b)
    BY <1>1, <2>2, Zenon DEF Queued
  <2>3. CASE Held(b)
    <3>1. PICK x \in Actor : AtWork(actor[x]) /\ actor[x].block = b
      BY <2>3 DEF Held
    <3>2. CASE x = a
      BY <1>1, <1>2, <1>3, <2>1, <3>1, <3>2, BlockIsPlaced, Zenon
    <3>3. CASE x # a
      <4>1. AtWork(actor'[x]) /\ actor'[x].block = b
        BY <1>4, <3>1, <3>3, Zenon
      <4> QED  BY <4>1, Zenon DEF Held, AtWork
    <3> QED  BY <3>2, <3>3
  <2>4. CASE PlacedIn(output, b)
    BY <1>1, <1>2, <1>3, <2>1, <2>4, StaysPlaced, Zenon
  <2> QED  BY <2>1, <2>2, <2>3, <2>4
<1>8. BlocksOK'
  BY <1>7, Zenon DEF BlocksOK
<1>9. Typed'
  BY <1>1, <1>5 DEF PipeInv, Typed
<1> QED  BY <1>1, <1>4, <1>6, <1>8, <1>9 DEF PipeInv, AllThrough

\* A dead actor's block is queued again, or the dataset has raised.
LEMMA DieKeeps ==
  ASSUME PipeInv, NEW a \in Actor, Die(a) PROVE PipeInv'
<1> DEFINE c == actor[a]
<1>1. /\ phase = "map" /\ actor' = [actor EXCEPT ![a] = Loading]
      /\ losses' = losses + 1 /\ losses < MaxLosses /\ UNCHANGED <<total, output, file>>
      /\ \/ UNCHANGED phase /\ queue' = IF AtWork(c) THEN Append(queue, c.block) ELSE queue
         \/ phase' = "raised" /\ UNCHANGED queue
  BY DEF Die, Trans, AtWork
<1>2. /\ queue \in Seq(Seq(Prompt)) /\ c.block \in Seq(Prompt) /\ losses \in Nat
  BY PipelineAssumption DEF PipeInv, Typed, ActorsOK, ActorOK, ActorState
<1>3. /\ Append(queue, c.block) \in Seq(Seq(Prompt))
      /\ Len(Append(queue, c.block)) = Len(queue) + 1 /\ Len(queue) \in Nat
      /\ \A j \in 1..Len(queue) : Append(queue, c.block)[j] = queue[j]
      /\ Append(queue, c.block)[Len(queue) + 1] = c.block
  BY <1>2, AppendProperties
<1>4. /\ ActorsOK' /\ \A x \in Actor : x # a => actor'[x] = actor[x]
  BY <1>1, OneActorMoves, RestingActors, Zenon DEF PipeInv
<1>5. Typed' /\ RowsOwn'
  <2>1. queue' \in Seq(Seq(Prompt))
    BY <1>1, <1>2, <1>3
  <2>2. losses' \in 0..MaxLosses /\ losses' > 0
    BY <1>1, <1>2, PipelineAssumption
  <2>3. phase' \in {"map", "raised"}
    BY <1>1
  <2> QED  BY <1>1, <2>1, <2>2, <2>3 DEF PipeInv, Typed, RowsOwn
<1>6. ASSUME phase' = "map", NEW b \in Blocks'
      PROVE  Queued(b)' \/ Held(b)' \/ PlacedIn(output', b)
  <2>1. queue' = IF AtWork(c) THEN Append(queue, c.block) ELSE queue
    BY <1>1, <1>6
  <2>2. Queued(b) \/ Held(b) \/ PlacedIn(output, b)
    <3>1. b \in Blocks
      BY <1>1, <1>6 DEF Blocks
    <3> QED  BY <1>1, <3>1 DEF PipeInv, BlocksOK
  <2>3. CASE Queued(b)
    <3>1. PICK j \in 1..Len(queue) : queue[j] = b
      BY <2>3 DEF Queued
    <3>2. j \in 1..Len(queue') /\ queue'[j] = b
      <4>1. j \in 1..(Len(queue) + 1)
        BY <1>3
      <4> QED  BY <1>3, <2>1, <3>1, <4>1, Zenon
    <3> QED  BY <3>2, Zenon DEF Queued
  <2>4. CASE Held(b)
    <3>1. PICK x \in Actor : AtWork(actor[x]) /\ actor[x].block = b
      BY <2>4 DEF Held
    <3>2. CASE x = a
      <4>1. Len(queue) + 1 \in 1..(Len(queue) + 1)
        BY <1>3
      <4>2. Len(queue) + 1 \in 1..Len(queue') /\ queue'[Len(queue) + 1] = b
        BY <1>3, <2>1, <3>1, <3>2, <4>1, Zenon
      <4> QED  BY <4>2, Zenon DEF Queued
    <3>3. CASE x # a
      <4>1. AtWork(actor'[x]) /\ actor'[x].block = b
        BY <1>4, <3>1, <3>3, Zenon
      <4> QED  BY <4>1, Zenon DEF Held, AtWork
    <3> QED  BY <3>2, <3>3
  <2>5. CASE PlacedIn(output, b)
    BY <1>1, <2>5, Zenon
  <2> QED  BY <2>2, <2>3, <2>4, <2>5
<1>7. phase' \in {"map", "raised"}
  BY <1>1
<1>8. BlocksOK'
  BY <1>6, <1>7 DEF BlocksOK
<1> QED  BY <1>4, <1>5, <1>7, <1>8 DEF PipeInv, AllThrough

\* Every step keeps the invariant.
LEMMA PipeInvNext == PipeInv /\ [Next]_vars => PipeInv'
<1> SUFFICES ASSUME PipeInv, [Next]_vars PROVE PipeInv'
  OBVIOUS
<1>1. CASE Next
  <2>1. CASE Driver
    BY <2>1, RepartitionKeeps, FileStepsKeep DEF Driver
  <2>2. CASE WriteFails
    BY <2>2, FileStepsKeep
  <2>3. ASSUME NEW a \in Actor, Work(a) PROVE PipeInv'
    BY <2>3, LoadKeepsBlock, BeginCallKeepsBlock, GenerateKeepsBlock, EndCallKeepsBlock,
       ActorStepKeeps, TakeBlockKeeps, EndBlockKeeps DEF Work
  <2>4. ASSUME NEW a \in Actor, Die(a) PROVE PipeInv'
    BY <2>4, DieKeeps
  <2> QED  BY <1>1, <2>1, <2>2, <2>3, <2>4 DEF Next
<1>2. CASE UNCHANGED vars
  BY <1>2, Zenon
     DEF vars, PipeInv, Typed, ActorsOK, RowsOwn, BlocksOK, Blocks, Queued, Held, AllThrough
<1> QED  BY <1>1, <1>2

\* The invariant of the pipeline.
THEOREM PipelineInvariant == Spec => []PipeInv
<1>1. PipeInv /\ [Next]_vars => PipeInv'
  BY PipeInvNext
<1> QED  BY PipeInvInit, <1>1, PTL DEF Spec

\* Types are correct: what an actor holds is of its block, its call is no longer
\* than its columns.
THEOREM PipelineTypeCorrect == Spec => []PipelineTypeOK
<1>1. PipeInv => PipelineTypeOK
  <2> SUFFICES ASSUME PipeInv PROVE PipelineTypeOK
    OBVIOUS
  <2>1. ASSUME NEW a \in Actor
        PROVE  /\ actor[a].pc \in {"loading", "idle", "ready", "calling"}
               /\ {actor[a].block, actor[a].rest, actor[a].call} \subseteq Seq(Prompt)
               /\ actor[a].at \in 0..Len(actor[a].call)
               /\ actor[a].out \in Seq(Row)
    <3>1. actor[a] \in ActorState /\ actor[a].at <= Len(actor[a].call)
      BY DEF PipeInv, ActorsOK, ActorOK, CallOwn
    <3> QED  BY <3>1 DEF ActorState
  <2> QED  BY <2>1 DEF PipelineTypeOK, PipeInv, Typed
<1> QED  BY <1>1, PipelineInvariant, PTL

\* A row of the output holds no other prompt's answer, and has none only where it
\* has an error, whatever calls, blocks and lost actors came before and also where an
\* exception came after the answer (QwenPredictor.__call__).
THEOREM AnswersAlwaysTheirOwn == Spec => []AnswersAreTheirOwn
<1>1. PipeInv => AnswersAreTheirOwn
  <2> SUFFICES ASSUME PipeInv, NEW i \in DOMAIN output
               PROVE  output[i].of = output[i].id \/ (output[i].error /\ output[i].of = 0)
    BY DEF AnswersAreTheirOwn
  <2>1. i \in 1..Len(output)
    BY DEF PipeInv, Typed
  <2> QED  BY <2>1, Zenon DEF PipeInv, RowsOwn, Own
<1> QED  BY <1>1, PipelineInvariant, PTL

\* No block is lost, torn apart or reordered inside: every cut of the input stands
\* in the file, in its order, for any number of prompts, actors, sizes and losses.
THEOREM RowsAlwaysKeepBlockOrder == Spec => []RowsKeepBlockOrder
<1>1. PipeInv => RowsKeepBlockOrder
  <2> SUFFICES ASSUME PipeInv, phase = "done", NEW b \in Blocks
               PROVE  \E k \in 0..(Len(file.rows) - Len(b)) :
                        \A i \in DOMAIN b : file.rows[k + i].id = b[i]
    BY Zenon DEF RowsKeepBlockOrder, Blocks
  <2>1. b \in Seq(Prompt) /\ file.rows = output
    BY BlockShape DEF PipeInv, Typed, Blocks
  <2>2. ~Queued(b) /\ ~Held(b)
    BY EmptySeq DEF PipeInv, AllThrough, Queued, Held
  <2>3. PlacedIn(file.rows, b)
    BY <2>1, <2>2 DEF PipeInv, BlocksOK
  <2>4. DOMAIN b = 1..Len(b)
    BY <2>1
  <2> QED  BY <2>3, <2>4, Zenon DEF PlacedIn
<1> QED  BY <1>1, PipelineInvariant, PTL

-----------------------------------------------------------------------------
(* Each prompt once: it is in one place of the queue, the actors' blocks    *)
(* and the output, and goes from the one to the next.                       *)

\* A quotient q of x by d: d times q is at most x, and more than x - d.
LEMMA Quotient ==
  ASSUME NEW x \in Nat, NEW d \in Nat \ {0}
  PROVE  /\ x \div d \in Nat /\ d * (x \div d) <= x /\ x < d * (x \div d) + d
         /\ \A y \in Nat : (x < d * y => x \div d < y) /\ (d * y <= x => y <= x \div d)
<1>1. x \div d \in Nat /\ d * (x \div d) <= x /\ x < d * (x \div d) + d
  OBVIOUS
<1>2. ASSUME NEW y \in Nat, x < d * y PROVE x \div d < y
  <2>1. SUFFICES ASSUME x \div d >= y PROVE FALSE
    BY <1>1
  <2>2. d * (x \div d) >= d * y
    BY <1>1, <2>1
  <2> QED  BY <1>1, <1>2, <2>2
<1>3. ASSUME NEW y \in Nat, d * y <= x PROVE y <= x \div d
  <2>1. SUFFICES ASSUME y >= (x \div d) + 1 PROVE FALSE
    BY <1>1
  <2>2. d * y >= d * (x \div d) + d
    BY <1>1, <2>1
  <2> QED  BY <1>1, <1>3, <2>2
<1> QED  BY <1>1, <1>2, <1>3

\* Where the blocks begin: cut j has what lies above B[j-1], up to B[j].
LEMMA CutBounds ==
  ASSUME NEW n \in Prompt
  PROVE  \E k \in Nat, B \in [Int -> Nat] :
           /\ Len(Cuts(n, NumBlocks(n))) = k
           /\ \A j \in 1..k : B[j] <= n
           /\ \A i \in 0..k, j \in 0..k : i <= j => B[i] <= B[j]
           /\ \A j \in 1..k :
                LET b == Cuts(n, NumBlocks(n))[j] IN
                Len(b) = B[j] - B[j - 1] /\ \A i \in 1..Len(b) : b[i] = B[j - 1] + i
           /\ \A p \in 1..n : \E j \in 1..k : B[j - 1] < p /\ p <= B[j]
<1> DEFINE k == NumBlocks(n)
           bound(j) == (j * n) \div k
           B == [j \in Int |-> IF j >= 0 THEN bound(j) ELSE 0]
<1>0. n \in Nat \ {0} /\ BlockSize \in Nat \ {0}
  BY PipelineAssumption DEF Prompt
<1>1. k \in Nat \ {0}
  BY <1>0, Division DEF NumBlocks
<1>2. Cuts(n, k) = [j \in 1..k |->
        [i \in 1..(bound(j) - bound(j - 1)) |-> bound(j - 1) + i]]
  BY DEF Cuts
<1> HIDE DEF k
<1>3. ASSUME NEW j \in Nat PROVE j * n \in Nat /\ bound(j) \in Nat /\ B[j] = bound(j)
  <2>1. j * n \in Nat
    BY <1>0
  <2> QED  BY <1>1, <2>1, Quotient
<1>4. ASSUME NEW i \in Nat, NEW j \in Nat, i <= j PROVE bound(i) <= bound(j)
  <2>1. i * n \in Nat /\ j * n \in Nat /\ i * n <= j * n
    BY <1>0, <1>4
  <2> QED  BY <1>1, <2>1, Division
<1>5. B \in [Int -> Nat]
  BY <1>3
<1>6. bound(k) = n
  BY <1>0, <1>1, Division
<1> HIDE DEF B
<1>7. \A j \in 1..k : B[j] <= n
  <2>1. ASSUME NEW j \in 1..k PROVE B[j] <= n
    <3>1. j \in Nat /\ k \in Nat /\ j <= k
      BY <1>1
    <3> QED  BY <1>3, <1>4, <1>6, <3>1
  <2> QED  BY <2>1
<1>8. \A i \in 0..k, j \in 0..k : i <= j => B[i] <= B[j]
  <2>1. ASSUME NEW i \in 0..k, NEW j \in 0..k, i <= j PROVE B[i] <= B[j]
    <3>1. i \in Nat /\ j \in Nat
      BY <1>1
    <3> QED  BY <1>3, <1>4, <2>1, <3>1
  <2> QED  BY <2>1
<1>9. ASSUME NEW j \in 1..k
      PROVE  LET b == Cuts(n, k)[j] IN
             Len(b) = B[j] - B[j - 1] /\ \A i \in 1..Len(b) : b[i] = B[j - 1] + i
  <2>1. /\ j \in Nat /\ j - 1 \in Nat /\ j - 1 \in 0..k /\ j \in 0..k /\ j - 1 <= j
    BY <1>1
  <2>2. /\ B[j] = bound(j) /\ B[j - 1] = bound(j - 1) /\ B[j] \in Nat /\ B[j - 1] \in Nat
        /\ B[j - 1] <= B[j]
    BY <1>3, <1>8, <2>1, Zenon
  <2> HIDE DEF bound
  <2>3. Cuts(n, k)[j] = [i \in 1..(B[j] - B[j - 1]) |-> B[j - 1] + i]
    BY <1>2, <2>2, Zenon
  <2>4. B[j] - B[j - 1] \in Nat
    BY <2>2
  <2> QED  BY <2>3, <2>4
<1>10. Len(Cuts(n, k)) = k
  <2> HIDE DEF bound
  <2> QED  BY <1>1, <1>2
<1>11. ASSUME NEW p \in 1..n PROVE \E j \in 1..k : B[j - 1] < p /\ p <= B[j]
  <2> DEFINE x == p * k + (n - 1)
             j == x \div n
  <2>1. /\ p \in Nat /\ p >= 1 /\ p <= n /\ p * k \in Nat /\ p * k >= 1 /\ p * k <= n * k
        /\ k * p = p * k /\ n * (k + 1) = n * k + n /\ n * k \in Nat
    BY <1>0, <1>1
  <2>2. x \in Nat /\ x < n * (k + 1)
    BY <1>0, <1>1, <2>1
  <2>3. j \in Nat /\ n * j <= x /\ x < n * j + n /\ j < k + 1
    <3>1. k + 1 \in Nat
      BY <1>1
    <3> HIDE DEF x
    <3> QED  BY <1>0, <2>2, <3>1, Quotient
  <2> HIDE DEF j
  <2>4. n * j >= p * k /\ n * j < p * k + n /\ n * j \in Nat
    BY <1>0, <2>1, <2>3
  <2>5. j >= 1 /\ j <= k
    <3>1. j # 0
      <4>1. SUFFICES ASSUME j = 0 PROVE FALSE
        OBVIOUS
      <4>2. n * j = 0
        BY <1>0, <4>1
      <4> QED  BY <2>1, <2>4, <4>2
    <3> QED  BY <1>1, <2>3, <3>1
  <2>6. j * n \in Nat /\ (j - 1) * n \in Nat /\ j * n = n * j /\ (j - 1) * n = n * j - n
    BY <1>0, <2>3, <2>5
  <2>7. k * p <= j * n /\ (j - 1) * n < k * p
    BY <1>0, <2>1, <2>4, <2>6
  <2>8. p <= bound(j) /\ bound(j - 1) < p
    BY <1>1, <2>1, <2>6, <2>7, Quotient
  <2>9. j \in 1..k /\ j - 1 \in Nat
    BY <1>1, <2>3, <2>5
  <2> QED  BY <1>3, <2>3, <2>8, <2>9
<1>12. /\ Len(Cuts(n, k)) = k
       /\ \A j \in 1..k : B[j] <= n
       /\ \A i \in 0..k, j \in 0..k : i <= j => B[i] <= B[j]
       /\ \A j \in 1..k :
            LET b == Cuts(n, k)[j] IN
            Len(b) = B[j] - B[j - 1] /\ \A i \in 1..Len(b) : b[i] = B[j - 1] + i
       /\ \A p \in 1..n : \E j \in 1..k : B[j - 1] < p /\ p <= B[j]
  BY <1>7, <1>8, <1>9, <1>10, <1>11, Zenon
<1>13. k \in Nat
  BY <1>1
<1> QED  BY <1>5, <1>12, <1>13, Zenon DEF k

Meet(b, c) == \E i \in 1..Len(b), j \in 1..Len(c) : b[i] = c[j]

Once(b) == \A i, j \in 1..Len(b) : b[i] = b[j] => i = j

\* The cuts share out the prompts: each prompt is in one place of one cut.
LEMMA CutsShareOut ==
  ASSUME NEW n \in Prompt
  PROVE  LET q == Cuts(n, NumBlocks(n)) IN
         /\ \A j \in 1..Len(q) : Once(q[j]) /\ \A i \in 1..Len(q[j]) : q[j][i] \in 1..n
         /\ \A i, j \in 1..Len(q) : i # j => ~Meet(q[i], q[j])
         /\ \A p \in 1..n : \E b \in Range(q) : \E i \in 1..Len(b) : b[i] = p
<1> DEFINE q == Cuts(n, NumBlocks(n))
<1>0. n \in Nat /\ q \in Seq(Seq(Prompt))
  BY PipelineAssumption, CutsAreBlocks DEF Prompt
<1>1. PICK k \in Nat, B \in [Int -> Nat] :
        /\ Len(q) = k
        /\ \A j \in 1..k : B[j] <= n
        /\ \A i \in 0..k, j \in 0..k : i <= j => B[i] <= B[j]
        /\ \A j \in 1..k :
             Len(q[j]) = B[j] - B[j - 1] /\ \A i \in 1..Len(q[j]) : q[j][i] = B[j - 1] + i
        /\ \A p \in 1..n : \E j \in 1..k : B[j - 1] < p /\ p <= B[j]
  BY CutBounds
<1> HIDE DEF q
<1>2. ASSUME NEW j \in 1..k
      PROVE  /\ j \in Int /\ j - 1 \in Int /\ B[j] \in Nat /\ B[j - 1] \in Nat /\ B[j] <= n
             /\ Len(q[j]) = B[j] - B[j - 1]
             /\ \A i \in 1..Len(q[j]) : q[j][i] = B[j - 1] + i
  <2>1. j \in Int /\ j - 1 \in Int
    OBVIOUS
  <2>2. B[j] \in Nat /\ B[j - 1] \in Nat
    BY <2>1
  <2>3. /\ B[j] <= n /\ Len(q[j]) = B[j] - B[j - 1]
        /\ \A i \in 1..Len(q[j]) : q[j][i] = B[j - 1] + i
    BY <1>1, Zenon
  <2> QED  BY <2>1, <2>2, <2>3, Zenon
<1>3. ASSUME NEW j \in 1..k, NEW i \in 1..Len(q[j])
      PROVE  q[j][i] > B[j - 1] /\ q[j][i] <= B[j] /\ q[j][i] \in 1..n
  <2>1. i \in 1..(B[j] - B[j - 1]) /\ q[j][i] = B[j - 1] + i
    BY <1>2, Zenon
  <2>2. B[j] \in Nat /\ B[j - 1] \in Nat /\ B[j] <= n
    BY <1>2, Zenon
  <2>3. B[j - 1] + i > B[j - 1] /\ B[j - 1] + i <= B[j] /\ B[j - 1] + i \in 1..n
    <3>1. \A x, y \in Nat : y <= n => \A h \in 1..(y - x) :
            x + h > x /\ x + h <= y /\ x + h \in 1..n
      <4>1. n \in Nat
        BY <1>0
      <4> QED  BY <4>1
    <3> QED  BY <2>1, <2>2, <3>1, Zenon
  <2> QED  BY <2>1, <2>3, Zenon
<1>4. ASSUME NEW j \in 1..k
      PROVE  Once(q[j]) /\ \A i \in 1..Len(q[j]) : q[j][i] \in 1..n
  <2>1. ASSUME NEW i \in 1..Len(q[j]), NEW h \in 1..Len(q[j]), q[j][i] = q[j][h]
        PROVE  i = h
    <3>1. B[j - 1] + i = B[j - 1] + h
      BY <1>2, <2>1
    <3>2. i \in Int /\ h \in Int /\ B[j - 1] \in Nat
      BY <1>2
    <3> QED  BY <3>1, <3>2
  <2> QED  BY <1>3, <2>1, Zenon DEF Once
<1>5. ASSUME NEW i \in 1..k, NEW j \in 1..k, i < j PROVE ~Meet(q[i], q[j])
  <2> SUFFICES ASSUME NEW g \in 1..Len(q[i]), NEW h \in 1..Len(q[j]), q[i][g] = q[j][h]
               PROVE  FALSE
    BY Zenon DEF Meet
  <2>1. B[i] <= B[j - 1]
    <3>0. i < j /\ k \in Nat
      BY <1>5
    <3>1. i \in 0..k /\ j - 1 \in 0..k /\ i <= j - 1
      BY <3>0
    <3> QED  BY <1>1, <3>1, Zenon
  <2>2. q[i][g] <= B[i] /\ q[i][g] > B[j - 1] /\ q[i][g] \in 1..n
    BY <1>3, Zenon
  <2>3. B[i] \in Nat /\ B[j - 1] \in Nat
    BY <1>2, Zenon
  <2>4. \A x \in 1..n, y, z \in Nat : ~(y <= z /\ x <= y /\ x > z)
    BY <1>0
  <2> QED  BY <2>1, <2>2, <2>3, <2>4, Zenon
<1>6. ASSUME NEW i \in 1..k, NEW j \in 1..k, i # j PROVE ~Meet(q[i], q[j])
  <2>1. CASE i < j
    BY <1>5, <2>1
  <2>2. CASE j < i
    <3>1. ~Meet(q[j], q[i])
      BY <1>5, <2>2
    <3> QED  BY <3>1, Zenon DEF Meet
  <2> QED  BY <1>6, <2>1, <2>2
<1>7. ASSUME NEW p \in 1..n PROVE \E b \in Range(q) : \E i \in 1..Len(b) : b[i] = p
  <2>1. PICK j \in 1..k : B[j - 1] < p /\ p <= B[j]
    BY <1>1
  <2> DEFINE i == p - B[j - 1]
  <2>2. i \in 1..(B[j] - B[j - 1]) /\ B[j - 1] + i = p
    <3>1. B[j] \in Nat /\ B[j - 1] \in Nat /\ B[j - 1] < p /\ p <= B[j] /\ p \in Nat
      BY <1>0, <1>2, <2>1
    <3> QED  BY <3>1
  <2>3. i \in 1..Len(q[j]) /\ q[j][i] = p
    BY <1>2, <2>2, Zenon
  <2>4. q[j] \in Range(q)
    BY <1>0, <1>1 DEF Range
  <2> QED  BY <2>3, <2>4, Zenon
<1> QED  BY <1>1, <1>4, <1>6, <1>7 DEF q

\* A block still to come: prompts of the input, each once, and none in the output.
Fresh(n, rows, b) ==
  Once(b) /\ \A i \in 1..Len(b) : b[i] \in 1..n /\ \A g \in 1..Len(rows) : rows[g].id # b[i]

ToCome(b) == Fresh(total, output, b)

\* No prompt is in two places of the queue, the actors and the output.
Apart ==
  /\ \A i, j \in 1..Len(queue) : i # j => ~Meet(queue[i], queue[j])
  /\ \A a \in Actor : AtWork(actor[a]) =>
       /\ ToCome(actor[a].block)
       /\ \A j \in 1..Len(queue) : ~Meet(actor[a].block, queue[j])
       /\ \A x \in Actor : x # a /\ AtWork(actor[x]) => ~Meet(actor[a].block, actor[x].block)
  /\ \A j \in 1..Len(queue) : ToCome(queue[j])

OutOnce ==
  /\ \A i, j \in 1..Len(output) : output[i].id = output[j].id => i = j
  /\ \A i \in 1..Len(output) : output[i].id \in 1..total

OnceInv ==
  /\ Apart /\ OutOnce
  /\ phase = "read" => Len(output) = 0 /\ \A a \in Actor : ~AtWork(actor[a])

\* At the start no prompt is anywhere.
LEMMA OnceInit == Init => OnceInv
<1> SUFFICES ASSUME Init PROVE OnceInv
  OBVIOUS
<1>1. Len(queue) = 0 /\ Len(output) = 0
  BY EmptySeq DEF Init
<1>2. \A a \in Actor : ~AtWork(actor[a])
  BY DEF Init, Loading, AtWork
<1> QED  BY <1>1, <1>2 DEF OnceInv, Apart, OutOnce

\* An actor's step within its block, or without one.
LEMMA OnceStays ==
  ASSUME PipeInv, OnceInv, NEW a \in Actor, KeepsBlock(a) PROVE OnceInv'
<1>0. PICK c : /\ ActorOK(c) /\ actor' = [actor EXCEPT ![a] = c]
               /\ AtWork(c) <=> AtWork(actor[a])
               /\ AtWork(c) => c.block = actor[a].block
               /\ phase = "map" /\ UNCHANGED <<total, phase, queue, output, file, losses>>
  BY DEF KeepsBlock
<1>1. /\ actor'[a] = c /\ \A x \in Actor : x # a => actor'[x] = actor[x]
  BY <1>0, OneActorMoves, Zenon DEF PipeInv
<1>2. ASSUME NEW x \in Actor, AtWork(actor'[x])
      PROVE  AtWork(actor[x]) /\ actor'[x].block = actor[x].block
  BY <1>0, <1>1, <1>2, Zenon
<1>3. Apart'
  <2>1. ASSUME NEW x \in Actor, AtWork(actor'[x])
        PROVE  /\ ToCome(actor'[x].block)
               /\ \A j \in 1..Len(queue) : ~Meet(actor'[x].block, queue[j])
               /\ \A y \in Actor : y # x /\ AtWork(actor'[y]) =>
                    ~Meet(actor'[x].block, actor'[y].block)
    <3>1. AtWork(actor[x]) /\ actor'[x].block = actor[x].block
      BY <1>2, <2>1
    <3>2. ASSUME NEW y \in Actor, y # x, AtWork(actor'[y])
          PROVE  ~Meet(actor'[x].block, actor'[y].block)
      <4>1. AtWork(actor[y]) /\ actor'[y].block = actor[y].block
        BY <1>2, <3>2
      <4> QED  BY <3>1, <3>2, <4>1, Zenon DEF OnceInv, Apart
    <3> QED  BY <3>1, <3>2, Zenon DEF OnceInv, Apart
  <2>2. \A b : ToCome(b)' <=> ToCome(b)
    BY <1>0, Zenon DEF ToCome
  <2>3. /\ \A i, j \in 1..Len(queue) : i # j => ~Meet(queue[i], queue[j])
        /\ \A j \in 1..Len(queue) : ToCome(queue[j])
    BY DEF OnceInv, Apart
  <2> QED  BY <1>0, <2>1, <2>2, <2>3, Zenon DEF Apart, AtWork
<1>4. OutOnce'
  BY <1>0 DEF OnceInv, OutOnce
<1>5. phase' # "read"
  BY <1>0
<1> QED  BY <1>3, <1>4, <1>5 DEF OnceInv

\* The cuts put each prompt of the input into one place of the queue.
LEMMA RepartitionOnce ==
  ASSUME PipeInv, OnceInv, Repartition PROVE OnceInv'
<1>1. /\ total \in Prompt /\ queue' = Cuts(total, NumBlocks(total)) /\ phase' = "map"
      /\ UNCHANGED <<total, actor, output>> /\ phase = "read"
  BY DEF PipeInv, Typed, Repartition
<1>2. /\ \A j \in 1..Len(queue') :
           Once(queue'[j]) /\ \A i \in 1..Len(queue'[j]) : queue'[j][i] \in 1..total
      /\ \A i, j \in 1..Len(queue') : i # j => ~Meet(queue'[i], queue'[j])
  BY <1>1, CutsShareOut
<1>3. Len(output) = 0 /\ \A a \in Actor : ~AtWork(actor[a])
  BY <1>1 DEF OnceInv
<1>4. \A j \in 1..Len(queue') : Fresh(total, output, queue'[j])
  <2>1. 1..Len(output) = {}
    BY <1>3
  <2> QED  BY <1>2, <2>1, Zenon DEF Fresh
<1>5. Apart'
  BY <1>1, <1>2, <1>3, <1>4, Zenon DEF Apart, ToCome, AtWork
<1>6. OutOnce'
  BY <1>1 DEF OnceInv, OutOnce
<1> QED  BY <1>1, <1>5, <1>6 DEF OnceInv

\* The driver's later steps move no prompt.
LEMMA FileStepsOnce ==
  ASSUME OnceInv, OpenFile \/ WriteFile \/ WriteFails PROVE OnceInv'
<1>1. UNCHANGED <<total, queue, actor, output>> /\ phase' # "read"
  BY DEF OpenFile, WriteFile, WriteFails
<1>2. \A b : ToCome(b)' <=> ToCome(b)
  BY <1>1, Zenon DEF ToCome
<1>3. Apart'
  BY <1>1, <1>2, Zenon DEF OnceInv, Apart
<1>4. OutOnce'
  BY <1>1 DEF OnceInv, OutOnce
<1> QED  BY <1>1, <1>3, <1>4 DEF OnceInv

\* The block goes from the queue to the actor.
LEMMA TakeBlockOnce ==
  ASSUME PipeInv, OnceInv, NEW a \in Actor, TakeBlock(a) PROVE OnceInv'
<1> DEFINE h == Head(queue)
<1>1. /\ actor' = [actor EXCEPT ![a] = Busy(h)] /\ queue # <<>> /\ queue' = Tail(queue)
      /\ phase = "map" /\ UNCHANGED <<total, phase, output, file, losses>>
  BY DEF TakeBlock, Trans
<1>2. /\ h \in Seq(Prompt) /\ h = queue[1] /\ 1 \in 1..Len(queue)
      /\ \A j \in 1..Len(queue') : /\ queue'[j] = queue[j + 1]
                                   /\ j + 1 \in 1..Len(queue) /\ j + 1 # 1
      /\ \A i, j \in 1..Len(queue') : i # j => i + 1 # j + 1
  <2>1. queue \in Seq(Seq(Prompt)) /\ queue # <<>>
    BY <1>1 DEF PipeInv, Typed
  <2>2. /\ h \in Seq(Prompt) /\ h = queue[1] /\ Len(queue) \in Nat \ {0}
        /\ Len(queue') = Len(queue) - 1
        /\ \A j \in 1..Len(queue') : queue'[j] = queue[j + 1]
    BY <1>1, <2>1, HeadTailProperties, EmptySeq
  <2>3. \A j \in 1..Len(queue') : j + 1 \in 1..Len(queue) /\ j + 1 # 1
    BY <2>2
  <2>4. \A i, j \in 1..Len(queue') : i # j => i + 1 # j + 1
    BY <2>2
  <2>5. 1 \in 1..Len(queue)
    BY <2>2
  <2> QED  BY <2>2, <2>3, <2>4, <2>5, Zenon
<1>3. ActorOK(Busy(h)) /\ Busy(h).block = h
  BY <1>2, RestingActors DEF Busy, Loading
<1> HIDE DEF h
<1>4. actor'[a].block = h /\ \A x \in Actor : x # a => actor'[x] = actor[x]
  BY <1>1, <1>3, OneActorMoves, Zenon DEF PipeInv
<1>5. \A b : ToCome(b)' <=> ToCome(b)
  BY <1>1, Zenon DEF ToCome
<1>6. /\ ToCome(h) /\ \A j \in 1..Len(queue') : ~Meet(h, queue'[j])
      /\ \A x \in Actor : x # a /\ AtWork(actor[x]) =>
           ~Meet(h, actor[x].block) /\ ~Meet(actor[x].block, h)
  <2>1. \A b, c : Meet(b, c) => Meet(c, b)
    BY Zenon DEF Meet
  <2> QED  BY <1>2, <2>1, Zenon DEF OnceInv, Apart
<1>7. ASSUME NEW x \in Actor, AtWork(actor'[x])
      PROVE  /\ ToCome(actor'[x].block)
             /\ \A j \in 1..Len(queue') : ~Meet(actor'[x].block, queue'[j])
             /\ \A y \in Actor : y # x /\ AtWork(actor'[y]) =>
                  ~Meet(actor'[x].block, actor'[y].block)
  <2>1. CASE x = a
    BY <1>4, <1>6, <2>1, Zenon
  <2>2. CASE x # a
    <3>1. actor'[x] = actor[x] /\ AtWork(actor[x])
      BY <1>4, <1>7, <2>2, Zenon
    <3>2. ASSUME NEW y \in Actor, y # x, AtWork(actor'[y])
          PROVE  ~Meet(actor'[x].block, actor'[y].block)
      <4>1. CASE y = a
        BY <1>4, <1>6, <2>2, <3>1, <4>1, Zenon
      <4>2. CASE y # a
        <5>1. actor'[y] = actor[y] /\ AtWork(actor[y])
          BY <1>4, <3>2, <4>2, Zenon
        <5> QED  BY <3>1, <3>2, <5>1, Zenon DEF OnceInv, Apart
      <4> QED  BY <4>1, <4>2
    <3>3. ToCome(actor'[x].block)
      BY <3>1, Zenon DEF OnceInv, Apart
    <3>4. \A j \in 1..Len(queue') : ~Meet(actor'[x].block, queue'[j])
      BY <1>2, <3>1, Zenon DEF OnceInv, Apart
    <3> QED  BY <3>2, <3>3, <3>4, Zenon
  <2> QED  BY <2>1, <2>2
<1>8. /\ \A i, j \in 1..Len(queue') : i # j => ~Meet(queue'[i], queue'[j])
      /\ \A j \in 1..Len(queue') : ToCome(queue'[j])
  BY <1>2, Zenon DEF OnceInv, Apart
<1>9. Apart'
  BY <1>5, <1>7, <1>8, Zenon DEF Apart, AtWork
<1>10. OutOnce'
  BY <1>1 DEF OnceInv, OutOnce
<1> QED  BY <1>1, <1>9, <1>10 DEF OnceInv

\* The block goes from the actor to the output.
LEMMA EndBlockOnce ==
  ASSUME PipeInv, OnceInv, NEW a \in Actor, EndBlock(a) PROVE OnceInv'
<1> DEFINE c == actor[a]
<1>1. /\ c.pc = "ready" /\ c.rest = <<>> /\ phase = "map"
      /\ actor' = [actor EXCEPT ![a] = Idle] /\ output' = output \o c.out
      /\ UNCHANGED <<total, phase, queue, file, losses>>
  BY DEF EndBlock, Trans
<1>2. /\ \A i \in 1..Len(output) : output'[i] = output[i]
      /\ \A i \in 1..Len(c.block) : output'[Len(output) + i].id = c.block[i]
      /\ \A i \in 1..Len(output') :
           i \in 1..Len(output) \/ \E j \in 1..Len(c.block) : i = Len(output) + j
  <2>1. ActorOK(c) /\ output \in Seq(Row)
    BY DEF PipeInv, ActorsOK, Typed
  <2>2. /\ c.out \in Seq(Row) /\ Len(c.out) = Len(c.block)
        /\ \A i \in 1..Len(c.out) : c.out[i].id = c.block[i]
    BY <1>1, <2>1, AllOut
  <2>3. /\ Len(output') = Len(output) + Len(c.out)
        /\ \A i \in 1..Len(output) : output'[i] = output[i]
        /\ \A i \in 1..Len(c.out) : output'[Len(output) + i] = c.out[i]
    BY <1>1, <2>1, <2>2, Concat, Zenon
  <2>4. Len(output) \in Nat /\ Len(c.out) \in Nat
    BY <2>1, <2>2
  <2>5. ASSUME NEW i \in 1..Len(c.block) PROVE output'[Len(output) + i].id = c.block[i]
    BY <2>2, <2>3, Zenon
  <2>6. ASSUME NEW i \in 1..Len(output')
        PROVE  i \in 1..Len(output) \/ \E j \in 1..Len(c.block) : i = Len(output) + j
    <3>1. Len(output') = Len(output) + Len(c.block)
      BY <2>2, <2>3, Zenon
    <3>2. i \in 1..(Len(output) + Len(c.block)) /\ Len(c.block) \in Nat
      BY <2>2, <2>4, <3>1
    <3> QED  BY <2>4, <3>2, PlaceInConcat, Zenon
  <2> QED  BY <2>3, <2>5, <2>6, Zenon
<1>3. AtWork(c) /\ ~AtWork(Idle)
  BY <1>1 DEF AtWork, Idle, Loading
<1>4. actor'[a] = Idle /\ \A x \in Actor : x # a => actor'[x] = actor[x]
  BY <1>1, OneActorMoves, RestingActors, Zenon DEF PipeInv
<1>5. /\ ToCome(c.block) /\ \A j \in 1..Len(queue) : ~Meet(c.block, queue[j])
      /\ \A x \in Actor : x # a /\ AtWork(actor[x]) => ~Meet(c.block, actor[x].block)
  BY <1>3, Zenon DEF OnceInv, Apart
<1>6. ASSUME NEW b, ToCome(b), ~Meet(c.block, b)
      PROVE  Fresh(total, output', b)
  <2>1. ASSUME NEW i \in 1..Len(b), NEW g \in 1..Len(output'), output'[g].id = b[i]
        PROVE  FALSE
    <3>1. CASE g \in 1..Len(output)
      BY <1>2, <1>6, <2>1, <3>1, Zenon DEF ToCome, Fresh
    <3>2. CASE \E j \in 1..Len(c.block) : g = Len(output) + j
      BY <1>2, <1>6, <2>1, <3>2, Zenon DEF Meet
    <3> QED  BY <1>2, <2>1, <3>1, <3>2
  <2> QED  BY <1>6, <2>1, Zenon DEF ToCome, Fresh
<1>7. ASSUME NEW x \in Actor, AtWork(actor'[x])
      PROVE  /\ Fresh(total, output', actor'[x].block)
             /\ \A j \in 1..Len(queue') : ~Meet(actor'[x].block, queue'[j])
             /\ \A y \in Actor : y # x /\ AtWork(actor'[y]) =>
                  ~Meet(actor'[x].block, actor'[y].block)
  <2>1. x # a /\ actor'[x] = actor[x] /\ AtWork(actor[x])
    BY <1>3, <1>4, <1>7, Zenon
  <2>2. ASSUME NEW y \in Actor, y # x, AtWork(actor'[y])
        PROVE  ~Meet(actor'[x].block, actor'[y].block)
    <3>1. actor'[y] = actor[y] /\ AtWork(actor[y])
      BY <1>3, <1>4, <2>2, Zenon
    <3> QED  BY <2>1, <2>2, <3>1, Zenon DEF OnceInv, Apart
  <2>3. ToCome(actor[x].block) /\ ~Meet(c.block, actor[x].block)
    BY <1>5, <2>1, Zenon DEF OnceInv, Apart
  <2>4. Fresh(total, output', actor'[x].block)
    BY <1>6, <2>1, <2>3, Zenon
  <2>5. \A j \in 1..Len(queue') : ~Meet(actor'[x].block, queue'[j])
    BY <1>1, <2>1, Zenon DEF OnceInv, Apart
  <2> QED  BY <2>2, <2>4, <2>5, Zenon
<1>8. /\ \A i, j \in 1..Len(queue') : i # j => ~Meet(queue'[i], queue'[j])
      /\ \A j \in 1..Len(queue') : Fresh(total, output', queue'[j])
  <2>1. \A i, j \in 1..Len(queue) : i # j => ~Meet(queue[i], queue[j])
    BY Zenon DEF OnceInv, Apart
  <2>2. ASSUME NEW j \in 1..Len(queue) PROVE Fresh(total, output', queue[j])
    BY <1>5, <1>6, Zenon DEF OnceInv, Apart
  <2> QED  BY <1>1, <2>1, <2>2, Zenon
<1>9. Apart'
  BY <1>1, <1>7, <1>8, Zenon DEF Apart, AtWork, ToCome
<1>10. OutOnce'
  <2>1. ASSUME NEW i \in 1..Len(output), NEW j \in 1..Len(c.block)
        PROVE  output[i].id # c.block[j]
    BY <1>5, Zenon DEF ToCome, Fresh
  <2>2. /\ \A j \in 1..Len(c.block) : c.block[j] \in 1..total
        /\ \A i, j \in 1..Len(c.block) : c.block[i] = c.block[j] => i = j
    BY <1>5, Zenon DEF ToCome, Fresh, Once
  <2>3. /\ \A i, j \in 1..Len(output) : output[i].id = output[j].id => i = j
        /\ \A i \in 1..Len(output) : output[i].id \in 1..total
    BY Zenon DEF OnceInv, OutOnce
  <2>4. ASSUME NEW i \in 1..Len(output'), NEW j \in 1..Len(output'),
               output'[i].id = output'[j].id
        PROVE  i = j
    <3>1. CASE i \in 1..Len(output) /\ j \in 1..Len(output)
      BY <1>2, <2>3, <2>4, <3>1, Zenon
    <3>2. CASE i \in 1..Len(output) /\ \E h \in 1..Len(c.block) : j = Len(output) + h
      <4>1. PICK h \in 1..Len(c.block) : j = Len(output) + h
        BY <3>2
      <4>2. output'[i].id = output[i].id /\ output'[j].id = c.block[h]
        BY <1>2, <3>2, <4>1, Zenon
      <4> QED  BY <2>1, <2>4, <3>2, <4>2, Zenon
    <3>3. CASE j \in 1..Len(output) /\ \E h \in 1..Len(c.block) : i = Len(output) + h
      <4>1. PICK h \in 1..Len(c.block) : i = Len(output) + h
        BY <3>3
      <4>2. output'[j].id = output[j].id /\ output'[i].id = c.block[h]
        BY <1>2, <3>3, <4>1, Zenon
      <4> QED  BY <2>1, <2>4, <3>3, <4>2, Zenon
    <3>4. CASE /\ \E h \in 1..Len(c.block) : i = Len(output) + h
               /\ \E h \in 1..Len(c.block) : j = Len(output) + h
      <4>1. PICK g \in 1..Len(c.block) : i = Len(output) + g
        BY <3>4
      <4>2. PICK h \in 1..Len(c.block) : j = Len(output) + h
        BY <3>4
      <4>3. output'[i].id = c.block[g] /\ output'[j].id = c.block[h]
        BY <1>2, <4>1, <4>2, Zenon
      <4> QED  BY <2>2, <2>4, <4>1, <4>2, <4>3, Zenon
    <3> QED  BY <1>2, <3>1, <3>2, <3>3, <3>4, Zenon
  <2>5. ASSUME NEW i \in 1..Len(output') PROVE output'[i].id \in 1..total
    <3>1. CASE i \in 1..Len(output)
      BY <1>2, <2>3, <3>1, Zenon
    <3>2. CASE \E h \in 1..Len(c.block) : i = Len(output) + h
      BY <1>2, <2>2, <3>2, Zenon
    <3> QED  BY <1>2, <3>1, <3>2, Zenon
  <2> QED  BY <1>1, <2>4, <2>5, Zenon DEF OutOnce
<1> QED  BY <1>1, <1>9, <1>10 DEF OnceInv

\* A dead actor's block goes back to the end of the queue, or it is dropped.
LEMMA DieOnce ==
  ASSUME PipeInv, OnceInv, NEW a \in Actor, Die(a) PROVE OnceInv'
<1> DEFINE c == actor[a]
<1>1. /\ phase = "map" /\ actor' = [actor EXCEPT ![a] = Loading]
      /\ UNCHANGED <<total, output>> /\ phase' # "read"
      /\ \/ AtWork(c) /\ queue' = Append(queue, c.block)
         \/ UNCHANGED queue
  BY DEF Die, Trans, AtWork
<1>2. /\ ~AtWork(Loading) /\ actor'[a] = Loading
      /\ \A x \in Actor : x # a => actor'[x] = actor[x]
  <2>1. ~AtWork(Loading)
    BY DEF AtWork, Loading
  <2> QED  BY <1>1, <2>1, OneActorMoves, RestingActors, Zenon DEF PipeInv
<1>3. ASSUME NEW x \in Actor, AtWork(actor'[x])
      PROVE  x # a /\ actor'[x] = actor[x] /\ AtWork(actor[x])
  BY <1>2, <1>3, Zenon
<1>4. \A x, y \in Actor : x # y /\ AtWork(actor'[x]) /\ AtWork(actor'[y]) =>
        ~Meet(actor'[x].block, actor'[y].block)
  BY <1>3, Zenon DEF OnceInv, Apart
<1>5. \A x \in Actor : AtWork(actor'[x]) => ToCome(actor'[x].block)
  BY <1>3, Zenon DEF OnceInv, Apart
<1>6. OutOnce'
  BY <1>1 DEF OnceInv, OutOnce
<1>7. CASE UNCHANGED queue
  <2>1. \A x \in Actor : AtWork(actor'[x]) =>
          \A j \in 1..Len(queue) : ~Meet(actor'[x].block, queue[j])
    BY <1>3, Zenon DEF OnceInv, Apart
  <2>2. Apart'
    BY <1>1, <1>4, <1>5, <1>7, <2>1, Zenon DEF OnceInv, Apart, AtWork, ToCome
  <2> QED  BY <1>1, <1>6, <2>2 DEF OnceInv
<1>8. CASE AtWork(c) /\ queue' = Append(queue, c.block)
  <2>1. \A j \in 1..Len(queue') : \/ j \in 1..Len(queue) /\ queue'[j] = queue[j]
                                  \/ j = Len(queue) + 1 /\ queue'[j] = c.block
    <3>1. queue \in Seq(Seq(Prompt)) /\ c.block \in Seq(Prompt)
      BY DEF PipeInv, Typed, ActorsOK, ActorOK, ActorState
    <3>2. /\ Len(queue') = Len(queue) + 1 /\ Len(queue) \in Nat
          /\ \A j \in 1..Len(queue) : queue'[j] = queue[j]
          /\ queue'[Len(queue) + 1] = c.block
      BY <1>8, <3>1, AppendProperties
    <3>3. \A j \in 1..(Len(queue) + 1) : j \in 1..Len(queue) \/ j = Len(queue) + 1
      BY <3>2
    <3> QED  BY <3>2, <3>3, Zenon
  <2>2. /\ ToCome(c.block) /\ \A j \in 1..Len(queue) : ~Meet(c.block, queue[j])
        /\ \A j \in 1..Len(queue) : ~Meet(queue[j], c.block)
        /\ \A x \in Actor : x # a /\ AtWork(actor[x]) => ~Meet(actor[x].block, c.block)
    <3>1. \A b, d : Meet(b, d) => Meet(d, b)
      BY Zenon DEF Meet
    <3> QED  BY <1>8, <3>1, Zenon DEF OnceInv, Apart
  <2>3. \A x \in Actor : AtWork(actor'[x]) =>
          \A j \in 1..Len(queue') : ~Meet(actor'[x].block, queue'[j])
    BY <1>3, <2>1, <2>2, Zenon DEF OnceInv, Apart
  <2>4. ASSUME NEW i \in 1..Len(queue'), NEW j \in 1..Len(queue'), i # j
        PROVE  ~Meet(queue'[i], queue'[j])
    BY <2>1, <2>2, <2>4, Zenon DEF OnceInv, Apart
  <2>5. \A j \in 1..Len(queue') : ToCome(queue'[j])
    BY <2>1, <2>2, Zenon DEF OnceInv, Apart
  <2>6. Apart'
    BY <1>1, <1>4, <1>5, <2>3, <2>4, <2>5, Zenon DEF Apart, AtWork, ToCome
  <2> QED  BY <1>1, <1>6, <2>6 DEF OnceInv
<1> QED  BY <1>1, <1>7, <1>8

\* No step puts a prompt in two places.
LEMMA OnceNext == PipeInv /\ OnceInv /\ [Next]_vars => OnceInv'
<1> SUFFICES ASSUME PipeInv, OnceInv, [Next]_vars PROVE OnceInv'
  OBVIOUS
<1>1. CASE Next
  <2>1. CASE Driver
    BY <2>1, RepartitionOnce, FileStepsOnce DEF Driver
  <2>2. CASE WriteFails
    BY <2>2, FileStepsOnce
  <2>3. ASSUME NEW a \in Actor, Work(a) PROVE OnceInv'
    BY <2>3, LoadKeepsBlock, BeginCallKeepsBlock, GenerateKeepsBlock, EndCallKeepsBlock,
       OnceStays, TakeBlockOnce, EndBlockOnce DEF Work
  <2>4. ASSUME NEW a \in Actor, Die(a) PROVE OnceInv'
    BY <2>4, DieOnce
  <2> QED  BY <1>1, <2>1, <2>2, <2>3, <2>4 DEF Next
<1>2. CASE UNCHANGED vars
  BY <1>2, Zenon DEF vars, OnceInv, Apart, OutOnce, ToCome
<1> QED  BY <1>1, <1>2

\* Once all blocks are through, the output has one row for each prompt of the input.
LEMMA AllOutOnce ==
  ASSUME PipeInv, OnceInv, phase \in {"write", "done"}
  PROVE  /\ Len(output) = total
         /\ {output[i].id : i \in DOMAIN output} = 1..total
<1> DEFINE m == Len(output)
           f == [i \in 1..m |-> output[i].id]
<1>1. output \in Seq(Row) /\ total \in Prompt
  BY DEF PipeInv, Typed
<1>2. m \in Nat /\ DOMAIN output = 1..m /\ total \in Nat
  BY <1>1, PipelineAssumption DEF Prompt
<1>3. /\ \A i, j \in 1..m : output[i].id = output[j].id => i = j
      /\ \A i \in 1..m : output[i].id \in 1..total
  BY Zenon DEF OnceInv, OutOnce
<1>4. ASSUME NEW p \in 1..total PROVE \E i \in 1..m : output[i].id = p
  <2>1. PICK b \in Blocks : \E i \in 1..Len(b) : b[i] = p
    BY <1>1, CutsShareOut DEF Blocks
  <2>2. PICK i \in 1..Len(b) : b[i] = p
    BY <2>1
  <2>3. b \in Seq(Prompt)
    BY <1>1, BlockShape DEF Blocks
  <2>4. PlacedIn(output, b)
    <3>1. ~Queued(b) /\ ~Held(b)
      BY EmptySeq DEF PipeInv, AllThrough, Queued, Held
    <3> QED  BY <3>1 DEF PipeInv, BlocksOK
  <2>5. PICK k \in 0..(m - Len(b)) : \A h \in 1..Len(b) : output[k + h].id = b[h]
    BY <2>4 DEF PlacedIn
  <2>6. k + i \in 1..m
    <3> DEFINE n == Len(b)
    <3>1. n \in Nat /\ m \in Nat /\ i \in 1..n /\ k \in 0..(m - n)
      BY <1>2, <2>3
    <3> HIDE DEF n, m
    <3> QED  BY <3>1
  <2> QED  BY <2>2, <2>5, <2>6, Zenon
<1>5. ExistsBijection(1..m, 1..total)
  <2>1. f \in [1..m -> 1..total] /\ \A i \in 1..m : f[i] = output[i].id
    BY <1>3, Zenon
  <2> HIDE DEF f, m
  <2>2. f \in Injection(1..m, 1..total)
    BY <1>3, <2>1, Zenon DEF Injection, IsInjective
  <2>3. f \in Surjection(1..m, 1..total)
    BY <1>4, <2>1, Zenon DEF Surjection
  <2> QED  BY <2>2, <2>3, Zenon DEF ExistsBijection, Bijection
<1>6. m = total
  <2>1. Cardinality(1..total) = m
    BY <1>2, <1>5, FS_CountingElements
  <2>2. Cardinality(1..total) = total
    BY <1>2, FS_Interval
  <2> QED  BY <2>1, <2>2
<1>7. {output[i].id : i \in 1..m} = 1..total
  <2>1. {output[i].id : i \in 1..m} \subseteq 1..total
    BY <1>3
  <2>2. ASSUME NEW p \in 1..total PROVE p \in {output[i].id : i \in 1..m}
    BY <1>4
  <2> QED  BY <2>1, <2>2
<1> QED  BY <1>2, <1>6, <1>7

LEMMA OnceInductive == Spec => [](PipeInv /\ OnceInv)
<1>1. Init => PipeInv /\ OnceInv
  BY PipeInvInit, OnceInit
<1>2. (PipeInv /\ OnceInv) /\ [Next]_vars => (PipeInv /\ OnceInv)'
  BY PipeInvNext, OnceNext
<1> QED  BY <1>1, <1>2, PTL DEF Spec

\* The file has exactly one row for every prompt of the input, for any number of
\* prompts, actors and losses and any sizes of blocks and calls.
THEOREM EachPromptAlwaysOnce == Spec => []EachPromptOnce
<1>1. PipeInv /\ OnceInv => EachPromptOnce
  BY AllOutOnce DEF PipeInv, EachPromptOnce
<1> QED  BY <1>1, OnceInductive, PTL

-----------------------------------------------------------------------------
(***************************************************************************)
(* The pipeline implements the job's staging steps.  FileYet says what the  *)
(* file is before it is written; the rest is that the rows of the output,   *)
(* told apart by their errors, are as many as the prompts.                  *)
(***************************************************************************)
FileYet ==
  /\ phase \in {"read", "map"} => file = [state |-> "absent", rows |-> <<>>]
  /\ phase = "write" => file = [state |-> "torn", rows |-> <<>>]

LEMMA FileYetStep == FileYet /\ [Next]_vars => FileYet'
<1> SUFFICES ASSUME FileYet, [Next]_vars PROVE FileYet'
  OBVIOUS
<1> USE DEF FileYet
<1>1. CASE Repartition \/ OpenFile \/ WriteFile \/ WriteFails
  BY <1>1 DEF Repartition, OpenFile, WriteFile, WriteFails
<1>2. ASSUME NEW a \in Actor, Work(a) \/ Die(a)
      PROVE  FileYet'
  <2>1. phase = "map" /\ phase' \in {"map", "raised"} /\ file' = file
    BY <1>2 DEF Work, Load, TakeBlock, BeginCall, Generate, EndCall, EndBlock, Die, Trans
  <2> QED  BY <2>1
<1>3. CASE UNCHANGED vars
  BY <1>3 DEF vars
<1> QED  BY <1>1, <1>2, <1>3 DEF Next, Driver

\* Every row carries an error or carries none.
LEMMA RowsShared ==
  ASSUME NEW rows \in Seq(Row)
  PROVE  \E o \in 0..Len(rows) : /\ Cardinality(RowsWith(rows, FALSE)) = o
                                 /\ Cardinality(RowsWith(rows, TRUE)) = Len(rows) - o
<1> DEFINE With(e) == RowsWith(rows, e)
           m == Len(rows)
<1>1. m \in Nat /\ DOMAIN rows = 1..m /\ \A i \in 1..m : rows[i].error \in BOOLEAN
  <2>1. \A r \in Row : r.error \in BOOLEAN
    BY DEF Row
  <2>2. \A i \in 1..m : rows[i] \in Row
    BY ElementOfSeq
  <2> QED  BY <2>1, <2>2
<1>2. IsFiniteSet(1..m) /\ Cardinality(1..m) = m
  <2>1. m \in Nat
    BY <1>1
  <2> HIDE DEF m
  <2>2. IsFiniteSet(1..m) /\ Cardinality(1..m) = IF 1 > m THEN 0 ELSE m - 1 + 1
    BY <2>1, FS_Interval
  <2> QED  BY <2>1, <2>2
<1>3. /\ With(FALSE) \in SUBSET (1..m) /\ With(TRUE) \in SUBSET (1..m)
      /\ With(FALSE) \cup With(TRUE) = 1..m /\ With(FALSE) \cap With(TRUE) = {}
  BY <1>1 DEF RowsWith
<1> HIDE DEF With, m
<1>4. IsFiniteSet(With(FALSE)) /\ IsFiniteSet(With(TRUE))
  BY <1>2, <1>3, FS_Subset
<1>5. PICK o \in Nat, e \in Nat : Cardinality(With(FALSE)) = o /\ Cardinality(With(TRUE)) = e
  BY <1>4, FS_CardinalityType
<1>6. m = o + e - 0
  BY <1>2, <1>3, <1>4, <1>5, FS_Union, FS_EmptySet
<1>7. o \in 0..m /\ e = m - o
  BY <1>1, <1>6
<1> QED  BY <1>5, <1>7, Zenon DEF With, m

\* What the job sees of a file that has been opened.
LEMMA OpenedSeen ==
  StagedFiles([state |-> "torn", rows |-> <<>>]) = {Job!Torn(1)}
<1> DEFINE f == [state |-> "torn", rows |-> <<>>]
<1>1. RowsWith(f.rows, FALSE) = {} /\ RowsWith(f.rows, TRUE) = {}
  BY EmptySeq DEF RowsWith
<1> QED  BY <1>1, FS_EmptySet DEF StagedFiles, Job!Torn

\* What the job does not see.
LEMMA UnseenStep ==
  ASSUME total' = total, file' = file, PcOf[phase'] = PcOf[phase]
  PROVE  UNCHANGED Job!inferVars
BY DEF Job!inferVars

LEMMA OpenIsTheJobs ==
  ASSUME FileYet, OpenFile
  PROVE  Job!OpenStaged("batch")
<1>1. /\ phase = "map" /\ phase' = "write" /\ total' = total
      /\ file = [state |-> "absent", rows |-> <<>>]
      /\ file' = [state |-> "torn", rows |-> <<>>]
  BY DEF OpenFile, FileYet
<1>2. StagedFiles(file) = {} /\ StagedFiles(file') = {Job!Torn(1)}
  BY <1>1, OpenedSeen DEF StagedFiles
<1> QED  BY <1>1, <1>2, Zenon DEF Job!OpenStaged, Job!Goto, PcOf

LEMMA WriteIsTheJobs ==
  ASSUME PipeInv, OnceInv, FileYet, WriteFile
  PROVE  Job!WriteStaged("batch")
<1>1. /\ phase = "write" /\ phase' = "done" /\ total' = total
      /\ file = [state |-> "torn", rows |-> <<>>]
      /\ file' = [state |-> "whole", rows |-> output]
  BY DEF WriteFile, FileYet
<1>2. output \in Seq(Row) /\ Len(output) = total
  BY <1>1, AllOutOnce DEF PipeInv, Typed
<1>3. PICK o \in 0..total : /\ Cardinality(RowsWith(output, FALSE)) = o
                            /\ Cardinality(RowsWith(output, TRUE)) = total - o
  BY <1>2, RowsShared
<1>4. StagedFiles(file) = {Job!Torn(1)} /\ StagedFiles(file') = {Job!Whole(1, o, total - o)}
  BY <1>1, <1>3, OpenedSeen DEF StagedFiles, Job!Whole
<1>5. Job!Goto("batch", "write", "promote")
  BY <1>1 DEF Job!Goto, PcOf
<1> DEFINE Disk(staged) ==
      [b \in {"batch"} |-> [input |-> total, staging |-> staged, results |-> NoFile,
                           success |-> NoFile, failure |-> NoFile]]
<1>6. \A s, t : [Disk(s) EXCEPT !["batch"].staging = t] = Disk(t)
  OBVIOUS
<1>7. /\ Disk(StagedFiles(file))["batch"].input = total
      /\ Disk(StagedFiles(file))["batch"].staging = {Job!Torn(1)}
  BY <1>4
<1>8. Disk(StagedFiles(file))' = Disk(StagedFiles(file'))
  BY <1>1
<1>9. Job!Growing("batch") = {Job!Torn(1)}
  BY <1>7 DEF Job!Growing, Job!IsTorn, Job!Torn
<1>10. Job!GrowsInto("batch", Job!Whole(1, o, total - o))
  <2>1. ({Job!Torn(1)} \ {Job!Torn(1)}) \cup {Job!Whole(1, o, total - o)} = StagedFiles(file')
    BY <1>4, Zenon
  <2> HIDE DEF Disk
  <2>2. Disk(StagedFiles(file))' = [Disk(StagedFiles(file)) EXCEPT !["batch"].staging =
          (Disk(StagedFiles(file))["batch"].staging \ Job!Growing("batch"))
            \cup {Job!Whole(1, o, total - o)}]
    BY <1>6, <1>7, <1>8, <1>9, <2>1
  <2> QED  BY <1>7, <2>2 DEF Job!GrowsInto, Disk
<1>11. /\ Job!Torn(1) \in Job!Growing("batch")
       /\ Job!Torn(1).run = 1 /\ Job!Torn(1).ok = 0 /\ Job!Torn(1).err = 0
  BY <1>9 DEF Job!Torn
<1>12. \E f \in Job!Growing("batch") :
         \E n \in f.ok..(Disk(StagedFiles(file))["batch"].input - f.err) :
           Job!GrowsInto("batch", Job!Whole(f.run, n,
                                    Disk(StagedFiles(file))["batch"].input - n))
  <2>1. total \in Nat /\ o \in 0..(total - 0)
    BY PipelineAssumption DEF PipeInv, Typed, Prompt
  <2> HIDE DEF Disk
  <2> QED  BY <1>7, <1>10, <1>11, <2>1
<1> QED  BY <1>5, <1>12, Zenon DEF Job!WriteStaged

\* The dataset raises, or the write does: the job's driver is in the try block.
LEMMA RaiseIsTheJobs ==
  ASSUME phase \in {"map", "write"}, phase' = "raised", total' = total, file' = file
  PROVE  Job!Raise("batch")
BY DEF Job!Raise, Job!InTry, Job!Running, PcOf

LEMMA StagesStep ==
  ASSUME PipeInv, OnceInv, FileYet, [Next]_vars
  PROVE  [Job!InferNext]_(Job!inferVars)
<1>1. CASE UNCHANGED vars
  BY <1>1, UnseenStep DEF vars
<1>2. CASE Repartition
  BY <1>2, UnseenStep DEF Repartition, PcOf
<1>3. CASE OpenFile
  BY <1>3, OpenIsTheJobs DEF Job!InferNext, Job!DriverStep
<1>4. CASE WriteFile
  BY <1>4, WriteIsTheJobs DEF Job!InferNext, Job!DriverStep
<1>5. CASE WriteFails
  BY <1>5, RaiseIsTheJobs DEF WriteFails, Job!InferNext
<1>6. ASSUME NEW a \in Actor, Work(a) \/ Die(a)
      PROVE  [Job!InferNext]_(Job!inferVars)
  <2>1. /\ phase = "map" /\ phase' \in {"map", "raised"}
        /\ total' = total /\ file' = file
    BY <1>6 DEF Work, Load, TakeBlock, BeginCall, Generate, EndCall, EndBlock, Die, Trans
  <2>2. CASE phase' = "map"
    BY <2>1, <2>2, UnseenStep
  <2>3. CASE phase' = "raised"
    BY <2>1, <2>3, RaiseIsTheJobs DEF Job!InferNext
  <2> QED  BY <2>1, <2>2, <2>3
<1> QED  BY <1>1, <1>2, <1>3, <1>4, <1>5, <1>6 DEF Next, Driver

\* Whatever the blocks, actors and retries do, the job's driver opens one file and
\* leaves in it a row for each prompt, with an answer or with an error, or raises:
\* BatchInfer's OpenStaged and WriteStaged stand for the whole pipeline.
THEOREM StagesAsTheJobAlways == Spec => StagesAsTheJob
<1>1. Init => FileYet
  BY DEF Init, FileYet
<1>2. FileYet /\ [Next]_vars => FileYet'
  BY FileYetStep
<1>3. PipeInv /\ OnceInv /\ FileYet /\ [Next]_vars => [Job!InferNext]_(Job!inferVars)
  BY StagesStep
<1> QED  BY <1>1, <1>2, <1>3, OnceInductive, PTL DEF Spec, StagesAsTheJob

=============================================================================
