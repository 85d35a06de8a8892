------------------------------ MODULE Pdu_proofs ------------------------------
(***************************************************************************)
(* For every package of shapes, every depth of nesting, every value that   *)
(* has its type and any damage done to the message: what the run checks of *)
(* Pdu holds.  In turn: what the operators on results and sequences of     *)
(* results are; that a reader makes of the code of each kind of type what  *)
(* a writer put there, and notices where it is cut; the same for values in *)
(* values, by induction on the calls that may be nested; the invariant;    *)
(* that every decoder keeps inside its input, whatever is there; and what  *)
(* becomes of a value that is accepted and sent again.                     *)
(***************************************************************************)
EXTENDS Pdu, TLAPS, SequenceTheorems, WellFoundedInduction

-----------------------------------------------------------------------------
(* Induction, for a set of numbers, and up to a number. *)
LEMMA Induction ==
  ASSUME NEW S, 0 \in S, \A n \in Nat : n \in S => n + 1 \in S
  PROVE  Nat \subseteq S
<1> DEFINE T == Nat \ S
<1> SUFFICES ASSUME T # {} PROVE FALSE
  OBVIOUS
<1>1. PICK x \in T : \A y \in T : ~(<<y, x>> \in OpToRel(<, Nat))
  <2>1. T \subseteq Nat
    OBVIOUS
  <2> HIDE DEF T
  <2> QED BY <2>1, WFMin, NatLessThanWellFounded
<1>2. x \in Nat /\ x # 0
  OBVIOUS
<1>3. x - 1 \in Nat /\ x - 1 < x /\ (x - 1) + 1 = x
  BY <1>2
<1>4. x - 1 \in T
  BY <1>2, <1>3
<1>5. <<x - 1, x>> \in OpToRel(<, Nat)
  BY <1>2, <1>3 DEF OpToRel
<1> QED BY <1>1, <1>4, <1>5

LEMMA InductionTo ==
  ASSUME NEW N \in Nat, NEW S, 0 \in S, \A n \in Nat : n < N /\ n \in S => n + 1 \in S
  PROVE  \A n \in 0 .. N : n \in S
<1> DEFINE T == {n \in Nat : n <= N => n \in S}
<1>1. 0 \in T
  OBVIOUS
<1>2. \A n \in Nat : n \in T => n + 1 \in T
  OBVIOUS
<1> HIDE DEF T
<1>3. Nat \subseteq T
  BY <1>1, <1>2, Induction
<1> QED BY <1>3 DEF T

-----------------------------------------------------------------------------
(* Sequences: of any elements. *)
IsRow(n, f) == f = [k \in 1 .. n |-> f[k]]

LEMMA SequenceOf ==
  ASSUME NEW n \in Nat, NEW f, IsRow(n, f)
  PROVE  IsSequence(f) /\ Len(f) = n /\ DOMAIN f = 1 .. n
<1> DEFINE X == {f[k] : k \in 1 .. n}
<1>1. f \in [1 .. n -> X]
  BY DEF IsRow
<1>2. f \in Seq(X) /\ DOMAIN f = 1 .. n
  BY <1>1
<1>3. Len(f) = n
  BY <1>2
<1> QED BY <1>2, <1>3 DEF IsSequence

LEMMA InSeq ==
  ASSUME NEW s, IsSequence(s), NEW X, \A k \in 1 .. Len(s) : s[k] \in X
  PROVE  s \in Seq(X)
<1>1. s \in [1 .. Len(s) -> X] /\ Len(s) \in Nat
  BY DEF IsSequence
<1> QED BY <1>1

LEMMA FromSeq ==
  ASSUME NEW X, NEW s \in Seq(X)
  PROVE  IsSequence(s)
<1>1. Len(s) \in Nat /\ s \in [1 .. Len(s) -> X]
  OBVIOUS
<1> QED BY <1>1 DEF IsSequence

LEMMA DomainOf ==
  ASSUME NEW s, IsSequence(s)
  PROVE  Len(s) \in Nat /\ DOMAIN s = 1 .. Len(s)
BY DEF IsSequence

LEMMA Joined ==
  ASSUME NEW s, NEW t, IsSequence(s), IsSequence(t)
  PROVE  /\ IsSequence(s \o t)
         /\ Len(s \o t) = Len(s) + Len(t)
         /\ \A k \in 1 .. Len(s) : (s \o t)[k] = s[k]
         /\ \A k \in 1 .. Len(t) : (s \o t)[Len(s) + k] = t[k]
<1> DEFINE X == {s[k] : k \in 1 .. Len(s)} \union {t[k] : k \in 1 .. Len(t)}
<1>1. s \in Seq(X) /\ t \in Seq(X)
  <2>1. (\A k \in 1 .. Len(s) : s[k] \in X) /\ (\A k \in 1 .. Len(t) : t[k] \in X)
    OBVIOUS
  <2> HIDE DEF X
  <2> QED BY <2>1, InSeq
<1> HIDE DEF X
<1>2. s \o t \in Seq(X) /\ Len(s \o t) = Len(s) + Len(t)
  BY <1>1
<1>3. IsSequence(s \o t)
  BY <1>2, FromSeq
<1> QED BY <1>1, <1>2, <1>3

LEMMA EmptySequence == IsSequence(<<>>) /\ Len(<<>>) = 0
BY DEF IsSequence

LEMMA SingleSequence ==
  ASSUME NEW x
  PROVE  IsSequence(<<x>>) /\ Len(<<x>>) = 1 /\ <<x>>[1] = x
BY DEF IsSequence

-----------------------------------------------------------------------------
(* What is joined from the front: FlattenSeq, and the results of Each.     *)
AreJoined(g, n, f) ==
  /\ g[0] = <<>> /\ g[n] = FlattenSeq(f)
  /\ \A k \in 0 .. n : IsSequence(g[k])
  /\ \A k \in 1 .. n : g[k] = g[k - 1] \o f[k]

LEMMA Flattened ==
  ASSUME NEW n \in Nat, NEW f, IsRow(n, f), \A k \in 1 .. n : IsSequence(f[k])
  PROVE  \E g : AreJoined(g, n, f)
<1>0. Len(f) = n
  BY SequenceOf
<1> DEFINE up(m, g) == [k \in 1 .. m |-> IF k = 1 THEN f[k] ELSE g[k - 1] \o f[k]]
           S == {m \in Nat : \E g : g = up(m, g)}
<1>1. 0 \in S
  <2> DEFINE e == [k \in 1 .. 0 |-> f[k]]
  <2>1. e = up(0, e)
    OBVIOUS
  <2> QED BY <2>1
<1>2. ASSUME NEW m \in Nat, m \in S
      PROVE  m + 1 \in S
  <2>1. PICK u : u = up(m, u)
    BY <1>2
  <2> DEFINE h == up(m + 1, u)
  <2>2. ASSUME NEW k \in 1 .. m + 1, k # 1
        PROVE  h[k - 1] = u[k - 1]
    <3>1. k - 1 \in 1 .. m /\ k - 1 \in 1 .. m + 1
      BY <2>2
    <3>2. u[k - 1] = IF k - 1 = 1 THEN f[k - 1] ELSE u[(k - 1) - 1] \o f[k - 1]
      BY <2>1, <3>1
    <3> QED BY <3>1, <3>2
  <2>3. h = up(m + 1, h)
    BY <2>2
  <2>4. \E g : g = up(m + 1, g)
    <3> HIDE DEF h
    <3> QED BY <2>3
  <2> HIDE DEF up
  <2> QED BY <2>4
<1>3. \E g : g = up(n, g)
  <2>1. Nat \subseteq S
    <3> HIDE DEF S
    <3> QED BY <1>1, <1>2, Induction
  <2> QED BY <2>1
<1> DEFINE flat == CHOOSE g : g = up(n, g)
           g == [k \in 0 .. n |-> IF k = 0 THEN <<>> ELSE flat[k]]
<1>4. flat = up(n, flat)
  <2> HIDE DEF up
  <2> QED BY <1>3
<1>5. n # 0 => FlattenSeq(f) = flat[n]
  BY <1>0 DEF FlattenSeq
<1>6. n = 0 => FlattenSeq(f) = <<>>
  BY <1>0 DEF FlattenSeq
<1> HIDE DEF flat
<1>7. \A k \in 1 .. n : flat[k] = IF k = 1 THEN f[k] ELSE flat[k - 1] \o f[k]
  BY <1>4
<1> HIDE DEF up
<1>8. \A k \in 1 .. n : g[k] = g[k - 1] \o f[k]
  <2> SUFFICES ASSUME NEW k \in 1 .. n
               PROVE  g[k] = g[k - 1] \o f[k]
    OBVIOUS
  <2>0. k \in 0 .. n /\ k - 1 \in 0 .. n /\ g[k] = flat[k] /\ (k # 1 => g[k - 1] = flat[k - 1])
    OBVIOUS
  <2>9. g[0] = <<>>
    OBVIOUS
  <2>8. flat[k] = IF k = 1 THEN f[k] ELSE flat[k - 1] \o f[k]
    BY <1>7
  <2> HIDE DEF g
  <2>1. CASE k = 1
    <3>1. f[1] \in Seq({f[1][j] : j \in 1 .. Len(f[1])})
      BY <2>1, InSeq
    <3>2. <<>> \o f[1] = f[1]
      BY <3>1
    <3>3. g[k - 1] = <<>>
      BY <2>1, <2>9
    <3>4. g[k] = f[1] /\ f[k] = f[1]
      BY <2>0, <2>1, <2>8
    <3> HIDE DEF g
    <3> QED BY <3>2, <3>3, <3>4, Zenon
  <2>2. CASE k # 1
    BY <2>0, <2>2, <2>8
  <2> QED BY <2>1, <2>2
<1>9. g[0] = <<>> /\ g[n] = FlattenSeq(f)
  BY <1>5, <1>6
<1> HIDE DEF g
<1>10. \A k \in 0 .. n : IsSequence(g[k])
  <2> DEFINE I == {k \in Nat : IsSequence(g[k])}
  <2>1. 0 \in I
    BY <1>9, EmptySequence
  <2>2. \A k \in Nat : k < n /\ k \in I => k + 1 \in I
    <3> SUFFICES ASSUME NEW k \in Nat, k < n, IsSequence(g[k])
                 PROVE  IsSequence(g[k + 1])
      OBVIOUS
    <3>1. k + 1 \in 1 .. n /\ (k + 1) - 1 = k
      OBVIOUS
    <3>2. g[k + 1] = g[k] \o f[k + 1]
      BY <3>1, <1>8
    <3> QED BY <3>1, <3>2, Joined
  <2> HIDE DEF I
  <2>3. \A k \in 0 .. n : k \in I
    BY <2>1, <2>2, InductionTo
  <2> QED BY <2>3 DEF I
<1>11. AreJoined(g, n, f)
  BY <1>8, <1>9, <1>10 DEF AreJoined
<1> QED BY <1>11

LEMMA Appended ==
  ASSUME NEW k \in Nat, NEW values
  PROVE  Append([j \in 1 .. k |-> values[j]], values[k + 1]) = [j \in 1 .. k + 1 |-> values[j]]
<1> DEFINE s == [j \in 1 .. k |-> values[j]]
           X == {values[j] : j \in 1 .. k + 1}
<1>1. s \in Seq(X) /\ Len(s) = k /\ values[k + 1] \in X
  <2>1. s \in [1 .. k -> X] /\ k + 1 \in 1 .. k + 1
    OBVIOUS
  <2>2. IsRow(k, s)
    BY DEF IsRow
  <2>3. Len(s) = k
    <3> HIDE DEF s
    <3> QED BY <2>2, SequenceOf
  <2> QED BY <2>1, <2>3
<1>2. \A j \in 1 .. k : s[j] = values[j]
  OBVIOUS
<1> HIDE DEF s, X
<1>3. /\ Append(s, values[k + 1]) \in Seq(X) /\ Len(Append(s, values[k + 1])) = k + 1
      /\ \A j \in 1 .. k : Append(s, values[k + 1])[j] = s[j]
      /\ Append(s, values[k + 1])[k + 1] = values[k + 1]
  BY <1>1
<1>4. Append(s, values[k + 1]) = [j \in 1 .. k + 1 |-> Append(s, values[k + 1])[j]]
  BY <1>3, FromSeq DEF IsSequence
<1>5. \A j \in 1 .. k + 1 : Append(s, values[k + 1])[j] = values[j]
  BY <1>2, <1>3
<1>6. Append(s, values[k + 1]) = [j \in 1 .. k + 1 |-> values[j]]
  BY <1>4, <1>5
<1> QED BY <1>6 DEF s

(* What an encoder returns, and the code of some results together. *)
IsResult(r) == r.ok \in BOOLEAN /\ IsSequence(r.bits)
AreResults(n, results) == IsRow(n, results) /\ \A k \in 1 .. n : IsResult(results[k])

LEMMA OneResult ==
  ASSUME NEW kind, NEW x
  PROVE  /\ IsResult(One(kind, x)) /\ One(kind, x).ok
         /\ One(kind, x).bits = <<Token(kind, x)>> /\ Len(One(kind, x).bits) = 1
BY SingleSequence DEF IsResult, One, Encoded

LEMMA NothingResult == IsResult(Nothing) /\ Nothing.ok /\ Nothing.bits = <<>> /\ Len(Nothing.bits) = 0
BY EmptySequence DEF IsResult, Nothing, Encoded

LEMMA RefusedResult == IsResult(Refused) /\ ~Refused.ok
BY EmptySequence DEF IsResult, Refused

LEMMA BothResult ==
  ASSUME NEW r, NEW s, IsResult(r), IsResult(s)
  PROVE  /\ IsResult(Both(r, s))
         /\ Both(r, s).ok <=> (r.ok /\ s.ok)
         /\ r.ok /\ s.ok => Both(r, s).bits = r.bits \o s.bits
BY RefusedResult, Joined DEF IsResult, Both, Encoded, Refused

LEMMA EachResult ==
  ASSUME NEW n \in Nat, NEW results, AreResults(n, results)
  PROVE  /\ IsResult(Each(results))
         /\ Each(results).ok <=> (\A k \in 1 .. n : results[k].ok)
         /\ (\A k \in 1 .. n : results[k].ok) =>
              Each(results).bits = FlattenSeq([k \in 1 .. n |-> results[k].bits])
<1>1. DOMAIN results = 1 .. n
  BY DEF AreResults, IsRow
<1> DEFINE f == [k \in 1 .. n |-> results[k].bits]
<1>2. IsSequence(FlattenSeq(f))
  <2>1. IsRow(n, f) /\ \A k \in 1 .. n : IsSequence(f[k])
    BY DEF AreResults, IsRow, IsResult
  <2> HIDE DEF f
  <2>2. PICK g : AreJoined(g, n, f)
    BY <2>1, Flattened
  <2> QED BY <2>2 DEF AreJoined
<1>3. CASE \A k \in 1 .. n : results[k].ok
  <2>1. Each(results) = Encoded(FlattenSeq(f))
    BY <1>1, <1>3 DEF Each
  <2> HIDE DEF f
  <2>2. Each(results).ok = TRUE /\ Each(results).bits = FlattenSeq(f)
    BY <2>1 DEF Encoded
  <2> QED BY <1>2, <1>3, <2>2 DEF IsResult, f
<1>4. CASE ~ \A k \in 1 .. n : results[k].ok
  <2>1. Each(results) = Refused
    BY <1>1, <1>4 DEF Each
  <2> QED BY <1>4, <2>1, RefusedResult DEF Refused
<1> QED BY <1>3, <1>4

-----------------------------------------------------------------------------
(* tokens are, from p on and before end, those of some code; what a        *)
(* decoder makes of n tokens that stand for v.                             *)
Along(tokens, end, p, bits) == \A i \in 1 .. Len(bits) : p + i <= end => tokens[p + i] = bits[i]
Outcome(v, p, n, end) == IF p + n <= end THEN Decoded(v, p + n) ELSE Failed("eof")

LEMMA AlongJoined ==
  ASSUME NEW s, NEW t, IsSequence(s), IsSequence(t), NEW tokens, NEW end \in Nat, NEW p \in Nat,
         Along(tokens, end, p, s \o t)
  PROVE  Along(tokens, end, p, s) /\ Along(tokens, end, p + Len(s), t)
<1>1. Len(s) \in Nat /\ Len(t) \in Nat
  BY DomainOf
<1>2. \A i \in 1 .. Len(s) + Len(t) : p + i <= end => tokens[p + i] = (s \o t)[i]
  BY Joined DEF Along
<1>3. ASSUME NEW i \in 1 .. Len(s), p + i <= end
      PROVE  tokens[p + i] = s[i]
  BY <1>1, <1>2, <1>3, Joined
<1>4. ASSUME NEW i \in 1 .. Len(t), (p + Len(s)) + i <= end
      PROVE  tokens[(p + Len(s)) + i] = t[i]
  <2>1. Len(s) + i \in 1 .. Len(s) + Len(t) /\ p + (Len(s) + i) = (p + Len(s)) + i
    BY <1>1
  <2>2. p + (Len(s) + i) <= end
    BY <1>4, <2>1
  <2>3. tokens[p + (Len(s) + i)] = (s \o t)[Len(s) + i]
    BY <1>2, <2>1, <2>2
  <2>4. (s \o t)[Len(s) + i] = t[i]
    BY Joined
  <2> QED BY <2>1, <2>3, <2>4
<1> QED BY <1>3, <1>4 DEF Along

AreTaken(u, n, readers, p) ==
  /\ u[0] = Decoded(<<>>, p) /\ u[n] = TakeEach(readers, p)
  /\ \A k \in 1 .. n :
       u[k] = Then(u[k - 1], LAMBDA vs, q :
                Then(readers[k][q], LAMBDA v, used : Decoded(Append(vs, v), used)))

LEMMA TakeEachDefined ==
  ASSUME NEW n \in Nat, NEW readers, IsRow(n, readers), NEW p
  PROVE  \E u : AreTaken(u, n, readers, p)
<1>0. Len(readers) = n
  BY SequenceOf
<1> DEFINE next(k, r) == Then(r, LAMBDA vs, q :
                           Then(readers[k][q], LAMBDA v, used : Decoded(Append(vs, v), used)))
           up(m, g) == [k \in 0 .. m |-> IF k = 0 THEN Decoded(<<>>, p) ELSE next(k, g[k - 1])]
           S == {m \in Nat : \E g : g = up(m, g)}
<1> HIDE DEF next
<1>1. 0 \in S
  <2> DEFINE e == [k \in 0 .. 0 |-> Decoded(<<>>, p)]
  <2>1. e = up(0, e)
    OBVIOUS
  <2> QED BY <2>1
<1>2. ASSUME NEW m \in Nat, m \in S
      PROVE  m + 1 \in S
  <2>1. PICK g : g = up(m, g)
    BY <1>2
  <2> DEFINE h == up(m + 1, g)
  <2>2. ASSUME NEW k \in 0 .. m + 1, k # 0
        PROVE  h[k - 1] = g[k - 1]
    <3>1. k - 1 \in 0 .. m /\ k - 1 \in 0 .. m + 1
      BY <2>2
    <3>2. g[k - 1] = IF k - 1 = 0 THEN Decoded(<<>>, p) ELSE next(k - 1, g[(k - 1) - 1])
      BY <2>1, <3>1
    <3> QED BY <3>1, <3>2
  <2>3. h = up(m + 1, h)
    BY <2>2
  <2>4. \E f : f = up(m + 1, f)
    <3> HIDE DEF h
    <3> QED BY <2>3
  <2> HIDE DEF up
  <2> QED BY <2>4
<1>3. \E g : g = up(n, g)
  <2>1. Nat \subseteq S
    <3> HIDE DEF S
    <3> QED BY <1>1, <1>2, Induction
  <2> QED BY <2>1
<1> DEFINE upTo == CHOOSE g : g = up(n, g)
<1>4. upTo = up(n, upTo)
  BY <1>3
<1>5. TakeEach(readers, p) = upTo[n]
  BY <1>0 DEF TakeEach, next
<1> HIDE DEF upTo
<1>6. upTo[0] = Decoded(<<>>, p) /\ \A k \in 1 .. n : upTo[k] = next(k, upTo[k - 1])
  BY <1>4
<1>7. AreTaken(upTo, n, readers, p)
  BY <1>5, <1>6 DEF AreTaken, next
<1> QED BY <1>7

(* If each reader reads what the result in its place stands for, all of    *)
(* them read the results together.                                         *)
Reads(reader, tokens, end, bits, v) ==
  \A q \in Nat : q <= end /\ Along(tokens, end, q, bits) => reader[q] = Outcome(v, q, Len(bits), end)

ReadsEach(n, results, readers, values, tokens, end, p) ==
  /\ n \in Nat /\ AreResults(n, results) /\ \A k \in 1 .. n : results[k].ok
  /\ IsRow(n, readers) /\ IsRow(n, values)
  /\ end \in Nat /\ p \in Nat /\ p <= end
  /\ \A k \in 1 .. n : Reads(readers[k], tokens, end, results[k].bits, values[k])
  /\ Along(tokens, end, p, Each(results).bits)

LEMMA EachCarries ==
  ASSUME NEW n, NEW results, NEW readers, NEW values, NEW tokens, NEW end, NEW p,
         ReadsEach(n, results, readers, values, tokens, end, p)
  PROVE  TakeEach(readers, p) = Outcome(values, p, Len(Each(results).bits), end)
<1> SUFFICES ASSUME n \in Nat, AreResults(n, results), \A k \in 1 .. n : results[k].ok,
                    IsRow(n, readers), IsRow(n, values), end \in Nat, p \in Nat, p <= end,
                    \A k \in 1 .. n : Reads(readers[k], tokens, end, results[k].bits, values[k]),
                    Along(tokens, end, p, Each(results).bits)
             PROVE  TakeEach(readers, p) = Outcome(values, p, Len(Each(results).bits), end)
  BY DEF ReadsEach
<1> DEFINE f == [k \in 1 .. n |-> results[k].bits]
<1>1. IsRow(n, f) /\ \A k \in 1 .. n : IsSequence(f[k])
  BY DEF AreResults, IsRow, IsResult
<1>0. \A k \in 1 .. n : f[k] = results[k].bits
  OBVIOUS
<1>2. Each(results).bits = FlattenSeq(f)
  BY EachResult
<1> HIDE DEF f
<1>30. PICK g : AreJoined(g, n, f)
  BY <1>1, Flattened
<1>3. /\ g[0] = <<>> /\ g[n] = FlattenSeq(f)
      /\ \A k \in 0 .. n : IsSequence(g[k])
      /\ \A k \in 1 .. n : g[k] = g[k - 1] \o f[k]
  BY <1>30 DEF AreJoined
<1>40. PICK u : AreTaken(u, n, readers, p)
  BY TakeEachDefined
<1>4. /\ u[0] = Decoded(<<>>, p) /\ u[n] = TakeEach(readers, p)
      /\ \A k \in 1 .. n :
           u[k] = Then(u[k - 1], LAMBDA vs, q :
                    Then(readers[k][q], LAMBDA v, used : Decoded(Append(vs, v), used)))
  BY <1>40 DEF AreTaken, Then
<1>5. \A m \in 0 .. n : Along(tokens, end, p, g[n - m])
  <2> DEFINE I == {m \in Nat : Along(tokens, end, p, g[n - m])}
  <2>1. 0 \in I
    BY <1>2, <1>3
  <2>2. \A m \in Nat : m < n /\ m \in I => m + 1 \in I
    <3> SUFFICES ASSUME NEW m \in Nat, m < n, Along(tokens, end, p, g[n - m])
                 PROVE  Along(tokens, end, p, g[n - (m + 1)])
      OBVIOUS
    <3> DEFINE k == n - m
    <3>1. k \in 1 .. n /\ k - 1 \in 0 .. n /\ n - (m + 1) = k - 1
      OBVIOUS
    <3>2. Along(tokens, end, p, g[k])
      OBVIOUS
    <3> HIDE DEF k
    <3>3. g[k] = g[k - 1] \o f[k] /\ IsSequence(g[k - 1]) /\ IsSequence(f[k])
      BY <1>1, <1>3, <3>1
    <3>4. Along(tokens, end, p, g[k - 1] \o f[k])
      BY <3>2, <3>3
    <3> QED BY <3>1, <3>3, <3>4, AlongJoined
  <2> HIDE DEF I
  <2>3. \A m \in 0 .. n : m \in I
    BY <2>1, <2>2, InductionTo
  <2> QED BY <2>3 DEF I
<1>6. ASSUME NEW k \in 0 .. n
      PROVE  Along(tokens, end, p, g[k])
  <2>1. n - k \in 0 .. n /\ n - (n - k) = k
    OBVIOUS
  <2> QED BY <1>5, <2>1
<1> DEFINE so(k) == [j \in 1 .. k |-> values[j]]
           J == {k \in Nat : u[k] = Outcome(so(k), p, Len(g[k]), end)}
<1>7. 0 \in J
  <2>1. Len(g[0]) = 0 /\ p + 0 = p
    BY <1>3, EmptySequence
  <2>2. so(0) = <<>>
    OBVIOUS
  <2> HIDE DEF so
  <2> QED BY <1>4, <2>1, <2>2 DEF Outcome
<1>8. ASSUME NEW k \in Nat, k < n, k \in J
      PROVE  k + 1 \in J
  <2>0. u[k] = Outcome(so(k), p, Len(g[k]), end)
    BY <1>8
  <2> SUFFICES u[k + 1] = Outcome(so(k + 1), p, Len(g[k + 1]), end)
    <3> HIDE DEF so
    <3> QED OBVIOUS
  <2>1. k + 1 \in 1 .. n /\ (k + 1) - 1 = k /\ k \in 0 .. n
    BY <1>8
  <2> DEFINE j == k + 1
             l == Len(g[k])
             q == p + l
             b == f[j]
  <2>2. g[j] = g[k] \o b /\ IsSequence(g[k]) /\ IsSequence(b) /\ b = results[j].bits
    BY <1>0, <1>1, <1>3, <2>1
  <2>3. Along(tokens, end, p, g[k] \o b)
    <3>1. j \in 0 .. n
      BY <2>1
    <3> QED BY <1>6, <2>2, <3>1
  <2>4. l \in Nat /\ Len(b) \in Nat /\ Len(g[j]) = l + Len(b) /\ Along(tokens, end, q, b)
    <3>1. l \in Nat /\ Len(b) \in Nat
      BY <2>2, DomainOf
    <3>2. Len(g[j]) = l + Len(b)
      BY <2>2, Joined
    <3> HIDE DEF b, j
    <3>3. Along(tokens, end, q, b)
      BY <2>2, <2>3, AlongJoined
    <3> QED BY <3>1, <3>2, <3>3
  <2>5. Append(so(k), values[j]) = so(j)
    BY Appended
  <2>6. u[j] = Then(u[k], LAMBDA vs, at :
                 Then(readers[j][at], LAMBDA v, used : Decoded(Append(vs, v), used)))
    BY <1>4, <2>1 DEF Then
  <2>7. Reads(readers[j], tokens, end, b, values[j])
    BY <2>1, <2>2
  <2>8. u[k] = Outcome(so(k), p, l, end)
    BY <2>0
  <2>9. p + (l + Len(b)) = q + Len(b) /\ q \in Nat
    <3>1. l \in Nat /\ Len(b) \in Nat /\ p \in Nat
      BY <2>4
    <3> HIDE DEF l, b
    <3> QED BY <3>1
  <2> HIDE DEF so, j, l, q, b
  <2>10. CASE q <= end
    <3>1. u[k] = Decoded(so(k), q)
      BY <2>8, <2>10 DEF Outcome, q
    <3>2. u[j] = Then(readers[j][q], LAMBDA v, used : Decoded(Append(so(k), v), used))
      BY <2>6, <3>1 DEF Then, Decoded
    <3>3. readers[j][q] = Outcome(values[j], q, Len(b), end)
      BY <2>4, <2>7, <2>9, <2>10 DEF Reads
    <3>4. CASE q + Len(b) <= end
      <4>1. readers[j][q] = Decoded(values[j], q + Len(b))
        BY <3>3, <3>4 DEF Outcome
      <4> DEFINE w == values[j]
      <4> HIDE DEF w
      <4>3. readers[j][q].status = "ok" /\ readers[j][q].value = w /\ readers[j][q].used = q + Len(b)
        BY <4>1 DEF Decoded, w
      <4>2. u[j] = Decoded(Append(so(k), w), q + Len(b))
        BY <3>2, <4>3 DEF Then
      <4> QED BY <2>4, <2>5, <2>9, <3>4, <4>2 DEF Outcome, j, w
    <3>5. CASE ~(q + Len(b) <= end)
      <4>1. readers[j][q] = Failed("eof")
        BY <3>3, <3>5 DEF Outcome
      <4>2. u[j] = Failed("eof")
        BY <3>2, <4>1 DEF Then, Failed
      <4> QED BY <2>4, <2>9, <3>5, <4>2 DEF Outcome, j
    <3> QED BY <3>4, <3>5
  <2>11. CASE ~(q <= end)
    <3>1. u[k] = Failed("eof")
      BY <2>8, <2>11 DEF Outcome, q
    <3>2. u[j] = Failed("eof")
      BY <2>6, <3>1 DEF Then, Failed
    <3>3. ~(p + (l + Len(b)) <= end)
      BY <2>4, <2>9, <2>11
    <3> QED BY <2>4, <3>2, <3>3 DEF Outcome, j
  <2> QED BY <2>10, <2>11
<1> HIDE DEF J
<1>9. n \in J
  BY <1>7, <1>8, InductionTo
<1>10. so(n) = values
  BY DEF IsRow
<1> HIDE DEF so
<1> QED BY <1>2, <1>3, <1>4, <1>9, <1>10 DEF J

-----------------------------------------------------------------------------
(* The calls of package uper read what they wrote.                         *)
LEMMA OutcomeMore ==
  ASSUME NEW v, NEW p \in Nat, NEW n \in Nat, NEW m \in Nat, NEW end \in Nat
  PROVE  /\ ~(p + n <= end) => Outcome(v, p, n + m, end) = Failed("eof")
         /\ Outcome(v, p + n, m, end) = Outcome(v, p, n + m, end)
<1>1. (p + n) + m = p + (n + m)
  OBVIOUS
<1> QED BY <1>1 DEF Outcome

LEMMA TakeCarries ==
  ASSUME NEW kind, NEW x, NEW tokens, NEW end \in Nat, NEW p \in Nat, p <= end,
         Along(tokens, end, p, <<Token(kind, x)>>)
  PROVE  Take(Input(tokens, end), p, kind) = Outcome(x, p, 1, end)
<1>1. CASE p < end
  <2>1. tokens[p + 1] = Token(kind, x)
    BY <1>1, SingleSequence DEF Along
  <2>2. tokens[p + 1].kind = kind /\ tokens[p + 1].x = x
    BY <2>1 DEF Token
  <2>3. p + 1 <= end /\ ~(p >= end)
    BY <1>1
  <2> QED BY <2>2, <2>3 DEF Take, Input, Outcome
<1>2. CASE p = end
  BY <1>2 DEF Take, Input, Outcome
<1> QED BY <1>1, <1>2

LEMMA ExtensionBitCarries ==
  ASSUME NEW t, t.extensible \in BOOLEAN, NEW x \in BOOLEAN, ~t.extensible => ~x,
         NEW tokens, NEW end \in Nat, NEW p \in Nat, p <= end,
         Along(tokens, end, p, ExtensionBit(t, x).bits)
  PROVE  /\ IsResult(ExtensionBit(t, x)) /\ ExtensionBit(t, x).ok
         /\ TakeExtensionBit(t, Input(tokens, end), p) = Outcome(x, p, Len(ExtensionBit(t, x).bits), end)
<1>1. CASE t.extensible
  <2>1. ExtensionBit(t, x) = One("bit", x)
    BY <1>1 DEF ExtensionBit
  <2>2. Take(Input(tokens, end), p, "bit") = Outcome(x, p, 1, end)
    BY <2>1, OneResult, TakeCarries
  <2> QED BY <1>1, <2>1, <2>2, OneResult DEF TakeExtensionBit
<1>2. CASE ~t.extensible
  <2>1. ExtensionBit(t, x) = Nothing /\ x = FALSE
    BY <1>2 DEF ExtensionBit
  <2>2. p + 0 <= end /\ p + 0 = p
    OBVIOUS
  <2> QED BY <1>2, <2>1, <2>2, NothingResult DEF TakeExtensionBit, Outcome
<1> QED BY <1>1, <1>2

LEMMA TakeAsCarries ==
  ASSUME NEW kind, NEW of, NEW x, NEW tokens, NEW end \in Nat, NEW p \in Nat, p <= end,
         Along(tokens, end, p, One(kind, [of |-> of, is |-> x]).bits)
  PROVE  TakeAs(Input(tokens, end), p, kind, of) = Outcome(x, p, 1, end)
<1> DEFINE y == [of |-> of, is |-> x]
<1>1. Take(Input(tokens, end), p, kind) = Outcome(y, p, 1, end)
  <2>1. Along(tokens, end, p, <<Token(kind, y)>>)
    BY OneResult
  <2> HIDE DEF y
  <2> QED BY <2>1, TakeCarries
<1>2. y.of = of /\ y.is = x
  OBVIOUS
<1> HIDE DEF y
<1> QED BY <1>1, <1>2 DEF TakeAs, Then, Outcome, Decoded, Failed

IndexCarried(n, k, tokens, end, p) ==
  /\ n \in Nat /\ k \in 1 .. n /\ end \in Nat /\ p \in Nat /\ p <= end
  /\ Along(tokens, end, p, Index(n, k).bits)

LEMMA IndexCarries ==
  ASSUME NEW n, NEW k, NEW tokens, NEW end, NEW p, IndexCarried(n, k, tokens, end, p)
  PROVE  TakeIndex(n, Input(tokens, end), p) = Outcome(k, p, Len(Index(n, k).bits), end)
<1> SUFFICES ASSUME n \in Nat, k \in 1 .. n, end \in Nat, p \in Nat, p <= end,
                    Along(tokens, end, p, Index(n, k).bits)
             PROVE  TakeIndex(n, Input(tokens, end), p) = Outcome(k, p, Len(Index(n, k).bits), end)
  BY DEF IndexCarried
<1>1. CASE n = 1
  <2>1. Index(n, k) = Nothing /\ k = 1
    BY <1>1 DEF Index
  <2>2. p + 0 <= end /\ p + 0 = p
    OBVIOUS
  <2> QED BY <1>1, <2>1, <2>2, NothingResult DEF TakeIndex, Outcome
<1>2. CASE n # 1
  <2>1. Index(n, k) = One("index", [of |-> n, is |-> k - 1])
    BY <1>2 DEF Index
  <2>2. TakeAs(Input(tokens, end), p, "index", n) = Outcome(k - 1, p, 1, end)
    BY <2>1, TakeAsCarries
  <2>3. k - 1 < n /\ (k - 1) + 1 = k
    OBVIOUS
  <2>4. Len(Index(n, k).bits) = 1
    BY <2>1, OneResult
  <2>5. TakeIndex(n, Input(tokens, end), p) = Outcome(k, p, 1, end)
    BY <1>2, <2>2, <2>3 DEF TakeIndex, Then, Outcome, Decoded, Failed
  <2> QED BY <2>4, <2>5
<1> QED BY <1>1, <1>2

LEMMA IndexResult ==
  ASSUME NEW n, NEW k
  PROVE  IsResult(Index(n, k)) /\ Index(n, k).ok
BY OneResult, NothingResult DEF Index

LEMMA OpenResult ==
  ASSUME NEW r, IsResult(r)
  PROVE  /\ IsResult(Open(r)) /\ (Open(r).ok <=> r.ok)
         /\ r.ok => /\ Open(r).bits = <<Token("open", Len(r.bits))>> \o r.bits
                    /\ Len(Open(r).bits) = 1 + Len(r.bits)
<1> DEFINE o == One("open", Len(r.bits))
<1>1. IsResult(o) /\ o.ok /\ o.bits = <<Token("open", Len(r.bits))>>
  BY OneResult
<1>2. Open(r) = Both(o, r)
  BY DEF Open
<1> HIDE DEF o
<1>3. IsResult(Open(r)) /\ (Open(r).ok <=> o.ok /\ r.ok) /\ (o.ok /\ r.ok => Open(r).bits = o.bits \o r.bits)
  <2>1. /\ IsResult(Both(o, r)) /\ (Both(o, r).ok <=> o.ok /\ r.ok)
        /\ (o.ok /\ r.ok => Both(o, r).bits = o.bits \o r.bits)
    BY <1>1, BothResult
  <2> QED BY <1>2, <2>1
<1>4. Len(<<Token("open", Len(r.bits))>> \o r.bits) = 1 + Len(r.bits)
  BY Joined, SingleSequence DEF IsResult
<1> QED BY <1>1, <1>3, <1>4 DEF IsResult

(* The tokens of an open type end where its length says. *)
LEMMA OpenCarries ==
  ASSUME NEW r, IsResult(r), r.ok, NEW tokens, NEW end \in Nat, NEW p \in Nat, p <= end,
         Along(tokens, end, p, Open(r).bits)
  PROVE  /\ TakeOpen(Input(tokens, end), p) = Outcome(p + 1, p, Len(Open(r).bits), end)
         /\ p + Len(Open(r).bits) <= end =>
              /\ p + 1 <= p + Len(Open(r).bits) /\ p + Len(Open(r).bits) \in Nat
              /\ (p + 1) + Len(r.bits) = p + Len(Open(r).bits)
              /\ Along(tokens, p + Len(Open(r).bits), p + 1, r.bits)
<1> DEFINE n == Len(r.bits)
           b == <<Token("open", n)>>
<1>1. n \in Nat /\ IsSequence(b) /\ Len(b) = 1 /\ IsSequence(r.bits)
  BY DomainOf, SingleSequence DEF IsResult
<1>2. Open(r).bits = b \o r.bits /\ Len(Open(r).bits) = 1 + n
  BY OpenResult
<1> HIDE DEF n
<1>3. Along(tokens, end, p, b) /\ Along(tokens, end, p + 1, r.bits)
  <2> HIDE DEF b
  <2>0. Along(tokens, end, p, b \o r.bits)
    BY <1>2
  <2>1. Along(tokens, end, p, b) /\ Along(tokens, end, p + Len(b), r.bits)
    BY <1>1, <2>0, AlongJoined
  <2> QED BY <1>1, <2>1
<1>4. Take(Input(tokens, end), p, "open") = Outcome(n, p, 1, end)
  BY <1>3, TakeCarries
<1>5. (p + 1) + n = p + (1 + n)
  BY <1>1
<1>6. Input(tokens, end).end = end
  BY DEF Input
<1>7. TakeOpen(Input(tokens, end), p) = Outcome(p + 1, p, 1 + n, end)
  <2>1. CASE p + 1 <= end
    <3>1. Take(Input(tokens, end), p, "open") = Decoded(n, p + 1)
      BY <1>4, <2>1 DEF Outcome
    <3>2. TakeOpen(Input(tokens, end), p) =
            IF (p + 1) + n > end THEN Failed("eof") ELSE Decoded(p + 1, (p + 1) + n)
      BY <1>6, <3>1 DEF TakeOpen, Then, Decoded
    <3> QED BY <1>1, <1>5, <3>2 DEF Outcome
  <2>2. CASE ~(p + 1 <= end)
    <3>1. Take(Input(tokens, end), p, "open") = Failed("eof")
      BY <1>4, <2>2 DEF Outcome
    <3>2. TakeOpen(Input(tokens, end), p) = Failed("eof")
      BY <3>1 DEF TakeOpen, Then, Failed
    <3>3. ~(p + (1 + n) <= end)
      BY <1>1, <2>2
    <3> QED BY <3>2, <3>3 DEF Outcome
  <2> QED BY <2>1, <2>2
<1>8. ASSUME p + (1 + n) <= end
      PROVE  Along(tokens, p + (1 + n), p + 1, r.bits)
  <2> SUFFICES ASSUME NEW i \in 1 .. n
               PROVE  tokens[(p + 1) + i] = r.bits[i]
    BY DEF Along, n
  <2>1. (p + 1) + i <= end
    BY <1>1, <1>8
  <2> QED BY <1>3, <2>1 DEF Along, n
<1>9. Len(Open(r).bits) = 1 + n /\ Len(r.bits) = n
  BY <1>2 DEF n
<1>10. p + 1 <= p + (1 + n) /\ p + (1 + n) \in Nat
  BY <1>1
<1> HIDE DEF b
<1> QED BY <1>5, <1>7, <1>8, <1>9, <1>10

-----------------------------------------------------------------------------
(* What the encoder returns for each kind of type: whether it refuses      *)
(* depends on what is inside.  A SEQUENCE first.                           *)
AllResults(inside, code) == \A y \in inside : IsResult(code[y])
AllOk(inside, code) == \A y \in inside : code[y].ok

IsStruct(t, v) ==
  /\ t.kind = "Sequence" /\ IsSequence(t.root) /\ IsSequence(t.more)
  /\ t.extensible \in BOOLEAN /\ (~t.extensible => t.more = <<>>)
  /\ \A k \in 1 .. Len(t.root) : t.root[k].optional \in BOOLEAN
  /\ AreHeld(t.root, v.root) /\ AreHeld(t.more, v.more)
  /\ \A k \in 1 .. Len(t.root) : t.root[k].optional \/ v.root[k] # None

LEMMA StructFacts ==
  ASSUME NEW package, NEW t, NEW v, IsShape(package, t), IsTyped(t, v), t.kind = "Sequence"
  PROVE  IsStruct(t, v) /\ v = Struct(v.root, v.more)
BY DomainOf DEF IsStruct, IsShape, IsTyped

LEMMA NoneSome == ASSUME NEW x PROVE None # Some(x) /\ Some(x)[1] = x
BY DEF None, Some

LEMMA HeldInside ==
  ASSUME NEW parts, NEW values, IsSequence(parts), AreHeld(parts, values)
  PROVE  Held(parts, values) =
           {<<parts[k].type, values[k][1]>> : k \in {j \in 1 .. Len(parts) : values[j] # None}}
<1>1. DOMAIN parts = 1 .. Len(parts) /\ DOMAIN values = 1 .. Len(parts)
  BY DomainOf DEF AreHeld
<1> QED BY <1>1 DEF Held

LEMMA SequenceInside ==
  ASSUME NEW types, NEW t, NEW v, IsStruct(t, v)
  PROVE  Inside(types, <<t, v>>) =
           {<<t.root[k].type, v.root[k][1]>> : k \in {j \in 1 .. Len(t.root) : v.root[j] # None}}
           \union {<<t.more[k].type, v.more[k][1]>> : k \in {j \in 1 .. Len(t.more) : v.more[j] # None}}
BY HeldInside DEF Inside, IsStruct

PreambleParts(t, v) ==
  [k \in 1 .. Len(t.root) |-> IF t.root[k].optional THEN One("bit", v.root[k] # None) ELSE Nothing]

LEMMA PreambleResult ==
  ASSUME NEW t, NEW v, IsStruct(t, v)
  PROVE  /\ AreResults(Len(t.root), PreambleParts(t, v)) /\ Len(t.root) \in Nat
         /\ \A k \in 1 .. Len(t.root) : PreambleParts(t, v)[k].ok
         /\ Preamble(t, v) = Each(PreambleParts(t, v))
         /\ IsResult(Preamble(t, v)) /\ Preamble(t, v).ok
<1>1. Len(t.root) \in Nat /\ DOMAIN t.root = 1 .. Len(t.root)
  BY DomainOf DEF IsStruct
<1>2. AreResults(Len(t.root), PreambleParts(t, v)) /\ \A k \in 1 .. Len(t.root) : PreambleParts(t, v)[k].ok
  BY OneResult, NothingResult DEF AreResults, IsRow, PreambleParts
<1>3. Preamble(t, v) = Each(PreambleParts(t, v))
  BY <1>1 DEF Preamble, PreambleParts
<1> QED BY <1>1, <1>2, <1>3, EachResult

FieldParts(t, v, code) ==
  [k \in 1 .. Len(t.root) |->
    IF v.root[k] = None THEN Nothing ELSE code[<<t.root[k].type, v.root[k][1]>>]]

LEMMA FieldsResult ==
  ASSUME NEW t, NEW v, IsStruct(t, v), NEW code, NEW types, AllResults(Inside(types, <<t, v>>), code)
  PROVE  /\ AreResults(Len(t.root), FieldParts(t, v, code)) /\ Len(t.root) \in Nat
         /\ Fields(t, v, code) = Each(FieldParts(t, v, code))
         /\ IsResult(Fields(t, v, code))
         /\ Fields(t, v, code).ok <=> \A k \in 1 .. Len(t.root) : FieldParts(t, v, code)[k].ok
<1>1. Len(t.root) \in Nat /\ DOMAIN t.root = 1 .. Len(t.root)
  BY DomainOf DEF IsStruct
<1>2. ASSUME NEW k \in 1 .. Len(t.root), v.root[k] # None
      PROVE  IsResult(code[<<t.root[k].type, v.root[k][1]>>])
  BY <1>2, SequenceInside DEF AllResults
<1>3. AreResults(Len(t.root), FieldParts(t, v, code))
  BY <1>2, NothingResult DEF AreResults, IsRow, FieldParts
<1>4. Fields(t, v, code) = Each(FieldParts(t, v, code))
  BY <1>1 DEF Fields, FieldParts
<1> QED BY <1>1, <1>3, <1>4, EachResult

(* A set of numbers up to n, if there is one in it, has a greatest. *)
LEMMA Greatest ==
  ASSUME NEW n \in Nat, NEW S, S \subseteq 1 .. n, S # {}
  PROVE  \E m \in S : \A k \in S : k <= m
<1> DEFINE I == {i \in Nat : (\E k \in S : k <= i) => \E m \in S : m <= i /\ \A k \in S : k <= i => k <= m}
<1>1. 0 \in I
  OBVIOUS
<1>2. \A i \in Nat : i \in I => i + 1 \in I
  <2> SUFFICES ASSUME NEW i \in Nat, i \in I, \E k \in S : k <= i + 1
               PROVE  \E m \in S : m <= i + 1 /\ \A k \in S : k <= i + 1 => k <= m
    OBVIOUS
  <2>1. CASE i + 1 \in S
    BY <2>1
  <2>2. CASE i + 1 \notin S
    <3>1. \A k \in S : k <= i + 1 <=> k <= i
      <4> SUFFICES ASSUME NEW k \in S
                   PROVE  k <= i + 1 <=> k <= i
        OBVIOUS
      <4>1. k \in Nat /\ k # i + 1
        BY <2>2
      <4> QED BY <4>1
    <3>2. PICK m \in S : m <= i /\ \A k \in S : k <= i => k <= m
      BY <3>1
    <3> QED BY <3>1, <3>2
  <2> QED BY <2>1, <2>2
<1> HIDE DEF I
<1>3. n \in I
  BY <1>1, <1>2, Induction
<1>4. \A k \in S : k <= n
  OBVIOUS
<1> QED BY <1>3, <1>4 DEF I

LEMMA LastPresentFacts ==
  ASSUME NEW t, NEW v, IsStruct(t, v), Present(t, v) # {}
  PROVE  /\ LastPresent(t, v) \in 1 .. Len(t.more) /\ v.more[LastPresent(t, v)] # None
         /\ \A k \in 1 .. Len(t.more) : k > LastPresent(t, v) => v.more[k] = None
         /\ Len(t.more) \in Nat /\ t.extensible
<1>1. Len(t.more) \in Nat /\ DOMAIN t.more = 1 .. Len(t.more)
  BY DomainOf DEF IsStruct
<1>2. Present(t, v) = {k \in 1 .. Len(t.more) : v.more[k] # None}
  BY <1>1 DEF Present
<1>3. \E m \in Present(t, v) : \A k \in Present(t, v) : k <= m
  BY <1>1, <1>2, Greatest
<1>4. LastPresent(t, v) \in Present(t, v) /\ \A k \in Present(t, v) : k <= LastPresent(t, v)
  BY <1>3 DEF LastPresent
<1> DEFINE l == LastPresent(t, v)
<1> HIDE DEF l
<1>5. l \in 1 .. Len(t.more) /\ v.more[l] # None
  BY <1>2, <1>4 DEF l
<1>6. ASSUME NEW k \in 1 .. Len(t.more), k > l, v.more[k] # None
      PROVE  FALSE
  <2>1. k <= l
    BY <1>2, <1>4, <1>6 DEF l
  <2> QED BY <1>1, <1>5, <1>6, <2>1
<1>7. t.extensible
  <2>1. ~t.extensible => Len(t.more) = 0
    BY EmptySequence DEF IsStruct
  <2> QED BY <1>5, <2>1 DEF IsStruct
<1> QED BY <1>1, <1>5, <1>6, <1>7 DEF l

BitmapParts(t, v) == [k \in 1 .. LastPresent(t, v) |-> One("bit", v.more[k] # None)]
AddedParts(t, v, code) ==
  [k \in 1 .. LastPresent(t, v) |->
    IF v.more[k] = None THEN Nothing ELSE Open(code[<<t.more[k].type, v.more[k][1]>>])]

LEMMA AdditionsResult ==
  ASSUME NEW t, NEW v, IsStruct(t, v), NEW code, NEW types, AllResults(Inside(types, <<t, v>>), code),
         Present(t, v) # {}
  PROVE  /\ LastPresent(t, v) \in Nat
         /\ AreResults(LastPresent(t, v), BitmapParts(t, v))
         /\ \A k \in 1 .. LastPresent(t, v) : BitmapParts(t, v)[k].ok
         /\ Bitmap(t, v) = Each(BitmapParts(t, v)) /\ IsResult(Bitmap(t, v)) /\ Bitmap(t, v).ok
         /\ AreResults(LastPresent(t, v), AddedParts(t, v, code))
         /\ Added(t, v, code) = Each(AddedParts(t, v, code)) /\ IsResult(Added(t, v, code))
         /\ Added(t, v, code).ok <=> \A k \in 1 .. LastPresent(t, v) : AddedParts(t, v, code)[k].ok
<1> DEFINE l == LastPresent(t, v)
<1>1. l \in Nat /\ l <= Len(t.more) /\ Len(t.more) \in Nat
  BY LastPresentFacts
<1>2. AreResults(l, BitmapParts(t, v)) /\ \A k \in 1 .. l : BitmapParts(t, v)[k].ok
  BY OneResult DEF AreResults, IsRow, BitmapParts
<1>3. ASSUME NEW k \in 1 .. l, v.more[k] # None
      PROVE  IsResult(code[<<t.more[k].type, v.more[k][1]>>])
  <2>1. k \in 1 .. Len(t.more)
    BY <1>1
  <2> QED BY <1>3, <2>1, SequenceInside DEF AllResults
<1>4. AreResults(l, AddedParts(t, v, code))
  <2> SUFFICES ASSUME NEW k \in 1 .. l
               PROVE  IsResult(AddedParts(t, v, code)[k])
    BY DEF AreResults, IsRow, AddedParts
  <2>1. CASE v.more[k] = None
    BY <2>1, NothingResult DEF AddedParts
  <2>2. CASE v.more[k] # None
    <3>1. IsResult(Open(code[<<t.more[k].type, v.more[k][1]>>]))
      BY <1>3, <2>2, OpenResult
    <3> QED BY <2>2, <3>1 DEF AddedParts
  <2> QED BY <2>1, <2>2
<1>5. Bitmap(t, v) = Each(BitmapParts(t, v)) /\ Added(t, v, code) = Each(AddedParts(t, v, code))
  BY DEF Bitmap, Added, BitmapParts, AddedParts
<1> HIDE DEF l
<1>6. IsResult(Bitmap(t, v)) /\ Bitmap(t, v).ok
  BY <1>1, <1>2, <1>5, EachResult
<1>7. IsResult(Added(t, v, code)) /\ (Added(t, v, code).ok <=> \A k \in 1 .. l : AddedParts(t, v, code)[k].ok)
  BY <1>1, <1>4, <1>5, EachResult
<1> QED BY <1>1, <1>2, <1>4, <1>5, <1>6, <1>7 DEF l

LEMMA SequenceResult ==
  ASSUME NEW t, NEW v, IsStruct(t, v), NEW code, NEW types, AllResults(Inside(types, <<t, v>>), code)
  PROVE  /\ IsResult(EncodeSequence(t, v, code))
         /\ EncodeSequence(t, v, code).ok <=> AllOk(Inside(types, <<t, v>>), code)
         /\ IsResult(ExtensionBit(t, Present(t, v) # {})) /\ ExtensionBit(t, Present(t, v) # {}).ok
         /\ IsResult(Additions(t, v, code))
<1> DEFINE e == ExtensionBit(t, Present(t, v) # {})
           b == Preamble(t, v)
           f == Fields(t, v, code)
           a == Additions(t, v, code)
           inRoot == {k \in 1 .. Len(t.root) : v.root[k] # None}
           added == {k \in 1 .. Len(t.more) : v.more[k] # None}
           root(k) == code[<<t.root[k].type, v.root[k][1]>>]
           more(k) == code[<<t.more[k].type, v.more[k][1]>>]
<1>1. IsResult(e) /\ e.ok
  BY OneResult, NothingResult DEF ExtensionBit
<1>2. IsResult(b) /\ b.ok
  BY PreambleResult
<1>3. IsResult(f) /\ (f.ok <=> \A k \in inRoot : root(k).ok)
  <2>1. \A k \in 1 .. Len(t.root) : FieldParts(t, v, code)[k].ok <=> (v.root[k] # None => root(k).ok)
    BY NothingResult DEF FieldParts
  <2>2. IsResult(f) /\ (f.ok <=> \A k \in 1 .. Len(t.root) : FieldParts(t, v, code)[k].ok)
    BY FieldsResult
  <2> HIDE DEF f, root
  <2> QED BY <2>1, <2>2
<1>4. IsResult(a) /\ (a.ok <=> \A k \in added : more(k).ok)
  <2>0. added = Present(t, v)
    BY DomainOf DEF Present, IsStruct
  <2>1. CASE Present(t, v) = {}
    BY <2>0, <2>1, NothingResult DEF Additions
  <2>2. CASE Present(t, v) # {}
    <3> DEFINE l == LastPresent(t, v)
               c == One("small", l - 1)
               m == Bitmap(t, v)
               x == Added(t, v, code)
    <3>1. /\ IsResult(m) /\ m.ok /\ IsResult(x)
          /\ (x.ok <=> \A k \in 1 .. l : AddedParts(t, v, code)[k].ok)
      BY <2>2, AdditionsResult
    <3>2. IsResult(c) /\ c.ok
      BY OneResult
    <3>3. a = Both(c, Both(m, x))
      BY <2>2 DEF Additions
    <3>4. \A k \in 1 .. l : AddedParts(t, v, code)[k].ok <=> (v.more[k] # None => more(k).ok)
      <4> SUFFICES ASSUME NEW k \in 1 .. l
                   PROVE  AddedParts(t, v, code)[k].ok <=> (v.more[k] # None => more(k).ok)
        OBVIOUS
      <4>1. CASE v.more[k] = None
        BY <4>1, NothingResult DEF AddedParts
      <4>2. CASE v.more[k] # None
        <5>1. k \in 1 .. Len(t.more)
          BY <2>2, LastPresentFacts
        <5>2. IsResult(more(k))
          BY <4>2, <5>1, SequenceInside DEF AllResults
        <5>3. Open(more(k)).ok <=> more(k).ok
          <6> HIDE DEF more
          <6> QED BY <5>2, OpenResult
        <5> QED BY <4>2, <5>3 DEF AddedParts
      <4> QED BY <4>1, <4>2
    <3>5. \A k \in added : k \in 1 .. l
      <4> SUFFICES ASSUME NEW k \in 1 .. Len(t.more), v.more[k] # None
                   PROVE  k \in 1 .. l
        OBVIOUS
      <4>1. l \in 1 .. Len(t.more) /\ Len(t.more) \in Nat /\ ~(k > l)
        BY <2>2, LastPresentFacts
      <4> HIDE DEF l
      <4> QED BY <4>1
    <3>6. \A k \in 1 .. l : k \in 1 .. Len(t.more)
      BY <2>2, LastPresentFacts
    <3> HIDE DEF c, m, x, a, l, more
    <3>7. IsResult(Both(m, x)) /\ (Both(m, x).ok <=> x.ok)
      BY <3>1, BothResult
    <3>8. IsResult(a) /\ (a.ok <=> x.ok)
      BY <3>2, <3>3, <3>7, BothResult
    <3> QED BY <3>1, <3>4, <3>5, <3>6, <3>8
  <2> QED BY <2>1, <2>2
<1>5. EncodeSequence(t, v, code) = Both(e, Both(b, Both(f, a)))
  BY DEF EncodeSequence
<1>6. AllOk(Inside(types, <<t, v>>), code) <=>
        (\A k \in inRoot : root(k).ok) /\ (\A k \in added : more(k).ok)
  BY SequenceInside DEF AllOk
<1> HIDE DEF e, b, f, a, inRoot, added, root, more
<1>7. IsResult(Both(f, a)) /\ (Both(f, a).ok <=> f.ok /\ a.ok)
  BY <1>3, <1>4, BothResult
<1>8. IsResult(Both(b, Both(f, a))) /\ (Both(b, Both(f, a)).ok <=> f.ok /\ a.ok)
  BY <1>2, <1>7, BothResult
<1>9. /\ IsResult(Both(e, Both(b, Both(f, a))))
      /\ (Both(e, Both(b, Both(f, a))).ok <=> f.ok /\ a.ok)
  BY <1>1, <1>8, BothResult
<1>10. IsResult(EncodeSequence(t, v, code)) /\ (EncodeSequence(t, v, code).ok <=> AllOk(Inside(types, <<t, v>>), code))
  BY <1>3, <1>4, <1>5, <1>6, <1>9
<1> QED BY <1>1, <1>4, <1>10 DEF e, a

-----------------------------------------------------------------------------
(* What is inside a value is read by the calls for its parts. *)
ReadsPart(read, t, tokens, bits, v) ==
  \A end, q \in Nat : q <= end /\ Along(tokens, end, q, bits) => read[<<t, end, q>>] = Outcome(v, q, Len(bits), end)

LEMMA TakePartCarries ==
  ASSUME NEW part, NEW read, NEW tokens, NEW bits, NEW v, ReadsPart(read, part.type, tokens, bits, v),
         NEW end \in Nat, NEW q \in Nat, q <= end, Along(tokens, end, q, bits)
  PROVE  TakePart(part, end, q, read) = Outcome(Some(v), q, Len(bits), end)
<1>1. read[<<part.type, end, q>>] = Outcome(v, q, Len(bits), end)
  BY DEF ReadsPart
<1> QED BY <1>1 DEF TakePart, Then, Outcome, Decoded, Failed

LEMMA PreambleCarries ==
  ASSUME NEW t, NEW v, IsStruct(t, v), NEW tokens, NEW end \in Nat, NEW p \in Nat, p <= end,
         Along(tokens, end, p, Preamble(t, v).bits)
  PROVE  TakePreamble(t.root, Input(tokens, end), p) =
           Outcome([k \in 1 .. Len(t.root) |-> v.root[k] # None], p, Len(Preamble(t, v).bits), end)
<1> DEFINE n == Len(t.root)
           input == Input(tokens, end)
           results == PreambleParts(t, v)
           there == [k \in 1 .. n |-> v.root[k] # None]
           readers == [k \in 1 .. n |-> [q \in Nat |->
                        IF t.root[k].optional THEN Take(input, q, "bit") ELSE Decoded(TRUE, q)]]
<1>1. n \in Nat /\ DOMAIN t.root = 1 .. n
  BY DomainOf DEF IsStruct
<1>2. TakePreamble(t.root, input, p) = TakeEach(readers, p)
  BY <1>1 DEF TakePreamble
<1>3. IsRow(n, readers)
  BY DEF IsRow
<1>4. ASSUME NEW k \in 1 .. n
      PROVE  Reads(readers[k], tokens, end, results[k].bits, there[k])
  <2> SUFFICES ASSUME NEW q \in Nat, q <= end, Along(tokens, end, q, results[k].bits)
               PROVE  readers[k][q] = Outcome(there[k], q, Len(results[k].bits), end)
    BY DEF Reads
  <2>1. CASE t.root[k].optional
    <3>1. results[k] = One("bit", there[k]) /\ readers[k][q] = Take(input, q, "bit")
      BY <2>1 DEF PreambleParts
    <3> HIDE DEF there, readers, results
    <3> DEFINE x == there[k]
    <3>2. Along(tokens, end, q, <<Token("bit", x)>>) /\ Len(results[k].bits) = 1
      BY <3>1, OneResult
    <3> HIDE DEF x
    <3>3. Take(Input(tokens, end), q, "bit") = Outcome(x, q, 1, end)
      BY <3>2, TakeCarries
    <3> QED BY <3>1, <3>2, <3>3 DEF x
  <2>2. CASE ~t.root[k].optional
    <3>1. results[k] = Nothing /\ there[k] = TRUE /\ readers[k][q] = Decoded(TRUE, q)
      BY <2>2 DEF PreambleParts, IsStruct
    <3>2. Len(results[k].bits) = 0 /\ q + 0 = q
      BY <3>1, NothingResult
    <3> QED BY <3>1, <3>2 DEF Outcome
  <2> QED BY <2>1, <2>2
<1>5. /\ AreResults(n, results) /\ (\A k \in 1 .. n : results[k].ok)
      /\ Along(tokens, end, p, Each(results).bits) /\ Preamble(t, v) = Each(results)
  BY PreambleResult
<1>6. IsRow(n, there)
  BY DEF IsRow
<1> HIDE DEF n, results, readers, there, input
<1>7. ReadsEach(n, results, readers, there, tokens, end, p)
  BY <1>1, <1>3, <1>4, <1>5, <1>6 DEF ReadsEach
<1>8. TakePreamble(t.root, input, p) = Outcome(there, p, Len(Preamble(t, v).bits), end)
  BY <1>2, <1>5, <1>7, EachCarries
<1> QED BY <1>8 DEF there, input, n

Common(parts, more) == {k \in 1 .. Len(parts) : k <= Len(more)}

ReadsParts(read, parts, values, places, tokens, code, known) ==
  \A k \in places : values[k] # None =>
    ReadsPart(read, parts[k].type, tokens, code[<<parts[k].type, values[k][1]>>].bits,
              known[<<parts[k].type, values[k][1]>>])

FieldsCarried(t, v, code, types, there, known, read, tokens, end, p) ==
  /\ IsStruct(t, v) /\ AllResults(Inside(types, <<t, v>>), code)
  /\ Fields(t, v, code).ok /\ \A k \in 1 .. Len(t.root) : there[k] <=> v.root[k] # None
  /\ ReadsParts(read, t.root, v.root, 1 .. Len(t.root), tokens, code, known)
  /\ end \in Nat /\ p \in Nat /\ p <= end /\ Along(tokens, end, p, Fields(t, v, code).bits)

LEMMA FieldsCarry ==
  ASSUME NEW t, NEW v, NEW code, NEW types, NEW there, NEW known, NEW read, NEW tokens, NEW end, NEW p,
         FieldsCarried(t, v, code, types, there, known, read, tokens, end, p)
  PROVE  TakeFields(t.root, there, Input(tokens, end), p, read) =
           Outcome(ProjectParts(t.root, v.root, known), p, Len(Fields(t, v, code).bits), end)
<1> SUFFICES ASSUME IsStruct(t, v), AllResults(Inside(types, <<t, v>>), code),
                    Fields(t, v, code).ok, \A k \in 1 .. Len(t.root) : there[k] <=> v.root[k] # None,
                    ReadsParts(read, t.root, v.root, 1 .. Len(t.root), tokens, code, known),
                    end \in Nat, p \in Nat, p <= end, Along(tokens, end, p, Fields(t, v, code).bits)
             PROVE  TakeFields(t.root, there, Input(tokens, end), p, read) =
                      Outcome(ProjectParts(t.root, v.root, known), p, Len(Fields(t, v, code).bits), end)
  BY DEF FieldsCarried
<1> DEFINE n == Len(t.root)
           input == Input(tokens, end)
           results == FieldParts(t, v, code)
           values == ProjectParts(t.root, v.root, known)
           readers == [k \in 1 .. n |-> [q \in Nat |->
                        IF there[k] THEN TakePart(t.root[k], input.end, q, read) ELSE Decoded(None, q)]]
<1>1. n \in Nat /\ DOMAIN t.root = 1 .. n /\ DOMAIN v.root = 1 .. n
  BY DomainOf DEF IsStruct, AreHeld
<1>2. TakeFields(t.root, there, input, p, read) = TakeEach(readers, p)
  BY <1>1 DEF TakeFields
<1>3. IsRow(n, readers)
  BY DEF IsRow
<1>4. ASSUME NEW k \in 1 .. n
      PROVE  Reads(readers[k], tokens, end, results[k].bits, values[k])
  <2> SUFFICES ASSUME NEW q \in Nat, q <= end, Along(tokens, end, q, results[k].bits)
               PROVE  readers[k][q] = Outcome(values[k], q, Len(results[k].bits), end)
    BY DEF Reads
  <2>1. CASE v.root[k] # None
    <3> DEFINE x == <<t.root[k].type, v.root[k][1]>>
    <3>1. results[k] = code[x] /\ values[k] = Some(known[x])
      BY <1>1, <2>1 DEF FieldParts, ProjectParts
    <3>2. readers[k][q] = TakePart(t.root[k], end, q, read)
      BY <2>1 DEF Input
    <3>3. ReadsPart(read, t.root[k].type, tokens, code[x].bits, known[x])
      BY <2>1 DEF ReadsParts
    <3>4. Along(tokens, end, q, code[x].bits)
      BY <3>1
    <3> HIDE DEF readers, results, values, x
    <3>5. TakePart(t.root[k], end, q, read) = Outcome(Some(known[x]), q, Len(code[x].bits), end)
      BY <3>3, <3>4, TakePartCarries
    <3> QED BY <3>1, <3>2, <3>5
  <2>2. CASE v.root[k] = None
    <3>1. results[k] = Nothing /\ values[k] = None
      BY <1>1, <2>2 DEF FieldParts, ProjectParts
    <3>2. readers[k][q] = Decoded(None, q)
      BY <2>2
    <3>3. Len(results[k].bits) = 0 /\ q + 0 = q
      BY <3>1, NothingResult
    <3> HIDE DEF readers, results, values
    <3> QED BY <3>1, <3>2, <3>3 DEF Outcome
  <2> QED BY <2>1, <2>2
<1>5. /\ AreResults(n, results) /\ (\A k \in 1 .. n : results[k].ok)
      /\ Along(tokens, end, p, Each(results).bits) /\ Fields(t, v, code) = Each(results)
  BY FieldsResult
<1>6. IsRow(n, values)
  BY <1>1 DEF ProjectParts, IsRow
<1> HIDE DEF n, results, readers, values, input
<1>7. ReadsEach(n, results, readers, values, tokens, end, p)
  BY <1>1, <1>3, <1>4, <1>5, <1>6 DEF ReadsEach
<1>8. TakeFields(t.root, there, input, p, read) = Outcome(values, p, Len(Fields(t, v, code).bits), end)
  BY <1>2, <1>5, <1>7, EachCarries
<1> QED BY <1>8 DEF values, input

LEMMA BitmapCarries ==
  ASSUME NEW t, NEW v, IsStruct(t, v), Present(t, v) # {}, NEW code, NEW types,
         AllResults(Inside(types, <<t, v>>), code),
         NEW tokens, NEW end \in Nat, NEW p \in Nat, p <= end,
         Along(tokens, end, p, One("small", LastPresent(t, v) - 1).bits),
         Along(tokens, end, p + 1, Bitmap(t, v).bits)
  PROVE  TakeBitmap(Input(tokens, end), p) =
           Outcome([k \in 1 .. LastPresent(t, v) |-> v.more[k] # None], p, 1 + Len(Bitmap(t, v).bits), end)
<1> DEFINE l == LastPresent(t, v)
           input == Input(tokens, end)
           c == One("small", l - 1)
           m == Bitmap(t, v)
           results == BitmapParts(t, v)
           there == [k \in 1 .. l |-> v.more[k] # None]
           readers == [k \in 1 .. l |-> [q \in Nat |-> Take(input, q, "bit")]]
<1>1. l \in Nat /\ (l - 1) + 1 = l
  BY LastPresentFacts
<1>2. /\ AreResults(l, results) /\ (\A k \in 1 .. l : results[k].ok)
      /\ m = Each(results) /\ IsResult(m) /\ m.ok
  BY AdditionsResult
<1>3. IsRow(l, readers) /\ IsRow(l, there)
  BY DEF IsRow
<1>4. ASSUME NEW k \in 1 .. l
      PROVE  Reads(readers[k], tokens, end, results[k].bits, there[k])
  <2> SUFFICES ASSUME NEW q \in Nat, q <= end, Along(tokens, end, q, results[k].bits)
               PROVE  readers[k][q] = Outcome(there[k], q, Len(results[k].bits), end)
    BY DEF Reads
  <2>1. results[k] = One("bit", there[k]) /\ readers[k][q] = Take(input, q, "bit")
    BY DEF BitmapParts
  <2> HIDE DEF there, readers, results
  <2> DEFINE x == there[k]
  <2>2. Along(tokens, end, q, <<Token("bit", x)>>) /\ Len(results[k].bits) = 1
    BY <2>1, OneResult
  <2> HIDE DEF x
  <2>3. Take(Input(tokens, end), q, "bit") = Outcome(x, q, 1, end)
    BY <2>2, TakeCarries
  <2> QED BY <2>1, <2>2, <2>3 DEF x
<1>5. /\ IsResult(c) /\ c.ok /\ c.bits = <<Token("small", l - 1)>> /\ Len(c.bits) = 1
  BY OneResult
<1>6. TakeBitmap(input, p) =
        Then(Take(input, p, "small"), LAMBDA x, at :
          TakeEach([k \in 1 .. x + 1 |-> [q \in Nat |-> Take(input, q, "bit")]], at))
  BY DEF TakeBitmap
<1>7. IsSequence(c.bits) /\ IsSequence(m.bits) /\ Len(m.bits) \in Nat
  BY <1>2, <1>5, DomainOf DEF IsResult
<1>9. Along(tokens, end, p, c.bits) /\ Along(tokens, end, p + 1, m.bits)
  OBVIOUS
<1> HIDE DEF l, input, c, m, results, there, readers
<1>10. Take(input, p, "small") = Outcome(l - 1, p, 1, end)
  BY <1>5, <1>9, TakeCarries DEF input
<1>11. CASE p + 1 <= end
  <2>1. Take(input, p, "small") = Decoded(l - 1, p + 1)
    BY <1>10, <1>11 DEF Outcome
  <2>2. TakeBitmap(input, p) = TakeEach(readers, p + 1)
    BY <1>1, <1>6, <2>1 DEF Then, Decoded, readers
  <2>3. ReadsEach(l, results, readers, there, tokens, end, p + 1)
    BY <1>1, <1>2, <1>3, <1>4, <1>9, <1>11 DEF ReadsEach
  <2>4. TakeBitmap(input, p) = Outcome(there, p + 1, Len(m.bits), end)
    BY <1>2, <2>2, <2>3, EachCarries
  <2>5. TakeBitmap(input, p) = Outcome(there, p, 1 + Len(m.bits), end)
    BY <1>7, <2>4, OutcomeMore
  <2> QED BY <2>5 DEF there, input, m, l
<1>12. CASE ~(p + 1 <= end)
  <2>1. Take(input, p, "small") = Failed("eof")
    BY <1>10, <1>12 DEF Outcome
  <2>2. TakeBitmap(input, p) = Failed("eof")
    BY <1>6, <2>1 DEF Then, Failed
  <2>3. TakeBitmap(input, p) = Outcome(there, p, 1 + Len(m.bits), end)
    BY <1>7, <1>12, <2>2, OutcomeMore
  <2> QED BY <2>3 DEF there, input, m, l
<1> QED BY <1>11, <1>12

(* An addition, of which the type is known or not. *)
AdditionCarried(r, more, k, read, tokens, x, end, p) ==
  /\ IsResult(r) /\ r.ok /\ Len(more) \in Nat /\ k \in Nat
  /\ k <= Len(more) => ReadsPart(read, more[k].type, tokens, r.bits, x)
  /\ end \in Nat /\ p \in Nat /\ p <= end /\ Along(tokens, end, p, Open(r).bits)

LEMMA AdditionCarries ==
  ASSUME NEW r, NEW more, NEW k, NEW read, NEW tokens, NEW x, NEW end, NEW p,
         AdditionCarried(r, more, k, read, tokens, x, end, p)
  PROVE  TakeAddition(more, k, Input(tokens, end), p, read) =
           Outcome(IF k > Len(more) THEN None ELSE Some(x), p, Len(Open(r).bits), end)
<1> SUFFICES ASSUME IsResult(r), r.ok, Len(more) \in Nat, k \in Nat,
                    k <= Len(more) => ReadsPart(read, more[k].type, tokens, r.bits, x),
                    end \in Nat, p \in Nat, p <= end, Along(tokens, end, p, Open(r).bits)
             PROVE  TakeAddition(more, k, Input(tokens, end), p, read) =
                      Outcome(IF k > Len(more) THEN None ELSE Some(x), p, Len(Open(r).bits), end)
  BY DEF AdditionCarried
<1> DEFINE input == Input(tokens, end)
           n == Len(Open(r).bits)
           m == Len(r.bits)
<1>1. TakeAddition(more, k, input, p, read) =
        Then(TakeOpen(input, p), LAMBDA at, used :
          IF k > Len(more) THEN Decoded(None, used)
          ELSE Then(TakePart(more[k], used, at, read), LAMBDA v, u : Decoded(v, used)))
  BY DEF TakeAddition
<1>2. TakeOpen(input, p) = Outcome(p + 1, p, n, end)
  BY OpenCarries
<1>3. p + n <= end => /\ p + 1 <= p + n /\ p + n \in Nat
                      /\ (p + 1) + m = p + n
                      /\ Along(tokens, p + n, p + 1, r.bits)
  BY OpenCarries
<1> HIDE DEF input, n, m
<1>4. CASE ~(p + n <= end)
  <2>1. TakeOpen(input, p) = Failed("eof")
    BY <1>2, <1>4 DEF Outcome
  <2>2. TakeAddition(more, k, input, p, read) = Failed("eof")
    BY <1>1, <2>1 DEF Then, Failed
  <2> QED BY <1>4, <2>2 DEF Outcome, input, n
<1>5. CASE p + n <= end /\ k > Len(more)
  <2>1. TakeOpen(input, p) = Decoded(p + 1, p + n)
    BY <1>2, <1>5 DEF Outcome
  <2>2. TakeAddition(more, k, input, p, read) = Decoded(None, p + n)
    BY <1>1, <1>5, <2>1 DEF Then, Decoded
  <2> QED BY <1>5, <2>2 DEF Outcome, input, n
<1>6. CASE p + n <= end /\ ~(k > Len(more))
  <2>1. TakeOpen(input, p) = Decoded(p + 1, p + n)
    BY <1>2, <1>6 DEF Outcome
  <2>2. TakePart(more[k], p + n, p + 1, read) = Outcome(Some(x), p + 1, m, p + n)
    <3>1. ReadsPart(read, more[k].type, tokens, r.bits, x)
      BY <1>6
    <3> QED BY <1>3, <1>6, <3>1, TakePartCarries DEF m
  <2>3. TakePart(more[k], p + n, p + 1, read) = Decoded(Some(x), p + n)
    BY <1>3, <1>6, <2>2 DEF Outcome
  <2>4. TakeAddition(more, k, input, p, read) = Decoded(Some(x), p + n)
    BY <1>1, <1>6, <2>1, <2>3 DEF Then, Decoded
  <2> QED BY <1>6, <2>4 DEF Outcome, input, n
<1> QED BY <1>4, <1>5, <1>6

(* What a receiver makes of the additions sent: more are those it knows.   *)
AddedValues(t, v, more, known) ==
  [k \in 1 .. LastPresent(t, v) |->
    IF v.more[k] = None \/ k > Len(more) THEN None ELSE Some(known[<<t.more[k].type, v.more[k][1]>>])]
AddedReaders(n, there, more, input, read) ==
  [k \in 1 .. n |-> [q \in Nat |->
    IF there[k] THEN TakeAddition(more, k, input, q, read) ELSE Decoded(None, q)]]

AddedCarried(t, v, code, types, more, known, read, tokens, end, p, there) ==
  /\ IsStruct(t, v) /\ Present(t, v) # {} /\ AllResults(Inside(types, <<t, v>>), code)
  /\ Added(t, v, code).ok /\ Len(more) \in Nat
  /\ \A k \in 1 .. Len(more) : k <= Len(t.more) => more[k].type = t.more[k].type
  /\ ReadsParts(read, t.more, v.more, Common(t.more, more), tokens, code, known)
  /\ \A k \in 1 .. LastPresent(t, v) : there[k] <=> v.more[k] # None
  /\ end \in Nat /\ p \in Nat /\ p <= end /\ Along(tokens, end, p, Added(t, v, code).bits)

LEMMA AddedCarry ==
  ASSUME NEW t, NEW v, NEW code, NEW types, NEW more, NEW known, NEW read, NEW tokens, NEW end, NEW p, NEW there,
         AddedCarried(t, v, code, types, more, known, read, tokens, end, p, there)
  PROVE  TakeEach(AddedReaders(LastPresent(t, v), there, more, Input(tokens, end), read), p) =
           Outcome(AddedValues(t, v, more, known), p, Len(Added(t, v, code).bits), end)
<1>0. /\ IsStruct(t, v) /\ Present(t, v) # {} /\ AllResults(Inside(types, <<t, v>>), code)
      /\ Added(t, v, code).ok /\ Len(more) \in Nat
      /\ \A k \in 1 .. Len(more) : k <= Len(t.more) => more[k].type = t.more[k].type
      /\ ReadsParts(read, t.more, v.more, Common(t.more, more), tokens, code, known)
      /\ \A k \in 1 .. LastPresent(t, v) : there[k] <=> v.more[k] # None
      /\ end \in Nat /\ p \in Nat /\ p <= end /\ Along(tokens, end, p, Added(t, v, code).bits)
  BY DEF AddedCarried
<1> DEFINE l == LastPresent(t, v)
           input == Input(tokens, end)
           results == AddedParts(t, v, code)
           values == AddedValues(t, v, more, known)
           readers == AddedReaders(l, there, more, input, read)
<1>1. l \in Nat /\ l <= Len(t.more) /\ Len(t.more) \in Nat
  BY <1>0, LastPresentFacts
<1>2. /\ AreResults(l, results) /\ Added(t, v, code) = Each(results) /\ \A k \in 1 .. l : results[k].ok
  BY <1>0, AdditionsResult
<1>3. IsRow(l, readers) /\ IsRow(l, values)
  BY DEF IsRow, AddedReaders, AddedValues
<1>4. ASSUME NEW k \in 1 .. l
      PROVE  Reads(readers[k], tokens, end, results[k].bits, values[k])
  <2> SUFFICES ASSUME NEW q \in Nat, q <= end, Along(tokens, end, q, results[k].bits)
               PROVE  readers[k][q] = Outcome(values[k], q, Len(results[k].bits), end)
    BY DEF Reads
  <2>1. CASE v.more[k] = None
    <3>1. results[k] = Nothing /\ values[k] = None
      BY <2>1 DEF AddedParts, AddedValues
    <3>2. readers[k][q] = Decoded(None, q)
      BY <1>0, <2>1 DEF AddedReaders
    <3>3. Len(results[k].bits) = 0 /\ q + 0 = q
      BY <3>1, NothingResult
    <3> HIDE DEF readers, results, values
    <3> QED BY <3>1, <3>2, <3>3 DEF Outcome
  <2>2. CASE v.more[k] # None
    <3> DEFINE x == <<t.more[k].type, v.more[k][1]>>
               c == code[x]
               y == known[x]
    <3>1. results[k] = Open(c) /\ results[k].ok
      BY <1>2, <2>2 DEF AddedParts
    <3>2. readers[k][q] = TakeAddition(more, k, input, q, read)
      BY <1>0, <2>2 DEF AddedReaders
    <3>3. k \in 1 .. Len(t.more)
      BY <1>1
    <3>4. IsResult(c)
      BY <1>0, <2>2, <3>3, SequenceInside DEF AllResults
    <3>5. k <= Len(more) => ReadsPart(read, more[k].type, tokens, c.bits, y)
      <4>1. k <= Len(more) => more[k].type = t.more[k].type
        BY <1>0, <1>1, <3>3
      <4>2. k <= Len(more) => ReadsPart(read, t.more[k].type, tokens, c.bits, y)
        BY <1>0, <2>2, <3>3 DEF ReadsParts, Common
      <4> QED BY <4>1, <4>2
    <3>6. values[k] = IF k > Len(more) THEN None ELSE Some(y)
      BY <2>2 DEF AddedValues
    <3> HIDE DEF readers, results, values, c, y, x
    <3>7. c.ok
      BY <3>1, <3>4, OpenResult
    <3>8. TakeAddition(more, k, Input(tokens, end), q, read) =
            Outcome(IF k > Len(more) THEN None ELSE Some(y), q, Len(Open(c).bits), end)
      <4>1. k \in Nat
        BY <1>1
      <4>2. Along(tokens, end, q, Open(c).bits)
        BY <3>1
      <4>3. Len(more) \in Nat /\ end \in Nat
        BY <1>0
      <4>4. AdditionCarried(c, more, k, read, tokens, y, end, q)
        BY <3>4, <3>5, <3>7, <4>1, <4>2, <4>3 DEF AdditionCarried
      <4> QED BY <4>4, AdditionCarries
    <3> QED BY <3>1, <3>2, <3>6, <3>8
  <2> QED BY <2>1, <2>2
<1> HIDE DEF l, results, readers, values
<1>5. Along(tokens, end, p, Each(results).bits)
  BY <1>0, <1>2
<1>7. ReadsEach(l, results, readers, values, tokens, end, p)
  BY <1>0, <1>1, <1>2, <1>3, <1>4, <1>5 DEF ReadsEach
<1>8. TakeEach(readers, p) = Outcome(values, p, Len(Added(t, v, code).bits), end)
  BY <1>2, <1>7, EachCarries
<1> QED BY <1>8 DEF values, readers, l

AdditionsCarried(t, v, code, types, more, known, read, tokens, end, p) ==
  /\ IsStruct(t, v) /\ Present(t, v) # {} /\ AllResults(Inside(types, <<t, v>>), code)
  /\ Additions(t, v, code).ok /\ IsSequence(more)
  /\ \A k \in 1 .. Len(more) : k <= Len(t.more) => more[k].type = t.more[k].type
  /\ ReadsParts(read, t.more, v.more, Common(t.more, more), tokens, code, known)
  /\ end \in Nat /\ p \in Nat /\ p <= end /\ Along(tokens, end, p, Additions(t, v, code).bits)

LEMMA AdditionsCarry ==
  ASSUME NEW t, NEW v, NEW code, NEW types, NEW more, NEW known, NEW read, NEW tokens, NEW end, NEW p,
         AdditionsCarried(t, v, code, types, more, known, read, tokens, end, p)
  PROVE  TakeAdditions(more, Input(tokens, end), p, read) =
           Outcome(ProjectParts(more, v.more, known), p, Len(Additions(t, v, code).bits), end)
<1> SUFFICES ASSUME IsStruct(t, v), Present(t, v) # {}, AllResults(Inside(types, <<t, v>>), code),
                    Additions(t, v, code).ok, IsSequence(more),
                    \A k \in 1 .. Len(more) : k <= Len(t.more) => more[k].type = t.more[k].type,
                    ReadsParts(read, t.more, v.more, Common(t.more, more), tokens, code, known),
                    end \in Nat, p \in Nat, p <= end, Along(tokens, end, p, Additions(t, v, code).bits)
             PROVE  TakeAdditions(more, Input(tokens, end), p, read) =
                      Outcome(ProjectParts(more, v.more, known), p, Len(Additions(t, v, code).bits), end)
  BY DEF AdditionsCarried
<1> DEFINE l == LastPresent(t, v)
           input == Input(tokens, end)
           c == One("small", l - 1)
           m == Bitmap(t, v)
           x == Added(t, v, code)
           a == Additions(t, v, code)
           there == [k \in 1 .. l |-> v.more[k] # None]
           values == AddedValues(t, v, more, known)
           readers == AddedReaders(l, there, more, input, read)
           whole(got) == [k \in DOMAIN more |-> IF k \in DOMAIN got THEN got[k] ELSE None]
<1>1. IsResult(c) /\ c.ok /\ Len(c.bits) = 1
  BY OneResult
<1>2. IsResult(m) /\ m.ok /\ IsResult(x) /\ l \in Nat
  BY AdditionsResult
<1>3. a = Both(c, Both(m, x))
  BY DEF Additions
<1>4. DOMAIN there = 1 .. l /\ \A k \in 1 .. l : there[k] <=> v.more[k] # None
  OBVIOUS
<1>5. TakeAdditions(more, input, p, read) =
        Then(TakeBitmap(input, p), LAMBDA g, at :
          Then(TakeEach([k \in DOMAIN g |-> [q \in Nat |->
                 IF g[k] THEN TakeAddition(more, k, input, q, read) ELSE Decoded(None, q)]], at),
               LAMBDA got, used : Decoded(whole(got), used)))
  BY DEF TakeAdditions
<1>6. whole(values) = ProjectParts(more, v.more, known)
  <2>1. DOMAIN values = 1 .. l
    BY DEF AddedValues
  <2>2. DOMAIN v.more = 1 .. Len(t.more) /\ Len(t.more) \in Nat /\ DOMAIN more = 1 .. Len(more) /\ Len(more) \in Nat
    BY DomainOf DEF IsStruct, AreHeld
  <2>3. /\ l \in 1 .. Len(t.more)
        /\ \A k \in 1 .. Len(t.more) : k > l => v.more[k] = None
    BY LastPresentFacts
  <2>4. ASSUME NEW k \in 1 .. Len(more)
        PROVE  (IF k \in 1 .. l THEN values[k] ELSE None) =
                 (IF k \in 1 .. Len(t.more) /\ v.more[k] # None
                    THEN Some(known[<<more[k].type, v.more[k][1]>>]) ELSE None)
    <3>1. CASE k \in 1 .. l
      <4>1. values[k] = IF v.more[k] = None \/ k > Len(more) THEN None
                        ELSE Some(known[<<t.more[k].type, v.more[k][1]>>])
        BY <3>1 DEF AddedValues
      <4>2. k \in 1 .. Len(t.more) /\ ~(k > Len(more)) /\ more[k].type = t.more[k].type
        BY <2>2, <2>3, <3>1
      <4> HIDE DEF values, l
      <4> QED BY <3>1, <4>1, <4>2
    <3>2. CASE k \notin 1 .. l
      <4>1. k \in 1 .. Len(t.more) => v.more[k] = None
        BY <2>2, <2>3, <3>2
      <4> HIDE DEF values, l
      <4> QED BY <3>2, <4>1
    <3> QED BY <3>1, <3>2
  <2> HIDE DEF values, l
  <2> QED BY <2>1, <2>2, <2>4 DEF ProjectParts
<1> HIDE DEF whole
<1>7. IsResult(Both(m, x)) /\ Both(m, x).ok /\ a.bits = c.bits \o (m.bits \o x.bits) /\ x.ok
  <2>0. a.ok
    OBVIOUS
  <2> HIDE DEF c, m, x, a
  <2>1. /\ IsResult(Both(m, x)) /\ (Both(m, x).ok <=> x.ok)
        /\ (m.ok /\ x.ok => Both(m, x).bits = m.bits \o x.bits)
    BY <1>2, BothResult
  <2>2. Both(m, x).ok
    BY <1>1, <1>3, <2>0, <2>1, BothResult
  <2>3. a.bits = c.bits \o Both(m, x).bits
    BY <1>1, <1>3, <2>1, <2>2, BothResult
  <2> QED BY <1>2, <2>1, <2>2, <2>3
<1>8. Along(tokens, end, p, a.bits)
  OBVIOUS
<1> DEFINE d == Len(m.bits)
           n == Len(x.bits)
<1>9. IsSequence(c.bits) /\ IsSequence(m.bits) /\ IsSequence(x.bits) /\ d \in Nat /\ n \in Nat
  BY <1>1, <1>2, DomainOf DEF IsResult
<1>10. IsSequence(m.bits \o x.bits) /\ Len(m.bits \o x.bits) = d + n
  <2> HIDE DEF m, x
  <2> QED BY <1>9, Joined
<1> DEFINE y == m.bits \o x.bits
<1>11. Len(a.bits) = 1 + (d + n)
  <2>1. a.bits = c.bits \o y /\ IsSequence(y) /\ Len(y) = d + n
    BY <1>7, <1>10
  <2> HIDE DEF c, m, x, a, d, n, y
  <2>2. Len(c.bits \o y) = Len(c.bits) + Len(y)
    BY <1>9, <2>1, Joined
  <2> QED BY <1>1, <2>1, <2>2
<1>12. Along(tokens, end, p, c.bits) /\ Along(tokens, end, p + 1, m.bits) /\ Along(tokens, end, (p + 1) + d, x.bits)
  <2>0. Along(tokens, end, p, c.bits \o y) /\ IsSequence(y)
    BY <1>7, <1>8, <1>10
  <2> HIDE DEF c, m, x, a, y
  <2>3. Along(tokens, end, p, c.bits) /\ Along(tokens, end, p + 1, y)
    BY <1>1, <1>9, <2>0, AlongJoined
  <2>1. Along(tokens, end, p, c.bits) /\ Along(tokens, end, p + 1, m.bits \o x.bits)
    BY <2>3 DEF y
  <2>2. p + 1 \in Nat
    OBVIOUS
  <2> QED BY <1>9, <2>1, <2>2, AlongJoined
<1>13. TakeBitmap(input, p) = Outcome(there, p, 1 + d, end)
  BY <1>12, BitmapCarries
<1>14. p + (1 + d) = (p + 1) + d /\ p + (1 + d) \in Nat /\ 1 + (d + n) = (1 + d) + n
  <2> HIDE DEF d, n
  <2> QED BY <1>9
<1>15. p + (1 + d) <= end => TakeEach(readers, p + (1 + d)) = Outcome(values, p + (1 + d), n, end)
  <2> SUFFICES ASSUME p + (1 + d) <= end
               PROVE  TakeEach(readers, p + (1 + d)) = Outcome(values, p + (1 + d), n, end)
    OBVIOUS
  <2>0. Len(more) \in Nat
    BY DomainOf
  <2>1. AddedCarried(t, v, code, types, more, known, read, tokens, end, p + (1 + d), there)
    BY <1>4, <1>7, <1>12, <1>14, <2>0 DEF AddedCarried
  <2> HIDE DEF there, d
  <2> QED BY <2>1, AddedCarry
<1>16. AddedReaders(l, there, more, input, read) =
         [k \in DOMAIN there |-> [q \in Nat |->
            IF there[k] THEN TakeAddition(more, k, input, q, read) ELSE Decoded(None, q)]]
  BY <1>4 DEF AddedReaders
<1> DEFINE at == p + (1 + d)
<1> HIDE DEF l, input, c, m, x, a, there, values, d, n, readers
<1>17. CASE ~(at <= end)
  <2>1. TakeBitmap(input, p) = Failed("eof")
    BY <1>13, <1>17 DEF Outcome
  <2>2. TakeAdditions(more, input, p, read) = Failed("eof")
    BY <1>5, <2>1 DEF Then, Failed
  <2>3. ~(p + ((1 + d) + n) <= end)
    BY <1>9, <1>17
  <2>4. ~(p + Len(a.bits) <= end)
    BY <1>11, <1>14, <2>3
  <2> QED BY <2>2, <2>4 DEF Outcome, a, input
<1>18. CASE at <= end
  <2> HIDE DEF at
  <2>1. TakeBitmap(input, p) = Decoded(there, at)
    BY <1>13, <1>18 DEF Outcome, at
  <2>2. TakeAdditions(more, input, p, read) =
          Then(TakeEach(readers, at), LAMBDA got, used : Decoded(whole(got), used))
    BY <1>5, <1>16, <2>1 DEF Then, Decoded, readers
  <2>3. TakeEach(readers, at) = Outcome(values, at, n, end)
    BY <1>15, <1>18 DEF at
  <2>4. TakeAdditions(more, input, p, read) = Outcome(whole(values), at, n, end)
    BY <2>2, <2>3 DEF Then, Decoded, Failed, Outcome
  <2>5. at + n = p + Len(a.bits)
    BY <1>9, <1>11, <1>14 DEF at
  <2>6. TakeAdditions(more, input, p, read) = Outcome(ProjectParts(more, v.more, known), p, Len(a.bits), end)
    BY <1>6, <2>4, <2>5 DEF Outcome
  <2> QED BY <2>6 DEF a, input
<1> QED BY <1>17, <1>18

(* The code of two results, one after the other.                           *)
LEMMA BothCarries ==
  ASSUME NEW r, NEW s, IsResult(r), IsResult(s), r.ok, s.ok, NEW tokens, NEW end \in Nat, NEW p \in Nat,
         Along(tokens, end, p, Both(r, s).bits)
  PROVE  /\ IsResult(Both(r, s)) /\ Both(r, s).ok
         /\ Len(r.bits) \in Nat /\ Len(s.bits) \in Nat
         /\ Len(Both(r, s).bits) = Len(r.bits) + Len(s.bits)
         /\ Along(tokens, end, p, r.bits)
         /\ p + Len(r.bits) \in Nat /\ Along(tokens, end, p + Len(r.bits), s.bits)
<1> DEFINE a == r.bits
           b == s.bits
<1>1. IsSequence(a) /\ IsSequence(b) /\ Len(a) \in Nat /\ Len(b) \in Nat
  BY DomainOf DEF IsResult
<1>2. IsResult(Both(r, s)) /\ Both(r, s).ok /\ Both(r, s).bits = a \o b
  BY BothResult
<1>3. Along(tokens, end, p, a \o b)
  BY <1>2
<1> HIDE DEF a, b
<1>4. Along(tokens, end, p, a) /\ Along(tokens, end, p + Len(a), b)
  BY <1>1, <1>3, AlongJoined
<1>5. Len(a \o b) = Len(a) + Len(b)
  BY <1>1, Joined
<1>6. p + Len(a) \in Nat
  BY <1>1
<1> QED BY <1>1, <1>2, <1>4, <1>5, <1>6 DEF a, b

(* What is read after n tokens, or not, for want of them.                  *)
IsChain(whole, y, p, n, m, end) ==
  /\ p \in Nat /\ n \in Nat /\ m \in Nat /\ end \in Nat
  /\ p + n <= end => whole = Outcome(y, p + n, m, end)
  /\ ~(p + n <= end) => whole = Failed("eof")

LEMMA Chained ==
  ASSUME NEW whole, NEW y, NEW p, NEW n, NEW m, NEW end, IsChain(whole, y, p, n, m, end)
  PROVE  whole = Outcome(y, p, n + m, end) /\ n + m \in Nat
<1>1. /\ p \in Nat /\ n \in Nat /\ m \in Nat /\ end \in Nat
      /\ p + n <= end => whole = Outcome(y, p + n, m, end)
      /\ ~(p + n <= end) => whole = Failed("eof")
  BY DEF IsChain
<1>2. (p + n) + m = p + (n + m) /\ n + m \in Nat /\ (~(p + n <= end) => ~(p + (n + m) <= end))
  BY <1>1
<1>3. CASE p + n <= end
  BY <1>1, <1>2, <1>3 DEF Outcome
<1>4. CASE ~(p + n <= end)
  BY <1>1, <1>2, <1>4 DEF Outcome
<1> QED BY <1>3, <1>4, <1>2

(* Two versions of a SEQUENCE, of which one knows what the other may have  *)
(* added; a value of the first that the other can read.                    *)
StructVersions(s, r, v) ==
  /\ IsStruct(s, v) /\ r.kind = "Sequence" /\ r.root = s.root /\ r.extensible = s.extensible
  /\ IsSequence(r.more)
  /\ \A k \in 1 .. Len(r.more) : k <= Len(s.more) => r.more[k].type = s.more[k].type
  /\ r.more = <<>> => Present(s, v) = {}

SequenceCarried(s, r, v, code, types, known, read, tokens, end, p) ==
  /\ StructVersions(s, r, v) /\ AllResults(Inside(types, <<s, v>>), code)
  /\ EncodeSequence(s, v, code).ok
  /\ ReadsParts(read, s.root, v.root, 1 .. Len(s.root), tokens, code, known)
  /\ ReadsParts(read, s.more, v.more, Common(s.more, r.more), tokens, code, known)
  /\ end \in Nat /\ p \in Nat /\ p <= end /\ Along(tokens, end, p, EncodeSequence(s, v, code).bits)

SequencePart(t, v, known) ==
  Struct(ProjectParts(t.root, v.root, known), ProjectParts(t.more, v.more, known))

LEMMA SequenceCarries ==
  ASSUME NEW s, NEW r, NEW v, NEW code, NEW types, NEW known, NEW read, NEW tokens, NEW end, NEW p,
         SequenceCarried(s, r, v, code, types, known, read, tokens, end, p)
  PROVE  DecodeSequence(r, Input(tokens, end), p, read) =
           Outcome(SequencePart(r, v, known), p, Len(EncodeSequence(s, v, code).bits), end)
<1>0. /\ StructVersions(s, r, v) /\ AllResults(Inside(types, <<s, v>>), code)
      /\ EncodeSequence(s, v, code).ok
      /\ ReadsParts(read, s.root, v.root, 1 .. Len(s.root), tokens, code, known)
      /\ ReadsParts(read, s.more, v.more, Common(s.more, r.more), tokens, code, known)
      /\ end \in Nat /\ p \in Nat /\ p <= end /\ Along(tokens, end, p, EncodeSequence(s, v, code).bits)
  BY DEF SequenceCarried
<1>1. /\ IsStruct(s, v) /\ r.root = s.root /\ r.extensible = s.extensible /\ IsSequence(r.more)
      /\ \A k \in 1 .. Len(r.more) : k <= Len(s.more) => r.more[k].type = s.more[k].type
      /\ r.more = <<>> => Present(s, v) = {}
  BY <1>0 DEF StructVersions
<1> DEFINE has == Present(s, v) # {}
           e == ExtensionBit(s, has)
           b == Preamble(s, v)
           f == Fields(s, v, code)
           a == Additions(s, v, code)
           w == EncodeSequence(s, v, code)
           pr == ProjectParts(r.root, v.root, known)
           pm == ProjectParts(r.more, v.more, known)
           there == [k \in 1 .. Len(s.root) |-> v.root[k] # None]
           input == Input(tokens, end)
           absent == [k \in DOMAIN r.more |-> None]
           last(h, q) == IF h /\ r.more # <<>> THEN TakeAdditions(r.more, input, q, read) ELSE Decoded(absent, q)
           rest4(h, root, q) == Then(last(h, q), LAMBDA more, q5 : Decoded(Struct(root, more), q5))
           rest3(h, th, q) == Then(TakeFields(r.root, th, input, q, read), LAMBDA root, q4 : rest4(h, root, q4))
           rest2(h, q) == Then(TakePreamble(r.root, input, q), LAMBDA th, q3 : rest3(h, th, q3))
           skip(h, q) == IF h /\ r.more = <<>> THEN SkipAdditions(input, q) ELSE Decoded(None, q)
           rest1(h, q) == Then(skip(h, q), LAMBDA x, q2 : rest2(h, q2))
           all == DecodeSequence(r, input, p, read)
<1>2. all = Then(TakeExtensionBit(r, input, p), LAMBDA h, q : rest1(h, q))
  BY DEF DecodeSequence
<1>3. w = Both(e, Both(b, Both(f, a)))
  BY DEF EncodeSequence
<1>4. IsResult(e) /\ e.ok /\ IsResult(b) /\ b.ok /\ IsResult(f) /\ IsResult(a)
  BY <1>0, <1>1, SequenceResult, PreambleResult, FieldsResult
<1>5. f.ok /\ a.ok
  <2>1. Both(e, Both(b, Both(f, a))).ok
    BY <1>0, <1>3
  <2> HIDE DEF e, b, f, a
  <2>2. IsResult(Both(f, a)) /\ IsResult(Both(b, Both(f, a)))
    BY <1>4, BothResult
  <2>3. Both(b, Both(f, a)).ok
    BY <1>4, <2>1, <2>2, BothResult
  <2>4. Both(f, a).ok
    BY <1>4, <2>2, <2>3, BothResult
  <2> QED BY <1>4, <2>4, BothResult
<1> DEFINE p1 == p + Len(e.bits)
           p3 == p1 + Len(b.bits)
           p4 == p3 + Len(f.bits)
<1>6. /\ Len(e.bits) \in Nat /\ Len(b.bits) \in Nat /\ Len(f.bits) \in Nat /\ Len(a.bits) \in Nat
      /\ Along(tokens, end, p, e.bits)
      /\ p1 \in Nat /\ Along(tokens, end, p1, b.bits)
      /\ p3 \in Nat /\ Along(tokens, end, p3, f.bits)
      /\ p4 \in Nat /\ Along(tokens, end, p4, a.bits)
      /\ Len(w.bits) = Len(e.bits) + (Len(b.bits) + (Len(f.bits) + Len(a.bits)))
  <2> DEFINE fa == Both(f, a)
             bfa == Both(b, fa)
  <2>0. w = Both(e, bfa) /\ Along(tokens, end, p, w.bits)
    BY <1>0, <1>3
  <2> HIDE DEF e, b, f, a, w
  <2>1. IsResult(fa) /\ fa.ok /\ IsResult(bfa) /\ bfa.ok
    BY <1>4, <1>5, BothResult
  <2> HIDE DEF fa, bfa
  <2>2. /\ Len(w.bits) = Len(e.bits) + Len(bfa.bits) /\ Len(e.bits) \in Nat
        /\ Along(tokens, end, p, e.bits) /\ p1 \in Nat /\ Along(tokens, end, p1, bfa.bits)
    BY <1>0, <1>4, <2>0, <2>1, BothCarries
  <2> HIDE DEF p1
  <2>3. /\ Len(bfa.bits) = Len(b.bits) + Len(fa.bits) /\ Len(b.bits) \in Nat
        /\ Along(tokens, end, p1, b.bits) /\ p3 \in Nat /\ Along(tokens, end, p3, fa.bits)
    <3>1. Along(tokens, end, p1, Both(b, fa).bits)
      BY <2>2 DEF bfa
    <3> QED BY <1>0, <1>4, <2>1, <2>2, <3>1, BothCarries DEF bfa
  <2> HIDE DEF p3
  <2>4. /\ Len(fa.bits) = Len(f.bits) + Len(a.bits) /\ Len(f.bits) \in Nat /\ Len(a.bits) \in Nat
        /\ Along(tokens, end, p3, f.bits) /\ p4 \in Nat /\ Along(tokens, end, p4, a.bits)
    <3>1. Along(tokens, end, p3, Both(f, a).bits)
      BY <2>3 DEF fa
    <3> QED BY <1>0, <1>4, <1>5, <2>3, <3>1, BothCarries DEF fa
  <2> QED BY <2>2, <2>3, <2>4
<1>7. TakeExtensionBit(r, input, p) = Outcome(has, p, Len(e.bits), end)
  <2>1. ExtensionBit(r, has) = e
    BY <1>1 DEF ExtensionBit
  <2>2. r.extensible \in BOOLEAN /\ (~r.extensible => ~has)
    <3>1. has => s.extensible
      BY <1>1, LastPresentFacts
    <3> QED BY <1>1, <3>1 DEF IsStruct
  <2>3. has \in BOOLEAN
    OBVIOUS
  <2>4. Along(tokens, end, p, ExtensionBit(r, has).bits)
    BY <1>6, <2>1
  <2> HIDE DEF has, e
  <2>5. TakeExtensionBit(r, Input(tokens, end), p) = Outcome(has, p, Len(ExtensionBit(r, has).bits), end)
    BY <1>0, <2>2, <2>3, <2>4, ExtensionBitCarries
  <2> QED BY <2>1, <2>5
<1>8. p1 <= end => TakePreamble(r.root, input, p1) = Outcome(there, p1, Len(b.bits), end)
  <2> HIDE DEF p1
  <2> QED BY <1>0, <1>1, <1>6, PreambleCarries
<1>9. p3 <= end => TakeFields(r.root, there, input, p3, read) = Outcome(pr, p3, Len(f.bits), end)
  <2>1. \A k \in 1 .. Len(s.root) : there[k] <=> v.root[k] # None
    OBVIOUS
  <2> SUFFICES ASSUME p3 <= end
               PROVE  TakeFields(r.root, there, input, p3, read) = Outcome(pr, p3, Len(f.bits), end)
    OBVIOUS
  <2> HIDE DEF p3, there
  <2>2. FieldsCarried(s, v, code, types, there, known, read, tokens, end, p3)
    BY <1>0, <1>1, <1>5, <1>6, <2>1 DEF FieldsCarried
  <2> QED BY <1>1, <2>2, FieldsCarry
<1>10. p4 <= end => last(has, p4) = Outcome(pm, p4, Len(a.bits), end)
  <2> SUFFICES ASSUME p4 <= end
               PROVE  last(has, p4) = Outcome(pm, p4, Len(a.bits), end)
    OBVIOUS
  <2>1. CASE has
    <3>1. last(has, p4) = TakeAdditions(r.more, input, p4, read)
      BY <1>1, <2>1
    <3> HIDE DEF p4
    <3>2. TakeAdditions(r.more, input, p4, read) = Outcome(pm, p4, Len(a.bits), end)
      <4>1. AdditionsCarried(s, v, code, types, r.more, known, read, tokens, end, p4)
        BY <1>0, <1>1, <1>5, <1>6, <2>1 DEF AdditionsCarried
      <4> QED BY <4>1, AdditionsCarry
    <3> QED BY <3>1, <3>2
  <2>2. CASE ~has
    <3>1. last(has, p4) = Decoded(absent, p4)
      BY <2>2
    <3>2. pm = absent
      <4>1. ASSUME NEW k \in DOMAIN v.more, v.more[k] # None
            PROVE  FALSE
        <5>1. k \in Present(s, v)
          BY <1>1, <4>1, DomainOf DEF Present, IsStruct, AreHeld
        <5> QED BY <2>2, <5>1
      <4> QED BY <4>1 DEF ProjectParts
    <3>3. a = Nothing
      BY <2>2 DEF Additions
    <3>4. Len(a.bits) = 0 /\ p4 + 0 = p4
      BY <1>6, <3>3, NothingResult
    <3> HIDE DEF a, p4, pm, absent, last
    <3> QED BY <3>1, <3>2, <3>4 DEF Outcome
  <2> QED BY <2>1, <2>2
<1>11. \A root : p4 <= end => rest4(has, root, p4) = Outcome(Struct(root, pm), p4, Len(a.bits), end)
  <2> HIDE DEF p4, pm, a, has, last
  <2> QED BY <1>10 DEF Then, Outcome, Decoded, Failed
<1>12. p3 <= end => rest3(has, there, p3) = Outcome(Struct(pr, pm), p3, Len(f.bits) + Len(a.bits), end)
  <2> SUFFICES ASSUME p3 <= end
               PROVE  rest3(has, there, p3) = Outcome(Struct(pr, pm), p3, Len(f.bits) + Len(a.bits), end)
    OBVIOUS
  <2> DEFINE whole == rest3(has, there, p3)
  <2>1. whole = Then(TakeFields(r.root, there, input, p3, read), LAMBDA root, q4 : rest4(has, root, q4))
    OBVIOUS
  <2> HIDE DEF whole, rest4, pr, pm, f, a, there, has
  <2>2. p4 <= end => whole = rest4(has, pr, p4)
    BY <1>9, <2>1 DEF Then, Outcome, Decoded
  <2>3. ~(p4 <= end) => whole = Failed("eof")
    BY <1>9, <2>1 DEF Then, Outcome, Failed
  <2> HIDE DEF p3
  <2>4. whole = Outcome(Struct(pr, pm), p3, Len(f.bits) + Len(a.bits), end)
    <3> DEFINE x == Struct(pr, pm)
               n == Len(f.bits)
               m == Len(a.bits)
    <3>1. IsChain(whole, x, p3, n, m, end)
      BY <1>0, <1>6, <1>11, <2>2, <2>3 DEF IsChain, p4
    <3> HIDE DEF x, n, m
    <3>2. whole = Outcome(x, p3, n + m, end)
      BY <3>1, Chained
    <3> QED BY <3>2 DEF x, n, m
  <2> QED BY <2>4 DEF whole
<1>13. p1 <= end =>
         rest2(has, p1) = Outcome(Struct(pr, pm), p1, Len(b.bits) + (Len(f.bits) + Len(a.bits)), end)
  <2> SUFFICES ASSUME p1 <= end
               PROVE  rest2(has, p1) = Outcome(Struct(pr, pm), p1, Len(b.bits) + (Len(f.bits) + Len(a.bits)), end)
    OBVIOUS
  <2> DEFINE whole == rest2(has, p1)
  <2>1. whole = Then(TakePreamble(r.root, input, p1), LAMBDA th, q3 : rest3(has, th, q3))
    OBVIOUS
  <2> HIDE DEF whole, rest3, pr, pm, b, f, a, there, has
  <2>2. p3 <= end => whole = rest3(has, there, p3)
    BY <1>8, <2>1 DEF Then, Outcome, Decoded
  <2>3. ~(p3 <= end) => whole = Failed("eof")
    BY <1>8, <2>1 DEF Then, Outcome, Failed
  <2>5. Len(f.bits) + Len(a.bits) \in Nat
    <3> DEFINE n == Len(f.bits)
               m == Len(a.bits)
    <3>1. n \in Nat /\ m \in Nat
      BY <1>6
    <3> HIDE DEF n, m
    <3>2. n + m \in Nat
      BY <3>1
    <3> QED BY <3>2 DEF n, m
  <2> HIDE DEF p1
  <2>4. whole = Outcome(Struct(pr, pm), p1, Len(b.bits) + (Len(f.bits) + Len(a.bits)), end)
    <3> DEFINE n == Len(f.bits) + Len(a.bits)
    <3>0. n \in Nat
      BY <2>5
    <3> HIDE DEF n
    <3> DEFINE x == Struct(pr, pm)
               m == Len(b.bits)
    <3>1. IsChain(whole, x, p1, m, n, end)
      BY <1>0, <1>6, <1>12, <2>2, <2>3, <3>0 DEF IsChain, p3, n
    <3> HIDE DEF x, m
    <3>2. whole = Outcome(x, p1, m + n, end)
      BY <3>1, Chained
    <3> QED BY <3>2 DEF x, m, n
  <2> QED BY <2>4 DEF whole
<1>14. rest1(has, p1) = rest2(has, p1)
  <2>1. skip(has, p1) = Decoded(None, p1)
    BY <1>1
  <2> HIDE DEF skip, rest2, has, p1
  <2> QED BY <2>1 DEF Then, Decoded
<1>15. all = Outcome(Struct(pr, pm), p, Len(e.bits) + (Len(b.bits) + (Len(f.bits) + Len(a.bits))), end)
  <2> HIDE DEF rest1, rest2, pr, pm, e, b, f, a, has, all
  <2>2. p1 <= end => all = rest1(has, p1)
    BY <1>2, <1>7 DEF Then, Outcome, Decoded
  <2>3. ~(p1 <= end) => all = Failed("eof")
    BY <1>2, <1>7 DEF Then, Outcome, Failed
  <2> DEFINE n == Len(b.bits) + (Len(f.bits) + Len(a.bits))
  <2>5. n \in Nat
    <3> DEFINE x == Len(b.bits)
               y == Len(f.bits)
               z == Len(a.bits)
    <3>1. x \in Nat /\ y \in Nat /\ z \in Nat
      BY <1>6
    <3> HIDE DEF x, y, z
    <3>2. x + (y + z) \in Nat
      BY <3>1
    <3> QED BY <3>2 DEF x, y, z
  <2> HIDE DEF n
  <2> DEFINE x == Struct(pr, pm)
             m == Len(e.bits)
  <2>6. IsChain(all, x, p, m, n, end)
    BY <1>0, <1>6, <1>13, <1>14, <2>2, <2>3, <2>5 DEF IsChain, p1, n
  <2> HIDE DEF x, m
  <2>7. all = Outcome(x, p, m + n, end)
    BY <2>6, Chained
  <2> QED BY <2>7 DEF x, m, n
<1>16. all = Outcome(SequencePart(r, v, known), p, Len(w.bits), end)
  <2>1. SequencePart(r, v, known) = Struct(pr, pm)
    BY DEF SequencePart
  <2> HIDE DEF all, pr, pm, e, b, f, a, w
  <2> QED BY <1>6, <1>15, <2>1
<1> QED BY <1>16

-----------------------------------------------------------------------------
(* A CHOICE. *)
IsUnion(t, v) ==
  /\ t.kind = "Choice" /\ IsSequence(t.root) /\ IsSequence(t.more) /\ t.root # <<>>
  /\ t.extensible \in BOOLEAN /\ (~t.extensible => t.more = <<>>)
  /\ v = Tagged(v[1], v[2]) /\ v[1] \in Nat

LEMMA UnionFacts ==
  ASSUME NEW package, NEW t, NEW v, IsShape(package, t), IsTyped(t, v), t.kind = "Choice"
  PROVE  IsUnion(t, v)
BY DEF IsUnion, IsShape, IsTyped

LEMMA PartsFacts ==
  ASSUME NEW t, IsSequence(t.root), IsSequence(t.more)
  PROVE  /\ Len(t.root) \in Nat /\ Len(t.more) \in Nat
         /\ IsSequence(Parts(t)) /\ Len(Parts(t)) = Len(t.root) + Len(t.more)
         /\ DOMAIN Parts(t) = 1 .. Len(t.root) + Len(t.more)
         /\ \A k \in 1 .. Len(t.root) : Parts(t)[k] = t.root[k]
         /\ \A k \in 1 .. Len(t.more) : Parts(t)[Len(t.root) + k] = t.more[k]
<1>1. Len(t.root) \in Nat /\ Len(t.more) \in Nat
  BY DomainOf
<1>2. /\ IsSequence(Parts(t)) /\ Len(Parts(t)) = Len(t.root) + Len(t.more)
      /\ \A k \in 1 .. Len(t.root) : Parts(t)[k] = t.root[k]
      /\ \A k \in 1 .. Len(t.more) : Parts(t)[Len(t.root) + k] = t.more[k]
  <2> DEFINE a == t.root
             b == t.more
  <2>1. IsSequence(a) /\ IsSequence(b) /\ Parts(t) = a \o b
    BY DEF Parts
  <2> HIDE DEF a, b
  <2>2. /\ IsSequence(a \o b) /\ Len(a \o b) = Len(a) + Len(b)
        /\ \A k \in 1 .. Len(a) : (a \o b)[k] = a[k]
        /\ \A k \in 1 .. Len(b) : (a \o b)[Len(a) + k] = b[k]
    BY <2>1, Joined
  <2> QED BY <2>1, <2>2 DEF a, b
<1>3. DOMAIN Parts(t) = 1 .. Len(Parts(t))
  BY <1>2, DomainOf
<1> QED BY <1>1, <1>2, <1>3

LEMMA ChoiceInside ==
  ASSUME NEW types, NEW t, NEW v, IsUnion(t, v)
  PROVE  /\ v[1] \in DOMAIN Parts(t) => Inside(types, <<t, v>>) = {<<Parts(t)[v[1]].type, v[2]>>}
         /\ v[1] \notin DOMAIN Parts(t) => Inside(types, <<t, v>>) = {}
<1>1. Inside(types, <<t, v>>) = {<<Parts(t)[k].type, v[2]>> : k \in {j \in DOMAIN Parts(t) : j = v[1]}}
  BY DEF Inside, IsUnion
<1> QED BY <1>1

LEMMA ChoiceCases ==
  ASSUME NEW t, NEW v, IsUnion(t, v), NEW code
  PROVE  /\ Len(t.root) \in Nat /\ DOMAIN Parts(t) = 1 .. Len(t.root) + Len(t.more) /\ Len(t.more) \in Nat
         /\ v[1] \in 1 .. Len(t.root) =>
              EncodeChoice(t, v, code) =
                Both(ExtensionBit(t, FALSE), Both(Index(Len(t.root), v[1]), code[<<Parts(t)[v[1]].type, v[2]>>]))
         /\ v[1] \in DOMAIN Parts(t) /\ v[1] \notin 1 .. Len(t.root) =>
              /\ v[1] > Len(t.root) /\ v[1] - Len(t.root) - 1 \in Nat
              /\ EncodeChoice(t, v, code) =
                   Both(One("bit", TRUE), Both(One("small", v[1] - Len(t.root) - 1),
                                               Open(code[<<Parts(t)[v[1]].type, v[2]>>])))
         /\ v[1] \notin DOMAIN Parts(t) => EncodeChoice(t, v, code) = Refused
<1> DEFINE n == Len(t.root)
           m == Len(t.more)
           x == v[1]
           c == code[<<Parts(t)[v[1]].type, v[2]>>]
           y == Both(ExtensionBit(t, FALSE), Both(Index(n, x), c))
           z == Both(One("bit", TRUE), Both(One("small", x - n - 1), Open(c)))
           w == EncodeChoice(t, v, code)
<1>1. DOMAIN Parts(t) = 1 .. n + m /\ n \in Nat /\ m \in Nat /\ x \in Nat
  BY PartsFacts DEF IsUnion
<1>2. w = CASE x \in 1 .. n -> y [] x \in n + 1 .. n + m -> z [] OTHER -> Refused
  BY Zenon DEF EncodeChoice
<1> HIDE DEF n, m, x, c, y, z, w
<1>3. /\ x \in 1 .. n => w = y
      /\ x \in 1 .. n + m /\ x \notin 1 .. n => x > n /\ x - n - 1 \in Nat /\ w = z
      /\ x \notin 1 .. n + m => w = Refused
  BY <1>1, <1>2
<1> QED BY <1>1, <1>3 DEF n, m, x, c, y, z, w

LEMMA ChoiceResult ==
  ASSUME NEW t, NEW v, IsUnion(t, v), NEW code, NEW types, AllResults(Inside(types, <<t, v>>), code)
  PROVE  /\ IsResult(EncodeChoice(t, v, code))
         /\ EncodeChoice(t, v, code).ok <=> v[1] \in DOMAIN Parts(t) /\ AllOk(Inside(types, <<t, v>>), code)
<1> DEFINE n == Len(t.root)
           c == code[<<Parts(t)[v[1]].type, v[2]>>]
           e == ExtensionBit(t, FALSE)
           i == Index(n, v[1])
           b == One("bit", TRUE)
           s == One("small", v[1] - n - 1)
           w == EncodeChoice(t, v, code)
<1>1. CASE v[1] \notin DOMAIN Parts(t)
  <2>1. w = Refused
    BY <1>1, ChoiceCases
  <2> QED BY <1>1, <2>1, RefusedResult
<1>2. CASE v[1] \in DOMAIN Parts(t)
  <2>1. IsResult(c) /\ (AllOk(Inside(types, <<t, v>>), code) <=> c.ok)
    BY <1>2, ChoiceInside DEF AllResults, AllOk
  <2>2. /\ IsResult(e) /\ e.ok /\ IsResult(i) /\ i.ok /\ IsResult(b) /\ b.ok /\ IsResult(s) /\ s.ok
    BY OneResult, NothingResult, IndexResult DEF ExtensionBit
  <2>3. CASE v[1] \in 1 .. n
    <3>1. w = Both(e, Both(i, c))
      BY <2>3, ChoiceCases
    <3> HIDE DEF w, e, i, c, n
    <3>2. IsResult(Both(i, c)) /\ (Both(i, c).ok <=> c.ok)
      BY <2>1, <2>2, BothResult
    <3>3. IsResult(w) /\ (w.ok <=> c.ok)
      BY <2>2, <3>1, <3>2, BothResult
    <3> QED BY <1>2, <2>1, <3>3 DEF w
  <2>4. CASE v[1] \notin 1 .. n
    <3>1. w = Both(b, Both(s, Open(c)))
      BY <1>2, <2>4, ChoiceCases
    <3> HIDE DEF w, b, s, c, n
    <3>4. IsResult(Open(c)) /\ (Open(c).ok <=> c.ok)
      BY <2>1, OpenResult
    <3>2. IsResult(Both(s, Open(c))) /\ (Both(s, Open(c)).ok <=> c.ok)
      BY <2>2, <3>4, BothResult
    <3>3. IsResult(w) /\ (w.ok <=> c.ok)
      BY <2>2, <3>1, <3>2, BothResult
    <3> QED BY <1>2, <2>1, <3>3 DEF w
  <2> QED BY <2>3, <2>4
<1> QED BY <1>1, <1>2

UnionVersions(s, r, v) ==
  /\ IsUnion(s, v) /\ r.kind = "Choice" /\ r.root = s.root /\ r.extensible = s.extensible
  /\ IsSequence(r.more)
  /\ \A k \in 1 .. Len(r.more) : k <= Len(s.more) => r.more[k].type = s.more[k].type

LEMMA AlternativesAgree ==
  ASSUME NEW s, NEW r, NEW v, UnionVersions(s, r, v), NEW k \in DOMAIN Parts(s), k \in DOMAIN Parts(r)
  PROVE  Parts(r)[k].type = Parts(s)[k].type
<1> DEFINE n == Len(s.root)
           a == Len(s.more)
           b == Len(r.more)
<1>1. /\ n \in Nat /\ a \in Nat /\ DOMAIN Parts(s) = 1 .. n + a
      /\ \A j \in 1 .. n : Parts(s)[j] = s.root[j]
      /\ \A j \in 1 .. a : Parts(s)[n + j] = s.more[j]
  BY PartsFacts DEF UnionVersions, IsUnion
<1>2. /\ b \in Nat /\ DOMAIN Parts(r) = 1 .. n + b
      /\ \A j \in 1 .. n : Parts(r)[j] = s.root[j]
      /\ \A j \in 1 .. b : Parts(r)[n + j] = r.more[j]
  <2>1. IsSequence(r.root) /\ IsSequence(r.more) /\ r.root = s.root
    BY DEF UnionVersions, IsUnion
  <2>2. /\ Len(r.more) \in Nat /\ DOMAIN Parts(r) = 1 .. Len(r.root) + Len(r.more)
        /\ \A j \in 1 .. Len(r.root) : Parts(r)[j] = r.root[j]
        /\ \A j \in 1 .. Len(r.more) : Parts(r)[Len(r.root) + j] = r.more[j]
    BY <2>1, PartsFacts
  <2> QED BY <2>1, <2>2
<1>3. \A j \in 1 .. b : j <= a => r.more[j].type = s.more[j].type
  BY DEF UnionVersions
<1> HIDE DEF n, a, b
<1>4. CASE k \in 1 .. n
  BY <1>1, <1>2, <1>4
<1>5. CASE k \notin 1 .. n
  <2> DEFINE j == k - n
  <2>1. j \in 1 .. a /\ j \in 1 .. b /\ j <= a /\ k = n + j
    BY <1>1, <1>2, <1>5
  <2> HIDE DEF j
  <2>2. Parts(s)[n + j] = s.more[j] /\ Parts(r)[n + j] = r.more[j]
    BY <1>1, <1>2, <2>1
  <2> QED BY <1>3, <2>1, <2>2
<1> QED BY <1>4, <1>5

ChoicePart(t, v, known) ==
  IF v[1] \in DOMAIN Parts(t) THEN Tagged(v[1], known[<<Parts(t)[v[1]].type, v[2]>>]) ELSE Unset

ChoiceCarried(s, r, v, code, types, known, read, tokens, end, p) ==
  /\ UnionVersions(s, r, v) /\ AllResults(Inside(types, <<s, v>>), code)
  /\ EncodeChoice(s, v, code).ok
  /\ v[1] \in DOMAIN Parts(r) =>
       ReadsPart(read, Parts(s)[v[1]].type, tokens, code[<<Parts(s)[v[1]].type, v[2]>>].bits,
                 known[<<Parts(s)[v[1]].type, v[2]>>])
  /\ end \in Nat /\ p \in Nat /\ p <= end /\ Along(tokens, end, p, EncodeChoice(s, v, code).bits)

AlternativeCarried(c, r, k, x, read, tokens, end, p) ==
  /\ IsResult(c) /\ c.ok /\ ReadsPart(read, Parts(r)[k].type, tokens, c.bits, x)
  /\ end \in Nat /\ p \in Nat /\ p <= end /\ Along(tokens, end, p, c.bits)

LEMMA AlternativeCarries ==
  ASSUME NEW c, NEW r, NEW k, NEW x, NEW read, NEW tokens, NEW end, NEW p,
         AlternativeCarried(c, r, k, x, read, tokens, end, p)
  PROVE  TakeAlternative(r, k, end, p, read) = Outcome(Tagged(k, x), p, Len(c.bits), end)
<1>1. read[<<Parts(r)[k].type, end, p>>] = Outcome(x, p, Len(c.bits), end)
  BY DEF AlternativeCarried, ReadsPart
<1> QED BY <1>1 DEF TakeAlternative, Then, Outcome, Decoded, Failed

AddedAlternativeCarried(c, r, i, x, read, tokens, end, p) ==
  /\ IsResult(c) /\ c.ok /\ Len(r.more) \in Nat /\ i \in Nat
  /\ i < Len(r.more) => ReadsPart(read, Parts(r)[Len(r.root) + i + 1].type, tokens, c.bits, x)
  /\ end \in Nat /\ p \in Nat /\ p <= end
  /\ Along(tokens, end, p, Both(One("small", i), Open(c)).bits)

LEMMA AddedAlternativeCarries ==
  ASSUME NEW c, NEW r, NEW i, NEW x, NEW read, NEW tokens, NEW end, NEW p,
         AddedAlternativeCarried(c, r, i, x, read, tokens, end, p)
  PROVE  TakeAddedAlternative(r, Input(tokens, end), p, read) =
           Outcome(IF i < Len(r.more) THEN Tagged(Len(r.root) + i + 1, x) ELSE Unset,
                   p, Len(Both(One("small", i), Open(c)).bits), end)
<1>0. /\ IsResult(c) /\ c.ok /\ Len(r.more) \in Nat /\ i \in Nat
      /\ i < Len(r.more) => ReadsPart(read, Parts(r)[Len(r.root) + i + 1].type, tokens, c.bits, x)
      /\ end \in Nat /\ p \in Nat /\ p <= end
      /\ Along(tokens, end, p, Both(One("small", i), Open(c)).bits)
  BY DEF AddedAlternativeCarried
<1> DEFINE s == One("small", i)
           o == Open(c)
           w == Both(s, o)
           input == Input(tokens, end)
           k == Len(r.root) + i + 1
           l == Len(r.more)
           y == IF i < l THEN Tagged(k, x) ELSE Unset
           after(q) == Then(TakeOpen(input, q), LAMBDA at, used :
                         IF i >= l THEN Decoded(Unset, used)
                         ELSE Then(TakeAlternative(r, k, used, at, read), LAMBDA v, u : Decoded(v, used)))
           all == TakeAddedAlternative(r, input, p, read)
<1>1. IsResult(s) /\ s.ok /\ s.bits = <<Token("small", i)>> /\ Len(s.bits) = 1
  BY OneResult
<1>2. IsResult(o) /\ o.ok
  BY <1>0, OpenResult
<1>3. /\ Len(o.bits) \in Nat /\ Len(w.bits) = 1 + Len(o.bits)
      /\ Along(tokens, end, p, s.bits) /\ Along(tokens, end, p + 1, o.bits)
  <2>1. Along(tokens, end, p, Both(s, o).bits)
    BY <1>0
  <2> HIDE DEF s, o
  <2>2. IsResult(s) /\ s.ok
    BY <1>1
  <2>3. /\ Len(o.bits) \in Nat /\ Len(Both(s, o).bits) = Len(s.bits) + Len(o.bits)
        /\ Along(tokens, end, p, s.bits) /\ Along(tokens, end, p + Len(s.bits), o.bits)
    BY <1>0, <1>2, <2>1, <2>2, BothCarries
  <2> QED BY <1>1, <2>3
<1>4. Take(input, p, "small") = Outcome(i, p, 1, end)
  BY <1>0, <1>1, <1>3, TakeCarries
<1>5. p + 1 <= end => after(p + 1) = Outcome(y, p + 1, Len(o.bits), end)
  <2> SUFFICES ASSUME p + 1 <= end
               PROVE  after(p + 1) = Outcome(y, p + 1, Len(o.bits), end)
    OBVIOUS
  <2> DEFINE q == p + 1
             n == Len(o.bits)
             m == Len(c.bits)
  <2>0. q \in Nat /\ q <= end /\ Along(tokens, end, q, o.bits)
    BY <1>0, <1>3
  <2> HIDE DEF q
  <2>1. TakeOpen(input, q) = Outcome(q + 1, q, n, end)
    BY <1>0, <2>0, OpenCarries
  <2>2. q + n <= end => /\ q + 1 <= q + n /\ q + n \in Nat
                        /\ (q + 1) + m = q + n
                        /\ Along(tokens, q + n, q + 1, c.bits)
    BY <1>0, <2>0, OpenCarries
  <2>3. after(q) = Then(TakeOpen(input, q), LAMBDA at, used :
                     IF i >= l THEN Decoded(Unset, used)
                     ELSE Then(TakeAlternative(r, k, used, at, read), LAMBDA v, u : Decoded(v, used)))
    OBVIOUS
  <2>4. i < l => ReadsPart(read, Parts(r)[k].type, tokens, c.bits, x)
    BY <1>0
  <2>5. (i >= l <=> ~(i < l))
    BY <1>0
  <2>6. y = IF i < l THEN Tagged(k, x) ELSE Unset
    OBVIOUS
  <2> HIDE DEF after, n, m, input, k, l, y
  <2>7. CASE ~(q + n <= end)
    <3>1. TakeOpen(input, q) = Failed("eof")
      BY <2>1, <2>7 DEF Outcome
    <3>2. after(q) = Failed("eof")
      BY <2>3, <3>1 DEF Then, Failed
    <3> QED BY <2>7, <3>2 DEF Outcome, n, q
  <2>8. CASE q + n <= end /\ i >= l
    <3>1. TakeOpen(input, q) = Decoded(q + 1, q + n)
      BY <2>1, <2>8 DEF Outcome
    <3>2. after(q) = Decoded(Unset, q + n)
      BY <2>3, <2>8, <3>1 DEF Then, Decoded
    <3>3. y = Unset
      BY <2>5, <2>6, <2>8
    <3> QED BY <2>8, <3>2, <3>3 DEF Outcome, n, q
  <2>9. CASE q + n <= end /\ i < l
    <3>1. TakeOpen(input, q) = Decoded(q + 1, q + n)
      BY <2>1, <2>9 DEF Outcome
    <3>2. AlternativeCarried(c, r, k, x, read, tokens, q + n, q + 1)
      <4>1. q + 1 \in Nat
        BY <2>0
      <4> QED BY <1>0, <2>2, <2>4, <2>9, <4>1 DEF AlternativeCarried
    <3>3. TakeAlternative(r, k, q + n, q + 1, read) = Outcome(Tagged(k, x), q + 1, m, q + n)
      BY <3>2, AlternativeCarries DEF m
    <3>4. TakeAlternative(r, k, q + n, q + 1, read) = Decoded(Tagged(k, x), q + n)
      BY <2>2, <2>9, <3>3 DEF Outcome
    <3>5. after(q) = Decoded(Tagged(k, x), q + n)
      BY <2>3, <2>5, <2>9, <3>1, <3>4 DEF Then, Decoded
    <3>6. y = Tagged(k, x)
      BY <2>6, <2>9
    <3> QED BY <2>9, <3>5, <3>6 DEF Outcome, n, q
  <2>10. ~(i < l) => i >= l
    BY <2>5
  <2> QED BY <2>7, <2>8, <2>9, <2>10
<1>6. all = Then(Take(input, p, "small"), LAMBDA j, q :
              Then(TakeOpen(input, q), LAMBDA at, used :
                IF j >= Len(r.more) THEN Decoded(Unset, used)
                ELSE Then(TakeAlternative(r, Len(r.root) + j + 1, used, at, read), LAMBDA v, u : Decoded(v, used))))
  BY DEF TakeAddedAlternative
<1>7. p + 1 <= end => all = after(p + 1)
  <2> SUFFICES ASSUME p + 1 <= end
               PROVE  all = after(p + 1)
    OBVIOUS
  <2>1. Take(input, p, "small") = Decoded(i, p + 1)
    BY <1>4 DEF Outcome
  <2> HIDE DEF all, input
  <2> QED BY <1>6, <2>1 DEF Then, Decoded
<1>8. ~(p + 1 <= end) => all = Failed("eof")
  <2> HIDE DEF all, input
  <2> QED BY <1>4, <1>6 DEF Then, Outcome, Failed
<1> DEFINE n == Len(o.bits)
<1>9. IsChain(all, y, p, 1, n, end)
  <2> HIDE DEF all, y, after
  <2> QED BY <1>0, <1>3, <1>5, <1>7, <1>8 DEF IsChain
<1>10. Len(w.bits) = 1 + n
  BY <1>3
<1> HIDE DEF n, all, y, w
<1>11. all = Outcome(y, p, 1 + n, end)
  BY <1>9, Chained
<1> QED BY <1>10, <1>11 DEF all, y, w

LEMMA ChoiceCarries ==
  ASSUME NEW s, NEW r, NEW v, NEW code, NEW types, NEW known, NEW read, NEW tokens, NEW end, NEW p,
         ChoiceCarried(s, r, v, code, types, known, read, tokens, end, p)
  PROVE  DecodeChoice(r, Input(tokens, end), p, read) =
           Outcome(ChoicePart(r, v, known), p, Len(EncodeChoice(s, v, code).bits), end)
<1>0. /\ UnionVersions(s, r, v) /\ AllResults(Inside(types, <<s, v>>), code)
      /\ EncodeChoice(s, v, code).ok
      /\ v[1] \in DOMAIN Parts(r) =>
           ReadsPart(read, Parts(s)[v[1]].type, tokens, code[<<Parts(s)[v[1]].type, v[2]>>].bits,
                     known[<<Parts(s)[v[1]].type, v[2]>>])
      /\ end \in Nat /\ p \in Nat /\ p <= end /\ Along(tokens, end, p, EncodeChoice(s, v, code).bits)
  BY DEF ChoiceCarried
<1>1. /\ IsUnion(s, v) /\ r.root = s.root /\ r.extensible = s.extensible /\ IsSequence(r.more)
      /\ \A k \in 1 .. Len(r.more) : k <= Len(s.more) => r.more[k].type = s.more[k].type
  BY <1>0 DEF UnionVersions
<1>2. /\ IsSequence(s.root) /\ IsSequence(s.more) /\ s.root # <<>> /\ v[1] \in Nat
      /\ s.extensible \in BOOLEAN /\ (~s.extensible => s.more = <<>>)
  BY <1>1 DEF IsUnion
<1> DEFINE n == Len(s.root)
           k == v[1]
           c == code[<<Parts(s)[k].type, v[2]>>]
           x == known[<<Parts(s)[k].type, v[2]>>]
           w == EncodeChoice(s, v, code)
           y == ChoicePart(r, v, known)
           input == Input(tokens, end)
           rest(isExt, at) ==
             IF isExt THEN TakeAddedAlternative(r, input, at, read)
             ELSE Then(TakeIndex(Len(r.root), input, at), LAMBDA j, q : TakeAlternative(r, j, input.end, q, read))
           all == DecodeChoice(r, input, p, read)
<1>3. k \in DOMAIN Parts(s) /\ IsResult(c) /\ c.ok
  <2>1. k \in DOMAIN Parts(s) /\ AllOk(Inside(types, <<s, v>>), code)
    BY <1>0, <1>1, ChoiceResult
  <2>2. Inside(types, <<s, v>>) = {<<Parts(s)[k].type, v[2]>>}
    BY <1>1, <2>1, ChoiceInside
  <2> QED BY <1>0, <2>1, <2>2 DEF AllResults, AllOk
<1>4. /\ n \in Nat /\ Len(s.more) \in Nat /\ DOMAIN Parts(s) = 1 .. n + Len(s.more)
      /\ \A j \in 1 .. n : Parts(s)[j] = s.root[j]
      /\ \A j \in 1 .. Len(s.more) : Parts(s)[n + j] = s.more[j]
  BY <1>2, PartsFacts
<1>5. /\ Len(r.more) \in Nat /\ DOMAIN Parts(r) = 1 .. n + Len(r.more)
      /\ \A j \in 1 .. n : Parts(r)[j] = s.root[j]
      /\ \A j \in 1 .. Len(r.more) : Parts(r)[n + j] = r.more[j]
  <2>1. IsSequence(r.root) /\ IsSequence(r.more)
    BY <1>1, <1>2
  <2>2. /\ Len(r.more) \in Nat /\ DOMAIN Parts(r) = 1 .. Len(r.root) + Len(r.more)
        /\ \A j \in 1 .. Len(r.root) : Parts(r)[j] = r.root[j]
        /\ \A j \in 1 .. Len(r.more) : Parts(r)[Len(r.root) + j] = r.more[j]
    BY <2>1, PartsFacts
  <2> QED BY <1>1, <2>2
<1>55. ASSUME k \in 1 .. n
       PROVE  k \in DOMAIN Parts(r) /\ Parts(r)[k] = Parts(s)[k]
  <2> HIDE DEF n, k
  <2>1. k \in 1 .. n + Len(r.more)
    BY <1>4, <1>5, <1>55
  <2> QED BY <1>4, <1>5, <1>55, <2>1
<1>56. ASSUME k \notin 1 .. n
       PROVE  k - n - 1 \in Nat /\ k - n - 1 < Len(s.more) /\ k = n + ((k - n - 1) + 1)
  <2>1. k \in 1 .. n + Len(s.more) /\ k \in Nat
    BY <1>2, <1>3, <1>4
  <2>2. n \in Nat /\ Len(s.more) \in Nat
    BY <1>4
  <2> HIDE DEF n, k
  <2> QED BY <1>56, <2>1, <2>2
<1>6. all = Then(TakeExtensionBit(r, input, p), LAMBDA isExt, at : rest(isExt, at))
  BY DEF DecodeChoice
<1>7. ASSUME NEW h \in BOOLEAN, ~s.extensible => ~h, Along(tokens, end, p, ExtensionBit(s, h).bits)
      PROVE  TakeExtensionBit(r, input, p) = Outcome(h, p, Len(ExtensionBit(s, h).bits), end)
  <2>1. ExtensionBit(r, h) = ExtensionBit(s, h)
    BY <1>1 DEF ExtensionBit
  <2>2. r.extensible \in BOOLEAN /\ (~r.extensible => ~h) /\ Along(tokens, end, p, ExtensionBit(r, h).bits)
    BY <1>1, <1>2, <1>7, <2>1
  <2>3. TakeExtensionBit(r, Input(tokens, end), p) = Outcome(h, p, Len(ExtensionBit(r, h).bits), end)
    BY <1>0, <2>2, ExtensionBitCarries
  <2> QED BY <2>1, <2>3
<1> DEFINE e(h) == ExtensionBit(s, h)
<1>8. \A h \in BOOLEAN : IsResult(e(h)) /\ e(h).ok
  BY OneResult, NothingResult DEF ExtensionBit
<1>9. CASE k \in 1 .. n
  <2> DEFINE i == Index(n, k)
             ic == Both(i, c)
  <2>1. w = Both(e(FALSE), ic)
    BY <1>1, <1>9, ChoiceCases
  <2>2. IsResult(i) /\ i.ok /\ IsResult(ic) /\ ic.ok
    <3>1. IsResult(i) /\ i.ok
      BY IndexResult
    <3> HIDE DEF i, c
    <3> QED BY <1>3, <3>1, BothResult
  <2> DEFINE f == e(FALSE)
             p1 == p + Len(f.bits)
             p2 == p1 + Len(i.bits)
  <2>3. IsResult(f) /\ f.ok
    BY <1>8
  <2>4. /\ Len(w.bits) = Len(f.bits) + Len(ic.bits) /\ Len(f.bits) \in Nat
        /\ Along(tokens, end, p, f.bits) /\ p1 \in Nat /\ Along(tokens, end, p1, ic.bits)
    <3>1. Along(tokens, end, p, Both(f, ic).bits) /\ w = Both(f, ic)
      BY <1>0, <2>1
    <3> HIDE DEF f, ic, w
    <3> QED BY <1>0, <2>2, <2>3, <3>1, BothCarries
  <2>5. /\ Len(ic.bits) = Len(i.bits) + Len(c.bits) /\ Len(i.bits) \in Nat /\ Len(c.bits) \in Nat
        /\ Along(tokens, end, p1, i.bits) /\ p2 \in Nat /\ Along(tokens, end, p2, c.bits)
    <3>1. Along(tokens, end, p1, Both(i, c).bits) /\ p1 \in Nat
      BY <2>4
    <3> HIDE DEF i, c, p1
    <3> QED BY <1>0, <1>3, <2>2, <3>1, BothCarries
  <2>6. TakeExtensionBit(r, input, p) = Outcome(FALSE, p, Len(f.bits), end)
    BY <1>7, <2>4
  <2>7. p1 <= end => TakeIndex(Len(r.root), input, p1) = Outcome(k, p1, Len(i.bits), end)
    <3> SUFFICES ASSUME p1 <= end
                 PROVE  TakeIndex(n, input, p1) = Outcome(k, p1, Len(i.bits), end)
      BY <1>1
    <3>1. p1 \in Nat /\ Along(tokens, end, p1, Index(n, k).bits)
      BY <2>4, <2>5
    <3>2. n \in Nat /\ k \in 1 .. n /\ end \in Nat
      BY <1>0, <1>4, <1>9
    <3> HIDE DEF p1, n, k
    <3>3. IndexCarried(n, k, tokens, end, p1)
      BY <3>1, <3>2 DEF IndexCarried
    <3> QED BY <3>3, IndexCarries
  <2>8. p2 <= end => TakeAlternative(r, k, end, p2, read) = Outcome(Tagged(k, x), p2, Len(c.bits), end)
    <3> SUFFICES ASSUME p2 <= end
                 PROVE  TakeAlternative(r, k, end, p2, read) = Outcome(Tagged(k, x), p2, Len(c.bits), end)
      OBVIOUS
    <3>1. Parts(r)[k] = Parts(s)[k] /\ k \in DOMAIN Parts(r)
      BY <1>9, <1>55
    <3>2. ReadsPart(read, Parts(r)[k].type, tokens, c.bits, x)
      BY <1>0, <3>1
    <3>3. AlternativeCarried(c, r, k, x, read, tokens, end, p2)
      <4> HIDE DEF p2, c, x, k
      <4> QED BY <1>0, <1>3, <2>5, <3>2 DEF AlternativeCarried
    <3> HIDE DEF p2, c, x, k
    <3> QED BY <3>3, AlternativeCarries
  <2>9. y = Tagged(k, x)
    <3>1. k \in DOMAIN Parts(r) /\ Parts(r)[k] = Parts(s)[k]
      BY <1>9, <1>55
    <3> QED BY <3>1 DEF ChoicePart
  <2> DEFINE z == Tagged(k, x)
             nf == Len(f.bits)
             ni == Len(i.bits)
             nc == Len(c.bits)
             inner == rest(FALSE, p1)
  <2>10. inner = Then(TakeIndex(Len(r.root), input, p1), LAMBDA j, q : TakeAlternative(r, j, end, q, read))
    BY DEF Input
  <2>13. IsChain(inner, z, p1, ni, nc, end) \/ ~(p1 <= end)
    <3> SUFFICES ASSUME p1 <= end
                 PROVE  IsChain(inner, z, p1, ni, nc, end)
      OBVIOUS
    <3>1. ni \in Nat /\ nc \in Nat /\ p1 \in Nat /\ end \in Nat
      BY <1>0, <2>4, <2>5
    <3> HIDE DEF inner, z, f, i, c
    <3>2. p2 <= end => inner = TakeAlternative(r, k, end, p2, read)
      BY <2>7, <2>10 DEF Then, Outcome, Decoded
    <3>3. ~(p2 <= end) => inner = Failed("eof")
      BY <2>7, <2>10 DEF Then, Outcome, Failed
    <3> QED BY <2>8, <3>1, <3>2, <3>3 DEF IsChain, z
  <2>14. p1 <= end => inner = Outcome(z, p1, ni + nc, end)
    <3> HIDE DEF inner, z, p1, ni, nc
    <3> QED BY <2>13, Chained
  <2>15. IsChain(all, z, p, nf, ni + nc, end)
    <3>1. nf \in Nat /\ ni \in Nat /\ nc \in Nat
      BY <2>4, <2>5
    <3>2. p1 = p + nf
      OBVIOUS
    <3> HIDE DEF all, z, rest, ni, nc
    <3>3. p1 <= end => all = rest(FALSE, p1)
      BY <1>6, <2>6 DEF Then, Outcome, Decoded
    <3>4. ~(p1 <= end) => all = Failed("eof")
      BY <1>6, <2>6 DEF Then, Outcome, Failed
    <3> HIDE DEF nf, p1
    <3>5. ni + nc \in Nat
      BY <3>1
    <3> QED BY <1>0, <2>14, <3>1, <3>2, <3>3, <3>4, <3>5 DEF IsChain
  <2>16. Len(w.bits) = nf + (ni + nc)
    BY <2>4, <2>5
  <2> HIDE DEF all, z, nf, ni, nc, w, y
  <2> DEFINE nn == ni + nc
  <2>17. IsChain(all, z, p, nf, nn, end)
    BY <2>15
  <2> HIDE DEF nn
  <2>18. all = Outcome(z, p, nf + nn, end)
    BY <2>17, Chained
  <2>19. y = z /\ Len(w.bits) = nf + nn
    BY <2>9, <2>16 DEF z, nn
  <2> QED BY <2>18, <2>19 DEF all, y, w
<1>10. CASE k \notin 1 .. n
  <2> DEFINE i == k - n - 1
             f == One("bit", TRUE)
             a == Both(One("small", i), Open(c))
             p1 == p + Len(f.bits)
             na == Len(a.bits)
  <2>1. w = Both(f, a) /\ i \in Nat /\ k > n
    BY <1>1, <1>3, <1>10, ChoiceCases
  <2>2. s.extensible /\ f = e(TRUE)
    <3>1. s.extensible
      <4>1. Len(s.more) # 0
        <5>1. Len(s.more) \in Nat
          BY <1>4
        <5> HIDE DEF n, k
        <5> QED BY <1>10, <1>56, <5>1
      <4> QED BY <1>2, <4>1, EmptySequence
    <3> QED BY <3>1 DEF ExtensionBit
  <2>3. IsResult(f) /\ f.ok /\ IsResult(a) /\ a.ok
    <3>1. IsResult(One("small", i)) /\ One("small", i).ok /\ IsResult(f) /\ f.ok
      BY OneResult
    <3>2. IsResult(Open(c)) /\ Open(c).ok
      <4> HIDE DEF c
      <4> QED BY <1>3, OpenResult
    <3> HIDE DEF c, f
    <3> QED BY <3>1, <3>2, BothResult
  <2>4. /\ Len(w.bits) = Len(f.bits) + na /\ Len(f.bits) \in Nat /\ na \in Nat
        /\ Along(tokens, end, p, f.bits) /\ p1 \in Nat /\ Along(tokens, end, p1, a.bits)
    <3>1. Along(tokens, end, p, Both(f, a).bits) /\ w = Both(f, a)
      BY <1>0, <2>1
    <3> HIDE DEF f, a, w
    <3> QED BY <1>0, <2>3, <3>1, BothCarries
  <2>5. TakeExtensionBit(r, input, p) = Outcome(TRUE, p, Len(f.bits), end)
    BY <1>7, <2>2, <2>4
  <2>6. i + 1 \in Nat /\ k = n + i + 1 /\ k = n + (i + 1)
    BY <1>2, <1>4, <2>1
  <2>7. i < Len(r.more) => ReadsPart(read, Parts(r)[Len(r.root) + i + 1].type, tokens, c.bits, x)
    <3> SUFFICES ASSUME i < Len(r.more)
                 PROVE  ReadsPart(read, Parts(r)[k].type, tokens, c.bits, x)
      BY <1>1, <2>6
    <3>1. i + 1 \in 1 .. Len(r.more) /\ i + 1 \in 1 .. Len(s.more) /\ i + 1 <= Len(s.more)
      <4>1. i \in Nat /\ i < Len(s.more) /\ Len(s.more) \in Nat /\ Len(r.more) \in Nat
        BY <1>4, <1>5, <1>10, <1>56
      <4> HIDE DEF i
      <4> QED BY <4>1
    <3>2. Parts(r)[n + (i + 1)] = r.more[i + 1] /\ Parts(s)[n + (i + 1)] = s.more[i + 1]
      BY <1>4, <1>5, <3>1
    <3>3. r.more[i + 1].type = s.more[i + 1].type
      BY <1>1, <3>1
    <3>4. Parts(r)[k].type = Parts(s)[k].type
      BY <2>6, <3>2, <3>3
    <3>5. k \in DOMAIN Parts(r)
      <4>1. n + (i + 1) \in 1 .. n + Len(r.more)
        <5> HIDE DEF n, i
        <5> QED BY <1>4, <1>5, <3>1
      <4> QED BY <1>5, <2>6, <4>1
    <3> QED BY <1>0, <3>4, <3>5
  <2> DEFINE z == IF i < Len(r.more) THEN Tagged(Len(r.root) + i + 1, x) ELSE Unset
  <2>8. p1 <= end => TakeAddedAlternative(r, input, p1, read) = Outcome(z, p1, na, end)
    <3> SUFFICES ASSUME p1 <= end
                 PROVE  TakeAddedAlternative(r, input, p1, read) = Outcome(z, p1, na, end)
      OBVIOUS
    <3>1. AddedAlternativeCarried(c, r, i, x, read, tokens, end, p1)
      BY <1>0, <1>3, <1>5, <2>1, <2>4, <2>7 DEF AddedAlternativeCarried
    <3> HIDE DEF c, i, x, p1
    <3> QED BY <3>1, AddedAlternativeCarries
  <2>9. y = z
    <3>1. CASE i < Len(r.more)
      <4>1. i + 1 \in 1 .. Len(r.more) /\ i + 1 \in 1 .. Len(s.more) /\ i + 1 <= Len(s.more)
        <5>1. i \in Nat /\ i < Len(s.more) /\ Len(s.more) \in Nat /\ Len(r.more) \in Nat
          BY <1>4, <1>5, <1>10, <1>56
        <5> HIDE DEF i
        <5> QED BY <3>1, <5>1
      <4>2. Parts(r)[n + (i + 1)] = r.more[i + 1] /\ Parts(s)[n + (i + 1)] = s.more[i + 1]
        BY <1>4, <1>5, <4>1
      <4>3. r.more[i + 1].type = s.more[i + 1].type
        BY <1>1, <4>1
      <4>4. Parts(r)[k].type = Parts(s)[k].type
        BY <2>6, <4>2, <4>3
      <4>5. k \in DOMAIN Parts(r)
        <5>1. DOMAIN Parts(r) = 1 .. n + Len(r.more)
          BY <1>5
        <5> HIDE DEF k, n, i
        <5> QED BY <1>4, <1>5, <2>6, <3>1, <5>1, <4>1
      <4>6. z = Tagged(k, x)
        BY <1>1, <2>6, <3>1
      <4> HIDE DEF z
      <4> QED BY <4>4, <4>5, <4>6 DEF ChoicePart
    <3>2. CASE ~(i < Len(r.more))
      <4>1. k \notin DOMAIN Parts(r)
        <5>1. DOMAIN Parts(r) = 1 .. n + Len(r.more)
          BY <1>5
        <5> HIDE DEF k, n, i
        <5> QED BY <1>4, <1>5, <2>1, <2>6, <3>2, <5>1
      <4> QED BY <3>2, <4>1 DEF ChoicePart
    <3> QED BY <3>1, <3>2
  <2> DEFINE nf == Len(f.bits)
  <2>15. IsChain(all, z, p, nf, na, end)
    <3>1. nf \in Nat /\ na \in Nat /\ p1 = p + nf
      BY <2>4
    <3>2. rest(TRUE, p1) = TakeAddedAlternative(r, input, p1, read)
      OBVIOUS
    <3> HIDE DEF all, z, rest, na, f
    <3>3. p1 <= end => all = rest(TRUE, p1)
      BY <1>6, <2>5 DEF Then, Outcome, Decoded
    <3>4. ~(p1 <= end) => all = Failed("eof")
      BY <1>6, <2>5 DEF Then, Outcome, Failed
    <3> HIDE DEF nf, p1
    <3> QED BY <1>0, <2>8, <3>1, <3>2, <3>3, <3>4 DEF IsChain
  <2>16. Len(w.bits) = nf + na
    BY <2>4
  <2> HIDE DEF all, z, nf, na, w, y
  <2>18. all = Outcome(z, p, nf + na, end)
    BY <2>15, Chained
  <2> QED BY <2>9, <2>16, <2>18 DEF all, y, w
<1> QED BY <1>9, <1>10

-----------------------------------------------------------------------------
(* An ENUMERATED. *)
IsEnum(t) ==
  /\ t.kind = "Enumerated" /\ IsSequence(t.root) /\ IsSequence(t.more) /\ t.root # <<>>
  /\ t.extensible \in BOOLEAN /\ (~t.extensible => t.more = <<>>)
  /\ \A k \in DOMAIN Parts(t) :
       /\ Parts(t)[k].value \in Nat /\ Parts(t)[k].value < UnknownBase
       /\ \A j \in DOMAIN Parts(t) : Parts(t)[j].value = Parts(t)[k].value => j = k

LEMMA EnumFacts ==
  ASSUME NEW package, NEW t, IsShape(package, t), t.kind = "Enumerated"
  PROVE  IsEnum(t)
BY DEF IsEnum, IsShape

LEMMA PositionFacts ==
  ASSUME NEW t, IsEnum(t), NEW v
  PROVE  /\ PositionOf(t, v) \in Nat
         /\ PositionOf(t, v) # 0 => /\ PositionOf(t, v) \in DOMAIN Parts(t)
                                    /\ Parts(t)[PositionOf(t, v)].value = v
         /\ \A k \in DOMAIN Parts(t) : Parts(t)[k].value = v => PositionOf(t, v) = k
<1>0. DOMAIN Parts(t) \subseteq Nat \ {0}
  <2>1. DOMAIN Parts(t) = 1 .. Len(t.root) + Len(t.more) /\ Len(t.root) \in Nat /\ Len(t.more) \in Nat
    BY PartsFacts DEF IsEnum
  <2> DEFINE n == Len(t.root)
             m == Len(t.more)
  <2>2. n \in Nat /\ m \in Nat
    BY <2>1
  <2> HIDE DEF n, m
  <2>3. 1 .. n + m \subseteq Nat \ {0}
    BY <2>2
  <2> QED BY <2>1, <2>3 DEF n, m
<1>1. CASE \E k \in DOMAIN Parts(t) : Parts(t)[k].value = v
  <2> DEFINE c == CHOOSE k \in DOMAIN Parts(t) : Parts(t)[k].value = v
  <2>1. c \in DOMAIN Parts(t) /\ Parts(t)[c].value = v
    BY <1>1
  <2>2. PositionOf(t, v) = c
    BY <1>1 DEF PositionOf
  <2> HIDE DEF c
  <2>3. \A k \in DOMAIN Parts(t) : Parts(t)[k].value = v => c = k
    BY <2>1 DEF IsEnum
  <2> QED BY <1>0, <2>1, <2>2, <2>3
<1>2. CASE ~ \E k \in DOMAIN Parts(t) : Parts(t)[k].value = v
  <2>1. PositionOf(t, v) = 0
    BY <1>2 DEF PositionOf
  <2> QED BY <1>2, <2>1
<1> QED BY <1>1, <1>2

LEMMA EnumCases ==
  ASSUME NEW t, IsEnum(t), NEW v
  PROVE  /\ Len(t.root) \in Nat /\ Len(t.more) \in Nat /\ DOMAIN Parts(t) = 1 .. Len(t.root) + Len(t.more)
         /\ PositionOf(t, v) \in 1 .. Len(t.root) =>
              EncodeEnumerated(t, v) = Both(ExtensionBit(t, FALSE), Index(Len(t.root), PositionOf(t, v)))
         /\ PositionOf(t, v) # 0 /\ PositionOf(t, v) \notin 1 .. Len(t.root) =>
              /\ PositionOf(t, v) - Len(t.root) - 1 \in Nat
              /\ PositionOf(t, v) - Len(t.root) - 1 < Len(t.more)
              /\ PositionOf(t, v) = Len(t.root) + ((PositionOf(t, v) - Len(t.root) - 1) + 1)
              /\ EncodeEnumerated(t, v) = Both(One("bit", TRUE), One("small", PositionOf(t, v) - Len(t.root) - 1))
         /\ PositionOf(t, v) = 0 => EncodeEnumerated(t, v) = Refused
<1> DEFINE n == Len(t.root)
           m == Len(t.more)
           k == PositionOf(t, v)
           y == Both(ExtensionBit(t, FALSE), Index(n, k))
           z == Both(One("bit", TRUE), One("small", k - n - 1))
           w == EncodeEnumerated(t, v)
<1>1. DOMAIN Parts(t) = 1 .. n + m /\ n \in Nat /\ m \in Nat
  BY PartsFacts DEF IsEnum
<1>2. k \in Nat /\ (k # 0 => k \in 1 .. n + m)
  BY <1>1, PositionFacts
<1>3. w = CASE k \in 1 .. n -> y [] k > n -> z [] OTHER -> Refused
  BY Zenon DEF EncodeEnumerated
<1> HIDE DEF n, m, k, y, z, w
<1>4. /\ k \in 1 .. n => w = y
      /\ k # 0 /\ k \notin 1 .. n => /\ k - n - 1 \in Nat /\ k - n - 1 < m /\ k = n + ((k - n - 1) + 1)
                                     /\ w = z
      /\ k = 0 => w = Refused
  BY <1>1, <1>2, <1>3
<1> QED BY <1>1, <1>4 DEF n, m, k, y, z, w

LEMMA EnumResult ==
  ASSUME NEW t, IsEnum(t), NEW v
  PROVE  IsResult(EncodeEnumerated(t, v)) /\ (EncodeEnumerated(t, v).ok <=> PositionOf(t, v) # 0)
<1> DEFINE n == Len(t.root)
           k == PositionOf(t, v)
           e == ExtensionBit(t, FALSE)
           i == Index(n, k)
           b == One("bit", TRUE)
           s == One("small", k - n - 1)
           w == EncodeEnumerated(t, v)
<1>1. /\ IsResult(e) /\ e.ok /\ IsResult(i) /\ i.ok /\ IsResult(b) /\ b.ok /\ IsResult(s) /\ s.ok
  BY OneResult, NothingResult, IndexResult DEF ExtensionBit
<1>2. /\ k \in 1 .. n => w = Both(e, i)
      /\ k # 0 /\ k \notin 1 .. n => w = Both(b, s)
      /\ k = 0 => w = Refused
  BY EnumCases
<1>3. k \in 1 .. n => k # 0
  OBVIOUS
<1> HIDE DEF w, e, i, b, s, k, n
<1>4. IsResult(Both(e, i)) /\ Both(e, i).ok /\ IsResult(Both(b, s)) /\ Both(b, s).ok
  BY <1>1, BothResult
<1>5. IsResult(w) /\ (w.ok <=> k # 0)
  BY <1>2, <1>3, <1>4, RefusedResult
<1> QED BY <1>5 DEF w, k

EnumVersions(s, r) ==
  /\ IsEnum(s) /\ IsEnum(r) /\ r.root = s.root /\ r.extensible = s.extensible
  /\ \A k \in 1 .. Len(r.more) : k <= Len(s.more) => r.more[k].value = s.more[k].value
  /\ Len(s.more) > Len(r.more) => s = Later(r)

EnumPart(t, v) ==
  IF PositionOf(t, v) # 0 THEN v ELSE UnknownBase + PositionOf(Later(t), v) - Len(t.root) - 1

EnumCarried(s, r, v, tokens, end, p) ==
  /\ EnumVersions(s, r) /\ EncodeEnumerated(s, v).ok
  /\ end \in Nat /\ p \in Nat /\ p <= end /\ Along(tokens, end, p, EncodeEnumerated(s, v).bits)

LEMMA EnumCarries ==
  ASSUME NEW s, NEW r, NEW v, NEW tokens, NEW end, NEW p, EnumCarried(s, r, v, tokens, end, p)
  PROVE  DecodeEnumerated(r, Input(tokens, end), p) =
           Outcome(EnumPart(r, v), p, Len(EncodeEnumerated(s, v).bits), end)
<1>0. /\ EnumVersions(s, r) /\ EncodeEnumerated(s, v).ok
      /\ end \in Nat /\ p \in Nat /\ p <= end /\ Along(tokens, end, p, EncodeEnumerated(s, v).bits)
  BY DEF EnumCarried
<1>1. /\ IsEnum(s) /\ IsEnum(r) /\ r.root = s.root /\ r.extensible = s.extensible
      /\ \A j \in 1 .. Len(r.more) : j <= Len(s.more) => r.more[j].value = s.more[j].value
      /\ Len(s.more) > Len(r.more) => s = Later(r)
  BY <1>0 DEF EnumVersions
<1>2. /\ IsSequence(s.root) /\ IsSequence(s.more) /\ IsSequence(r.root) /\ IsSequence(r.more)
      /\ s.extensible \in BOOLEAN /\ (~s.extensible => s.more = <<>>) /\ UnknownBase \in Nat
  BY <1>1, PduAssumption DEF IsEnum
<1> DEFINE n == Len(s.root)
           k == PositionOf(s, v)
           w == EncodeEnumerated(s, v)
           y == EnumPart(r, v)
           input == Input(tokens, end)
           ext(at) == Then(Take(input, at, "small"), LAMBDA x, used :
                        Decoded(IF x < Len(r.more) THEN r.more[x + 1].value ELSE UnknownItem(x), used))
           plain(at) == Then(TakeIndex(Len(r.root), input, at), LAMBDA j, used : Decoded(r.root[j].value, used))
           rest(isExt, at) == IF isExt THEN ext(at) ELSE plain(at)
           all == DecodeEnumerated(r, input, p)
<1>3. k # 0 /\ k \in DOMAIN Parts(s) /\ Parts(s)[k].value = v
  BY <1>0, <1>1, EnumResult, PositionFacts
<1>4. /\ n \in Nat /\ Len(s.more) \in Nat /\ DOMAIN Parts(s) = 1 .. n + Len(s.more)
      /\ \A j \in 1 .. n : Parts(s)[j] = s.root[j]
      /\ \A j \in 1 .. Len(s.more) : Parts(s)[n + j] = s.more[j]
  BY <1>2, PartsFacts
<1>5. /\ Len(r.more) \in Nat /\ DOMAIN Parts(r) = 1 .. n + Len(r.more)
      /\ \A j \in 1 .. n : Parts(r)[j] = s.root[j]
      /\ \A j \in 1 .. Len(r.more) : Parts(r)[n + j] = r.more[j]
  <2>2. /\ Len(r.more) \in Nat /\ DOMAIN Parts(r) = 1 .. Len(r.root) + Len(r.more)
        /\ \A j \in 1 .. Len(r.root) : Parts(r)[j] = r.root[j]
        /\ \A j \in 1 .. Len(r.more) : Parts(r)[Len(r.root) + j] = r.more[j]
    BY <1>2, PartsFacts
  <2> QED BY <1>1, <2>2
<1>6. all = Then(TakeExtensionBit(r, input, p), LAMBDA isExt, at : rest(isExt, at))
  BY DEF DecodeEnumerated
<1>7. ASSUME NEW h \in BOOLEAN, ~s.extensible => ~h, Along(tokens, end, p, ExtensionBit(s, h).bits)
      PROVE  TakeExtensionBit(r, input, p) = Outcome(h, p, Len(ExtensionBit(s, h).bits), end)
  <2>1. ExtensionBit(r, h) = ExtensionBit(s, h)
    BY <1>1 DEF ExtensionBit
  <2>2. r.extensible \in BOOLEAN /\ (~r.extensible => ~h) /\ Along(tokens, end, p, ExtensionBit(r, h).bits)
    BY <1>1, <1>2, <1>7, <2>1
  <2>3. TakeExtensionBit(r, Input(tokens, end), p) = Outcome(h, p, Len(ExtensionBit(r, h).bits), end)
    BY <1>0, <2>2, ExtensionBitCarries
  <2> QED BY <2>1, <2>3
<1> DEFINE e(h) == ExtensionBit(s, h)
<1>8. \A h \in BOOLEAN : IsResult(e(h)) /\ e(h).ok
  BY OneResult, NothingResult DEF ExtensionBit
<1>9. CASE k \in 1 .. n
  <2> DEFINE i == Index(n, k)
             f == e(FALSE)
             p1 == p + Len(f.bits)
             nf == Len(f.bits)
             ni == Len(i.bits)
  <2>1. w = Both(f, i)
    BY <1>1, <1>9, EnumCases
  <2>2. IsResult(i) /\ i.ok /\ IsResult(f) /\ f.ok
    BY <1>8, IndexResult
  <2>4. /\ Len(w.bits) = nf + ni /\ nf \in Nat /\ ni \in Nat
        /\ Along(tokens, end, p, f.bits) /\ p1 \in Nat /\ Along(tokens, end, p1, i.bits)
    <3>1. Along(tokens, end, p, Both(f, i).bits) /\ w = Both(f, i)
      BY <1>0, <2>1
    <3> HIDE DEF f, i, w
    <3> QED BY <1>0, <2>2, <3>1, BothCarries
  <2>6. TakeExtensionBit(r, input, p) = Outcome(FALSE, p, nf, end)
    BY <1>7, <2>4
  <2>7. p1 <= end => TakeIndex(Len(r.root), input, p1) = Outcome(k, p1, ni, end)
    <3> SUFFICES ASSUME p1 <= end
                 PROVE  TakeIndex(n, input, p1) = Outcome(k, p1, ni, end)
      BY <1>1
    <3>1. p1 \in Nat /\ Along(tokens, end, p1, Index(n, k).bits)
      BY <2>4
    <3>2. n \in Nat /\ k \in 1 .. n /\ end \in Nat
      BY <1>0, <1>4, <1>9
    <3> HIDE DEF p1, n, k
    <3>3. IndexCarried(n, k, tokens, end, p1)
      BY <3>1, <3>2 DEF IndexCarried
    <3> QED BY <3>3, IndexCarries
  <2>8. r.root[k].value = v /\ y = v
    <3> HIDE DEF n, k
    <3>1. k \in 1 .. n + Len(r.more)
      BY <1>4, <1>5, <1>9
    <3>2. Parts(r)[k].value = v /\ r.root[k].value = v
      BY <1>1, <1>3, <1>4, <1>5, <1>9
    <3>3. PositionOf(r, v) = k
      BY <1>1, <1>5, <3>1, <3>2, PositionFacts
    <3> QED BY <1>3, <3>2, <3>3 DEF EnumPart
  <2>10. p1 <= end => rest(FALSE, p1) = Outcome(y, p1, ni, end)
    <3> HIDE DEF k, p1, ni, y, input
    <3> QED BY <2>7, <2>8 DEF Then, Outcome, Decoded, Failed
  <2>15. IsChain(all, y, p, nf, ni, end)
    <3>2. p1 = p + nf
      OBVIOUS
    <3> HIDE DEF all, y, rest, ni
    <3>3. p1 <= end => all = rest(FALSE, p1)
      BY <1>6, <2>6 DEF Then, Outcome, Decoded
    <3>4. ~(p1 <= end) => all = Failed("eof")
      BY <1>6, <2>6 DEF Then, Outcome, Failed
    <3> HIDE DEF nf, p1
    <3> QED BY <1>0, <2>4, <2>10, <3>2, <3>3, <3>4 DEF IsChain
  <2> HIDE DEF all, y, nf, ni, w
  <2>18. all = Outcome(y, p, nf + ni, end)
    BY <2>15, Chained
  <2> QED BY <2>4, <2>18 DEF all, y, w
<1>10. CASE k \notin 1 .. n
  <2> DEFINE i == k - n - 1
             f == One("bit", TRUE)
             a == One("small", i)
  <2>1. w = Both(f, a) /\ i \in Nat /\ i < Len(s.more) /\ k = n + (i + 1)
    BY <1>1, <1>3, <1>10, EnumCases
  <2>2. s.extensible /\ f = e(TRUE)
    <3>1. s.extensible
      <4>1. Len(s.more) # 0
        <5> HIDE DEF i
        <5> QED BY <1>4, <2>1
      <4> QED BY <1>2, <4>1, EmptySequence
    <3> QED BY <3>1 DEF ExtensionBit
  <2>3. /\ IsResult(f) /\ f.ok /\ IsResult(a) /\ a.ok
        /\ a.bits = <<Token("small", i)>> /\ Len(a.bits) = 1 /\ Len(f.bits) = 1
    BY OneResult
  <2>4. /\ Len(w.bits) = 1 + 1
        /\ Along(tokens, end, p, f.bits) /\ Along(tokens, end, p + 1, <<Token("small", i)>>)
    <3>1. Along(tokens, end, p, Both(f, a).bits) /\ w = Both(f, a)
      BY <1>0, <2>1
    <3>2. IsResult(f) /\ f.ok /\ IsResult(a) /\ a.ok
      BY <2>3
    <3> HIDE DEF f, a, w
    <3>3. /\ Len(Both(f, a).bits) = Len(f.bits) + Len(a.bits)
          /\ Along(tokens, end, p, f.bits) /\ Along(tokens, end, p + Len(f.bits), a.bits)
      BY <1>0, <3>1, <3>2, BothCarries
    <3> QED BY <2>3, <3>1, <3>3
  <2>5. TakeExtensionBit(r, input, p) = Outcome(TRUE, p, 1, end)
    BY <1>7, <2>2, <2>3, <2>4
  <2> DEFINE p1 == p + 1
  <2>6. p1 \in Nat
    BY <1>0
  <2>7. p1 <= end => Take(input, p1, "small") = Outcome(i, p1, 1, end)
    <3>1. Along(tokens, end, p1, <<Token("small", i)>>)
      BY <2>4
    <3> HIDE DEF p1, i
    <3> QED BY <1>0, <2>6, <3>1, TakeCarries
  <2>8. y = IF i < Len(r.more) THEN r.more[i + 1].value ELSE UnknownItem(i)
    <3> HIDE DEF n, k, i
    <3>0. i + 1 \in 1 .. Len(s.more) /\ i + 1 <= Len(s.more)
      BY <1>4, <2>1
    <3>9. s.more[i + 1].value = v
      BY <1>3, <1>4, <2>1, <3>0
    <3>1. CASE i < Len(r.more)
      <4>1. i + 1 \in 1 .. Len(r.more)
        BY <1>5, <2>1, <3>1
      <4>2. r.more[i + 1].value = v
        BY <1>1, <3>0, <3>9, <4>1
      <4>3. Parts(r)[n + (i + 1)] = r.more[i + 1] /\ n + (i + 1) \in DOMAIN Parts(r)
        BY <1>4, <1>5, <4>1
      <4>4. PositionOf(r, v) = k /\ k # 0
        BY <1>1, <1>3, <2>1, <4>2, <4>3, PositionFacts
      <4> QED BY <3>1, <4>2, <4>4 DEF EnumPart
    <3>2. CASE ~(i < Len(r.more))
      <4>1. s = Later(r)
        BY <1>1, <1>4, <1>5, <2>1, <3>2
      <4>2. PositionOf(r, v) = 0
        <5> SUFFICES ASSUME PositionOf(r, v) # 0
                     PROVE  FALSE
          OBVIOUS
        <5> DEFINE j == PositionOf(r, v)
        <5>1. j \in DOMAIN Parts(r) /\ Parts(r)[j].value = v /\ j \in Nat
          BY <1>1, PositionFacts
        <5> HIDE DEF j
        <5>2. j \in DOMAIN Parts(s) /\ j < k
          BY <1>4, <1>5, <2>1, <3>2, <5>1
        <5>3. Parts(s)[j].value = v
          <6>1. CASE j \in 1 .. n
            BY <1>4, <1>5, <5>1, <6>1
          <6>2. CASE j \notin 1 .. n
            <7> DEFINE l == j - n
            <7>1. l \in 1 .. Len(r.more) /\ l \in 1 .. Len(s.more) /\ l <= Len(s.more) /\ j = n + l
              BY <1>4, <1>5, <2>1, <3>2, <5>1, <6>2
            <7> HIDE DEF l
            <7>2. Parts(r)[n + l] = r.more[l] /\ Parts(s)[n + l] = s.more[l]
              BY <1>4, <1>5, <7>1
            <7>3. r.more[l].value = s.more[l].value
              BY <1>1, <7>1
            <7> QED BY <5>1, <7>1, <7>2, <7>3
          <6> QED BY <6>1, <6>2
        <5>4. j = k
          BY <1>1, <1>3, <5>2, <5>3 DEF IsEnum
        <5> QED BY <5>1, <5>2, <5>4
      <4>3. y = UnknownBase + k - n - 1
        BY <1>1, <4>1, <4>2 DEF EnumPart, k, n
      <4>4. UnknownBase + k - n - 1 = UnknownBase + i
        BY <1>2, <1>4, <2>1
      <4> QED BY <3>2, <4>3, <4>4 DEF UnknownItem
    <3> QED BY <3>1, <3>2
  <2>10. p1 <= end => rest(TRUE, p1) = Outcome(y, p1, 1, end)
    <3> HIDE DEF i, p1, y, input
    <3> QED BY <2>7, <2>8 DEF Then, Outcome, Decoded, Failed
  <2>15. IsChain(all, y, p, 1, 1, end)
    <3> HIDE DEF all, y, rest
    <3>3. p1 <= end => all = rest(TRUE, p1)
      BY <1>6, <2>5 DEF Then, Outcome, Decoded
    <3>4. ~(p1 <= end) => all = Failed("eof")
      BY <1>6, <2>5 DEF Then, Outcome, Failed
    <3> QED BY <1>0, <2>10, <3>3, <3>4 DEF IsChain
  <2> HIDE DEF all, y, w
  <2>18. all = Outcome(y, p, 1 + 1, end)
    BY <2>15, Chained
  <2> QED BY <2>4, <2>18 DEF all, y, w
<1> QED BY <1>9, <1>10

-----------------------------------------------------------------------------
(* A SEQUENCE OF. *)
IsListOf(t, v) ==
  /\ t.kind = "ListOf" /\ t.sized \in BOOLEAN /\ (t.sized => SizeOf(t.lb) \in Nat /\ SizeOf(t.ub) \in Nat)
  /\ IsSequence(v)

LEMMA ListFacts ==
  ASSUME NEW package, NEW t, NEW v, IsShape(package, t), IsTyped(t, v), t.kind = "ListOf"
  PROVE  IsListOf(t, v)
BY DEF IsListOf, IsShape, IsTyped

ItemParts(t, v, code) == [k \in 1 .. Len(v) |-> code[<<t.of, v[k]>>]]
CountOf(t, v) ==
  CASE ~t.sized               -> One("length", Len(v))
    [] t.sized /\ t.lb = t.ub -> Nothing
    [] t.sized /\ t.lb # t.ub -> One("size", Len(v))

LEMMA ListInside ==
  ASSUME NEW types, NEW t, NEW v, IsListOf(t, v)
  PROVE  /\ Inside(types, <<t, v>>) = {<<t.of, v[k]>> : k \in 1 .. Len(v)}
         /\ Len(v) \in Nat /\ DOMAIN v = 1 .. Len(v)
BY DomainOf DEF Inside, IsListOf

LEMMA CountFacts ==
  ASSUME NEW t, NEW v, IsListOf(t, v)
  PROVE  /\ ~t.sized => CountOf(t, v) = One("length", Len(v))
         /\ t.sized /\ t.lb = t.ub => CountOf(t, v) = Nothing
         /\ t.sized /\ t.lb # t.ub => CountOf(t, v) = One("size", Len(v))
<1> DEFINE a == t.sized
           b == t.lb = t.ub
           x == One("length", Len(v))
           y == One("size", Len(v))
           w == CountOf(t, v)
<1>1. w = CASE ~a -> x [] a /\ b -> Nothing [] a /\ ~b -> y
  BY Zenon DEF CountOf
<1>2. a \in BOOLEAN /\ b \in BOOLEAN
  BY DEF IsListOf
<1> HIDE DEF a, b, x, y, w
<1>3. (~a => w = x) /\ (a /\ b => w = Nothing) /\ (a /\ ~b => w = y)
  BY <1>1, <1>2
<1> QED BY <1>3 DEF a, b, x, y, w

LEMMA ListResult ==
  ASSUME NEW t, NEW v, IsListOf(t, v), NEW code, NEW types, AllResults(Inside(types, <<t, v>>), code)
  PROVE  /\ IsResult(EncodeList(t, v, code))
         /\ EncodeList(t, v, code).ok <=>
              (t.sized => Len(v) \in Sizes(t)) /\ AllOk(Inside(types, <<t, v>>), code)
         /\ AreResults(Len(v), ItemParts(t, v, code)) /\ Len(v) \in Nat
         /\ IsResult(Each(ItemParts(t, v, code)))
         /\ Each(ItemParts(t, v, code)).ok <=> \A k \in 1 .. Len(v) : ItemParts(t, v, code)[k].ok
         /\ IsResult(CountOf(t, v)) /\ CountOf(t, v).ok
         /\ (t.sized => Len(v) \in Sizes(t)) =>
              EncodeList(t, v, code) = Both(CountOf(t, v), Each(ItemParts(t, v, code)))
<1> DEFINE c == CountOf(t, v)
           parts == ItemParts(t, v, code)
           x == Each(parts)
           w == EncodeList(t, v, code)
<1>1. Inside(types, <<t, v>>) = {<<t.of, v[k]>> : k \in 1 .. Len(v)} /\ Len(v) \in Nat /\ DOMAIN v = 1 .. Len(v)
  BY ListInside
<1>2. AreResults(Len(v), parts)
  BY <1>1 DEF AreResults, IsRow, ItemParts, AllResults
<1>3. IsResult(x) /\ (x.ok <=> \A k \in 1 .. Len(v) : parts[k].ok)
  BY <1>1, <1>2, EachResult
<1>4. IsResult(c) /\ c.ok
  <2>1. t.sized \in BOOLEAN
    BY DEF IsListOf
  <2> QED BY <2>1, CountFacts, OneResult, NothingResult
<1>5. AllOk(Inside(types, <<t, v>>), code) <=> \A k \in 1 .. Len(v) : parts[k].ok
  BY <1>1 DEF AllOk, ItemParts
<1>6. w = IF t.sized /\ Len(v) \notin Sizes(t) THEN Refused ELSE Both(c, x)
  BY <1>1 DEF EncodeList, CountOf, ItemParts
<1> HIDE DEF c, x, w, parts
<1>7. IsResult(Both(c, x)) /\ (Both(c, x).ok <=> x.ok)
  BY <1>3, <1>4, BothResult
<1>8. IsResult(w) /\ (w.ok <=> (t.sized => Len(v) \in Sizes(t)) /\ x.ok)
  BY <1>6, <1>7, RefusedResult
<1> QED BY <1>1, <1>2, <1>3, <1>4, <1>5, <1>6, <1>8 DEF c, x, w, parts

ListPart(t, v, known) == [k \in 1 .. Len(v) |-> known[<<t.of, v[k]>>]]

ListCarried(t, v, code, types, known, read, tokens, end, p) ==
  /\ IsListOf(t, v) /\ AllResults(Inside(types, <<t, v>>), code)
  /\ EncodeList(t, v, code).ok
  /\ \A k \in 1 .. Len(v) : ReadsPart(read, t.of, tokens, code[<<t.of, v[k]>>].bits, known[<<t.of, v[k]>>])
  /\ end \in Nat /\ p \in Nat /\ p <= end /\ Along(tokens, end, p, EncodeList(t, v, code).bits)

LEMMA ListCarries ==
  ASSUME NEW t, NEW v, NEW code, NEW types, NEW known, NEW read, NEW tokens, NEW end, NEW p,
         ListCarried(t, v, code, types, known, read, tokens, end, p)
  PROVE  DecodeList(t, Input(tokens, end), p, read) =
           Outcome(ListPart(t, v, known), p, Len(EncodeList(t, v, code).bits), end)
<1>0. /\ IsListOf(t, v) /\ AllResults(Inside(types, <<t, v>>), code)
      /\ EncodeList(t, v, code).ok
      /\ \A k \in 1 .. Len(v) : ReadsPart(read, t.of, tokens, code[<<t.of, v[k]>>].bits, known[<<t.of, v[k]>>])
      /\ end \in Nat /\ p \in Nat /\ p <= end /\ Along(tokens, end, p, EncodeList(t, v, code).bits)
  BY DEF ListCarried
<1> DEFINE n == Len(v)
           c == CountOf(t, v)
           results == ItemParts(t, v, code)
           x == Each(results)
           w == EncodeList(t, v, code)
           values == ListPart(t, v, known)
           input == Input(tokens, end)
           readers == [k \in 1 .. n |-> [q \in Nat |-> read[<<t.of, end, q>>]]]
           count == CASE ~t.sized               -> Take(input, p, "length")
                      [] t.sized /\ t.lb = t.ub -> Decoded(SizeOf(t.lb), p)
                      [] t.sized /\ t.lb # t.ub -> Take(input, p, "size")
           all == DecodeList(t, input, p, read)
<1>1. n \in Nat /\ t.sized \in BOOLEAN
  BY <1>0, ListInside DEF IsListOf
<1>2. /\ w = Both(c, x) /\ IsResult(c) /\ c.ok /\ IsResult(x) /\ x.ok /\ AreResults(n, results)
      /\ (\A k \in 1 .. n : results[k].ok) /\ (t.sized => n \in Sizes(t))
  <2>1. /\ IsResult(c) /\ c.ok /\ IsResult(x) /\ AreResults(n, results)
        /\ (x.ok <=> \A k \in 1 .. n : results[k].ok) /\ (t.sized => n \in Sizes(t)) /\ w = Both(c, x)
    <3> HIDE DEF c, x, w, results, n
    <3> QED BY <1>0, ListResult DEF c, x, w, results, n
  <2>3. w.ok
    BY <1>0
  <2> HIDE DEF c, x, w, results, n
  <2>4. Both(c, x).ok
    BY <2>1, <2>3
  <2>2. x.ok
    BY <2>1, <2>4, BothResult
  <2> QED BY <2>1, <2>2
<1>3. /\ Len(w.bits) = Len(c.bits) + Len(x.bits) /\ Len(c.bits) \in Nat /\ Len(x.bits) \in Nat
      /\ Along(tokens, end, p, c.bits) /\ p + Len(c.bits) \in Nat /\ Along(tokens, end, p + Len(c.bits), x.bits)
  <2>1. Along(tokens, end, p, Both(c, x).bits) /\ w = Both(c, x)
    BY <1>0, <1>2
  <2> HIDE DEF c, x, w
  <2> QED BY <1>0, <1>2, <2>1, BothCarries
<1>4. count = Outcome(n, p, Len(c.bits), end)
  <2>0. /\ ~t.sized => count = Take(input, p, "length")
        /\ t.sized /\ t.lb = t.ub => count = Decoded(SizeOf(t.lb), p)
        /\ t.sized /\ t.lb # t.ub => count = Take(input, p, "size")
    <3> DEFINE a == t.sized
               b == t.lb = t.ub
               y == Take(input, p, "length")
               z == Take(input, p, "size")
               d == Decoded(SizeOf(t.lb), p)
    <3>1. count = CASE ~a -> y [] a /\ b -> d [] a /\ ~b -> z
      BY Zenon
    <3>2. a \in BOOLEAN /\ b \in BOOLEAN
      BY <1>1
    <3> HIDE DEF a, b, y, z, d, count
    <3>3. (~a => count = y) /\ (a /\ b => count = d) /\ (a /\ ~b => count = z)
      BY <3>1, <3>2
    <3> QED BY <3>3 DEF a, b, y, z, d
  <2> HIDE DEF count
  <2>1. CASE ~t.sized
    <3>1. c.bits = <<Token("length", n)>> /\ Len(c.bits) = 1
      BY <1>0, <2>1, CountFacts, OneResult
    <3>2. Along(tokens, end, p, <<Token("length", n)>>)
      BY <1>3, <3>1
    <3> HIDE DEF n
    <3>3. Take(input, p, "length") = Outcome(n, p, 1, end)
      BY <1>0, <3>2, TakeCarries
    <3> QED BY <2>0, <2>1, <3>1, <3>3
  <2>2. CASE t.sized /\ t.lb = t.ub
    <3>1. Len(c.bits) = 0
      BY <1>0, <2>2, CountFacts, NothingResult
    <3>2. n = SizeOf(t.lb)
      <4>1. n \in SizeOf(t.lb) .. SizeOf(t.lb) /\ SizeOf(t.lb) \in Nat
        BY <1>0, <1>2, <2>2 DEF Sizes, IsListOf
      <4> HIDE DEF n
      <4> QED BY <4>1
    <3>3. p + 0 = p
      BY <1>0
    <3> QED BY <1>0, <2>0, <2>2, <3>1, <3>2, <3>3 DEF Outcome
  <2>3. CASE t.sized /\ t.lb # t.ub
    <3>1. c.bits = <<Token("size", n)>> /\ Len(c.bits) = 1
      BY <1>0, <2>3, CountFacts, OneResult
    <3>2. Along(tokens, end, p, <<Token("size", n)>>)
      BY <1>3, <3>1
    <3> HIDE DEF n
    <3>3. Take(input, p, "size") = Outcome(n, p, 1, end)
      BY <1>0, <3>2, TakeCarries
    <3> QED BY <2>0, <2>3, <3>1, <3>3
  <2> QED BY <1>1, <2>1, <2>2, <2>3
<1>5. all = Then(count, LAMBDA m, at :
              TakeEach([k \in 1 .. m |-> [q \in Nat |-> read[<<t.of, input.end, q>>]]], at))
  BY DEF DecodeList
<1>6. input.end = end
  BY DEF Input
<1> DEFINE nc == Len(c.bits)
           nx == Len(x.bits)
           p1 == p + nc
<1>7. p1 <= end => TakeEach(readers, p1) = Outcome(values, p1, nx, end)
  <2> SUFFICES ASSUME p1 <= end
               PROVE  TakeEach(readers, p1) = Outcome(values, p1, nx, end)
    OBVIOUS
  <2>1. IsRow(n, readers) /\ IsRow(n, values)
    BY DEF IsRow, ListPart
  <2>2. ASSUME NEW k \in 1 .. n
        PROVE  Reads(readers[k], tokens, end, results[k].bits, values[k])
    <3> SUFFICES ASSUME NEW q \in Nat, q <= end, Along(tokens, end, q, results[k].bits)
                 PROVE  readers[k][q] = Outcome(values[k], q, Len(results[k].bits), end)
      BY DEF Reads
    <3> DEFINE y == <<t.of, v[k]>>
    <3>1. readers[k][q] = read[<<t.of, end, q>>] /\ results[k] = code[y] /\ values[k] = known[y]
      BY DEF ItemParts, ListPart
    <3>2. ReadsPart(read, t.of, tokens, code[y].bits, known[y])
      BY <1>0
    <3>3. Along(tokens, end, q, code[y].bits)
      BY <3>1
    <3> HIDE DEF y, readers, results, values
    <3> QED BY <1>0, <3>1, <3>2, <3>3 DEF ReadsPart
  <2>3. p1 \in Nat /\ Along(tokens, end, p1, Each(results).bits)
    BY <1>3
  <2> HIDE DEF p1, n, readers, results, values
  <2>4. ReadsEach(n, results, readers, values, tokens, end, p1)
    BY <1>0, <1>1, <1>2, <2>1, <2>2, <2>3 DEF ReadsEach
  <2> QED BY <2>4, EachCarries
<1> HIDE DEF count, all, input, w, values
<1>8. p1 <= end => all = TakeEach(readers, p1)
  <2> SUFFICES ASSUME p1 <= end
               PROVE  all = TakeEach(readers, p1)
    OBVIOUS
  <2>1. count = Decoded(n, p1)
    BY <1>4 DEF Outcome
  <2> HIDE DEF n, p1
  <2> QED BY <1>5, <1>6, <2>1 DEF Then, Decoded
<1>9. ~(p1 <= end) => all = Failed("eof")
  <2> HIDE DEF c
  <2> QED BY <1>4, <1>5 DEF Then, Failed, Outcome
<1>10. IsChain(all, values, p, nc, nx, end)
  <2>1. p1 = p + nc /\ nc \in Nat /\ nx \in Nat
    BY <1>3
  <2> HIDE DEF p1, nc, nx, readers
  <2> QED BY <1>0, <1>7, <1>8, <1>9, <2>1 DEF IsChain
<1>11. Len(w.bits) = nc + nx
  BY <1>3
<1> HIDE DEF nc, nx
<1>12. all = Outcome(values, p, nc + nx, end)
  BY <1>10, Chained
<1> QED BY <1>11, <1>12 DEF all, input, values, w

-----------------------------------------------------------------------------
(* The sender's and the receiver's version of a type.                      *)
Versioned(t) == t.kind \in {"Sequence", "Choice", "Enumerated"} /\ t.extensible
Related(s, r) == s = r \/ (Versioned(r) /\ s = Later(r)) \/ (Versioned(s) /\ r = Later(s))

LEMMA ExceptMore ==
  ASSUME NEW t, NEW k, NEW x, NEW r, NEW m, NEW n,
         t = [kind |-> k, extensible |-> x, root |-> r, more |-> m]
  PROVE  [t EXCEPT !.more = n] = [kind |-> k, extensible |-> x, root |-> r, more |-> n]
OBVIOUS

LEMMA LaterFacts ==
  ASSUME NEW package, NEW t, IsShape(package, t), Versioned(t)
  PROVE  /\ Later(t).kind = t.kind /\ Later(t).root = t.root /\ Later(t).extensible = t.extensible
         /\ IsSequence(Later(t).more) /\ Len(Later(t).more) = Len(t.more) + 2 /\ Later(t).more # <<>>
         /\ Len(t.more) \in Nat
         /\ \A k \in 1 .. Len(t.more) : Later(t).more[k] = t.more[k]
<1>1. /\ t = [kind |-> t.kind, extensible |-> t.extensible, root |-> t.root, more |-> t.more]
      /\ IsSequence(t.more)
  BY DEF IsShape, Versioned
<1> DEFINE a == IF t.kind = "Enumerated" THEN [name |-> "Future", value |-> UnknownBase - 1]
                ELSE [name |-> "Future", type |-> [kind |-> "Boolean"], optional |-> TRUE]
           b == IF t.kind = "Enumerated" THEN [name |-> "Future", value |-> UnknownBase - 2]
                ELSE [name |-> "Future", type |-> [kind |-> "Boolean"], optional |-> TRUE]
           c == <<a, b>>
           m == t.more
<1>2. Later(t) = [t EXCEPT !.more = m \o c]
  BY DEF Later
<1>3. IsSequence(c) /\ Len(c) = 2
  BY DEF IsSequence
<1> HIDE DEF a, b, c
<1>4. Later(t) = [kind |-> t.kind, extensible |-> t.extensible, root |-> t.root, more |-> m \o c]
  <2> DEFINE k == t.kind
             x == t.extensible
             r == t.root
  <2>1. t = [kind |-> k, extensible |-> x, root |-> r, more |-> m]
    BY <1>1
  <2> HIDE DEF k, x, r, m
  <2> DEFINE n == m \o c
  <2> HIDE DEF n
  <2>3. [t EXCEPT !.more = n] = [kind |-> k, extensible |-> x, root |-> r, more |-> n]
    BY <2>1, ExceptMore
  <2>2. [t EXCEPT !.more = m \o c] = [kind |-> k, extensible |-> x, root |-> r, more |-> m \o c]
    BY <2>3 DEF n
  <2> QED BY <1>2, <2>2 DEF k, x, r
<1>5. IsSequence(m) /\ Len(m) \in Nat
  BY <1>1, DomainOf
<1>9. /\ Later(t).kind = t.kind /\ Later(t).root = t.root /\ Later(t).extensible = t.extensible
      /\ Later(t).more = m \o c
  <2> DEFINE l == Later(t)
             n == m \o c
  <2>1. l = [kind |-> t.kind, extensible |-> t.extensible, root |-> t.root, more |-> n]
    BY <1>4
  <2> HIDE DEF l, m, n
  <2>2. l.kind = t.kind /\ l.root = t.root /\ l.extensible = t.extensible /\ l.more = n
    BY <2>1
  <2> QED BY <2>2 DEF l, n
<1> HIDE DEF m
<1>6. /\ IsSequence(m \o c) /\ Len(m \o c) = Len(m) + Len(c)
      /\ \A k \in 1 .. Len(m) : (m \o c)[k] = m[k]
  BY <1>3, <1>5, Joined
<1>7. m \o c # <<>>
  <2> DEFINE d == m \o c
  <2>1. Len(d) = Len(m) + 2
    BY <1>3, <1>6
  <2> HIDE DEF d
  <2>2. Len(d) # 0
    BY <1>5, <2>1
  <2>3. d # <<>>
    BY <2>2, EmptySequence
  <2> QED BY <2>3 DEF d
<1> QED BY <1>3, <1>5, <1>6, <1>7, <1>9 DEF m

LEMMA VersionFacts ==
  ASSUME NEW package, NEW s, NEW r, IsShape(package, s), IsShape(package, r), Related(s, r)
  PROVE  /\ r.kind = s.kind
         /\ ~(s.kind \in {"Sequence", "Choice", "Enumerated"}) => r = s
         /\ s.kind \in {"Sequence", "Choice", "Enumerated"} =>
              /\ r.root = s.root /\ r.extensible = s.extensible
              /\ \A k \in 1 .. Len(r.more) : k <= Len(s.more) => r.more[k] = s.more[k]
              /\ Len(s.more) > Len(r.more) => s = Later(r)
<1>1. CASE s = r
  <2>1. s.kind \in {"Sequence", "Choice", "Enumerated"} => Len(s.more) \in Nat
    BY DomainOf DEF IsShape
  <2> QED BY <1>1, <2>1
<1>2. CASE Versioned(r) /\ s = Later(r)
  BY <1>2, LaterFacts DEF Versioned
<1>3. CASE Versioned(s) /\ r = Later(s)
  <2> DEFINE a == Len(s.more)
             b == Len(r.more)
  <2>1. /\ r.kind = s.kind /\ r.root = s.root /\ r.extensible = s.extensible
        /\ a \in Nat /\ b = a + 2 /\ \A k \in 1 .. a : r.more[k] = s.more[k]
    BY <1>3, LaterFacts
  <2>2. s.kind \in {"Sequence", "Choice", "Enumerated"}
    BY <1>3 DEF Versioned
  <2> HIDE DEF a, b
  <2>3. ~(a > b) /\ \A k \in 1 .. b : k <= a => k \in 1 .. a
    BY <2>1
  <2>4. \A k \in 1 .. b : k <= a => r.more[k] = s.more[k]
    BY <2>1, <2>3
  <2> QED BY <2>1, <2>2, <2>3, <2>4 DEF a, b
<1> QED BY <1>1, <1>2, <1>3 DEF Related

LEMMA StructRelated ==
  ASSUME NEW package, NEW s, NEW r, NEW v, IsShape(package, s), IsShape(package, r), Related(s, r),
         IsTyped(s, v), IsLegible(r, v), s.kind = "Sequence"
  PROVE  StructVersions(s, r, v)
<1>1. /\ r.kind = "Sequence" /\ r.root = s.root /\ r.extensible = s.extensible
      /\ \A k \in 1 .. Len(r.more) : k <= Len(s.more) => r.more[k] = s.more[k]
  BY VersionFacts
<1>2. IsStruct(s, v) /\ IsSequence(r.more)
  BY <1>1, StructFacts DEF IsShape
<1>3. ASSUME r.more = <<>>
      PROVE  Present(s, v) = {}
  <2>1. \A k \in DOMAIN v.more : v.more[k] = None
    BY <1>1, <1>3 DEF IsLegible
  <2>2. DOMAIN s.more = DOMAIN v.more
    BY <1>2, DomainOf DEF IsStruct, AreHeld
  <2> QED BY <2>1, <2>2 DEF Present
<1> QED BY <1>1, <1>2, <1>3 DEF StructVersions

LEMMA UnionRelated ==
  ASSUME NEW package, NEW s, NEW r, NEW v, IsShape(package, s), IsShape(package, r), Related(s, r),
         IsTyped(s, v), s.kind = "Choice"
  PROVE  UnionVersions(s, r, v)
<1>1. /\ r.kind = "Choice" /\ r.root = s.root /\ r.extensible = s.extensible
      /\ \A k \in 1 .. Len(r.more) : k <= Len(s.more) => r.more[k] = s.more[k]
  BY VersionFacts
<1>2. IsUnion(s, v) /\ IsSequence(r.more)
  BY <1>1, UnionFacts DEF IsShape
<1> QED BY <1>1, <1>2 DEF UnionVersions

LEMMA EnumRelated ==
  ASSUME NEW package, NEW s, NEW r, IsShape(package, s), IsShape(package, r), Related(s, r),
         s.kind = "Enumerated"
  PROVE  EnumVersions(s, r)
<1>1. /\ r.kind = "Enumerated" /\ r.root = s.root /\ r.extensible = s.extensible
      /\ \A k \in 1 .. Len(r.more) : k <= Len(s.more) => r.more[k] = s.more[k]
      /\ Len(s.more) > Len(r.more) => s = Later(r)
  BY VersionFacts
<1> QED BY <1>1, EnumFacts DEF EnumVersions

(* EncodeUPER of each kind of type. *)
Compound == {"Ref", "Sequence", "Choice", "Enumerated", "ListOf", "Boolean"}

LEMMA InsideCases ==
  ASSUME NEW types, NEW t, NEW v
  PROVE  /\ t.kind = "Ref" => Inside(types, <<t, v>>) = {<<types[t.name], v>>}
         /\ t.kind \notin {"Ref", "Sequence", "Choice", "ListOf"} => Inside(types, <<t, v>>) = {}
BY DEF Inside

LEMMA EncodeResult ==
  ASSUME NEW package, NEW t, NEW v, IsShape(package, t), IsTyped(t, v),
         NEW types, NEW code, AllResults(Inside(types, <<t, v>>), code)
  PROVE  /\ IsResult(EncodeUPER(types, <<t, v>>, code))
         /\ EncodeUPER(types, <<t, v>>, code).ok <=>
              IsKnown(t, v) /\ IsSized(t, v) /\ AllOk(Inside(types, <<t, v>>), code)
<1>1. CASE t.kind = "Ref"
  <2>1. EncodeUPER(types, <<t, v>>, code) = code[<<types[t.name], v>>]
    BY <1>1 DEF EncodeUPER
  <2> QED BY <1>1, <2>1, InsideCases DEF AllResults, AllOk, IsKnown, IsSized
<1>2. CASE t.kind = "Sequence"
  <2>1. IsKnown(t, v) /\ IsSized(t, v)
    BY <1>2 DEF IsKnown, IsSized
  <2>2. IsStruct(t, v)
    BY <1>2, StructFacts
  <2>3. EncodeUPER(types, <<t, v>>, code) = EncodeSequence(t, v, code)
    BY <1>2 DEF EncodeUPER
  <2> DEFINE w == EncodeUPER(types, <<t, v>>, code)
  <2> HIDE DEF w
  <2>4. w = EncodeSequence(t, v, code)
    BY <2>3 DEF w
  <2>5. IsResult(w) /\ (w.ok <=> IsKnown(t, v) /\ IsSized(t, v) /\ AllOk(Inside(types, <<t, v>>), code))
    BY <2>1, <2>2, <2>4, SequenceResult
  <2> QED BY <2>5 DEF w
<1>3. CASE t.kind = "Choice"
  <2>1. IsSized(t, v) /\ (IsKnown(t, v) <=> v[1] \in DOMAIN Parts(t))
    BY <1>3 DEF IsKnown, IsSized
  <2>2. IsUnion(t, v)
    BY <1>3, UnionFacts
  <2>3. EncodeUPER(types, <<t, v>>, code) = EncodeChoice(t, v, code)
    BY <1>3 DEF EncodeUPER
  <2> DEFINE w == EncodeUPER(types, <<t, v>>, code)
  <2> HIDE DEF w
  <2>4. w = EncodeChoice(t, v, code)
    BY <2>3 DEF w
  <2>5. IsResult(w) /\ (w.ok <=> IsKnown(t, v) /\ IsSized(t, v) /\ AllOk(Inside(types, <<t, v>>), code))
    BY <2>1, <2>2, <2>4, ChoiceResult
  <2> QED BY <2>5 DEF w
<1>4. CASE t.kind = "Enumerated"
  <2>1. IsSized(t, v) /\ (IsKnown(t, v) <=> PositionOf(t, v) # 0) /\ AllOk(Inside(types, <<t, v>>), code)
    BY <1>4, InsideCases DEF IsKnown, IsSized, AllOk
  <2>2. IsEnum(t)
    BY <1>4, EnumFacts
  <2>3. EncodeUPER(types, <<t, v>>, code) = EncodeEnumerated(t, v)
    BY <1>4 DEF EncodeUPER
  <2> DEFINE w == EncodeUPER(types, <<t, v>>, code)
  <2> HIDE DEF w
  <2>4. w = EncodeEnumerated(t, v)
    BY <2>3 DEF w
  <2>5. IsResult(w) /\ (w.ok <=> IsKnown(t, v) /\ IsSized(t, v) /\ AllOk(Inside(types, <<t, v>>), code))
    BY <2>1, <2>2, <2>4, EnumResult
  <2> QED BY <2>5 DEF w
<1>5. CASE t.kind = "ListOf"
  <2>1. IsKnown(t, v) /\ (IsSized(t, v) <=> (t.sized => Len(v) \in Sizes(t)))
    BY <1>5 DEF IsKnown, IsSized
  <2>2. IsListOf(t, v)
    BY <1>5, ListFacts
  <2>3. EncodeUPER(types, <<t, v>>, code) = EncodeList(t, v, code)
    BY <1>5 DEF EncodeUPER
  <2> DEFINE w == EncodeUPER(types, <<t, v>>, code)
  <2> HIDE DEF w
  <2>4. w = EncodeList(t, v, code)
    BY <2>3 DEF w
  <2>5. IsResult(w) /\ (w.ok <=> IsKnown(t, v) /\ IsSized(t, v) /\ AllOk(Inside(types, <<t, v>>), code))
    BY <2>1, <2>2, <2>4, ListResult
  <2> QED BY <2>5 DEF w
<1>6. CASE t.kind = "Boolean" \/ t.kind \notin Compound
  <2>1. IsKnown(t, v) /\ IsSized(t, v) /\ AllOk(Inside(types, <<t, v>>), code)
    BY <1>6, InsideCases DEF IsKnown, IsSized, AllOk, Compound
  <2> DEFINE w == EncodeUPER(types, <<t, v>>, code)
  <2>2. w = One("bit", v) \/ w = Nothing \/ w = One("value", [of |-> t, is |-> v])
    BY <1>6 DEF EncodeUPER, Compound
  <2> HIDE DEF w
  <2>3. IsResult(w) /\ w.ok
    BY <2>2, OneResult, NothingResult
  <2> QED BY <2>1, <2>3 DEF w
<1> QED BY <1>1, <1>2, <1>3, <1>4, <1>5, <1>6 DEF Compound

(* DecodeUPER reads what EncodeUPER has written. *)
KidsCarried(s, r, v, there, here, code, known, read, tokens) ==
  /\ s.kind = "Ref" => ReadsPart(read, here[s.name], tokens, code[<<there[s.name], v>>].bits, known[<<here[s.name], v>>])
  /\ s.kind # "Ref" => \A y \in Inside(there, <<s, v>>) \intersect Inside(here, <<r, v>>) :
                         ReadsPart(read, y[1], tokens, code[y].bits, known[y])

UPERCarried(package, s, r, v, there, here, code, known, read, tokens, end, p) ==
  /\ IsShape(package, s) /\ IsShape(package, r) /\ Related(s, r) /\ IsTyped(s, v) /\ IsLegible(r, v)
  /\ AllResults(Inside(there, <<s, v>>), code) /\ EncodeUPER(there, <<s, v>>, code).ok
  /\ KidsCarried(s, r, v, there, here, code, known, read, tokens)
  /\ end \in Nat /\ p \in Nat /\ p <= end /\ Along(tokens, end, p, EncodeUPER(there, <<s, v>>, code).bits)

LEMMA SequenceKids ==
  ASSUME NEW s, NEW r, NEW v, NEW there, NEW here, NEW code, NEW known, NEW read, NEW tokens,
         StructVersions(s, r, v), KidsCarried(s, r, v, there, here, code, known, read, tokens)
  PROVE  /\ ReadsParts(read, s.root, v.root, 1 .. Len(s.root), tokens, code, known)
         /\ ReadsParts(read, s.more, v.more, Common(s.more, r.more), tokens, code, known)
<1>1. /\ IsStruct(s, v) /\ r.root = s.root /\ IsSequence(r.more) /\ s.kind = "Sequence" /\ r.kind = "Sequence"
      /\ \A k \in 1 .. Len(r.more) : k <= Len(s.more) => r.more[k].type = s.more[k].type
  BY DEF StructVersions, IsStruct
<1>2. \A y \in Inside(there, <<s, v>>) \intersect Inside(here, <<r, v>>) :
         ReadsPart(read, y[1], tokens, code[y].bits, known[y])
  BY <1>1 DEF KidsCarried
<1>3. Inside(there, <<s, v>>) = Held(s.root, v.root) \union Held(s.more, v.more)
  BY <1>1 DEF Inside
<1>4. Inside(here, <<r, v>>) = Held(s.root, v.root) \union Held(r.more, v.more)
  BY <1>1 DEF Inside
<1>5. /\ DOMAIN s.root = 1 .. Len(s.root) /\ DOMAIN v.root = 1 .. Len(s.root)
      /\ DOMAIN s.more = 1 .. Len(s.more) /\ DOMAIN v.more = 1 .. Len(s.more)
      /\ DOMAIN r.more = 1 .. Len(r.more) /\ Len(s.more) \in Nat /\ Len(r.more) \in Nat
  BY <1>1, DomainOf DEF IsStruct, AreHeld
<1>6. ASSUME NEW k \in 1 .. Len(s.root), v.root[k] # None
      PROVE  ReadsPart(read, s.root[k].type, tokens, code[<<s.root[k].type, v.root[k][1]>>].bits,
                       known[<<s.root[k].type, v.root[k][1]>>])
  <2> DEFINE y == <<s.root[k].type, v.root[k][1]>>
  <2>1. y \in Held(s.root, v.root)
    BY <1>5, <1>6 DEF Held
  <2>2. y[1] = s.root[k].type
    OBVIOUS
  <2> HIDE DEF y
  <2>3. ReadsPart(read, y[1], tokens, code[y].bits, known[y])
    BY <1>2, <1>3, <1>4, <2>1
  <2> QED BY <2>2, <2>3 DEF y
<1>7. ASSUME NEW k \in 1 .. Len(s.more), k <= Len(r.more), v.more[k] # None
      PROVE  ReadsPart(read, s.more[k].type, tokens, code[<<s.more[k].type, v.more[k][1]>>].bits,
                       known[<<s.more[k].type, v.more[k][1]>>])
  <2> DEFINE y == <<s.more[k].type, v.more[k][1]>>
  <2>0. k \in 1 .. Len(r.more) /\ k <= Len(s.more)
    BY <1>5, <1>7
  <2>1. y \in Held(s.more, v.more)
    BY <1>5, <1>7 DEF Held
  <2>4. r.more[k].type = s.more[k].type
    BY <1>1, <2>0
  <2>5. y \in Held(r.more, v.more)
    BY <1>5, <1>7, <2>0, <2>4 DEF Held
  <2>2. y[1] = s.more[k].type
    OBVIOUS
  <2> HIDE DEF y
  <2>3. ReadsPart(read, y[1], tokens, code[y].bits, known[y])
    BY <1>2, <1>3, <1>4, <2>1, <2>5
  <2> QED BY <2>2, <2>3 DEF y
<1> QED BY <1>6, <1>7 DEF ReadsParts, Common

LEMMA UPERCarries ==
  ASSUME NEW package, NEW s, NEW r, NEW v, NEW there, NEW here, NEW code, NEW known, NEW read,
         NEW tokens, NEW end, NEW p,
         UPERCarried(package, s, r, v, there, here, code, known, read, tokens, end, p)
  PROVE  DecodeUPER(here, r, Input(tokens, end), p, read) =
           Outcome(Project(here, <<r, v>>, known), p, Len(EncodeUPER(there, <<s, v>>, code).bits), end)
<1>0. /\ IsShape(package, s) /\ IsShape(package, r) /\ Related(s, r) /\ IsTyped(s, v) /\ IsLegible(r, v)
      /\ AllResults(Inside(there, <<s, v>>), code) /\ EncodeUPER(there, <<s, v>>, code).ok
      /\ KidsCarried(s, r, v, there, here, code, known, read, tokens)
      /\ end \in Nat /\ p \in Nat /\ p <= end /\ Along(tokens, end, p, EncodeUPER(there, <<s, v>>, code).bits)
  BY DEF UPERCarried
<1>1. r.kind = s.kind /\ (~(s.kind \in {"Sequence", "Choice", "Enumerated"}) => r = s)
  BY <1>0, VersionFacts
<1> DEFINE input == Input(tokens, end)
           w == EncodeUPER(there, <<s, v>>, code)
           d == DecodeUPER(here, r, input, p, read)
           y == Project(here, <<r, v>>, known)
<1>2. CASE s.kind = "Ref"
  <2>1. w = code[<<there[s.name], v>>]
    BY <1>2 DEF EncodeUPER
  <2>2. d = read[<<here[s.name], end, p>>]
    BY <1>1, <1>2 DEF DecodeUPER, Input
  <2>3. y = known[<<here[s.name], v>>]
    BY <1>1, <1>2 DEF Project
  <2>4. ReadsPart(read, here[s.name], tokens, code[<<there[s.name], v>>].bits, known[<<here[s.name], v>>])
    BY <1>0, <1>2 DEF KidsCarried
  <2>5. Along(tokens, end, p, w.bits)
    BY <1>0
  <2> HIDE DEF w, d, y
  <2>6. d = Outcome(y, p, Len(w.bits), end)
    BY <1>0, <2>1, <2>2, <2>3, <2>4, <2>5 DEF ReadsPart
  <2> QED BY <2>6 DEF w, d, y
<1>3. CASE s.kind = "Sequence"
  <2>1. w = EncodeSequence(s, v, code)
    BY <1>3 DEF EncodeUPER
  <2>2. d = DecodeSequence(r, input, p, read)
    BY <1>1, <1>3 DEF DecodeUPER
  <2>3. y = SequencePart(r, v, known)
    BY <1>1, <1>3 DEF Project, SequencePart
  <2>4. StructVersions(s, r, v)
    BY <1>0, <1>3, StructRelated
  <2>5. /\ ReadsParts(read, s.root, v.root, 1 .. Len(s.root), tokens, code, known)
        /\ ReadsParts(read, s.more, v.more, Common(s.more, r.more), tokens, code, known)
    BY <1>0, <2>4, SequenceKids
  <2>6. w.ok /\ Along(tokens, end, p, w.bits)
    BY <1>0
  <2> HIDE DEF w, d, y
  <2>7. SequenceCarried(s, r, v, code, there, known, read, tokens, end, p)
    BY <1>0, <2>1, <2>4, <2>5, <2>6 DEF SequenceCarried
  <2>8. d = Outcome(y, p, Len(w.bits), end)
    BY <2>1, <2>2, <2>3, <2>7, SequenceCarries
  <2> QED BY <2>8 DEF w, d, y
<1>4. CASE s.kind = "Choice"
  <2>1. w = EncodeChoice(s, v, code)
    BY <1>4 DEF EncodeUPER
  <2>2. d = DecodeChoice(r, input, p, read)
    BY <1>1, <1>4 DEF DecodeUPER
  <2>3. y = ChoicePart(r, v, known)
    BY <1>1, <1>4 DEF Project, ChoicePart
  <2>4. UnionVersions(s, r, v)
    BY <1>0, <1>4, UnionRelated
  <2>5. v[1] \in DOMAIN Parts(r) =>
           ReadsPart(read, Parts(s)[v[1]].type, tokens, code[<<Parts(s)[v[1]].type, v[2]>>].bits,
                     known[<<Parts(s)[v[1]].type, v[2]>>])
    <3> SUFFICES ASSUME v[1] \in DOMAIN Parts(r)
                 PROVE  ReadsPart(read, Parts(s)[v[1]].type, tokens, code[<<Parts(s)[v[1]].type, v[2]>>].bits,
                                  known[<<Parts(s)[v[1]].type, v[2]>>])
      OBVIOUS
    <3> DEFINE x == <<Parts(s)[v[1]].type, v[2]>>
    <3>1. IsUnion(s, v) /\ EncodeChoice(s, v, code).ok
      BY <1>0, <2>1, <2>4 DEF UnionVersions
    <3>2. v[1] \in DOMAIN Parts(s)
      BY <1>0, <3>1, ChoiceResult
    <3>3. Inside(there, <<s, v>>) = {x}
      BY <3>1, <3>2, ChoiceInside
    <3>4. Parts(r)[v[1]].type = Parts(s)[v[1]].type
      BY <2>4, <3>2, AlternativesAgree
    <3>5. x \in Inside(here, <<r, v>>)
      BY <1>1, <1>4, <3>4 DEF Inside
    <3>6. x[1] = Parts(s)[v[1]].type
      OBVIOUS
    <3> HIDE DEF x
    <3>7. ReadsPart(read, x[1], tokens, code[x].bits, known[x])
      BY <1>0, <1>4, <3>3, <3>5 DEF KidsCarried
    <3> QED BY <3>6, <3>7 DEF x
  <2>6. w.ok /\ Along(tokens, end, p, w.bits)
    BY <1>0
  <2> HIDE DEF w, d, y
  <2>7. ChoiceCarried(s, r, v, code, there, known, read, tokens, end, p)
    BY <1>0, <2>1, <2>4, <2>5, <2>6 DEF ChoiceCarried
  <2>8. d = Outcome(y, p, Len(w.bits), end)
    BY <2>1, <2>2, <2>3, <2>7, ChoiceCarries
  <2> QED BY <2>8 DEF w, d, y
<1>5. CASE s.kind = "Enumerated"
  <2>1. w = EncodeEnumerated(s, v)
    BY <1>5 DEF EncodeUPER
  <2>2. d = DecodeEnumerated(r, input, p)
    BY <1>1, <1>5 DEF DecodeUPER
  <2>3. y = EnumPart(r, v)
    BY <1>1, <1>5 DEF Project, EnumPart
  <2>4. EnumVersions(s, r)
    BY <1>0, <1>5, EnumRelated
  <2>6. w.ok /\ Along(tokens, end, p, w.bits)
    BY <1>0
  <2> HIDE DEF w, d, y
  <2>7. EnumCarried(s, r, v, tokens, end, p)
    BY <1>0, <2>1, <2>4, <2>6 DEF EnumCarried
  <2>8. d = Outcome(y, p, Len(w.bits), end)
    BY <2>1, <2>2, <2>3, <2>7, EnumCarries
  <2> QED BY <2>8 DEF w, d, y
<1>6. CASE s.kind = "ListOf"
  <2>0. r = s
    BY <1>1, <1>6
  <2>4. IsListOf(s, v)
    BY <1>0, <1>6, ListFacts
  <2>1. w = EncodeList(s, v, code)
    BY <1>6 DEF EncodeUPER
  <2>2. d = DecodeList(s, input, p, read)
    BY <2>0, <1>6 DEF DecodeUPER
  <2>3. y = ListPart(s, v, known)
    BY <2>0, <1>6, <2>4, ListInside DEF Project, ListPart
  <2>5. ASSUME NEW k \in 1 .. Len(v)
        PROVE  ReadsPart(read, s.of, tokens, code[<<s.of, v[k]>>].bits, known[<<s.of, v[k]>>])
    <3> DEFINE x == <<s.of, v[k]>>
    <3>1. x \in Inside(there, <<s, v>>) /\ x \in Inside(here, <<r, v>>)
      BY <2>0, <2>4, ListInside
    <3>2. x[1] = s.of
      OBVIOUS
    <3> HIDE DEF x
    <3>3. ReadsPart(read, x[1], tokens, code[x].bits, known[x])
      BY <1>0, <1>6, <3>1 DEF KidsCarried
    <3> QED BY <3>2, <3>3 DEF x
  <2>6. w.ok /\ Along(tokens, end, p, w.bits)
    BY <1>0
  <2> HIDE DEF w, d, y
  <2>7. ListCarried(s, v, code, there, known, read, tokens, end, p)
    BY <1>0, <2>1, <2>4, <2>5, <2>6 DEF ListCarried
  <2>8. d = Outcome(y, p, Len(w.bits), end)
    BY <2>1, <2>2, <2>3, <2>7, ListCarries
  <2> QED BY <2>8 DEF w, d, y
<1>7. CASE s.kind = "Boolean"
  <2>1. w = One("bit", v)
    BY <1>7 DEF EncodeUPER
  <2>2. d = Take(input, p, "bit")
    BY <1>1, <1>7 DEF DecodeUPER
  <2>3. y = v
    BY <1>1, <1>7 DEF Project
  <2>4. Along(tokens, end, p, <<Token("bit", v)>>) /\ Len(w.bits) = 1
    BY <1>0, <2>1, OneResult
  <2> HIDE DEF w, d, y
  <2>5. d = Outcome(y, p, Len(w.bits), end)
    BY <1>0, <2>2, <2>3, <2>4, TakeCarries
  <2> QED BY <2>5 DEF w, d, y
<1>8. CASE s.kind \notin Compound
  <2>0. r = s
    BY <1>1, <1>8 DEF Compound
  <2>3. y = v
    BY <2>0, <1>8 DEF Project, Compound
  <2>1. CASE IsEmpty(s)
    <3>1. w = Nothing
      BY <1>8, <2>1 DEF EncodeUPER, Compound
    <3>2. d = Decoded("least", p)
      BY <2>0, <1>8, <2>1 DEF DecodeUPER, Compound
    <3>3. v = "least"
      BY <1>0, <2>1 DEF IsTyped
    <3>4. Len(w.bits) = 0 /\ p + 0 = p
      BY <1>0, <3>1, NothingResult
    <3> HIDE DEF w, d, y
    <3>5. d = Outcome(y, p, Len(w.bits), end)
      BY <1>0, <2>3, <3>2, <3>3, <3>4 DEF Outcome
    <3> QED BY <3>5 DEF w, d, y
  <2>2. CASE ~IsEmpty(s)
    <3>1. w = One("value", [of |-> s, is |-> v])
      BY <1>8, <2>2 DEF EncodeUPER, Compound
    <3>2. d = TakeAs(input, p, "value", s)
      BY <2>0, <1>8, <2>2 DEF DecodeUPER, Compound
    <3>3. Len(w.bits) = 1
      BY <3>1, OneResult
    <3>4. Along(tokens, end, p, One("value", [of |-> s, is |-> v]).bits)
      BY <1>0, <3>1
    <3> HIDE DEF w, d, y
    <3>5. TakeAs(input, p, "value", s) = Outcome(v, p, 1, end)
      BY <1>0, <3>4, TakeAsCarries
    <3>6. d = Outcome(y, p, Len(w.bits), end)
      BY <2>3, <3>2, <3>3, <3>5
    <3> QED BY <3>6 DEF w, d, y
  <2> QED BY <2>1, <2>2
<1> QED BY <1>2, <1>3, <1>4, <1>5, <1>6, <1>7, <1>8 DEF Compound

-----------------------------------------------------------------------------
(* The tables, each by its first entry and how one is made from the one    *)
(* before it.                                                              *)
(* What is reached by k calls: at the k-th, and so far. *)
AreReached(g, types, typed, depth) ==
  /\ g[0] = [last |-> {typed}, all |-> {typed}]
  /\ \A k \in 1 .. depth : g[k] = [last |-> UNION {Inside(types, x) : x \in g[k - 1].last},
              all |-> g[k - 1].all \union UNION {Inside(types, x) : x \in g[k - 1].last}]
  /\ Reached(types, typed, depth) = g[depth]

LEMMA ReachedDefined ==
  ASSUME NEW types, NEW typed, NEW depth \in Nat
  PROVE  \E g : AreReached(g, types, typed, depth)
<1> DEFINE base == [last |-> {typed}, all |-> {typed}]
           next(r) == [last |-> UNION {Inside(types, x) : x \in r.last},
              all |-> r.all \union UNION {Inside(types, x) : x \in r.last}]
           up(m, g) == [k \in 0 .. m |-> IF k = 0 THEN base ELSE next(g[k - 1])]
           S == {m \in Nat : \E g : g = up(m, g)}
<1> HIDE DEF next, base
<1>1. 0 \in S
  <2> DEFINE e == [k \in 0 .. 0 |-> base]
  <2>1. e = up(0, e)
    OBVIOUS
  <2> QED BY <2>1
<1>2. ASSUME NEW m \in Nat, m \in S
      PROVE  m + 1 \in S
  <2>1. PICK g : g = up(m, g)
    BY <1>2
  <2> DEFINE h == up(m + 1, g)
  <2>2. ASSUME NEW k \in 0 .. m + 1, k # 0
        PROVE  h[k - 1] = g[k - 1]
    <3>1. k - 1 \in 0 .. m /\ k - 1 \in 0 .. m + 1
      BY <2>2
    <3>2. g[k - 1] = IF k - 1 = 0 THEN base ELSE next(g[(k - 1) - 1])
      BY <2>1, <3>1
    <3> QED BY <3>1, <3>2
  <2>3. h = up(m + 1, h)
    BY <2>2
  <2>4. \E f : f = up(m + 1, f)
    <3> HIDE DEF h
    <3> QED BY <2>3
  <2> HIDE DEF up
  <2> QED BY <2>4
<1>3. \E g : g = up(depth, g)
  <2>1. Nat \subseteq S
    <3> HIDE DEF S
    <3> QED BY <1>1, <1>2, Induction
  <2> QED BY <2>1
<1> DEFINE table == CHOOSE g : g = up(depth, g)
<1>4. table = up(depth, table)
  BY <1>3
<1>5. Reached(types, typed, depth) = table[depth]
  BY Zenon DEF Reached, next, base
<1> HIDE DEF table
<1>6. table[0] = base /\ \A k \in 1 .. depth : table[k] = next(table[k - 1])
  BY <1>4
<1>7. AreReached(table, types, typed, depth)
  BY <1>5, <1>6 DEF AreReached, next, base
<1> QED BY <1>7

(* What the encoder returns. *)
AreCoded(g, types, typed, depth) ==
  /\ g[0] = [x \in Nest(types, typed, depth) |-> Refused]
  /\ \A k \in 1 .. depth : g[k] = [x \in Nest(types, typed, depth) |->
              EncodeUPER(types, x, [y \in Inside(types, x) |-> g[k - 1][y]])]
  /\ Encode(types, typed, depth) = g[depth][typed]

LEMMA EncodeDefined ==
  ASSUME NEW types, NEW typed, NEW depth \in Nat
  PROVE  \E g : AreCoded(g, types, typed, depth)
<1> DEFINE base == [x \in Nest(types, typed, depth) |-> Refused]
           next(r) == [x \in Nest(types, typed, depth) |->
              EncodeUPER(types, x, [y \in Inside(types, x) |-> r[y]])]
           up(m, g) == [k \in 0 .. m |-> IF k = 0 THEN base ELSE next(g[k - 1])]
           S == {m \in Nat : \E g : g = up(m, g)}
<1> HIDE DEF next, base
<1>1. 0 \in S
  <2> DEFINE e == [k \in 0 .. 0 |-> base]
  <2>1. e = up(0, e)
    OBVIOUS
  <2> QED BY <2>1
<1>2. ASSUME NEW m \in Nat, m \in S
      PROVE  m + 1 \in S
  <2>1. PICK g : g = up(m, g)
    BY <1>2
  <2> DEFINE h == up(m + 1, g)
  <2>2. ASSUME NEW k \in 0 .. m + 1, k # 0
        PROVE  h[k - 1] = g[k - 1]
    <3>1. k - 1 \in 0 .. m /\ k - 1 \in 0 .. m + 1
      BY <2>2
    <3>2. g[k - 1] = IF k - 1 = 0 THEN base ELSE next(g[(k - 1) - 1])
      BY <2>1, <3>1
    <3> QED BY <3>1, <3>2
  <2>3. h = up(m + 1, h)
    BY <2>2
  <2>4. \E f : f = up(m + 1, f)
    <3> HIDE DEF h
    <3> QED BY <2>3
  <2> HIDE DEF up
  <2> QED BY <2>4
<1>3. \E g : g = up(depth, g)
  <2>1. Nat \subseteq S
    <3> HIDE DEF S
    <3> QED BY <1>1, <1>2, Induction
  <2> QED BY <2>1
<1> DEFINE table == CHOOSE g : g = up(depth, g)
<1>4. table = up(depth, table)
  BY <1>3
<1>5. Encode(types, typed, depth) = table[depth][typed]
  BY Zenon DEF Encode, next, base
<1> HIDE DEF table
<1>6. table[0] = base /\ \A k \in 1 .. depth : table[k] = next(table[k - 1])
  BY <1>4
<1>7. AreCoded(table, types, typed, depth)
  BY <1>5, <1>6 DEF AreCoded, next, base
<1> QED BY <1>7

(* What the receiver knows of a value. *)
AreKnown(g, types, typed, depth) ==
  /\ g[0] = [x \in Nest(types, typed, depth) |-> x[2]]
  /\ \A k \in 1 .. depth : g[k] = [x \in Nest(types, typed, depth) |->
              Project(types, x, [y \in Inside(types, x) |-> g[k - 1][y]])]
  /\ Projection(types, typed, depth) = g[depth][typed]

LEMMA ProjectionDefined ==
  ASSUME NEW types, NEW typed, NEW depth \in Nat
  PROVE  \E g : AreKnown(g, types, typed, depth)
<1> DEFINE base == [x \in Nest(types, typed, depth) |-> x[2]]
           next(r) == [x \in Nest(types, typed, depth) |->
              Project(types, x, [y \in Inside(types, x) |-> r[y]])]
           up(m, g) == [k \in 0 .. m |-> IF k = 0 THEN base ELSE next(g[k - 1])]
           S == {m \in Nat : \E g : g = up(m, g)}
<1> HIDE DEF next, base
<1>1. 0 \in S
  <2> DEFINE e == [k \in 0 .. 0 |-> base]
  <2>1. e = up(0, e)
    OBVIOUS
  <2> QED BY <2>1
<1>2. ASSUME NEW m \in Nat, m \in S
      PROVE  m + 1 \in S
  <2>1. PICK g : g = up(m, g)
    BY <1>2
  <2> DEFINE h == up(m + 1, g)
  <2>2. ASSUME NEW k \in 0 .. m + 1, k # 0
        PROVE  h[k - 1] = g[k - 1]
    <3>1. k - 1 \in 0 .. m /\ k - 1 \in 0 .. m + 1
      BY <2>2
    <3>2. g[k - 1] = IF k - 1 = 0 THEN base ELSE next(g[(k - 1) - 1])
      BY <2>1, <3>1
    <3> QED BY <3>1, <3>2
  <2>3. h = up(m + 1, h)
    BY <2>2
  <2>4. \E f : f = up(m + 1, f)
    <3> HIDE DEF h
    <3> QED BY <2>3
  <2> HIDE DEF up
  <2> QED BY <2>4
<1>3. \E g : g = up(depth, g)
  <2>1. Nat \subseteq S
    <3> HIDE DEF S
    <3> QED BY <1>1, <1>2, Induction
  <2> QED BY <2>1
<1> DEFINE table == CHOOSE g : g = up(depth, g)
<1>4. table = up(depth, table)
  BY <1>3
<1>5. Projection(types, typed, depth) = table[depth][typed]
  BY Zenon DEF Projection, next, base
<1> HIDE DEF table
<1>6. table[0] = base /\ \A k \in 1 .. depth : table[k] = next(table[k - 1])
  BY <1>4
<1>7. AreKnown(table, types, typed, depth)
  BY <1>5, <1>6 DEF AreKnown, next, base
<1> QED BY <1>7

(* What the decoder returns. *)
AreRead(g, shapes, types, t, tokens, depth) ==
  /\ g[0] = [x \in shapes \X Nat \X Nat |-> Failed("deep")]
  /\ \A k \in 1 .. depth : g[k] = [x \in shapes \X Nat \X Nat |->
              DecodeUPER(types, x[1], Input(tokens, x[2]), x[3], g[k - 1])]
  /\ Decode(shapes, types, t, tokens, depth) = g[depth][<<t, Len(tokens), 0>>]

LEMMA DecodeDefined ==
  ASSUME NEW shapes, NEW types, NEW t, NEW tokens, NEW depth \in Nat
  PROVE  \E g : AreRead(g, shapes, types, t, tokens, depth)
<1> DEFINE base == [x \in shapes \X Nat \X Nat |-> Failed("deep")]
           next(r) == [x \in shapes \X Nat \X Nat |->
              DecodeUPER(types, x[1], Input(tokens, x[2]), x[3], r)]
           up(m, g) == [k \in 0 .. m |-> IF k = 0 THEN base ELSE next(g[k - 1])]
           S == {m \in Nat : \E g : g = up(m, g)}
<1> HIDE DEF next, base
<1>1. 0 \in S
  <2> DEFINE e == [k \in 0 .. 0 |-> base]
  <2>1. e = up(0, e)
    OBVIOUS
  <2> QED BY <2>1
<1>2. ASSUME NEW m \in Nat, m \in S
      PROVE  m + 1 \in S
  <2>1. PICK g : g = up(m, g)
    BY <1>2
  <2> DEFINE h == up(m + 1, g)
  <2>2. ASSUME NEW k \in 0 .. m + 1, k # 0
        PROVE  h[k - 1] = g[k - 1]
    <3>1. k - 1 \in 0 .. m /\ k - 1 \in 0 .. m + 1
      BY <2>2
    <3>2. g[k - 1] = IF k - 1 = 0 THEN base ELSE next(g[(k - 1) - 1])
      BY <2>1, <3>1
    <3> QED BY <3>1, <3>2
  <2>3. h = up(m + 1, h)
    BY <2>2
  <2>4. \E f : f = up(m + 1, f)
    <3> HIDE DEF h
    <3> QED BY <2>3
  <2> HIDE DEF up
  <2> QED BY <2>4
<1>3. \E g : g = up(depth, g)
  <2>1. Nat \subseteq S
    <3> HIDE DEF S
    <3> QED BY <1>1, <1>2, Induction
  <2> QED BY <2>1
<1> DEFINE table == CHOOSE g : g = up(depth, g)
<1>4. table = up(depth, table)
  BY <1>3
<1>5. Decode(shapes, types, t, tokens, depth) = table[depth][<<t, Len(tokens), 0>>]
  BY Zenon DEF Decode, next, base
<1> HIDE DEF table
<1>6. table[0] = base /\ \A k \in 1 .. depth : table[k] = next(table[k - 1])
  BY <1>4
<1>7. AreRead(table, shapes, types, t, tokens, depth)
  BY <1>5, <1>6 DEF AreRead, next, base
<1> QED BY <1>7

-----------------------------------------------------------------------------
(* What is reached is reached at some level, and what is inside of that at *)
(* the next one.                                                           *)
LEMMA NestFacts ==
  ASSUME NEW g, NEW types, NEW typed, NEW depth \in Nat, AreReached(g, types, typed, depth)
  PROVE  /\ typed \in g[0].last /\ \A k \in 0 .. depth : g[k].last \subseteq Nest(types, typed, depth)
         /\ Level(types, typed, depth) = g[depth].last
         /\ \A k \in 0 .. depth : k < depth => g[k + 1].last = UNION {Inside(types, x) : x \in g[k].last}
         /\ \A x \in Nest(types, typed, depth) : \E k \in 0 .. depth : x \in g[k].last
<1>0. /\ g[0] = [last |-> {typed}, all |-> {typed}]
      /\ \A k \in 1 .. depth : g[k] = [last |-> UNION {Inside(types, x) : x \in g[k - 1].last},
              all |-> g[k - 1].all \union UNION {Inside(types, x) : x \in g[k - 1].last}]
      /\ Reached(types, typed, depth) = g[depth]
  BY DEF AreReached
<1>1. Level(types, typed, depth) = g[depth].last /\ Nest(types, typed, depth) = g[depth].all
  BY <1>0 DEF Level, Nest
<1>2. ASSUME NEW k \in 0 .. depth, k < depth
      PROVE  /\ g[k + 1].last = UNION {Inside(types, x) : x \in g[k].last}
             /\ g[k + 1].all = g[k].all \union g[k + 1].last
  <2>1. k + 1 \in 1 .. depth /\ (k + 1) - 1 = k
    BY <1>2
  <2>2. g[k + 1] = [last |-> UNION {Inside(types, x) : x \in g[k].last},
              all |-> g[k].all \union UNION {Inside(types, x) : x \in g[k].last}]
    BY <1>0, <2>1
  <2> QED BY <2>2
<1>3. \A m \in 0 .. depth : \A k \in 0 .. m : g[k].last \subseteq g[m].all
  <2> DEFINE S == {m \in Nat : \A k \in 0 .. m : g[k].last \subseteq g[m].all}
  <2>1. 0 \in S
    BY <1>0
  <2>2. ASSUME NEW m \in Nat, m < depth, m \in S
        PROVE  m + 1 \in S
    BY <1>2, <2>2
  <2> HIDE DEF S
  <2>3. \A m \in 0 .. depth : m \in S
    BY <2>1, <2>2, InductionTo
  <2> QED BY <2>3 DEF S
<1>4. \A m \in 0 .. depth : \A x \in g[m].all : \E k \in 0 .. m : x \in g[k].last
  <2> DEFINE S == {m \in Nat : \A x \in g[m].all : \E k \in 0 .. m : x \in g[k].last}
  <2>1. 0 \in S
    BY <1>0
  <2>2. ASSUME NEW m \in Nat, m < depth, m \in S
        PROVE  m + 1 \in S
    <3>1. g[m + 1].all = g[m].all \union g[m + 1].last
      BY <1>2, <2>2
    <3>2. ASSUME NEW x \in g[m].all
          PROVE  \E k \in 0 .. m + 1 : x \in g[k].last
      <4>1. PICK k \in 0 .. m : x \in g[k].last
        BY <2>2, <3>2
      <4> QED BY <4>1
    <3> QED BY <3>1, <3>2
  <2> HIDE DEF S
  <2>3. \A m \in 0 .. depth : m \in S
    BY <2>1, <2>2, InductionTo
  <2> QED BY <2>3 DEF S
<1> QED BY <1>0, <1>1, <1>2, <1>3, <1>4

(* If nothing is reached by the last call, the values in what is reached   *)
(* are reached.                                                            *)
LEMMA NestClosed ==
  ASSUME NEW types, NEW typed, NEW depth \in Nat, Level(types, typed, depth) = {}
  PROVE  /\ typed \in Nest(types, typed, depth)
         /\ \A x \in Nest(types, typed, depth) : Inside(types, x) \subseteq Nest(types, typed, depth)
<1>1. PICK g : AreReached(g, types, typed, depth)
  BY ReachedDefined
<1>2. typed \in Nest(types, typed, depth)
  BY <1>1, NestFacts
<1>3. ASSUME NEW x \in Nest(types, typed, depth)
      PROVE  Inside(types, x) \subseteq Nest(types, typed, depth)
  <2>1. PICK k \in 0 .. depth : x \in g[k].last
    BY <1>1, NestFacts
  <2>2. k # depth
    BY <1>1, <2>1, NestFacts
  <2>3. k < depth /\ k + 1 \in 0 .. depth
    BY <2>2
  <2> QED BY <1>1, <2>1, <2>3, NestFacts
<1> QED BY <1>2, <1>3

(* The shape of what is reached is one of the package.                     *)
InPackage(package, types) ==
  /\ package \in DOMAIN Packages
  /\ \A name \in DOMAIN Packages[package] : types[name] \in Shapes[package]

LEMMA InsideShapes ==
  ASSUME NEW package, NEW types, InPackage(package, types),
         NEW t \in Shapes[package], NEW v, NEW y \in Inside(types, <<t, v>>)
  PROVE  y[1] \in Shapes[package]
<1>1. IsShape(package, t)
  BY PduAssumption DEF InPackage
<1>2. CASE t.kind = "Ref"
  BY <1>1, <1>2, InsideCases DEF IsShape, InPackage
<1>3. CASE t.kind = "Sequence"
  <2>1. Inside(types, <<t, v>>) = Held(t.root, v.root) \union Held(t.more, v.more)
    BY <1>3 DEF Inside
  <2>2. /\ IsSequence(t.root) /\ IsSequence(t.more)
        /\ \A k \in DOMAIN Parts(t) : Parts(t)[k].type \in Shapes[package]
    BY <1>1, <1>3 DEF IsShape
  <2>3. /\ DOMAIN t.root = 1 .. Len(t.root) /\ DOMAIN t.more = 1 .. Len(t.more)
        /\ Len(t.root) \in Nat /\ Len(t.more) \in Nat
    BY <2>2, DomainOf
  <2> DEFINE parts == Parts(t)
  <2>4. /\ DOMAIN parts = 1 .. Len(t.root) + Len(t.more)
        /\ \A k \in 1 .. Len(t.root) : parts[k] = t.root[k]
        /\ \A k \in 1 .. Len(t.more) : parts[Len(t.root) + k] = t.more[k]
    <3>1. parts = t.root \o t.more
      BY DEF Parts
    <3> HIDE DEF parts
    <3>2. /\ IsSequence(parts) /\ Len(parts) = Len(t.root) + Len(t.more)
          /\ \A k \in 1 .. Len(t.root) : parts[k] = t.root[k]
          /\ \A k \in 1 .. Len(t.more) : parts[Len(t.root) + k] = t.more[k]
      <4> DEFINE root == t.root
                 more == t.more
      <4>1. IsSequence(root) /\ IsSequence(more) /\ parts = root \o more
        BY <2>2, <3>1
      <4> HIDE DEF root, more
      <4>2. /\ IsSequence(parts) /\ Len(parts) = Len(root) + Len(more)
            /\ \A k \in 1 .. Len(root) : parts[k] = root[k]
            /\ \A k \in 1 .. Len(more) : parts[Len(root) + k] = more[k]
        BY <4>1, Joined
      <4> QED BY <4>2 DEF root, more
    <3>3. DOMAIN parts = 1 .. Len(parts)
      BY <3>2, DomainOf
    <3> QED BY <3>2, <3>3
  <2> HIDE DEF parts
  <2> DEFINE a == Len(t.root)
             b == Len(t.more)
  <2>5. a \in Nat /\ b \in Nat
    BY <2>3
  <2>6. \A k \in 1 .. a : t.root[k].type \in Shapes[package]
    <3> SUFFICES ASSUME NEW k \in 1 .. a PROVE t.root[k].type \in Shapes[package]
      OBVIOUS
    <3>1. parts[k] = t.root[k] /\ DOMAIN parts = 1 .. a + b
      BY <2>4
    <3> HIDE DEF a, b
    <3>2. k \in DOMAIN parts
      BY <2>5, <3>1
    <3> QED BY <2>2, <3>1, <3>2 DEF parts
  <2>7. \A k \in 1 .. b : t.more[k].type \in Shapes[package]
    <3> SUFFICES ASSUME NEW k \in 1 .. b PROVE t.more[k].type \in Shapes[package]
      OBVIOUS
    <3>1. parts[a + k] = t.more[k] /\ DOMAIN parts = 1 .. a + b
      BY <2>4
    <3> HIDE DEF a, b
    <3>2. a + k \in DOMAIN parts
      BY <2>5, <3>1
    <3> QED BY <2>2, <3>1, <3>2 DEF parts
  <2> QED BY <2>1, <2>3, <2>6, <2>7 DEF Held
<1>4. CASE t.kind = "Choice"
  <2>1. Inside(types, <<t, v>>) = {<<Parts(t)[k].type, v[2]>> : k \in {j \in DOMAIN Parts(t) : j = v[1]}}
    BY <1>4 DEF Inside
  <2> QED BY <1>1, <1>4, <2>1 DEF IsShape
<1>5. CASE t.kind = "ListOf"
  <2>1. Inside(types, <<t, v>>) = {<<t.of, v[k]>> : k \in DOMAIN v}
    BY <1>5 DEF Inside
  <2> QED BY <1>1, <1>5, <2>1 DEF IsShape
<1>6. CASE t.kind \notin {"Ref", "Sequence", "Choice", "ListOf"}
  BY <1>6, InsideCases
<1> QED BY <1>2, <1>3, <1>4, <1>5, <1>6

(* What is inside has the form that Inside needs.                           *)
LEMMA PairFacts ==
  ASSUME NEW types, NEW t, NEW v, NEW y \in Inside(types, <<t, v>>)
  PROVE  y = <<y[1], y[2]>>
BY DEF Inside, Held

Pairs(package, set) == \A x \in set : x = <<x[1], x[2]>> /\ x[1] \in Shapes[package]

LEMMA NestShapes ==
  ASSUME NEW package, NEW types, InPackage(package, types), NEW t \in Shapes[package], NEW v,
         NEW depth \in Nat
  PROVE  Pairs(package, Nest(types, <<t, v>>, depth))
<1>1. PICK g : AreReached(g, types, <<t, v>>, depth)
  BY ReachedDefined
<1>2. /\ g[0].last = {<<t, v>>}
      /\ \A k \in 1 .. depth : g[k].last = UNION {Inside(types, x) : x \in g[k - 1].last}
  <2> DEFINE typed == <<t, v>>
  <2>1. /\ g[0] = [last |-> {typed}, all |-> {typed}]
        /\ \A k \in 1 .. depth : g[k] = [last |-> UNION {Inside(types, x) : x \in g[k - 1].last},
              all |-> g[k - 1].all \union UNION {Inside(types, x) : x \in g[k - 1].last}]
    BY <1>1 DEF AreReached
  <2> HIDE DEF typed
  <2>2. g[0].last = {typed} /\ \A k \in 1 .. depth : g[k].last = UNION {Inside(types, x) : x \in g[k - 1].last}
    <3>1. ASSUME NEW k \in 1 .. depth
          PROVE  g[k].last = UNION {Inside(types, x) : x \in g[k - 1].last}
      <4>1. g[k] = [last |-> UNION {Inside(types, x) : x \in g[k - 1].last},
              all |-> g[k - 1].all \union UNION {Inside(types, x) : x \in g[k - 1].last}]
        BY <2>1
      <4> QED BY <4>1
    <3> QED BY <2>1, <3>1
  <2> QED BY <2>2 DEF typed
<1> DEFINE S == {k \in Nat : Pairs(package, g[k].last)}
<1>3. 0 \in S
  BY <1>2 DEF Pairs
<1>4. ASSUME NEW k \in Nat, k < depth, k \in S
      PROVE  k + 1 \in S
  <2>1. g[k + 1].last = UNION {Inside(types, x) : x \in g[k].last}
    <3>1. k + 1 \in 1 .. depth /\ (k + 1) - 1 = k
      BY <1>4
    <3> QED BY <1>2, <3>1
  <2>2. ASSUME NEW x \in g[k].last, NEW y \in Inside(types, x)
        PROVE  y = <<y[1], y[2]>> /\ y[1] \in Shapes[package]
    <3>1. x = <<x[1], x[2]>> /\ x[1] \in Shapes[package]
      BY <1>4, <2>2 DEF Pairs
    <3> DEFINE s == x[1]
               w == x[2]
    <3>2. y \in Inside(types, <<s, w>>) /\ s \in Shapes[package]
      BY <2>2, <3>1
    <3> HIDE DEF s, w
    <3> QED BY <3>2, PairFacts, InsideShapes
  <2> QED BY <2>1, <2>2 DEF Pairs
<1> HIDE DEF S
<1>5. \A k \in 0 .. depth : k \in S
  BY <1>3, <1>4, InductionTo
<1>6. \A x \in Nest(types, <<t, v>>, depth) : \E k \in 0 .. depth : x \in g[k].last
  BY <1>1, NestFacts
<1> QED BY <1>5, <1>6 DEF S, Pairs

(* A value to encode: refused if and only if something in it is not known, *)
(* or a list has the wrong length.                                         *)
Sending(package, types, t, v, depth) ==
  /\ InPackage(package, types) /\ t \in Shapes[package] /\ depth \in Nat
  /\ Level(types, <<t, v>>, depth) = {}
  /\ \A x \in Nest(types, <<t, v>>, depth) : IsTyped(x[1], x[2])
Fine(x) == IsKnown(x[1], x[2]) /\ IsSized(x[1], x[2])
PartsOf(types, x, table) == [y \in Inside(types, x) |-> table[y]]

LEMMA SendingFacts ==
  ASSUME NEW package, NEW types, NEW t, NEW v, NEW depth, Sending(package, types, t, v, depth)
  PROVE  /\ depth \in Nat /\ <<t, v>> \in Nest(types, <<t, v>>, depth)
         /\ \A x \in Nest(types, <<t, v>>, depth) :
              /\ x = <<x[1], x[2]>> /\ x[1] \in Shapes[package] /\ IsShape(package, x[1]) /\ IsTyped(x[1], x[2])
              /\ Inside(types, x) \subseteq Nest(types, <<t, v>>, depth)
<1>1. /\ InPackage(package, types) /\ t \in Shapes[package] /\ depth \in Nat
      /\ Level(types, <<t, v>>, depth) = {}
      /\ \A x \in Nest(types, <<t, v>>, depth) : IsTyped(x[1], x[2])
  BY DEF Sending
<1>2. Pairs(package, Nest(types, <<t, v>>, depth))
  BY <1>1, NestShapes
<1>3. \A x \in Nest(types, <<t, v>>, depth) : x = <<x[1], x[2]>> /\ x[1] \in Shapes[package]
  BY <1>2 DEF Pairs
<1>4. \A s \in Shapes[package] : IsShape(package, s)
  BY <1>1, PduAssumption DEF InPackage
<1> DEFINE typed == <<t, v>>
<1> HIDE DEF typed
<1>5. typed \in Nest(types, typed, depth)
      /\ \A x \in Nest(types, typed, depth) : Inside(types, x) \subseteq Nest(types, typed, depth)
  BY <1>1, NestClosed DEF typed
<1> QED BY <1>1, <1>3, <1>4, <1>5 DEF typed

LEMMA CodeStep ==
  ASSUME NEW package, NEW types, NEW x, IsShape(package, x[1]), IsTyped(x[1], x[2]), x = <<x[1], x[2]>>,
         NEW table, AllResults(Inside(types, x), table)
  PROVE  /\ IsResult(EncodeUPER(types, x, PartsOf(types, x, table)))
         /\ EncodeUPER(types, x, PartsOf(types, x, table)).ok <=> Fine(x) /\ AllOk(Inside(types, x), table)
<1> DEFINE s == x[1]
           w == x[2]
           code == PartsOf(types, x, table)
<1>1. x = <<s, w>> /\ IsShape(package, s) /\ IsTyped(s, w)
  OBVIOUS
<1>2. AllResults(Inside(types, x), code) /\ (AllOk(Inside(types, x), code) <=> AllOk(Inside(types, x), table))
  BY DEF AllResults, AllOk, PartsOf
<1>3. Fine(x) <=> IsKnown(s, w) /\ IsSized(s, w)
  BY DEF Fine
<1> HIDE DEF s, w, code
<1>4. AllResults(Inside(types, <<s, w>>), code)
  BY <1>1, <1>2
<1>5. /\ IsResult(EncodeUPER(types, <<s, w>>, code))
      /\ EncodeUPER(types, <<s, w>>, code).ok <=> IsKnown(s, w) /\ IsSized(s, w) /\ AllOk(Inside(types, <<s, w>>), code)
  BY <1>1, <1>4, EncodeResult
<1>6. /\ IsResult(EncodeUPER(types, x, code))
      /\ EncodeUPER(types, x, code).ok <=> IsKnown(s, w) /\ IsSized(s, w) /\ AllOk(Inside(types, x), code)
  BY <1>1, <1>5
<1> QED BY <1>2, <1>3, <1>6 DEF code

(* Whatever is encoded by any number of nested calls is a result.          *)
AreEncoded(types, nest, code, depth) ==
  /\ \A n \in 0 .. depth : AllResults(nest, code[n])
  /\ \A n \in 0 .. depth : n < depth => \A x \in nest :
       /\ code[n + 1][x] = EncodeUPER(types, x, PartsOf(types, x, code[n]))
       /\ code[n + 1][x].ok <=> Fine(x) /\ AllOk(Inside(types, x), code[n])

LEMMA CodeFacts ==
  ASSUME NEW package, NEW types, NEW t, NEW v, NEW depth, Sending(package, types, t, v, depth),
         NEW code, AreCoded(code, types, <<t, v>>, depth)
  PROVE  AreEncoded(types, Nest(types, <<t, v>>, depth), code, depth)
<1> DEFINE nest == Nest(types, <<t, v>>, depth)
<1>0. /\ code[0] = [x \in nest |-> Refused]
      /\ \A k \in 1 .. depth : code[k] = [x \in nest |-> EncodeUPER(types, x, PartsOf(types, x, code[k - 1]))]
  BY Zenon DEF AreCoded, PartsOf
<1>1. /\ depth \in Nat
      /\ \A x \in nest : /\ x = <<x[1], x[2]>> /\ IsShape(package, x[1]) /\ IsTyped(x[1], x[2])
                         /\ Inside(types, x) \subseteq nest
  BY SendingFacts
<1> HIDE DEF nest
<1>2. ASSUME NEW n \in Nat, n < depth
      PROVE  \A x \in nest : code[n + 1][x] = EncodeUPER(types, x, PartsOf(types, x, code[n]))
  <2>1. n + 1 \in 1 .. depth /\ (n + 1) - 1 = n
    BY <1>1, <1>2
  <2>2. code[n + 1] = [x \in nest |-> EncodeUPER(types, x, PartsOf(types, x, code[n]))]
    BY <1>0, <2>1
  <2> QED BY <2>2
<1>3. ASSUME NEW n \in Nat, n < depth, AllResults(nest, code[n])
      PROVE  \A x \in nest : /\ IsResult(code[n + 1][x])
                             /\ code[n + 1][x].ok <=> Fine(x) /\ AllOk(Inside(types, x), code[n])
  <2> SUFFICES ASSUME NEW x \in nest
               PROVE  /\ IsResult(code[n + 1][x])
                      /\ code[n + 1][x].ok <=> Fine(x) /\ AllOk(Inside(types, x), code[n])
    OBVIOUS
  <2> DEFINE table == code[n]
  <2>1. code[n + 1][x] = EncodeUPER(types, x, PartsOf(types, x, table))
    BY <1>2, <1>3
  <2>2. AllResults(Inside(types, x), table)
    BY <1>1, <1>3 DEF AllResults
  <2>3. x = <<x[1], x[2]>> /\ IsShape(package, x[1]) /\ IsTyped(x[1], x[2])
    BY <1>1
  <2> HIDE DEF table
  <2>4. /\ IsResult(EncodeUPER(types, x, PartsOf(types, x, table)))
        /\ EncodeUPER(types, x, PartsOf(types, x, table)).ok <=> Fine(x) /\ AllOk(Inside(types, x), table)
    BY <2>2, <2>3, CodeStep
  <2> QED BY <2>1, <2>4 DEF table
<1> DEFINE S == {n \in Nat : AllResults(nest, code[n])}
<1>4. 0 \in S
  BY <1>0, RefusedResult DEF AllResults
<1>5. \A n \in Nat : n < depth /\ n \in S => n + 1 \in S
  BY <1>3 DEF AllResults
<1> HIDE DEF S
<1>6. \A n \in 0 .. depth : n \in S
  BY <1>1, <1>4, <1>5, InductionTo
<1>7. \A n \in 0 .. depth : AllResults(nest, code[n])
  BY <1>6 DEF S
<1>8. \A n \in 0 .. depth : n < depth => \A x \in nest :
       /\ code[n + 1][x] = EncodeUPER(types, x, PartsOf(types, x, code[n]))
       /\ code[n + 1][x].ok <=> Fine(x) /\ AllOk(Inside(types, x), code[n])
  BY <1>2, <1>3, <1>7
<1> QED BY <1>7, <1>8 DEF AreEncoded, nest

(* What takes n calls more is at the level that leaves n.                  *)
AreLevels(types, level, nest, depth) ==
  /\ depth \in Nat /\ level[depth].last = {} /\ \A k \in 0 .. depth : level[k].last \subseteq nest
  /\ \A k \in 0 .. depth : k < depth => level[k + 1].last = UNION {Inside(types, x) : x \in level[k].last}
  /\ \A x \in nest : \E k \in 0 .. depth : x \in level[k].last

LEMMA CodeOk ==
  ASSUME NEW types, NEW level, NEW nest, NEW depth, AreLevels(types, level, nest, depth),
         NEW code, AreEncoded(types, nest, code, depth), NEW typed, level[0].last = {typed}
  PROVE  /\ code[depth][typed].ok <=> \A x \in nest : Fine(x)
         /\ code[depth][typed].ok => \A k \in 0 .. depth : \A x \in level[k].last : code[depth - k][x].ok
<1>1. /\ depth \in Nat /\ level[depth].last = {} /\ \A k \in 0 .. depth : level[k].last \subseteq nest
      /\ \A k \in 0 .. depth : k < depth => level[k + 1].last = UNION {Inside(types, x) : x \in level[k].last}
      /\ \A x \in nest : \E k \in 0 .. depth : x \in level[k].last
  BY DEF AreLevels
<1>2. \A n \in 0 .. depth : n < depth => \A x \in nest :
        code[n + 1][x].ok <=> Fine(x) /\ AllOk(Inside(types, x), code[n])
  BY DEF AreEncoded
<1>3. ASSUME \A x \in nest : Fine(x)
      PROVE  code[depth][typed].ok
  <2> DEFINE S == {n \in Nat : \A x \in level[depth - n].last : code[n][x].ok}
  <2>1. 0 \in S
    <3>1. depth - 0 = depth
      BY <1>1
    <3> QED BY <1>1, <3>1
  <2>2. ASSUME NEW n \in Nat, n < depth, n \in S
        PROVE  n + 1 \in S
    <3> DEFINE k == depth - (n + 1)
    <3>1. k \in 0 .. depth /\ k < depth /\ k + 1 = depth - n /\ n \in 0 .. depth
      BY <1>1, <2>2
    <3> HIDE DEF k
    <3>2. ASSUME NEW x \in level[k].last
          PROVE  code[n + 1][x].ok
      <4>1. Inside(types, x) \subseteq level[depth - n].last /\ x \in nest
        BY <1>1, <3>1, <3>2
      <4>2. AllOk(Inside(types, x), code[n])
        BY <2>2, <4>1 DEF AllOk
      <4> QED BY <1>2, <1>3, <2>2, <3>1, <4>1, <4>2
    <3> QED BY <3>2 DEF k
  <2> HIDE DEF S
  <2>3. depth \in S
    BY <1>1, <2>1, <2>2, InductionTo
  <2>4. depth - depth = 0
    BY <1>1
  <2> QED BY <2>3, <2>4 DEF S
<1>4. ASSUME code[depth][typed].ok
      PROVE  /\ \A x \in nest : Fine(x)
             /\ \A k \in 0 .. depth : \A x \in level[k].last : code[depth - k][x].ok
  <2> DEFINE S == {k \in Nat : \A x \in level[k].last : code[depth - k][x].ok}
  <2>1. 0 \in S
    <3>1. depth - 0 = depth
      BY <1>1
    <3> QED BY <1>4, <3>1
  <2>2. ASSUME NEW k \in Nat, k < depth, k \in S, NEW x \in level[k].last
        PROVE  Fine(x) /\ AllOk(Inside(types, x), code[depth - (k + 1)])
    <3> DEFINE n == depth - (k + 1)
    <3>1. n \in 0 .. depth /\ n < depth /\ n + 1 = depth - k /\ k \in 0 .. depth
      BY <1>1, <2>2
    <3>2. x \in nest /\ code[n + 1][x].ok
      BY <1>1, <2>2, <3>1
    <3> QED BY <1>2, <3>1, <3>2
  <2>3. ASSUME NEW k \in Nat, k < depth, k \in S
        PROVE  k + 1 \in S
    <3>1. k \in 0 .. depth
      BY <1>1, <2>3
    <3>2. k + 1 \in 0 .. depth
      BY <1>1, <2>3
    <3>3. level[k + 1].last = UNION {Inside(types, x) : x \in level[k].last}
      BY <1>1, <2>3, <3>1
    <3> DEFINE n == depth - (k + 1)
    <3>4. ASSUME NEW y \in level[k + 1].last
          PROVE  code[n][y].ok
      <4>1. PICK x \in level[k].last : y \in Inside(types, x)
        BY <3>3, <3>4
      <4>2. AllOk(Inside(types, x), code[n])
        BY <2>2, <2>3, <4>1
      <4> HIDE DEF n
      <4> QED BY <4>1, <4>2 DEF AllOk
    <3> QED BY <3>4
  <2> HIDE DEF S
  <2>4. \A k \in 0 .. depth : k \in S
    BY <1>1, <2>1, <2>3, InductionTo
  <2>5. ASSUME NEW x \in nest
        PROVE  Fine(x)
    <3>1. PICK k \in 0 .. depth : x \in level[k].last
      BY <1>1, <2>5
    <3>2. k # depth
      BY <1>1, <3>1
    <3>3. k \in Nat /\ k < depth /\ k \in S
      BY <1>1, <2>4, <3>2
    <3> QED BY <2>2, <3>1, <3>3
  <2> QED BY <2>4, <2>5 DEF S
<1> QED BY <1>3, <1>4

-----------------------------------------------------------------------------
(* What a sender and a receiver make of the types of a package: one of     *)
(* them may have a later version of some.                                  *)
Versions(package, there, here) ==
  /\ InPackage(package, there) /\ InPackage(package, here)
  /\ \A name \in DOMAIN Packages[package] : Related(there[name], here[name])

PairsCarried(there, here, s, r, v, code, known, read, tokens) ==
  \A a \in Inside(there, <<s, v>>), b \in Inside(here, <<r, v>>) :
    Related(a[1], b[1]) /\ a[2] = b[2] => ReadsPart(read, b[1], tokens, code[a].bits, known[b])

PairCarried(package, there, here, s, r, v, code, known, read, tokens) ==
  /\ Versions(package, there, here) /\ s \in Shapes[package] /\ r \in Shapes[package] /\ Related(s, r)
  /\ IsTyped(s, v) /\ IsLegible(r, v)
  /\ AllResults(Inside(there, <<s, v>>), code) /\ EncodeUPER(there, <<s, v>>, PartsOf(there, <<s, v>>, code)).ok
  /\ PairsCarried(there, here, s, r, v, code, known, read, tokens)

LEMMA KidsCarry ==
  ASSUME NEW package, NEW there, NEW here, NEW s, NEW r, NEW v, NEW code, NEW known, NEW read, NEW tokens,
         PairCarried(package, there, here, s, r, v, code, known, read, tokens)
  PROVE  KidsCarried(s, r, v, there, here, PartsOf(there, <<s, v>>, code), PartsOf(here, <<r, v>>, known), read, tokens)
<1>0. /\ IsShape(package, s) /\ IsShape(package, r) /\ Related(s, r)
      /\ \A name \in DOMAIN Packages[package] : Related(there[name], here[name])
      /\ PairsCarried(there, here, s, r, v, code, known, read, tokens)
  BY PduAssumption DEF PairCarried, Versions, InPackage
<1>1. r.kind = s.kind /\ (~(s.kind \in {"Sequence", "Choice", "Enumerated"}) => r = s)
  BY <1>0, VersionFacts
<1> DEFINE x == <<s, v>>
           y == <<r, v>>
           sent == PartsOf(there, x, code)
           seen == PartsOf(here, y, known)
<1>2. \A a \in Inside(there, x), b \in Inside(here, y) :
        Related(a[1], b[1]) /\ a[2] = b[2] => ReadsPart(read, b[1], tokens, code[a].bits, known[b])
  BY <1>0 DEF PairsCarried
<1>3. (\A a \in Inside(there, x) : sent[a] = code[a]) /\ (\A b \in Inside(here, y) : seen[b] = known[b])
  BY DEF PartsOf
<1>4. ASSUME s.kind = "Ref"
      PROVE  ReadsPart(read, here[s.name], tokens, sent[<<there[s.name], v>>].bits, seen[<<here[s.name], v>>])
  <2> DEFINE a == <<there[s.name], v>>
             b == <<here[s.name], v>>
  <2>1. a \in Inside(there, x) /\ b \in Inside(here, y)
    BY <1>1, <1>4, InsideCases
  <2>2. s.name \in DOMAIN Packages[package]
    BY <1>0, <1>4 DEF IsShape
  <2>3. Related(a[1], b[1]) /\ a[2] = b[2]
    BY <1>0, <2>2
  <2>4. b[1] = here[s.name]
    OBVIOUS
  <2> HIDE DEF x, y, sent, seen
  <2>5. ReadsPart(read, b[1], tokens, code[a].bits, known[b]) /\ sent[a] = code[a] /\ seen[b] = known[b]
    BY <1>2, <1>3, <2>1, <2>3
  <2> QED BY <2>4, <2>5
<1>5. ASSUME NEW a \in Inside(there, x) \intersect Inside(here, y)
      PROVE  ReadsPart(read, a[1], tokens, sent[a].bits, seen[a])
  <2> HIDE DEF x, y, sent, seen
  <2>1. Related(a[1], a[1])
    BY DEF Related
  <2> QED BY <1>2, <1>3, <2>1
<1> QED BY <1>4, <1>5 DEF KidsCarried

LEMMA PairCarries ==
  ASSUME NEW package, NEW there, NEW here, NEW s, NEW r, NEW v, NEW code, NEW known, NEW read, NEW tokens,
         PairCarried(package, there, here, s, r, v, code, known, read, tokens), NEW end \in Nat, NEW p \in Nat, p <= end,
         Along(tokens, end, p, EncodeUPER(there, <<s, v>>, PartsOf(there, <<s, v>>, code)).bits)
  PROVE  DecodeUPER(here, r, Input(tokens, end), p, read) =
           Outcome(Project(here, <<r, v>>, PartsOf(here, <<r, v>>, known)), p,
                   Len(EncodeUPER(there, <<s, v>>, PartsOf(there, <<s, v>>, code)).bits), end)
<1>0. /\ IsShape(package, s) /\ IsShape(package, r) /\ Related(s, r) /\ IsTyped(s, v) /\ IsLegible(r, v)
      /\ AllResults(Inside(there, <<s, v>>), code) /\ EncodeUPER(there, <<s, v>>, PartsOf(there, <<s, v>>, code)).ok
  BY PduAssumption DEF PairCarried, Versions, InPackage
<1> DEFINE sent == PartsOf(there, <<s, v>>, code)
           seen == PartsOf(here, <<r, v>>, known)
<1>1. AllResults(Inside(there, <<s, v>>), sent)
  BY <1>0 DEF AllResults, PartsOf
<1>2. KidsCarried(s, r, v, there, here, sent, seen, read, tokens)
  BY KidsCarry
<1>3. Along(tokens, end, p, EncodeUPER(there, <<s, v>>, sent).bits) /\ EncodeUPER(there, <<s, v>>, sent).ok
  BY <1>0
<1> HIDE DEF sent, seen
<1>4. UPERCarried(package, s, r, v, there, here, sent, seen, read, tokens, end, p)
  BY <1>0, <1>1, <1>2, <1>3 DEF UPERCarried
<1>5. DecodeUPER(here, r, Input(tokens, end), p, read) =
           Outcome(Project(here, <<r, v>>, seen), p, Len(EncodeUPER(there, <<s, v>>, sent).bits), end)
  BY <1>4, UPERCarries
<1> QED BY <1>5 DEF sent, seen

LEMMA LevelsFacts ==
  ASSUME NEW g, NEW types, NEW typed, NEW depth \in Nat, AreReached(g, types, typed, depth),
         Level(types, typed, depth) = {}
  PROVE  AreLevels(types, g, Nest(types, typed, depth), depth) /\ g[0].last = {typed}
<1>1. g[0] = [last |-> {typed}, all |-> {typed}]
  BY DEF AreReached
<1>2. g[0].last = {typed}
  BY <1>1
<1> QED BY <1>2, NestFacts DEF AreLevels

(* The tables of both sides. *)
ReadStep(shapes, types, tokens, inner, outer) ==
  \A t \in shapes : \A end, p \in Nat :
    outer[<<t, end, p>>] = DecodeUPER(types, t, Input(tokens, end), p, inner)

LEMMA ReadFacts ==
  ASSUME NEW read, NEW shapes, NEW types, NEW t, NEW tokens, NEW depth \in Nat,
         AreRead(read, shapes, types, t, tokens, depth), NEW n \in Nat, n < depth
  PROVE  ReadStep(shapes, types, tokens, read[n], read[n + 1])
<1>1. \A k \in 1 .. depth : read[k] = [x \in shapes \X Nat \X Nat |-> DecodeUPER(types, x[1], Input(tokens, x[2]), x[3], read[k - 1])]
  BY Zenon DEF AreRead
<1>2. n + 1 \in 1 .. depth /\ (n + 1) - 1 = n
  OBVIOUS
<1>3. read[n + 1] = [x \in shapes \X Nat \X Nat |-> DecodeUPER(types, x[1], Input(tokens, x[2]), x[3], read[n])]
  BY <1>1, <1>2
<1> QED BY <1>3 DEF ReadStep

LEMMA KnownFacts ==
  ASSUME NEW known, NEW types, NEW typed, NEW depth \in Nat, AreKnown(known, types, typed, depth),
         NEW n \in Nat, n < depth, NEW x \in Nest(types, typed, depth)
  PROVE  known[n + 1][x] = Project(types, x, PartsOf(types, x, known[n]))
<1> DEFINE nest == Nest(types, typed, depth)
<1>1. \A k \in 1 .. depth : known[k] = [y \in nest |-> Project(types, y, PartsOf(types, y, known[k - 1]))]
  BY Zenon DEF AreKnown, PartsOf
<1>2. n + 1 \in 1 .. depth /\ (n + 1) - 1 = n
  OBVIOUS
<1>4. x \in nest
  OBVIOUS
<1> HIDE DEF nest
<1>3. known[n + 1] = [y \in nest |-> Project(types, y, PartsOf(types, y, known[n]))]
  BY <1>1, <1>2
<1> QED BY <1>3, <1>4

(* One call more carries what takes one call more. *)
StepCarried(package, there, here, a, b, code, known, read, codes, knowns, reads, tokens) ==
  /\ a = <<a[1], a[2]>> /\ b = <<b[1], b[2]>> /\ a[2] = b[2]
  /\ PairCarried(package, there, here, a[1], b[1], a[2], code, known, read, tokens)
  /\ codes[a] = EncodeUPER(there, a, PartsOf(there, a, code))
  /\ knowns[b] = Project(here, b, PartsOf(here, b, known))
  /\ ReadStep(Shapes[package], here, tokens, read, reads)

LEMMA StepCarries ==
  ASSUME NEW package, NEW there, NEW here, NEW a, NEW b, NEW code, NEW known, NEW read,
         NEW codes, NEW knowns, NEW reads, NEW tokens,
         StepCarried(package, there, here, a, b, code, known, read, codes, knowns, reads, tokens)
  PROVE  ReadsPart(reads, b[1], tokens, codes[a].bits, knowns[b])
<1> DEFINE s == a[1]
           r == b[1]
           v == a[2]
<1>0. /\ a = <<s, v>> /\ b = <<r, v>>
      /\ PairCarried(package, there, here, s, r, v, code, known, read, tokens)
      /\ codes[a] = EncodeUPER(there, a, PartsOf(there, a, code))
      /\ knowns[b] = Project(here, b, PartsOf(here, b, known))
      /\ ReadStep(Shapes[package], here, tokens, read, reads)
  BY DEF StepCarried
<1> HIDE DEF s, r, v
<1>1. /\ codes[a] = EncodeUPER(there, <<s, v>>, PartsOf(there, <<s, v>>, code))
      /\ knowns[b] = Project(here, <<r, v>>, PartsOf(here, <<r, v>>, known))
  BY <1>0
<1>2. r \in Shapes[package]
  BY <1>0 DEF PairCarried
<1> SUFFICES ASSUME NEW end \in Nat, NEW q \in Nat, q <= end, Along(tokens, end, q, codes[a].bits)
             PROVE  reads[<<r, end, q>>] = Outcome(knowns[b], q, Len(codes[a].bits), end)
  BY DEF ReadsPart, r
<1>3. reads[<<r, end, q>>] = DecodeUPER(here, r, Input(tokens, end), q, read)
  BY <1>0, <1>2 DEF ReadStep
<1>4. Along(tokens, end, q, EncodeUPER(there, <<s, v>>, PartsOf(there, <<s, v>>, code)).bits)
  BY <1>1
<1>5. DecodeUPER(here, r, Input(tokens, end), q, read) =
           Outcome(Project(here, <<r, v>>, PartsOf(here, <<r, v>>, known)), q,
                   Len(EncodeUPER(there, <<s, v>>, PartsOf(there, <<s, v>>, code)).bits), end)
  BY <1>0, <1>4, PairCarries
<1> QED BY <1>1, <1>3, <1>5

Carrying(package, there, here, s, r, v, depth) ==
  /\ Sending(package, there, s, v, depth) /\ Versions(package, there, here)
  /\ r \in Shapes[package] /\ Related(s, r)
  /\ \A y \in Nest(here, <<r, v>>, depth) : IsLegible(y[1], y[2])
  /\ Encode(there, <<s, v>>, depth).ok

(* Whatever the encoder writes, the decoder reads, wherever it finds it,   *)
(* and makes of it what it knows of the value.                             *)
LEMMA Carried ==
  ASSUME NEW package, NEW there, NEW here, NEW s, NEW r, NEW v, NEW depth,
         Carrying(package, there, here, s, r, v, depth), NEW tokens, Len(tokens) \in Nat,
         Along(tokens, Len(tokens), 0, Encode(there, <<s, v>>, depth).bits)
  PROVE  Decode(Shapes[package], here, r, tokens, depth) =
           Outcome(Projection(here, <<r, v>>, depth), 0, Len(Encode(there, <<s, v>>, depth).bits), Len(tokens))
<1> DEFINE x == <<s, v>>
           y == <<r, v>>
           sent == Nest(there, x, depth)
           seen == Nest(here, y, depth)
<1>0. /\ Sending(package, there, s, v, depth) /\ Versions(package, there, here)
      /\ r \in Shapes[package] /\ Related(s, r) /\ depth \in Nat /\ Level(there, x, depth) = {}
      /\ \A b \in seen : IsLegible(b[1], b[2])
      /\ Encode(there, x, depth).ok /\ InPackage(package, here)
  BY DEF Carrying, Sending, Versions
<1>1. PICK levels : AreReached(levels, there, x, depth)
  BY <1>0, ReachedDefined
<1>2. PICK ours : AreReached(ours, here, y, depth)
  BY <1>0, ReachedDefined
<1>3. PICK code : AreCoded(code, there, x, depth)
  BY <1>0, EncodeDefined
<1>4. PICK known : AreKnown(known, here, y, depth)
  BY <1>0, ProjectionDefined
<1>5. PICK read : AreRead(read, Shapes[package], here, r, tokens, depth)
  BY <1>0, DecodeDefined
<1>6. AreEncoded(there, sent, code, depth)
  BY <1>0, <1>3, CodeFacts
<1>7. \A a \in sent : a = <<a[1], a[2]>> /\ a[1] \in Shapes[package] /\ IsTyped(a[1], a[2]) /\ Inside(there, a) \subseteq sent
  BY <1>0, SendingFacts
<1>8. \A b \in seen : b = <<b[1], b[2]>> /\ b[1] \in Shapes[package]
  <2>1. Pairs(package, seen)
    BY <1>0, NestShapes
  <2> QED BY <2>1 DEF Pairs
<1>9. Encode(there, x, depth) = code[depth][x]
  BY <1>3 DEF AreCoded
<1>10. Projection(here, y, depth) = known[depth][y]
  BY <1>4 DEF AreKnown
<1>11. Decode(Shapes[package], here, r, tokens, depth) = read[depth][<<r, Len(tokens), 0>>]
  BY <1>5 DEF AreRead
<1>12. x[1] = s /\ y[1] = r /\ x[2] = y[2]
  OBVIOUS
<1> HIDE DEF x, y
<1>13. AreLevels(there, levels, sent, depth) /\ levels[0].last = {x}
  BY <1>0, <1>1, LevelsFacts
<1>14. /\ ours[0].last = {y}
       /\ \A k \in 0 .. depth : k < depth => ours[k + 1].last = UNION {Inside(here, b) : b \in ours[k].last}
       /\ \A k \in 0 .. depth : ours[k].last \subseteq seen
  <2>1. ours[0] = [last |-> {y}, all |-> {y}]
    BY <1>2 DEF AreReached
  <2>2. ours[0].last = {y}
    BY <2>1
  <2> QED BY <1>0, <1>2, <2>2, NestFacts
<1>15. \A k \in 0 .. depth : \A a \in levels[k].last : code[depth - k][a].ok
  BY <1>0, <1>6, <1>9, <1>13, CodeOk
<1>16. /\ levels[depth].last = {} /\ \A k \in 0 .. depth : levels[k].last \subseteq sent
       /\ \A k \in 0 .. depth : k < depth => levels[k + 1].last = UNION {Inside(there, a) : a \in levels[k].last}
  BY <1>13 DEF AreLevels
<1>17. /\ \A n \in 0 .. depth : AllResults(sent, code[n])
       /\ \A n \in 0 .. depth : n < depth => \A a \in sent :
            code[n + 1][a] = EncodeUPER(there, a, PartsOf(there, a, code[n]))
  BY <1>6 DEF AreEncoded
<1>18. \A n \in Nat : n < depth => ReadStep(Shapes[package], here, tokens, read[n], read[n + 1])
  BY <1>0, <1>5, ReadFacts
<1>19. \A n \in Nat : n < depth => \A b \in seen : known[n + 1][b] = Project(here, b, PartsOf(here, b, known[n]))
  BY <1>0, <1>4, KnownFacts
<1> HIDE DEF sent, seen
<1> DEFINE Q(n) == \A a \in levels[depth - n].last, b \in ours[depth - n].last :
                     Related(a[1], b[1]) /\ a[2] = b[2] =>
                       ReadsPart(read[n], b[1], tokens, code[n][a].bits, known[n][b])
           S == {n \in Nat : Q(n)}
<1>20. 0 \in S
  <2>1. depth - 0 = depth
    BY <1>0
  <2> QED BY <1>16, <2>1
<1>21. ASSUME NEW n \in Nat, n < depth, Q(n)
       PROVE  Q(n + 1)
  <2> DEFINE k == depth - (n + 1)
  <2>1. k \in 0 .. depth /\ k < depth /\ k + 1 = depth - n /\ depth - k = n + 1 /\ n \in 0 .. depth
    BY <1>0, <1>21
  <2> HIDE DEF k
  <2> SUFFICES ASSUME NEW a \in levels[k].last, NEW b \in ours[k].last, Related(a[1], b[1]), a[2] = b[2]
               PROVE  ReadsPart(read[n + 1], b[1], tokens, code[n + 1][a].bits, known[n + 1][b])
    BY DEF k
  <2>2. a \in sent /\ b \in seen
    BY <1>14, <1>16, <2>1
  <2>3. /\ a = <<a[1], a[2]>> /\ a[1] \in Shapes[package] /\ IsTyped(a[1], a[2]) /\ Inside(there, a) \subseteq sent
        /\ b = <<b[1], b[2]>> /\ b[1] \in Shapes[package] /\ IsLegible(b[1], a[2])
    BY <1>0, <1>7, <1>8, <2>2
  <2>4. /\ Inside(there, a) \subseteq levels[depth - n].last
        /\ Inside(here, b) \subseteq ours[depth - n].last
    BY <1>14, <1>16, <2>1
  <2> DEFINE inner == code[n]
             outer == code[n + 1]
             inside == read[n]
             outside == read[n + 1]
             less == known[n]
             more == known[n + 1]
  <2>5. /\ outer[a] = EncodeUPER(there, a, PartsOf(there, a, inner)) /\ outer[a].ok
        /\ more[b] = Project(here, b, PartsOf(here, b, less))
        /\ ReadStep(Shapes[package], here, tokens, inside, outside)
        /\ AllResults(Inside(there, a), inner)
    <3>1. outer[a].ok
      BY <1>15, <2>1
    <3>2. AllResults(Inside(there, a), inner)
      BY <1>17, <2>1, <2>3 DEF AllResults
    <3> QED BY <1>17, <1>18, <1>19, <1>21, <2>1, <2>2, <3>1, <3>2
  <2>6. ASSUME NEW c \in Inside(there, a), NEW d \in Inside(here, b), Related(c[1], d[1]), c[2] = d[2]
        PROVE  ReadsPart(inside, d[1], tokens, inner[c].bits, less[d])
    BY <1>21, <2>4, <2>6
  <2> HIDE DEF inner, outer, inside, outside, less, more, Q
  <2>7. PairsCarried(there, here, a[1], b[1], a[2], inner, less, inside, tokens)
    BY <2>3, <2>6 DEF PairsCarried
  <2>8. PairCarried(package, there, here, a[1], b[1], a[2], inner, less, inside, tokens)
    <3>1. AllResults(Inside(there, <<a[1], a[2]>>), inner)
      BY <2>3, <2>5
    <3>2. EncodeUPER(there, <<a[1], a[2]>>, PartsOf(there, <<a[1], a[2]>>, inner)).ok
      BY <2>3, <2>5
    <3> QED BY <1>0, <2>3, <2>7, <3>1, <3>2 DEF PairCarried
  <2>9. StepCarried(package, there, here, a, b, inner, less, inside, outer, more, outside, tokens)
    BY <2>3, <2>5, <2>8 DEF StepCarried
  <2>10. ReadsPart(outside, b[1], tokens, outer[a].bits, more[b])
    BY <2>9, StepCarries
  <2> QED BY <2>10 DEF inner, outer, inside, outside, less, more
<1>22. Q(depth)
  <2>1. \A n \in Nat : n < depth /\ n \in S => n + 1 \in S
    <3> HIDE DEF Q
    <3> QED BY <1>21
  <2> HIDE DEF S
  <2>2. depth \in S
    <3>1. depth \in Nat
      BY <1>0
    <3>2. \A n \in 0 .. depth : n \in S
      BY <1>20, <2>1, <3>1, InductionTo
    <3> QED BY <3>1, <3>2
  <2> QED BY <2>2 DEF S
<1>23. ReadsPart(read[depth], r, tokens, code[depth][x].bits, known[depth][y])
  <2>1. depth - depth = 0
    BY <1>0
  <2>2. x \in levels[depth - depth].last /\ y \in ours[depth - depth].last
    BY <1>13, <1>14, <2>1
  <2>3. Related(x[1], y[1]) /\ x[2] = y[2]
    BY <1>0, <1>12
  <2> QED BY <1>12, <1>22, <2>2, <2>3
<1>24. Along(tokens, Len(tokens), 0, code[depth][x].bits)
  BY <1>9 DEF x
<1>25. read[depth][<<r, Len(tokens), 0>>] = Outcome(known[depth][y], 0, Len(code[depth][x].bits), Len(tokens))
  <2> DEFINE end == Len(tokens)
  <2>1. end \in Nat /\ 0 <= end
    OBVIOUS
  <2>2. Along(tokens, end, 0, code[depth][x].bits)
    BY <1>24
  <2> HIDE DEF end
  <2>3. read[depth][<<r, end, 0>>] = Outcome(known[depth][y], 0, Len(code[depth][x].bits), end)
    BY <1>23, <2>1, <2>2 DEF ReadsPart
  <2> QED BY <2>3 DEF end
<1>26. /\ Decode(Shapes[package], here, r, tokens, depth) = read[depth][<<r, Len(tokens), 0>>]
       /\ Projection(here, <<r, v>>, depth) = known[depth][y]
       /\ Encode(there, <<s, v>>, depth) = code[depth][x]
  BY <1>9, <1>10, <1>11 DEF x, y
<1> QED BY <1>25, <1>26

-----------------------------------------------------------------------------
(* The calls.                                                               *)
SentIn(c) == EncodeIn(There(c), c, Value(c))
LegibleIn(c) == \A y \in Nest(Here(c), <<Here(c)[c[2]], Value(c)>>, MaxDepth) : IsLegible(y[1], y[2])

LEMMA EncodeFacts ==
  ASSUME NEW package, NEW types, NEW t, NEW v, NEW depth, Sending(package, types, t, v, depth)
  PROVE  /\ IsResult(Encode(types, <<t, v>>, depth))
         /\ Encode(types, <<t, v>>, depth).ok <=> \A x \in Nest(types, <<t, v>>, depth) : Fine(x)
<1> DEFINE typed == <<t, v>>
           nest == Nest(types, typed, depth)
<1>0. depth \in Nat /\ typed \in nest /\ Level(types, typed, depth) = {}
  BY SendingFacts DEF Sending
<1>1. PICK levels : AreReached(levels, types, typed, depth)
  BY <1>0, ReachedDefined
<1>2. PICK code : AreCoded(code, types, typed, depth)
  BY <1>0, EncodeDefined
<1>3. AreEncoded(types, nest, code, depth)
  BY <1>2, CodeFacts
<1>4. Encode(types, typed, depth) = code[depth][typed]
  BY <1>2 DEF AreCoded
<1> HIDE DEF typed
<1>5. AreLevels(types, levels, nest, depth) /\ levels[0].last = {typed}
  BY <1>0, <1>1, LevelsFacts
<1> HIDE DEF nest
<1>6. code[depth][typed].ok <=> \A x \in nest : Fine(x)
  BY <1>3, <1>5, CodeOk
<1>7. IsResult(code[depth][typed])
  BY <1>0, <1>3 DEF AreEncoded, AllResults
<1> QED BY <1>4, <1>6, <1>7 DEF typed, nest

LEMMA CallFacts ==
  ASSUME NEW c \in Calls
  PROVE  /\ Sending(c[1], There(c), There(c)[c[2]], Value(c), MaxDepth)
         /\ Versions(c[1], There(c), Here(c))
         /\ Here(c)[c[2]] \in Shapes[c[1]] /\ Related(There(c)[c[2]], Here(c)[c[2]])
<1>1. /\ c[1] \in DOMAIN Packages /\ c[2] \in DOMAIN Here(c)
      /\ c[3] # "" =>
           /\ c[3] \in DOMAIN Here(c) /\ There(c)[c[3]] \in Shapes[c[1]]
           /\ Here(c)[c[3]].kind \in {"Sequence", "Choice", "Enumerated"}
           /\ Here(c)[c[3]].extensible
      /\ Level(There(c), <<There(c)[c[2]], Value(c)>>, MaxDepth) = {}
      /\ \A x \in Nest(There(c), <<There(c)[c[2]], Value(c)>>, MaxDepth) : IsTyped(x[1], x[2])
  BY PduAssumption DEF IsCall
<1>2. /\ MaxDepth \in Nat /\ Here(c) = Packages[c[1]]
      /\ \A name \in DOMAIN Here(c) : Here(c)[name] \in Shapes[c[1]]
  BY <1>1, PduAssumption DEF Here
<1>3. \A name \in DOMAIN Here(c) : There(c)[name] \in Shapes[c[1]] /\ Related(There(c)[name], Here(c)[name])
  <2>1. CASE c[3] = ""
    <3>1. There(c) = Here(c)
      BY <2>1 DEF There, WithLater
    <3> QED BY <1>2, <3>1 DEF Related
  <2>2. CASE c[3] # ""
    <3>1. \A name \in DOMAIN Here(c) : There(c)[name] = IF name = c[3] THEN Later(Here(c)[name]) ELSE Here(c)[name]
      BY <2>2 DEF There, WithLater
    <3>2. Versioned(Here(c)[c[3]])
      BY <1>1, <2>2 DEF Versioned
    <3> SUFFICES ASSUME NEW name \in DOMAIN Here(c)
                 PROVE  There(c)[name] \in Shapes[c[1]] /\ Related(There(c)[name], Here(c)[name])
      OBVIOUS
    <3>3. CASE name = c[3]
      BY <1>1, <2>2, <3>1, <3>2, <3>3 DEF Related
    <3>4. CASE name # c[3]
      BY <1>2, <3>1, <3>4 DEF Related
    <3> QED BY <3>3, <3>4
  <2> QED BY <2>1, <2>2
<1>4. InPackage(c[1], There(c)) /\ InPackage(c[1], Here(c))
  BY <1>1, <1>2, <1>3 DEF InPackage
<1>5. Sending(c[1], There(c), There(c)[c[2]], Value(c), MaxDepth)
  BY <1>1, <1>2, <1>3, <1>4 DEF Sending
<1>6. Versions(c[1], There(c), Here(c))
  BY <1>2, <1>3, <1>4 DEF Versions
<1> QED BY <1>1, <1>2, <1>3, <1>5, <1>6

(* A value is refused if and only if something in it cannot be sent; what  *)
(* is written is a sequence of tokens.                                     *)
LEMMA SentFacts ==
  ASSUME NEW c \in Calls
  PROVE  /\ IsResult(SentIn(c))
         /\ SentIn(c).ok <=> \A x \in Nest(There(c), <<There(c)[c[2]], Value(c)>>, MaxDepth) : Fine(x)
<1> DEFINE types == There(c)
           t == There(c)[c[2]]
           v == Value(c)
<1>1. Sending(c[1], types, t, v, MaxDepth)
  BY CallFacts
<1>2. SentIn(c) = Encode(types, <<t, v>>, MaxDepth)
  BY DEF SentIn, EncodeIn
<1> HIDE DEF types, t, v
<1>3. /\ IsResult(Encode(types, <<t, v>>, MaxDepth))
      /\ Encode(types, <<t, v>>, MaxDepth).ok <=> \A x \in Nest(types, <<t, v>>, MaxDepth) : Fine(x)
  BY <1>1, EncodeFacts
<1> QED BY <1>2, <1>3 DEF types, t, v

(* Received is the value sent, if it is all there, and otherwise an error. *)
LEMMA ReceivedFacts ==
  ASSUME NEW c \in Calls, SentIn(c).ok, LegibleIn(c), NEW tokens, Len(tokens) \in Nat,
         Along(tokens, Len(tokens), 0, SentIn(c).bits)
  PROVE  DecodeIn(Here(c), c, tokens) =
           Outcome(ProjectionIn(Here(c), c, Value(c)), 0, Len(SentIn(c).bits), Len(tokens))
<1> DEFINE there == There(c)
           here == Here(c)
           s == There(c)[c[2]]
           r == Here(c)[c[2]]
           v == Value(c)
           package == c[1]
<1>1. /\ Sending(package, there, s, v, MaxDepth) /\ Versions(package, there, here)
      /\ r \in Shapes[package] /\ Related(s, r)
  BY CallFacts
<1>2. SentIn(c) = Encode(there, <<s, v>>, MaxDepth)
  BY DEF SentIn, EncodeIn
<1>3. \A y \in Nest(here, <<r, v>>, MaxDepth) : IsLegible(y[1], y[2])
  BY DEF LegibleIn
<1>4. /\ DecodeIn(Here(c), c, tokens) = Decode(Shapes[package], here, r, tokens, MaxDepth)
      /\ ProjectionIn(Here(c), c, Value(c)) = Projection(here, <<r, v>>, MaxDepth)
  BY DEF DecodeIn, ProjectionIn
<1> HIDE DEF there, here, s, r, v, package
<1>5. Carrying(package, there, here, s, r, v, MaxDepth)
  BY <1>1, <1>2, <1>3 DEF Carrying
<1>6. Along(tokens, Len(tokens), 0, Encode(there, <<s, v>>, MaxDepth).bits)
  BY <1>2
<1>7. Decode(Shapes[package], here, r, tokens, MaxDepth) =
           Outcome(Projection(here, <<r, v>>, MaxDepth), 0, Len(Encode(there, <<s, v>>, MaxDepth).bits), Len(tokens))
  BY <1>5, <1>6, Carried
<1> QED BY <1>2, <1>4, <1>7

LEMMA WholeReceived ==
  ASSUME NEW c \in Calls, SentIn(c).ok, NEW tail \in Tails, LegibleIn(c)
  PROVE  DecodeIn(Here(c), c, SentIn(c).bits \o tail) =
           Decoded(ProjectionIn(Here(c), c, Value(c)), Len(SentIn(c).bits))
<1> DEFINE bits == SentIn(c).bits
           tokens == bits \o tail
           n == Len(bits)
<1>1. IsSequence(bits) /\ IsSequence(tail)
  BY SentFacts, PduAssumption DEF IsResult, IsMessage
<1>0. tokens = bits \o tail
  OBVIOUS
<1> HIDE DEF tokens, bits
<1>2. /\ IsSequence(tokens) /\ Len(tokens) = Len(bits) + Len(tail)
      /\ \A k \in 1 .. Len(bits) : tokens[k] = bits[k]
  BY <1>1, <1>0, Joined
<1>3. n \in Nat /\ Len(tail) \in Nat
  BY <1>1, DomainOf
<1> DEFINE m == Len(tail)
<1>4. Len(tokens) = n + m /\ m \in Nat
  BY <1>2, <1>3
<1>5. \A k \in 1 .. n : tokens[k] = bits[k]
  BY <1>2
<1>6. n = Len(bits)
  OBVIOUS
<1> HIDE DEF m, n
<1>7. Len(tokens) \in Nat /\ n <= Len(tokens)
  BY <1>3, <1>4
<1>8. Along(tokens, Len(tokens), 0, bits)
  BY <1>3, <1>5, <1>6 DEF Along
<1>9. DecodeIn(Here(c), c, tokens) = Outcome(ProjectionIn(Here(c), c, Value(c)), 0, Len(SentIn(c).bits), Len(tokens))
  BY <1>7, <1>8, ReceivedFacts DEF bits
<1>10. Len(SentIn(c).bits) = n
  BY <1>6 DEF bits
<1>11. Outcome(ProjectionIn(Here(c), c, Value(c)), 0, n, Len(tokens)) = Decoded(ProjectionIn(Here(c), c, Value(c)), n)
  <2> DEFINE l == Len(tokens)
  <2>1. l \in Nat /\ n <= l
    BY <1>7
  <2> HIDE DEF l
  <2>2. 0 + n <= l /\ 0 + n = n
    BY <1>3, <2>1
  <2>3. Outcome(ProjectionIn(Here(c), c, Value(c)), 0, n, l) = Decoded(ProjectionIn(Here(c), c, Value(c)), n)
    BY <2>2 DEF Outcome
  <2> QED BY <2>3 DEF l
<1> QED BY <1>9, <1>10, <1>11 DEF tokens, bits

LEMMA CutReceived ==
  ASSUME NEW c \in Calls, SentIn(c).ok, NEW n \in 0 .. Len(SentIn(c).bits) - 1, LegibleIn(c)
  PROVE  DecodeIn(Here(c), c, SubSeq(SentIn(c).bits, 1, n)).status = "eof"
<1> DEFINE bits == SentIn(c).bits
           tokens == SubSeq(bits, 1, n)
           m == Len(bits)
<1>1. IsSequence(bits)
  BY SentFacts DEF IsResult
<1> HIDE DEF bits
<1>2. m \in Nat
  BY <1>1, DomainOf
<1>3. n \in 0 .. m - 1
  BY DEF bits
<1> HIDE DEF m
<1>4. n \in Nat /\ n < m
  BY <1>2, <1>3
<1>5. Len(tokens) = n /\ \A k \in 1 .. n : tokens[k] = bits[k]
  <2> DEFINE X == {bits[k] : k \in 1 .. Len(bits)}
  <2>1. bits \in Seq(X)
    BY <1>1, InSeq
  <2>2. n \in 0 .. Len(bits)
    BY <1>2, <1>4 DEF m
  <2> HIDE DEF X
  <2> QED BY <1>4, <2>1, <2>2
<1> HIDE DEF tokens
<1>6. Along(tokens, Len(tokens), 0, bits)
  BY <1>4, <1>5 DEF Along
<1>7. DecodeIn(Here(c), c, tokens) = Outcome(ProjectionIn(Here(c), c, Value(c)), 0, Len(SentIn(c).bits), Len(tokens))
  BY <1>4, <1>5, <1>6, ReceivedFacts DEF bits
<1>8. Outcome(ProjectionIn(Here(c), c, Value(c)), 0, m, n) = Failed("eof")
  BY <1>2, <1>4 DEF Outcome
<1>9. DecodeIn(Here(c), c, tokens) = Failed("eof")
  BY <1>5, <1>7, <1>8 DEF bits, m
<1> QED BY <1>9 DEF tokens, bits, Failed

-----------------------------------------------------------------------------
(* The inductive invariant: what the decoder is handed is made of what the *)
(* encoder wrote for this call, and its answer is that to what it was      *)
(* handed.                                                                 *)
NoAnswer == [status |-> "none", value |-> 0, used |-> 0]
Staged ==
  /\ call \in Calls /\ stage \in Stages
  /\ stage = "start" => sort = "none" /\ wire = <<>> /\ size = 0
  /\ stage \in {"refused", "whole", "cut", "noise"} => sort = stage
  /\ stage = "end" => sort \in {"whole", "cut", "noise"}
Handed ==
  /\ sort = "refused" => ~Sent.ok /\ wire = <<>> /\ size = 0
  /\ sort = "whole"   => Sent.ok /\ size = Len(Sent.bits) /\ \E tail \in Tails : wire = Sent.bits \o tail
  /\ sort = "cut"     => /\ Sent.ok /\ size = Len(Sent.bits)
                         /\ \E n \in 0 .. Len(Sent.bits) - 1 : wire = SubSeq(Sent.bits, 1, n)
  /\ sort = "noise"   => Sent.ok /\ wire \in Damage(Sent.bits) /\ size = Len(wire)
Answered == answer = IF stage = "end" THEN Received ELSE NoAnswer
Inv == Staged /\ Handed /\ Answered

LEMMA InitInv == Init => Inv
BY DEF Init, Inv, Staged, Handed, Answered, Stages, NoAnswer

LEMMA NextInv == Inv /\ [Next]_vars => Inv'
<1> SUFFICES ASSUME Inv, [Next]_vars
             PROVE  Inv'
  OBVIOUS
<1>0. Staged /\ Handed /\ Answered
  BY DEF Inv
<1>1. ASSUME call' = call
      PROVE  Sent' = Sent
  BY <1>1 DEF Sent, EncodeIn, There, Here, Value
<1>2. ASSUME call' = call, wire' = wire
      PROVE  Received' = Received
  BY <1>2 DEF Received, DecodeIn, Here
<1>3. CASE UNCHANGED vars
  <2>1. call' = call /\ stage' = stage /\ wire' = wire /\ size' = size /\ sort' = sort /\ answer' = answer
    BY <1>3 DEF vars
  <2>2. Sent' = Sent /\ Received' = Received
    BY <1>1, <1>2, <2>1
  <2>3. Staged'
    BY <1>0, <2>1 DEF Staged
  <2>4. Handed'
    BY <1>0, <2>1, <2>2 DEF Handed
  <2>5. Answered'
    BY <1>0, <2>1, <2>2 DEF Answered
  <2> QED BY <2>3, <2>4, <2>5 DEF Inv
<1>4. CASE Write(Sent)
  <2>1. /\ stage = "start" /\ Sent.ok /\ stage' = "whole" /\ sort' = "whole" /\ call' = call /\ answer' = answer
        /\ size' = Len(Sent.bits) /\ \E tail \in Tails : wire' = Sent.bits \o tail
    BY <1>4 DEF Write, Hand
  <2>2. Sent' = Sent
    BY <1>1, <2>1
  <2>3. Staged'
    BY <1>0, <2>1 DEF Staged, Stages
  <2>4. Handed'
    BY <2>1, <2>2 DEF Handed
  <2>5. Answered'
    BY <1>0, <2>1 DEF Answered
  <2> QED BY <2>3, <2>4, <2>5 DEF Inv
<1>5. CASE WriteCut(Sent)
  <2>1. /\ stage = "start" /\ Sent.ok /\ stage' = "cut" /\ sort' = "cut" /\ call' = call /\ answer' = answer
        /\ size' = Len(Sent.bits) /\ \E n \in 0 .. Len(Sent.bits) - 1 : wire' = SubSeq(Sent.bits, 1, n)
    BY <1>5 DEF WriteCut, Hand
  <2>2. Sent' = Sent
    BY <1>1, <2>1
  <2>3. Staged'
    BY <1>0, <2>1 DEF Staged, Stages
  <2>4. Handed'
    BY <2>1, <2>2 DEF Handed
  <2>5. Answered'
    BY <1>0, <2>1 DEF Answered
  <2> QED BY <2>3, <2>4, <2>5 DEF Inv
<1>6. CASE Refuse(Sent)
  <2>1. /\ stage = "start" /\ ~Sent.ok /\ stage' = "refused" /\ sort' = "refused" /\ call' = call /\ answer' = answer
        /\ size' = 0 /\ wire' = <<>>
    BY <1>6 DEF Refuse, Hand
  <2>2. Sent' = Sent
    BY <1>1, <2>1
  <2>3. Staged'
    BY <1>0, <2>1 DEF Staged, Stages
  <2>4. Handed'
    BY <2>1, <2>2 DEF Handed
  <2>5. Answered'
    BY <1>0, <2>1 DEF Answered
  <2> QED BY <2>3, <2>4, <2>5 DEF Inv
<1>7. CASE WriteDamaged
  <2>1. /\ stage = "start" /\ Sent.ok /\ stage' = "noise" /\ sort' = "noise" /\ call' = call /\ answer' = answer
        /\ wire' \in Damage(Sent.bits) /\ size' = Len(wire')
    BY <1>7 DEF WriteDamaged, Hand
  <2>2. Sent' = Sent
    BY <1>1, <2>1
  <2>3. Staged'
    BY <1>0, <2>1 DEF Staged, Stages
  <2>4. Handed'
    BY <2>1, <2>2 DEF Handed
  <2>5. Answered'
    BY <1>0, <2>1 DEF Answered
  <2> QED BY <2>3, <2>4, <2>5 DEF Inv
<1>8. CASE Read(Received)
  <2>1. /\ stage \in {"whole", "cut", "noise"} /\ stage' = "end" /\ answer' = Received
        /\ call' = call /\ wire' = wire /\ size' = size /\ sort' = sort
    BY <1>8 DEF Read
  <2>2. Sent' = Sent /\ Received' = Received
    BY <1>1, <1>2, <2>1
  <2>3. Staged'
    BY <1>0, <2>1 DEF Staged, Stages
  <2>4. Handed'
    BY <1>0, <2>1, <2>2 DEF Handed
  <2>5. Answered'
    BY <2>1, <2>2 DEF Answered
  <2> QED BY <2>3, <2>4, <2>5 DEF Inv
<1> QED BY <1>3, <1>4, <1>5, <1>6, <1>7, <1>8 DEF Next

(* Every message is in such a state. *)
THEOREM PduInvariant == Spec => []Inv
BY InitInv, NextInv, PTL DEF Spec

LEMMA SentOk == ASSUME Inv PROVE Sent.ok <=> Sendable
<1> SUFFICES ASSUME NEW c, c = call, NEW w, w = Sent
             PROVE  w.ok <=> Sendable
  OBVIOUS
<1>1. c \in Calls
  BY DEF Inv, Staged
<1>2. w = SentIn(c)
  BY DEF Sent, SentIn
<1>3. SentIn(c).ok <=> \A x \in Nest(There(c), <<There(c)[c[2]], Value(c)>>, MaxDepth) : Fine(x)
  BY <1>1, SentFacts
<1>4. Sendable <=> \A x \in Nest(There(c), <<There(c)[c[2]], Value(c)>>, MaxDepth) : IsKnown(x[1], x[2]) /\ IsSized(x[1], x[2])
  BY DEF Sendable, Everywhere
<1> QED BY <1>2, <1>3, <1>4 DEF Fine

LEMMA LegibleCall == ASSUME NEW c, c = call PROVE Legible <=> LegibleIn(c)
BY DEF Legible, LegibleIn, Everywhere

LEMMA InvDelivered == Inv => Delivered
<1> SUFFICES ASSUME Inv PROVE Delivered
  OBVIOUS
<1>1. sort = "refused" => ~Sendable
  BY SentOk DEF Inv, Handed
<1>2. sort = "whole" => Sendable
  BY SentOk DEF Inv, Handed
<1>3. ASSUME stage = "end", sort = "whole", Legible
      PROVE  answer = Decoded(ProjectionIn(Here(call), call, Value(call)), size)
  <2> SUFFICES ASSUME NEW c, c = call, NEW w, w = wire, NEW n, n = size, NEW a, a = answer
               PROVE  a = Decoded(ProjectionIn(Here(c), c, Value(c)), n)
    OBVIOUS
  <2>1. /\ c \in Calls /\ a = DecodeIn(Here(c), c, w)
        /\ SentIn(c).ok /\ n = Len(SentIn(c).bits) /\ \E tail \in Tails : w = SentIn(c).bits \o tail
    BY <1>3 DEF Inv, Staged, Handed, Answered, Sent, SentIn, Received
  <2>2. LegibleIn(c)
    BY <1>3, LegibleCall
  <2>3. PICK tail \in Tails : w = SentIn(c).bits \o tail
    BY <2>1
  <2> QED BY <2>1, <2>2, <2>3, WholeReceived
<1> QED BY <1>1, <1>2, <1>3 DEF Delivered

LEMMA InvCutIsNoticed == Inv => CutIsNoticed
<1> SUFFICES ASSUME Inv, stage = "end", sort = "cut", Legible
             PROVE  answer.status = "eof"
  BY DEF CutIsNoticed
<1> SUFFICES ASSUME NEW c, c = call, NEW w, w = wire, NEW a, a = answer
             PROVE  a.status = "eof"
  OBVIOUS
<1>1. /\ c \in Calls /\ a = DecodeIn(Here(c), c, w)
      /\ SentIn(c).ok /\ \E n \in 0 .. Len(SentIn(c).bits) - 1 : w = SubSeq(SentIn(c).bits, 1, n)
  BY DEF Inv, Staged, Handed, Answered, Sent, SentIn, Received
<1>2. LegibleIn(c)
  BY LegibleCall
<1>3. PICK n \in 0 .. Len(SentIn(c).bits) - 1 : w = SubSeq(SentIn(c).bits, 1, n)
  BY <1>1
<1> QED BY <1>1, <1>2, <1>3, CutReceived

(* The value of every type of every package is refused if and only if      *)
(* something in it is not set or has the wrong length; and if it is sent,  *)
(* the receiver has all of it that it knows, and stops where it ends.      *)
THEOREM PduDelivered == Spec => []Delivered
BY PduInvariant, InvDelivered, PTL

(* A message without its end is never accepted, however deep in the types  *)
(* of the package the end is missing.                                      *)
THEOREM PduCutIsNoticed == Spec => []CutIsNoticed
BY PduInvariant, InvCutIsNoticed, PTL

-----------------------------------------------------------------------------
(* What an encoder writes are tokens. *)
IsMade(r) == IsResult(r) /\ \A k \in 1 .. Len(r.bits) : IsToken(r.bits[k])
AllMade(inside, code) == \A y \in inside : IsMade(code[y])

LEMMA MadeBasics ==
  /\ IsMade(Nothing) /\ IsMade(Refused)
  /\ \A kind, x : IsToken(Token(kind, x)) => IsMade(One(kind, x))
<1>1. IsMade(Nothing) /\ IsMade(Refused)
  BY NothingResult, RefusedResult, EmptySequence DEF IsMade, Refused
<1>2. ASSUME NEW kind, NEW x, IsToken(Token(kind, x))
      PROVE  IsMade(One(kind, x))
  <2> DEFINE y == Token(kind, x)
             b == One(kind, x).bits
  <2>1. b = <<y>> /\ Len(b) = 1 /\ IsResult(One(kind, x))
    BY OneResult
  <2> HIDE DEF y, b
  <2>2. \A k \in 1 .. Len(b) : b[k] = y
    BY <2>1
  <2> QED BY <1>2, <2>1, <2>2 DEF IsMade, y, b
<1> QED BY <1>1, <1>2

LEMMA MadeTokens ==
  /\ \A x \in BOOLEAN : IsMade(One("bit", x))
  /\ \A kind \in {"small", "size", "length", "open"} : \A x \in Nat : IsMade(One(kind, x))
  /\ \A n \in Nat, k \in Nat : k \in 1 .. n => IsMade(Index(n, k))
  /\ \A x : IsMade(One("value", x))
<1>1. \A x \in BOOLEAN : IsToken(Token("bit", x))
  BY DEF IsToken, Token
<1>2. \A kind \in {"small", "size", "length", "open"} : \A x \in Nat : IsToken(Token(kind, x))
  BY DEF IsToken, Token
<1>3. ASSUME NEW n \in Nat, NEW k \in 1 .. n
      PROVE  IsToken(Token("index", [of |-> n, is |-> k - 1]))
  BY DEF IsToken, Token
<1>4. \A x : IsToken(Token("value", x))
  BY DEF IsToken, Token
<1>5. ASSUME NEW n \in Nat, NEW k \in 1 .. n
      PROVE  IsMade(Index(n, k))
  <2>1. IsMade(One("index", [of |-> n, is |-> k - 1]))
    BY <1>3, MadeBasics
  <2> QED BY <2>1, MadeBasics DEF Index
<1> QED BY <1>1, <1>2, <1>4, <1>5, MadeBasics

LEMMA BothMade ==
  ASSUME NEW r, NEW s, IsMade(r), IsMade(s)
  PROVE  IsMade(Both(r, s))
<1> DEFINE a == r.bits
           b == s.bits
           w == Both(r, s)
<1>1. /\ IsResult(r) /\ IsResult(s) /\ \A k \in 1 .. Len(a) : IsToken(a[k])
      /\ \A k \in 1 .. Len(b) : IsToken(b[k])
  BY DEF IsMade
<1>2. CASE ~(r.ok /\ s.ok)
  <2>1. w = Refused
    BY <1>2 DEF Both
  <2> QED BY <2>1, MadeBasics
<1>3. CASE r.ok /\ s.ok
  <2>1. w.bits = a \o b /\ IsResult(w)
    BY <1>1, <1>3, BothResult
  <2>2. IsSequence(a) /\ IsSequence(b)
    BY <1>1 DEF IsResult
  <2> HIDE DEF a, b, w
  <2>3. /\ Len(a \o b) = Len(a) + Len(b)
        /\ \A k \in 1 .. Len(a) : (a \o b)[k] = a[k]
        /\ \A k \in 1 .. Len(b) : (a \o b)[Len(a) + k] = b[k]
    BY <2>2, Joined
  <2>4. Len(a) \in Nat /\ Len(b) \in Nat
    BY <2>2, DomainOf
  <2> DEFINE m == Len(a)
             n == Len(b)
  <2>6. m \in Nat /\ n \in Nat /\ m = Len(a) /\ n = Len(b)
    BY <2>4
  <2> HIDE DEF m, n
  <2>5. ASSUME NEW k \in 1 .. m + n
        PROVE  IsToken((a \o b)[k])
    <3>1. CASE k \in 1 .. m
      BY <1>1, <2>3, <2>6, <3>1
    <3>2. CASE k \notin 1 .. m
      <4>1. k - m \in 1 .. n /\ m + (k - m) = k
        BY <2>6, <3>2
      <4>2. (a \o b)[m + (k - m)] = b[k - m]
        BY <2>3, <2>6, <4>1
      <4> QED BY <1>1, <2>6, <4>1, <4>2
    <3> QED BY <3>1, <3>2
  <2> QED BY <2>1, <2>3, <2>5, <2>6 DEF IsMade, w
<1> QED BY <1>2, <1>3

LEMMA EachMade ==
  ASSUME NEW n \in Nat, NEW results, IsRow(n, results), \A k \in 1 .. n : IsMade(results[k])
  PROVE  IsMade(Each(results))
<1>0. AreResults(n, results)
  BY DEF AreResults, IsMade
<1> DEFINE f == [k \in 1 .. n |-> results[k].bits]
<1>1. IsResult(Each(results)) /\ (Each(results).ok <=> \A k \in 1 .. n : results[k].ok)
      /\ ((\A k \in 1 .. n : results[k].ok) => Each(results).bits = FlattenSeq(f))
  BY <1>0, EachResult
<1>2. CASE ~ \A k \in 1 .. n : results[k].ok
  <2>1. DOMAIN results = 1 .. n
    BY DEF IsRow
  <2>2. Each(results) = Refused
    BY <1>2, <2>1 DEF Each
  <2> QED BY <2>2, MadeBasics
<1>3. CASE \A k \in 1 .. n : results[k].ok
  <2>1. IsRow(n, f) /\ \A k \in 1 .. n : f[k] = results[k].bits /\ IsSequence(f[k])
    BY <1>0 DEF AreResults, IsRow, IsResult
  <2> HIDE DEF f
  <2>2. PICK g : AreJoined(g, n, f)
    BY <2>1, Flattened
  <2>3. /\ g[0] = <<>> /\ g[n] = FlattenSeq(f)
        /\ \A k \in 0 .. n : IsSequence(g[k])
        /\ \A k \in 1 .. n : g[k] = g[k - 1] \o f[k]
    BY <2>2 DEF AreJoined
  <2> DEFINE S == {k \in Nat : IsMade(Encoded(g[k]))}
  <2>4. 0 \in S
    BY <2>3, MadeBasics DEF Nothing
  <2>5. ASSUME NEW k \in Nat, k < n, k \in S
        PROVE  k + 1 \in S
    <3>1. k + 1 \in 1 .. n /\ (k + 1) - 1 = k
      BY <2>5
    <3>2. g[k + 1] = g[k] \o f[k + 1]
      BY <2>3, <3>1
    <3>3. IsMade(Encoded(f[k + 1]))
      BY <2>1, <3>1 DEF IsMade, IsResult, Encoded
    <3>4. Both(Encoded(g[k]), Encoded(f[k + 1])) = Encoded(g[k + 1])
      BY <3>2 DEF Both, Encoded
    <3>5. IsMade(Both(Encoded(g[k]), Encoded(f[k + 1])))
      BY <2>5, <3>3, BothMade
    <3> QED BY <3>4, <3>5
  <2> HIDE DEF S
  <2>6. n \in S
    <3>1. \A k \in 0 .. n : k \in S
      BY <2>4, <2>5, InductionTo
    <3> QED BY <3>1
  <2>7. IsMade(Encoded(FlattenSeq(f)))
    BY <2>3, <2>6 DEF S
  <2> DEFINE h == FlattenSeq(f)
  <2>8. Each(results).bits = h /\ IsMade(Encoded(h))
    BY <1>1, <1>3, <2>7
  <2> HIDE DEF h
  <2> QED BY <1>1, <2>8 DEF IsMade, Encoded
<1> QED BY <1>2, <1>3

LEMMA OpenMade == ASSUME NEW r, IsMade(r) PROVE IsMade(Open(r))
<1>1. Len(r.bits) \in Nat
  BY DomainOf DEF IsMade, IsResult
<1>2. IsMade(One("open", Len(r.bits)))
  BY <1>1, MadeTokens
<1> QED BY <1>2, BothMade DEF Open

LEMMA ExtensionBitMade == ASSUME NEW t, NEW x \in BOOLEAN PROVE IsMade(ExtensionBit(t, x))
BY MadeTokens, MadeBasics DEF ExtensionBit

LEMMA SequenceMade ==
  ASSUME NEW t, NEW v, IsStruct(t, v), NEW code, NEW types, AllMade(Inside(types, <<t, v>>), code)
  PROVE  IsMade(EncodeSequence(t, v, code))
<1> DEFINE e == ExtensionBit(t, Present(t, v) # {})
           b == Preamble(t, v)
           f == Fields(t, v, code)
           a == Additions(t, v, code)
<1>0. AllResults(Inside(types, <<t, v>>), code)
  BY DEF AllMade, AllResults, IsMade
<1>1. IsMade(e)
  BY ExtensionBitMade
<1>2. IsMade(b)
  <2>1. IsRow(Len(t.root), PreambleParts(t, v)) /\ Len(t.root) \in Nat /\ b = Each(PreambleParts(t, v))
    BY PreambleResult DEF AreResults
  <2>2. \A k \in 1 .. Len(t.root) : IsMade(PreambleParts(t, v)[k])
    BY MadeTokens, MadeBasics DEF PreambleParts
  <2> QED BY <2>1, <2>2, EachMade
<1>3. IsMade(f)
  <2>1. IsRow(Len(t.root), FieldParts(t, v, code)) /\ Len(t.root) \in Nat /\ f = Each(FieldParts(t, v, code))
    BY <1>0, FieldsResult DEF AreResults
  <2>2. ASSUME NEW k \in 1 .. Len(t.root), v.root[k] # None
        PROVE  IsMade(code[<<t.root[k].type, v.root[k][1]>>])
    BY <2>2, SequenceInside DEF AllMade
  <2>3. \A k \in 1 .. Len(t.root) : IsMade(FieldParts(t, v, code)[k])
    BY <2>2, MadeBasics DEF FieldParts
  <2> QED BY <2>1, <2>3, EachMade
<1>4. IsMade(a)
  <2>1. CASE Present(t, v) = {}
    BY <2>1, MadeBasics DEF Additions
  <2>2. CASE Present(t, v) # {}
    <3> DEFINE l == LastPresent(t, v)
               c == One("small", l - 1)
               m == Bitmap(t, v)
               x == Added(t, v, code)
    <3>1. /\ l \in Nat /\ IsRow(l, BitmapParts(t, v)) /\ m = Each(BitmapParts(t, v))
          /\ IsRow(l, AddedParts(t, v, code)) /\ x = Each(AddedParts(t, v, code))
      BY <1>0, <2>2, AdditionsResult DEF AreResults
    <3>2. l \in 1 .. Len(t.more) /\ Len(t.more) \in Nat
      BY <2>2, LastPresentFacts
    <3>3. IsMade(c)
      <4>1. l - 1 \in Nat
        BY <3>2
      <4> QED BY <4>1, MadeTokens
    <3>4. \A k \in 1 .. l : IsMade(BitmapParts(t, v)[k])
      BY MadeTokens DEF BitmapParts
    <3>5. ASSUME NEW k \in 1 .. l
          PROVE  IsMade(AddedParts(t, v, code)[k])
      <4>1. CASE v.more[k] = None
        BY <4>1, MadeBasics DEF AddedParts
      <4>2. CASE v.more[k] # None
        <5>1. k \in 1 .. Len(t.more)
          BY <3>2
        <5>2. IsMade(code[<<t.more[k].type, v.more[k][1]>>])
          BY <4>2, <5>1, SequenceInside DEF AllMade
        <5>3. IsMade(Open(code[<<t.more[k].type, v.more[k][1]>>]))
          BY <5>2, OpenMade
        <5> QED BY <4>2, <5>3 DEF AddedParts
      <4> QED BY <4>1, <4>2
    <3>6. a = Both(c, Both(m, x))
      BY <2>2 DEF Additions
    <3> HIDE DEF c, m, x, a, l
    <3>7. IsMade(m) /\ IsMade(x)
      BY <3>1, <3>4, <3>5, EachMade
    <3> QED BY <3>3, <3>6, <3>7, BothMade
  <2> QED BY <2>1, <2>2
<1>5. EncodeSequence(t, v, code) = Both(e, Both(b, Both(f, a)))
  BY DEF EncodeSequence
<1> HIDE DEF e, b, f, a
<1> QED BY <1>1, <1>2, <1>3, <1>4, <1>5, BothMade

LEMMA ChoiceMade ==
  ASSUME NEW t, NEW v, IsUnion(t, v), NEW code, NEW types, AllMade(Inside(types, <<t, v>>), code)
  PROVE  IsMade(EncodeChoice(t, v, code))
<1> DEFINE n == Len(t.root)
           c == code[<<Parts(t)[v[1]].type, v[2]>>]
           e == ExtensionBit(t, FALSE)
           i == Index(n, v[1])
           b == One("bit", TRUE)
           s == One("small", v[1] - n - 1)
           w == EncodeChoice(t, v, code)
<1>1. CASE v[1] \notin DOMAIN Parts(t)
  <2>1. w = Refused
    BY <1>1, ChoiceCases
  <2> QED BY <2>1, MadeBasics
<1>2. CASE v[1] \in DOMAIN Parts(t)
  <2>1. IsMade(c)
    BY <1>2, ChoiceInside DEF AllMade
  <2>2. IsMade(e) /\ IsMade(b)
    BY ExtensionBitMade, MadeTokens
  <2>3. CASE v[1] \in 1 .. n
    <3>1. w = Both(e, Both(i, c))
      BY <2>3, ChoiceCases
    <3>2. n \in Nat /\ v[1] \in Nat
      BY ChoiceCases DEF IsUnion
    <3>3. IsMade(i)
      <4> HIDE DEF n
      <4> QED BY <2>3, <3>2, MadeTokens
    <3> HIDE DEF w, e, i, c, n
    <3>4. IsMade(w)
      BY <2>1, <2>2, <3>1, <3>3, BothMade
    <3> QED BY <3>4 DEF w
  <2>4. CASE v[1] \notin 1 .. n
    <3>1. w = Both(b, Both(s, Open(c)))
      BY <1>2, <2>4, ChoiceCases
    <3>2. v[1] - n - 1 \in Nat
      BY <1>2, <2>4, ChoiceCases
    <3>3. IsMade(s)
      BY <3>2, MadeTokens
    <3> HIDE DEF w, b, s, c, n
    <3>4. IsMade(w)
      BY <2>1, <2>2, <3>1, <3>3, OpenMade, BothMade
    <3> QED BY <3>4 DEF w
  <2> QED BY <2>3, <2>4
<1> QED BY <1>1, <1>2

LEMMA EnumMade ==
  ASSUME NEW t, IsEnum(t), NEW v
  PROVE  IsMade(EncodeEnumerated(t, v))
<1> DEFINE n == Len(t.root)
           k == PositionOf(t, v)
           e == ExtensionBit(t, FALSE)
           i == Index(n, k)
           b == One("bit", TRUE)
           s == One("small", k - n - 1)
           w == EncodeEnumerated(t, v)
<1>1. IsMade(e) /\ IsMade(b)
  BY ExtensionBitMade, MadeTokens
<1>2. /\ k \in 1 .. n => w = Both(e, i)
      /\ k # 0 /\ k \notin 1 .. n => w = Both(b, s) /\ k - n - 1 \in Nat
      /\ k = 0 => w = Refused
      /\ n \in Nat
  BY EnumCases
<1>3. k \in Nat
  BY PositionFacts
<1>4. k \in 1 .. n => IsMade(i)
  <2> HIDE DEF n, k
  <2> QED BY <1>2, <1>3, MadeTokens
<1>5. k # 0 /\ k \notin 1 .. n => IsMade(s)
  BY <1>2, MadeTokens
<1> HIDE DEF w, e, i, b, s, k, n
<1>6. IsMade(w)
  <2>1. CASE k \in 1 .. n
    BY <1>1, <1>2, <1>4, <2>1, BothMade
  <2>2. CASE k # 0 /\ k \notin 1 .. n
    BY <1>1, <1>2, <1>5, <2>2, BothMade
  <2>3. CASE k = 0
    BY <1>2, <2>3, MadeBasics
  <2> QED BY <2>1, <2>2, <2>3
<1> QED BY <1>6 DEF w

LEMMA ListMade ==
  ASSUME NEW t, NEW v, IsListOf(t, v), NEW code, NEW types, AllMade(Inside(types, <<t, v>>), code)
  PROVE  IsMade(EncodeList(t, v, code))
<1> DEFINE c == CountOf(t, v)
           parts == ItemParts(t, v, code)
           x == Each(parts)
           w == EncodeList(t, v, code)
<1>1. Inside(types, <<t, v>>) = {<<t.of, v[k]>> : k \in 1 .. Len(v)} /\ Len(v) \in Nat /\ DOMAIN v = 1 .. Len(v)
  BY ListInside
<1>2. IsRow(Len(v), parts) /\ \A k \in 1 .. Len(v) : IsMade(parts[k])
  BY <1>1 DEF IsRow, ItemParts, AllMade
<1>3. IsMade(x)
  <2> HIDE DEF parts
  <2> QED BY <1>1, <1>2, EachMade
<1>4. IsMade(c)
  <2>1. t.sized \in BOOLEAN
    BY DEF IsListOf
  <2>2. IsMade(One("length", Len(v))) /\ IsMade(One("size", Len(v))) /\ IsMade(Nothing)
    BY <1>1, MadeTokens, MadeBasics
  <2> QED BY <2>1, <2>2, CountFacts
<1>6. w = IF t.sized /\ Len(v) \notin Sizes(t) THEN Refused ELSE Both(c, x)
  BY <1>1 DEF EncodeList, CountOf, ItemParts
<1> HIDE DEF c, x, w
<1>7. IsMade(w)
  BY <1>3, <1>4, <1>6, BothMade, MadeBasics
<1> QED BY <1>7 DEF w

LEMMA EncodeMade ==
  ASSUME NEW package, NEW t, NEW v, IsShape(package, t), IsTyped(t, v),
         NEW types, NEW code, AllMade(Inside(types, <<t, v>>), code)
  PROVE  IsMade(EncodeUPER(types, <<t, v>>, code))
<1> DEFINE w == EncodeUPER(types, <<t, v>>, code)
<1>1. CASE t.kind = "Ref"
  <2>1. w = code[<<types[t.name], v>>]
    BY <1>1 DEF EncodeUPER
  <2> QED BY <1>1, <2>1, InsideCases DEF AllMade
<1>2. CASE t.kind = "Sequence"
  <2>1. w = EncodeSequence(t, v, code)
    BY <1>2 DEF EncodeUPER
  <2>2. IsStruct(t, v)
    BY <1>2, StructFacts
  <2> QED BY <2>1, <2>2, SequenceMade
<1>3. CASE t.kind = "Choice"
  <2>1. w = EncodeChoice(t, v, code)
    BY <1>3 DEF EncodeUPER
  <2>2. IsUnion(t, v)
    BY <1>3, UnionFacts
  <2> QED BY <2>1, <2>2, ChoiceMade
<1>4. CASE t.kind = "Enumerated"
  <2>1. w = EncodeEnumerated(t, v)
    BY <1>4 DEF EncodeUPER
  <2>2. IsEnum(t)
    BY <1>4, EnumFacts
  <2> QED BY <2>1, <2>2, EnumMade
<1>5. CASE t.kind = "ListOf"
  <2>1. w = EncodeList(t, v, code)
    BY <1>5 DEF EncodeUPER
  <2>2. IsListOf(t, v)
    BY <1>5, ListFacts
  <2> QED BY <2>1, <2>2, ListMade
<1>6. CASE t.kind = "Boolean"
  <2>1. w = One("bit", v)
    BY <1>6 DEF EncodeUPER
  <2>2. v \in BOOLEAN
    BY <1>6 DEF IsTyped
  <2> QED BY <2>1, <2>2, MadeTokens
<1>7. CASE t.kind \notin Compound
  <2>2. w = Nothing \/ w = One("value", [of |-> t, is |-> v])
    BY <1>7 DEF EncodeUPER, Compound
  <2> QED BY <2>2, MadeTokens, MadeBasics
<1> QED BY <1>1, <1>2, <1>3, <1>4, <1>5, <1>6, <1>7 DEF Compound

LEMMA SentMade ==
  ASSUME NEW package, NEW types, NEW t, NEW v, NEW depth, Sending(package, types, t, v, depth)
  PROVE  IsMade(Encode(types, <<t, v>>, depth))
<1> DEFINE typed == <<t, v>>
           nest == Nest(types, typed, depth)
<1>1. /\ depth \in Nat /\ typed \in nest
      /\ \A x \in nest : /\ x = <<x[1], x[2]>> /\ IsShape(package, x[1]) /\ IsTyped(x[1], x[2])
                         /\ Inside(types, x) \subseteq nest
  BY SendingFacts
<1>2. PICK code : AreCoded(code, types, typed, depth)
  BY <1>1, EncodeDefined
<1>3. /\ code[0] = [x \in nest |-> Refused] /\ Encode(types, typed, depth) = code[depth][typed]
      /\ \A k \in 1 .. depth : code[k] = [x \in nest |-> EncodeUPER(types, x, PartsOf(types, x, code[k - 1]))]
  BY <1>2, Zenon DEF AreCoded, PartsOf
<1> HIDE DEF nest, typed
<1> DEFINE S == {n \in Nat : AllMade(nest, code[n])}
<1>4. 0 \in S
  BY <1>3, MadeBasics DEF AllMade
<1>5. ASSUME NEW n \in Nat, n < depth, n \in S
      PROVE  n + 1 \in S
  <2>1. n + 1 \in 1 .. depth /\ (n + 1) - 1 = n
    BY <1>1, <1>5
  <2>2. code[n + 1] = [x \in nest |-> EncodeUPER(types, x, PartsOf(types, x, code[n]))]
    BY <1>3, <2>1
  <2>3. ASSUME NEW x \in nest
        PROVE  IsMade(EncodeUPER(types, x, PartsOf(types, x, code[n])))
    <3> DEFINE s == x[1]
               w == x[2]
               table == PartsOf(types, x, code[n])
    <3>1. x = <<s, w>> /\ IsShape(package, s) /\ IsTyped(s, w)
      BY <1>1
    <3>2. AllMade(Inside(types, x), table)
      BY <1>1, <1>5 DEF AllMade, PartsOf
    <3> HIDE DEF s, w, table
    <3>3. AllMade(Inside(types, <<s, w>>), table)
      BY <3>1, <3>2
    <3>4. IsMade(EncodeUPER(types, <<s, w>>, table))
      BY <3>1, <3>3, EncodeMade
    <3> QED BY <3>1, <3>4 DEF table
  <2> QED BY <2>2, <2>3 DEF AllMade
<1> HIDE DEF S
<1>6. \A n \in 0 .. depth : n \in S
  BY <1>1, <1>4, <1>5, InductionTo
<1>7. AllMade(nest, code[depth])
  BY <1>1, <1>6 DEF S
<1> QED BY <1>1, <1>3, <1>7 DEF AllMade, typed

(* Damaged, cut or followed by others, they are tokens still. *)
LEMMA Exchanged ==
  ASSUME NEW tokens, IsMessage(tokens), NEW k \in 1 .. Len(tokens), NEW y, IsToken(y),
         NEW d, d = [tokens EXCEPT ![k] = y]
  PROVE  IsMessage(d) /\ Len(d) = Len(tokens)
<1> DEFINE n == Len(tokens)
<1>1. n \in Nat /\ DOMAIN tokens = 1 .. n /\ \A j \in 1 .. n : IsToken(tokens[j])
  BY DomainOf DEF IsMessage
<1>2. IsRow(n, d)
  BY <1>1 DEF IsRow
<1>3. \A j \in 1 .. n : IsToken(d[j])
  BY <1>1
<1> HIDE DEF n
<1>4. IsSequence(d) /\ Len(d) = n
  BY <1>1, <1>2, SequenceOf
<1> QED BY <1>3, <1>4 DEF IsMessage, n

LEMMA DamageMessage ==
  ASSUME NEW tokens, IsMessage(tokens), NEW d \in Damage(tokens)
  PROVE  IsMessage(d)
<1> DEFINE last(of) == {of - 1} \union IF IsPowerOf2(of) THEN {} ELSE {of}
<1>1. DOMAIN tokens = 1 .. Len(tokens) /\ \A k \in 1 .. Len(tokens) : IsToken(tokens[k])
  BY DomainOf DEF IsMessage
<1>2. \/ \E k \in DOMAIN tokens : tokens[k].kind = "bit" /\ d = [tokens EXCEPT ![k].x = ~@]
      \/ \E k \in DOMAIN tokens : tokens[k].kind = "index" /\ \E n \in last(tokens[k].x.of) : d = [tokens EXCEPT ![k].x.is = n]
  BY DEF Damage
<1>3. CASE \E k \in DOMAIN tokens : tokens[k].kind = "bit" /\ d = [tokens EXCEPT ![k].x = ~@]
  <2>1. PICK k \in DOMAIN tokens : tokens[k].kind = "bit" /\ d = [tokens EXCEPT ![k].x = ~@]
    BY <1>3
  <2> DEFINE y == tokens[k]
             z == Token("bit", ~y.x)
  <2>2. y = Token("bit", y.x) /\ y.x \in BOOLEAN
    BY <1>1, <2>1 DEF IsToken
  <2>3. [y EXCEPT !.x = ~@] = z
    BY <2>2 DEF Token
  <2>4. d = [tokens EXCEPT ![k] = z]
    BY <2>1, <2>3
  <2>5. IsToken(z)
    BY <2>2 DEF IsToken, Token
  <2> HIDE DEF z
  <2> QED BY <1>1, <2>4, <2>5, Exchanged
<1>4. CASE \E k \in DOMAIN tokens : tokens[k].kind = "index" /\ \E n \in last(tokens[k].x.of) : d = [tokens EXCEPT ![k].x.is = n]
  <2>1. PICK k \in DOMAIN tokens : tokens[k].kind = "index" /\ \E n \in last(tokens[k].x.of) : d = [tokens EXCEPT ![k].x.is = n]
    BY <1>4
  <2>2. PICK n \in last(tokens[k].x.of) : d = [tokens EXCEPT ![k].x.is = n]
    BY <2>1
  <2> DEFINE y == tokens[k]
             of == y.x.of
             z == Token("index", [of |-> of, is |-> n])
  <2>3. y = Token("index", y.x) /\ y.x = [of |-> of, is |-> y.x.is] /\ of \in Nat \ {0}
    BY <1>1, <2>1 DEF IsToken
  <2>4. n \in Nat
    <3>1. n = of - 1 \/ n = of
      BY <2>2
    <3> QED BY <2>3, <3>1
  <2>5. [y EXCEPT !.x.is = n] = z
    BY <2>3 DEF Token
  <2>6. d = [tokens EXCEPT ![k] = z]
    BY <2>2, <2>5
  <2>7. IsToken(z)
    BY <2>3, <2>4 DEF IsToken, Token
  <2> HIDE DEF z
  <2> QED BY <1>1, <2>6, <2>7, Exchanged
<1> QED BY <1>2, <1>3, <1>4

LEMMA JoinedMessage ==
  ASSUME NEW s, NEW t, IsMessage(s), IsMessage(t)
  PROVE  IsMessage(s \o t) /\ Len(s \o t) = Len(s) + Len(t)
<1>1. IsMade(Encoded(s)) /\ IsMade(Encoded(t))
  BY DEF IsMade, IsResult, IsMessage, Encoded
<1>2. IsMade(Both(Encoded(s), Encoded(t)))
  BY <1>1, BothMade
<1>3. Both(Encoded(s), Encoded(t)) = Encoded(s \o t)
  BY DEF Both, Encoded
<1>4. Len(s \o t) = Len(s) + Len(t)
  BY Joined DEF IsMessage
<1> DEFINE u == s \o t
<1>5. IsMade(Encoded(u))
  BY <1>2, <1>3
<1> HIDE DEF u
<1>6. IsMessage(u)
  BY <1>5 DEF IsMade, IsResult, IsMessage, Encoded
<1> QED BY <1>4, <1>6 DEF u

LEMMA CutMessage ==
  ASSUME NEW s, IsMessage(s), NEW n \in 0 .. Len(s) - 1
  PROVE  IsMessage(SubSeq(s, 1, n)) /\ Len(SubSeq(s, 1, n)) = n
<1> DEFINE m == Len(s)
           X == {s[k] : k \in 1 .. Len(s)}
<1>1. m \in Nat /\ IsSequence(s) /\ \A k \in 1 .. m : IsToken(s[k])
  BY DomainOf DEF IsMessage
<1>2. s \in Seq(X)
  BY <1>1, InSeq
<1>3. n \in 0 .. m - 1 /\ n \in 0 .. Len(s) /\ n \in Nat
  BY <1>1
<1> HIDE DEF X
<1> DEFINE d == SubSeq(s, 1, n)
<1>4. d \in Seq(X) /\ Len(d) = n /\ \A k \in 1 .. n : d[k] = s[k]
  BY <1>2, <1>3
<1>5. IsSequence(d)
  BY <1>4, FromSeq
<1> HIDE DEF d, m
<1>6. \A k \in 1 .. n : k \in 1 .. m
  BY <1>1, <1>3
<1>7. IsMessage(d)
  BY <1>1, <1>4, <1>5, <1>6 DEF IsMessage
<1> QED BY <1>4, <1>7 DEF d

LEMMA EmptyMessage == IsMessage(<<>>) /\ Len(<<>>) = 0
BY EmptySequence DEF IsMessage

LEMMA WireMessage ==
  ASSUME Inv
  PROVE  IsMessage(wire) /\ size \in Nat
<1> SUFFICES ASSUME NEW c, c = call, NEW w, w = wire, NEW n, n = size
             PROVE  IsMessage(w) /\ n \in Nat
  OBVIOUS
<1>1. c \in Calls
  BY DEF Inv, Staged
<1> DEFINE sent == SentIn(c)
<1>2. IsMessage(sent.bits)
  <2> DEFINE types == There(c)
             t == There(c)[c[2]]
             v == Value(c)
  <2>1. Sending(c[1], types, t, v, MaxDepth)
    BY <1>1, CallFacts
  <2>2. sent = Encode(types, <<t, v>>, MaxDepth)
    BY DEF SentIn, EncodeIn
  <2> HIDE DEF types, t, v, sent
  <2>3. IsMade(sent)
    BY <2>1, <2>2, SentMade
  <2> QED BY <2>3 DEF IsMade, IsResult, IsMessage
<1>3. /\ sort = "none" \/ sort = "refused" => w = <<>> /\ n = 0
      /\ sort = "whole" => n = Len(sent.bits) /\ \E tail \in Tails : w = sent.bits \o tail
      /\ sort = "cut"   => n = Len(sent.bits) /\ \E m \in 0 .. Len(sent.bits) - 1 : w = SubSeq(sent.bits, 1, m)
      /\ sort = "noise" => w \in Damage(sent.bits) /\ n = Len(w)
      /\ sort \in {"none", "refused", "whole", "cut", "noise"}
  BY DEF Inv, Staged, Handed, Sent, SentIn, Stages
<1> HIDE DEF sent
<1> DEFINE bits == sent.bits
<1> HIDE DEF bits
<1>4. IsMessage(bits) /\ Len(bits) \in Nat
  BY <1>2, DomainOf DEF IsMessage, bits
<1>5. CASE sort \in {"none", "refused"}
  BY <1>3, <1>5, EmptyMessage
<1>6. CASE sort = "whole"
  <2>1. PICK tail \in Tails : w = bits \o tail
    BY <1>3, <1>6 DEF bits
  <2>2. IsMessage(tail)
    BY PduAssumption
  <2>3. n = Len(bits)
    BY <1>3, <1>6 DEF bits
  <2> QED BY <1>4, <2>1, <2>2, <2>3, JoinedMessage
<1>7. CASE sort = "cut"
  <2>1. PICK m \in 0 .. Len(bits) - 1 : w = SubSeq(bits, 1, m)
    BY <1>3, <1>7 DEF bits
  <2>3. n = Len(bits)
    BY <1>3, <1>7 DEF bits
  <2> QED BY <1>4, <2>1, <2>3, CutMessage
<1>8. CASE sort = "noise"
  <2>1. w \in Damage(bits) /\ n = Len(w)
    BY <1>3, <1>8 DEF bits
  <2>2. IsMessage(w)
    BY <1>4, <2>1, DamageMessage
  <2> QED BY <2>1, <2>2, DomainOf DEF IsMessage
<1> QED BY <1>3, <1>5, <1>6, <1>7, <1>8

-----------------------------------------------------------------------------
(* Of any tokens the decoder makes an error, or a value, having read what  *)
(* is there.                                                               *)
Errors == {"eof", "invalid", "misread", "deep"}
Stops(r, p, end) ==
  \/ r.status \in Errors /\ r = Failed(r.status)
  \/ r = Decoded(r.value, r.used) /\ r.status = "ok" /\ r.used \in p .. end
At(tokens, end, p) == IsMessage(tokens) /\ end \in 0 .. Len(tokens) /\ p \in 0 .. end

LEMMA StopsFacts ==
  /\ \A s \in Errors : \A p, end : Stops(Failed(s), p, end)
  /\ \A v, u, p, end : u \in p .. end => Stops(Decoded(v, u), p, end)
BY DEF Stops, Errors, Failed, Decoded

LEMMA AtFacts ==
  ASSUME NEW tokens, NEW end, NEW p, At(tokens, end, p)
  PROVE  /\ end \in Nat /\ p \in Nat /\ p <= end /\ p \in p .. end
         /\ \A q \in p .. end : At(tokens, end, q)
<1> DEFINE n == Len(tokens)
<1>1. n \in Nat /\ end \in 0 .. n /\ p \in 0 .. end
  BY DomainOf DEF At, IsMessage
<1> HIDE DEF n
<1>2. end \in Nat /\ p \in Nat /\ p <= end /\ p \in p .. end /\ \A q \in p .. end : q \in 0 .. end
  BY <1>1
<1> QED BY <1>2 DEF At

(* One thing after another. *)
IsThen(whole, first, second, p, end) ==
  /\ p \in Nat /\ end \in Nat /\ Stops(first, p, end)
  /\ first.status # "ok" => whole = first
  /\ first.status = "ok" => whole = second /\ Stops(second, first.used, end)

LEMMA ThenStops ==
  ASSUME NEW whole, NEW first, NEW second, NEW p, NEW end, IsThen(whole, first, second, p, end)
  PROVE  /\ Stops(whole, p, end)
         /\ whole.status = "ok" => /\ first.status = "ok" /\ first.used \in p .. end
                                   /\ second.status = "ok" /\ whole = second
<1>1. /\ p \in Nat /\ end \in Nat /\ Stops(first, p, end)
      /\ first.status # "ok" => whole = first
      /\ first.status = "ok" => whole = second /\ Stops(second, first.used, end)
  BY DEF IsThen
<1>2. CASE first.status # "ok"
  BY <1>1, <1>2
<1>3. CASE first.status = "ok"
  <2>1. first.used \in p .. end
    BY <1>1, <1>3 DEF Stops, Errors
  <2>2. Stops(second, p, end)
    <3>1. CASE second.status = "ok"
      <4>1. second = Decoded(second.value, second.used) /\ second.used \in first.used .. end
        BY <1>1, <1>3, <3>1 DEF Stops, Errors
      <4>2. second.used \in p .. end
        BY <1>1, <2>1, <4>1
      <4> QED BY <3>1, <4>1, <4>2 DEF Stops
    <3>2. CASE second.status # "ok"
      BY <1>1, <1>3, <3>2 DEF Stops
    <3> QED BY <3>1, <3>2
  <2> QED BY <1>1, <1>3, <2>1, <2>2
<1> QED BY <1>2, <1>3

LEMMA TakeStops ==
  ASSUME NEW tokens, NEW end, NEW p, At(tokens, end, p), NEW kind
  PROVE  /\ Stops(Take(Input(tokens, end), p, kind), p, end)
         /\ Take(Input(tokens, end), p, kind).status = "ok" =>
              \E y : IsToken(y) /\ y.kind = kind /\ Take(Input(tokens, end), p, kind).value = y.x
<1> DEFINE y == tokens[p + 1]
           n == Len(tokens)
           a == Failed("eof")
           b == Failed("misread")
           c == Decoded(y.x, p + 1)
           w == Take(Input(tokens, end), p, kind)
<1>0. n \in Nat /\ end \in 0 .. n /\ p \in 0 .. end /\ \A k \in 1 .. n : IsToken(tokens[k])
  BY DomainOf DEF At, IsMessage
<1>1. w = CASE p >= end -> a [] p < end /\ y.kind # kind -> b [] OTHER -> c
  BY Zenon DEF Take, Input
<1>2. a.status = "eof" /\ b.status = "misread" /\ c.status = "ok" /\ c.value = y.x
  BY DEF Failed, Decoded
<1>3. Stops(a, p, end) /\ Stops(b, p, end)
  BY StopsFacts DEF Errors
<1> HIDE DEF n
<1>4. p < end => IsToken(y) /\ p + 1 \in p .. end
  <2> SUFFICES ASSUME p < end PROVE IsToken(y) /\ p + 1 \in p .. end
    OBVIOUS
  <2>1. p + 1 \in 1 .. n /\ p + 1 \in p .. end
    BY <1>0
  <2> QED BY <1>0, <2>1
<1>5. p + 1 \in p .. end => Stops(c, p, end)
  BY StopsFacts
<1> HIDE DEF a, b, c, w, y
<1>6. w = a \/ w = b \/ (w = c /\ p < end /\ y.kind = kind)
  BY <1>0, <1>1
<1>7. /\ Stops(w, p, end)
      /\ w.status = "ok" => IsToken(y) /\ y.kind = kind /\ w.value = y.x
  BY <1>2, <1>3, <1>4, <1>5, <1>6
<1> QED BY <1>7 DEF w

LEMMA TakeKinds ==
  ASSUME NEW tokens, NEW end, NEW p, At(tokens, end, p)
  PROVE  /\ Take(Input(tokens, end), p, "bit").status = "ok" => Take(Input(tokens, end), p, "bit").value \in BOOLEAN
         /\ \A kind \in {"small", "size", "length", "open"} :
              Take(Input(tokens, end), p, kind).status = "ok" => Take(Input(tokens, end), p, kind).value \in Nat
         /\ Take(Input(tokens, end), p, "index").status = "ok" => Take(Input(tokens, end), p, "index").value.is \in Nat
<1>1. ASSUME NEW kind, Take(Input(tokens, end), p, kind).status = "ok"
      PROVE  \E y : IsToken(y) /\ y.kind = kind /\ Take(Input(tokens, end), p, kind).value = y.x
  BY <1>1, TakeStops
<1>2. ASSUME NEW kind, Take(Input(tokens, end), p, kind).status = "ok"
      PROVE  /\ kind = "bit" => Take(Input(tokens, end), p, kind).value \in BOOLEAN
             /\ kind \in {"small", "size", "length", "open"} => Take(Input(tokens, end), p, kind).value \in Nat
             /\ kind = "index" => Take(Input(tokens, end), p, kind).value.is \in Nat
  <2>1. PICK y : IsToken(y) /\ y.kind = kind /\ Take(Input(tokens, end), p, kind).value = y.x
    BY <1>1, <1>2
  <2> QED BY <2>1 DEF IsToken
<1> QED BY <1>2

(* Each of some readers after the other. *)
StopsEach(n, readers, p, end) ==
  /\ n \in Nat /\ IsRow(n, readers) /\ end \in Nat /\ p \in 0 .. end
  /\ \A k \in 1 .. n : \A q \in 0 .. end : Stops(readers[k][q], q, end)
IsOneOf(v, reader, end) == \E q \in 0 .. end : reader[q].status = "ok" /\ v = reader[q].value

LEMMA TakeEachStops ==
  ASSUME NEW n, NEW readers, NEW p, NEW end, StopsEach(n, readers, p, end)
  PROVE  /\ Stops(TakeEach(readers, p), p, end)
         /\ TakeEach(readers, p).status = "ok" =>
              /\ IsRow(n, TakeEach(readers, p).value)
              /\ \A k \in 1 .. n : IsOneOf(TakeEach(readers, p).value[k], readers[k], end)
<1>0. /\ n \in Nat /\ IsRow(n, readers) /\ end \in Nat /\ p \in 0 .. end
      /\ \A k \in 1 .. n : \A q \in 0 .. end : Stops(readers[k][q], q, end)
  BY DEF StopsEach
<1>10. PICK u : AreTaken(u, n, readers, p)
  BY <1>0, TakeEachDefined
<1>1. /\ u[0] = Decoded(<<>>, p) /\ u[n] = TakeEach(readers, p)
      /\ \A k \in 1 .. n :
           u[k] = Then(u[k - 1], LAMBDA vs, q :
                    Then(readers[k][q], LAMBDA v, used : Decoded(Append(vs, v), used)))
  BY <1>10 DEF AreTaken, Then
<1> DEFINE Good(k) == /\ Stops(u[k], p, end)
                      /\ u[k].status = "ok" => /\ IsRow(k, u[k].value)
                                               /\ \A j \in 1 .. k : IsOneOf(u[k].value[j], readers[j], end)
           S == {k \in Nat : Good(k)}
<1>2. 0 \in S
  <2>1. Stops(u[0], p, end)
    <3>1. p \in p .. end
      BY <1>0
    <3> QED BY <1>1, <3>1, StopsFacts
  <2>2. u[0].value = <<>> /\ IsRow(0, <<>>)
    <3>1. IsRow(0, <<>>)
      <4>1. <<>> = [k \in 1 .. Len(<<>>) |-> <<>>[k]] /\ Len(<<>>) = 0
        BY EmptySequence DEF IsSequence
      <4> QED BY <4>1 DEF IsRow
    <3>2. u[0].value = <<>>
      <4>1. u[0] = Decoded(<<>>, p)
        BY <1>1
      <4>2. Decoded(<<>>, p).value = <<>>
        BY DEF Decoded
      <4> QED BY <4>1, <4>2, Zenon
    <3> QED BY <3>1, <3>2, Zenon
  <2> QED BY <2>1, <2>2
<1>3. ASSUME NEW m \in Nat, m < n, Good(m)
      PROVE  Good(m + 1)
  <2> DEFINE x == u[m]
             r == readers[m + 1][x.used]
             y == u[m + 1]
  <2>0. m + 1 \in 1 .. n /\ (m + 1) - 1 = m
    BY <1>0, <1>3
  <2>1. y = Then(x, LAMBDA vs, q : Then(readers[m + 1][q], LAMBDA v, used : Decoded(Append(vs, v), used)))
    BY <1>1, <2>0 DEF Then
  <2>2. /\ x.status # "ok" => y = x
        /\ x.status = "ok" /\ r.status # "ok" => y = r
        /\ x.status = "ok" /\ r.status = "ok" => y = Decoded(Append(x.value, r.value), r.used)
    BY <2>1 DEF Then
  <2>3. CASE x.status # "ok"
    BY <1>3, <2>2, <2>3
  <2>4. CASE x.status = "ok"
    <3>1. x.used \in p .. end /\ x.used \in 0 .. end
      BY <1>0, <1>3, <2>4 DEF Stops, Errors
    <3>2. Stops(r, x.used, end)
      BY <1>0, <2>0, <3>1
    <3>3. CASE r.status # "ok"
      BY <2>2, <2>4, <3>2, <3>3 DEF Stops
    <3>4. CASE r.status = "ok"
      <4>1. r.used \in x.used .. end
        BY <3>2, <3>4 DEF Stops, Errors
      <4>2. r.used \in p .. end
        BY <1>0, <3>1, <4>1
      <4> DEFINE values == [j \in 1 .. m + 1 |-> IF j = m + 1 THEN r.value ELSE x.value[j]]
                 row == [j \in 1 .. m |-> values[j]]
      <4>3. \A j \in 1 .. m : values[j] = x.value[j]
        OBVIOUS
      <4>4. values[m + 1] = r.value
        OBVIOUS
      <4>5. x.value = [j \in 1 .. m |-> x.value[j]]
        BY <1>3, <2>4 DEF IsRow
      <4>6. row = x.value
        BY <4>3, <4>5
      <4>7. IsRow(m + 1, values)
        BY DEF IsRow
      <4> HIDE DEF values
      <4>8. Append(row, values[m + 1]) = [j \in 1 .. m + 1 |-> values[j]]
        BY Appended
      <4>9. Append(x.value, r.value) = values
        BY <4>4, <4>6, <4>7, <4>8 DEF IsRow
      <4>10. y = Decoded(values, r.used) /\ y.value = values
        BY <2>2, <2>4, <3>4, <4>9 DEF Decoded
      <4>11. Stops(y, p, end)
        BY <4>2, <4>10, StopsFacts
      <4>12. ASSUME NEW j \in 1 .. m + 1
             PROVE  IsOneOf(values[j], readers[j], end)
        <5>1. CASE j = m + 1
          BY <3>1, <3>4, <4>4, <5>1 DEF IsOneOf
        <5>2. CASE j # m + 1
          <6>1. j \in 1 .. m
            BY <5>2
          <6> QED BY <1>3, <2>4, <4>3, <6>1
        <5> QED BY <5>1, <5>2
      <4> QED BY <4>7, <4>10, <4>11, <4>12
    <3> QED BY <3>3, <3>4
  <2> QED BY <2>3, <2>4
<1> HIDE DEF Good
<1>4. n \in S
  <2>1. \A m \in Nat : m < n /\ m \in S => m + 1 \in S
    BY <1>3
  <2> HIDE DEF S
  <2>2. \A m \in 0 .. n : m \in S
    BY <1>0, <1>2, <2>1, InductionTo
  <2> QED BY <1>0, <2>2
<1> QED BY <1>1, <1>4 DEF Good

LEMMA TakeOpenStops ==
  ASSUME NEW tokens, NEW end, NEW p, At(tokens, end, p)
  PROVE  /\ Stops(TakeOpen(Input(tokens, end), p), p, end)
         /\ TakeOpen(Input(tokens, end), p).status = "ok" =>
              /\ TakeOpen(Input(tokens, end), p).used \in p .. end
              /\ TakeOpen(Input(tokens, end), p).value \in 0 .. TakeOpen(Input(tokens, end), p).used
<1> DEFINE w == TakeOpen(Input(tokens, end), p)
           x == Take(Input(tokens, end), p, "open")
           n == x.value
           q == x.used
           y == IF q + n > end THEN Failed("eof") ELSE Decoded(q, q + n)
<1>1. Stops(x, p, end) /\ (x.status = "ok" => n \in Nat)
  BY TakeStops, TakeKinds
<1>2. p \in Nat /\ end \in Nat
  BY AtFacts
<1>3. (x.status # "ok" => w = x) /\ (x.status = "ok" => w = y)
  <2>1. w = Then(x, LAMBDA m, u : IF u + m > end THEN Failed("eof") ELSE Decoded(u, u + m))
    BY DEF TakeOpen, Input, Then
  <2> QED BY <2>1 DEF Then
<1>4. x.status = "ok" => q \in p .. end
  BY <1>1 DEF Stops, Errors
<1> HIDE DEF w, x, n, q
<1>5. x.status = "ok" => Stops(y, q, end) /\ (y.status = "ok" => y = Decoded(q, q + n) /\ q + n \in q .. end)
  <2> SUFFICES ASSUME x.status = "ok" PROVE Stops(y, q, end) /\ (y.status = "ok" => y = Decoded(q, q + n) /\ q + n \in q .. end)
    OBVIOUS
  <2>1. CASE q + n > end
    <3>1. y = Failed("eof") /\ y.status # "ok"
      BY <2>1 DEF Failed
    <3> QED BY <3>1, StopsFacts DEF Errors
  <2>2. CASE ~(q + n > end)
    <3>1. y = Decoded(q, q + n) /\ q + n \in q .. end
      BY <1>1, <1>2, <1>4, <2>2
    <3> QED BY <3>1, StopsFacts
  <2> QED BY <2>1, <2>2
<1> HIDE DEF y
<1>6. IsThen(w, x, y, p, end)
  BY <1>1, <1>2, <1>3, <1>5 DEF IsThen, q
<1>7. Stops(w, p, end) /\ (w.status = "ok" => x.status = "ok" /\ y.status = "ok" /\ w = y)
  BY <1>6, ThenStops
<1>8. ASSUME w.status = "ok"
      PROVE  w.used \in p .. end /\ w.value \in 0 .. w.used
  <2>1. w = Decoded(q, q + n) /\ q + n \in q .. end /\ q \in p .. end
    BY <1>4, <1>5, <1>7, <1>8
  <2>2. w.used = q + n /\ w.value = q
    BY <2>1 DEF Decoded
  <2> QED BY <1>2, <2>1, <2>2
<1> QED BY <1>7, <1>8 DEF w

LEMMA ExtensionBitStops ==
  ASSUME NEW t, NEW tokens, NEW end, NEW p, At(tokens, end, p), t.extensible \in BOOLEAN
  PROVE  /\ Stops(TakeExtensionBit(t, Input(tokens, end), p), p, end)
         /\ TakeExtensionBit(t, Input(tokens, end), p).status = "ok" =>
              /\ TakeExtensionBit(t, Input(tokens, end), p).value \in BOOLEAN
              /\ TakeExtensionBit(t, Input(tokens, end), p).value => t.extensible
<1>1. CASE t.extensible
  <2>1. TakeExtensionBit(t, Input(tokens, end), p) = Take(Input(tokens, end), p, "bit")
    BY <1>1 DEF TakeExtensionBit
  <2> QED BY <1>1, <2>1, TakeStops, TakeKinds
<1>2. CASE ~t.extensible
  <2>1. TakeExtensionBit(t, Input(tokens, end), p) = Decoded(FALSE, p)
    BY <1>2 DEF TakeExtensionBit
  <2>2. Stops(Decoded(FALSE, p), p, end) /\ Decoded(FALSE, p).value = FALSE
    <3>1. p \in p .. end
      BY AtFacts
    <3> QED BY <3>1, StopsFacts DEF Decoded
  <2> QED BY <2>1, <2>2
<1> QED BY <1>1, <1>2

LEMMA TakeAsStops ==
  ASSUME NEW tokens, NEW end, NEW p, At(tokens, end, p), NEW kind, NEW of
  PROVE  /\ Stops(TakeAs(Input(tokens, end), p, kind, of), p, end)
         /\ TakeAs(Input(tokens, end), p, kind, of).status = "ok" /\ kind = "index" =>
              TakeAs(Input(tokens, end), p, kind, of).value \in Nat
<1> DEFINE w == TakeAs(Input(tokens, end), p, kind, of)
           x == Take(Input(tokens, end), p, kind)
           y == IF x.value.of = of THEN Decoded(x.value.is, x.used) ELSE Failed("misread")
<1>1. Stops(x, p, end) /\ (x.status = "ok" /\ kind = "index" => x.value.is \in Nat)
  BY TakeStops, TakeKinds
<1>2. p \in Nat /\ end \in Nat
  BY AtFacts
<1>3. (x.status # "ok" => w = x) /\ (x.status = "ok" => w = y)
  <2>1. w = Then(x, LAMBDA m, u : IF m.of = of THEN Decoded(m.is, u) ELSE Failed("misread"))
    BY DEF TakeAs, Then
  <2> QED BY <2>1 DEF Then
<1>4. x.status = "ok" => x.used \in p .. end /\ x.used \in x.used .. end
  BY <1>1, <1>2 DEF Stops, Errors
<1>5. y = Decoded(x.value.is, x.used) \/ (y = Failed("misread") /\ y.status # "ok")
  BY DEF Failed
<1>6. x.status = "ok" => Stops(y, x.used, end)
  <2> HIDE DEF x, y
  <2> QED BY <1>4, <1>5, StopsFacts DEF Errors
<1>7. y.status = "ok" => y.value = x.value.is
  BY DEF Decoded, Failed
<1> HIDE DEF w, x, y
<1>8. IsThen(w, x, y, p, end)
  BY <1>1, <1>2, <1>3, <1>6 DEF IsThen
<1>9. Stops(w, p, end) /\ (w.status = "ok" => x.status = "ok" /\ y.status = "ok" /\ w = y)
  BY <1>8, ThenStops
<1> QED BY <1>1, <1>7, <1>9 DEF w

LEMMA TakeIndexStops ==
  ASSUME NEW n \in Nat \ {0}, NEW tokens, NEW end, NEW p, At(tokens, end, p)
  PROVE  /\ Stops(TakeIndex(n, Input(tokens, end), p), p, end)
         /\ TakeIndex(n, Input(tokens, end), p).status = "ok" => TakeIndex(n, Input(tokens, end), p).value \in 1 .. n
<1> DEFINE w == TakeIndex(n, Input(tokens, end), p)
<1>0. p \in Nat /\ end \in Nat /\ p \in p .. end
  BY AtFacts
<1>1. CASE n = 1
  <2>1. w = Decoded(1, p)
    BY <1>1 DEF TakeIndex
  <2>2. w.value = 1
    BY <2>1 DEF Decoded
  <2> QED BY <1>0, <1>1, <2>1, <2>2, StopsFacts
<1>2. CASE n # 1
  <2> DEFINE x == TakeAs(Input(tokens, end), p, "index", n)
             y == IF x.value < n THEN Decoded(x.value + 1, x.used) ELSE Failed("invalid")
  <2>1. Stops(x, p, end) /\ (x.status = "ok" => x.value \in Nat)
    BY TakeAsStops
  <2>2. (x.status # "ok" => w = x) /\ (x.status = "ok" => w = y)
    <3>1. w = Then(x, LAMBDA m, u : IF m < n THEN Decoded(m + 1, u) ELSE Failed("invalid"))
      BY <1>2 DEF TakeIndex, Then
    <3> QED BY <3>1 DEF Then
  <2>3. x.status = "ok" => x.used \in p .. end /\ x.used \in x.used .. end
    BY <1>0, <2>1 DEF Stops, Errors
  <2>4. (x.value < n /\ y = Decoded(x.value + 1, x.used)) \/ (y = Failed("invalid") /\ y.status # "ok")
    BY DEF Failed
  <2> HIDE DEF x, y, w
  <2>5. x.status = "ok" => Stops(y, x.used, end) /\ (y.status = "ok" => y.value \in 1 .. n)
    <3> SUFFICES ASSUME x.status = "ok"
                 PROVE  Stops(y, x.used, end) /\ (y.status = "ok" => y.value \in 1 .. n)
      OBVIOUS
    <3>1. CASE y = Failed("invalid") /\ y.status # "ok"
      BY <3>1, StopsFacts DEF Errors
    <3>2. CASE x.value < n /\ y = Decoded(x.value + 1, x.used)
      <4>1. x.value + 1 \in 1 .. n
        BY <2>1, <3>2
      <4>2. y.value = x.value + 1
        BY <3>2 DEF Decoded
      <4> QED BY <2>3, <3>2, <4>1, <4>2, StopsFacts
    <3> QED BY <2>4, <3>1, <3>2
  <2>6. IsThen(w, x, y, p, end)
    BY <1>0, <2>1, <2>2, <2>5 DEF IsThen
  <2>7. Stops(w, p, end) /\ (w.status = "ok" => x.status = "ok" /\ y.status = "ok" /\ w = y)
    BY <2>6, ThenStops
  <2> QED BY <2>5, <2>7 DEF w
<1> QED BY <1>1, <1>2

(* The calls for the parts of a type stop, with values of their types.     *)
ReadsInto(read, shapes, tokens, got) ==
  \A t \in shapes : \A end \in 0 .. Len(tokens) : \A q \in 0 .. end :
    /\ Stops(read[<<t, end, q>>], q, end)
    /\ read[<<t, end, q>>].status = "ok" => <<t, read[<<t, end, q>>].value>> \in got

LEMMA ReadStops ==
  ASSUME NEW read, NEW shapes, NEW tokens, NEW got, ReadsInto(read, shapes, tokens, got),
         NEW t \in shapes, NEW end, NEW p, At(tokens, end, p)
  PROVE  /\ Stops(read[<<t, end, p>>], p, end)
         /\ read[<<t, end, p>>].status = "ok" => <<t, read[<<t, end, p>>].value>> \in got
BY DEF ReadsInto, At

LEMMA TakePartStops ==
  ASSUME NEW read, NEW shapes, NEW tokens, NEW got, ReadsInto(read, shapes, tokens, got),
         NEW part, part.type \in shapes, NEW end, NEW p, At(tokens, end, p)
  PROVE  /\ Stops(TakePart(part, end, p, read), p, end)
         /\ TakePart(part, end, p, read).status = "ok" =>
              \E v : TakePart(part, end, p, read).value = Some(v) /\ <<part.type, v>> \in got
<1> DEFINE w == TakePart(part, end, p, read)
           t == part.type
           x == read[<<t, end, p>>]
           y == Decoded(Some(x.value), x.used)
<1>1. Stops(x, p, end) /\ (x.status = "ok" => <<t, x.value>> \in got)
  <2> HIDE DEF t
  <2>1. t \in shapes
    BY DEF t
  <2> QED BY <2>1, ReadStops
<1>2. p \in Nat /\ end \in Nat
  BY AtFacts
<1>3. (x.status # "ok" => w = x) /\ (x.status = "ok" => w = y)
  BY DEF TakePart, Then
<1>4. x.status = "ok" => x.used \in x.used .. end
  BY <1>1, <1>2 DEF Stops, Errors
<1>5. x.status = "ok" => Stops(y, x.used, end)
  <2> HIDE DEF x
  <2> QED BY <1>4, StopsFacts
<1>6. y.value = Some(x.value)
  BY DEF Decoded
<1> HIDE DEF w, x, y
<1>7. IsThen(w, x, y, p, end)
  BY <1>1, <1>2, <1>3, <1>5 DEF IsThen
<1>8. Stops(w, p, end) /\ (w.status = "ok" => x.status = "ok" /\ y.status = "ok" /\ w = y)
  BY <1>7, ThenStops
<1> QED BY <1>1, <1>6, <1>8 DEF w, t

LEMMA ThenIs ==
  ASSUME NEW w, NEW x, NEW y, NEW p, NEW tokens, NEW end, At(tokens, end, p), Stops(x, p, end),
         x.status # "ok" => w = x,
         x.status = "ok" => w = y /\ (x.used \in p .. end /\ At(tokens, end, x.used) => Stops(y, x.used, end))
  PROVE  /\ Stops(w, p, end)
         /\ w.status = "ok" => /\ x.status = "ok" /\ x.used \in p .. end /\ At(tokens, end, x.used)
                               /\ y.status = "ok" /\ w = y
<1>1. p \in Nat /\ end \in Nat /\ \A q \in p .. end : At(tokens, end, q)
  BY AtFacts
<1>2. x.status = "ok" => x.used \in p .. end /\ At(tokens, end, x.used)
  BY <1>1 DEF Stops, Errors
<1>3. IsThen(w, x, y, p, end)
  BY <1>1, <1>2 DEF IsThen
<1> QED BY <1>2, <1>3, ThenStops

(* A row of readers, each of which stops wherever it starts. *)
StopAt(n, readers, tokens, end) ==
  n \in Nat /\ IsRow(n, readers) /\ \A k \in 1 .. n : \A q \in Nat : At(tokens, end, q) => Stops(readers[k][q], q, end)

LEMMA EachStops ==
  ASSUME NEW n, NEW readers, NEW tokens, NEW end, NEW p, At(tokens, end, p), StopAt(n, readers, tokens, end)
  PROVE  /\ Stops(TakeEach(readers, p), p, end)
         /\ TakeEach(readers, p).status = "ok" =>
              /\ IsRow(n, TakeEach(readers, p).value)
              /\ \A k \in 1 .. n : \E q \in Nat : /\ At(tokens, end, q) /\ readers[k][q].status = "ok"
                                                  /\ TakeEach(readers, p).value[k] = readers[k][q].value
<1>1. end \in 0 .. Len(tokens) /\ p \in 0 .. end /\ end \in Nat /\ IsMessage(tokens)
  BY AtFacts DEF At
<1>2. \A q \in 0 .. end : q \in Nat /\ At(tokens, end, q)
  BY <1>1 DEF At
<1>3. StopsEach(n, readers, p, end)
  BY <1>1, <1>2 DEF StopsEach, StopAt
<1> QED BY <1>2, <1>3, TakeEachStops DEF IsOneOf

LEMMA SkipAdditionsStops ==
  ASSUME NEW tokens, NEW end, NEW p, At(tokens, end, p)
  PROVE  Stops(SkipAdditions(Input(tokens, end), p), p, end)
<1> DEFINE input == Input(tokens, end)
           x == Take(input, p, "small")
           n == x.value + 1
           one(q) == Then(Take(input, q, "bit"), LAMBDA there, used :
                       IF there THEN TakeOpen(input, used) ELSE Decoded(None, used))
           readers == [k \in 1 .. n |-> [q \in Nat |-> one(q)]]
           y == TakeEach(readers, x.used)
           w == SkipAdditions(input, p)
<1>1. (x.status # "ok" => w = x) /\ (x.status = "ok" => w = y)
  BY DEF SkipAdditions, Then
<1>2. Stops(x, p, end) /\ (x.status = "ok" => x.value \in Nat)
  BY TakeStops, TakeKinds
<1>3. ASSUME NEW q \in Nat, At(tokens, end, q)
      PROVE  Stops(one(q), q, end)
  <2> DEFINE b == Take(input, q, "bit")
             c == IF b.value THEN TakeOpen(input, b.used) ELSE Decoded(None, b.used)
             o == one(q)
  <2>1. (b.status # "ok" => o = b) /\ (b.status = "ok" => o = c)
    BY DEF Then
  <2>2. Stops(b, q, end)
    BY <1>3, TakeStops
  <2>3. ASSUME At(tokens, end, b.used)
        PROVE  Stops(c, b.used, end)
    <3>1. b.used \in b.used .. end
      BY <2>3, AtFacts
    <3>2. Stops(TakeOpen(input, b.used), b.used, end)
      BY <2>3, TakeOpenStops
    <3>3. Stops(Decoded(None, b.used), b.used, end)
      BY <3>1, StopsFacts
    <3> QED BY <3>2, <3>3
  <2> HIDE DEF o, b, c
  <2>4. Stops(o, q, end)
    BY <1>3, <2>1, <2>2, <2>3, ThenIs
  <2> QED BY <2>4 DEF o
<1> HIDE DEF one
<1>4. ASSUME x.status = "ok", At(tokens, end, x.used)
      PROVE  Stops(y, x.used, end)
  <2>1. n \in Nat
    BY <1>2, <1>4
  <2>2. IsRow(n, readers) /\ \A k \in 1 .. n : \A q \in Nat : readers[k][q] = one(q)
    BY DEF IsRow
  <2> HIDE DEF readers, n, x
  <2>3. StopAt(n, readers, tokens, end)
    BY <1>3, <2>1, <2>2 DEF StopAt
  <2> QED BY <1>4, <2>3, EachStops
<1> HIDE DEF w, x, y
<1>5. Stops(w, p, end)
  BY <1>1, <1>2, <1>4, ThenIs
<1> QED BY <1>5 DEF w

LEMMA TakeBitmapStops ==
  ASSUME NEW tokens, NEW end, NEW p, At(tokens, end, p)
  PROVE  /\ Stops(TakeBitmap(Input(tokens, end), p), p, end)
         /\ TakeBitmap(Input(tokens, end), p).status = "ok" =>
              \E n \in Nat : /\ IsRow(n, TakeBitmap(Input(tokens, end), p).value)
                             /\ \A k \in 1 .. n : TakeBitmap(Input(tokens, end), p).value[k] \in BOOLEAN
<1> DEFINE input == Input(tokens, end)
           x == Take(input, p, "small")
           n == x.value + 1
           readers == [k \in 1 .. n |-> [q \in Nat |-> Take(input, q, "bit")]]
           y == TakeEach(readers, x.used)
           w == TakeBitmap(input, p)
<1>1. (x.status # "ok" => w = x) /\ (x.status = "ok" => w = y)
  BY DEF TakeBitmap, Then
<1>2. Stops(x, p, end) /\ (x.status = "ok" => x.value \in Nat)
  BY TakeStops, TakeKinds
<1>3. ASSUME NEW q \in Nat, At(tokens, end, q)
      PROVE  Stops(Take(input, q, "bit"), q, end) /\ (Take(input, q, "bit").status = "ok" => Take(input, q, "bit").value \in BOOLEAN)
  BY <1>3, TakeStops, TakeKinds
<1>4. ASSUME x.status = "ok", At(tokens, end, x.used)
      PROVE  /\ Stops(y, x.used, end)
             /\ y.status = "ok" => /\ n \in Nat /\ IsRow(n, y.value)
                                   /\ \A k \in 1 .. n : y.value[k] \in BOOLEAN
  <2>1. n \in Nat
    BY <1>2, <1>4
  <2>2. IsRow(n, readers) /\ \A k \in 1 .. n : \A q \in Nat : readers[k][q] = Take(input, q, "bit")
    BY DEF IsRow
  <2> HIDE DEF readers, n, x, input
  <2>3. StopAt(n, readers, tokens, end)
    BY <1>3, <2>1, <2>2 DEF StopAt
  <2>4. /\ Stops(y, x.used, end)
        /\ y.status = "ok" =>
              /\ IsRow(n, y.value)
              /\ \A k \in 1 .. n : \E q \in Nat : /\ At(tokens, end, q) /\ readers[k][q].status = "ok"
                                                  /\ y.value[k] = readers[k][q].value
    BY <1>4, <2>3, EachStops
  <2> HIDE DEF y
  <2>5. ASSUME y.status = "ok", NEW k \in 1 .. n
        PROVE  y.value[k] \in BOOLEAN
    <3>1. PICK q \in Nat : At(tokens, end, q) /\ readers[k][q].status = "ok" /\ y.value[k] = readers[k][q].value
      BY <2>4, <2>5
    <3> QED BY <1>3, <2>2, <3>1
  <2> QED BY <2>1, <2>4, <2>5
<1> HIDE DEF w, x, y, n
<1>5. Stops(w, p, end) /\ (w.status = "ok" => x.status = "ok" /\ At(tokens, end, x.used) /\ y.status = "ok" /\ w = y)
  BY <1>1, <1>2, <1>4, ThenIs
<1>6. w.status = "ok" => n \in Nat /\ IsRow(n, w.value) /\ \A k \in 1 .. n : w.value[k] \in BOOLEAN
  BY <1>4, <1>5
<1> QED BY <1>5, <1>6 DEF w

(* What was read of some parts: nothing, or a value of the type. *)
IsGot(v, type, got) == v = None \/ \E z : v = Some(z) /\ <<type, z>> \in got
AreParts(parts, shapes) == IsSequence(parts) /\ \A k \in 1 .. Len(parts) : parts[k].type \in shapes
AreGot(parts, values, got) ==
  IsRow(Len(parts), values) /\ \A k \in 1 .. Len(parts) : IsGot(values[k], parts[k].type, got)

LEMMA TakeAdditionStops ==
  ASSUME NEW read, NEW shapes, NEW tokens, NEW got, ReadsInto(read, shapes, tokens, got),
         NEW more, AreParts(more, shapes), NEW k \in Nat \ {0}, NEW end, NEW p, At(tokens, end, p)
  PROVE  /\ Stops(TakeAddition(more, k, Input(tokens, end), p, read), p, end)
         /\ TakeAddition(more, k, Input(tokens, end), p, read).status = "ok" =>
              IF k <= Len(more) THEN IsGot(TakeAddition(more, k, Input(tokens, end), p, read).value, more[k].type, got)
              ELSE TakeAddition(more, k, Input(tokens, end), p, read).value = None
<1> DEFINE input == Input(tokens, end)
           len == Len(more)
           x == TakeOpen(input, p)
           z == TakePart(more[k], x.used, x.value, read)
           in == Then(z, LAMBDA v, u : Decoded(v, x.used))
           y == IF k > len THEN Decoded(None, x.used) ELSE in
           w == TakeAddition(more, k, input, p, read)
<1>1. (x.status # "ok" => w = x) /\ (x.status = "ok" => w = y)
  BY DEF TakeAddition, Then
<1>2. Stops(x, p, end) /\ (x.status = "ok" => x.used \in p .. end /\ x.value \in 0 .. x.used)
  BY TakeOpenStops
<1>3. len \in Nat /\ \A j \in 1 .. len : more[j].type \in shapes
  BY DEF AreParts, IsSequence
<1> HIDE DEF len
<1>4. ASSUME x.status = "ok", At(tokens, end, x.used)
      PROVE  /\ Stops(y, x.used, end)
             /\ y.status = "ok" => IF k <= len THEN IsGot(y.value, more[k].type, got) ELSE y.value = None
  <2>1. x.used \in x.used .. end
    BY <1>4, AtFacts
  <2>2. CASE k > len
    <3>1. y = Decoded(None, x.used) /\ Decoded(None, x.used).value = None
      BY <2>2 DEF Decoded
    <3>2. Stops(Decoded(None, x.used), x.used, end)
      BY <2>1, StopsFacts
    <3>3. ~(k <= len)
      BY <1>3, <2>2
    <3> HIDE DEF y
    <3> QED BY <3>1, <3>2, <3>3
  <2>3. CASE ~(k > len)
    <3>1. k \in 1 .. len /\ k <= len
      BY <1>3, <2>3
    <3>2. At(tokens, x.used, x.value)
      BY <1>2, <1>4 DEF At
    <3>3. /\ Stops(z, x.value, x.used)
          /\ z.status = "ok" => \E v : z.value = Some(v) /\ <<more[k].type, v>> \in got
      BY <1>3, <3>1, <3>2, TakePartStops
    <3> HIDE DEF z
    <3>4. (z.status # "ok" => in = z) /\ (z.status = "ok" => in = Decoded(z.value, x.used))
      BY DEF Then
    <3>5. y = in
      BY <2>3
    <3> HIDE DEF y, in, x
    <3>6. CASE z.status = "ok"
      <4>1. y.value = z.value /\ y = Decoded(z.value, x.used)
        BY <3>4, <3>5, <3>6 DEF Decoded
      <4>2. Stops(y, x.used, end)
        BY <2>1, <4>1, StopsFacts
      <4> QED BY <3>1, <3>3, <3>6, <4>1, <4>2 DEF IsGot
    <3>7. CASE z.status # "ok"
      <4>1. y = z /\ z.status \in Errors /\ z = Failed(z.status)
        BY <3>3, <3>4, <3>5, <3>7 DEF Stops
      <4> QED BY <3>7, <4>1, StopsFacts
    <3> QED BY <3>6, <3>7
  <2> QED BY <2>2, <2>3
<1> HIDE DEF w, x, y
<1>5. Stops(w, p, end) /\ (w.status = "ok" => x.status = "ok" /\ At(tokens, end, x.used) /\ y.status = "ok" /\ w = y)
  BY <1>1, <1>2, <1>4, ThenIs
<1> QED BY <1>4, <1>5 DEF w, len

LEMMA TakeAdditionsStops ==
  ASSUME NEW read, NEW shapes, NEW tokens, NEW got, ReadsInto(read, shapes, tokens, got),
         NEW more, AreParts(more, shapes), NEW end, NEW p, At(tokens, end, p)
  PROVE  /\ Stops(TakeAdditions(more, Input(tokens, end), p, read), p, end)
         /\ TakeAdditions(more, Input(tokens, end), p, read).status = "ok" =>
              AreGot(more, TakeAdditions(more, Input(tokens, end), p, read).value, got)
<1> DEFINE input == Input(tokens, end)
           x == TakeBitmap(input, p)
           there == x.value
           one(k, q) == IF there[k] THEN TakeAddition(more, k, input, q, read) ELSE Decoded(None, q)
           readers == [k \in DOMAIN there |-> [q \in Nat |-> one(k, q)]]
           z == TakeEach(readers, x.used)
           all == [k \in DOMAIN more |-> IF k \in DOMAIN z.value THEN z.value[k] ELSE None]
           y == Then(z, LAMBDA gotten, used :
                  Decoded([k \in DOMAIN more |-> IF k \in DOMAIN gotten THEN gotten[k] ELSE None], used))
           w == TakeAdditions(more, input, p, read)
<1>1. (x.status # "ok" => w = x) /\ (x.status = "ok" => w = y)
  BY DEF TakeAdditions, Then
<1>2. Stops(x, p, end)
  BY TakeBitmapStops
<1>3. ASSUME NEW k \in Nat \ {0}, NEW q \in Nat, At(tokens, end, q)
      PROVE  /\ Stops(one(k, q), q, end)
             /\ one(k, q).status = "ok" =>
                  IF k <= Len(more) THEN IsGot(one(k, q).value, more[k].type, got) ELSE one(k, q).value = None
  <2>1. CASE there[k]
    BY <1>3, <2>1, TakeAdditionStops
  <2>2. CASE ~there[k]
    <3>1. one(k, q) = Decoded(None, q) /\ Decoded(None, q).value = None /\ q \in q .. end
      BY <1>3, <2>2, AtFacts DEF Decoded
    <3> HIDE DEF one
    <3> QED BY <3>1, StopsFacts DEF IsGot
  <2> QED BY <2>1, <2>2
<1> HIDE DEF one
<1>4. (z.status # "ok" => y = z) /\ (z.status = "ok" => y = Decoded(all, z.used))
  BY DEF Then
<1>5. Len(more) \in Nat /\ DOMAIN more = 1 .. Len(more)
  BY DomainOf DEF AreParts
<1>6. ASSUME x.status = "ok", At(tokens, end, x.used)
      PROVE  Stops(y, x.used, end) /\ (y.status = "ok" => AreGot(more, y.value, got))
  <2>1. PICK n \in Nat : IsRow(n, there) /\ \A k \in 1 .. n : there[k] \in BOOLEAN
    BY <1>6, TakeBitmapStops
  <2>2. DOMAIN there = 1 .. n
    BY <2>1 DEF IsRow
  <2> HIDE DEF there
  <2>3. IsRow(n, readers) /\ \A k \in 1 .. n : \A q \in Nat : readers[k][q] = one(k, q)
    BY <2>2 DEF IsRow
  <2> HIDE DEF readers, x, input
  <2>4. \A k \in 1 .. n : k \in Nat \ {0}
    BY <2>1
  <2>5. StopAt(n, readers, tokens, end)
    BY <1>3, <2>1, <2>3, <2>4 DEF StopAt
  <2>6. /\ Stops(z, x.used, end)
        /\ z.status = "ok" =>
              /\ IsRow(n, z.value)
              /\ \A k \in 1 .. n : \E q \in Nat : /\ At(tokens, end, q) /\ readers[k][q].status = "ok"
                                                  /\ z.value[k] = readers[k][q].value
    BY <1>6, <2>5, EachStops
  <2> HIDE DEF z
  <2>7. ASSUME z.status = "ok"
        PROVE  AreGot(more, all, got)
    <3>1. DOMAIN z.value = 1 .. n
      BY <2>6, <2>7 DEF IsRow
    <3>2. IsRow(Len(more), all) /\ \A k \in 1 .. Len(more) : all[k] = IF k \in 1 .. n THEN z.value[k] ELSE None
      BY <1>5, <3>1 DEF IsRow
    <3> HIDE DEF all
    <3>3. ASSUME NEW k \in 1 .. Len(more)
          PROVE  IsGot(all[k], more[k].type, got)
      <4>1. CASE k \in 1 .. n
        <5>1. PICK q \in Nat : At(tokens, end, q) /\ readers[k][q].status = "ok" /\ z.value[k] = readers[k][q].value
          BY <2>6, <2>7, <4>1
        <5>2. k \in Nat \ {0} /\ k <= Len(more)
          BY <1>5
        <5>3. one(k, q).status = "ok" /\ all[k] = one(k, q).value
          BY <2>3, <3>2, <4>1, <5>1
        <5> QED BY <1>3, <5>1, <5>2, <5>3
      <4>2. CASE k \notin 1 .. n
        <5>1. all[k] = None
          BY <3>2, <4>2
        <5> QED BY <5>1 DEF IsGot
      <4> QED BY <4>1, <4>2
    <3> QED BY <3>2, <3>3 DEF AreGot
  <2> HIDE DEF all, y
  <2>8. CASE z.status = "ok"
    <3>1. y = Decoded(all, z.used) /\ y.value = all /\ z.used \in x.used .. end
      BY <1>4, <2>6, <2>8 DEF Decoded, Stops, Errors
    <3> QED BY <2>7, <2>8, <3>1, StopsFacts
  <2>9. CASE z.status # "ok"
    BY <1>4, <2>6, <2>9
  <2> QED BY <2>8, <2>9
<1> HIDE DEF w, x, y
<1>7. Stops(w, p, end) /\ (w.status = "ok" => x.status = "ok" /\ At(tokens, end, x.used) /\ y.status = "ok" /\ w = y)
  BY <1>1, <1>2, <1>6, ThenIs
<1> QED BY <1>6, <1>7 DEF w

LEMMA TakePreambleStops ==
  ASSUME NEW root, IsSequence(root), \A k \in 1 .. Len(root) : root[k].optional \in BOOLEAN,
         NEW tokens, NEW end, NEW p, At(tokens, end, p)
  PROVE  /\ Stops(TakePreamble(root, Input(tokens, end), p), p, end)
         /\ TakePreamble(root, Input(tokens, end), p).status = "ok" =>
              /\ IsRow(Len(root), TakePreamble(root, Input(tokens, end), p).value)
              /\ \A k \in 1 .. Len(root) :
                   /\ TakePreamble(root, Input(tokens, end), p).value[k] \in BOOLEAN
                   /\ ~root[k].optional => TakePreamble(root, Input(tokens, end), p).value[k]
<1> DEFINE input == Input(tokens, end)
           n == Len(root)
           one(k, q) == IF root[k].optional THEN Take(input, q, "bit") ELSE Decoded(TRUE, q)
           readers == [k \in DOMAIN root |-> [q \in Nat |-> one(k, q)]]
           w == TakePreamble(root, input, p)
<1>1. w = TakeEach(readers, p)
  BY DEF TakePreamble
<1>2. n \in Nat /\ DOMAIN root = 1 .. n
  BY DomainOf
<1>3. ASSUME NEW k \in 1 .. n, NEW q \in Nat, At(tokens, end, q)
      PROVE  /\ Stops(one(k, q), q, end)
             /\ one(k, q).status = "ok" =>
                  one(k, q).value \in BOOLEAN /\ (~root[k].optional => one(k, q).value)
  <2>1. CASE root[k].optional
    BY <1>3, <2>1, TakeStops, TakeKinds
  <2>2. CASE ~root[k].optional
    <3>1. one(k, q) = Decoded(TRUE, q) /\ Decoded(TRUE, q).value = TRUE /\ q \in q .. end
      BY <1>3, <2>2, AtFacts DEF Decoded
    <3> HIDE DEF one
    <3> QED BY <3>1, StopsFacts
  <2> QED BY <2>1, <2>2
<1> HIDE DEF one
<1>4. IsRow(n, readers) /\ \A k \in 1 .. n : \A q \in Nat : readers[k][q] = one(k, q)
  BY <1>2 DEF IsRow
<1> HIDE DEF readers, input, n, w
<1>5. StopAt(n, readers, tokens, end)
  BY <1>2, <1>3, <1>4 DEF StopAt
<1>6. /\ Stops(w, p, end)
      /\ w.status = "ok" =>
            /\ IsRow(n, w.value)
            /\ \A k \in 1 .. n : \E q \in Nat : /\ At(tokens, end, q) /\ readers[k][q].status = "ok"
                                                /\ w.value[k] = readers[k][q].value
  BY <1>1, <1>5, EachStops
<1>7. ASSUME w.status = "ok", NEW k \in 1 .. n
      PROVE  w.value[k] \in BOOLEAN /\ (~root[k].optional => w.value[k])
  <2>1. PICK q \in Nat : At(tokens, end, q) /\ readers[k][q].status = "ok" /\ w.value[k] = readers[k][q].value
    BY <1>6, <1>7
  <2> QED BY <1>3, <1>4, <2>1
<1> QED BY <1>6, <1>7 DEF w, n, input

LEMMA TakeFieldsStops ==
  ASSUME NEW read, NEW shapes, NEW tokens, NEW got, ReadsInto(read, shapes, tokens, got),
         NEW root, AreParts(root, shapes), NEW there, NEW end, NEW p, At(tokens, end, p)
  PROVE  /\ Stops(TakeFields(root, there, Input(tokens, end), p, read), p, end)
         /\ TakeFields(root, there, Input(tokens, end), p, read).status = "ok" =>
              /\ AreGot(root, TakeFields(root, there, Input(tokens, end), p, read).value, got)
              /\ \A k \in 1 .. Len(root) :
                   there[k] => TakeFields(root, there, Input(tokens, end), p, read).value[k] # None
<1> DEFINE input == Input(tokens, end)
           n == Len(root)
           one(k, q) == IF there[k] THEN TakePart(root[k], end, q, read) ELSE Decoded(None, q)
           readers == [k \in DOMAIN root |-> [q \in Nat |-> one(k, q)]]
           w == TakeFields(root, there, input, p, read)
<1>1. w = TakeEach(readers, p)
  BY DEF TakeFields, Input
<1>2. n \in Nat /\ DOMAIN root = 1 .. n /\ \A k \in 1 .. n : root[k].type \in shapes
  BY DomainOf DEF AreParts
<1>3. ASSUME NEW k \in 1 .. n, NEW q \in Nat, At(tokens, end, q)
      PROVE  /\ Stops(one(k, q), q, end)
             /\ one(k, q).status = "ok" =>
                  IsGot(one(k, q).value, root[k].type, got) /\ (there[k] => one(k, q).value # None)
  <2>1. CASE there[k]
    <3>1. one(k, q) = TakePart(root[k], end, q, read)
      BY <2>1
    <3> HIDE DEF one
    <3>2. Stops(one(k, q), q, end) /\ (one(k, q).status = "ok" => \E v : one(k, q).value = Some(v) /\ <<root[k].type, v>> \in got)
      BY <1>2, <1>3, <3>1, TakePartStops
    <3>3. \A v : Some(v) # None
      BY DEF Some, None
    <3> QED BY <3>2, <3>3 DEF IsGot
  <2>2. CASE ~there[k]
    <3>1. one(k, q) = Decoded(None, q) /\ Decoded(None, q).value = None /\ q \in q .. end
      BY <1>3, <2>2, AtFacts DEF Decoded
    <3> HIDE DEF one
    <3> QED BY <2>2, <3>1, StopsFacts DEF IsGot
  <2> QED BY <2>1, <2>2
<1> HIDE DEF one
<1>4. IsRow(n, readers) /\ \A k \in 1 .. n : \A q \in Nat : readers[k][q] = one(k, q)
  BY <1>2 DEF IsRow
<1> HIDE DEF readers, input, n, w
<1>5. StopAt(n, readers, tokens, end)
  BY <1>2, <1>3, <1>4 DEF StopAt
<1>6. /\ Stops(w, p, end)
      /\ w.status = "ok" =>
            /\ IsRow(n, w.value)
            /\ \A k \in 1 .. n : \E q \in Nat : /\ At(tokens, end, q) /\ readers[k][q].status = "ok"
                                                /\ w.value[k] = readers[k][q].value
  BY <1>1, <1>5, EachStops
<1>7. ASSUME w.status = "ok", NEW k \in 1 .. n
      PROVE  IsGot(w.value[k], root[k].type, got) /\ (there[k] => w.value[k] # None)
  <2>1. PICK q \in Nat : At(tokens, end, q) /\ readers[k][q].status = "ok" /\ w.value[k] = readers[k][q].value
    BY <1>6, <1>7
  <2> QED BY <1>3, <1>4, <2>1
<1>8. w.status = "ok" => AreGot(root, w.value, got)
  BY <1>6, <1>7 DEF AreGot, n
<1> QED BY <1>6, <1>7, <1>8 DEF w, n, input

IsRead(t, v, got) ==
  /\ AreGot(t.root, v.root, got) /\ AreGot(t.more, v.more, got) /\ v = Struct(v.root, v.more)
  /\ \A k \in 1 .. Len(t.root) : ~t.root[k].optional => v.root[k] # None

LEMMA DecodeSequenceStops ==
  ASSUME NEW read, NEW shapes, NEW tokens, NEW got, ReadsInto(read, shapes, tokens, got),
         NEW t, AreParts(t.root, shapes), AreParts(t.more, shapes), t.extensible \in BOOLEAN,
         \A k \in 1 .. Len(t.root) : t.root[k].optional \in BOOLEAN,
         NEW end, NEW p, At(tokens, end, p)
  PROVE  /\ Stops(DecodeSequence(t, Input(tokens, end), p, read), p, end)
         /\ DecodeSequence(t, Input(tokens, end), p, read).status = "ok" =>
              IsRead(t, DecodeSequence(t, Input(tokens, end), p, read).value, got)
<1>0. IsSequence(t.root) /\ IsSequence(t.more)
  BY DEF AreParts
<1>d. \A x, q : Decoded(x, q).value = x
  BY DEF Decoded
<1> DEFINE input == Input(tokens, end)
           absent == [k \in DOMAIN t.more |-> None]
           a == TakeExtensionBit(t, input, p)
           b == IF a.value /\ t.more = <<>> THEN SkipAdditions(input, a.used) ELSE Decoded(None, a.used)
           c == TakePreamble(t.root, input, b.used)
           d == TakeFields(t.root, c.value, input, c.used, read)
           e == IF a.value /\ t.more # <<>> THEN TakeAdditions(t.more, input, d.used, read) ELSE Decoded(absent, d.used)
           f == Decoded(Struct(d.value, e.value), e.used)
           w5 == IF e.status = "ok" THEN f ELSE e
           w4 == IF d.status = "ok" THEN w5 ELSE d
           w3 == IF c.status = "ok" THEN w4 ELSE c
           w2 == IF b.status = "ok" THEN w3 ELSE b
           w  == DecodeSequence(t, input, p, read)
<1>1. w = IF a.status = "ok" THEN w2 ELSE a
  BY DEF DecodeSequence, Then
<1>2. Stops(a, p, end) /\ (a.status = "ok" => a.value \in BOOLEAN)
  BY ExtensionBitStops
<1>3. ASSUME At(tokens, end, a.used)
      PROVE  Stops(b, a.used, end)
  <2>1. Stops(SkipAdditions(input, a.used), a.used, end)
    BY <1>3, SkipAdditionsStops
  <2>2. Stops(Decoded(None, a.used), a.used, end)
    BY <1>3, AtFacts, StopsFacts
  <2> HIDE DEF a
  <2> QED BY <2>1, <2>2
<1>4. ASSUME At(tokens, end, b.used)
      PROVE  /\ Stops(c, b.used, end)
             /\ c.status = "ok" => \A k \in 1 .. Len(t.root) : ~t.root[k].optional => c.value[k]
  <2> HIDE DEF b
  <2> QED BY <1>0, <1>4, TakePreambleStops
<1>5. ASSUME At(tokens, end, c.used)
      PROVE  /\ Stops(d, c.used, end)
             /\ d.status = "ok" => /\ AreGot(t.root, d.value, got)
                                   /\ \A k \in 1 .. Len(t.root) : c.value[k] => d.value[k] # None
  <2> HIDE DEF c
  <2> QED BY <1>5, TakeFieldsStops
<1>6. ASSUME At(tokens, end, d.used)
      PROVE  /\ Stops(e, d.used, end)
             /\ e.status = "ok" => AreGot(t.more, e.value, got)
  <2> HIDE DEF d
  <2>1. Stops(TakeAdditions(t.more, input, d.used, read), d.used, end)
    BY <1>6, TakeAdditionsStops
  <2>2. TakeAdditions(t.more, input, d.used, read).status = "ok" =>
          AreGot(t.more, TakeAdditions(t.more, input, d.used, read).value, got)
    BY <1>6, TakeAdditionsStops
  <2>3. Stops(Decoded(absent, d.used), d.used, end)
    BY <1>6, AtFacts, StopsFacts
  <2>4. AreGot(t.more, absent, got)
    <3>1. DOMAIN t.more = 1 .. Len(t.more)
      BY <1>0, DomainOf
    <3> QED BY <3>1 DEF AreGot, IsGot, IsRow
  <2>5. Decoded(absent, d.used).value = absent
    BY <1>d
  <2> HIDE DEF a, absent
  <2> QED BY <2>1, <2>2, <2>3, <2>4, <2>5
<1>7. f.value = Struct(d.value, e.value) /\ f.value = Struct(f.value.root, f.value.more)
      /\ f.value.root = d.value /\ f.value.more = e.value
  <2> HIDE DEF d, e
  <2>1. f.value = Struct(d.value, e.value)
    BY <1>d
  <2> HIDE DEF f
  <2> QED BY <2>1 DEF Struct
<1>8. e.used \in e.used .. end => Stops(f, e.used, end)
  <2> HIDE DEF d, e
  <2> QED BY StopsFacts
<1> HIDE DEF a, b, c, d, e, f, w
<1>9. At(tokens, end, d.used) =>
        Stops(w5, d.used, end) /\ (w5.status = "ok" => w5 = f /\ AreGot(t.more, e.value, got))
  <2> SUFFICES ASSUME At(tokens, end, d.used)
               PROVE  Stops(w5, d.used, end) /\ (w5.status = "ok" => w5 = f /\ AreGot(t.more, e.value, got))
    OBVIOUS
  <2>1. (e.status # "ok" => w5 = e) /\ (e.status = "ok" => w5 = f)
    OBVIOUS
  <2>2. At(tokens, end, e.used) => Stops(f, e.used, end)
    BY <1>8, AtFacts
  <2>3. Stops(e, d.used, end)
    BY <1>6
  <2> HIDE DEF w5
  <2>4. Stops(w5, d.used, end) /\ (w5.status = "ok" => e.status = "ok" /\ w5 = f)
    BY <2>1, <2>2, <2>3, ThenIs
  <2> QED BY <1>6, <2>4
<1>10. At(tokens, end, c.used) =>
        /\ Stops(w4, c.used, end)
        /\ w4.status = "ok" => /\ w4 = f /\ AreGot(t.more, e.value, got) /\ AreGot(t.root, d.value, got)
                               /\ \A k \in 1 .. Len(t.root) : c.value[k] => d.value[k] # None
  <2> SUFFICES ASSUME At(tokens, end, c.used)
               PROVE  /\ Stops(w4, c.used, end)
                      /\ w4.status = "ok" => /\ w4 = f /\ AreGot(t.more, e.value, got) /\ AreGot(t.root, d.value, got)
                                             /\ \A k \in 1 .. Len(t.root) : c.value[k] => d.value[k] # None
    OBVIOUS
  <2>1. (d.status # "ok" => w4 = d) /\ (d.status = "ok" => w4 = w5)
    OBVIOUS
  <2>2. Stops(d, c.used, end)
    BY <1>5
  <2> HIDE DEF w5, w4
  <2>3. Stops(w4, c.used, end) /\ (w4.status = "ok" => d.status = "ok" /\ At(tokens, end, d.used) /\ w5.status = "ok" /\ w4 = w5)
    BY <1>9, <2>1, <2>2, ThenIs
  <2> QED BY <1>5, <1>9, <2>3
<1> HIDE DEF w5
<1>11. At(tokens, end, b.used) =>
        /\ Stops(w3, b.used, end)
        /\ w3.status = "ok" => /\ w3 = f /\ AreGot(t.more, e.value, got) /\ AreGot(t.root, d.value, got)
                               /\ \A k \in 1 .. Len(t.root) : ~t.root[k].optional => d.value[k] # None
  <2> SUFFICES ASSUME At(tokens, end, b.used)
               PROVE  /\ Stops(w3, b.used, end)
                      /\ w3.status = "ok" => /\ w3 = f /\ AreGot(t.more, e.value, got) /\ AreGot(t.root, d.value, got)
                                             /\ \A k \in 1 .. Len(t.root) : ~t.root[k].optional => d.value[k] # None
    OBVIOUS
  <2>1. (c.status # "ok" => w3 = c) /\ (c.status = "ok" => w3 = w4)
    OBVIOUS
  <2>2. Stops(c, b.used, end)
    BY <1>4
  <2> HIDE DEF w4, w3
  <2>3. Stops(w3, b.used, end) /\ (w3.status = "ok" => c.status = "ok" /\ At(tokens, end, c.used) /\ w4.status = "ok" /\ w3 = w4)
    BY <1>10, <2>1, <2>2, ThenIs
  <2> QED BY <1>4, <1>10, <2>3
<1> HIDE DEF w4
<1>12. At(tokens, end, a.used) =>
        /\ Stops(w2, a.used, end)
        /\ w2.status = "ok" => /\ w2 = f /\ AreGot(t.more, e.value, got) /\ AreGot(t.root, d.value, got)
                               /\ \A k \in 1 .. Len(t.root) : ~t.root[k].optional => d.value[k] # None
  <2> SUFFICES ASSUME At(tokens, end, a.used)
               PROVE  /\ Stops(w2, a.used, end)
                      /\ w2.status = "ok" => /\ w2 = f /\ AreGot(t.more, e.value, got) /\ AreGot(t.root, d.value, got)
                                             /\ \A k \in 1 .. Len(t.root) : ~t.root[k].optional => d.value[k] # None
    OBVIOUS
  <2>1. (b.status # "ok" => w2 = b) /\ (b.status = "ok" => w2 = w3)
    OBVIOUS
  <2>2. Stops(b, a.used, end)
    BY <1>3
  <2> HIDE DEF w3, w2
  <2>3. Stops(w2, a.used, end) /\ (w2.status = "ok" => b.status = "ok" /\ At(tokens, end, b.used) /\ w3.status = "ok" /\ w2 = w3)
    BY <1>11, <2>1, <2>2, ThenIs
  <2> QED BY <1>11, <2>3
<1> HIDE DEF w3
<1>13. (a.status # "ok" => w = a) /\ (a.status = "ok" => w = w2)
  BY <1>1
<1> HIDE DEF w2
<1>14. Stops(w, p, end) /\ (w.status = "ok" => a.status = "ok" /\ At(tokens, end, a.used) /\ w2.status = "ok" /\ w = w2)
  BY <1>2, <1>12, <1>13, ThenIs
<1>15. w.status = "ok" => IsRead(t, w.value, got)
  BY <1>7, <1>12, <1>14 DEF IsRead
<1> QED BY <1>14, <1>15 DEF w

LEMMA TakeAlternativeStops ==
  ASSUME NEW read, NEW shapes, NEW tokens, NEW got, ReadsInto(read, shapes, tokens, got),
         NEW t, NEW k, Parts(t)[k].type \in shapes, NEW end, NEW p, At(tokens, end, p)
  PROVE  /\ Stops(TakeAlternative(t, k, end, p, read), p, end)
         /\ TakeAlternative(t, k, end, p, read).status = "ok" =>
              \E v : TakeAlternative(t, k, end, p, read).value = Tagged(k, v) /\ <<Parts(t)[k].type, v>> \in got
<1> DEFINE w == TakeAlternative(t, k, end, p, read)
           s == Parts(t)[k].type
           x == read[<<s, end, p>>]
           y == Decoded(Tagged(k, x.value), x.used)
<1>1. Stops(x, p, end) /\ (x.status = "ok" => <<s, x.value>> \in got)
  <2>1. s \in shapes
    OBVIOUS
  <2> HIDE DEF s
  <2> QED BY <2>1, ReadStops
<1>2. (x.status # "ok" => w = x) /\ (x.status = "ok" => w = y)
  BY DEF TakeAlternative, Then
<1>3. At(tokens, end, x.used) => Stops(y, x.used, end)
  <2> HIDE DEF x
  <2> QED BY AtFacts, StopsFacts
<1>4. y.value = Tagged(k, x.value)
  BY DEF Decoded
<1> HIDE DEF w, x, y, s
<1>5. Stops(w, p, end) /\ (w.status = "ok" => x.status = "ok" /\ y.status = "ok" /\ w = y)
  BY <1>1, <1>2, <1>3, ThenIs
<1> QED BY <1>1, <1>4, <1>5 DEF w, s

(* An alternative and its value, or none. *)
IsChosen(t, v, got) ==
  v = Unset \/ \E k \in DOMAIN Parts(t) : \E z : v = Tagged(k, z) /\ <<Parts(t)[k].type, z>> \in got

LEMMA TakeAddedStops ==
  ASSUME NEW read, NEW shapes, NEW tokens, NEW got, ReadsInto(read, shapes, tokens, got),
         NEW t, IsSequence(t.root), IsSequence(t.more), \A k \in DOMAIN Parts(t) : Parts(t)[k].type \in shapes,
         NEW end, NEW p, At(tokens, end, p)
  PROVE  /\ Stops(TakeAddedAlternative(t, Input(tokens, end), p, read), p, end)
         /\ TakeAddedAlternative(t, Input(tokens, end), p, read).status = "ok" =>
              IsChosen(t, TakeAddedAlternative(t, Input(tokens, end), p, read).value, got)
<1> DEFINE input == Input(tokens, end)
           len == Len(t.more)
           x == Take(input, p, "small")
           k == Len(t.root) + x.value + 1
           o == TakeOpen(input, x.used)
           z == TakeAlternative(t, k, o.used, o.value, read)
           in == Then(z, LAMBDA v, u : Decoded(v, o.used))
           y2 == IF x.value >= len THEN Decoded(Unset, o.used) ELSE in
           y == IF o.status = "ok" THEN y2 ELSE o
           w == TakeAddedAlternative(t, input, p, read)
<1>1. (x.status # "ok" => w = x) /\ (x.status = "ok" => w = y)
  BY DEF TakeAddedAlternative, Then
<1>2. Stops(x, p, end) /\ (x.status = "ok" => x.value \in Nat)
  BY TakeStops, TakeKinds
<1>3. ASSUME At(tokens, end, x.used)
      PROVE  Stops(o, x.used, end) /\ (o.status = "ok" => o.used \in x.used .. end /\ o.value \in 0 .. o.used)
  <2> HIDE DEF x
  <2> QED BY <1>3, TakeOpenStops
<1>4. len \in Nat /\ Len(t.root) \in Nat /\ DOMAIN Parts(t) = 1 .. Len(t.root) + len
  BY DomainOf, PartsFacts
<1>5. ASSUME x.status = "ok", o.status = "ok", At(tokens, end, x.used), At(tokens, end, o.used)
      PROVE  Stops(y2, o.used, end) /\ (y2.status = "ok" => IsChosen(t, y2.value, got))
  <2>1. o.used \in o.used .. end
    BY <1>5, AtFacts
  <2>2. CASE x.value >= len
    <3>1. y2 = Decoded(Unset, o.used) /\ Decoded(Unset, o.used).value = Unset
      BY <2>2 DEF Decoded
    <3>2. Stops(Decoded(Unset, o.used), o.used, end)
      BY <2>1, StopsFacts
    <3> HIDE DEF y2
    <3> QED BY <3>1, <3>2 DEF IsChosen
  <2>3. CASE ~(x.value >= len)
    <3>0. y2 = in
      BY <2>3
    <3>1. k \in DOMAIN Parts(t)
      <4> HIDE DEF x, len
      <4>1. x.value < len /\ x.value \in Nat
        BY <1>2, <1>4, <1>5, <2>3
      <4> DEFINE n == Len(t.root)
      <4>2. n + x.value + 1 \in 1 .. n + len
        <5>1. n \in Nat
          BY <1>4
        <5> HIDE DEF n
        <5> QED BY <1>4, <4>1, <5>1
      <4> QED BY <1>4, <4>2
    <3>2. At(tokens, o.used, o.value)
      BY <1>3, <1>5 DEF At
    <3>3. /\ Stops(z, o.value, o.used)
          /\ z.status = "ok" => \E v : z.value = Tagged(k, v) /\ <<Parts(t)[k].type, v>> \in got
      <4>1. Parts(t)[k].type \in shapes
        BY <3>1
      <4> HIDE DEF k, o
      <4> QED BY <3>2, <4>1, TakeAlternativeStops
    <3> HIDE DEF z, k
    <3>4. (z.status # "ok" => in = z) /\ (z.status = "ok" => in = Decoded(z.value, o.used))
      BY DEF Then
    <3> HIDE DEF y2, in, o, x
    <3>5. CASE z.status = "ok"
      <4>1. y2.value = z.value /\ y2 = Decoded(z.value, o.used)
        BY <3>0, <3>4, <3>5 DEF Decoded
      <4>2. Stops(y2, o.used, end)
        BY <2>1, <4>1, StopsFacts
      <4> QED BY <3>1, <3>3, <3>5, <4>1, <4>2 DEF IsChosen
    <3>6. CASE z.status # "ok"
      <4>1. y2 = z /\ z.status \in Errors /\ z = Failed(z.status)
        BY <3>0, <3>3, <3>4, <3>6 DEF Stops
      <4> QED BY <3>6, <4>1, StopsFacts
    <3> QED BY <3>5, <3>6
  <2> QED BY <2>2, <2>3
<1>6. (o.status # "ok" => y = o) /\ (o.status = "ok" => y = y2)
  OBVIOUS
<1> HIDE DEF w, x, y, y2, o
<1>7. ASSUME x.status = "ok", At(tokens, end, x.used)
      PROVE  Stops(y, x.used, end) /\ (y.status = "ok" => IsChosen(t, y.value, got))
  <2>1. Stops(o, x.used, end)
    BY <1>3, <1>7
  <2>2. Stops(y, x.used, end) /\ (y.status = "ok" => o.status = "ok" /\ At(tokens, end, o.used) /\ y2.status = "ok" /\ y = y2)
    BY <1>5, <1>6, <1>7, <2>1, ThenIs
  <2> QED BY <1>5, <1>7, <2>2
<1>8. Stops(w, p, end) /\ (w.status = "ok" => x.status = "ok" /\ At(tokens, end, x.used) /\ y.status = "ok" /\ w = y)
  BY <1>1, <1>2, <1>7, ThenIs
<1> QED BY <1>7, <1>8 DEF w

(* A value of its type, with such values in it. *)
Fits(types, t, v, got) == IsTyped(t, v) /\ Inside(types, <<t, v>>) \subseteq got

LEMMA SequenceFits ==
  ASSUME NEW types, NEW t, NEW v, NEW got, t.kind = "Sequence", IsSequence(t.root), IsSequence(t.more),
         \A k \in 1 .. Len(t.root) : t.root[k].optional \in BOOLEAN, IsRead(t, v, got)
  PROVE  Fits(types, t, v, got)
<1>1. DOMAIN t.root = 1 .. Len(t.root) /\ DOMAIN t.more = 1 .. Len(t.more) /\ Len(t.root) \in Nat /\ Len(t.more) \in Nat
  BY DomainOf
<1>2. ASSUME NEW parts, NEW values, IsSequence(parts), DOMAIN parts = 1 .. Len(parts), Len(parts) \in Nat,
             AreGot(parts, values, got)
      PROVE  AreHeld(parts, values) /\ Held(parts, values) \subseteq got
  <2> DEFINE n == Len(parts)
  <2>1. IsRow(n, values) /\ \A k \in 1 .. n : IsGot(values[k], parts[k].type, got)
    BY <1>2 DEF AreGot
  <2>0. n \in Nat /\ DOMAIN parts = 1 .. n
    BY <1>2
  <2> HIDE DEF n
  <2>2. Len(values) = n /\ IsSequence(values) /\ DOMAIN values = 1 .. n
    <3>1. \A k \in 1 .. n : values[k] = values[k]
      OBVIOUS
    <3>2. Len(values) = n
      BY <2>0, <2>1, SequenceOf
    <3> QED BY <2>0, <2>1, <3>2 DEF IsRow, IsSequence
  <2>3. \A k \in 1 .. n : values[k] = None \/ (values[k] = Some(values[k][1]) /\ <<parts[k].type, values[k][1]>> \in got)
    <3> TAKE k \in 1 .. n
    <3>1. CASE values[k] = None
      BY <3>1
    <3>2. CASE values[k] # None
      <4>1. PICK z : values[k] = Some(z) /\ <<parts[k].type, z>> \in got
        BY <2>1, <3>2 DEF IsGot
      <4>2. Some(z)[1] = z
        BY DEF Some
      <4> QED BY <4>1, <4>2
    <3> QED BY <3>1, <3>2
  <2>4. AreHeld(parts, values)
    BY <2>2, <2>3 DEF AreHeld, n
  <2>5. Held(parts, values) \subseteq got
    BY <2>0, <2>2, <2>3 DEF Held
  <2> QED BY <2>4, <2>5
<1>3. /\ AreGot(t.root, v.root, got) /\ AreGot(t.more, v.more, got) /\ v = Struct(v.root, v.more)
      /\ \A k \in 1 .. Len(t.root) : ~t.root[k].optional => v.root[k] # None
  BY DEF IsRead
<1>4. AreHeld(t.root, v.root) /\ Held(t.root, v.root) \subseteq got
  BY <1>1, <1>2, <1>3
<1>5. AreHeld(t.more, v.more) /\ Held(t.more, v.more) \subseteq got
  BY <1>1, <1>2, <1>3
<1>6. Inside(types, <<t, v>>) = Held(t.root, v.root) \union Held(t.more, v.more)
  BY DEF Inside
<1>7. ~IsEmpty(t)
  BY DEF IsEmpty
<1>8. \A k \in DOMAIN t.root : t.root[k].optional \/ v.root[k] # None
  BY <1>1, <1>3
<1>9. IsTyped(t, v)
  BY <1>3, <1>4, <1>5, <1>7, <1>8 DEF IsTyped
<1> QED BY <1>4, <1>5, <1>6, <1>9 DEF Fits

LEMMA ChoiceFits ==
  ASSUME NEW types, NEW t, NEW v, NEW got, t.kind = "Choice", IsSequence(t.root), IsSequence(t.more),
         t.root # <<>>, t.extensible \in BOOLEAN, ~t.extensible => t.more = <<>>, IsChosen(t, v, got)
  PROVE  Fits(types, t, v, got)
<1>0. DOMAIN Parts(t) = 1 .. Len(t.root) + Len(t.more) /\ Len(t.root) \in Nat /\ Len(t.more) \in Nat
  BY PartsFacts
<1>1. ~IsEmpty(t)
  BY DEF IsEmpty
<1>2. CASE v = Unset
  <2>1. v = Tagged(v[1], v[2]) /\ v[1] = 0
    BY <1>2 DEF Unset, Tagged
  <2>2. v[1] \notin DOMAIN Parts(t)
    <3> DEFINE n == Len(t.root) + Len(t.more)
    <3>1. DOMAIN Parts(t) = 1 .. n
      BY <1>0
    <3> HIDE DEF n
    <3>2. 0 \notin 1 .. n
      BY SMT
    <3> QED BY <2>1, <3>1, <3>2
  <2>3. IsTyped(t, v) /\ IsUnion(t, v)
    BY <1>1, <2>1 DEF IsTyped, IsUnion
  <2>4. Inside(types, <<t, v>>) = {}
    BY <2>2, <2>3, ChoiceInside
  <2> QED BY <2>3, <2>4 DEF Fits
<1>3. CASE v # Unset
  <2>1. PICK k, z : k \in DOMAIN Parts(t) /\ v = Tagged(k, z) /\ <<Parts(t)[k].type, z>> \in got
    BY <1>3 DEF IsChosen
  <2>2. v = Tagged(v[1], v[2]) /\ v[1] = k /\ v[2] = z
    BY <2>1 DEF Tagged
  <2>3. v[1] \in Nat /\ v[1] \in DOMAIN Parts(t)
    <3> DEFINE n == Len(t.root) + Len(t.more)
    <3>1. DOMAIN Parts(t) = 1 .. n
      BY <1>0
    <3> HIDE DEF n
    <3>2. k \in Nat
      BY <2>1, <3>1
    <3> QED BY <2>1, <2>2, <3>2
  <2>4. IsTyped(t, v) /\ IsUnion(t, v)
    BY <1>1, <2>2, <2>3 DEF IsTyped, IsUnion
  <2>5. Inside(types, <<t, v>>) = {<<Parts(t)[v[1]].type, v[2]>>}
    BY <2>3, <2>4, ChoiceInside
  <2> QED BY <2>1, <2>2, <2>4, <2>5 DEF Fits
<1> QED BY <1>2, <1>3

LEMMA NonEmpty == ASSUME NEW s, IsSequence(s), s # <<>> PROVE Len(s) \in Nat \ {0}
<1>1. Len(s) \in Nat /\ s = [k \in 1 .. Len(s) |-> s[k]]
  BY DEF IsSequence
<1>2. CASE Len(s) = 0
  <2>1. s = [k \in 1 .. 0 |-> s[k]]
    BY <1>1, <1>2
  <2>2. s = <<>>
    BY <2>1
  <2> QED BY <2>2
<1> QED BY <1>1, <1>2

LEMMA DecodeChoiceStops ==
  ASSUME NEW read, NEW shapes, NEW tokens, NEW got, ReadsInto(read, shapes, tokens, got),
         NEW t, IsSequence(t.root), IsSequence(t.more), \A k \in DOMAIN Parts(t) : Parts(t)[k].type \in shapes,
         t.root # <<>>, t.extensible \in BOOLEAN, NEW end, NEW p, At(tokens, end, p)
  PROVE  /\ Stops(DecodeChoice(t, Input(tokens, end), p, read), p, end)
         /\ DecodeChoice(t, Input(tokens, end), p, read).status = "ok" =>
              IsChosen(t, DecodeChoice(t, Input(tokens, end), p, read).value, got)
<1> DEFINE input == Input(tokens, end)
           n == Len(t.root)
           x == TakeExtensionBit(t, input, p)
           o == TakeIndex(n, input, x.used)
           z == TakeAlternative(t, o.value, end, o.used, read)
           y2 == IF o.status = "ok" THEN z ELSE o
           y1 == TakeAddedAlternative(t, input, x.used, read)
           y == IF x.value THEN y1 ELSE y2
           w == DecodeChoice(t, input, p, read)
<1>1. w = IF x.status = "ok" THEN y ELSE x
  BY DEF DecodeChoice, Then, Input
<1>2. Stops(x, p, end) /\ (x.status = "ok" => x.value \in BOOLEAN)
  BY ExtensionBitStops
<1>3. n \in Nat \ {0} /\ DOMAIN Parts(t) = 1 .. n + Len(t.more) /\ Len(t.more) \in Nat
  BY PartsFacts, NonEmpty
<1>4. ASSUME At(tokens, end, x.used)
      PROVE  Stops(y1, x.used, end) /\ (y1.status = "ok" => IsChosen(t, y1.value, got))
  <2> HIDE DEF x
  <2> QED BY <1>4, TakeAddedStops
<1>5. ASSUME At(tokens, end, x.used)
      PROVE  Stops(o, x.used, end) /\ (o.status = "ok" => o.value \in 1 .. n)
  <2> HIDE DEF x, n
  <2> QED BY <1>3, <1>5, TakeIndexStops
<1>6. ASSUME o.value \in 1 .. n, At(tokens, end, o.used)
      PROVE  Stops(z, o.used, end) /\ (z.status = "ok" => IsChosen(t, z.value, got))
  <2> HIDE DEF o, n
  <2>1. o.value \in DOMAIN Parts(t)
    <3> DEFINE m == Len(t.more)
    <3>1. m \in Nat /\ DOMAIN Parts(t) = 1 .. n + m
      BY <1>3
    <3> HIDE DEF m
    <3> QED BY <1>3, <1>6, <3>1
  <2>2. Stops(z, o.used, end) /\ (z.status = "ok" => \E v : z.value = Tagged(o.value, v) /\ <<Parts(t)[o.value].type, v>> \in got)
    <3> DEFINE j == o.value
               q == o.used
    <3>1. Parts(t)[j].type \in shapes /\ At(tokens, end, q) /\ z = TakeAlternative(t, j, end, q, read)
      BY <1>6, <2>1
    <3> HIDE DEF j, q, z
    <3>2. Stops(z, q, end) /\ (z.status = "ok" => \E v : z.value = Tagged(j, v) /\ <<Parts(t)[j].type, v>> \in got)
      BY <3>1, TakeAlternativeStops
    <3> QED BY <3>2 DEF j, q
  <2> HIDE DEF z
  <2> QED BY <2>1, <2>2 DEF IsChosen
<1> HIDE DEF x, o, z, y1, w
<1>7. ASSUME x.status = "ok", At(tokens, end, x.used)
      PROVE  Stops(y2, x.used, end) /\ (y2.status = "ok" => IsChosen(t, y2.value, got))
  <2>1. (o.status # "ok" => y2 = o) /\ (o.status = "ok" => y2 = z)
    OBVIOUS
  <2>2. Stops(o, x.used, end)
    BY <1>5, <1>7
  <2>3. o.status = "ok" => (At(tokens, end, o.used) => Stops(z, o.used, end))
    BY <1>5, <1>6, <1>7
  <2> HIDE DEF y2
  <2>4. Stops(y2, x.used, end) /\ (y2.status = "ok" => o.status = "ok" /\ At(tokens, end, o.used) /\ z.status = "ok" /\ y2 = z)
    BY <1>7, <2>1, <2>2, <2>3, ThenIs
  <2> QED BY <1>5, <1>6, <1>7, <2>4
<1> HIDE DEF y2
<1>8. (x.status # "ok" => w = x) /\ (x.status = "ok" => w = y)
  BY <1>1
<1>9. ASSUME x.status = "ok", At(tokens, end, x.used)
      PROVE  Stops(y, x.used, end) /\ (y.status = "ok" => IsChosen(t, y.value, got))
  BY <1>4, <1>7, <1>9
<1> HIDE DEF y
<1>10. Stops(w, p, end) /\ (w.status = "ok" => x.status = "ok" /\ At(tokens, end, x.used) /\ y.status = "ok" /\ w = y)
  BY <1>2, <1>8, <1>9, ThenIs
<1> QED BY <1>9, <1>10 DEF w

LEMMA DecodeEnumeratedStops ==
  ASSUME NEW t, IsSequence(t.root), t.root # <<>>, t.extensible \in BOOLEAN,
         NEW tokens, NEW end, NEW p, At(tokens, end, p)
  PROVE  Stops(DecodeEnumerated(t, Input(tokens, end), p), p, end)
<1> DEFINE input == Input(tokens, end)
           n == Len(t.root)
           x == TakeExtensionBit(t, input, p)
           a == Take(input, x.used, "small")
           b == Decoded(IF a.value < Len(t.more) THEN t.more[a.value + 1].value ELSE UnknownItem(a.value), a.used)
           y1 == IF a.status = "ok" THEN b ELSE a
           c == TakeIndex(n, input, x.used)
           d == Decoded(t.root[c.value].value, c.used)
           y2 == IF c.status = "ok" THEN d ELSE c
           y == IF x.value THEN y1 ELSE y2
           w == DecodeEnumerated(t, input, p)
<1>1. w = IF x.status = "ok" THEN y ELSE x
  BY DEF DecodeEnumerated, Then
<1>2. Stops(x, p, end) /\ (x.status = "ok" => x.value \in BOOLEAN)
  BY ExtensionBitStops
<1>3. n \in Nat \ {0}
  BY DomainOf, NonEmpty
<1>4. At(tokens, end, x.used) => Stops(a, x.used, end) /\ Stops(c, x.used, end)
  <2> HIDE DEF x, n
  <2> QED BY <1>3, TakeStops, TakeIndexStops
<1>5. (At(tokens, end, a.used) => Stops(b, a.used, end)) /\ (At(tokens, end, c.used) => Stops(d, c.used, end))
  <2> HIDE DEF a, c
  <2> QED BY AtFacts, StopsFacts
<1> HIDE DEF x, a, b, c, d, w
<1>6. (a.status # "ok" => y1 = a) /\ (a.status = "ok" => y1 = b) /\ (c.status # "ok" => y2 = c) /\ (c.status = "ok" => y2 = d)
  OBVIOUS
<1> HIDE DEF y1, y2
<1>7. ASSUME At(tokens, end, x.used) PROVE Stops(y1, x.used, end)
  BY <1>4, <1>5, <1>6, <1>7, ThenIs
<1>8. ASSUME At(tokens, end, x.used) PROVE Stops(y2, x.used, end)
  BY <1>4, <1>5, <1>6, <1>8, ThenIs
<1>9. At(tokens, end, x.used) => Stops(y, x.used, end)
  BY <1>7, <1>8
<1>10. (x.status # "ok" => w = x) /\ (x.status = "ok" => w = y)
  BY <1>1
<1> HIDE DEF y
<1>11. Stops(w, p, end)
  BY <1>2, <1>9, <1>10, ThenIs
<1> QED BY <1>11 DEF w

(* A list of such values. *)
IsList(t, v, got) == \E n \in Nat : IsRow(n, v) /\ \A k \in 1 .. n : <<t.of, v[k]>> \in got

LEMMA ListFits ==
  ASSUME NEW types, NEW t, NEW v, NEW got, t.kind = "ListOf", IsList(t, v, got)
  PROVE  Fits(types, t, v, got)
<1>1. PICK n \in Nat : IsRow(n, v) /\ \A k \in 1 .. n : <<t.of, v[k]>> \in got
  BY DEF IsList
<1>2. IsSequence(v) /\ DOMAIN v = 1 .. n
  BY <1>1, SequenceOf
<1>3. Inside(types, <<t, v>>) = {<<t.of, v[k]>> : k \in DOMAIN v}
  BY DEF Inside
<1>4. Inside(types, <<t, v>>) \subseteq got
  BY <1>1, <1>2, <1>3
<1>5. ~IsEmpty(t)
  BY DEF IsEmpty
<1> QED BY <1>2, <1>4, <1>5 DEF Fits, IsTyped

LEMMA DecodeListStops ==
  ASSUME NEW read, NEW shapes, NEW tokens, NEW got, ReadsInto(read, shapes, tokens, got),
         NEW t, t.of \in shapes, t.sized \in BOOLEAN, t.sized => SizeOf(t.lb) \in Nat,
         NEW end, NEW p, At(tokens, end, p)
  PROVE  /\ Stops(DecodeList(t, Input(tokens, end), p, read), p, end)
         /\ DecodeList(t, Input(tokens, end), p, read).status = "ok" =>
              IsList(t, DecodeList(t, Input(tokens, end), p, read).value, got)
<1> DEFINE input == Input(tokens, end)
           a == Take(input, p, "length")
           b == Decoded(SizeOf(t.lb), p)
           c == Take(input, p, "size")
           x == CASE ~t.sized               -> a
                  [] t.sized /\ t.lb = t.ub -> b
                  [] t.sized /\ t.lb # t.ub -> c
           n == x.value
           readers == [k \in 1 .. n |-> [q \in Nat |-> read[<<t.of, end, q>>]]]
           y == TakeEach(readers, x.used)
           w == DecodeList(t, input, p, read)
<1>1. (x.status # "ok" => w = x) /\ (x.status = "ok" => w = y)
  <2>1. w = Then(x, LAMBDA m, at : TakeEach([k \in 1 .. m |-> [q \in Nat |-> read[<<t.of, end, q>>]]], at))
    BY DEF DecodeList, Input, Then
  <2> HIDE DEF x
  <2> QED BY <2>1 DEF Then
<1>2. Stops(x, p, end) /\ (x.status = "ok" => x.value \in Nat)
  <2>1. Stops(a, p, end) /\ Stops(c, p, end)
    BY TakeStops
  <2>2. (a.status = "ok" => a.value \in Nat) /\ (c.status = "ok" => c.value \in Nat)
    BY TakeKinds
  <2>3. Stops(b, p, end) /\ b.value = SizeOf(t.lb)
    BY AtFacts, StopsFacts DEF Decoded
  <2> HIDE DEF a, b, c
  <2>4. (~t.sized => x = a) /\ (t.sized /\ t.lb = t.ub => x = b) /\ (t.sized /\ t.lb # t.ub => x = c)
    OBVIOUS
  <2> HIDE DEF x
  <2> QED BY <2>1, <2>2, <2>3, <2>4
<1>3. ASSUME x.status = "ok", At(tokens, end, x.used)
      PROVE  Stops(y, x.used, end) /\ (y.status = "ok" => IsList(t, y.value, got))
  <2>1. n \in Nat
    BY <1>2, <1>3
  <2>2. IsRow(n, readers) /\ \A k \in 1 .. n : \A q \in Nat : readers[k][q] = read[<<t.of, end, q>>]
    BY DEF IsRow
  <2> DEFINE of == t.of
  <2>3. of \in shapes /\ \A k \in 1 .. n : \A q \in Nat : readers[k][q] = read[<<of, end, q>>]
    BY <2>2
  <2> HIDE DEF readers, n, x, of
  <2>4. \A q \in Nat : At(tokens, end, q) =>
          /\ Stops(read[<<of, end, q>>], q, end)
          /\ read[<<of, end, q>>].status = "ok" => <<of, read[<<of, end, q>>].value>> \in got
    BY <2>3, ReadStops
  <2>5. StopAt(n, readers, tokens, end)
    BY <2>1, <2>2, <2>3, <2>4 DEF StopAt
  <2>6. /\ Stops(y, x.used, end)
        /\ y.status = "ok" =>
              /\ IsRow(n, y.value)
              /\ \A k \in 1 .. n : \E q \in Nat : /\ At(tokens, end, q) /\ readers[k][q].status = "ok"
                                                  /\ y.value[k] = readers[k][q].value
    BY <1>3, <2>5, EachStops
  <2> HIDE DEF y
  <2>7. ASSUME y.status = "ok", NEW k \in 1 .. n
        PROVE  <<of, y.value[k]>> \in got
    <3>1. PICK q \in Nat : At(tokens, end, q) /\ readers[k][q].status = "ok" /\ y.value[k] = readers[k][q].value
      BY <2>6, <2>7
    <3> QED BY <2>3, <2>4, <3>1
  <2>8. y.status = "ok" => IsList(t, y.value, got)
    BY <2>1, <2>6, <2>7 DEF IsList, of
  <2> QED BY <2>6, <2>8
<1> HIDE DEF w, x, y
<1>4. Stops(w, p, end) /\ (w.status = "ok" => x.status = "ok" /\ At(tokens, end, x.used) /\ y.status = "ok" /\ w = y)
  BY <1>1, <1>2, <1>3, ThenIs
<1> QED BY <1>3, <1>4 DEF w

(* Whatever is read, the method for a type stops, with a value of it. *)
LEMMA DecodeUPERStops ==
  ASSUME NEW package, NEW types, InPackage(package, types), NEW t \in Shapes[package],
         NEW read, NEW tokens, NEW got, ReadsInto(read, Shapes[package], tokens, got),
         NEW end, NEW p, At(tokens, end, p)
  PROVE  /\ Stops(DecodeUPER(types, t, Input(tokens, end), p, read), p, end)
         /\ DecodeUPER(types, t, Input(tokens, end), p, read).status = "ok" =>
              Fits(types, t, DecodeUPER(types, t, Input(tokens, end), p, read).value, got)
<1> DEFINE input == Input(tokens, end)
           shapes == Shapes[package]
           w == DecodeUPER(types, t, input, p, read)
<1>0. IsShape(package, t)
  BY PduAssumption DEF InPackage
<1>1. CASE t.kind = "Ref"
  <2> DEFINE s == types[t.name]
  <2>1. s \in Shapes[package]
    BY <1>0, <1>1 DEF InPackage, IsShape
  <2>2. w = read[<<s, end, p>>]
    BY <1>1 DEF DecodeUPER, Input
  <2>3. \A v : Inside(types, <<t, v>>) = {<<s, v>>}
    BY <1>1, InsideCases
  <2>4. \A v : IsTyped(t, v)
    BY <1>1 DEF IsTyped, IsEmpty
  <2> HIDE DEF s, w
  <2>5. Stops(w, p, end) /\ (w.status = "ok" => <<s, w.value>> \in got)
    BY <2>1, <2>2, ReadStops
  <2>6. w.status = "ok" => Fits(types, t, w.value, got)
    BY <2>3, <2>4, <2>5 DEF Fits
  <2> QED BY <2>5, <2>6 DEF w
<1>2. CASE t.kind = "Sequence"
  <2>1. w = DecodeSequence(t, input, p, read)
    BY <1>2 DEF DecodeUPER
  <2>2. /\ IsSequence(t.root) /\ IsSequence(t.more) /\ t.extensible \in BOOLEAN
        /\ \A k \in DOMAIN t.root : t.root[k].optional \in BOOLEAN
        /\ \A k \in DOMAIN Parts(t) : Parts(t)[k].type \in Shapes[package]
    BY <1>0, <1>2 DEF IsShape
  <2>3. /\ Len(t.root) \in Nat /\ Len(t.more) \in Nat
        /\ DOMAIN Parts(t) = 1 .. Len(t.root) + Len(t.more)
        /\ \A k \in 1 .. Len(t.root) : Parts(t)[k] = t.root[k]
        /\ \A k \in 1 .. Len(t.more) : Parts(t)[Len(t.root) + k] = t.more[k]
    BY <2>2, PartsFacts
  <2>4. AreParts(t.root, Shapes[package]) /\ AreParts(t.more, Shapes[package])
    <3> DEFINE n == Len(t.root)
               m == Len(t.more)
    <3>1. n \in Nat /\ m \in Nat /\ DOMAIN Parts(t) = 1 .. n + m
      BY <2>3
    <3>2. (\A k \in 1 .. n : Parts(t)[k] = t.root[k]) /\ (\A k \in 1 .. m : Parts(t)[n + k] = t.more[k])
      BY <2>3
    <3> HIDE DEF n, m
    <3>3. \A k \in 1 .. n : k \in 1 .. n + m
      BY <3>1
    <3>4. \A k \in 1 .. m : n + k \in 1 .. n + m
      BY <3>1
    <3>5. \A k \in 1 .. n : t.root[k].type \in Shapes[package]
      BY <2>2, <3>1, <3>2, <3>3
    <3>6. \A k \in 1 .. m : t.more[k].type \in Shapes[package]
      BY <2>2, <3>1, <3>2, <3>4
    <3> QED BY <2>2, <3>5, <3>6 DEF AreParts, n, m
  <2>5. \A k \in 1 .. Len(t.root) : t.root[k].optional \in BOOLEAN
    BY <2>2, DomainOf
  <2>6. Stops(w, p, end) /\ (w.status = "ok" => IsRead(t, w.value, got))
    BY <2>1, <2>2, <2>4, <2>5, DecodeSequenceStops
  <2> HIDE DEF w
  <2>7. w.status = "ok" => Fits(types, t, w.value, got)
    BY <1>2, <2>2, <2>5, <2>6, SequenceFits
  <2> QED BY <2>6, <2>7 DEF w
<1>3. CASE t.kind = "Choice"
  <2>1. w = DecodeChoice(t, input, p, read)
    BY <1>3 DEF DecodeUPER
  <2>2. /\ IsSequence(t.root) /\ IsSequence(t.more) /\ t.extensible \in BOOLEAN
        /\ t.root # <<>> /\ (~t.extensible => t.more = <<>>)
        /\ \A k \in DOMAIN Parts(t) : Parts(t)[k].type \in Shapes[package]
    BY <1>0, <1>3 DEF IsShape
  <2>3. Stops(w, p, end) /\ (w.status = "ok" => IsChosen(t, w.value, got))
    BY <2>1, <2>2, DecodeChoiceStops
  <2> HIDE DEF w
  <2>4. w.status = "ok" => Fits(types, t, w.value, got)
    BY <1>3, <2>2, <2>3, ChoiceFits
  <2> QED BY <2>3, <2>4 DEF w
<1>4. CASE t.kind = "Enumerated"
  <2>1. w = DecodeEnumerated(t, input, p)
    BY <1>4 DEF DecodeUPER
  <2>2. IsSequence(t.root) /\ t.root # <<>> /\ t.extensible \in BOOLEAN
    BY <1>0, <1>4 DEF IsShape
  <2>3. Stops(w, p, end)
    BY <2>1, <2>2, DecodeEnumeratedStops
  <2>4. \A v : IsTyped(t, v) /\ Inside(types, <<t, v>>) = {}
    BY <1>4, InsideCases DEF IsTyped, IsEmpty
  <2> QED BY <2>3, <2>4 DEF Fits
<1>5. CASE t.kind = "ListOf"
  <2>1. w = DecodeList(t, input, p, read)
    BY <1>5 DEF DecodeUPER
  <2>2. t.of \in Shapes[package] /\ t.sized \in BOOLEAN /\ (t.sized => SizeOf(t.lb) \in Nat)
    BY <1>0, <1>5 DEF IsShape
  <2>3. Stops(w, p, end) /\ (w.status = "ok" => IsList(t, w.value, got))
    BY <2>1, <2>2, DecodeListStops
  <2> HIDE DEF w
  <2>4. w.status = "ok" => Fits(types, t, w.value, got)
    BY <1>5, <2>3, ListFits
  <2> QED BY <2>3, <2>4 DEF w
<1>6. CASE t.kind = "Boolean"
  <2>1. w = Take(input, p, "bit")
    BY <1>6 DEF DecodeUPER
  <2>2. Stops(w, p, end) /\ (w.status = "ok" => w.value \in BOOLEAN)
    BY <2>1, TakeStops, TakeKinds
  <2>3. \A v : v \in BOOLEAN => IsTyped(t, v)
    BY <1>6 DEF IsTyped, IsEmpty
  <2>4. \A v : Inside(types, <<t, v>>) = {}
    BY <1>6, InsideCases
  <2> HIDE DEF w
  <2> QED BY <2>2, <2>3, <2>4 DEF Fits, w
<1>7. CASE t.kind \notin Compound
  <2>1. w = IF IsEmpty(t) THEN Decoded("least", p) ELSE TakeAs(input, p, "value", t)
    BY <1>7 DEF DecodeUPER, Compound
  <2>2. Stops(Decoded("least", p), p, end) /\ Stops(TakeAs(input, p, "value", t), p, end) /\ Decoded("least", p).value = "least"
    BY AtFacts, StopsFacts, TakeAsStops DEF Decoded
  <2>3. Stops(w, p, end) /\ (IsEmpty(t) => w.value = "least")
    BY <2>1, <2>2
  <2>4. \A v : (IsEmpty(t) => v = "least") => IsTyped(t, v)
    BY <1>7 DEF IsTyped, Compound
  <2>5. \A v : Inside(types, <<t, v>>) = {}
    BY <1>7, InsideCases DEF Compound
  <2> HIDE DEF w
  <2> QED BY <2>3, <2>4, <2>5 DEF Fits, w
<1> QED BY <1>1, <1>2, <1>3, <1>4, <1>5, <1>6, <1>7 DEF Compound

-----------------------------------------------------------------------------
(* What one call more reaches, is what is inside and what that reaches.    *)
LEMMA NestGrows ==
  ASSUME NEW types, NEW x, NEW n \in Nat
  PROVE  /\ Level(types, x, n + 1) = UNION {Level(types, y, n) : y \in Inside(types, x)}
         /\ Nest(types, x, n + 1) = {x} \union UNION {Nest(types, y, n) : y \in Inside(types, x)}
<1> DEFINE inside == Inside(types, x)
           H(y) == CHOOSE h : AreReached(h, types, y, n)
<1>0. n + 1 \in Nat
  OBVIOUS
<1>1. PICK g : AreReached(g, types, x, n + 1)
  BY <1>0, ReachedDefined
<1>2. \A y : AreReached(H(y), types, y, n)
  BY ReachedDefined
<1> HIDE DEF H
<1>3. /\ g[0].last = {x} /\ Level(types, x, n + 1) = g[n + 1].last
      /\ \A k \in 0 .. n + 1 : g[k].last \subseteq Nest(types, x, n + 1)
      /\ \A k \in 0 .. n : g[k + 1].last = UNION {Inside(types, z) : z \in g[k].last}
      /\ \A z \in Nest(types, x, n + 1) : \E k \in 0 .. n + 1 : z \in g[k].last
  <2>1. g[0] = [last |-> {x}, all |-> {x}]
    BY <1>1 DEF AreReached
  <2>2. g[0].last = {x}
    BY <2>1
  <2>3. /\ Level(types, x, n + 1) = g[n + 1].last
        /\ \A k \in 0 .. n + 1 : g[k].last \subseteq Nest(types, x, n + 1)
        /\ \A k \in 0 .. n + 1 : k < n + 1 => g[k + 1].last = UNION {Inside(types, z) : z \in g[k].last}
        /\ \A z \in Nest(types, x, n + 1) : \E k \in 0 .. n + 1 : z \in g[k].last
    BY <1>0, <1>1, NestFacts
  <2>4. \A k \in 0 .. n : k \in 0 .. n + 1 /\ k < n + 1
    OBVIOUS
  <2> QED BY <2>2, <2>3, <2>4
<1>4. ASSUME NEW y
      PROVE  /\ H(y)[0].last = {y} /\ Level(types, y, n) = H(y)[n].last
             /\ \A k \in 0 .. n : H(y)[k].last \subseteq Nest(types, y, n)
             /\ \A k \in 0 .. n : k < n => H(y)[k + 1].last = UNION {Inside(types, z) : z \in H(y)[k].last}
             /\ \A z \in Nest(types, y, n) : \E k \in 0 .. n : z \in H(y)[k].last
  <2> DEFINE h == H(y)
  <2>0. AreReached(h, types, y, n)
    BY <1>2
  <2> HIDE DEF h
  <2>1. h[0] = [last |-> {y}, all |-> {y}]
    BY <2>0 DEF AreReached
  <2>2. h[0].last = {y}
    BY <2>1
  <2>3. /\ Level(types, y, n) = h[n].last
        /\ \A k \in 0 .. n : h[k].last \subseteq Nest(types, y, n)
        /\ \A k \in 0 .. n : k < n => h[k + 1].last = UNION {Inside(types, z) : z \in h[k].last}
        /\ \A z \in Nest(types, y, n) : \E k \in 0 .. n : z \in h[k].last
    BY <2>0, NestFacts
  <2> QED BY <2>2, <2>3 DEF h
<1> DEFINE Same(k) == g[k + 1].last = UNION {H(y)[k].last : y \in inside}
           S == {k \in Nat : Same(k)}
<1>5. 0 \in S
  <2>1. g[0 + 1].last = UNION {Inside(types, z) : z \in g[0].last}
    BY <1>3
  <2>2. g[0 + 1].last = inside
    BY <1>3, <2>1
  <2>3. UNION {H(y)[0].last : y \in inside} = inside
    BY <1>4
  <2> QED BY <2>2, <2>3
<1>6. ASSUME NEW k \in Nat, k < n, k \in S
      PROVE  k + 1 \in S
  <2>0. k + 1 \in 0 .. n /\ k \in 0 .. n /\ k + 1 \in Nat
    BY <1>6
  <2> DEFINE j == k + 1
  <2> HIDE DEF inside, j
  <2>1. g[j].last = UNION {H(y)[k].last : y \in inside}
    BY <1>6 DEF j
  <2>2. g[j + 1].last = UNION {Inside(types, z) : z \in g[j].last}
    BY <1>3, <2>0 DEF j
  <2>3. \A y : H(y)[j].last = UNION {Inside(types, z) : z \in H(y)[k].last}
    BY <1>4, <1>6, <2>0 DEF j
  <2>4. g[j + 1].last = UNION {H(y)[j].last : y \in inside}
    BY <2>1, <2>2, <2>3
  <2> QED BY <2>0, <2>4 DEF j
<1>7. \A k \in 0 .. n : Same(k)
  <2> HIDE DEF S
  <2>1. \A k \in 0 .. n : k \in S
    BY <1>5, <1>6, InductionTo
  <2> QED BY <2>1 DEF S
<1>8. Level(types, x, n + 1) = UNION {Level(types, y, n) : y \in inside}
  <2>1. Same(n)
    BY <1>7
  <2> HIDE DEF inside
  <2> QED BY <1>3, <1>4, <2>1
<1>9. ASSUME NEW z \in Nest(types, x, n + 1)
      PROVE  z = x \/ \E y \in inside : z \in Nest(types, y, n)
  <2>1. PICK k \in 0 .. n + 1 : z \in g[k].last
    BY <1>3
  <2>2. CASE k = 0
    BY <1>3, <2>1, <2>2
  <2>3. CASE k # 0
    <3> DEFINE j == k - 1
    <3>1. j \in 0 .. n /\ j + 1 = k
      BY <2>3
    <3> HIDE DEF inside, j
    <3>2. z \in g[j + 1].last
      BY <2>1, <3>1
    <3>3. PICK y \in inside : z \in H(y)[j].last
      BY <1>7, <3>1, <3>2
    <3> QED BY <1>4, <3>1, <3>3
  <2> QED BY <2>2, <2>3
<1>10. ASSUME NEW y \in inside, NEW z \in Nest(types, y, n)
       PROVE  z \in Nest(types, x, n + 1)
  <2> HIDE DEF inside
  <2>1. PICK k \in 0 .. n : z \in H(y)[k].last
    BY <1>4
  <2>2. z \in g[k + 1].last
    BY <1>7, <2>1
  <2>3. k + 1 \in 0 .. n + 1
    OBVIOUS
  <2> QED BY <1>3, <2>2, <2>3
<1>11. x \in Nest(types, x, n + 1)
  <2>1. 0 \in 0 .. n + 1
    OBVIOUS
  <2> QED BY <1>3, <2>1
<1>12. Nest(types, x, n + 1) = {x} \union UNION {Nest(types, y, n) : y \in inside}
  <2> HIDE DEF inside
  <2> QED BY <1>9, <1>10, <1>11
<1> QED BY <1>8, <1>12

LEMMA SendingGrows ==
  ASSUME NEW package, NEW types, InPackage(package, types), NEW t \in Shapes[package], NEW v, NEW n \in Nat,
         IsTyped(t, v), \A y \in Inside(types, <<t, v>>) : Sending(package, types, y[1], y[2], n)
  PROVE  Sending(package, types, t, v, n + 1)
<1> DEFINE x == <<t, v>>
<1>1. \A y \in Inside(types, x) : y = <<y[1], y[2]>>
  BY PairFacts
<1>2. x[1] = t /\ x[2] = v /\ IsTyped(x[1], x[2])
  OBVIOUS
<1> HIDE DEF x
<1>3. \A y \in Inside(types, x) : Level(types, y, n) = {} /\ \A z \in Nest(types, y, n) : IsTyped(z[1], z[2])
  BY <1>1 DEF Sending, x
<1>4. Level(types, x, n + 1) = {}
  BY <1>3, NestGrows
<1>5. \A z \in Nest(types, x, n + 1) : IsTyped(z[1], z[2])
  BY <1>2, <1>3, NestGrows
<1> QED BY <1>4, <1>5 DEF Sending, x

(* Whatever is read, what is accepted is a value of the type, to the last  *)
(* value in it, and the decoder stops in the message.                      *)
LEMMA DecodeSends ==
  ASSUME NEW package, NEW types, InPackage(package, types), NEW t \in Shapes[package],
         NEW tokens, IsMessage(tokens), NEW depth \in Nat
  PROVE  /\ Stops(Decode(Shapes[package], types, t, tokens, depth), 0, Len(tokens))
         /\ Decode(Shapes[package], types, t, tokens, depth).status = "ok" =>
              Sending(package, types, t, Decode(Shapes[package], types, t, tokens, depth).value, depth)
<1> DEFINE shapes == Shapes[package]
           len == Len(tokens)
<1>1. PICK read : AreRead(read, shapes, types, t, tokens, depth)
  BY DecodeDefined
<1>2. len \in Nat
  BY DomainOf DEF IsMessage
<1> DEFINE Sound(n) ==
             \A s \in shapes : \A end \in 0 .. len : \A q \in 0 .. end :
               /\ Stops(read[n][<<s, end, q>>], q, end)
               /\ read[n][<<s, end, q>>].status = "ok" => Sending(package, types, s, read[n][<<s, end, q>>].value, n)
           S == {n \in Nat : Sound(n)}
<1>3. 0 \in S
  <2>1. read[0] = [x \in shapes \X Nat \X Nat |-> Failed("deep")]
    BY <1>1 DEF AreRead
  <2> SUFFICES ASSUME NEW s \in shapes, NEW end \in 0 .. len, NEW q \in 0 .. end
               PROVE  /\ Stops(read[0][<<s, end, q>>], q, end)
                      /\ read[0][<<s, end, q>>].status = "ok" => Sending(package, types, s, read[0][<<s, end, q>>].value, 0)
    OBVIOUS
  <2>2. end \in Nat /\ q \in Nat
    BY <1>2
  <2> HIDE DEF shapes
  <2>3. read[0][<<s, end, q>>] = Failed("deep")
    BY <2>1, <2>2
  <2>4. Failed("deep").status = "deep"
    BY DEF Failed
  <2> QED BY <2>3, <2>4, StopsFacts DEF Errors
<1>4. ASSUME NEW n \in Nat, n < depth, Sound(n)
      PROVE  Sound(n + 1)
  <2> DEFINE inner == read[n]
             outer == read[n + 1]
             got == {<<r[1], inner[r].value>> : r \in {u \in shapes \X (0 .. len) \X (0 .. len) :
                       u[3] <= u[2] /\ inner[u].status = "ok"}}
  <2>1. ReadStep(shapes, types, tokens, inner, outer)
    BY <1>1, <1>4, ReadFacts
  <2> HIDE DEF inner, outer, len, shapes
  <2>2. ReadsInto(inner, shapes, tokens, got)
    <3> SUFFICES ASSUME NEW s \in shapes, NEW end \in 0 .. Len(tokens), NEW q \in 0 .. end
                 PROVE  /\ Stops(inner[<<s, end, q>>], q, end)
                        /\ inner[<<s, end, q>>].status = "ok" => <<s, inner[<<s, end, q>>].value>> \in got
      BY DEF ReadsInto
    <3> DEFINE u == <<s, end, q>>
    <3>1. end \in 0 .. len /\ q \in 0 .. len /\ q <= end
      BY <1>2 DEF len
    <3>2. u \in shapes \X (0 .. len) \X (0 .. len) /\ u[1] = s /\ u[2] = end /\ u[3] = q
      BY <3>1
    <3>3. Stops(inner[u], q, end)
      BY <1>4, <3>1 DEF inner
    <3> HIDE DEF u
    <3>4. inner[u].status = "ok" => <<u[1], inner[u].value>> \in got
      BY <3>1, <3>2
    <3> QED BY <3>2, <3>3, <3>4 DEF u
  <2>3. \A y \in got : Sending(package, types, y[1], y[2], n)
    <3> TAKE y \in got
    <3>1. PICK u \in shapes \X (0 .. len) \X (0 .. len) :
            u[3] <= u[2] /\ inner[u].status = "ok" /\ y = <<u[1], inner[u].value>>
      OBVIOUS
    <3>2. u = <<u[1], u[2], u[3]>> /\ u[1] \in shapes /\ u[2] \in 0 .. len /\ u[3] \in 0 .. len
      BY <3>1
    <3>3. u[3] \in 0 .. u[2]
      BY <1>2, <3>1, <3>2
    <3> DEFINE s == u[1]
               end == u[2]
               q == u[3]
    <3>4. s \in shapes /\ end \in 0 .. len /\ q \in 0 .. end /\ inner[<<s, end, q>>].status = "ok"
          /\ y[1] = s /\ y[2] = inner[<<s, end, q>>].value
      BY <3>1, <3>2, <3>3
    <3> HIDE DEF s, end, q
    <3>5. Sending(package, types, s, inner[<<s, end, q>>].value, n)
      BY <1>4, <3>4 DEF inner
    <3> QED BY <3>4, <3>5
  <2> HIDE DEF got
  <2>4. ASSUME NEW s \in shapes, NEW end \in 0 .. len, NEW q \in 0 .. end
        PROVE  /\ Stops(outer[<<s, end, q>>], q, end)
               /\ outer[<<s, end, q>>].status = "ok" => Sending(package, types, s, outer[<<s, end, q>>].value, n + 1)
    <3> DEFINE w == DecodeUPER(types, s, Input(tokens, end), q, inner)
    <3>0. end \in Nat /\ q \in Nat
      BY <1>2
    <3>1. outer[<<s, end, q>>] = w
      BY <2>1, <3>0 DEF ReadStep
    <3>2. At(tokens, end, q)
      BY DEF At, len
    <3>3. Stops(w, q, end) /\ (w.status = "ok" => Fits(types, s, w.value, got))
      BY <2>2, <3>2, DecodeUPERStops DEF shapes
    <3> HIDE DEF w
    <3>4. w.status = "ok" => Sending(package, types, s, w.value, n + 1)
      <4> SUFFICES ASSUME w.status = "ok" PROVE Sending(package, types, s, w.value, n + 1)
        OBVIOUS
      <4> DEFINE v == w.value
      <4>1. IsTyped(s, v) /\ Inside(types, <<s, v>>) \subseteq got
        BY <3>3 DEF Fits
      <4>2. s \in Shapes[package]
        BY DEF shapes
      <4> HIDE DEF v
      <4>3. \A y \in Inside(types, <<s, v>>) : Sending(package, types, y[1], y[2], n)
        BY <2>3, <4>1
      <4>4. Sending(package, types, s, v, n + 1)
        BY <4>1, <4>2, <4>3, SendingGrows
      <4> QED BY <4>4 DEF v
    <3> QED BY <3>1, <3>3, <3>4
  <2> QED BY <2>4 DEF outer
<1>5. Sound(depth)
  <2>1. \A n \in Nat : n < depth /\ n \in S => n + 1 \in S
    BY <1>4
  <2> HIDE DEF S
  <2>2. \A n \in 0 .. depth : n \in S
    BY <1>3, <2>1, InductionTo
  <2>3. depth \in S
    BY <2>2
  <2> QED BY <2>3 DEF S
<1>6. len \in 0 .. len /\ 0 \in 0 .. len
  BY <1>2
<1>7. Decode(shapes, types, t, tokens, depth) = read[depth][<<t, len, 0>>]
  BY <1>1 DEF AreRead
<1> HIDE DEF len, shapes
<1> DEFINE w == Decode(shapes, types, t, tokens, depth)
<1>8. t \in shapes
  BY DEF shapes
<1>9. Stops(w, 0, len) /\ (w.status = "ok" => Sending(package, types, t, w.value, depth))
  BY <1>5, <1>6, <1>7, <1>8
<1> QED BY <1>9 DEF len, shapes, w

LEMMA AcceptedSends ==
  ASSUME NEW c \in Calls, NEW w, IsMessage(w)
  PROVE  /\ Stops(DecodeIn(Here(c), c, w), 0, Len(w))
         /\ DecodeIn(Here(c), c, w).status = "ok" =>
              Sending(c[1], Here(c), Here(c)[c[2]], DecodeIn(Here(c), c, w).value, MaxDepth)
<1> DEFINE types == Here(c)
           t == Here(c)[c[2]]
           package == c[1]
<1>1. InPackage(package, types) /\ t \in Shapes[package]
  BY CallFacts DEF Versions
<1>2. MaxDepth \in Nat
  BY PduAssumption
<1>3. DecodeIn(types, c, w) = Decode(Shapes[package], types, t, w, MaxDepth)
  BY DEF DecodeIn
<1> HIDE DEF types, t, package
<1>4. /\ Stops(Decode(Shapes[package], types, t, w, MaxDepth), 0, Len(w))
      /\ Decode(Shapes[package], types, t, w, MaxDepth).status = "ok" =>
              Sending(package, types, t, Decode(Shapes[package], types, t, w, MaxDepth).value, MaxDepth)
  BY <1>1, <1>2, DecodeSends
<1> QED BY <1>3, <1>4 DEF types, t, package

LEMMA InvTypeOK == Inv => TypeOK
<1> SUFFICES ASSUME Inv PROVE TypeOK
  OBVIOUS
<1> SUFFICES ASSUME NEW c, c = call, NEW w, w = wire, NEW a, a = answer
             PROVE  TypeOK
  OBVIOUS
<1>1. /\ c \in Calls /\ stage \in Stages /\ sort \in Stages \union {"none"}
      /\ a = IF stage = "end" THEN DecodeIn(Here(c), c, w) ELSE NoAnswer
  BY DEF Inv, Staged, Answered, Received, Stages
<1>2. IsMessage(w) /\ size \in Nat
  BY WireMessage
<1>3. Len(w) \in Nat
  BY <1>2, DomainOf DEF IsMessage
<1> DEFINE n == Len(w)
<1>4. /\ a.status \in {"none", "ok", "eof", "invalid", "misread", "deep"}
      /\ a.used \in 0 .. n
      /\ a.status = "ok" => Sending(c[1], Here(c), Here(c)[c[2]], a.value, MaxDepth)
  <2>1. CASE stage = "end"
    <3> DEFINE r == DecodeIn(Here(c), c, w)
    <3>1. Stops(r, 0, n) /\ (r.status = "ok" => Sending(c[1], Here(c), Here(c)[c[2]], r.value, MaxDepth))
      BY <1>1, <1>2, AcceptedSends
    <3>2. a = r
      BY <1>1, <2>1
    <3> HIDE DEF r, n
    <3>3. \A s : Failed(s).used = 0
      BY DEF Failed
    <3>4. 0 \in 0 .. n
      BY <1>3 DEF n
    <3>5. CASE r.status = "ok"
      BY <3>1, <3>2, <3>5 DEF Stops, Errors
    <3>6. CASE r.status # "ok"
      <4>1. r.status \in Errors /\ r = Failed(r.status)
        BY <3>1, <3>6 DEF Stops
      <4>2. r.used = 0
        BY <3>3, <4>1
      <4> QED BY <3>2, <3>4, <3>6, <4>1, <4>2 DEF Errors
    <3> QED BY <3>5, <3>6
  <2>2. CASE stage # "end"
    <3>1. a = NoAnswer
      BY <1>1, <2>2
    <3>2. a.status = "none" /\ a.used = 0
      BY <3>1 DEF NoAnswer
    <3> QED BY <1>3, <3>2
  <2> QED BY <2>1, <2>2
<1> QED BY <1>1, <1>2, <1>4 DEF TypeOK, Sending

(* Whatever tokens a message is made of, the decoder reads no more of them *)
(* than there are, and what it accepts is a value of the type.             *)
THEOREM PduTypeOK == Spec => []TypeOK
BY PduInvariant, InvTypeOK, PTL

-----------------------------------------------------------------------------
(* What a value is to other tables, from what the values inside are.       *)
Projected(types, x, n) == [y \in Inside(types, x) |-> Projection(types, y, n)]

LEMMA ProjectionGrows ==
  ASSUME NEW types, NEW x, NEW n \in Nat, Level(types, x, n + 1) = {}
  PROVE  Projection(types, x, n + 1) = Project(types, x, Projected(types, x, n))
<1> DEFINE inside == Inside(types, x)
           J(y) == CHOOSE h : AreKnown(h, types, y, n)
<1>0. n + 1 \in Nat
  OBVIOUS
<1>1. PICK K : AreKnown(K, types, x, n + 1)
  BY <1>0, ProjectionDefined
<1>2. \A y : AreKnown(J(y), types, y, n)
  BY ProjectionDefined
<1> HIDE DEF J
<1>3. /\ x \in Nest(types, x, n + 1)
      /\ \A y \in inside : Nest(types, y, n) \subseteq Nest(types, x, n + 1) /\ Level(types, y, n) = {}
  BY NestGrows
<1>4. ASSUME NEW y \in inside
      PROVE  K[n][y] = Projection(types, y, n)
  <2> DEFINE L == J(y)
             nest == Nest(types, y, n)
             whole == Nest(types, x, n + 1)
             S == {k \in Nat : \A z \in nest : K[k][z] = L[k][z]}
  <2>0. nest \subseteq whole /\ y \in nest /\ \A z \in nest : Inside(types, z) \subseteq nest
    BY <1>3, NestClosed
  <2>00. AreKnown(L, types, y, n)
    BY <1>2
  <2> HIDE DEF L
  <2>1. 0 \in S
    <3>1. K[0] = [z \in whole |-> z[2]] /\ L[0] = [z \in nest |-> z[2]]
      BY <1>1, <2>00 DEF AreKnown
    <3> HIDE DEF nest, whole
    <3> QED BY <2>0, <3>1
  <2>2. ASSUME NEW k \in Nat, k < n, k \in S
        PROVE  k + 1 \in S
    <3>1. ASSUME NEW z \in nest
          PROVE  K[k + 1][z] = L[k + 1][z]
      <4>1. k < n + 1
        BY <2>2
      <4>2. K[k + 1][z] = Project(types, z, PartsOf(types, z, K[k]))
        BY <1>0, <1>1, <2>0, <4>1, KnownFacts
      <4>3. L[k + 1][z] = Project(types, z, PartsOf(types, z, L[k]))
        BY <2>00, <2>2, KnownFacts
      <4>4. PartsOf(types, z, K[k]) = PartsOf(types, z, L[k])
        <5>1. \A u \in Inside(types, z) : K[k][u] = L[k][u]
          BY <2>0, <2>2
        <5> QED BY <5>1 DEF PartsOf
      <4> QED BY <4>2, <4>3, <4>4
    <3> HIDE DEF nest
    <3> QED BY <3>1
  <2>3. n \in S
    <3> HIDE DEF S
    <3>1. \A k \in Nat : k < n /\ k \in S => k + 1 \in S
      BY <2>2
    <3>2. \A k \in 0 .. n : k \in S
      BY <2>1, <3>1, InductionTo
    <3> QED BY <3>2
  <2>4. Projection(types, y, n) = L[n][y]
    BY <2>00 DEF AreKnown
  <2> QED BY <2>0, <2>3, <2>4
<1>5. K[n + 1][x] = Project(types, x, PartsOf(types, x, K[n]))
  <2>1. n < n + 1
    OBVIOUS
  <2> QED BY <1>0, <1>1, <1>3, <2>1, KnownFacts
<1>6. PartsOf(types, x, K[n]) = Projected(types, x, n)
  BY <1>4 DEF PartsOf, Projected
<1>7. Projection(types, x, n + 1) = K[n + 1][x]
  BY <1>1 DEF AreKnown
<1> QED BY <1>5, <1>6, <1>7

(* A value that the sender knows holds nothing else for the receiver.      *)
LEMMA KidsSame ==
  ASSUME NEW package, NEW s, NEW r, NEW v, NEW there, NEW here,
         IsShape(package, s), IsShape(package, r), Related(s, r), IsTyped(s, v), IsKnown(s, v)
  PROVE  /\ s.kind = "Ref" => s = r
         /\ s.kind # "Ref" => Inside(here, <<r, v>>) \subseteq Inside(there, <<s, v>>)
<1>0. /\ r.kind = s.kind
      /\ ~(s.kind \in {"Sequence", "Choice", "Enumerated"}) => r = s
      /\ s.kind \in {"Sequence", "Choice", "Enumerated"} =>
           /\ r.root = s.root /\ r.extensible = s.extensible
           /\ \A k \in 1 .. Len(r.more) : k <= Len(s.more) => r.more[k] = s.more[k]
  BY VersionFacts
<1>1. CASE s.kind = "Sequence"
  <2>1. IsStruct(s, v) /\ IsSequence(r.more)
    BY <1>0, <1>1, StructFacts DEF IsShape
  <2> DEFINE n == Len(s.more)
             m == Len(r.more)
  <2>2. DOMAIN r.more = 1 .. m /\ DOMAIN s.more = 1 .. n /\ DOMAIN v.more = 1 .. n /\ n \in Nat /\ m \in Nat
    BY <2>1, DomainOf DEF IsStruct, AreHeld
  <2>3. \A k \in 1 .. m : k <= n => r.more[k] = s.more[k]
    BY <1>0, <1>1
  <2> HIDE DEF n, m
  <2>4. \A k \in 1 .. m : k \in 1 .. n => r.more[k] = s.more[k]
    BY <2>2, <2>3
  <2>5. Held(r.more, v.more) \subseteq Held(s.more, v.more)
    BY <2>2, <2>4 DEF Held
  <2>6. Inside(here, <<r, v>>) = Held(r.root, v.root) \union Held(r.more, v.more)
    BY <1>0, <1>1 DEF Inside
  <2>7. Inside(there, <<s, v>>) = Held(s.root, v.root) \union Held(s.more, v.more)
    BY <1>1 DEF Inside
  <2> QED BY <1>0, <1>1, <2>5, <2>6, <2>7
<1>2. CASE s.kind = "Choice"
  <2>1. v[1] \in DOMAIN Parts(s)
    BY <1>2 DEF IsKnown
  <2>2. IsUnion(s, v) /\ IsUnion(r, v)
    BY <1>0, <1>2, UnionFacts DEF IsTyped, IsEmpty
  <2>3. UnionVersions(s, r, v)
    BY <1>2, UnionRelated
  <2>4. v[1] \in DOMAIN Parts(r) => Parts(r)[v[1]].type = Parts(s)[v[1]].type
    BY <2>1, <2>3, AlternativesAgree
  <2>5. Inside(there, <<s, v>>) = {<<Parts(s)[v[1]].type, v[2]>>}
    BY <2>1, <2>2, ChoiceInside
  <2>6. v[1] \in DOMAIN Parts(r) => Inside(here, <<r, v>>) = {<<Parts(r)[v[1]].type, v[2]>>}
    BY <2>2, ChoiceInside
  <2>7. v[1] \notin DOMAIN Parts(r) => Inside(here, <<r, v>>) = {}
    BY <2>2, ChoiceInside
  <2> QED BY <1>2, <2>4, <2>5, <2>6, <2>7
<1>3. CASE s.kind = "ListOf"
  <2>1. s = r
    BY <1>0, <1>3
  <2>2. Inside(here, <<r, v>>) = {<<s.of, v[k]>> : k \in DOMAIN v} /\ Inside(there, <<s, v>>) = {<<s.of, v[k]>> : k \in DOMAIN v}
    BY <1>3, <2>1 DEF Inside
  <2> QED BY <1>3, <2>2
<1>4. CASE s.kind = "Ref"
  BY <1>0, <1>4
<1>5. CASE s.kind \notin {"Ref", "Sequence", "Choice", "ListOf"}
  BY <1>0, <1>5, InsideCases
<1> QED BY <1>1, <1>2, <1>3, <1>4, <1>5

(* In what is made of a value is what is made of the values in it.         *)
Image(set, table) == {<<y[1], table[y]>> : y \in set}

LEMMA HeldImage ==
  ASSUME NEW parts, NEW values, NEW K
  PROVE  Held(parts, ProjectParts(parts, values, K)) = Image(Held(parts, values), K)
<1> DEFINE made == ProjectParts(parts, values, K)
           has == {k \in DOMAIN parts : k \in DOMAIN values /\ values[k] # None}
           y(k) == <<parts[k].type, values[k][1]>>
<1>1. ASSUME NEW k \in DOMAIN parts
      PROVE  /\ k \in has => made[k] # None /\ made[k][1] = K[y(k)]
             /\ k \notin has => made[k] = None
  <2>1. made[k] = IF k \in DOMAIN values /\ values[k] # None THEN Some(K[y(k)]) ELSE None
    BY DEF ProjectParts
  <2>2. Some(K[y(k)]) # None /\ Some(K[y(k)])[1] = K[y(k)]
    BY NoneSome
  <2> HIDE DEF y, made
  <2> QED BY <2>1, <2>2
<1>2. DOMAIN made = DOMAIN parts
  BY DEF ProjectParts
<1> HIDE DEF made
<1>3. {k \in DOMAIN parts : k \in DOMAIN made /\ made[k] # None} = has
  BY <1>1, <1>2
<1>4. Held(parts, made) = {<<parts[k].type, made[k][1]>> : k \in has}
  BY <1>3 DEF Held
<1>5. Held(parts, values) = {y(k) : k \in has}
  BY DEF Held
<1>6. \A k \in has : made[k][1] = K[y(k)] /\ y(k)[1] = parts[k].type /\ k \in DOMAIN parts
  BY <1>1
<1> HIDE DEF has, y
<1>7. Image({y(k) : k \in has}, K) = {<<y(k)[1], K[y(k)]>> : k \in has}
  BY DEF Image
<1> QED BY <1>4, <1>5, <1>6, <1>7 DEF made

LEMMA ProjectInside ==
  ASSUME NEW package, NEW t, IsShape(package, t), NEW types, NEW v, NEW K
  PROVE  Inside(types, <<t, Project(types, <<t, v>>, K)>>) = Image(Inside(types, <<t, v>>), K)
<1> DEFINE w == Project(types, <<t, v>>, K)
<1>1. CASE t.kind = "Ref"
  <2>1. w = K[<<types[t.name], v>>]
    BY <1>1 DEF Project
  <2>2. \A u : Inside(types, <<t, u>>) = {<<types[t.name], u>>}
    BY <1>1 DEF Inside
  <2> HIDE DEF w
  <2>3. Inside(types, <<t, w>>) = {<<types[t.name], w>>}
    BY <2>2
  <2>4. Inside(types, <<t, v>>) = {<<types[t.name], v>>}
    BY <2>2
  <2> QED BY <2>1, <2>3, <2>4 DEF Image, w
<1>2. CASE t.kind = "Sequence"
  <2> DEFINE a == ProjectParts(t.root, v.root, K)
             b == ProjectParts(t.more, v.more, K)
  <2>1. w = Struct(a, b)
    BY <1>2 DEF Project
  <2>2. w.root = a /\ w.more = b
    BY <2>1 DEF Struct
  <2>3. Held(t.root, a) = Image(Held(t.root, v.root), K) /\ Held(t.more, b) = Image(Held(t.more, v.more), K)
    BY HeldImage
  <2> HIDE DEF a, b, w
  <2>4. Inside(types, <<t, w>>) = Held(t.root, a) \union Held(t.more, b)
    BY <1>2, <2>2 DEF Inside
  <2>5. Inside(types, <<t, v>>) = Held(t.root, v.root) \union Held(t.more, v.more)
    BY <1>2 DEF Inside
  <2>6. \A x, y : Image(x \union y, K) = Image(x, K) \union Image(y, K)
    BY DEF Image
  <2> DEFINE p == Held(t.root, v.root)
             q == Held(t.more, v.more)
  <2>7. Inside(types, <<t, w>>) = Image(p, K) \union Image(q, K) /\ Inside(types, <<t, v>>) = p \union q
    BY <2>3, <2>4, <2>5
  <2> HIDE DEF p, q
  <2>8. Image(p \union q, K) = Image(p, K) \union Image(q, K)
    BY <2>6
  <2>9. Inside(types, <<t, w>>) = Image(Inside(types, <<t, v>>), K)
    BY <2>7, <2>8
  <2> QED BY <2>9 DEF w
<1>3. CASE t.kind = "Choice"
  <2> DEFINE parts == Parts(t)
             y == <<parts[v[1]].type, v[2]>>
             inside(u) == {<<parts[k].type, u[2]>> : k \in {j \in DOMAIN parts : j = u[1]}}
  <2>1. \A u : Inside(types, <<t, u>>) = inside(u)
    BY <1>3 DEF Inside
  <2>2. w = IF v[1] \in DOMAIN parts THEN Tagged(v[1], K[y]) ELSE Unset
    BY <1>3 DEF Project
  <2>3. 0 \notin DOMAIN parts
    <3>1. IsSequence(t.root) /\ IsSequence(t.more)
      BY <1>3 DEF IsShape
    <3>2. DOMAIN parts = 1 .. Len(parts)
      BY <3>1, PartsFacts
    <3> QED BY <3>2
  <2> HIDE DEF w, parts
  <2>4. CASE v[1] \in DOMAIN parts
    <3>1. w[1] = v[1] /\ w[2] = K[y]
      BY <2>2, <2>4 DEF Tagged
    <3>2. inside(w) = {<<parts[v[1]].type, K[y]>>}
      BY <2>4, <3>1
    <3>3. inside(v) = {y} /\ y[1] = parts[v[1]].type
      BY <2>4
    <3> HIDE DEF inside, y
    <3>4. Image({y}, K) = {<<y[1], K[y]>>}
      BY DEF Image
    <3> QED BY <2>1, <3>2, <3>3, <3>4 DEF w
  <2>5. CASE v[1] \notin DOMAIN parts
    <3>1. w[1] = 0
      BY <2>2, <2>5 DEF Unset, Tagged
    <3>2. inside(w) = {} /\ inside(v) = {}
      BY <2>3, <2>5, <3>1
    <3>3. Image({}, K) = {}
      BY DEF Image
    <3> HIDE DEF inside
    <3> QED BY <2>1, <3>2, <3>3 DEF w
  <2> QED BY <2>4, <2>5
<1>4. CASE t.kind = "ListOf"
  <2> DEFINE y(k) == <<t.of, v[k]>>
  <2>1. \A u : Inside(types, <<t, u>>) = {<<t.of, u[k]>> : k \in DOMAIN u}
    BY <1>4 DEF Inside
  <2>2. w = [k \in DOMAIN v |-> K[y(k)]]
    BY <1>4 DEF Project
  <2>3. DOMAIN w = DOMAIN v /\ \A k \in DOMAIN v : w[k] = K[y(k)]
    BY <2>2
  <2> HIDE DEF w
  <2>4. Inside(types, <<t, w>>) = {<<t.of, w[k]>> : k \in DOMAIN w}
    BY <2>1
  <2>5. Inside(types, <<t, v>>) = {y(k) : k \in DOMAIN v}
    BY <2>1
  <2>6. \A k : y(k)[1] = t.of
    OBVIOUS
  <2> HIDE DEF y
  <2>7. Image({y(k) : k \in DOMAIN v}, K) = {<<y(k)[1], K[y(k)]>> : k \in DOMAIN v}
    BY DEF Image
  <2>8. {<<t.of, w[k]>> : k \in DOMAIN w} = {<<y(k)[1], K[y(k)]>> : k \in DOMAIN v}
    BY <2>3, <2>6
  <2>9. Inside(types, <<t, w>>) = Image(Inside(types, <<t, v>>), K)
    BY <2>4, <2>5, <2>7, <2>8
  <2> QED BY <2>9 DEF w
<1>5. CASE t.kind \notin {"Ref", "Sequence", "Choice", "ListOf"}
  <2>1. \A u : Inside(types, <<t, u>>) = {}
    BY <1>5, InsideCases
  <2>2. Image({}, K) = {}
    BY DEF Image
  <2> HIDE DEF w
  <2> QED BY <2>1, <2>2 DEF w
<1> QED BY <1>1, <1>2, <1>3, <1>4, <1>5

LEMMA ProjectKnown ==
  ASSUME NEW package, NEW s, NEW r, NEW v, NEW here, NEW K,
         IsShape(package, s), IsShape(package, r), Related(s, r), IsTyped(s, v), IsKnown(s, v), IsSized(s, v)
  PROVE  /\ IsKnown(r, Project(here, <<r, v>>, K)) <=> IsKnown(r, v)
         /\ IsSized(r, Project(here, <<r, v>>, K))
<1> DEFINE w == Project(here, <<r, v>>, K)
<1>0. /\ r.kind = s.kind
      /\ ~(s.kind \in {"Sequence", "Choice", "Enumerated"}) => r = s
  BY VersionFacts
<1>1. CASE s.kind = "Choice"
  <2>1. w = IF v[1] \in DOMAIN Parts(r) THEN Tagged(v[1], K[<<Parts(r)[v[1]].type, v[2]>>]) ELSE Unset
    BY <1>0, <1>1 DEF Project
  <2>2. 0 \notin DOMAIN Parts(r)
    <3>1. IsSequence(r.root) /\ IsSequence(r.more)
      BY <1>0, <1>1 DEF IsShape
    <3>2. DOMAIN Parts(r) = 1 .. Len(Parts(r))
      BY <3>1, PartsFacts
    <3> QED BY <3>2
  <2>3. w[1] = IF v[1] \in DOMAIN Parts(r) THEN v[1] ELSE 0
    BY <2>1 DEF Tagged, Unset
  <2> HIDE DEF w
  <2>4. IsKnown(r, w) <=> IsKnown(r, v)
    BY <1>0, <1>1, <2>2, <2>3 DEF IsKnown
  <2>5. IsSized(r, w)
    BY <1>0, <1>1 DEF IsSized
  <2> QED BY <2>4, <2>5 DEF w
<1>2. CASE s.kind = "Enumerated"
  <2> DEFINE n == Len(r.root)
             q == PositionOf(Later(r), v)
  <2>1. w = EnumPart(r, v)
    BY <1>0, <1>2 DEF Project, EnumPart
  <2>2. EnumVersions(s, r) /\ IsEnum(r) /\ IsEnum(s)
    BY <1>2, EnumRelated DEF EnumVersions
  <2>3. CASE PositionOf(r, v) # 0
    <3>1. w = v
      BY <2>1, <2>3 DEF EnumPart
    <3> HIDE DEF w
    <3>2. IsSized(r, w)
      BY <1>0, <1>2 DEF IsSized
    <3> QED BY <3>1, <3>2 DEF w
  <2>4. CASE PositionOf(r, v) = 0
    <3>1. PositionOf(s, v) # 0
      BY <1>2 DEF IsKnown
    <3> DEFINE a == Len(s.more)
               b == Len(r.more)
               j == PositionOf(s, v)
    <3>2. /\ n \in Nat /\ b \in Nat /\ DOMAIN Parts(r) = 1 .. n + b
          /\ (\A k \in 1 .. n : Parts(r)[k] = r.root[k]) /\ \A k \in 1 .. b : Parts(r)[n + k] = r.more[k]
      BY <2>2, PartsFacts DEF IsEnum
    <3>3. /\ a \in Nat /\ DOMAIN Parts(s) = 1 .. n + a
          /\ (\A k \in 1 .. n : Parts(s)[k] = r.root[k]) /\ \A k \in 1 .. a : Parts(s)[n + k] = s.more[k]
      <4>1. r.root = s.root
        BY <2>2 DEF EnumVersions
      <4>2. IsSequence(s.root) /\ IsSequence(s.more)
        BY <2>2 DEF IsEnum
      <4>3. /\ Len(s.more) \in Nat /\ DOMAIN Parts(s) = 1 .. Len(s.root) + Len(s.more)
            /\ \A k \in 1 .. Len(s.root) : Parts(s)[k] = s.root[k]
            /\ \A k \in 1 .. Len(s.more) : Parts(s)[Len(s.root) + k] = s.more[k]
        BY <4>2, PartsFacts
      <4> QED BY <4>1, <4>3
    <3>4. (\A k \in 1 .. b : k <= a => r.more[k].value = s.more[k].value) /\ (a > b => s = Later(r))
      BY <2>2 DEF EnumVersions
    <3>5. j \in 1 .. n + a /\ Parts(s)[j].value = v
      BY <2>2, <3>1, <3>3, PositionFacts
    <3>6. \A k \in DOMAIN Parts(r) : Parts(r)[k].value # v
      <4> SUFFICES ASSUME NEW k \in DOMAIN Parts(r), Parts(r)[k].value = v PROVE FALSE
        OBVIOUS
      <4>1. PositionOf(r, v) = k
        BY <2>2, PositionFacts
      <4> QED BY <2>4, <3>2, <4>1
    <3> HIDE DEF n, a, b, j
    <3>7. ~(j <= n)
      <4> SUFFICES ASSUME j <= n PROVE FALSE
        OBVIOUS
      <4>1. j \in 1 .. n /\ j \in DOMAIN Parts(r)
        BY <3>2, <3>3, <3>5
      <4>2. Parts(r)[j] = Parts(s)[j]
        BY <3>2, <3>3, <4>1
      <4> QED BY <3>5, <3>6, <4>1, <4>2
    <3> DEFINE i == j - n
    <3>8. i \in 1 .. a /\ n + i = j
      BY <3>2, <3>3, <3>5, <3>7
    <3> HIDE DEF i
    <3>9. ~(i <= b)
      <4> SUFFICES ASSUME i <= b PROVE FALSE
        OBVIOUS
      <4>1. i \in 1 .. b /\ i <= a /\ n + i \in 1 .. n + b
        BY <3>2, <3>3, <3>8
      <4>2. r.more[i].value = s.more[i].value
        BY <3>4, <4>1
      <4>3. Parts(r)[n + i].value = v
        BY <3>2, <3>3, <3>5, <3>8, <4>1, <4>2
      <4> QED BY <3>2, <3>6, <4>1, <4>3
    <3>10. s = Later(r)
      BY <3>2, <3>3, <3>4, <3>8, <3>9
    <3>11. q = j
      BY <3>10 DEF j
    <3>12. w = UnknownBase + q - n - 1
      BY <2>1, <2>4 DEF EnumPart, n
    <3>13. UnknownBase \in Nat
      BY PduAssumption
    <3> HIDE DEF q, w
    <3>14. w >= UnknownBase
      BY <3>2, <3>3, <3>5, <3>7, <3>11, <3>12, <3>13
    <3>15. \A k \in DOMAIN Parts(r) : Parts(r)[k].value # w
      <4> SUFFICES ASSUME NEW k \in DOMAIN Parts(r), Parts(r)[k].value = w PROVE FALSE
        OBVIOUS
      <4>1. Parts(r)[k].value < UnknownBase /\ Parts(r)[k].value \in Nat
        BY <2>2 DEF IsEnum
      <4> QED BY <3>13, <3>14, <4>1
    <3>16. PositionOf(r, w) = 0
      BY <3>15 DEF PositionOf
    <3>17. ~IsKnown(r, w) /\ ~IsKnown(r, v)
      BY <1>0, <1>2, <2>4, <3>16 DEF IsKnown
    <3>18. IsSized(r, w)
      BY <1>0, <1>2 DEF IsSized
    <3> QED BY <3>17, <3>18 DEF w
  <2> QED BY <2>3, <2>4
<1>3. CASE s.kind = "ListOf"
  <2>1. s = r
    BY <1>0, <1>3
  <2>2. w = [k \in DOMAIN v |-> K[<<r.of, v[k]>>]]
    BY <1>3, <2>1 DEF Project
  <2>3. IsSequence(v)
    BY <1>3 DEF IsTyped
  <2> DEFINE n == Len(v)
  <2>4. n \in Nat /\ DOMAIN v = 1 .. n
    BY <2>3, DomainOf
  <2>5. IsRow(n, w)
    BY <2>2, <2>4 DEF IsRow
  <2> HIDE DEF n, w
  <2>6. Len(w) = n
    BY <2>4, <2>5, SequenceOf
  <2>7. IsSized(r, w)
    BY <2>1, <2>6 DEF IsSized, n
  <2>8. IsKnown(r, w) /\ IsKnown(r, v)
    BY <1>3, <2>1 DEF IsKnown
  <2> QED BY <2>7, <2>8 DEF w
<1>4. CASE s.kind \notin {"Choice", "Enumerated", "ListOf"}
  <2>1. \A u : IsKnown(r, u) /\ IsSized(r, u)
    BY <1>0, <1>4 DEF IsKnown, IsSized
  <2> HIDE DEF w
  <2> QED BY <2>1 DEF w
<1> QED BY <1>1, <1>2, <1>3, <1>4

(* A value that can be sent, and the tables of the receiver. *)
Relaying(package, there, here, s, r, v, n) ==
  /\ Sending(package, there, s, v, n) /\ Versions(package, there, here)
  /\ r \in Shapes[package] /\ Related(s, r)
  /\ \A z \in Nest(there, <<s, v>>, n) : Fine(z)

LEMMA RelayingFacts ==
  ASSUME NEW package, NEW there, NEW here, NEW s, NEW r, NEW v, NEW n \in Nat,
         Relaying(package, there, here, s, r, v, n + 1)
  PROVE  /\ IsShape(package, s) /\ IsShape(package, r) /\ Related(s, r)
         /\ IsTyped(s, v) /\ IsKnown(s, v) /\ IsSized(s, v)
         /\ \A a \in Inside(there, <<s, v>>) :
              /\ Sending(package, there, a[1], a[2], n) /\ a = <<a[1], a[2]>>
              /\ \A z \in Nest(there, a, n) : Fine(z)
<1> DEFINE x == <<s, v>>
<1>1. /\ InPackage(package, there) /\ s \in Shapes[package] /\ r \in Shapes[package] /\ Related(s, r)
      /\ Level(there, x, n + 1) = {} /\ n + 1 \in Nat
      /\ \A z \in Nest(there, x, n + 1) : IsTyped(z[1], z[2]) /\ Fine(z)
  BY DEF Relaying, Sending
<1>2. \A t \in Shapes[package] : IsShape(package, t)
  BY <1>1, PduAssumption DEF InPackage
<1>3. \A a \in Inside(there, x) : a = <<a[1], a[2]>> /\ a[1] \in Shapes[package]
  BY <1>1, PairFacts, InsideShapes
<1>4. x[1] = s /\ x[2] = v
  OBVIOUS
<1> HIDE DEF x
<1>5. x \in Nest(there, x, n + 1)
      /\ \A a \in Inside(there, x) : Level(there, a, n) = {} /\ Nest(there, a, n) \subseteq Nest(there, x, n + 1)
  BY <1>1, NestGrows
<1>6. \A a \in Inside(there, x) : Sending(package, there, a[1], a[2], n)
  <2> TAKE a \in Inside(there, x)
  <2>1. a = <<a[1], a[2]>> /\ a[1] \in Shapes[package]
    BY <1>3
  <2>2. Level(there, <<a[1], a[2]>>, n) = {}
    BY <1>5, <2>1
  <2>3. \A z \in Nest(there, <<a[1], a[2]>>, n) : IsTyped(z[1], z[2])
    BY <1>1, <1>5, <2>1
  <2> QED BY <1>1, <2>1, <2>2, <2>3 DEF Sending
<1>7. \A a \in Inside(there, x) : \A z \in Nest(there, a, n) : Fine(z)
  BY <1>1, <1>5
<1>8. IsTyped(s, v) /\ IsKnown(s, v) /\ IsSized(s, v)
  BY <1>1, <1>4, <1>5 DEF Fine
<1> QED BY <1>1, <1>2, <1>3, <1>6, <1>7, <1>8 DEF x

LEMMA RelayingParts ==
  ASSUME NEW package, NEW there, NEW here, NEW s, NEW r, NEW v, NEW n \in Nat,
         Relaying(package, there, here, s, r, v, n + 1), NEW b \in Inside(here, <<r, v>>)
  PROVE  /\ b = <<b[1], b[2]>>
         /\ \E t : /\ Relaying(package, there, here, t, b[1], b[2], n)
                   /\ t = b[1] \/ \E name \in DOMAIN Packages[package] : t = there[name] /\ b[1] = here[name]
<1> DEFINE x == <<s, v>>
           y == <<r, v>>
<1>1. /\ IsShape(package, s) /\ IsShape(package, r) /\ Related(s, r)
      /\ IsTyped(s, v) /\ IsKnown(s, v) /\ IsSized(s, v)
      /\ \A a \in Inside(there, x) :
           /\ Sending(package, there, a[1], a[2], n) /\ a = <<a[1], a[2]>>
           /\ \A z \in Nest(there, a, n) : Fine(z)
  BY RelayingFacts
<1>2. /\ Versions(package, there, here) /\ InPackage(package, here) /\ r \in Shapes[package]
      /\ \A name \in DOMAIN Packages[package] : Related(there[name], here[name])
  BY DEF Relaying, Versions
<1>3. b = <<b[1], b[2]>> /\ b[1] \in Shapes[package]
  BY <1>2, PairFacts, InsideShapes
<1>4. \E a \in Inside(there, x) :
        /\ Related(a[1], b[1]) /\ a[2] = b[2]
        /\ a[1] = b[1] \/ \E name \in DOMAIN Packages[package] : a[1] = there[name] /\ b[1] = here[name]
  <2>1. CASE s.kind = "Ref"
    <3>1. s = r
      BY <1>1, <2>1, KidsSame
    <3> DEFINE p == <<there[s.name], v>>
               q == <<here[s.name], v>>
    <3>2. p \in Inside(there, x) /\ b = q /\ s.name \in DOMAIN Packages[package]
      BY <1>1, <2>1, <3>1, InsideCases DEF IsShape
    <3>3. p[1] = there[s.name] /\ p[2] = v /\ q[1] = here[s.name] /\ q[2] = v
      OBVIOUS
    <3> HIDE DEF p, q, x
    <3> QED BY <1>2, <3>2, <3>3
  <2>2. CASE s.kind # "Ref"
    <3>1. Inside(here, <<r, v>>) \subseteq Inside(there, <<s, v>>)
      BY <1>1, <2>2, KidsSame
    <3>2. b \in Inside(there, x)
      BY <3>1
    <3> HIDE DEF x
    <3> QED BY <3>2 DEF Related
  <2> QED BY <2>1, <2>2
<1> HIDE DEF x
<1>5. PICK a \in Inside(there, x) :
        /\ Related(a[1], b[1]) /\ a[2] = b[2]
        /\ a[1] = b[1] \/ \E name \in DOMAIN Packages[package] : a[1] = there[name] /\ b[1] = here[name]
  BY <1>4
<1>6. Sending(package, there, a[1], b[2], n) /\ \A z \in Nest(there, <<a[1], b[2]>>, n) : Fine(z)
  <2>1. Sending(package, there, a[1], a[2], n) /\ a = <<a[1], a[2]>> /\ \A z \in Nest(there, a, n) : Fine(z)
    BY <1>1
  <2>2. a = <<a[1], b[2]>>
    BY <1>5, <2>1
  <2>3. \A z \in Nest(there, <<a[1], b[2]>>, n) : Fine(z)
    BY <2>1, <2>2
  <2> QED BY <1>5, <2>1, <2>3
<1>7. Relaying(package, there, here, a[1], b[1], b[2], n)
  BY <1>2, <1>3, <1>5, <1>6 DEF Relaying
<1> QED BY <1>3, <1>5, <1>7

(* What the receiver makes of such a value can be sent, if it knows all of *)
(* it, and only then.                                                      *)
Honest(here, r, v, n) ==
  /\ Level(here, <<r, v>>, n) = {}
  /\ (\A x \in Nest(here, <<r, Projection(here, <<r, v>>, n)>>, n) : Fine(x))
       <=> \A y \in Nest(here, <<r, v>>, n) : IsKnown(y[1], y[2])

LEMMA RelayingHonest ==
  ASSUME NEW package, NEW there, NEW here, NEW s, NEW r, NEW v, NEW depth,
         Relaying(package, there, here, s, r, v, depth)
  PROVE  Honest(here, r, v, depth)
<1> DEFINE S == {n \in Nat : \A a, b, u : Relaying(package, there, here, a, b, u, n) => Honest(here, b, u, n)}
<1>1. 0 \in S
  <2> SUFFICES ASSUME NEW a, NEW b, NEW u, Relaying(package, there, here, a, b, u, 0) PROVE FALSE
    OBVIOUS
  <2> DEFINE x == <<a, u>>
  <2>1. Level(there, x, 0) = {}
    BY DEF Relaying, Sending
  <2> HIDE DEF x
  <2>2. PICK g : AreReached(g, there, x, 0)
    BY ReachedDefined
  <2>3. x \in g[0].last /\ Level(there, x, 0) = g[0].last
    BY <2>2, NestFacts
  <2> QED BY <2>1, <2>3
<1>2. ASSUME NEW n \in Nat, n \in S, NEW a, NEW b, NEW u, Relaying(package, there, here, a, b, u, n + 1)
      PROVE  Honest(here, b, u, n + 1)
  <2> DEFINE y == <<b, u>>
             K == Projected(here, y, n)
             w == Project(here, y, K)
             z == <<b, w>>
  <2>1. /\ IsShape(package, a) /\ IsShape(package, b) /\ Related(a, b)
        /\ IsTyped(a, u) /\ IsKnown(a, u) /\ IsSized(a, u)
    BY <1>2, RelayingFacts
  <2>2. /\ IsKnown(b, w) <=> IsKnown(b, u)
        /\ IsSized(b, w)
    BY <2>1, ProjectKnown
  <2>3. Inside(here, z) = Image(Inside(here, y), K)
    BY <2>1, ProjectInside
  <2>4. \A c \in Inside(here, y) : c = <<c[1], c[2]>> /\ \E t : Relaying(package, there, here, t, c[1], c[2], n)
    BY <1>2, RelayingParts
  <2>5. \A c \in Inside(here, y) : c = <<c[1], c[2]>> /\ Honest(here, c[1], c[2], n)
    BY <1>2, <2>4
  <2>6. \A c \in Inside(here, y) :
          /\ Level(here, c, n) = {} /\ K[c] = Projection(here, c, n)
          /\ (\A x \in Nest(here, <<c[1], K[c]>>, n) : Fine(x)) <=> \A x \in Nest(here, c, n) : IsKnown(x[1], x[2])
    <3> TAKE c \in Inside(here, y)
    <3>1. c = <<c[1], c[2]>> /\ Honest(here, c[1], c[2], n)
      BY <2>5
    <3> HIDE DEF y
    <3>2. K[c] = Projection(here, c, n)
      BY DEF Projected
    <3> QED BY <3>1, <3>2 DEF Honest
  <2>7. y[1] = b /\ y[2] = u /\ z[1] = b /\ z[2] = w
    OBVIOUS
  <2> HIDE DEF y, K, w, z
  <2>8. Level(here, y, n + 1) = {}
    <3>1. Level(here, y, n + 1) = UNION {Level(here, c, n) : c \in Inside(here, y)}
      BY NestGrows
    <3>2. \A c \in Inside(here, y) : Level(here, c, n) = {}
      BY <2>6
    <3> QED BY <3>1, <3>2
  <2>9. w = Projection(here, y, n + 1)
    BY <2>8, ProjectionGrows DEF w, K
  <2>10. /\ Nest(here, y, n + 1) = {y} \union UNION {Nest(here, c, n) : c \in Inside(here, y)}
         /\ Nest(here, z, n + 1) = {z} \union UNION {Nest(here, c, n) : c \in Inside(here, z)}
    BY NestGrows
  <2>11. (\A x \in Nest(here, z, n + 1) : Fine(x)) <=>
           Fine(z) /\ \A c \in Inside(here, y) : \A x \in Nest(here, <<c[1], K[c]>>, n) : Fine(x)
    BY <2>3, <2>10 DEF Image
  <2>12. (\A x \in Nest(here, y, n + 1) : IsKnown(x[1], x[2])) <=>
           IsKnown(b, u) /\ \A c \in Inside(here, y) : \A x \in Nest(here, c, n) : IsKnown(x[1], x[2])
    BY <2>7, <2>10
  <2>13. Fine(z) <=> IsKnown(b, u)
    BY <2>2, <2>7 DEF Fine
  <2>14. (\A x \in Nest(here, z, n + 1) : Fine(x)) <=> \A x \in Nest(here, y, n + 1) : IsKnown(x[1], x[2])
    BY <2>6, <2>11, <2>12, <2>13
  <2> QED BY <2>8, <2>9, <2>14 DEF Honest, y, z
<1>3. depth \in Nat
  BY DEF Relaying, Sending
<1>4. depth \in S
  <2>1. \A n \in Nat : n < depth /\ n \in S => n + 1 \in S
    <3> SUFFICES ASSUME NEW n \in Nat, n \in S, NEW a, NEW b, NEW u, Relaying(package, there, here, a, b, u, n + 1)
                 PROVE  Honest(here, b, u, n + 1)
      OBVIOUS
    <3> HIDE DEF S
    <3> QED BY <1>2
  <2> HIDE DEF S
  <2>2. \A n \in 0 .. depth : n \in S
    BY <1>1, <1>3, <2>1, InductionTo
  <2> QED BY <1>3, <2>2
<1> QED BY <1>4

LEMMA InvRelayIsHonest == Inv => RelayIsHonest
<1> SUFFICES ASSUME Inv, stage = "end", sort = "whole", Legible, answer.status = "ok"
             PROVE  Relayed.ok <=> Everywhere(Here(call), call, IsKnown)
  BY DEF RelayIsHonest
<1> SUFFICES ASSUME NEW c, c = call, NEW w, w = wire, NEW a, a = answer
             PROVE  EncodeIn(Here(c), c, a.value).ok <=> Everywhere(Here(c), c, IsKnown)
  BY DEF Relayed
<1>1. /\ c \in Calls /\ a = DecodeIn(Here(c), c, w) /\ a.status = "ok"
      /\ SentIn(c).ok /\ \E tail \in Tails : w = SentIn(c).bits \o tail
  BY DEF Inv, Staged, Handed, Answered, Sent, SentIn, Received
<1>2. LegibleIn(c)
  BY LegibleCall
<1>3. PICK tail \in Tails : w = SentIn(c).bits \o tail
  BY <1>1
<1>4. a = Decoded(ProjectionIn(Here(c), c, Value(c)), Len(SentIn(c).bits))
  BY <1>1, <1>2, <1>3, WholeReceived
<1>5. IsMessage(w)
  BY WireMessage
<1> DEFINE here == Here(c)
           there == There(c)
           r == Here(c)[c[2]]
           s == There(c)[c[2]]
           v == Value(c)
           package == c[1]
           x == a.value
<1>6. x = Projection(here, <<r, v>>, MaxDepth)
  BY <1>4 DEF Decoded, ProjectionIn
<1>7. Sending(package, here, r, x, MaxDepth)
  BY <1>1, <1>5, AcceptedSends
<1>8. EncodeIn(here, c, x) = Encode(here, <<r, x>>, MaxDepth)
  BY DEF EncodeIn
<1>9. Everywhere(here, c, IsKnown) <=> \A y \in Nest(here, <<r, v>>, MaxDepth) : IsKnown(y[1], y[2])
  BY DEF Everywhere
<1>10. /\ Sending(package, there, s, v, MaxDepth) /\ Versions(package, there, here)
       /\ r \in Shapes[package] /\ Related(s, r)
  BY <1>1, CallFacts
<1>11. \A z \in Nest(there, <<s, v>>, MaxDepth) : Fine(z)
  BY <1>1, SentFacts
<1> HIDE DEF here, there, r, s, v, package, x
<1>12. Relaying(package, there, here, s, r, v, MaxDepth)
  BY <1>10, <1>11 DEF Relaying
<1>13. Honest(here, r, v, MaxDepth)
  BY <1>12, RelayingHonest
<1>14. Encode(here, <<r, x>>, MaxDepth).ok <=> \A y \in Nest(here, <<r, x>>, MaxDepth) : Fine(y)
  BY <1>7, EncodeFacts
<1>15. EncodeIn(here, c, x).ok <=> Everywhere(here, c, IsKnown)
  BY <1>6, <1>8, <1>9, <1>13, <1>14 DEF Honest
<1> QED BY <1>15 DEF here, x

(* A receiver that passes on what it has accepted is refused by its own    *)
(* encoder if there is an alternative or an item in it that it does not    *)
(* know, and only then, however deep in the types of the package it is.    *)
THEOREM PduRelayIsHonest == Spec => []RelayIsHonest
BY PduInvariant, InvRelayIsHonest, PTL

-----------------------------------------------------------------------------
(* The same or the next version of a type.                                 *)
Ahead(s, r) == r = s \/ (Versioned(s) /\ r = Later(s))

LEMMA AheadFacts ==
  ASSUME NEW package, NEW s, NEW r, IsShape(package, s), IsShape(package, r), Ahead(s, r)
  PROVE  /\ Related(s, r) /\ r.kind = s.kind
         /\ ~(s.kind \in {"Sequence", "Choice", "Enumerated"}) => r = s
         /\ s.kind \in {"Sequence", "Choice", "Enumerated"} =>
              /\ r.root = s.root /\ r.extensible = s.extensible
              /\ IsSequence(s.root) /\ IsSequence(s.more) /\ IsSequence(r.more)
              /\ DOMAIN s.more \subseteq DOMAIN r.more
              /\ \A k \in DOMAIN s.more : r.more[k] = s.more[k]
<1>1. Related(s, r)
  BY DEF Ahead, Related
<1>2. CASE r = s
  BY <1>1, <1>2 DEF IsShape
<1>3. CASE Versioned(s) /\ r = Later(s)
  <2> DEFINE a == Len(s.more)
             b == Len(r.more)
  <2>1. /\ r.kind = s.kind /\ r.root = s.root /\ r.extensible = s.extensible
        /\ a \in Nat /\ b = a + 2 /\ \A k \in 1 .. a : r.more[k] = s.more[k]
    BY <1>3, LaterFacts
  <2>2. s.kind \in {"Sequence", "Choice", "Enumerated"}
    BY <1>3 DEF Versioned
  <2>3. IsSequence(s.root) /\ IsSequence(s.more) /\ IsSequence(r.more)
    BY <2>1, <2>2 DEF IsShape
  <2>4. DOMAIN s.more = 1 .. a /\ DOMAIN r.more = 1 .. b
    BY <2>3, DomainOf
  <2> HIDE DEF a, b
  <2>5. 1 .. a \subseteq 1 .. b
    BY <2>1
  <2> QED BY <1>1, <2>1, <2>2, <2>3, <2>4, <2>5
<1> QED BY <1>2, <1>3 DEF Ahead

LEMMA AheadParts ==
  ASSUME NEW s, NEW r, r.root = s.root, IsSequence(s.root), IsSequence(s.more), IsSequence(r.more),
         DOMAIN s.more \subseteq DOMAIN r.more, \A k \in DOMAIN s.more : r.more[k] = s.more[k],
         NEW j \in DOMAIN Parts(s)
  PROVE  j \in DOMAIN Parts(r) /\ Parts(r)[j] = Parts(s)[j]
<1> DEFINE n == Len(s.root)
           a == Len(s.more)
           b == Len(r.more)
<1>1. /\ n \in Nat /\ a \in Nat /\ DOMAIN Parts(s) = 1 .. n + a
      /\ (\A k \in 1 .. n : Parts(s)[k] = s.root[k]) /\ \A k \in 1 .. a : Parts(s)[n + k] = s.more[k]
  BY PartsFacts
<1>2. /\ b \in Nat /\ DOMAIN Parts(r) = 1 .. n + b
      /\ (\A k \in 1 .. n : Parts(r)[k] = s.root[k]) /\ \A k \in 1 .. b : Parts(r)[n + k] = r.more[k]
  <2>1. IsSequence(r.root) /\ Len(r.root) = n
    OBVIOUS
  <2>2. /\ b \in Nat /\ DOMAIN Parts(r) = 1 .. Len(r.root) + b
        /\ (\A k \in 1 .. Len(r.root) : Parts(r)[k] = r.root[k]) /\ \A k \in 1 .. b : Parts(r)[Len(r.root) + k] = r.more[k]
    BY <2>1, PartsFacts
  <2> QED BY <2>1, <2>2
<1>3. 1 .. a \subseteq 1 .. b /\ \A k \in 1 .. a : r.more[k] = s.more[k]
  BY DomainOf
<1> HIDE DEF n, a, b
<1>4. CASE j <= n
  <2>1. j \in 1 .. n /\ j \in 1 .. n + b
    BY <1>1, <1>2, <1>4
  <2> QED BY <1>1, <1>2, <2>1
<1>5. CASE ~(j <= n)
  <2> DEFINE i == j - n
  <2>1. i \in 1 .. a /\ n + i = j /\ j \in Nat
    BY <1>1, <1>5
  <2> HIDE DEF i
  <2>2. i \in 1 .. b /\ r.more[i] = s.more[i]
    BY <1>3, <2>1
  <2>3. j \in 1 .. n + b
    BY <1>1, <1>2, <2>1, <2>2
  <2>4. Parts(r)[n + i] = r.more[i] /\ Parts(s)[n + i] = s.more[i]
    BY <1>1, <1>2, <2>1, <2>2
  <2> QED BY <1>2, <2>1, <2>2, <2>3, <2>4
<1> QED BY <1>4, <1>5

(* What is made of some parts by tables that know more, and then again by  *)
(* those that the parts are of.                                            *)
LEMMA HeldReturned ==
  ASSUME NEW parts, NEW further, NEW values, NEW K, NEW M, IsSequence(parts), IsSequence(further),
         DOMAIN parts \subseteq DOMAIN further, \A k \in DOMAIN parts : further[k] = parts[k],
         AreHeld(parts, values)
  PROVE  /\ Held(parts, ProjectParts(further, values, K)) = Image(Held(further, values), K)
         /\ (\A b \in Held(further, values) : M[<<b[1], K[b]>>] = b[2]) =>
              ProjectParts(parts, ProjectParts(further, values, K), M) = values
<1> DEFINE made == ProjectParts(further, values, K)
           all == DOMAIN parts
           has == {k \in all : values[k] # None}
           y(k) == <<parts[k].type, values[k][1]>>
<1>0. /\ DOMAIN values = all /\ all = 1 .. Len(values) /\ values = [k \in 1 .. Len(values) |-> values[k]]
      /\ \A k \in all : values[k] = None \/ values[k] = Some(values[k][1])
  BY DomainOf DEF AreHeld, IsSequence
<1>1. DOMAIN made = DOMAIN further
  BY DEF ProjectParts
<1>2. ASSUME NEW k \in all
      PROVE  /\ k \in has => made[k] = Some(K[y(k)])
             /\ k \notin has => made[k] = None
             /\ k \in DOMAIN made
  <2>1. made[k] = IF k \in DOMAIN values /\ values[k] # None THEN Some(K[y(k)]) ELSE None
    BY DEF ProjectParts
  <2> HIDE DEF y, made
  <2> QED BY <1>0, <1>1, <2>1
<1>3. \A k \in has : made[k] # None /\ made[k][1] = K[y(k)]
  <2> HIDE DEF y, made
  <2> QED BY <1>2, NoneSome
<1>4. Held(further, values) = {y(k) : k \in has}
  <2>1. {k \in DOMAIN further : k \in DOMAIN values /\ values[k] # None} = has
    BY <1>0
  <2>2. Held(further, values) = {<<further[k].type, values[k][1]>> : k \in has}
    BY <2>1 DEF Held
  <2> QED BY <2>2
<1>5. Held(parts, made) = {<<parts[k].type, made[k][1]>> : k \in has}
  <2> HIDE DEF made, y
  <2>1. {k \in DOMAIN parts : k \in DOMAIN made /\ made[k] # None} = has
    BY <1>2, <1>3
  <2> QED BY <2>1 DEF Held
<1>6. \A k : y(k)[1] = parts[k].type /\ y(k)[2] = values[k][1]
  OBVIOUS
<1> HIDE DEF y, made, has
<1>7. Image({y(k) : k \in has}, K) = {<<y(k)[1], K[y(k)]>> : k \in has}
  BY DEF Image
<1>8. Held(parts, made) = Image(Held(further, values), K)
  BY <1>3, <1>4, <1>5, <1>6, <1>7
<1>9. ASSUME \A b \in Held(further, values) : M[<<b[1], K[b]>>] = b[2]
      PROVE  ProjectParts(parts, made, M) = values
  <2> DEFINE back == ProjectParts(parts, made, M)
  <2>1. back = [k \in all |-> back[k]]
    BY DEF ProjectParts
  <2>2. ASSUME NEW k \in all
        PROVE  back[k] = values[k]
    <3>1. back[k] = IF k \in DOMAIN made /\ made[k] # None THEN Some(M[<<parts[k].type, made[k][1]>>]) ELSE None
      BY DEF ProjectParts
    <3> HIDE DEF back
    <3>2. CASE k \in has
      <4>1. back[k] = Some(M[<<y(k)[1], K[y(k)]>>])
        BY <1>2, <1>3, <1>6, <3>1, <3>2
      <4>2. M[<<y(k)[1], K[y(k)]>>] = y(k)[2]
        BY <1>4, <1>9, <3>2
      <4>3. back[k] = Some(values[k][1])
        BY <1>6, <4>1, <4>2
      <4>4. values[k] # None
        BY <3>2 DEF has
      <4> QED BY <1>0, <4>3, <4>4
    <3>3. CASE k \notin has
      <4>1. values[k] = None
        BY <3>3 DEF has
      <4> QED BY <1>2, <3>1, <3>3, <4>1
    <3> QED BY <3>2, <3>3
  <2> HIDE DEF back, all
  <2>3. back = [k \in all |-> values[k]]
    BY <2>1, <2>2
  <2>4. back = values
    BY <1>0, <2>3
  <2> QED BY <2>4 DEF back
<1> QED BY <1>8, <1>9 DEF made

(* What tables that know more make of a value, and these make of that.     *)
Back(types, later, s, r, v, K, M) == Project(types, <<s, Project(later, <<r, v>>, K)>>, M)
Returns(types, later, s, r, v, K, M) ==
  LET m == Project(later, <<r, v>>, K)
      p == <<types[s.name], K[<<later[s.name], v>>]>>
  IN  /\ s.kind = "Ref" => Inside(types, <<s, m>>) = {p} /\ Back(types, later, s, r, v, K, M) = M[p]
      /\ s.kind # "Ref" =>
           /\ Inside(types, <<s, m>>) = Image(Inside(later, <<r, v>>), K)
           /\ (\A b \in Inside(later, <<r, v>>) : M[<<b[1], K[b]>>] = b[2]) =>
                Back(types, later, s, r, v, K, M) = v

LEMMA ReturnsRef ==
  ASSUME NEW types, NEW later, NEW s, NEW v, NEW K, NEW M, s.kind = "Ref"
  PROVE  Returns(types, later, s, s, v, K, M)
<1> DEFINE m == Project(later, <<s, v>>, K)
           p == <<types[s.name], K[<<later[s.name], v>>]>>
<1>1. m = K[<<later[s.name], v>>]
  BY DEF Project
<1>2. \A u : Inside(types, <<s, u>>) = {<<types[s.name], u>>} /\ Project(types, <<s, u>>, M) = M[<<types[s.name], u>>]
  BY DEF Inside, Project
<1> HIDE DEF m
<1>3. Inside(types, <<s, m>>) = {p} /\ Project(types, <<s, m>>, M) = M[p]
  BY <1>1, <1>2
<1> QED BY <1>3 DEF Returns, Back, m

LEMMA ReturnsSequence ==
  ASSUME NEW package, NEW types, NEW later, NEW s, NEW r, NEW v, NEW K, NEW M,
         IsShape(package, s), IsShape(package, r), Ahead(s, r), IsTyped(s, v), s.kind = "Sequence"
  PROVE  Returns(types, later, s, r, v, K, M)
<1> DEFINE m == Project(later, <<r, v>>, K)
           a == ProjectParts(s.root, v.root, K)
           b == ProjectParts(r.more, v.more, K)
           inside == Inside(later, <<r, v>>)
           roots == Held(s.root, v.root)
           more == Held(r.more, v.more)
           a2 == ProjectParts(s.root, a, M)
           b2 == ProjectParts(s.more, b, M)
           back == Project(types, <<s, m>>, M)
<1>1. /\ r.kind = "Sequence" /\ r.root = s.root /\ IsSequence(s.root) /\ IsSequence(s.more) /\ IsSequence(r.more)
      /\ DOMAIN s.more \subseteq DOMAIN r.more /\ \A k \in DOMAIN s.more : r.more[k] = s.more[k]
  BY AheadFacts
<1>2. v = Struct(v.root, v.more) /\ AreHeld(s.root, v.root) /\ AreHeld(s.more, v.more)
  BY DEF IsTyped
<1>3. m = Struct(a, b) /\ inside = roots \union more
  BY <1>1 DEF Project, Inside
<1>4. m.root = a /\ m.more = b
  BY <1>3 DEF Struct
<1>5. \A u : Inside(types, <<s, u>>) = Held(s.root, u.root) \union Held(s.more, u.more)
  BY DEF Inside
<1>6. \A u : Project(types, <<s, u>>, M) = Struct(ProjectParts(s.root, u.root, M), ProjectParts(s.more, u.more, M))
  BY DEF Project
<1> HIDE DEF m, inside
<1>7. Inside(types, <<s, m>>) = Held(s.root, a) \union Held(s.more, b) /\ back = Struct(a2, b2)
  BY <1>4, <1>5, <1>6
<1>8. /\ Held(s.root, a) = Image(roots, K)
      /\ (\A y \in roots : M[<<y[1], K[y]>>] = y[2]) => a2 = v.root
  BY <1>1, <1>2, HeldReturned
<1>9. /\ Held(s.more, b) = Image(more, K)
      /\ (\A y \in more : M[<<y[1], K[y]>>] = y[2]) => b2 = v.more
  BY <1>1, <1>2, HeldReturned
<1> HIDE DEF roots, more, a, b, a2, b2, back
<1>10. Image(inside, K) = Image(roots, K) \union Image(more, K)
  BY <1>3 DEF Image
<1>11. Inside(types, <<s, m>>) = Image(inside, K)
  BY <1>7, <1>8, <1>9, <1>10
<1>12. (\A y \in inside : M[<<y[1], K[y]>>] = y[2]) => back = v
  BY <1>2, <1>3, <1>7, <1>8, <1>9
<1> QED BY <1>11, <1>12 DEF Returns, Back, m, inside, back

LEMMA ReturnsChoice ==
  ASSUME NEW package, NEW types, NEW later, NEW s, NEW r, NEW v, NEW K, NEW M,
         IsShape(package, s), IsShape(package, r), Ahead(s, r), IsTyped(s, v), IsKnown(s, v), s.kind = "Choice"
  PROVE  Returns(types, later, s, r, v, K, M)
<1> DEFINE m == Project(later, <<r, v>>, K)
           j == v[1]
           t == Parts(s)[v[1]].type
           y == <<t, v[2]>>
           back == Project(types, <<s, m>>, M)
           inside == Inside(later, <<r, v>>)
<1>1. /\ r.kind = "Choice" /\ r.root = s.root /\ IsSequence(s.root) /\ IsSequence(s.more) /\ IsSequence(r.more)
      /\ DOMAIN s.more \subseteq DOMAIN r.more /\ \A k \in DOMAIN s.more : r.more[k] = s.more[k]
  BY AheadFacts
<1>2. v = Tagged(v[1], v[2]) /\ j \in DOMAIN Parts(s)
  BY DEF IsTyped, IsKnown
<1>3. j \in DOMAIN Parts(r) /\ Parts(r)[j].type = t
  BY <1>1, <1>2, AheadParts
<1>4. m = Tagged(j, K[y])
  BY <1>1, <1>3 DEF Project
<1>5. inside = {y}
  <2>1. inside = {<<Parts(r)[k].type, v[2]>> : k \in {i \in DOMAIN Parts(r) : i = j}}
    BY <1>1 DEF Inside
  <2>2. {i \in DOMAIN Parts(r) : i = j} = {j}
    BY <1>3
  <2> QED BY <1>3, <2>1, <2>2
<1> HIDE DEF m, inside
<1>6. m[1] = j /\ m[2] = K[y] /\ y[1] = t /\ y[2] = v[2]
  BY <1>4 DEF Tagged
<1>7. Inside(types, <<s, m>>) = {<<t, K[y]>>}
  <2>1. Inside(types, <<s, m>>) = {<<Parts(s)[k].type, m[2]>> : k \in {i \in DOMAIN Parts(s) : i = m[1]}}
    BY DEF Inside
  <2>2. {i \in DOMAIN Parts(s) : i = m[1]} = {j}
    BY <1>2, <1>6
  <2> QED BY <1>6, <2>1, <2>2
<1>8. back = Tagged(j, M[<<t, K[y]>>])
  <2>1. back = IF m[1] \in DOMAIN Parts(s) THEN Tagged(m[1], M[<<Parts(s)[m[1]].type, m[2]>>]) ELSE Unset
    BY DEF Project
  <2> HIDE DEF back, y
  <2> QED BY <1>2, <1>6, <2>1
<1> HIDE DEF back, y, t, j
<1>9. Image(inside, K) = {<<y[1], K[y]>>}
  BY <1>5 DEF Image
<1>10. Inside(types, <<s, m>>) = Image(inside, K)
  BY <1>6, <1>7, <1>9
<1>11. (\A b \in inside : M[<<b[1], K[b]>>] = b[2]) => back = v
  <2> SUFFICES ASSUME \A b \in inside : M[<<b[1], K[b]>>] = b[2] PROVE back = v
    OBVIOUS
  <2>1. M[<<y[1], K[y]>>] = y[2]
    BY <1>5
  <2>2. back = Tagged(j, v[2])
    BY <1>6, <1>8, <2>1
  <2> QED BY <1>2, <2>2 DEF j
<1>12. s.kind # "Ref"
  OBVIOUS
<1> QED BY <1>10, <1>11, <1>12 DEF Returns, Back, m, inside, back

LEMMA ReturnsEnumerated ==
  ASSUME NEW package, NEW types, NEW later, NEW s, NEW r, NEW v, NEW K, NEW M,
         IsShape(package, s), IsShape(package, r), Ahead(s, r), IsKnown(s, v), s.kind = "Enumerated"
  PROVE  Returns(types, later, s, r, v, K, M)
<1> DEFINE m == Project(later, <<r, v>>, K)
<1>1. /\ r.kind = "Enumerated" /\ r.root = s.root /\ IsSequence(s.root) /\ IsSequence(s.more) /\ IsSequence(r.more)
      /\ DOMAIN s.more \subseteq DOMAIN r.more /\ \A k \in DOMAIN s.more : r.more[k] = s.more[k]
  BY AheadFacts
<1>2. IsEnum(s) /\ IsEnum(r)
  BY <1>1, EnumFacts
<1>3. PositionOf(s, v) # 0
  BY DEF IsKnown
<1> DEFINE j == PositionOf(s, v)
<1>4. j \in DOMAIN Parts(s) /\ Parts(s)[j].value = v
  BY <1>2, <1>3, PositionFacts
<1> HIDE DEF j
<1>5. j \in DOMAIN Parts(r) /\ Parts(r)[j].value = v
  BY <1>1, <1>4, AheadParts
<1>6. PositionOf(r, v) # 0
  <2>1. PositionOf(r, v) = j
    BY <1>2, <1>5, PositionFacts
  <2> QED BY <1>3, <2>1 DEF j
<1>7. m = v
  BY <1>1, <1>6 DEF Project
<1>8. Project(types, <<s, v>>, M) = v
  BY <1>3 DEF Project
<1>9. Inside(types, <<s, v>>) = {} /\ Inside(later, <<r, v>>) = {}
  BY <1>1, InsideCases
<1>10. Image({}, K) = {}
  BY DEF Image
<1> HIDE DEF m
<1> QED BY <1>7, <1>8, <1>9, <1>10 DEF Returns, Back, m

LEMMA ReturnsList ==
  ASSUME NEW types, NEW later, NEW s, NEW v, NEW K, NEW M, IsTyped(s, v), s.kind = "ListOf"
  PROVE  Returns(types, later, s, s, v, K, M)
<1> DEFINE m == Project(later, <<s, v>>, K)
           y(k) == <<s.of, v[k]>>
           inside == Inside(later, <<s, v>>)
           back == Project(types, <<s, m>>, M)
<1>1. IsSequence(v)
  BY DEF IsTyped
<1>2. v = [k \in DOMAIN v |-> v[k]]
  BY <1>1, DomainOf DEF IsSequence
<1>3. m = [k \in DOMAIN v |-> K[y(k)]] /\ inside = {y(k) : k \in DOMAIN v}
  BY DEF Project, Inside
<1>4. DOMAIN m = DOMAIN v /\ \A k \in DOMAIN v : m[k] = K[y(k)]
  BY <1>3
<1> HIDE DEF m, inside
<1>5. Inside(types, <<s, m>>) = {<<s.of, m[k]>> : k \in DOMAIN m} /\ back = [k \in DOMAIN m |-> M[<<s.of, m[k]>>]]
  BY DEF Project, Inside
<1>6. \A k : y(k)[1] = s.of /\ y(k)[2] = v[k]
  OBVIOUS
<1> HIDE DEF y, back
<1>7. Image(inside, K) = {<<y(k)[1], K[y(k)]>> : k \in DOMAIN v}
  BY <1>3 DEF Image
<1>8. Inside(types, <<s, m>>) = Image(inside, K)
  BY <1>4, <1>5, <1>6, <1>7
<1>9. ASSUME \A b \in inside : M[<<b[1], K[b]>>] = b[2]
      PROVE  back = v
  <2>1. \A k \in DOMAIN v : M[<<s.of, m[k]>>] = v[k]
    BY <1>3, <1>4, <1>6, <1>9
  <2> DEFINE all == DOMAIN v
  <2>2. back = [k \in all |-> M[<<s.of, m[k]>>]]
    BY <1>4, <1>5
  <2> HIDE DEF all
  <2>3. back = [k \in all |-> v[k]]
    BY <2>1, <2>2 DEF all
  <2> QED BY <1>2, <2>3 DEF all
<1> QED BY <1>8, <1>9 DEF Returns, Back, m, inside, back

LEMMA Returned ==
  ASSUME NEW package, NEW types, NEW later, NEW s, NEW r, NEW v, NEW K, NEW M,
         IsShape(package, s), IsShape(package, r), Ahead(s, r), IsTyped(s, v), IsKnown(s, v)
  PROVE  Returns(types, later, s, r, v, K, M)
<1>0. ~(s.kind \in {"Sequence", "Choice", "Enumerated"}) => r = s
  BY AheadFacts
<1>1. CASE s.kind = "Sequence"
  BY <1>1, ReturnsSequence
<1>2. CASE s.kind = "Choice"
  BY <1>2, ReturnsChoice
<1>3. CASE s.kind = "Enumerated"
  BY <1>3, ReturnsEnumerated
<1>4. CASE s.kind = "ListOf"
  BY <1>0, <1>4, ReturnsList
<1>5. CASE s.kind = "Ref"
  BY <1>0, <1>5, ReturnsRef
<1>6. CASE s.kind \notin {"Ref", "Sequence", "Choice", "Enumerated", "ListOf"}
  <2>1. r = s
    BY <1>0, <1>6
  <2>2. \A tables, table : Project(tables, <<s, v>>, table) = v
    BY <1>6 DEF Project
  <2>3. \A tables : Inside(tables, <<s, v>>) = {}
    BY <1>6, InsideCases
  <2>4. Image({}, K) = {}
    BY DEF Image
  <2>5. Project(later, <<r, v>>, K) = v
    BY <2>1, <2>2
  <2>6. Back(types, later, s, r, v, K, M) = v
    BY <2>2, <2>5 DEF Back
  <2>7. Inside(types, <<s, Project(later, <<r, v>>, K)>>) = Image(Inside(later, <<r, v>>), K)
    BY <2>1, <2>3, <2>4, <2>5
  <2> QED BY <1>6, <2>6, <2>7 DEF Returns
<1> QED BY <1>1, <1>2, <1>3, <1>4, <1>5, <1>6

(* What tables make of a value that they know all of is that value.        *)
LEMMA PartsKept ==
  ASSUME NEW parts, NEW values, NEW K, IsSequence(parts), AreHeld(parts, values),
         \A b \in Held(parts, values) : K[b] = b[2]
  PROVE  ProjectParts(parts, values, K) = values
<1> DEFINE all == DOMAIN parts
           made == ProjectParts(parts, values, K)
           y(k) == <<parts[k].type, values[k][1]>>
<1>1. /\ DOMAIN values = all /\ all = 1 .. Len(values) /\ values = [k \in 1 .. Len(values) |-> values[k]]
      /\ \A k \in all : values[k] = None \/ values[k] = Some(values[k][1])
  BY DomainOf DEF AreHeld, IsSequence
<1>2. made = [k \in all |-> made[k]]
  BY DEF ProjectParts
<1>3. \A k \in all : values[k] # None => y(k) \in Held(parts, values)
  BY <1>1 DEF Held
<1>4. \A k : y(k)[2] = values[k][1]
  OBVIOUS
<1>5. ASSUME NEW k \in all
      PROVE  made[k] = values[k]
  <2>1. made[k] = IF k \in DOMAIN values /\ values[k] # None THEN Some(K[y(k)]) ELSE None
    BY DEF ProjectParts
  <2> HIDE DEF y, made
  <2>2. CASE values[k] = None
    BY <2>1, <2>2
  <2>3. CASE values[k] # None
    <3>1. K[y(k)] = values[k][1]
      BY <1>3, <1>4, <2>3
    <3>2. made[k] = Some(values[k][1])
      BY <1>1, <2>1, <2>3, <3>1
    <3> QED BY <1>1, <2>3, <3>2
  <2> QED BY <2>2, <2>3
<1> HIDE DEF made, all, y
<1>6. made = [k \in all |-> values[k]]
  BY <1>2, <1>5
<1>7. made = values
  BY <1>1, <1>6
<1> QED BY <1>7 DEF made

LEMMA Kept ==
  ASSUME NEW package, NEW types, NEW s, NEW v, NEW K, IsShape(package, s), IsTyped(s, v), IsKnown(s, v),
         s.kind # "Ref", \A b \in Inside(types, <<s, v>>) : K[b] = b[2]
  PROVE  Project(types, <<s, v>>, K) = v
<1>1. CASE s.kind = "Sequence"
  <2>1. IsSequence(s.root) /\ IsSequence(s.more)
    BY <1>1 DEF IsShape
  <2>2. v = Struct(v.root, v.more) /\ AreHeld(s.root, v.root) /\ AreHeld(s.more, v.more)
    BY <1>1 DEF IsTyped
  <2>3. Inside(types, <<s, v>>) = Held(s.root, v.root) \union Held(s.more, v.more)
    BY <1>1 DEF Inside
  <2>4. ProjectParts(s.root, v.root, K) = v.root
    BY <2>1, <2>2, <2>3, PartsKept
  <2>5. ProjectParts(s.more, v.more, K) = v.more
    BY <2>1, <2>2, <2>3, PartsKept
  <2>6. Project(types, <<s, v>>, K) = Struct(ProjectParts(s.root, v.root, K), ProjectParts(s.more, v.more, K))
    BY <1>1 DEF Project
  <2> QED BY <2>2, <2>4, <2>5, <2>6
<1>2. CASE s.kind = "Choice"
  <2> DEFINE y == <<Parts(s)[v[1]].type, v[2]>>
  <2>1. v = Tagged(v[1], v[2]) /\ v[1] \in DOMAIN Parts(s)
    BY <1>2 DEF IsTyped, IsKnown
  <2>2. Inside(types, <<s, v>>) = {<<Parts(s)[k].type, v[2]>> : k \in {i \in DOMAIN Parts(s) : i = v[1]}}
    BY <1>2 DEF Inside
  <2>3. y \in Inside(types, <<s, v>>)
    BY <2>1, <2>2
  <2>4. y[2] = v[2]
    OBVIOUS
  <2>5. Project(types, <<s, v>>, K) = Tagged(v[1], K[y])
    BY <1>2, <2>1 DEF Project
  <2> HIDE DEF y
  <2> QED BY <2>1, <2>3, <2>4, <2>5
<1>3. CASE s.kind = "Enumerated"
  BY <1>3 DEF Project, IsKnown
<1>4. CASE s.kind = "ListOf"
  <2> DEFINE all == DOMAIN v
             y(k) == <<s.of, v[k]>>
  <2>1. v = [k \in all |-> v[k]]
    BY <1>4, DomainOf DEF IsTyped, IsSequence
  <2>2. Project(types, <<s, v>>, K) = [k \in all |-> K[y(k)]] /\ Inside(types, <<s, v>>) = {y(k) : k \in all}
    BY <1>4 DEF Project, Inside
  <2>3. \A k : y(k)[2] = v[k]
    OBVIOUS
  <2> HIDE DEF all, y
  <2>4. \A k \in all : K[y(k)] = v[k]
    BY <2>2, <2>3
  <2>5. Project(types, <<s, v>>, K) = [k \in all |-> v[k]]
    BY <2>2, <2>4
  <2> QED BY <2>1, <2>5
<1>5. CASE s.kind \notin {"Ref", "Sequence", "Choice", "Enumerated", "ListOf"}
  BY <1>5 DEF Project
<1> QED BY <1>1, <1>2, <1>3, <1>4, <1>5

(* A value that is passed on, by tables that know all of it, to the same   *)
(* or to later ones.                                                       *)
Returning(package, types, later, s, r, v, n) ==
  /\ Relaying(package, types, later, s, r, v, n) /\ Ahead(s, r)
  /\ \A name \in DOMAIN Packages[package] : Ahead(types[name], later[name])

LEMMA ReturningFacts ==
  ASSUME NEW package, NEW types, NEW later, NEW s, NEW r, NEW v, NEW n \in Nat,
         Returning(package, types, later, s, r, v, n + 1)
  PROVE  /\ IsShape(package, s) /\ IsShape(package, r) /\ Ahead(s, r) /\ IsTyped(s, v) /\ IsKnown(s, v)
         /\ s.kind = "Ref" =>
              /\ r = s /\ Inside(later, <<r, v>>) = {<<later[s.name], v>>}
              /\ Returning(package, types, later, types[s.name], later[s.name], v, n)
         /\ s.kind # "Ref" =>
              \A b \in Inside(later, <<r, v>>) : b = <<b[1], b[2]>> /\ Returning(package, types, later, b[1], b[1], b[2], n)
<1> DEFINE x == <<s, v>>
<1>1. /\ IsShape(package, s) /\ IsShape(package, r) /\ Related(s, r)
      /\ IsTyped(s, v) /\ IsKnown(s, v) /\ IsSized(s, v)
      /\ \A a \in Inside(types, x) :
           /\ Sending(package, types, a[1], a[2], n) /\ a = <<a[1], a[2]>>
           /\ \A z \in Nest(types, a, n) : Fine(z)
  BY RelayingFacts DEF Returning
<1>2. /\ Versions(package, types, later) /\ InPackage(package, later) /\ r \in Shapes[package] /\ Ahead(s, r)
      /\ \A name \in DOMAIN Packages[package] :
           /\ Ahead(types[name], later[name]) /\ Related(types[name], later[name]) /\ later[name] \in Shapes[package]
  BY DEF Returning, Relaying, Versions, InPackage
<1>3. ASSUME s.kind = "Ref"
      PROVE  /\ r = s /\ Inside(later, <<r, v>>) = {<<later[s.name], v>>}
             /\ Returning(package, types, later, types[s.name], later[s.name], v, n)
  <2>1. r = s
    BY <1>1, <1>2, <1>3, AheadFacts
  <2> DEFINE p == <<types[s.name], v>>
  <2>2. p \in Inside(types, x) /\ s.name \in DOMAIN Packages[package] /\ Inside(later, <<r, v>>) = {<<later[s.name], v>>}
    BY <1>1, <1>3, <2>1, InsideCases DEF IsShape
  <2>3. p[1] = types[s.name] /\ p[2] = v /\ p = <<types[s.name], v>>
    OBVIOUS
  <2> HIDE DEF p, x
  <2>4. Sending(package, types, types[s.name], v, n) /\ \A z \in Nest(types, <<types[s.name], v>>, n) : Fine(z)
    BY <1>1, <2>2, <2>3
  <2>5. Relaying(package, types, later, types[s.name], later[s.name], v, n)
    BY <1>2, <2>2, <2>4 DEF Relaying
  <2> QED BY <1>2, <2>1, <2>2, <2>5 DEF Returning
<1>4. ASSUME s.kind # "Ref", NEW b \in Inside(later, <<r, v>>)
      PROVE  b = <<b[1], b[2]>> /\ Returning(package, types, later, b[1], b[1], b[2], n)
  <2>1. b = <<b[1], b[2]>> /\ b[1] \in Shapes[package]
    BY <1>2, PairFacts, InsideShapes
  <2>2. Inside(later, <<r, v>>) \subseteq Inside(types, x)
    BY <1>1, <1>4, KidsSame
  <2> HIDE DEF x
  <2>3. Sending(package, types, b[1], b[2], n) /\ \A z \in Nest(types, b, n) : Fine(z)
    BY <1>1, <2>2
  <2>4. \A z \in Nest(types, <<b[1], b[2]>>, n) : Fine(z)
    BY <2>1, <2>3
  <2>5. Relaying(package, types, later, b[1], b[1], b[2], n)
    BY <1>2, <2>1, <2>3, <2>4 DEF Relaying, Related
  <2> QED BY <1>2, <2>1, <2>5 DEF Returning, Ahead
<1> QED BY <1>1, <1>2, <1>3, <1>4

LEMMA AheadLegible ==
  ASSUME NEW package, NEW s, NEW r, NEW v, IsShape(package, s), IsShape(package, r), Ahead(s, r), IsTyped(s, v)
  PROVE  IsLegible(r, v)
<1> SUFFICES ASSUME r.kind = "Sequence", r.more = <<>>, NEW k \in DOMAIN v.more PROVE FALSE
  BY DEF IsLegible
<1>1. s.kind = "Sequence" /\ IsSequence(s.more) /\ DOMAIN s.more \subseteq DOMAIN r.more
  BY AheadFacts
<1>2. AreHeld(s.more, v.more)
  BY <1>1 DEF IsTyped
<1>3. DOMAIN v.more = 1 .. Len(v.more) /\ DOMAIN s.more = 1 .. Len(s.more) /\ Len(v.more) = Len(s.more)
  BY <1>1, <1>2, DomainOf DEF AreHeld
<1>4. DOMAIN r.more = {}
  OBVIOUS
<1> QED BY <1>1, <1>3, <1>4

LEMMA NothingReached == ASSUME NEW types, NEW x PROVE Level(types, x, 0) # {}
<1>1. PICK g : AreReached(g, types, x, 0)
  BY ReachedDefined
<1>2. x \in g[0].last /\ Level(types, x, 0) = g[0].last
  BY <1>1, NestFacts
<1> QED BY <1>2

(* The later tables can read the value, and what they make of it is, to    *)
(* the tables it is from, the value again.                                 *)
IsReturned(types, later, s, r, v, n) ==
  LET m == Projection(later, <<r, v>>, n)
  IN  /\ \A y \in Nest(later, <<r, v>>, n) : IsLegible(y[1], y[2])
      /\ Level(types, <<s, m>>, n) = {} /\ Projection(types, <<s, m>>, n) = v

LEMMA ReturnedStep ==
  ASSUME NEW package, NEW types, NEW later, NEW n \in Nat,
         \A s, r, v : Returning(package, types, later, s, r, v, n) => IsReturned(types, later, s, r, v, n),
         NEW s, NEW r, NEW v, Returning(package, types, later, s, r, v, n + 1)
  PROVE  IsReturned(types, later, s, r, v, n + 1)
<1> DEFINE y == <<r, v>>
           K == Projected(later, y, n)
           w == Project(later, y, K)
           z == <<s, w>>
           M == Projected(types, z, n)
           back == Project(types, z, M)
           inside == Inside(later, y)
           p == <<types[s.name], K[<<later[s.name], v>>]>>
<1>1. /\ IsShape(package, s) /\ IsShape(package, r) /\ Ahead(s, r) /\ IsTyped(s, v) /\ IsKnown(s, v)
      /\ s.kind = "Ref" =>
           /\ r = s /\ Inside(later, <<r, v>>) = {<<later[s.name], v>>}
           /\ Returning(package, types, later, types[s.name], later[s.name], v, n)
      /\ s.kind # "Ref" =>
           \A b \in Inside(later, <<r, v>>) : b = <<b[1], b[2]>> /\ Returning(package, types, later, b[1], b[1], b[2], n)
  BY ReturningFacts
<1>2. Returns(types, later, s, r, v, K, M)
  BY <1>1, Returned
<1>3. /\ s.kind = "Ref" => Inside(types, z) = {p} /\ back = M[p]
      /\ s.kind # "Ref" =>
           /\ Inside(types, z) = Image(inside, K)
           /\ (\A b \in inside : M[<<b[1], K[b]>>] = b[2]) => back = v
  <2> HIDE DEF K, M
  <2> QED BY <1>2 DEF Returns, Back
<1>4. (\A b \in inside : K[b] = Projection(later, b, n)) /\ \A d \in Inside(types, z) : M[d] = Projection(types, d, n)
  BY DEF Projected
<1>5. IsLegible(y[1], y[2])
  <2>1. IsLegible(r, v)
    BY <1>1, AheadLegible
  <2> QED BY <2>1
<1>6. Level(later, y, n + 1) = {}
  <2>1. Relaying(package, types, later, s, r, v, n + 1)
    BY DEF Returning
  <2> QED BY <2>1, RelayingHonest DEF Honest
<1>7. w = Projection(later, y, n + 1)
  BY <1>6, ProjectionGrows
<1> HIDE DEF K, M, z, w, back
<1>8. /\ \A b \in inside : \A x \in Nest(later, b, n) : IsLegible(x[1], x[2])
      /\ \A d \in Inside(types, z) : Level(types, d, n) = {}
      /\ back = v
  <2>1. CASE s.kind = "Ref"
    <3> DEFINE q == <<later[s.name], v>>
               t == types[s.name]
               m == Projection(later, q, n)
    <3>1. IsReturned(types, later, types[s.name], later[s.name], v, n)
      BY <1>1, <2>1
    <3>2. /\ \A x \in Nest(later, q, n) : IsLegible(x[1], x[2])
          /\ Level(types, <<t, m>>, n) = {} /\ Projection(types, <<t, m>>, n) = v
      BY <3>1 DEF IsReturned
    <3>3. inside = {q}
      BY <1>1, <2>1
    <3>4. K[q] = m
      BY <1>4, <3>3
    <3>5. p = <<t, m>>
      BY <3>4
    <3> HIDE DEF p, q, t, m, inside, y
    <3>6. Inside(types, z) = {p} /\ back = M[p]
      BY <1>3, <2>1
    <3>7. M[p] = Projection(types, p, n)
      BY <1>4, <3>6
    <3> QED BY <3>2, <3>3, <3>5, <3>6, <3>7
  <2>2. CASE s.kind # "Ref"
    <3>1. ASSUME NEW b \in inside
          PROVE  /\ \A x \in Nest(later, b, n) : IsLegible(x[1], x[2])
                 /\ Level(types, <<b[1], K[b]>>, n) = {} /\ Projection(types, <<b[1], K[b]>>, n) = b[2]
      <4>1. b = <<b[1], b[2]>> /\ IsReturned(types, later, b[1], b[1], b[2], n)
        BY <1>1, <2>2
      <4>2. K[b] = Projection(later, b, n)
        BY <1>4
      <4> HIDE DEF inside
      <4> QED BY <4>1, <4>2 DEF IsReturned
    <3> HIDE DEF inside, y
    <3>2. Inside(types, z) = {<<b[1], K[b]>> : b \in inside}
      BY <1>3, <2>2 DEF Image
    <3>3. \A b \in inside : M[<<b[1], K[b]>>] = b[2]
      BY <1>4, <3>1, <3>2
    <3>4. back = v
      BY <1>3, <2>2, <3>3
    <3> QED BY <3>1, <3>2, <3>4
  <2> QED BY <2>1, <2>2
<1> HIDE DEF y, inside
<1>9. /\ Nest(later, y, n + 1) = {y} \union UNION {Nest(later, b, n) : b \in inside}
      /\ Level(types, z, n + 1) = UNION {Level(types, d, n) : d \in Inside(types, z)}
  BY NestGrows DEF inside
<1>10. \A x \in Nest(later, y, n + 1) : IsLegible(x[1], x[2])
  BY <1>5, <1>8, <1>9
<1>11. Level(types, z, n + 1) = {}
  BY <1>8, <1>9
<1>12. Projection(types, z, n + 1) = back
  BY <1>11, ProjectionGrows DEF back, M
<1> QED BY <1>7, <1>8, <1>10, <1>11, <1>12 DEF IsReturned, y, z

LEMMA ReturningReturned ==
  ASSUME NEW package, NEW types, NEW later, NEW s, NEW r, NEW v, NEW depth,
         Returning(package, types, later, s, r, v, depth)
  PROVE  IsReturned(types, later, s, r, v, depth)
<1> DEFINE S == {n \in Nat : \A a, b, u : Returning(package, types, later, a, b, u, n) =>
                                            IsReturned(types, later, a, b, u, n)}
<1>1. 0 \in S
  <2> SUFFICES ASSUME NEW a, NEW b, NEW u, Returning(package, types, later, a, b, u, 0) PROVE FALSE
    OBVIOUS
  <2>1. Level(types, <<a, u>>, 0) = {}
    BY DEF Returning, Relaying, Sending
  <2> QED BY <2>1, NothingReached
<1>2. depth \in Nat
  BY DEF Returning, Relaying, Sending
<1>3. \A n \in Nat : n < depth /\ n \in S => n + 1 \in S
  <2> SUFFICES ASSUME NEW n \in Nat, n \in S, NEW a, NEW b, NEW u, Returning(package, types, later, a, b, u, n + 1)
               PROVE  IsReturned(types, later, a, b, u, n + 1)
    OBVIOUS
  <2>1. \A d, e, t : Returning(package, types, later, d, e, t, n) => IsReturned(types, later, d, e, t, n)
    OBVIOUS
  <2> HIDE DEF S
  <2> QED BY <2>1, ReturnedStep
<1>4. depth \in S
  <2> HIDE DEF S
  <2>1. \A n \in 0 .. depth : n \in S
    BY <1>1, <1>2, <1>3, InductionTo
  <2> QED BY <1>2, <2>1
<1> QED BY <1>4

LEMMA ReturningKept ==
  ASSUME NEW package, NEW types, NEW s, NEW v, NEW depth,
         Returning(package, types, types, s, s, v, depth)
  PROVE  Projection(types, <<s, v>>, depth) = v
<1> DEFINE S == {n \in Nat : \A a, u : Returning(package, types, types, a, a, u, n) =>
                                         Projection(types, <<a, u>>, n) = u}
<1>1. 0 \in S
  <2> SUFFICES ASSUME NEW a, NEW u, Returning(package, types, types, a, a, u, 0) PROVE FALSE
    OBVIOUS
  <2>1. Level(types, <<a, u>>, 0) = {}
    BY DEF Returning, Relaying, Sending
  <2> QED BY <2>1, NothingReached
<1>2. depth \in Nat
  BY DEF Returning, Relaying, Sending
<1>3. ASSUME NEW n \in Nat, n \in S, NEW a, NEW u, Returning(package, types, types, a, a, u, n + 1)
      PROVE  Projection(types, <<a, u>>, n + 1) = u
  <2> DEFINE x == <<a, u>>
             K == Projected(types, x, n)
  <2>1. /\ IsShape(package, a) /\ IsTyped(a, u) /\ IsKnown(a, u)
        /\ a.kind = "Ref" =>
             /\ Inside(types, <<a, u>>) = {<<types[a.name], u>>}
             /\ Returning(package, types, types, types[a.name], types[a.name], u, n)
        /\ a.kind # "Ref" =>
             \A b \in Inside(types, <<a, u>>) : b = <<b[1], b[2]>> /\ Returning(package, types, types, b[1], b[1], b[2], n)
    BY <1>3, ReturningFacts
  <2>2. \A b, t : Returning(package, types, types, b, b, t, n) => Projection(types, <<b, t>>, n) = t
    BY <1>3
  <2> HIDE DEF S
  <2>3. \A b \in Inside(types, x) : K[b] = Projection(types, b, n)
    BY DEF Projected
  <2>4. Level(types, x, n + 1) = {}
    BY <1>3 DEF Returning, Relaying, Sending
  <2>5. Projection(types, x, n + 1) = Project(types, x, K)
    BY <2>4, ProjectionGrows
  <2> HIDE DEF K
  <2>6. CASE a.kind = "Ref"
    <3> DEFINE p == <<types[a.name], u>>
    <3>1. p \in Inside(types, x) /\ Project(types, x, K) = K[p]
      BY <2>1, <2>6 DEF Project
    <3>2. Projection(types, p, n) = u
      BY <2>1, <2>2, <2>6
    <3> HIDE DEF p, x
    <3> QED BY <2>3, <2>5, <3>1, <3>2 DEF x
  <2>7. CASE a.kind # "Ref"
    <3>1. \A b \in Inside(types, x) : K[b] = b[2]
      <4> TAKE b \in Inside(types, x)
      <4>1. b = <<b[1], b[2]>> /\ Projection(types, <<b[1], b[2]>>, n) = b[2]
        BY <2>1, <2>2, <2>7
      <4> HIDE DEF x
      <4> QED BY <2>3, <4>1
    <3>2. Project(types, x, K) = u
      BY <2>1, <2>7, <3>1, Kept
    <3> QED BY <2>5, <3>2
  <2> QED BY <2>6, <2>7
<1>4. depth \in S
  <2>1. \A n \in Nat : n < depth /\ n \in S => n + 1 \in S
    <3> SUFFICES ASSUME NEW n \in Nat, n \in S, NEW a, NEW u, Returning(package, types, types, a, a, u, n + 1)
                 PROVE  Projection(types, <<a, u>>, n + 1) = u
      OBVIOUS
    <3> HIDE DEF S
    <3> QED BY <1>3
  <2> HIDE DEF S
  <2>2. \A n \in 0 .. depth : n \in S
    BY <1>1, <1>2, <2>1, InductionTo
  <2> QED BY <1>2, <2>2
<1> QED BY <1>4

LEMMA CallAhead ==
  ASSUME NEW c \in Calls
  PROVE  /\ InPackage(c[1], Here(c)) /\ InPackage(c[1], There(c)) /\ c[2] \in DOMAIN Packages[c[1]]
         /\ \A name \in DOMAIN Packages[c[1]] : Ahead(Here(c)[name], There(c)[name])
<1>1. InPackage(c[1], Here(c)) /\ InPackage(c[1], There(c))
  BY CallFacts DEF Versions
<1>2. /\ Here(c) = Packages[c[1]] /\ c[2] \in DOMAIN Here(c)
      /\ c[3] # "" =>
           /\ c[3] \in DOMAIN Here(c)
           /\ Here(c)[c[3]].kind \in {"Sequence", "Choice", "Enumerated"}
           /\ Here(c)[c[3]].extensible
  BY PduAssumption DEF IsCall, Here
<1>3. CASE c[3] = ""
  <2>1. There(c) = Here(c)
    BY <1>3 DEF There, WithLater
  <2> QED BY <1>1, <1>2, <2>1 DEF Ahead
<1>4. CASE c[3] # ""
  <2>1. \A name \in DOMAIN Here(c) : There(c)[name] = IF name = c[3] THEN Later(Here(c)[name]) ELSE Here(c)[name]
    BY <1>4 DEF There, WithLater
  <2>2. Versioned(Here(c)[c[3]])
    BY <1>2, <1>4 DEF Versioned
  <2>3. \A name \in DOMAIN Packages[c[1]] : Ahead(Here(c)[name], There(c)[name])
    BY <1>2, <2>1, <2>2 DEF Ahead
  <2> QED BY <1>1, <1>2, <2>3
<1> QED BY <1>3, <1>4

LEMMA ReadBack ==
  ASSUME NEW package, NEW types, NEW later, NEW s, NEW r, NEW v, NEW depth,
         Returning(package, types, later, s, r, v, depth)
  PROVE  Decode(Shapes[package], later, r, Encode(types, <<s, v>>, depth).bits, depth) =
           Decoded(Projection(later, <<r, v>>, depth), Len(Encode(types, <<s, v>>, depth).bits))
<1> DEFINE bits == Encode(types, <<s, v>>, depth).bits
           n == Len(bits)
           m == Projection(later, <<r, v>>, depth)
<1>1. /\ Sending(package, types, s, v, depth) /\ Versions(package, types, later)
      /\ r \in Shapes[package] /\ Related(s, r)
      /\ \A z \in Nest(types, <<s, v>>, depth) : Fine(z)
  BY DEF Returning, Relaying
<1>2. \A y \in Nest(later, <<r, v>>, depth) : IsLegible(y[1], y[2])
  BY ReturningReturned DEF IsReturned
<1>3. IsResult(Encode(types, <<s, v>>, depth)) /\ Encode(types, <<s, v>>, depth).ok
  BY <1>1, EncodeFacts
<1>4. IsSequence(bits) /\ n \in Nat
  BY <1>3, DomainOf DEF IsResult
<1>5. Carrying(package, types, later, s, r, v, depth)
  BY <1>1, <1>2, <1>3 DEF Carrying
<1>6. Along(bits, n, 0, bits)
  <2> HIDE DEF bits
  <2> QED BY DEF Along
<1>7. Decode(Shapes[package], later, r, bits, depth) = Outcome(m, 0, n, n)
  <2>1. Len(bits) \in Nat /\ Along(bits, Len(bits), 0, Encode(types, <<s, v>>, depth).bits)
    BY <1>4, <1>6
  <2>2. \A tokens : Len(tokens) \in Nat /\ Along(tokens, Len(tokens), 0, Encode(types, <<s, v>>, depth).bits) =>
          Decode(Shapes[package], later, r, tokens, depth) =
           Outcome(Projection(later, <<r, v>>, depth), 0, Len(Encode(types, <<s, v>>, depth).bits), Len(tokens))
    BY <1>5, Carried
  <2> QED BY <2>1, <2>2
<1>8. Outcome(m, 0, n, n) = Decoded(m, n)
  <2> HIDE DEF m, n
  <2>1. 0 + n = n /\ n <= n
    BY <1>4
  <2> QED BY <2>1 DEF Outcome
<1> QED BY <1>7, <1>8

(* What is accepted and sent again comes back, from a later version too.   *)
LEMMA CallReturns ==
  ASSUME NEW c \in Calls, NEW x, Sending(c[1], Here(c), Here(c)[c[2]], x, MaxDepth), EncodeIn(Here(c), c, x).ok
  PROVE  /\ DecodeIn(Here(c), c, EncodeIn(Here(c), c, x).bits) = Decoded(x, Len(EncodeIn(Here(c), c, x).bits))
         /\ DecodeIn(There(c), c, EncodeIn(Here(c), c, x).bits).status = "ok"
         /\ ProjectionIn(Here(c), c, DecodeIn(There(c), c, EncodeIn(Here(c), c, x).bits).value) = x
<1> DEFINE here == Here(c)
           there == There(c)
           r == Here(c)[c[2]]
           s == There(c)[c[2]]
           package == c[1]
           e == Encode(here, <<r, x>>, MaxDepth)
           m == Projection(there, <<s, x>>, MaxDepth)
<1>1. /\ InPackage(package, here) /\ InPackage(package, there) /\ c[2] \in DOMAIN Packages[package]
      /\ \A name \in DOMAIN Packages[package] : Ahead(here[name], there[name])
  BY CallAhead
<1>2. r = here[c[2]] /\ s = there[c[2]] /\ Sending(package, here, r, x, MaxDepth)
  OBVIOUS
<1>3. /\ EncodeIn(Here(c), c, x) = e
      /\ \A tokens : DecodeIn(Here(c), c, tokens) = Decode(Shapes[package], here, r, tokens, MaxDepth)
      /\ \A tokens : DecodeIn(There(c), c, tokens) = Decode(Shapes[package], there, s, tokens, MaxDepth)
      /\ \A v : ProjectionIn(Here(c), c, v) = Projection(here, <<r, v>>, MaxDepth)
  BY DEF EncodeIn, DecodeIn, ProjectionIn
<1>4. e.ok
  BY <1>3
<1> HIDE DEF here, there, r, s, package
<1>5. Versions(package, here, here) /\ Versions(package, here, there)
      /\ r \in Shapes[package] /\ s \in Shapes[package] /\ Ahead(r, s)
  BY <1>1, <1>2 DEF Versions, InPackage, Related, Ahead
<1>6. \A z \in Nest(here, <<r, x>>, MaxDepth) : Fine(z)
  BY <1>2, <1>4, EncodeFacts
<1>7. Returning(package, here, here, r, r, x, MaxDepth)
  BY <1>2, <1>5, <1>6 DEF Returning, Relaying, Related, Ahead
<1>8. Returning(package, here, there, r, s, x, MaxDepth)
  <2>1. Related(r, s)
    BY <1>5 DEF Ahead, Related
  <2> QED BY <1>1, <1>2, <1>5, <1>6, <2>1 DEF Returning, Relaying
<1>9. Decode(Shapes[package], here, r, e.bits, MaxDepth) = Decoded(x, Len(e.bits))
  <2>1. Decode(Shapes[package], here, r, e.bits, MaxDepth) = Decoded(Projection(here, <<r, x>>, MaxDepth), Len(e.bits))
    BY <1>7, ReadBack
  <2> QED BY <1>7, <2>1, ReturningKept
<1>10. Decode(Shapes[package], there, s, e.bits, MaxDepth) = Decoded(m, Len(e.bits))
  BY <1>8, ReadBack
<1>11. Projection(here, <<r, m>>, MaxDepth) = x
  BY <1>8, ReturningReturned DEF IsReturned
<1>12. \A l : Decoded(m, l).status = "ok" /\ Decoded(m, l).value = m
  BY DEF Decoded
<1> HIDE DEF e, m
<1> QED BY <1>3, <1>9, <1>10, <1>11, <1>12

LEMMA InvRelayAgrees == Inv => RelayAgrees
<1> SUFFICES ASSUME Inv, stage = "end", answer.status = "ok", Relayed.ok
             PROVE  LET back == DecodeIn(There(call), call, Relayed.bits)
                    IN  /\ DecodeIn(Here(call), call, Relayed.bits) = Decoded(answer.value, Len(Relayed.bits))
                        /\ back.status = "ok"
                        /\ ProjectionIn(Here(call), call, back.value) = answer.value
  BY DEF RelayAgrees
<1> SUFFICES ASSUME NEW c, c = call, NEW w, w = wire, NEW a, a = answer
             PROVE  LET e == EncodeIn(Here(c), c, a.value)
                        back == DecodeIn(There(c), c, e.bits)
                    IN  /\ DecodeIn(Here(c), c, e.bits) = Decoded(a.value, Len(e.bits))
                        /\ back.status = "ok"
                        /\ ProjectionIn(Here(c), c, back.value) = a.value
  BY DEF Relayed
<1>1. c \in Calls /\ a = DecodeIn(Here(c), c, w) /\ a.status = "ok" /\ EncodeIn(Here(c), c, a.value).ok
  BY DEF Inv, Staged, Answered, Received, Relayed
<1>2. IsMessage(w)
  BY WireMessage
<1>3. Sending(c[1], Here(c), Here(c)[c[2]], a.value, MaxDepth)
  BY <1>1, <1>2, AcceptedSends
<1> QED BY <1>1, <1>3, CallReturns

(* What a receiver accepts, of a damaged message too, and encodes again is *)
(* read back as the same value by the receiver itself, and by a sender of  *)
(* a later version as one that is, to the receiver, that value; nothing is *)
(* left of what was written.                                               *)
THEOREM PduRelayAgrees == Spec => []RelayAgrees
BY PduInvariant, InvRelayAgrees, PTL

=============================================================================
