------------------------- MODULE TelnetStreamProofs -------------------------
(***************************************************************************)
(* Proofs about TelnetStream, for every stream of items.                   *)
(***************************************************************************)
EXTENDS TelnetStream, SequenceTheorems, WellFoundedInduction, TLAPS

-----------------------------------------------------------------------------
\* Induction and recursion.

\* A set of numbers that holds 0 and every successor holds them all.
LEMMA Counting ==
    ASSUME NEW Z, 0 \in Z, \A i \in Nat : i \in Z => i + 1 \in Z
    PROVE  Nat \subseteq Z
<1>. DEFINE T == Nat \ Z
<1>1. SUFFICES ASSUME T # {} PROVE FALSE
  OBVIOUS
<1>2. PICK m \in T : \A y \in T : <<y, m>> \notin OpToRel(<, Nat)
  BY <1>1, NatLessThanWellFounded, WFMin
<1>3. m - 1 \in Nat /\ m - 1 < m /\ (m - 1) + 1 = m
  OBVIOUS
<1>4. ASSUME NEW y \in T PROVE ~(y < m)
  <2>1. <<y, m>> \in Nat \X Nat /\ <<y, m>>[1] = y /\ <<y, m>>[2] = m
    OBVIOUS
  <2>. QED
    BY <1>2, <2>1 DEF OpToRel
<1>. QED
  BY <1>3, <1>4

\* The values of an iteration.
Iterates(n, b, g, f) == f[0] = b /\ \A i \in 1..n : f[i] = g[<<f[i - 1], i>>]

\* There is one for every step.
LEMMA Iteration ==
    ASSUME NEW S, NEW b \in S, NEW g \in [S \X Nat -> S]
    PROVE  \A n \in Nat : \E f \in [0..n -> S] : Iterates(n, b, g, f)
<1>. USE DEF Iterates
<1>. DEFINE Z == {n \in Nat : \E f \in [0..n -> S] : Iterates(n, b, g, f)}
<1>1. 0 \in Z
  <2>1. [i \in 0..0 |-> b] \in [0..0 -> S] /\ Iterates(0, b, g, [i \in 0..0 |-> b])
    OBVIOUS
  <2>. QED
    BY <2>1
<1>2. ASSUME NEW n \in Nat, n \in Z PROVE n + 1 \in Z
  <2>1. PICK f \in [0..n -> S] : Iterates(n, b, g, f)
    BY <1>2
  <2>. DEFINE h == [i \in 0..n + 1 |-> IF i = n + 1 THEN g[<<f[n], n + 1>>] ELSE f[i]]
  <2>2. h \in [0..n + 1 -> S]
    OBVIOUS
  <2>3. Iterates(n + 1, b, g, h)
    <3>1. h[0] = b
      BY <2>1
    <3>2. ASSUME NEW i \in 1..n + 1 PROVE h[i] = g[<<h[i - 1], i>>]
      <4>1. CASE i = n + 1
        BY <4>1, SMTT(60)
      <4>2. CASE i # n + 1
        <5>1. i \in 1..n /\ i \in 0..n + 1 /\ i - 1 \in 0..n + 1 /\ i - 1 # n + 1
          BY <4>2
        <5>. QED
          BY <2>1, <5>1
      <4>. QED
        BY <4>1, <4>2
    <3>. QED
      BY <3>1, <3>2
  <2>3a. n + 1 \in Nat
    OBVIOUS
  <2>. QED
    BY <2>2, <2>3, <2>3a
<1>3. Nat \subseteq Z
  <2>. HIDE DEF Z
  <2>. QED
    BY <1>1, <1>2, Counting
<1>. QED
  BY <1>3

\* The same up to a bound.
LEMMA CountingTo ==
    ASSUME NEW n \in Nat, NEW Z, 0 \in Z, \A i \in 1..n : i - 1 \in Z => i \in Z
    PROVE  0..n \subseteq Z
<1>. DEFINE Y == {i \in Nat : i <= n => i \in Z}
<1>1. 0 \in Y
  OBVIOUS
<1>2. ASSUME NEW i \in Nat, i \in Y PROVE i + 1 \in Y
  <2>1. CASE i + 1 <= n
    <3>1. i + 1 \in 1..n /\ (i + 1) - 1 = i /\ i <= n
      BY <2>1
    <3>2. i \in Z
      BY <1>2, <3>1
    <3>. QED
      BY <3>1, <3>2
  <2>. QED
    BY <2>1
<1>3. Nat \subseteq Y
  <2>. HIDE DEF Y
  <2>. QED
    BY <1>1, <1>2, Counting
<1>. QED
  BY <1>3

-----------------------------------------------------------------------------
\* The negotiator.

States(B) ==
    [state : {"normal", "iac", "verb", "sb", "sb_iac"}, verb : Verbs,
     text : Seq(B), sent : Seq({"WONT", "DONT"} \X B)]

\* Each byte leads from a state to a state.
LEMMA TakeTyped ==
    ASSUME NEW B, NEW n \in States(B), NEW b \in B
    PROVE  Take(n, b) \in States(B)
<1>1. \A state \in {"normal", "iac", "verb", "sb", "sb_iac"} : To(n, state) \in States(B)
  BY DEF To, States
<1>2. Keep(n, b) \in States(B)
  <2>1. Append(n.text, b) \in Seq(B)
    BY DEF States
  <2>. QED
    BY <2>1 DEF Keep, States
<1>3. Reply(n, b) \in States(B)
  <2>1. n.sent \in Seq({"WONT", "DONT"} \X B)
    BY DEF States
  <2>2. ASSUME NEW S, NEW s \in Seq(S), NEW e \in S PROVE Append(s, e) \in Seq(S)
    OBVIOUS
  <2>3. /\ Append(n.sent, <<"WONT", b>>) \in Seq({"WONT", "DONT"} \X B)
        /\ Append(n.sent, <<"DONT", b>>) \in Seq({"WONT", "DONT"} \X B)
    BY <2>1, <2>2
  <2>4. ASSUME NEW s \in Seq({"WONT", "DONT"} \X B) PROVE [n EXCEPT !.sent = s] \in States(B)
    BY DEF States
  <2>. QED
    BY <2>3, <2>4 DEF Reply
<1>4. ASSUME NEW m \in States(B) PROVE To(m, "normal") \in States(B)
  BY DEF To, States
<1>5. b \in Verbs => [To(n, "verb") EXCEPT !.verb = b] \in States(B)
  BY DEF To, States
<1>6. n.state \in {"normal", "iac", "verb", "sb", "sb_iac"}
  BY DEF States
<1>. QED
  BY <1>1, <1>2, <1>3, <1>4, <1>5, <1>6 DEF Take

\* The states that a chunk leads through.
Course(n, chunk, f) ==
    f[0] = n /\ \A i \in 1..Len(chunk) : f[i] = Take(f[i - 1], chunk[i])

\* Run() is the last of them.
LEMMA RunOf ==
    ASSUME NEW n, NEW chunk, Len(chunk) \in Nat,
           NEW f, DOMAIN f = 0..Len(chunk), Course(n, chunk, f), f = [i \in 0..Len(chunk) |-> f[i]]
    PROVE  Run(n, chunk) = f[Len(chunk)]
<1>. DEFINE Body(F) == [i \in 0..Len(chunk) |-> IF i = 0 THEN n ELSE Take(F[i - 1], chunk[i])]
            A == CHOOSE F : F = Body(F)
<1>1. f = Body(f)
  BY DEF Course
<1>2. A = Body(A)
  BY <1>1
<1>. DEFINE Z == {i \in 0..Len(chunk) : A[i] = f[i]}
<1>3. 0..Len(chunk) \subseteq Z
  <2>1. 0 \in Z
    BY <1>2 DEF Course
  <2>2. ASSUME NEW i \in 1..Len(chunk), i - 1 \in Z PROVE i \in Z
    <3>. HIDE DEF A
    <3>1. i \in 0..Len(chunk) /\ i # 0 /\ A[i - 1] = f[i - 1]
      BY <2>2
    <3>2. A[i] = Take(A[i - 1], chunk[i])
      BY <1>2, <3>1
    <3>. QED
      BY <3>1, <3>2 DEF Course
  <2>. HIDE DEF Z
  <2>. QED
    BY <2>1, <2>2, CountingTo
<1>4. A[Len(chunk)] = f[Len(chunk)]
  BY <1>3
<1>. QED
  BY <1>4 DEF Run

\* There is always a course.
LEMMA RunCourse ==
    ASSUME NEW B, NEW n \in States(B), NEW chunk \in Seq(B)
    PROVE  \E f \in [0..Len(chunk) -> States(B)] : Course(n, chunk, f)
<1>. DEFINE g == [x \in States(B) \X Nat |->
                    IF x[2] \in 1..Len(chunk) THEN Take(x[1], chunk[x[2]]) ELSE x[1]]
<1>1. g \in [States(B) \X Nat -> States(B)]
  <2>1. ASSUME NEW m \in States(B), NEW i \in 1..Len(chunk)
        PROVE  Take(m, chunk[i]) \in States(B)
    BY TakeTyped
  <2>. QED
    BY <2>1
<1>2. ASSUME NEW m \in States(B), NEW i \in 1..Len(chunk)
      PROVE  g[<<m, i>>] = Take(m, chunk[i])
  OBVIOUS
<1>. HIDE DEF g
<1>3. PICK f \in [0..Len(chunk) -> States(B)] : Iterates(Len(chunk), n, g, f)
  <2>1. Len(chunk) \in Nat
    OBVIOUS
  <2>. QED
    BY <1>1, <2>1, Iteration
<1>4. ASSUME NEW i \in 1..Len(chunk) PROVE f[i - 1] \in States(B)
  OBVIOUS
<1>. QED
  BY <1>2, <1>3, <1>4 DEF Course, Iterates

\* So the negotiator keeps its type.
LEMMA RunTyped ==
    ASSUME NEW B, NEW n \in States(B), NEW chunk \in Seq(B)
    PROVE  Run(n, chunk) \in States(B)
<1>1. PICK f \in [0..Len(chunk) -> States(B)] : Course(n, chunk, f)
  BY RunCourse
<1>2. Len(chunk) \in Nat /\ DOMAIN f = 0..Len(chunk) /\ f = [i \in 0..Len(chunk) |-> f[i]]
  OBVIOUS
<1>3. Run(n, chunk) = f[Len(chunk)]
  BY <1>1, <1>2, RunOf
<1>. QED
  BY <1>2, <1>3

\* An empty chunk changes nothing.
LEMMA RunEmpty == ASSUME NEW n PROVE Run(n, <<>>) = n
<1>. DEFINE f == [i \in 0..0 |-> n]
<1>1. Len(<<>>) = 0 /\ f[0] = n
  OBVIOUS
<1>2. DOMAIN f = 0..Len(<<>>) /\ Course(n, <<>>, f) /\ f = [i \in 0..Len(<<>>) |-> f[i]]
  BY <1>1 DEF Course
<1>. HIDE DEF f
<1>. QED
  BY <1>1, <1>2, RunOf

\* Running over one chunk and then the next is running over both.
LEMMA RunsJoin ==
    ASSUME NEW B, NEW n \in States(B), NEW s \in Seq(B), NEW t \in Seq(B)
    PROVE  Run(n, s \o t) = Run(Run(n, s), t)
<1>1. PICK f \in [0..Len(s) -> States(B)] : Course(n, s, f)
  BY RunCourse
<1>2. Run(n, s) = f[Len(s)] /\ f[Len(s)] \in States(B)
  <2>1. Len(s) \in Nat /\ DOMAIN f = 0..Len(s) /\ f = [i \in 0..Len(s) |-> f[i]]
    OBVIOUS
  <2>. QED
    BY <1>1, <2>1, RunOf
<1>3. PICK h \in [0..Len(t) -> States(B)] : Course(f[Len(s)], t, h)
  BY <1>2, RunCourse
<1>4. Run(f[Len(s)], t) = h[Len(t)]
  <2>1. Len(t) \in Nat /\ DOMAIN h = 0..Len(t) /\ h = [i \in 0..Len(t) |-> h[i]]
    OBVIOUS
  <2>. QED
    BY <1>3, <2>1, RunOf
<1>5. /\ s \o t \in Seq(B) /\ Len(s \o t) = Len(s) + Len(t)
      /\ \A i \in 1..Len(s) + Len(t) :
           (s \o t)[i] = IF i <= Len(s) THEN s[i] ELSE t[i - Len(s)]
  BY ConcatProperties
<1>6. Len(s) \in Nat /\ Len(t) \in Nat
  OBVIOUS
<1>. DEFINE k == [i \in 0..Len(s) + Len(t) |-> IF i <= Len(s) THEN f[i] ELSE h[i - Len(s)]]
<1>7. k[0] = n
  BY <1>1, <1>6 DEF Course
<1>8. ASSUME NEW i \in 1..Len(s) + Len(t) PROVE k[i] = Take(k[i - 1], (s \o t)[i])
  <2>1. CASE i <= Len(s)
    <3>1. i \in 1..Len(s) /\ k[i] = f[i] /\ k[i - 1] = f[i - 1]
      BY <1>6, <2>1
    <3>. QED
      BY <1>1, <1>5, <2>1, <3>1 DEF Course
  <2>2. CASE ~(i <= Len(s))
    <3>1. i - Len(s) \in 1..Len(t) /\ k[i] = h[i - Len(s)]
      BY <1>6, <2>2
    <3>2. k[i - 1] = h[(i - Len(s)) - 1]
      <4>1. CASE i - 1 = Len(s)
        <5>1. k[i - 1] = f[Len(s)] /\ (i - Len(s)) - 1 = 0
          BY <1>6, <4>1
        <5>. QED
          BY <1>3, <5>1 DEF Course
      <4>2. CASE i - 1 # Len(s)
        BY <1>6, <2>2, <4>2
      <4>. QED
        BY <4>1, <4>2
    <3>3. h[i - Len(s)] = Take(h[(i - Len(s)) - 1], t[i - Len(s)])
      BY <1>3, <3>1 DEF Course
    <3>. QED
      BY <1>5, <2>2, <3>1, <3>2, <3>3
  <2>. QED
    BY <2>1, <2>2
<1>9. k[Len(s) + Len(t)] = h[Len(t)]
  <2>1. CASE Len(t) = 0
    BY <1>3, <1>6, <2>1 DEF Course
  <2>2. CASE Len(t) # 0
    BY <1>6, <2>2
  <2>. QED
    BY <2>1, <2>2
<1>10. /\ DOMAIN k = 0..Len(s \o t) /\ Len(s \o t) \in Nat
       /\ k = [i \in 0..Len(s \o t) |-> k[i]]
  BY <1>5, <1>6
<1>11. Course(n, s \o t, k)
  BY <1>5, <1>7, <1>8 DEF Course
<1>. HIDE DEF k
<1>. QED
  BY <1>2, <1>4, <1>5, <1>9, <1>10, <1>11, RunOf, ZenonT(60)

\* A chunk of one byte is one step.
LEMMA RunByte ==
    ASSUME NEW n, NEW b PROVE Run(n, <<b>>) = Take(n, b)
<1>. DEFINE f == [i \in 0..1 |-> IF i = 0 THEN n ELSE Take(n, b)]
<1>1. Len(<<b>>) = 1 /\ <<b>>[1] = b /\ f[0] = n /\ f[1] = Take(n, b)
  OBVIOUS
<1>2. DOMAIN f = 0..Len(<<b>>) /\ f = [i \in 0..Len(<<b>>) |-> f[i]]
  BY <1>1
<1>3. Course(n, <<b>>, f)
  BY <1>1 DEF Course
<1>. HIDE DEF f
<1>. QED
  BY <1>1, <1>2, <1>3, RunOf, ZenonT(60)

-----------------------------------------------------------------------------
\* Sequences of sequences.

\* Sequences are built by appending: an induction over their length.
LEMMA Appended ==
    ASSUME NEW S, NEW s \in Seq(S), s # <<>>
    PROVE  /\ SubSeq(s, 1, Len(s) - 1) \in Seq(S) /\ s[Len(s)] \in S
           /\ Len(SubSeq(s, 1, Len(s) - 1)) = Len(s) - 1 /\ Len(s) - 1 \in Nat
           /\ s = Append(SubSeq(s, 1, Len(s) - 1), s[Len(s)])
<1>1. Len(s) \in Nat /\ Len(s) # 0
  BY EmptySeq
<1>2. s[Len(s)] \in S
  BY <1>1
<1>3. Len(s) - 1 \in Int /\ \A i \in 1..Len(s) - 1 : s[i] \in S
  BY <1>1
<1>4. /\ SubSeq(s, 1, Len(s) - 1) \in Seq(S)
      /\ Len(SubSeq(s, 1, Len(s) - 1)) = Len(s) - 1
      /\ \A i \in 1..Len(s) - 1 : SubSeq(s, 1, Len(s) - 1)[i] = s[i]
  <2>. DEFINE k == Len(s) - 1
  <2>1. k \in Nat /\ 1 \in Int /\ k \in Int
    BY <1>1
  <2>2. \A i \in 1..k : s[i] \in S
    BY <1>3
  <2>. HIDE DEF k
  <2>3. /\ SubSeq(s, 1, k) \in Seq(S)
        /\ Len(SubSeq(s, 1, k)) = IF 1 <= k THEN k - 1 + 1 ELSE 0
        /\ \A i \in 1..k - 1 + 1 : SubSeq(s, 1, k)[i] = s[1 + i - 1]
    BY <2>1, <2>2, SubSeqProperties
  <2>4. k - 1 + 1 = k /\ (~(1 <= k) => k = 0) /\ \A i \in 1..k : 1 + i - 1 = i
    BY <2>1
  <2>. QED
    BY <2>3, <2>4 DEF k
<1>. DEFINE f == SubSeq(s, 1, Len(s) - 1)
<1>5. /\ Append(f, s[Len(s)]) \in Seq(S)
      /\ Len(Append(f, s[Len(s)])) = Len(s)
      /\ \A i \in 1..Len(s) : Append(f, s[Len(s)])[i] = s[i]
  <2>. HIDE DEF f
  <2>1. f \in Seq(S) /\ Len(f) = Len(s) - 1 /\ \A i \in 1..Len(s) - 1 : f[i] = s[i]
    BY <1>4 DEF f
  <2>. QED
    BY <1>1, <1>2, <2>1, AppendProperties
<1>6. s = Append(f, s[Len(s)])
  <2>. HIDE DEF f
  <2>. QED
    BY <1>5, SeqEqual
<1>. QED
  BY <1>1, <1>2, <1>4, <1>6

\* The sequences that are joined, one by one.
Joins(seqs, f) ==
    \A i \in 1..Len(seqs) : f[i] = IF i = 1 THEN seqs[i] ELSE f[i - 1] \o seqs[i]

\* FlattenSeq() is the last of them.
LEMMA FlattenOf ==
    ASSUME NEW seqs, Len(seqs) \in Nat \ {0},
           NEW f, f = [i \in 1..Len(seqs) |-> f[i]], Joins(seqs, f)
    PROVE  FlattenSeq(seqs) = f[Len(seqs)]
<1>. DEFINE Body(F) == [i \in 1..Len(seqs) |-> IF i = 1 THEN seqs[i] ELSE F[i - 1] \o seqs[i]]
            A == CHOOSE F : F = Body(F)
<1>1. f = Body(f)
  BY DEF Joins
<1>2. A = Body(A)
  BY <1>1
<1>3. FlattenSeq(seqs) = A[Len(seqs)]
  BY DEF FlattenSeq
<1>. DEFINE Z == {i \in 0..Len(seqs) : i = 0 \/ A[i] = f[i]}
<1>. HIDE DEF A
<1>4. 0..Len(seqs) \subseteq Z
  <2>1. 0 \in Z
    OBVIOUS
  <2>2. ASSUME NEW i \in 1..Len(seqs), i - 1 \in Z PROVE i \in Z
    <3>1. A[i] = IF i = 1 THEN seqs[i] ELSE A[i - 1] \o seqs[i]
      BY <1>2
    <3>2. i # 1 => A[i - 1] = f[i - 1]
      BY <2>2
    <3>3. f[i] = IF i = 1 THEN seqs[i] ELSE f[i - 1] \o seqs[i]
      BY DEF Joins
    <3>4. A[i] = f[i]
      BY <3>1, <3>2, <3>3
    <3>. QED
      BY <3>4
  <2>. HIDE DEF Z
  <2>. QED
    BY <2>1, <2>2, CountingTo
<1>5. A[Len(seqs)] = f[Len(seqs)]
  <2>1. Len(seqs) \in Z
    BY <1>4, SMTT(60)
  <2>. QED
    BY <2>1
<1>. QED
  BY <1>3, <1>5

\* There are always such sequences.
LEMMA FlattenJoins ==
    ASSUME NEW S, NEW seqs \in Seq(Seq(S)), seqs # <<>>
    PROVE  \E f \in [1..Len(seqs) -> Seq(S)] : Joins(seqs, f)
<1>0. Len(seqs) \in Nat \ {0}
  BY EmptySeq
<1>. DEFINE g == [x \in Seq(S) \X Nat |->
                    IF x[2] \in 1..Len(seqs) THEN x[1] \o seqs[x[2]] ELSE x[1]]
<1>1. g \in [Seq(S) \X Nat -> Seq(S)]
  <2>1. ASSUME NEW s \in Seq(S), NEW i \in 1..Len(seqs) PROVE s \o seqs[i] \in Seq(S)
    <3>1. seqs[i] \in Seq(S)
      OBVIOUS
    <3>. QED
      BY <3>1, ConcatProperties
  <2>. QED
    BY <2>1
<1>2. ASSUME NEW s \in Seq(S), NEW i \in 1..Len(seqs)
      PROVE  g[<<s, i>>] = s \o seqs[i]
  <2>1. <<s, i>> \in Seq(S) \X Nat /\ <<s, i>>[1] = s /\ <<s, i>>[2] = i
    OBVIOUS
  <2>. QED
    BY <2>1
<1>. HIDE DEF g
<1>3. PICK h \in [0..Len(seqs) -> Seq(S)] : Iterates(Len(seqs), <<>>, g, h)
  <2>1. <<>> \in Seq(S)
    OBVIOUS
  <2>. QED
    BY <1>0, <1>1, <2>1, Iteration
<1>4. ASSUME NEW i \in 1..Len(seqs) PROVE h[i] = h[i - 1] \o seqs[i]
  <2>1. h[i - 1] \in Seq(S)
    BY SMTT(60)
  <2>2. h[i] = g[<<h[i - 1], i>>]
    BY <1>3 DEF Iterates
  <2>. QED
    BY <1>2, <2>1, <2>2
<1>5. h[1] = seqs[1]
  <2>1. 1 \in 1..Len(seqs) /\ 1 - 1 = 0 /\ h[0] = <<>>
    BY <1>0, <1>3 DEF Iterates
  <2>2. h[1] = h[0] \o seqs[1]
    BY <1>4, <2>1
  <2>3. seqs[1] \in Seq(S)
    BY <2>1, ElementOfSeq
  <2>4. <<>> \o seqs[1] = seqs[1]
    BY <2>3, ConcatEmptySeq
  <2>. QED
    BY <2>1, <2>2, <2>4
<1>. DEFINE f == [i \in 1..Len(seqs) |-> h[i]]
<1>6. f \in [1..Len(seqs) -> Seq(S)]
  OBVIOUS
<1>7. ASSUME NEW i \in 1..Len(seqs)
      PROVE  f[i] = IF i = 1 THEN seqs[i] ELSE f[i - 1] \o seqs[i]
  <2>1. CASE i = 1
    BY <1>5, <2>1
  <2>2. CASE i # 1
    <3>1. i - 1 \in 1..Len(seqs)
      BY <2>2
    <3>. QED
      BY <1>4, <2>2, <3>1
  <2>. QED
    BY <2>1, <2>2
<1>. QED
  BY <1>6, <1>7 DEF Joins

\* What is joined has its type.
LEMMA FlattenTyped ==
    ASSUME NEW S, NEW seqs \in Seq(Seq(S))
    PROVE  FlattenSeq(seqs) \in Seq(S)
<1>1. CASE seqs = <<>>
  BY <1>1 DEF FlattenSeq
<1>2. CASE seqs # <<>>
  <2>1. Len(seqs) \in Nat \ {0}
    BY <1>2, EmptySeq
  <2>2. PICK f \in [1..Len(seqs) -> Seq(S)] : Joins(seqs, f)
    BY <1>2, FlattenJoins
  <2>3. f = [i \in 1..Len(seqs) |-> f[i]]
    OBVIOUS
  <2>4. f[Len(seqs)] \in Seq(S)
    <3>1. Len(seqs) \in 1..Len(seqs)
      BY <2>1
    <3>. QED
      BY <3>1
  <2>. QED
    BY <2>1, <2>2, <2>3, <2>4, FlattenOf
<1>. QED
  BY <1>1, <1>2

\* One more sequence comes last.
LEMMA FlattenAppend ==
    ASSUME NEW S, NEW seqs \in Seq(Seq(S)), NEW t \in Seq(S)
    PROVE  FlattenSeq(Append(seqs, t)) = FlattenSeq(seqs) \o t
<1>. DEFINE all == Append(seqs, t)
            n == Len(seqs)
<1>1. /\ n \in Nat /\ Len(all) = n + 1 /\ all[n + 1] = t
      /\ \A i \in 1..n : all[i] = seqs[i]
  BY AppendProperties
<1>. HIDE DEF all
<1>2. CASE seqs = <<>>
  <2>1. n = 0 /\ Len(all) \in Nat \ {0}
    BY <1>1, <1>2
  <2>. DEFINE f == [i \in 1..Len(all) |-> t]
  <2>2. f = [i \in 1..Len(all) |-> f[i]] /\ f[Len(all)] = t
    BY <2>1
  <2>3. Joins(all, f)
    BY <1>1, <2>1 DEF Joins
  <2>. HIDE DEF f
  <2>4. FlattenSeq(all) = t
    BY <2>1, <2>2, <2>3, FlattenOf
  <2>5. FlattenSeq(seqs) = <<>>
    BY <1>2 DEF FlattenSeq
  <2>6. <<>> \o t = t
    BY ConcatEmptySeq
  <2>. QED
    BY <2>4, <2>5, <2>6 DEF all
<1>3. CASE seqs # <<>>
  <2>1. n \in Nat \ {0} /\ Len(all) \in Nat \ {0}
    BY <1>1, <1>3, EmptySeq
  <2>2. PICK f \in [1..n -> Seq(S)] : Joins(seqs, f)
    BY <1>3, FlattenJoins
  <2>3. f = [i \in 1..n |-> f[i]]
    OBVIOUS
  <2>4. FlattenSeq(seqs) = f[n]
    BY <2>1, <2>2, <2>3, FlattenOf
  <2>. DEFINE h == [i \in 1..Len(all) |-> IF i <= n THEN f[i] ELSE f[n] \o t]
  <2>5. ASSUME NEW i \in 1..Len(all)
        PROVE  h[i] = IF i = 1 THEN all[i] ELSE h[i - 1] \o all[i]
    <3>1. CASE i <= n
      <4>1. i \in 1..n /\ h[i] = f[i] /\ (i # 1 => i - 1 \in 1..n /\ h[i - 1] = f[i - 1])
        BY <1>1, <3>1
      <4>. QED
        BY <1>1, <2>2, <4>1 DEF Joins
    <3>2. CASE ~(i <= n)
      <4>1. i = n + 1 /\ i # 1 /\ h[i] = f[n] \o t /\ h[i - 1] = f[n]
        BY <1>1, <2>1, <3>2
      <4>. QED
        BY <1>1, <4>1
    <3>. QED
      BY <3>1, <3>2
  <2>6. h = [i \in 1..Len(all) |-> h[i]] /\ h[Len(all)] = f[n] \o t
    BY <1>1, <2>1
  <2>. HIDE DEF h
  <2>7. FlattenSeq(all) = h[Len(all)]
    BY <2>1, <2>5, <2>6, FlattenOf DEF Joins
  <2>. QED
    BY <2>4, <2>6, <2>7 DEF all
<1>. QED
  BY <1>2, <1>3

\* A mapped sequence, joined.
Mapped(g, s) == FlattenSeq([i \in DOMAIN s |-> g[s[i]]])

\* It is joined item by item.
LEMMA MapTyped ==
    ASSUME NEW S, NEW T, NEW g \in [S -> Seq(T)], NEW s \in Seq(S)
    PROVE  Mapped(g, s) \in Seq(T)
<1>1. [i \in DOMAIN s |-> g[s[i]]] \in Seq(Seq(T))
  <2>1. Len(s) \in Nat /\ \A i \in 1..Len(s) : g[s[i]] \in Seq(T)
    OBVIOUS
  <2>2. DOMAIN s = 1..Len(s)
    OBVIOUS
  <2>3. [i \in 1..Len(s) |-> g[s[i]]] \in Seq(Seq(T))
    BY <2>1
  <2>. QED
    BY <2>2, <2>3
<1>. QED
  BY <1>1, FlattenTyped DEF Mapped

LEMMA MapAppend ==
    ASSUME NEW S, NEW T, NEW g \in [S -> Seq(T)], NEW s \in Seq(S), NEW e \in S
    PROVE  Mapped(g, Append(s, e)) = Mapped(g, s) \o g[e]
<1>. DEFINE all == Append(s, e)
            before == [i \in DOMAIN s |-> g[s[i]]]
            after == [i \in DOMAIN all |-> g[all[i]]]
<1>1. /\ all \in Seq(S) /\ Len(all) = Len(s) + 1 /\ all[Len(s) + 1] = e
      /\ \A i \in 1..Len(s) : all[i] = s[i]
  BY AppendProperties
<1>2. \A i \in 1..Len(s) : g[s[i]] \in Seq(T)
  OBVIOUS
<1>3. g[e] \in Seq(T) /\ Len(s) \in Nat
  OBVIOUS
<1>4. /\ before \in Seq(Seq(T)) /\ Len(before) = Len(s)
      /\ \A i \in 1..Len(s) : before[i] = g[s[i]]
  BY <1>2, <1>3
<1>. HIDE DEF all
<1>5. \A i \in 1..Len(all) : g[all[i]] \in Seq(T)
  BY <1>1
<1>6. /\ after \in Seq(Seq(T)) /\ Len(after) = Len(s) + 1
      /\ \A i \in 1..Len(s) + 1 : after[i] = g[all[i]]
  BY <1>1, <1>3, <1>5
<1>. HIDE DEF before, after
<1>7. after = Append(before, g[e])
  <2>1. /\ Append(before, g[e]) \in Seq(Seq(T)) /\ Len(Append(before, g[e])) = Len(s) + 1
        /\ Append(before, g[e])[Len(s) + 1] = g[e]
        /\ \A i \in 1..Len(s) : Append(before, g[e])[i] = before[i]
    <3>1. ASSUME NEW R, NEW u \in Seq(R), NEW y \in R
          PROVE  /\ Append(u, y) \in Seq(R) /\ Len(Append(u, y)) = Len(u) + 1
                 /\ Append(u, y)[Len(u) + 1] = y
                 /\ \A i \in 1..Len(u) : Append(u, y)[i] = u[i]
      OBVIOUS
    <3>. QED
      BY <1>3, <1>4, <3>1
  <2>2. \A i \in 1..Len(s) + 1 : i = Len(s) + 1 \/ i \in 1..Len(s)
    BY <1>3
  <2>3. \A i \in 1..Len(after) : after[i] = Append(before, g[e])[i]
    BY <1>1, <1>3, <1>4, <1>6, <2>1, <2>2, SMTT(60)
  <2>. QED
    BY <1>6, <2>1, <2>3, SeqEqual
<1>8. FlattenSeq(after) = FlattenSeq(before) \o g[e]
  BY <1>3, <1>4, <1>7, FlattenAppend
<1>. QED
  BY <1>8 DEF Mapped, before, after, all

\* A set that holds the empty sequence and every extension holds all sequences.
LEMMA Extending ==
    ASSUME NEW S, NEW Z, <<>> \in Z,
           \A s \in Seq(S) : s \in Z => \A e \in S : Append(s, e) \in Z
    PROVE  Seq(S) \subseteq Z
<1>. DEFINE Y == {n \in Nat : \A s \in Seq(S) : Len(s) = n => s \in Z}
<1>1. 0 \in Y
  <2>1. \A s \in Seq(S) : Len(s) = 0 => s = <<>>
    OBVIOUS
  <2>. QED
    BY <2>1
<1>2. ASSUME NEW n \in Nat, n \in Y PROVE n + 1 \in Y
  <2>1. ASSUME NEW s \in Seq(S), Len(s) = n + 1 PROVE s \in Z
    <3>1. s # <<>>
      BY <2>1, EmptySeq
    <3>. DEFINE f == SubSeq(s, 1, Len(s) - 1)
                e == s[Len(s)]
    <3>2. /\ f \in Seq(S) /\ e \in S /\ Len(f) = Len(s) - 1 /\ s = Append(f, e)
      BY <3>1, Appended
    <3>. HIDE DEF f, e
    <3>3. f \in Z
      BY <1>2, <2>1, <3>2
    <3>. QED
      BY <3>2, <3>3
  <2>. QED
    BY <2>1
<1>3. Nat \subseteq Y
  <2>. HIDE DEF Y
  <2>. QED
    BY <1>1, <1>2, Counting
<1>. QED
  BY <1>3

\* Where a cut falls in two sequences that are joined.
LEMMA CutConcat ==
    ASSUME NEW S, NEW s \in Seq(S), NEW t \in Seq(S), NEW j \in 0..Len(s) + Len(t)
    PROVE  SubSeq(s \o t, 1, j) = IF j <= Len(s) THEN SubSeq(s, 1, j)
                                  ELSE s \o SubSeq(t, 1, j - Len(s))
<1>1. Len(s) \in Nat /\ Len(t) \in Nat
  OBVIOUS
<1>2. /\ s \o t \in Seq(S) /\ Len(s \o t) = Len(s) + Len(t)
      /\ \A i \in 1..Len(s) + Len(t) :
           (s \o t)[i] = IF i <= Len(s) THEN s[i] ELSE t[i - Len(s)]
  BY ConcatProperties
<1>3. ASSUME NEW u \in Seq(S), NEW k \in 0..Len(u)
      PROVE  /\ SubSeq(u, 1, k) \in Seq(S) /\ Len(SubSeq(u, 1, k)) = k
             /\ \A i \in 1..k : SubSeq(u, 1, k)[i] = u[i]
  OBVIOUS
<1>. DEFINE l == SubSeq(s \o t, 1, j)
<1>4. l \in Seq(S) /\ Len(l) = j /\ \A i \in 1..j : l[i] = (s \o t)[i]
  <2>1. j \in 0..Len(s \o t)
    BY <1>2
  <2>. QED
    BY <1>2, <1>3, <2>1
<1>. HIDE DEF l
<1>5. CASE j <= Len(s)
  <2>. DEFINE r == SubSeq(s, 1, j)
  <2>1. r \in Seq(S) /\ Len(r) = j /\ \A i \in 1..j : r[i] = s[i]
    <3>1. j \in 0..Len(s)
      BY <1>1, <1>5
    <3>. QED
      BY <1>3, <3>1
  <2>. HIDE DEF r
  <2>2. \A i \in 1..Len(l) : l[i] = r[i]
    BY <1>1, <1>2, <1>4, <1>5, <2>1
  <2>3. l = r
    BY <1>4, <2>1, <2>2, SeqEqual
  <2>. QED
    BY <1>5, <2>3 DEF l, r
<1>6. CASE ~(j <= Len(s))
  <2>. DEFINE x == SubSeq(t, 1, j - Len(s))
              r == s \o x
  <2>1. x \in Seq(S) /\ Len(x) = j - Len(s) /\ \A i \in 1..j - Len(s) : x[i] = t[i]
    <3>1. j - Len(s) \in 0..Len(t)
      BY <1>1, <1>6
    <3>. QED
      BY <1>3, <3>1
  <2>. HIDE DEF x
  <2>2. /\ r \in Seq(S) /\ Len(r) = Len(s) + Len(x)
        /\ \A i \in 1..Len(s) + Len(x) : r[i] = IF i <= Len(s) THEN s[i] ELSE x[i - Len(s)]
    BY <2>1, ConcatProperties
  <2>. HIDE DEF r
  <2>3. ASSUME NEW i \in 1..Len(l) PROVE l[i] = r[i]
    <3>1. i \in 1..Len(s) + Len(x) /\ i \in 1..Len(s) + Len(t)
      BY <1>1, <1>4, <2>1
    <3>2. ~(i <= Len(s)) => i - Len(s) \in 1..j - Len(s)
      BY <1>1, <1>4
    <3>. QED
      BY <1>2, <1>4, <2>1, <2>2, <3>1, <3>2
  <2>4. l = r
    <3>1. Len(l) = Len(r)
      BY <1>1, <1>4, <2>1, <2>2
    <3>. QED
      BY <1>4, <2>2, <2>3, <3>1, SeqEqual
  <2>. QED
    BY <1>6, <2>4 DEF l, r, x
<1>. QED
  BY <1>5, <1>6

-----------------------------------------------------------------------------
\* What is sent, item by item.

Refusals(B) == {"WONT", "DONT"} \X B

\* The bytes of a payload.
LEMMA DoubledIs ==
    ASSUME NEW B, "IAC" \in B
    PROVE  /\ Doubled(<<>>) = <<>>
           /\ \A b \in B : Escaped(b) \in Seq(B)
           /\ \A p \in Seq(B) : Doubled(p) \in Seq(B)
           /\ \A p \in Seq(B) : \A b \in B : Doubled(Append(p, b)) = Doubled(p) \o Escaped(b)
<1>1. Doubled(<<>>) = <<>>
  <2>. DEFINE m == [i \in DOMAIN <<>> |-> Escaped(<<>>[i])]
  <2>1. m = <<>>
    OBVIOUS
  <2>. QED
    BY <2>1 DEF Doubled, FlattenSeq
<1>. DEFINE g == [b \in B |-> Escaped(b)]
<1>2. ASSUME NEW b \in B PROVE Escaped(b) \in Seq(B)
  BY DEF Escaped
<1>3. g \in [B -> Seq(B)] /\ \A b \in B : g[b] = Escaped(b)
  BY <1>2
<1>. HIDE DEF g
<1>4. ASSUME NEW p \in Seq(B)
      PROVE  Doubled(p) = Mapped(g, p)
  <2>1. \A i \in DOMAIN p : p[i] \in B
    OBVIOUS
  <2>2. [i \in DOMAIN p |-> Escaped(p[i])] = [i \in DOMAIN p |-> g[p[i]]]
    BY <1>3, <2>1
  <2>. QED
    BY <2>2 DEF Doubled, Mapped
<1>5. ASSUME NEW p \in Seq(B) PROVE Doubled(p) \in Seq(B)
  BY <1>3, <1>4, MapTyped, SMTT(60)
<1>6. ASSUME NEW p \in Seq(B), NEW b \in B
      PROVE  Doubled(Append(p, b)) = Doubled(p) \o Escaped(b)
  <2>1. Append(p, b) \in Seq(B)
    OBVIOUS
  <2>. QED
    BY <1>3, <1>4, <2>1, MapAppend
<1>. QED
  BY <1>1, <1>2, <1>5, <1>6

\* What each kind of item is on the wire, on the screen, and in the replies.
LEMMA TextIs ==
    ASSUME NEW b
    PROVE  /\ Encoded(Text(b)) = Escaped(b)
           /\ Shown(Text(b)) = <<b>> /\ Refused(Text(b)) = <<>>
BY DEF Text, Encoded, Shown, Refused

LEMMA OptionIs ==
    ASSUME NEW v, NEW o
    PROVE  /\ Encoded(Option(v, o)) = <<"IAC", v, o>>
           /\ Shown(Option(v, o)) = <<>>
           /\ v = "DO" => Refused(Option(v, o)) = <<<<"WONT", o>>>>
           /\ v = "WILL" => Refused(Option(v, o)) = <<<<"DONT", o>>>>
           /\ v \notin {"DO", "WILL"} => Refused(Option(v, o)) = <<>>
BY DEF Option, Encoded, Shown, Refused

LEMMA SubIs ==
    ASSUME NEW p
    PROVE  /\ Encoded(Sub(p)) = <<"IAC", "SB">> \o Doubled(p) \o <<"IAC", "SE">>
           /\ Shown(Sub(p)) = <<>> /\ Refused(Sub(p)) = <<>>
BY DEF Sub, Encoded, Shown, Refused

LEMMA NopIs ==
    Encoded(Nop) = <<"IAC", "NOP">> /\ Shown(Nop) = <<>> /\ Refused(Nop) = <<>>
BY DEF Nop, Encoded, Shown, Refused

\* There are no others.
LEMMA ItemKinds ==
    ASSUME NEW B, NEW x \in Items(B)
    PROVE  \/ \E b \in B : x = Text(b)
           \/ \E v \in Verbs, o \in B : x = Option(v, o)
           \/ \E p \in Seq(B) : x = Sub(p)
           \/ x = Nop
<1>1. ASSUME x \in [kind : {"text"}, byte : B] PROVE x = Text(x.byte) /\ x.byte \in B
  BY <1>1 DEF Text
<1>2. ASSUME x \in [kind : {"option"}, verb : Verbs, option : B]
      PROVE  x = Option(x.verb, x.option) /\ x.verb \in Verbs /\ x.option \in B
  BY <1>2 DEF Option
<1>3. ASSUME x \in [kind : {"sub"}, payload : Seq(B)]
      PROVE  x = Sub(x.payload) /\ x.payload \in Seq(B)
  BY <1>3 DEF Sub
<1>. QED
  BY <1>1, <1>2, <1>3 DEF Items

LEMMA ItemTyped ==
    ASSUME NEW B, Commands(B), NEW x \in Items(B)
    PROVE  Encoded(x) \in Seq(B) /\ Shown(x) \in Seq(B) /\ Refused(x) \in Seq(Refusals(B))
<1>. DEFINE Typed(y) == /\ Encoded(y) \in Seq(B) /\ Shown(y) \in Seq(B)
                        /\ Refused(y) \in Seq(Refusals(B))
<1>1. <<>> \in Seq(B) /\ <<>> \in Seq(Refusals(B))
  OBVIOUS
<1>2. "IAC" \in B /\ "SB" \in B /\ "SE" \in B /\ "NOP" \in B /\ Verbs \subseteq B
  BY DEF Commands
<1>3. ASSUME NEW b \in B PROVE Typed(Text(b))
  <2>1. Escaped(b) \in Seq(B) /\ <<b>> \in Seq(B)
    BY <1>2, DoubledIs
  <2>. QED
    BY <1>1, <2>1, TextIs, Zenon
<1>4. ASSUME NEW v \in Verbs, NEW o \in B PROVE Typed(Option(v, o))
  <2>1. <<"IAC", v, o>> \in Seq(B)
    BY <1>2
  <2>2. <<"WONT", o>> \in Refusals(B) /\ <<"DONT", o>> \in Refusals(B)
    BY DEF Refusals
  <2>3. ASSUME NEW S, NEW e \in S PROVE <<e>> \in Seq(S)
    OBVIOUS
  <2>4. <<<<"WONT", o>>>> \in Seq(Refusals(B)) /\ <<<<"DONT", o>>>> \in Seq(Refusals(B))
    BY <2>2, <2>3
  <2>5. \/ Refused(Option(v, o)) = <<>>
        \/ Refused(Option(v, o)) = <<<<"WONT", o>>>>
        \/ Refused(Option(v, o)) = <<<<"DONT", o>>>>
    BY OptionIs
  <2>6. Encoded(Option(v, o)) = <<"IAC", v, o>> /\ Shown(Option(v, o)) = <<>>
    BY OptionIs
  <2>. QED
    BY <1>1, <2>1, <2>4, <2>5, <2>6, Zenon
<1>5. ASSUME NEW p \in Seq(B) PROVE Typed(Sub(p))
  <2>1. <<"IAC", "SB">> \in Seq(B) /\ <<"IAC", "SE">> \in Seq(B)
    BY <1>2
  <2>2. Doubled(p) \in Seq(B)
    BY <1>2, DoubledIs
  <2>3. <<"IAC", "SB">> \o Doubled(p) \o <<"IAC", "SE">> \in Seq(B)
    BY <2>1, <2>2, ConcatProperties
  <2>. QED
    BY <1>1, <2>3, SubIs, Zenon
<1>6. Typed(Nop)
  <2>1. <<"IAC", "NOP">> \in Seq(B)
    BY <1>2
  <2>. QED
    BY <1>1, <2>1, NopIs, Zenon
<1>. HIDE DEF Typed
<1>7. Typed(x)
  BY <1>3, <1>4, <1>5, <1>6, ItemKinds
<1>. QED
  BY <1>7 DEF Typed

\* A stream of one more item.
LEMMA StreamIs ==
    ASSUME NEW B, Commands(B)
    PROVE  /\ Wire(<<>>) = <<>> /\ MeantText(<<>>) = <<>> /\ MeantRefusals(<<>>) = <<>>
           /\ \A s \in Seq(Items(B)) :
                /\ Wire(s) \in Seq(B) /\ MeantText(s) \in Seq(B)
                /\ MeantRefusals(s) \in Seq(Refusals(B))
           /\ \A s \in Seq(Items(B)) : \A x \in Items(B) :
                /\ Wire(Append(s, x)) = Wire(s) \o Encoded(x)
                /\ MeantText(Append(s, x)) = MeantText(s) \o Shown(x)
                /\ MeantRefusals(Append(s, x)) = MeantRefusals(s) \o Refused(x)
<1>. DEFINE e == [x \in Items(B) |-> Encoded(x)]
            t == [x \in Items(B) |-> Shown(x)]
            r == [x \in Items(B) |-> Refused(x)]
<1>1. /\ e \in [Items(B) -> Seq(B)] /\ \A x \in Items(B) : e[x] = Encoded(x)
      /\ t \in [Items(B) -> Seq(B)] /\ \A x \in Items(B) : t[x] = Shown(x)
      /\ r \in [Items(B) -> Seq(Refusals(B))] /\ \A x \in Items(B) : r[x] = Refused(x)
  BY ItemTyped
<1>. HIDE DEF e, t, r
<1>2. ASSUME NEW s \in Seq(Items(B))
      PROVE  /\ Wire(s) = Mapped(e, s) /\ MeantText(s) = Mapped(t, s)
             /\ MeantRefusals(s) = Mapped(r, s)
  <2>1. \A i \in DOMAIN s : s[i] \in Items(B)
    OBVIOUS
  <2>2. [i \in DOMAIN s |-> Encoded(s[i])] = [i \in DOMAIN s |-> e[s[i]]]
    BY <1>1, <2>1
  <2>3. [i \in DOMAIN s |-> Shown(s[i])] = [i \in DOMAIN s |-> t[s[i]]]
    BY <1>1, <2>1
  <2>4. [i \in DOMAIN s |-> Refused(s[i])] = [i \in DOMAIN s |-> r[s[i]]]
    BY <1>1, <2>1
  <2>. QED
    BY <2>2, <2>3, <2>4 DEF Wire, MeantText, MeantRefusals, Mapped
<1>3. ASSUME NEW T, NEW g \in [Items(B) -> Seq(T)], NEW s \in Seq(Items(B))
      PROVE  /\ Mapped(g, s) \in Seq(T)
             /\ \A x \in Items(B) : Mapped(g, Append(s, x)) = Mapped(g, s) \o g[x]
  BY MapTyped, MapAppend
<1>4. ASSUME NEW s \in Seq(Items(B))
      PROVE  /\ Wire(s) \in Seq(B) /\ MeantText(s) \in Seq(B)
             /\ MeantRefusals(s) \in Seq(Refusals(B))
  <2>1. Mapped(e, s) \in Seq(B)
    BY <1>1, <1>3
  <2>2. Mapped(t, s) \in Seq(B)
    BY <1>1, <1>3
  <2>3. Mapped(r, s) \in Seq(Refusals(B))
    BY <1>1, <1>3
  <2>. QED
    BY <1>2, <2>1, <2>2, <2>3
<1>6. ASSUME NEW s \in Seq(Items(B)), NEW x \in Items(B)
      PROVE  /\ Wire(Append(s, x)) = Wire(s) \o Encoded(x)
             /\ MeantText(Append(s, x)) = MeantText(s) \o Shown(x)
             /\ MeantRefusals(Append(s, x)) = MeantRefusals(s) \o Refused(x)
  <2>1. Append(s, x) \in Seq(Items(B))
    OBVIOUS
  <2>2. Mapped(e, Append(s, x)) = Mapped(e, s) \o e[x]
    BY <1>1, <1>3
  <2>3. Mapped(t, Append(s, x)) = Mapped(t, s) \o t[x]
    BY <1>1, <1>3
  <2>4. Mapped(r, Append(s, x)) = Mapped(r, s) \o r[x]
    BY <1>1, <1>3
  <2>. QED
    BY <1>1, <1>2, <2>1, <2>2, <2>3, <2>4
<1>5. Wire(<<>>) = <<>> /\ MeantText(<<>>) = <<>> /\ MeantRefusals(<<>>) = <<>>
  <2>1. /\ [i \in DOMAIN <<>> |-> Encoded(<<>>[i])] = <<>>
        /\ [i \in DOMAIN <<>> |-> Shown(<<>>[i])] = <<>>
        /\ [i \in DOMAIN <<>> |-> Refused(<<>>[i])] = <<>>
    OBVIOUS
  <2>. QED
    BY <2>1 DEF Wire, MeantText, MeantRefusals, FlattenSeq
<1>. QED
  BY <1>4, <1>5, <1>6

-----------------------------------------------------------------------------
\* What the negotiator makes of an item.

\* One byte in each state.
LEMMA TakeIs ==
    ASSUME NEW n, NEW b
    PROVE  /\ n.state = "normal" /\ b # "IAC" => Take(n, b) = Keep(n, b)
           /\ n.state = "normal" /\ b = "IAC" => Take(n, b) = To(n, "iac")
           /\ n.state = "iac" /\ b = "IAC" => Take(n, b) = Keep(n, b)
           /\ n.state = "iac" /\ b \in Verbs => Take(n, b) = [To(n, "verb") EXCEPT !.verb = b]
           /\ n.state = "iac" /\ b = "SB" => Take(n, b) = To(n, "sb")
           /\ n.state = "iac" /\ b = "NOP" => Take(n, b) = To(n, "normal")
           /\ n.state = "verb" => Take(n, b) = To(Reply(n, b), "normal")
           /\ n.state = "sb" /\ b # "IAC" => Take(n, b) = To(n, "sb")
           /\ n.state = "sb" /\ b = "IAC" => Take(n, b) = To(n, "sb_iac")
           /\ n.state = "sb_iac" /\ b = "SE" => Take(n, b) = To(n, "normal")
           /\ n.state = "sb_iac" /\ b # "SE" => Take(n, b) = To(n, "sb")
BY DEF Take, Verbs

\* What was received and answered so far is untouched.
Same(n, m) == m.text = n.text /\ m.sent = n.sent

LEMMA ToIs ==
    ASSUME NEW B, NEW n \in States(B),
           NEW state \in {"normal", "iac", "verb", "sb", "sb_iac"}
    PROVE  /\ To(n, state) \in States(B) /\ To(n, state).state = state
           /\ Same(n, To(n, state)) /\ To(n, state).verb = n.verb
BY DEF To, States, Same

\* Short sequences and their cuts.
LEMMA Short2 ==
    ASSUME NEW B, NEW a \in B, NEW b \in B
    PROVE  <<a, b>> = <<a>> \o <<b>>
<1>1. /\ <<a>> \in Seq(B) /\ Len(<<a>>) = 1 /\ <<a>>[1] = a
      /\ <<b>> \in Seq(B) /\ Len(<<b>>) = 1 /\ <<b>>[1] = b
      /\ <<a, b>> \in Seq(B) /\ Len(<<a, b>>) = 2 /\ <<a, b>>[1] = a /\ <<a, b>>[2] = b
  OBVIOUS
<1>. DEFINE s == <<a>>
            t == <<b>>
            u == <<a, b>>
<1>. HIDE DEF s, t, u
<1>2. /\ s \in Seq(B) /\ Len(s) = 1 /\ s[1] = a /\ t \in Seq(B) /\ Len(t) = 1 /\ t[1] = b
      /\ u \in Seq(B) /\ Len(u) = 2 /\ u[1] = a /\ u[2] = b
  BY <1>1 DEF s, t, u
<1>3. s \o t \in Seq(B) /\ Len(s \o t) = 2 /\ (s \o t)[1] = a /\ (s \o t)[2] = b
  <2>1. /\ s \o t \in Seq(B) /\ Len(s \o t) = Len(s) + Len(t)
        /\ \A i \in 1..Len(s) + Len(t) :
             (s \o t)[i] = IF i <= Len(s) THEN s[i] ELSE t[i - Len(s)]
    BY <1>2, ConcatProperties
  <2>2. 1 \in 1..Len(s) + Len(t) /\ 2 \in 1..Len(s) + Len(t)
    BY <1>2
  <2>. QED
    BY <1>2, <2>1, <2>2
<1>4. \A i \in 1..Len(u) : u[i] = (s \o t)[i]
  <2>1. \A i \in 1..Len(u) : i = 1 \/ i = 2
    BY <1>2
  <2>. QED
    BY <1>2, <1>3, <2>1
<1>5. u = s \o t
  BY <1>2, <1>3, <1>4, SeqEqual
<1>. QED
  BY <1>5 DEF s, t, u

LEMMA Short3 ==
    ASSUME NEW B, NEW a \in B, NEW b \in B, NEW c \in B
    PROVE  <<a, b, c>> = <<a, b>> \o <<c>>
<1>1. /\ <<a, b>> \in Seq(B) /\ Len(<<a, b>>) = 2 /\ <<a, b>>[1] = a /\ <<a, b>>[2] = b
      /\ <<c>> \in Seq(B) /\ Len(<<c>>) = 1 /\ <<c>>[1] = c
      /\ <<a, b, c>> \in Seq(B) /\ Len(<<a, b, c>>) = 3
      /\ <<a, b, c>>[1] = a /\ <<a, b, c>>[2] = b /\ <<a, b, c>>[3] = c
  OBVIOUS
<1>. DEFINE s == <<a, b>>
            t == <<c>>
            u == <<a, b, c>>
<1>. HIDE DEF s, t, u
<1>2. /\ s \in Seq(B) /\ Len(s) = 2 /\ s[1] = a /\ s[2] = b
      /\ t \in Seq(B) /\ Len(t) = 1 /\ t[1] = c
      /\ u \in Seq(B) /\ Len(u) = 3 /\ u[1] = a /\ u[2] = b /\ u[3] = c
  BY <1>1 DEF s, t, u
<1>3. /\ s \o t \in Seq(B) /\ Len(s \o t) = 3
      /\ (s \o t)[1] = a /\ (s \o t)[2] = b /\ (s \o t)[3] = c
  <2>1. /\ s \o t \in Seq(B) /\ Len(s \o t) = Len(s) + Len(t)
        /\ \A i \in 1..Len(s) + Len(t) :
             (s \o t)[i] = IF i <= Len(s) THEN s[i] ELSE t[i - Len(s)]
    BY <1>2, ConcatProperties
  <2>2. \A i \in {1, 2, 3} : i \in 1..Len(s) + Len(t)
    BY <1>2
  <2>. QED
    BY <1>2, <2>1, <2>2
<1>4. \A i \in 1..Len(u) : u[i] = (s \o t)[i]
  <2>1. \A i \in 1..Len(u) : i = 1 \/ i = 2 \/ i = 3
    BY <1>2
  <2>. QED
    BY <1>2, <1>3, <2>1
<1>5. u = s \o t
  BY <1>2, <1>3, <1>4, SeqEqual
<1>. QED
  BY <1>5 DEF s, t, u

\* Bytes that show and answer nothing, wherever they are cut.
Quiet(n, s) == \A j \in 0..Len(s) : Same(n, Run(n, SubSeq(s, 1, j)))

LEMMA QuietByte ==
    ASSUME NEW B, NEW n \in States(B), NEW b \in B, Same(n, Take(n, b))
    PROVE  Quiet(n, <<b>>)
<1>1. Len(<<b>>) = 1 /\ <<b>> \in Seq(B)
  OBVIOUS
<1>2. SubSeq(<<b>>, 1, 1) = <<b>>
  BY <1>1, SubSeqFull
<1>3. SubSeq(<<b>>, 1, 0) = <<>>
  BY SubSeqEmpty
<1>4. \A j \in 0..1 : j = 0 \/ j = 1
  OBVIOUS
<1>5. Same(n, Run(n, <<>>)) /\ Same(n, Run(n, <<b>>))
  BY RunEmpty, RunByte DEF Same
<1>. QED
  BY <1>1, <1>2, <1>3, <1>4, <1>5 DEF Quiet

LEMMA QuietConcat ==
    ASSUME NEW B, NEW n \in States(B), NEW s \in Seq(B), NEW t \in Seq(B),
           Quiet(n, s), Quiet(Run(n, s), t)
    PROVE  Quiet(n, s \o t)
<1>1. Len(s) \in Nat /\ Len(t) \in Nat /\ Len(s \o t) = Len(s) + Len(t)
  BY ConcatProperties
<1>2. Same(n, Run(n, s))
  <2>1. SubSeq(s, 1, Len(s)) = s /\ Len(s) \in 0..Len(s)
    BY <1>1, SubSeqFull
  <2>. QED
    BY <2>1 DEF Quiet
<1>3. ASSUME NEW j \in 0..Len(s) + Len(t) PROVE Same(n, Run(n, SubSeq(s \o t, 1, j)))
  <2>1. CASE j <= Len(s)
    <3>1. j \in 0..Len(s) /\ SubSeq(s \o t, 1, j) = SubSeq(s, 1, j)
      BY <1>1, <2>1, CutConcat
    <3>. QED
      BY <3>1 DEF Quiet
  <2>2. CASE ~(j <= Len(s))
    <3>. DEFINE k == j - Len(s)
                u == SubSeq(t, 1, k)
    <3>1. k \in 0..Len(t) /\ SubSeq(s \o t, 1, j) = s \o u
      BY <1>1, <2>2, CutConcat
    <3>2. u \in Seq(B)
      <4>. HIDE DEF k
      <4>. QED
        BY <3>1
    <3>3. Same(Run(n, s), Run(Run(n, s), u))
      <4>. HIDE DEF k
      <4>. QED
        BY <3>1 DEF Quiet
    <3>. HIDE DEF u, k
    <3>4. Run(n, s \o u) = Run(Run(n, s), u)
      BY <3>2, RunsJoin
    <3>. QED
      BY <1>2, <3>1, <3>3, <3>4 DEF Same
  <2>. QED
    BY <2>1, <2>2
<1>. QED
  BY <1>1, <1>3 DEF Quiet

\* A payload is skipped, whatever bytes it is made of.
LEMMA PayloadIsQuiet ==
    ASSUME NEW B, "IAC" \in B, NEW n \in States(B), n.state = "sb", NEW p \in Seq(B)
    PROVE  Quiet(n, Doubled(p)) /\ Run(n, Doubled(p)) = n
<1>. DEFINE Z == {s \in Seq(B) : Quiet(n, Doubled(s)) /\ Run(n, Doubled(s)) = n}
<1>0. To(n, "sb") = n
  BY DEF To, States
<1>1. <<>> \in Z
  <2>1. Run(n, <<>>) = n /\ Len(<<>>) = 0 /\ SubSeq(<<>>, 1, 0) = <<>>
    BY RunEmpty, SubSeqEmpty
  <2>2. \A j \in 0..0 : j = 0
    OBVIOUS
  <2>3. Quiet(n, <<>>)
    BY <2>1, <2>2 DEF Quiet, Same
  <2>4. <<>> \in Seq(B)
    OBVIOUS
  <2>. QED
    BY <2>1, <2>3, <2>4, DoubledIs
<1>2. ASSUME NEW s \in Seq(B), s \in Z, NEW b \in B PROVE Append(s, b) \in Z
  <2>1. /\ Doubled(Append(s, b)) = Doubled(s) \o Escaped(b)
        /\ Doubled(s) \in Seq(B) /\ Escaped(b) \in Seq(B)
    BY DoubledIs
  <2>2. Quiet(n, Doubled(s)) /\ Run(n, Doubled(s)) = n
    BY <1>2
  <2>3. Quiet(n, Escaped(b)) /\ Run(n, Escaped(b)) = n
    <3>1. CASE b # "IAC"
      <4>1. Escaped(b) = <<b>> /\ Take(n, b) = n
        BY <1>0, <3>1, TakeIs DEF Escaped
      <4>2. Quiet(n, <<b>>)
        BY <4>1, QuietByte DEF Same
      <4>. QED
        BY <4>1, <4>2, RunByte
    <3>2. CASE b = "IAC"
      <4>. DEFINE m == To(n, "sb_iac")
      <4>1. Take(n, "IAC") = m
        BY TakeIs
      <4>2. m \in States(B) /\ m.state = "sb_iac" /\ Same(n, m)
        BY ToIs
      <4>3. To(m, "sb") = n
        BY DEF To, States
      <4>. HIDE DEF m
      <4>4. Take(m, "IAC") = n
        BY <4>2, <4>3, TakeIs
      <4>5. Quiet(n, <<"IAC">>) /\ Quiet(m, <<"IAC">>)
        BY <4>1, <4>2, <4>4, QuietByte DEF Same
      <4>6. Run(n, <<"IAC">>) = m /\ Run(m, <<"IAC">>) = n
        BY <4>1, <4>4, RunByte
      <4>7. <<"IAC">> \in Seq(B) /\ Escaped(b) = <<"IAC">> \o <<"IAC">>
        BY <3>2, Short2 DEF Escaped
      <4>. DEFINE e == <<"IAC">>
      <4>8. /\ Quiet(n, e) /\ Quiet(Run(n, e), e) /\ Run(Run(n, e), e) = n
            /\ e \in Seq(B) /\ Escaped(b) = e \o e
        BY <4>5, <4>6, <4>7
      <4>. HIDE DEF e
      <4>9. Quiet(n, e \o e) /\ Run(n, e \o e) = Run(Run(n, e), e)
        BY <4>8, QuietConcat, RunsJoin
      <4>. QED
        BY <4>8, <4>9
    <3>. QED
      BY <3>1, <3>2
  <2>4. Quiet(n, Doubled(Append(s, b))) /\ Run(n, Doubled(Append(s, b))) = n
    BY <2>1, <2>2, <2>3, QuietConcat, RunsJoin
  <2>5. Append(s, b) \in Seq(B)
    OBVIOUS
  <2>. QED
    BY <2>4, <2>5
<1>3. Seq(B) \subseteq Z
  <2>. HIDE DEF Z
  <2>. QED
    BY <1>1, <1>2, Extending
<1>. QED
  BY <1>3

\* An item is quiet up to its last byte; with that byte it is shown or refused.
Parses(B, n, x, q, c) ==
    /\ Encoded(x) = q \o <<c>> /\ Quiet(n, q)
    /\ Run(n, Encoded(x)) \in States(B)
    /\ Run(n, Encoded(x)).state = "normal"
    /\ Run(n, Encoded(x)).text = n.text \o Shown(x)
    /\ Run(n, Encoded(x)).sent = n.sent \o Refused(x)

LEMMA ItemParses ==
    ASSUME NEW B, Commands(B), NEW n \in States(B), n.state = "normal", NEW x \in Items(B)
    PROVE  \E q \in Seq(B), c \in B : Parses(B, n, x, q, c)
<1>0. "IAC" \in B /\ "SB" \in B /\ "SE" \in B /\ "NOP" \in B /\ Verbs \subseteq B
  BY DEF Commands
<1>1. /\ n.text \in Seq(B) /\ n.sent \in Seq(Refusals(B))
      /\ n.text \o <<>> = n.text /\ n.sent \o <<>> = n.sent
  BY DEF States, Refusals
<1>2. Run(n, Encoded(x)) \in States(B)
  BY ItemTyped, RunTyped
<1>. DEFINE i == To(n, "iac")
            e == <<"IAC">>
<1>3. /\ i \in States(B) /\ i.state = "iac" /\ Same(n, i)
      /\ Run(n, e) = i /\ Quiet(n, e) /\ e \in Seq(B)
  <2>1. i \in States(B) /\ i.state = "iac" /\ Same(n, i)
    BY ToIs
  <2>2. Take(n, "IAC") = i
    BY TakeIs
  <2>. HIDE DEF i
  <2>3. Run(n, <<"IAC">>) = i /\ Quiet(n, <<"IAC">>)
    BY <1>0, <2>1, <2>2, RunByte, QuietByte
  <2>. QED
    BY <1>0, <2>1, <2>3
<1>. HIDE DEF i, e
<1>4. ASSUME NEW q \in Seq(B), NEW c \in B, Encoded(x) = q \o <<c>>
      PROVE  Run(n, Encoded(x)) = Take(Run(n, q), c)
  <2>1. <<c>> \in Seq(B)
    OBVIOUS
  <2>2. Run(n, q \o <<c>>) = Run(Run(n, q), <<c>>)
    <3>1. \A t \in Seq(B) : Run(n, q \o t) = Run(Run(n, q), t)
      BY RunsJoin
    <3>. QED
      BY <2>1, <3>1
  <2>3. Run(Run(n, q), <<c>>) = Take(Run(n, q), c)
    BY RunByte
  <2>. QED
    BY <1>4, <2>2, <2>3
<1>5. ASSUME NEW b \in B, x = Text(b)
      PROVE  \E q \in Seq(B), c \in B : Parses(B, n, x, q, c)
  <2>1. Encoded(x) = Escaped(b) /\ Shown(x) = <<b>> /\ Refused(x) = <<>>
    BY <1>5, TextIs
  <2>2. ASSUME NEW m \in States(B), Same(n, m)
        PROVE  /\ Keep(m, b).state = "normal" /\ Keep(m, b).text = n.text \o <<b>>
               /\ Keep(m, b).sent = n.sent
    <3>1. Append(m.text, b) = m.text \o <<b>>
      BY AppendIsConcat DEF States
    <3>. QED
      BY <2>2, <3>1 DEF Keep, Same, States
  <2>3. CASE b # "IAC"
    <3>1. Encoded(x) = <<>> \o <<b>>
      <4>1. <<b>> \in Seq(B)
        OBVIOUS
      <4>. QED
        BY <2>1, <2>3, <4>1, ConcatEmptySeq DEF Escaped
    <3>2. Quiet(n, <<>>) /\ Run(n, <<>>) = n /\ <<>> \in Seq(B)
      <4>1. Len(<<>>) = 0 /\ SubSeq(<<>>, 1, 0) = <<>> /\ (\A j \in 0..0 : j = 0) /\ <<>> \in Seq(B)
        BY SubSeqEmpty
      <4>. QED
        BY <4>1, RunEmpty DEF Quiet, Same
    <3>3. Run(n, Encoded(x)) = Keep(n, b)
      BY <1>4, <2>3, <3>1, <3>2, TakeIs, ZenonT(60)
    <3>4. Same(n, n)
      BY DEF Same
    <3>5. Parses(B, n, x, <<>>, b)
      BY <1>1, <1>2, <2>1, <2>2, <3>1, <3>2, <3>3, <3>4 DEF Parses
    <3>. QED
      BY <3>2, <3>5
  <2>4. CASE b = "IAC"
    <3>1. Encoded(x) = e \o <<b>>
      BY <1>0, <2>1, <2>4, Short2 DEF Escaped, e
    <3>2. Run(n, Encoded(x)) = Keep(i, b)
      BY <1>3, <1>4, <2>4, <3>1, TakeIs
    <3>3. Parses(B, n, x, e, b)
      BY <1>1, <1>2, <1>3, <2>1, <2>2, <3>1, <3>2 DEF Parses
    <3>. QED
      BY <1>3, <3>3
  <2>. QED
    BY <2>3, <2>4
<1>6. ASSUME NEW v \in Verbs, NEW o \in B, x = Option(v, o)
      PROVE  \E q \in Seq(B), c \in B : Parses(B, n, x, q, c)
  <2>. DEFINE m == [To(i, "verb") EXCEPT !.verb = v]
              d == <<v>>
  <2>1. /\ m \in States(B) /\ m.state = "verb" /\ m.verb = v /\ Same(i, m)
    BY <1>3 DEF To, Same, States
  <2>2. Take(i, v) = m
    BY <1>3, TakeIs
  <2>. HIDE DEF m
  <2>3. Run(i, d) = m /\ Quiet(i, d) /\ d \in Seq(B)
    <3>1. v \in B
      BY <1>0
    <3>. QED
      BY <1>3, <2>1, <2>2, <3>1, RunByte, QuietByte
  <2>4. Encoded(x) = <<"IAC", v>> \o <<o>> /\ <<"IAC", v>> = e \o d
    <3>1. v \in B
      BY <1>0
    <3>2. Encoded(x) = <<"IAC", v, o>>
      BY <1>6, OptionIs
    <3>3. <<"IAC", v, o>> = <<"IAC", v>> \o <<o>>
      BY <1>0, <3>1, Short3
    <3>4. <<"IAC", v>> = <<"IAC">> \o <<v>>
      BY <1>0, <3>1, Short2
    <3>. QED
      BY <3>2, <3>3, <3>4 DEF e
  <2>. HIDE DEF d
  <2>. DEFINE q == e \o d
  <2>5. q \in Seq(B) /\ Quiet(n, q) /\ Run(n, q) = m /\ Encoded(x) = q \o <<o>>
    BY <1>3, <2>3, <2>4, ConcatProperties, QuietConcat, RunsJoin
  <2>. HIDE DEF q
  <2>6. Run(n, Encoded(x)) = To(Reply(m, o), "normal")
    BY <1>4, <2>1, <2>5, TakeIs
  <2>7. m.text = n.text /\ m.sent = n.sent
    BY <1>3, <2>1 DEF Same
  <2>8. Shown(x) = <<>>
    BY <1>6, OptionIs
  <2>9. /\ To(Reply(m, o), "normal").state = "normal"
        /\ To(Reply(m, o), "normal").text = n.text
    BY <2>1, <2>7 DEF To, Reply, States
  <2>10. To(Reply(m, o), "normal").sent = n.sent \o Refused(x)
    <3>1. CASE v = "DO"
      <4>1. To(Reply(m, o), "normal").sent = Append(n.sent, <<"WONT", o>>)
        BY <2>1, <2>7, <3>1 DEF To, Reply, States
      <4>2. Refused(x) = <<<<"WONT", o>>>>
        BY <1>6, <3>1, OptionIs
      <4>3. <<"WONT", o>> \in Refusals(B)
        BY DEF Refusals
      <4>. QED
        BY <1>1, <4>1, <4>2, <4>3, AppendIsConcat
    <3>2. CASE v = "WILL"
      <4>1. To(Reply(m, o), "normal").sent = Append(n.sent, <<"DONT", o>>)
        BY <2>1, <2>7, <3>2 DEF To, Reply, States
      <4>2. Refused(x) = <<<<"DONT", o>>>>
        BY <1>6, <3>2, OptionIs
      <4>3. <<"DONT", o>> \in Refusals(B)
        BY DEF Refusals
      <4>. QED
        BY <1>1, <4>1, <4>2, <4>3, AppendIsConcat
    <3>3. CASE v \notin {"DO", "WILL"}
      <4>1. To(Reply(m, o), "normal").sent = n.sent
        BY <2>1, <2>7, <3>3 DEF To, Reply, States
      <4>2. Refused(x) = <<>>
        BY <1>6, <3>3, OptionIs
      <4>. QED
        BY <1>1, <4>1, <4>2
    <3>. QED
      BY <3>1, <3>2, <3>3
  <2>11. Parses(B, n, x, q, o)
    BY <1>1, <1>2, <2>5, <2>6, <2>8, <2>9, <2>10 DEF Parses
  <2>. QED
    BY <2>5, <2>11
<1>7. ASSUME NEW p \in Seq(B), x = Sub(p)
      PROVE  \E q \in Seq(B), c \in B : Parses(B, n, x, q, c)
  <2>. DEFINE m == To(i, "sb")
              k == To(m, "sb_iac")
              d == <<"SB">>
  <2>1. m \in States(B) /\ m.state = "sb" /\ Same(i, m)
    BY <1>3, ToIs
  <2>2. Take(i, "SB") = m
    BY <1>3, TakeIs
  <2>3. k \in States(B) /\ k.state = "sb_iac" /\ Same(m, k)
    BY <2>1, ToIs
  <2>4. Take(m, "IAC") = k
    BY <2>1, TakeIs
  <2>5. /\ To(k, "normal").state = "normal" /\ Same(k, To(k, "normal"))
        /\ Take(k, "SE") = To(k, "normal")
    BY <2>3, ToIs, TakeIs
  <2>. HIDE DEF m, k
  <2>6. Run(i, d) = m /\ Quiet(i, d) /\ d \in Seq(B)
    BY <1>0, <1>3, <2>1, <2>2, RunByte, QuietByte
  <2>7. Run(m, e) = k /\ Quiet(m, e)
    BY <1>0, <2>1, <2>3, <2>4, RunByte, QuietByte DEF e
  <2>8. /\ Quiet(m, Doubled(p)) /\ Run(m, Doubled(p)) = m /\ Doubled(p) \in Seq(B)
    BY <1>0, <2>1, PayloadIsQuiet, DoubledIs
  <2>9. Encoded(x) = (e \o d) \o Doubled(p) \o (e \o <<"SE">>)
    <3>1. <<"IAC", "SB">> = e \o d /\ <<"IAC", "SE">> = e \o <<"SE">>
      BY <1>0, Short2 DEF e
    <3>. QED
      BY <1>7, <3>1, SubIs
  <2>. HIDE DEF d
  <2>. DEFINE h == e \o d
              l == h \o Doubled(p)
              q == l \o e
  <2>10. h \in Seq(B) /\ Quiet(n, h) /\ Run(n, h) = m
    BY <1>3, <2>6, ConcatProperties, QuietConcat, RunsJoin
  <2>. HIDE DEF h
  <2>11. l \in Seq(B) /\ Quiet(n, l) /\ Run(n, l) = m
    BY <2>8, <2>10, ConcatProperties, QuietConcat, RunsJoin
  <2>. HIDE DEF l
  <2>12. q \in Seq(B) /\ Quiet(n, q) /\ Run(n, q) = k
    BY <1>3, <2>7, <2>11, ConcatProperties, QuietConcat, RunsJoin
  <2>13. Encoded(x) = q \o <<"SE">>
    <3>1. <<"SE">> \in Seq(B) /\ Encoded(x) = l \o (e \o <<"SE">>)
      BY <1>0, <2>9 DEF l, h
    <3>. QED
      BY <1>3, <2>11, <3>1, ConcatAssociative
  <2>. HIDE DEF q
  <2>14. Run(n, Encoded(x)) = To(k, "normal")
    BY <1>0, <1>4, <2>5, <2>12, <2>13
  <2>15. To(k, "normal").text = n.text /\ To(k, "normal").sent = n.sent
    BY <1>3, <2>1, <2>3, <2>5 DEF Same
  <2>16. Parses(B, n, x, q, "SE")
    BY <1>1, <1>2, <1>7, <2>5, <2>12, <2>13, <2>14, <2>15, SubIs DEF Parses
  <2>. QED
    BY <1>0, <2>12, <2>16
<1>8. ASSUME x = Nop PROVE \E q \in Seq(B), c \in B : Parses(B, n, x, q, c)
  <2>1. Encoded(x) = e \o <<"NOP">>
    BY <1>0, <1>8, NopIs, Short2 DEF e
  <2>2. Run(n, Encoded(x)) = To(i, "normal")
    BY <1>0, <1>3, <1>4, <2>1, TakeIs
  <2>3. To(i, "normal").state = "normal" /\ Same(i, To(i, "normal"))
    BY <1>3, ToIs
  <2>4. Parses(B, n, x, e, "NOP")
    BY <1>1, <1>2, <1>3, <1>8, <2>1, <2>2, <2>3, NopIs DEF Parses, Same
  <2>. QED
    BY <1>0, <1>3, <2>4
<1>. QED
  BY <1>5, <1>6, <1>7, <1>8, ItemKinds

-----------------------------------------------------------------------------
\* A stream of items, cut anywhere.

\* Some number is the least, and some bounded number the greatest, of those found.
LEMMA MinIsFound ==
    ASSUME NEW S, S \subseteq Nat, S # {}
    PROVE  Min(S) \in S /\ \A y \in S : Min(S) =< y
<1>1. PICK x \in S : \A y \in S : <<y, x>> \notin OpToRel(<, Nat)
  BY NatLessThanWellFounded, WFMin
<1>2. ASSUME NEW y \in S PROVE x =< y
  <2>1. <<y, x>> \in Nat \X Nat /\ <<y, x>>[1] = y /\ <<y, x>>[2] = x
    OBVIOUS
  <2>2. ~(y < x)
    BY <1>1, <2>1 DEF OpToRel
  <2>. QED
    BY <2>2
<1>. QED
  BY <1>2 DEF Min

LEMMA MaxIsFound ==
    ASSUME NEW n \in Nat, NEW S, S \subseteq 0..n, S # {}
    PROVE  Max(S) \in S /\ \A y \in S : Max(S) >= y
<1>. DEFINE T == {i \in Nat : \A y \in S : y <= i}
            m == Min(T)
<1>1. m \in T /\ \A i \in T : m =< i
  <2>1. n \in T
    OBVIOUS
  <2>2. T \subseteq Nat /\ T # {}
    BY <2>1
  <2>. HIDE DEF T
  <2>. QED
    BY <2>2, MinIsFound
<1>. HIDE DEF m
<1>2. m \in S
  <2>1. SUFFICES ASSUME m \notin S PROVE FALSE
    OBVIOUS
  <2>2. PICK y \in S : y <= m
    BY <1>1
  <2>3. m - 1 \in Nat /\ ~(m =< m - 1)
    BY <1>1, <2>1, <2>2
  <2>4. m - 1 \in T
    BY <1>1, <2>1, <2>3
  <2>. QED
    BY <1>1, <2>3, <2>4
<1>. QED
  BY <1>1, <1>2 DEF Max

\* The complete items among the first j bytes.
Complete(s, j) == {k \in 0..Len(s) : Len(Wire(SubSeq(s, 1, k))) <= j}

LEMMA ArrivedIs ==
    ASSUME NEW B, Commands(B), NEW s \in Seq(Items(B)), NEW j \in Nat
    PROVE  /\ Max(Complete(s, j)) \in Complete(s, j)
           /\ \A k \in Complete(s, j) : Max(Complete(s, j)) >= k
           /\ Arrived(s, j) = SubSeq(s, 1, Max(Complete(s, j)))
<1>1. Len(s) \in Nat
  OBVIOUS
<1>2. 0 \in Complete(s, j)
  <2>1. SubSeq(s, 1, 0) = <<>> /\ Len(<<>>) = 0
    BY SubSeqEmpty
  <2>2. Len(Wire(SubSeq(s, 1, 0))) = 0
    BY <2>1, StreamIs
  <2>. QED
    BY <1>1, <2>2 DEF Complete
<1>3. Complete(s, j) \subseteq 0..Len(s)
  BY DEF Complete
<1>4. Arrived(s, j) = SubSeq(s, 1, Max(Complete(s, j)))
  BY DEF Arrived, Complete
<1>. QED
  BY <1>1, <1>2, <1>3, <1>4, MaxIsFound

\* All have arrived with the last byte, and none is added before its own.
LEMMA ArrivedAll ==
    ASSUME NEW B, Commands(B), NEW s \in Seq(Items(B)), NEW j \in Nat, Len(Wire(s)) <= j
    PROVE  Arrived(s, j) = s
<1>1. Len(s) \in Nat /\ SubSeq(s, 1, Len(s)) = s
  BY SubSeqFull
<1>2. Len(s) \in Complete(s, j)
  <2>. DEFINE all == SubSeq(s, 1, Len(s))
  <2>0. all = s /\ Len(s) \in 0..Len(s)
    BY <1>1
  <2>. HIDE DEF all
  <2>1. Len(Wire(all)) <= j
    BY <2>0
  <2>2. \A k \in 0..Len(s) : Len(Wire(SubSeq(s, 1, k))) <= j => k \in Complete(s, j)
    BY DEF Complete
  <2>. QED
    BY <2>0, <2>1, <2>2 DEF all
<1>3. Max(Complete(s, j)) = Len(s)
  <2>1. Max(Complete(s, j)) \in 0..Len(s) /\ Max(Complete(s, j)) >= Len(s)
    BY <1>2, ArrivedIs DEF Complete
  <2>. QED
    BY <1>1, <2>1
<1>. QED
  BY <1>1, <1>3, ArrivedIs

LEMMA ArrivedBefore ==
    ASSUME NEW B, Commands(B), NEW s \in Seq(Items(B)), NEW x \in Items(B),
           NEW j \in Nat, j < Len(Wire(Append(s, x)))
    PROVE  Arrived(Append(s, x), j) = Arrived(s, j)
<1>. DEFINE a == Append(s, x)
<1>1. /\ a \in Seq(Items(B)) /\ Len(a) = Len(s) + 1 /\ Len(s) \in Nat /\ a = s \o <<x>>
      /\ <<x>> \in Seq(Items(B)) /\ Len(<<x>>) = 1
  BY AppendProperties, AppendIsConcat
<1>. HIDE DEF a
<1>2. ASSUME NEW k \in 0..Len(s) PROVE SubSeq(a, 1, k) = SubSeq(s, 1, k)
  <2>1. k \in 0..Len(s) + Len(<<x>>) /\ k <= Len(s)
    BY <1>1
  <2>. QED
    BY <1>1, <2>1, CutConcat
<1>3. Len(s) + 1 \notin Complete(a, j)
  <2>. DEFINE all == SubSeq(a, 1, Len(s) + 1)
  <2>1. all = a
    BY <1>1, SubSeqFull
  <2>. HIDE DEF all
  <2>2. Wire(a) \in Seq(B)
    BY <1>1, StreamIs
  <2>3. Len(Wire(a)) \in Nat /\ j < Len(Wire(a))
    BY <2>2 DEF a
  <2>4. \A k \in Complete(a, j) : Len(Wire(SubSeq(a, 1, k))) <= j
    BY DEF Complete
  <2>5. ~(Len(Wire(all)) <= j)
    BY <2>1, <2>3
  <2>. QED
    BY <2>4, <2>5 DEF all
<1>4. Complete(a, j) = Complete(s, j)
  <2>1. \A k \in 0..Len(a) : k = Len(s) + 1 \/ k \in 0..Len(s)
    BY <1>1
  <2>2. \A k \in 0..Len(s) : k \in 0..Len(a)
    BY <1>1
  <2>. QED
    BY <1>2, <1>3, <2>1, <2>2 DEF Complete
<1>5. Max(Complete(s, j)) \in 0..Len(s)
  BY ArrivedIs DEF Complete
<1>6. Arrived(a, j) = SubSeq(a, 1, Max(Complete(s, j)))
  BY <1>1, <1>4, ArrivedIs
<1>7. Arrived(s, j) = SubSeq(s, 1, Max(Complete(s, j)))
  BY ArrivedIs
<1>. QED
  BY <1>2, <1>5, <1>6, <1>7 DEF a

\* What the negotiator has made of the first j bytes.
Reads(s, j) ==
    LET n == Run(NewNegotiator, SubSeq(Wire(s), 1, j))
    IN n.text = MeantText(Arrived(s, j)) /\ n.sent = MeantRefusals(Arrived(s, j))

\* What it has made of all of them.
Ends(s) ==
    /\ Run(NewNegotiator, Wire(s)).state = "normal"
    /\ Run(NewNegotiator, Wire(s)).text = MeantText(s)
    /\ Run(NewNegotiator, Wire(s)).sent = MeantRefusals(s)

\* A new connection has read nothing.
LEMMA NewTyped ==
    ASSUME NEW B
    PROVE  /\ NewNegotiator \in States(B) /\ NewNegotiator.state = "normal"
           /\ NewNegotiator.text = <<>> /\ NewNegotiator.sent = <<>>
<1>1. <<>> \in Seq(B) /\ <<>> \in Seq({"WONT", "DONT"} \X B)
  OBVIOUS
<1>. QED
  BY <1>1 DEF NewNegotiator, States, Verbs

\* Whatever the items are, and wherever their bytes are cut, the text and the
\* refusals are those of the items that have arrived.
THEOREM StreamIsUnderstood ==
    ASSUME NEW B, Commands(B), NEW items \in Seq(Items(B))
    PROVE  Ends(items) /\ \A j \in 0..Len(Wire(items)) : Reads(items, j)
<1>. DEFINE New == NewNegotiator
            Z == {s \in Seq(Items(B)) : Ends(s) /\ \A j \in 0..Len(Wire(s)) : Reads(s, j)}
<1>1. ASSUME NEW s \in Seq(Items(B)), Ends(s) PROVE Reads(s, Len(Wire(s)))
  <2>1. Wire(s) \in Seq(B) /\ Len(Wire(s)) \in Nat
    BY StreamIs
  <2>2. SubSeq(Wire(s), 1, Len(Wire(s))) = Wire(s) /\ Arrived(s, Len(Wire(s))) = s
    BY <2>1, SubSeqFull, ArrivedAll
  <2>. QED
    BY <1>1, <2>2 DEF Reads, Ends
<1>2. <<>> \in Z
  <2>1. <<>> \in Seq(Items(B)) /\ Len(<<>>) = 0 /\ \A j \in 0..0 : j = 0
    OBVIOUS
  <2>2. Ends(<<>>)
    BY StreamIs, RunEmpty, NewTyped DEF Ends
  <2>3. Reads(<<>>, 0)
    BY <1>1, <2>1, <2>2, StreamIs
  <2>. QED
    BY <2>1, <2>2, <2>3, StreamIs
<1>0. \A s \in Seq(B) : \A t \in Seq(B) : Run(New, s \o t) = Run(Run(New, s), t)
  <2>1. ASSUME NEW n \in States(B), NEW s \in Seq(B), NEW t \in Seq(B)
        PROVE  Run(n, s \o t) = Run(Run(n, s), t)
    BY RunsJoin
  <2>. QED
    BY <2>1, NewTyped
<1>3. ASSUME NEW s \in Seq(Items(B)), s \in Z, NEW x \in Items(B) PROVE Append(s, x) \in Z
  <2>. DEFINE a == Append(s, x)
              w == Wire(s)
              e == Encoded(x)
              m == Run(New, w)
  <2>1. /\ a \in Seq(Items(B)) /\ w \in Seq(B) /\ e \in Seq(B) /\ Wire(a) = w \o e
        /\ MeantText(a) = MeantText(s) \o Shown(x)
        /\ MeantRefusals(a) = MeantRefusals(s) \o Refused(x)
    <3>1. a \in Seq(Items(B)) /\ e \in Seq(B)
      BY ItemTyped
    <3>2. w \in Seq(B)
      BY StreamIs
    <3>3. /\ Wire(a) = w \o e
          /\ MeantText(a) = MeantText(s) \o Shown(x)
          /\ MeantRefusals(a) = MeantRefusals(s) \o Refused(x)
      BY StreamIs
    <3>. QED
      BY <3>1, <3>2, <3>3
  <2>2. Len(w) \in Nat /\ Len(e) \in Nat /\ Len(Wire(a)) = Len(w) + Len(e)
    BY <2>1, ConcatProperties
  <2>3. Ends(s) /\ \A j \in 0..Len(w) : Reads(s, j)
    BY <1>3
  <2>4. /\ m \in States(B) /\ m.state = "normal"
        /\ m.text = MeantText(s) /\ m.sent = MeantRefusals(s)
    BY <2>1, <2>3, NewTyped, RunTyped DEF Ends
  <2>. HIDE DEF m
  <2>5. PICK q \in Seq(B), c \in B : Parses(B, m, x, q, c)
    BY <2>4, ItemParses
  <2>6. Run(New, w \o e) = Run(m, e)
    BY <1>0, <2>1 DEF m
  <2>7. Ends(a)
    BY <2>1, <2>4, <2>5, <2>6 DEF Ends, Parses
  <2>8. <<c>> \in Seq(B) /\ Len(q) \in Nat /\ e = q \o <<c>> /\ Len(e) = Len(q) + 1
    <3>1. <<c>> \in Seq(B) /\ Len(<<c>>) = 1 /\ e = q \o <<c>>
      BY <2>5 DEF Parses
    <3>. QED
      BY <3>1, ConcatProperties
  <2>11. Len(q) \in Nat /\ Len(e) = Len(q) + 1
    BY <2>8
  <2>. HIDE DEF w, e, a
  <2>9. ASSUME NEW j \in 0..Len(w) + Len(e) PROVE Reads(a, j)
    <3>1. CASE j <= Len(w)
      <4>1. j \in 0..Len(w) /\ j \in Nat /\ j < Len(Wire(a))
        BY <2>2, <2>8, <3>1
      <4>2. SubSeq(Wire(a), 1, j) = SubSeq(w, 1, j)
        BY <2>1, <3>1, CutConcat
      <4>3. Arrived(a, j) = Arrived(s, j)
        BY <4>1, ArrivedBefore DEF a
      <4>. QED
        BY <2>3, <4>1, <4>2, <4>3 DEF Reads, w
    <3>2. CASE j = Len(w) + Len(e)
      BY <1>1, <2>1, <2>2, <2>7, <3>2
    <3>3. CASE ~(j <= Len(w)) /\ j # Len(w) + Len(e)
      <4>. DEFINE k == j - Len(w)
                  u == SubSeq(q, 1, k)
      <4>1. k \in 0..Len(q) /\ j \in Nat /\ Len(w) <= j /\ j < Len(Wire(a))
        <5>. DEFINE lw == Len(w)
                    lq == Len(q)
        <5>1. lw \in Nat /\ lq \in Nat /\ Len(Wire(a)) = lw + (lq + 1) /\ j \in 0..lw + (lq + 1)
          BY <2>2, <2>11
        <5>2. ~(j <= lw) /\ j # lw + (lq + 1)
          BY <2>11, <3>3
        <5>. HIDE DEF lw, lq
        <5>3. j \in Nat /\ lw <= j /\ j < lw + (lq + 1) /\ j - lw \in 0..lq
          BY <5>1, <5>2
        <5>. QED
          BY <5>1, <5>3 DEF lw, lq
      <4>2. SubSeq(e, 1, k) = u
        <5>1. k \in 0..Len(q) + Len(<<c>>) /\ k <= Len(q)
          BY <2>8, <4>1
        <5>. HIDE DEF k
        <5>. QED
          BY <2>8, <5>1, CutConcat
      <4>3. SubSeq(Wire(a), 1, j) = w \o u
        BY <2>1, <3>3, <4>2, CutConcat
      <4>. HIDE DEF k
      <4>4. u \in Seq(B)
        BY <4>1
      <4>5. Same(m, Run(m, u))
        BY <2>5, <4>1 DEF Parses, Quiet
      <4>. HIDE DEF u
      <4>6. Run(New, w \o u) = Run(m, u)
        BY <1>0, <2>1, <4>4 DEF m
      <4>7. Arrived(a, j) = s
        BY <4>1, ArrivedBefore, ArrivedAll DEF a, w
      <4>. QED
        BY <2>4, <4>3, <4>5, <4>6, <4>7 DEF Reads, Same
    <3>. QED
      BY <3>1, <3>2, <3>3
  <2>10. \A j \in 0..Len(Wire(a)) : Reads(a, j)
    BY <2>2, <2>9
  <2>. QED
    BY <2>1, <2>7, <2>10 DEF a
<1>4. Seq(Items(B)) \subseteq Z
  <2>. HIDE DEF Z
  <2>. QED
    BY <1>2, <1>3, Extending
<1>. QED
  BY <1>4

\* One stream after another.
LEMMA StreamsJoin ==
    ASSUME NEW B, Commands(B), NEW s \in Seq(Items(B)), NEW t \in Seq(Items(B))
    PROVE  /\ Wire(s \o t) = Wire(s) \o Wire(t)
           /\ MeantText(s \o t) = MeantText(s) \o MeantText(t)
<1>. DEFINE Joined(u) == /\ Wire(s \o u) = Wire(s) \o Wire(u)
                         /\ MeantText(s \o u) = MeantText(s) \o MeantText(u)
            Z == {u \in Seq(Items(B)) : Joined(u)}
<1>1. ASSUME NEW S, NEW u \in Seq(S) PROVE u \o <<>> = u
  OBVIOUS
<1>2. ASSUME NEW S, NEW u \in Seq(S), NEW v \in Seq(S), NEW w \in Seq(S)
      PROVE  (u \o v) \o w = u \o (v \o w)
  OBVIOUS
<1>3. ASSUME NEW S, NEW u \in Seq(S), NEW v \in Seq(S), NEW e \in S
      PROVE  u \o Append(v, e) = Append(u \o v, e) /\ u \o v \in Seq(S)
  OBVIOUS
<1>4. <<>> \in Z
  <2>1. s \o <<>> = s
    BY <1>1
  <2>2. Wire(s) \o <<>> = Wire(s) /\ MeantText(s) \o <<>> = MeantText(s)
    <3>1. Wire(s) \in Seq(B) /\ MeantText(s) \in Seq(B)
      BY StreamIs
    <3>. QED
      BY <1>1, <3>1
  <2>3. <<>> \in Seq(Items(B))
    OBVIOUS
  <2>. QED
    BY <2>1, <2>2, <2>3, StreamIs
<1>5. ASSUME NEW u \in Seq(Items(B)), u \in Z, NEW x \in Items(B) PROVE Append(u, x) \in Z
  <2>1. /\ s \o Append(u, x) = Append(s \o u, x) /\ s \o u \in Seq(Items(B))
        /\ Append(u, x) \in Seq(Items(B))
    BY <1>3
  <2>2. /\ Wire(Append(s \o u, x)) = Wire(s \o u) \o Encoded(x)
        /\ MeantText(Append(s \o u, x)) = MeantText(s \o u) \o Shown(x)
        /\ Wire(Append(u, x)) = Wire(u) \o Encoded(x)
        /\ MeantText(Append(u, x)) = MeantText(u) \o Shown(x)
    BY <2>1, StreamIs
  <2>3. Encoded(x) \in Seq(B) /\ Shown(x) \in Seq(B)
    BY ItemTyped
  <2>4. /\ Wire(s) \in Seq(B) /\ Wire(u) \in Seq(B)
        /\ MeantText(s) \in Seq(B) /\ MeantText(u) \in Seq(B)
    BY StreamIs
  <2>5. /\ (Wire(s) \o Wire(u)) \o Encoded(x) = Wire(s) \o (Wire(u) \o Encoded(x))
        /\ (MeantText(s) \o MeantText(u)) \o Shown(x) = MeantText(s) \o (MeantText(u) \o Shown(x))
    <3>. DEFINE f == Wire(s)
                g == Wire(u)
                h == Encoded(x)
                f2 == MeantText(s)
                g2 == MeantText(u)
                h2 == Shown(x)
    <3>1. f \in Seq(B) /\ g \in Seq(B) /\ h \in Seq(B)
      BY <2>3, <2>4
    <3>2. f2 \in Seq(B) /\ g2 \in Seq(B) /\ h2 \in Seq(B)
      BY <2>3, <2>4
    <3>. HIDE DEF f, g, h, f2, g2, h2
    <3>3. (f \o g) \o h = f \o (g \o h)
      BY <3>1
    <3>4. (f2 \o g2) \o h2 = f2 \o (g2 \o h2)
      BY <3>2, SMTT(60)
    <3>. QED
      BY <3>3, <3>4 DEF f, g, h, f2, g2, h2
  <2>6. Joined(u)
    BY <1>5
  <2>7. Joined(Append(u, x))
    BY <2>1, <2>2, <2>5, <2>6, Zenon
  <2>. QED
    BY <2>1, <2>7
<1>6. Seq(Items(B)) \subseteq Z
  <2>. HIDE DEF Z
  <2>. QED
    BY <1>4, <1>5, Extending
<1>. QED
  BY <1>6

\* A sequence is the parts before and after a cut.
LEMMA TwoParts ==
    ASSUME NEW S, NEW u \in Seq(S), NEW i \in 0..Len(u)
    PROVE  /\ SubSeq(u, 1, i) \in Seq(S) /\ SubSeq(u, i + 1, Len(u)) \in Seq(S)
           /\ u = SubSeq(u, 1, i) \o SubSeq(u, i + 1, Len(u))
<1>1. SubSeq(u, 1, i) \in Seq(S) /\ SubSeq(u, i + 1, Len(u)) \in Seq(S)
  OBVIOUS
<1>2. Len(u) \in Nat /\ SubSeq(u, 1, Len(u)) = u
  BY SubSeqFull
<1>3. SubSeq(u, 1, i) \o SubSeq(u, i + 1, Len(u)) = SubSeq(u, 1, Len(u))
  <2>1. 1 \in 1..Len(u) + 1 /\ i \in (1 - 1)..Len(u) /\ Len(u) \in i..Len(u)
    BY <1>2
  <2>. QED
    BY <2>1, ConcatAdjacentSubSeq
<1>. QED
  BY <1>1, <1>2, <1>3

\* What has arrived shows the first part of the text.
LEMMA ArrivedShows ==
    ASSUME NEW B, Commands(B), NEW s \in Seq(Items(B)), NEW j \in Nat
    PROVE  \E rest \in Seq(B) : MeantText(s) = MeantText(Arrived(s, j)) \o rest
<1>. DEFINE k == Max(Complete(s, j))
            t == SubSeq(s, k + 1, Len(s))
<1>1. k \in 0..Len(s) /\ Arrived(s, j) = SubSeq(s, 1, k)
  BY ArrivedIs DEF Complete
<1>. HIDE DEF k
<1>3. /\ SubSeq(s, 1, k) \in Seq(Items(B)) /\ t \in Seq(Items(B))
      /\ s = SubSeq(s, 1, k) \o t
  BY <1>1, TwoParts
<1>4. MeantText(SubSeq(s, 1, k) \o t) = MeantText(SubSeq(s, 1, k)) \o MeantText(t)
  BY <1>3, StreamsJoin
<1>5. MeantText(t) \in Seq(B)
  BY <1>3, StreamIs
<1>. QED
  BY <1>1, <1>3, <1>4, <1>5

-----------------------------------------------------------------------------
\* Feeding.

\* However recv cuts what a peer sends into chunks, feeding them one after the other
\* (feed) leaves, after each of them, exactly the text and the refusals of the items
\* that have arrived completely: at[i] is where the i-th cut is, inside an item or a
\* command or not, and fed[i] the negotiator after the i-th chunk.
THEOREM CutsMakeNoDifference ==
    ASSUME NEW B, Commands(B), NEW items \in Seq(Items(B)), NEW cuts \in Nat,
           NEW at \in [0..cuts -> 0..Len(Wire(items))],
           at[0] = 0, \A i \in 1..cuts : at[i - 1] <= at[i],
           NEW fed, fed[0] = NewNegotiator,
           \A i \in 1..cuts :
              fed[i] = Feed(fed[i - 1], SubSeq(Wire(items), at[i - 1] + 1, at[i]))
    PROVE  \A i \in 0..cuts :
              /\ fed[i].text = MeantText(Arrived(items, at[i]))
              /\ fed[i].sent = MeantRefusals(Arrived(items, at[i]))
<1>. DEFINE w == Wire(items)
            Read(j) == Run(NewNegotiator, SubSeq(w, 1, j))
            Z == {i \in 0..cuts : fed[i] = Read(at[i])}
<1>1. w \in Seq(B) /\ Len(w) \in Nat
  BY StreamIs
<1>. HIDE DEF w
<1>2. 0 \in Z
  <2>1. SubSeq(w, 1, 0) = <<>> /\ 0 \in 0..cuts
    BY <1>1, SubSeqEmpty
  <2>. QED
    BY <2>1, RunEmpty
<1>3. ASSUME NEW i \in 1..cuts, i - 1 \in Z PROVE i \in Z
  <2>. DEFINE a == at[i - 1]
              b == at[i]
              before == SubSeq(w, 1, a)
              chunk == SubSeq(w, a + 1, b)
  <2>1. a \in 0..Len(w) /\ b \in 0..Len(w) /\ a <= b /\ i \in 0..cuts
    BY DEF w
  <2>2. fed[i - 1] = Run(NewNegotiator, before) /\ fed[i] = Run(fed[i - 1], chunk)
    BY <1>3 DEF Feed, w
  <2>. HIDE DEF a, b
  <2>3. before \in Seq(B) /\ chunk \in Seq(B)
    BY <1>1, <2>1
  <2>4. before \o chunk = SubSeq(w, 1, b)
    <3>1. 1 \in 1..Len(w) + 1 /\ a \in (1 - 1)..Len(w) /\ b \in a..Len(w)
      BY <1>1, <2>1
    <3>. QED
      BY <1>1, <3>1, ConcatAdjacentSubSeq
  <2>. HIDE DEF before, chunk
  <2>5. Run(NewNegotiator, before \o chunk) = Run(Run(NewNegotiator, before), chunk)
    <3>1. ASSUME NEW n \in States(B), NEW s \in Seq(B), NEW t \in Seq(B)
          PROVE  Run(n, s \o t) = Run(Run(n, s), t)
      BY RunsJoin
    <3>. QED
      BY <2>3, <3>1, NewTyped
  <2>6. fed[i] = Run(NewNegotiator, SubSeq(w, 1, b))
    BY <2>2, <2>4, <2>5
  <2>. QED
    BY <2>1, <2>6 DEF b
<1>4. 0..cuts \subseteq Z
  <2>. HIDE DEF Z
  <2>. QED
    BY <1>2, <1>3, CountingTo
<1>5. ASSUME NEW j \in 0..Len(w)
      PROVE  /\ Read(j).text = MeantText(Arrived(items, j))
             /\ Read(j).sent = MeantRefusals(Arrived(items, j))
  BY StreamIsUnderstood DEF Reads, w
<1>6. ASSUME NEW i \in 0..cuts PROVE fed[i] = Read(at[i]) /\ at[i] \in 0..Len(w)
  BY <1>4 DEF w
<1>. HIDE DEF Read, Z
<1>. QED
  BY <1>5, <1>6

=============================================================================
