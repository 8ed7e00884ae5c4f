------------------------- MODULE EventStreamProofs -------------------------
(***************************************************************************)
(* The client of an event stream gets what it wants once and in order, for  *)
(* every number of events and connections and every page and buffer size;   *)
(* the daemon holds no more than its limits for it.                         *)
(***************************************************************************)
EXTENDS EventStream, SequenceTheorems, TLAPS

\* The events among the frames s, without the heartbeats.
IdsOf(s) == {s[i] : i \in 1..Len(s)} \ {KeepAlive}

Sorted(s) ==
  \A i, j \in 1..Len(s) : i < j /\ s[i] # KeepAlive /\ s[j] # KeepAlive => s[i] < s[j]

Before(A, B) == \A a \in A, b \in B : a < b

\* Nothing of X is left out of A below a member of A.
Gapless(X, A) == \A e \in X, f \in A : e < f => e \in A

-----------------------------------------------------------------------------
(* Sequences of frames.                                                     *)

LEMMA IdsAreNat ==
  ASSUME NEW s \in Seq(Nat)
  PROVE  IdsOf(s) \subseteq Nat \ {0}
BY DEF IdsOf, KeepAlive

LEMMA EmptyFrames == IdsOf(<< >>) = {} /\ Sorted(<< >>) /\ << >> \in Seq(Nat)
BY DEF IdsOf, Sorted

LEMMA ConcatFrames ==
  ASSUME NEW s \in Seq(Nat), NEW t \in Seq(Nat)
  PROVE  /\ s \o t \in Seq(Nat) /\ Len(s \o t) = Len(s) + Len(t)
         /\ IdsOf(s \o t) = IdsOf(s) \cup IdsOf(t)
         /\ Sorted(s) /\ Sorted(t) /\ Before(IdsOf(s), IdsOf(t)) => Sorted(s \o t)
<1> DEFINE u == s \o t
<1>1. /\ u \in Seq(Nat) /\ Len(u) = Len(s) + Len(t) /\ Len(s) \in Nat /\ Len(t) \in Nat
      /\ \A i \in 1..Len(s) : u[i] = s[i]
      /\ \A i \in 1..Len(t) : u[Len(s) + i] = t[i]
  OBVIOUS
<1>2. \A i \in 1..Len(u) : i \in 1..Len(s) \/ (i - Len(s) \in 1..Len(t) /\ u[i] = t[i - Len(s)])
  BY <1>1
<1> HIDE DEF u
<1>3. IdsOf(u) \subseteq IdsOf(s) \cup IdsOf(t)
  BY <1>1, <1>2 DEF IdsOf
<1>4. IdsOf(s) \subseteq IdsOf(u)
  BY <1>1 DEF IdsOf
<1>5. IdsOf(t) \subseteq IdsOf(u)
  <2>1. \A i \in 1..Len(t) : Len(s) + i \in 1..Len(u)
    BY <1>1
  <2>2. QED
    BY <1>1, <2>1 DEF IdsOf
<1>6. ASSUME Sorted(s), Sorted(t), Before(IdsOf(s), IdsOf(t)) PROVE Sorted(u)
  <2> SUFFICES ASSUME NEW i \in 1..Len(u), NEW j \in 1..Len(u), i < j,
                      u[i] # KeepAlive, u[j] # KeepAlive
               PROVE  u[i] < u[j]
    BY DEF Sorted
  <2>1. CASE j \in 1..Len(s)
    <3>1. i \in 1..Len(s)
      BY <1>1, <2>1
    <3>2. u[i] = s[i] /\ u[j] = s[j]
      BY <1>1, <2>1, <3>1
    <3>3. QED
      BY <1>6, <2>1, <3>1, <3>2 DEF Sorted
  <2>2. CASE i \in 1..Len(s) /\ j \notin 1..Len(s)
    BY <1>1, <1>2, <1>6, <2>2 DEF Before, IdsOf
  <2>3. CASE i \notin 1..Len(s) /\ j \notin 1..Len(s)
    <3>1. i - Len(s) \in 1..Len(t) /\ j - Len(s) \in 1..Len(t) /\ i - Len(s) < j - Len(s)
      BY <1>1, <1>2, <2>3
    <3>2. u[i] = t[i - Len(s)] /\ u[j] = t[j - Len(s)]
      BY <1>2, <2>3
    <3>3. QED
      BY <1>6, <3>1, <3>2 DEF Sorted
  <2>4. QED
    BY <1>1, <2>1, <2>2, <2>3
<1>7. QED
  BY <1>1, <1>3, <1>4, <1>5, <1>6 DEF u

LEMMA SplitFrames ==
  ASSUME NEW s \in Seq(Nat), NEW k \in 0..Len(s)
  PROVE  LET h == SubSeq(s, 1, k)
             t == SubSeq(s, k + 1, Len(s))
         IN  /\ h \in Seq(Nat) /\ Len(h) = k
             /\ t \in Seq(Nat) /\ Len(t) = Len(s) - k
             /\ IdsOf(h) \cup IdsOf(t) = IdsOf(s)
             /\ Sorted(s) => Sorted(h) /\ Sorted(t) /\ Before(IdsOf(h), IdsOf(t))
<1> DEFINE h == SubSeq(s, 1, k)
           t == SubSeq(s, k + 1, Len(s))
<1>1. /\ h \in Seq(Nat) /\ Len(h) = k /\ \A i \in 1..k : h[i] = s[i]
      /\ t \in Seq(Nat) /\ Len(t) = Len(s) - k /\ \A i \in 1..(Len(s) - k) : t[i] = s[k + i]
      /\ k \in Nat /\ Len(s) \in Nat /\ k <= Len(s)
  <2>1. k \in Nat /\ Len(s) \in Nat /\ k <= Len(s)
    OBVIOUS
  <2>2. h \in Seq(Nat) /\ Len(h) = k /\ \A i \in 1..k : h[i] = s[i]
    BY <2>1, SubSeqProperties
  <2>3. t \in Seq(Nat) /\ Len(t) = Len(s) - k
    BY <2>1, SubSeqProperties
  <2>4. \A i \in 1..(Len(s) - k) : t[i] = s[k + i]
    <3>1. \A i \in 1..(Len(s) - k) : t[i] = s[(k + 1) + i - 1]
      BY <2>1, SubSeqProperties
    <3>2. \A i \in 1..(Len(s) - k) : (k + 1) + i - 1 = k + i
      BY <2>1
    <3>3. QED
      BY <3>1, <3>2
  <2>5. QED
    BY <2>1, <2>2, <2>3, <2>4
<1> HIDE DEF h, t
<1>9. \A i \in 1..k : i \in 1..Len(s)
  BY <1>1
<1>2. IdsOf(h) \subseteq IdsOf(s)
  BY <1>1, <1>9 DEF IdsOf
<1>3. IdsOf(t) \subseteq IdsOf(s)
  <2>1. \A i \in 1..Len(t) : k + i \in 1..Len(s)
    BY <1>1
  <2>2. QED
    BY <1>1, <2>1 DEF IdsOf
<1>4. IdsOf(s) \subseteq IdsOf(h) \cup IdsOf(t)
  <2>1. \A i \in 1..Len(s) : i \in 1..k \/ (i - k \in 1..Len(t) /\ s[i] = t[i - k])
    BY <1>1
  <2>2. ASSUME NEW x \in IdsOf(s) PROVE x \in IdsOf(h) \cup IdsOf(t)
    <3>1. PICK i \in 1..Len(s) : x = s[i] /\ x # KeepAlive
      BY DEF IdsOf
    <3>2. CASE i \in 1..k
      <4>1. x = h[i] /\ i \in 1..Len(h)
        BY <1>1, <3>1, <3>2
      <4>2. QED
        BY <3>1, <4>1 DEF IdsOf
    <3>3. CASE i - k \in 1..Len(t) /\ s[i] = t[i - k]
      BY <3>1, <3>3 DEF IdsOf
    <3>4. QED
      BY <2>1, <3>2, <3>3
  <2>3. QED
    BY <2>2
<1>5. ASSUME Sorted(s) PROVE Sorted(h) /\ Sorted(t) /\ Before(IdsOf(h), IdsOf(t))
  <2>1. Sorted(h)
    BY <1>1, <1>5, <1>9 DEF Sorted
  <2>2. Sorted(t)
    <3>1. \A i, j \in 1..Len(t) : i < j => k + i \in 1..Len(s) /\ k + j \in 1..Len(s) /\ k + i < k + j
      BY <1>1
    <3>2. QED
      BY <1>1, <1>5, <3>1 DEF Sorted
  <2>3. Before(IdsOf(h), IdsOf(t))
    <3>1. \A i \in 1..k, j \in 1..Len(t) : i \in 1..Len(s) /\ k + j \in 1..Len(s) /\ i < k + j
      BY <1>1
    <3>2. ASSUME NEW a \in IdsOf(h), NEW b \in IdsOf(t) PROVE a < b
      <4>1. PICK i \in 1..Len(h) : a = h[i] /\ a # KeepAlive
        BY DEF IdsOf
      <4>2. PICK j \in 1..Len(t) : b = t[j] /\ b # KeepAlive
        BY DEF IdsOf
      <4>3. a = s[i] /\ b = s[k + j] /\ i \in 1..k
        BY <1>1, <4>1, <4>2
      <4>4. QED
        BY <1>5, <3>1, <4>1, <4>2, <4>3 DEF Sorted
    <3>3. QED
      BY <3>2 DEF Before
  <2>4. QED
    BY <2>1, <2>2, <2>3
<1>6. QED
  BY <1>1, <1>2, <1>3, <1>4, <1>5 DEF h, t

LEMMA TailFrames ==
  ASSUME NEW s \in Seq(Nat), s # << >>
  PROVE  /\ Head(s) \in Nat /\ Tail(s) \in Seq(Nat) /\ Len(Tail(s)) = Len(s) - 1
         /\ IdsOf(s) = (IdsOf(Tail(s)) \cup {Head(s)}) \ {KeepAlive}
         /\ Sorted(s) => Sorted(Tail(s))
         /\ Sorted(s) /\ Head(s) # KeepAlive => Before({Head(s)}, IdsOf(Tail(s)))
<1> DEFINE t == Tail(s)
<1>1. /\ Head(s) = s[1] /\ s[1] \in Nat /\ t \in Seq(Nat) /\ Len(t) = Len(s) - 1
      /\ \A i \in 1..Len(t) : t[i] = s[i + 1]
      /\ Len(s) \in Nat /\ Len(s) >= 1
  OBVIOUS
<1>2. \A i \in 1..Len(s) : i = 1 \/ (i - 1 \in 1..Len(t) /\ s[i] = t[i - 1])
  BY <1>1
<1>3. \A i \in 1..Len(t) : i + 1 \in 1..Len(s) /\ 1 < i + 1
  BY <1>1
<1> HIDE DEF t
<1>4. IdsOf(s) = (IdsOf(t) \cup {s[1]}) \ {KeepAlive}
  <2>1. IdsOf(s) \subseteq (IdsOf(t) \cup {s[1]}) \ {KeepAlive}
    BY <1>2 DEF IdsOf
  <2>2. IdsOf(t) \subseteq IdsOf(s)
    BY <1>1, <1>3 DEF IdsOf
  <2>3. s[1] # KeepAlive => s[1] \in IdsOf(s)
    BY <1>1 DEF IdsOf
  <2>4. QED
    BY <2>1, <2>2, <2>3
<1>5. Sorted(s) => Sorted(t)
  <2>1. \A i, j \in 1..Len(t) : i < j => i + 1 < j + 1
    BY <1>1
  <2>2. QED
    BY <1>1, <1>3, <2>1 DEF Sorted
<1>6. ASSUME Sorted(s), s[1] # KeepAlive, NEW b \in IdsOf(t) PROVE s[1] < b
  <2>1. PICK i \in 1..Len(t) : b = t[i] /\ b # KeepAlive
    BY DEF IdsOf
  <2>2. b = s[i + 1] /\ i + 1 \in 1..Len(s) /\ 1 \in 1..Len(s) /\ 1 < i + 1
    BY <1>1, <1>3, <2>1
  <2>3. QED
    BY <1>6, <2>1, <2>2 DEF Sorted
<1>7. QED
  BY <1>1, <1>4, <1>5, <1>6 DEF t, Before

LEMMA AppendFrame ==
  ASSUME NEW s \in Seq(Nat), NEW x \in Nat, x # KeepAlive
  PROVE  /\ Append(s, x) \in Seq(Nat)
         /\ IdsOf(Append(s, x)) = IdsOf(s) \cup {x}
         /\ Sorted(s) /\ Before(IdsOf(s), {x}) => Sorted(Append(s, x))
         /\ KeepAlive \notin {s[i] : i \in 1..Len(s)} =>
              KeepAlive \notin {Append(s, x)[i] : i \in 1..Len(Append(s, x))}
<1> DEFINE t == Append(s, x)
<1>1. /\ t \in Seq(Nat) /\ Len(t) = Len(s) + 1 /\ Len(s) \in Nat /\ t[Len(s) + 1] = x
      /\ \A i \in 1..Len(s) : t[i] = s[i]
  OBVIOUS
<1> HIDE DEF t
<1>2. \A i \in 1..Len(t) : i \in 1..Len(s) \/ i = Len(s) + 1
  BY <1>1
<1>3. \A i \in 1..Len(s) : i \in 1..Len(t)
  BY <1>1
<1>4. Len(s) + 1 \in 1..Len(t)
  BY <1>1
<1>5. IdsOf(t) = IdsOf(s) \cup {x}
  BY <1>1, <1>2, <1>3, <1>4 DEF IdsOf
<1>6. ASSUME Sorted(s), Before(IdsOf(s), {x}) PROVE Sorted(t)
  <2> SUFFICES ASSUME NEW i \in 1..Len(t), NEW j \in 1..Len(t), i < j,
                      t[i] # KeepAlive, t[j] # KeepAlive
               PROVE  t[i] < t[j]
    BY DEF Sorted
  <2>1. i \in 1..Len(s) /\ t[i] = s[i]
    BY <1>1, <1>2
  <2>2. CASE j \in 1..Len(s)
    BY <1>1, <1>6, <2>1, <2>2 DEF Sorted
  <2>3. CASE j = Len(s) + 1
    <3>1. t[i] \in IdsOf(s)
      BY <2>1 DEF IdsOf
    <3>2. QED
      BY <1>1, <1>6, <2>3, <3>1 DEF Before
  <2>4. QED
    BY <1>2, <2>2, <2>3
<1>7. KeepAlive \notin {s[i] : i \in 1..Len(s)} => KeepAlive \notin {t[i] : i \in 1..Len(t)}
  BY <1>1, <1>2
<1>8. QED
  BY <1>1, <1>5, <1>6, <1>7 DEF t

-----------------------------------------------------------------------------
(* The way of the events: received, in the response, in the queue.          *)

\* r was received of the events X; w and q are on their way.
OnTheWay(X, r, w, q) ==
  /\ X \subseteq Nat
  /\ r \in Seq(Nat) /\ w \in Seq(Nat) /\ q \in Seq(Nat)
  /\ KeepAlive \notin {r[i] : i \in 1..Len(r)}
  /\ Sorted(r) /\ Sorted(w) /\ Sorted(q)
  /\ Before(IdsOf(r), IdsOf(w)) /\ Before(IdsOf(r), IdsOf(q)) /\ Before(IdsOf(w), IdsOf(q))
  /\ IdsOf(r) \cup IdsOf(w) \cup IdsOf(q) \subseteq X
  /\ Gapless(X, IdsOf(r))
  /\ Gapless(X, IdsOf(r) \cup IdsOf(w))
  /\ Gapless(X, IdsOf(r) \cup IdsOf(w) \cup IdsOf(q))

\* The response and the queue may be lost, but for a beginning of the response.
LEMMA CutOff ==
  ASSUME NEW X, NEW r, NEW w, NEW q, OnTheWay(X, r, w, q), NEW n \in 0..Len(w)
  PROVE  OnTheWay(X, r, SubSeq(w, 1, n), << >>)
<1> DEFINE h == SubSeq(w, 1, n)
           t == SubSeq(w, n + 1, Len(w))
<1> USE DEF OnTheWay
<1>1. /\ h \in Seq(Nat) /\ Sorted(h)
      /\ IdsOf(h) \cup IdsOf(t) = IdsOf(w) /\ Before(IdsOf(h), IdsOf(t))
      /\ IdsOf(t) \subseteq Nat /\ IdsOf(h) \subseteq Nat
  BY SplitFrames, IdsAreNat
<1>2. IdsOf(r) \subseteq Nat
  BY IdsAreNat
<1> HIDE DEF h, t
<1>3. Gapless(X, IdsOf(r) \cup IdsOf(h))
  BY <1>1, <1>2 DEF Gapless, Before
<1>4. IdsOf(r) \cup IdsOf(h) \cup IdsOf(<< >>) = IdsOf(r) \cup IdsOf(h)
  BY EmptyFrames
<1>5. Before(IdsOf(r), IdsOf(h))
  BY <1>1 DEF Before
<1>6. Before(IdsOf(r), IdsOf(<< >>)) /\ Before(IdsOf(h), IdsOf(<< >>))
  BY EmptyFrames DEF Before
<1>7. OnTheWay(X, r, h, << >>)
  BY <1>1, <1>3, <1>4, <1>5, <1>6, EmptyFrames
<1>8. QED
  BY <1>7 DEF h

LEMMA Delivered ==
  ASSUME NEW X, NEW r, NEW w, NEW q, OnTheWay(X, r, w, q), w # << >>
  PROVE  OnTheWay(X, IF Head(w) = KeepAlive THEN r ELSE Append(r, Head(w)), Tail(w), q)
<1> DEFINE x == Head(w)
           t == Tail(w)
<1> USE DEF OnTheWay
<1>1. /\ x \in Nat /\ t \in Seq(Nat) /\ Sorted(t)
      /\ IdsOf(w) = (IdsOf(t) \cup {x}) \ {KeepAlive}
      /\ x # KeepAlive => Before({x}, IdsOf(t))
  BY TailFrames
<1>2. KeepAlive \notin IdsOf(t)
  BY DEF IdsOf
<1>3. IdsOf(t) \subseteq IdsOf(w)
  BY <1>1, <1>2
<1> HIDE DEF x, t
<1>4. CASE x = KeepAlive
  <2>1. IdsOf(w) = IdsOf(t)
    BY <1>1, <1>2, <1>4
  <2>2. OnTheWay(X, r, t, q)
    BY <1>1, <2>1
  <2>3. QED
    BY <1>4, <2>2 DEF x, t
<1>5. CASE x # KeepAlive
  <2> DEFINE a == Append(r, x)
  <2>1. IdsOf(w) = IdsOf(t) \cup {x} /\ x \in X
    BY <1>1, <1>2, <1>5
  <2>2. Before(IdsOf(r), {x})
    BY <2>1 DEF Before
  <2>3. /\ a \in Seq(Nat) /\ IdsOf(a) = IdsOf(r) \cup {x} /\ Sorted(a)
        /\ KeepAlive \notin {a[i] : i \in 1..Len(a)}
    BY <1>1, <1>5, <2>2, AppendFrame
  <2> HIDE DEF a
  <2>4. Before(IdsOf(a), IdsOf(t)) /\ Before(IdsOf(a), IdsOf(q)) /\ Before(IdsOf(t), IdsOf(q))
    BY <1>1, <1>5, <2>1, <2>3 DEF Before
  <2>5. IdsOf(a) \cup IdsOf(t) = IdsOf(r) \cup IdsOf(w)
    BY <2>1, <2>3
  <2>6. Gapless(X, IdsOf(a))
    <3>1. IdsOf(t) \subseteq Nat /\ IdsOf(r) \subseteq Nat
      BY <1>1, IdsAreNat
    <3>2. ASSUME NEW e \in X, NEW f \in IdsOf(a), e < f PROVE e \in IdsOf(a)
      <4>1. e \in IdsOf(r) \cup IdsOf(w)
        BY <2>1, <2>3, <3>2 DEF Gapless
      <4>2. ASSUME e \in IdsOf(t) PROVE FALSE
        <5>1. x < e
          BY <1>1, <1>5, <4>2 DEF Before
        <5>2. f \in IdsOf(r) => f < x
          BY <2>2 DEF Before
        <5>3. QED
          BY <1>1, <2>3, <3>1, <3>2, <4>2, <5>1, <5>2
      <4>3. QED
        BY <2>1, <2>3, <4>1, <4>2
    <3>3. QED
      BY <3>2 DEF Gapless
  <2>7. OnTheWay(X, a, t, q)
    BY <1>1, <2>1, <2>3, <2>4, <2>5, <2>6
  <2>8. QED
    BY <1>5, <2>7 DEF a, x, t
<1>6. QED
  BY <1>4, <1>5

LEMMA Flushed ==
  ASSUME NEW X, NEW r, NEW q, OnTheWay(X, r, << >>, q), NEW k \in 0..Len(q)
  PROVE  OnTheWay(X, r, SubSeq(q, 1, k), SubSeq(q, k + 1, Len(q)))
<1> DEFINE h == SubSeq(q, 1, k)
           t == SubSeq(q, k + 1, Len(q))
<1> USE DEF OnTheWay
<1>1. /\ h \in Seq(Nat) /\ Sorted(h) /\ t \in Seq(Nat) /\ Sorted(t)
      /\ IdsOf(h) \cup IdsOf(t) = IdsOf(q) /\ Before(IdsOf(h), IdsOf(t))
      /\ IdsOf(t) \subseteq Nat /\ IdsOf(h) \subseteq Nat
  BY SplitFrames, IdsAreNat
<1>2. IdsOf(r) \subseteq Nat /\ IdsOf(<< >>) = {}
  BY IdsAreNat, EmptyFrames
<1> HIDE DEF h, t
<1>3. Before(IdsOf(r), IdsOf(h)) /\ Before(IdsOf(r), IdsOf(t))
  BY <1>1 DEF Before
<1>4. IdsOf(r) \cup IdsOf(h) \cup IdsOf(t) = IdsOf(r) \cup IdsOf(<< >>) \cup IdsOf(q)
  BY <1>1, <1>2
<1>5. Gapless(X, IdsOf(r) \cup IdsOf(h))
  <2>1. ASSUME NEW e \in X, NEW f \in IdsOf(r) \cup IdsOf(h), e < f, e \in IdsOf(t) PROVE FALSE
    BY <1>1, <1>2, <1>3, <2>1 DEF Before
  <2>2. QED
    BY <1>4, <2>1 DEF Gapless
<1>6. OnTheWay(X, r, h, t)
  BY <1>1, <1>3, <1>4, <1>5
<1>7. QED
  BY <1>6 DEF h, t

\* The frames fs are what comes next.
ComesNext(X, r, w, q, fs) ==
  /\ fs \in Seq(Nat) /\ Sorted(fs) /\ IdsOf(fs) \subseteq X
  /\ Before(IdsOf(r) \cup IdsOf(w) \cup IdsOf(q), IdsOf(fs))
  /\ Gapless(X, IdsOf(r) \cup IdsOf(w) \cup IdsOf(q) \cup IdsOf(fs))

\* The sequence s with the first k of fs behind it, and with the others.
WithFirst(s, fs, k) == s \o SubSeq(fs, 1, k)
WithRest(s, fs, k) == s \o SubSeq(fs, k + 1, Len(fs))

LEMMA Written ==
  ASSUME NEW X, NEW r, NEW w, NEW q, OnTheWay(X, r, w, q),
         NEW fs, ComesNext(X, r, w, q, fs),
         NEW k \in 0..Len(fs), k = 0 \/ q = << >>
  PROVE  LET u == WithFirst(w, fs, k)
             v == WithRest(q, fs, k)
         IN  /\ OnTheWay(X, r, u, v)
             /\ IdsOf(u) \cup IdsOf(v) = IdsOf(w) \cup IdsOf(q) \cup IdsOf(fs)
             /\ Len(u) = Len(w) + k /\ Len(v) = Len(q) + (Len(fs) - k)
<1> DEFINE h == SubSeq(fs, 1, k)
           t == SubSeq(fs, k + 1, Len(fs))
           u == w \o h
           v == q \o t
<1> USE DEF OnTheWay, ComesNext
<1>1. /\ h \in Seq(Nat) /\ Sorted(h) /\ t \in Seq(Nat) /\ Sorted(t)
      /\ Len(h) = k /\ Len(t) = Len(fs) - k
      /\ IdsOf(h) \cup IdsOf(t) = IdsOf(fs) /\ Before(IdsOf(h), IdsOf(t))
  BY SplitFrames
<1>2. /\ IdsOf(r) \subseteq Nat /\ IdsOf(w) \subseteq Nat /\ IdsOf(q) \subseteq Nat
      /\ IdsOf(h) \subseteq Nat /\ IdsOf(t) \subseteq Nat
  BY <1>1, IdsAreNat
<1> HIDE DEF h, t
<1>3. IdsOf(h) = {} \/ IdsOf(q) = {}
  <2>1. CASE k = 0
    BY <1>1, <2>1 DEF IdsOf
  <2>2. CASE q = << >>
    BY <2>2, EmptyFrames
  <2>3. QED
    BY <2>1, <2>2
<1>4. /\ Before(IdsOf(w), IdsOf(h)) /\ Before(IdsOf(r), IdsOf(h)) /\ Before(IdsOf(q), IdsOf(t))
      /\ Before(IdsOf(r), IdsOf(t)) /\ Before(IdsOf(w), IdsOf(t))
  BY <1>1 DEF Before
<1>5. /\ u \in Seq(Nat) /\ Len(u) = Len(w) + k /\ Sorted(u)
      /\ IdsOf(u) = IdsOf(w) \cup IdsOf(h)
  BY <1>1, <1>4, ConcatFrames
<1>6. /\ v \in Seq(Nat) /\ Len(v) = Len(q) + (Len(fs) - k) /\ Sorted(v)
      /\ IdsOf(v) = IdsOf(q) \cup IdsOf(t)
  <2>1. v \in Seq(Nat) /\ Len(v) = Len(q) + Len(t) /\ IdsOf(v) = IdsOf(q) \cup IdsOf(t)
    BY <1>1, ConcatFrames
  <2>2. Sorted(v)
    BY <1>1, <1>4, ConcatFrames
  <2>3. QED
    BY <1>1, <2>1, <2>2
<1> HIDE DEF u, v
<1>7. Before(IdsOf(r), IdsOf(u)) /\ Before(IdsOf(r), IdsOf(v))
  BY <1>4, <1>5, <1>6 DEF Before
<1>8. Before(IdsOf(u), IdsOf(v))
  BY <1>1, <1>3, <1>4, <1>5, <1>6 DEF Before
<1>9. IdsOf(r) \cup IdsOf(u) \cup IdsOf(v)
        = IdsOf(r) \cup IdsOf(w) \cup IdsOf(q) \cup IdsOf(fs)
  BY <1>1, <1>5, <1>6
<1>10. Gapless(X, IdsOf(r) \cup IdsOf(u))
  <2>1. CASE IdsOf(h) = {}
    BY <1>5, <2>1
  <2>2. CASE IdsOf(q) = {}
    <3>1. ASSUME NEW e \in X, NEW f \in IdsOf(r) \cup IdsOf(u), e < f, e \in IdsOf(v) PROVE FALSE
      <4>1. e \in IdsOf(t) /\ f \in IdsOf(r) \cup IdsOf(w) \cup IdsOf(h)
        BY <1>5, <1>6, <2>2, <3>1
      <4>2. f < e
        BY <1>1, <1>4, <4>1 DEF Before
      <4>3. e \in Nat /\ f \in Nat
        BY <1>2, <4>1
      <4>4. QED
        BY <3>1, <4>2, <4>3
    <3>2. QED
      BY <1>9, <3>1 DEF Gapless
  <2>3. QED
    BY <1>3, <2>1, <2>2
<1>11. IdsOf(r) \cup IdsOf(u) \cup IdsOf(v) \subseteq X
  BY <1>9
<1>12. Gapless(X, IdsOf(r) \cup IdsOf(u) \cup IdsOf(v))
  BY <1>9
<1>13. OnTheWay(X, r, u, v)
  BY <1>5, <1>6, <1>7, <1>8, <1>10, <1>11, <1>12
<1>14. IdsOf(u) \cup IdsOf(v) = IdsOf(w) \cup IdsOf(q) \cup IdsOf(fs)
  BY <1>1, <1>5, <1>6
<1>15. QED
  BY <1>5, <1>6, <1>13, <1>14 DEF h, t, u, v, WithFirst, WithRest

\* An event that is appended comes after all the others.
LEMMA Grown ==
  ASSUME NEW X, NEW Y \in SUBSET Nat, X \subseteq Y, Before(X, Y \ X),
         NEW r, NEW w, NEW q, OnTheWay(X, r, w, q)
  PROVE  OnTheWay(Y, r, w, q)
<1>1. ASSUME NEW A \in SUBSET X, Gapless(X, A) PROVE Gapless(Y, A)
  BY <1>1 DEF Gapless, Before
<1>2. QED
  BY <1>1 DEF OnTheWay

-----------------------------------------------------------------------------
(* The invariant.                                                           *)

AllIds == IdsOf(received) \cup IdsOf(wire) \cup IdsOf(queue)

\* What the sink was given is what the client wants up to the cursor.
CursorInv ==
  /\ cursor >= After
  /\ cursor = After \/ cursor <= Len(events)
  /\ \A f \in AllIds : f <= cursor
  /\ \A e \in Wanted : e <= cursor => e \in AllIds

\* A page that was read stays right while events are appended.
PageInv ==
  /\ Sorted(page)
  /\ KeepAlive \notin {page[i] : i \in 1..Len(page)}
  /\ IdsOf(page) \subseteq Wanted
  /\ \A f \in IdsOf(page) : f > cursor
  /\ \A e \in Wanted, f \in IdsOf(page) : e > cursor /\ e < f => e \in IdsOf(page)

SinkInv ==
  /\ OnTheWay(Wanted, received, wire, queue)
  /\ ~ open => queue = << >>
  /\ QueueWillFlush

StreamInv ==
  /\ TypeOK
  /\ SinkInv
  /\ open => CursorInv
  /\ open /\ pc = "paged" => PageInv

LEMMA WantedNat == TypeOK => Wanted \subseteq Nat \ {0} /\ \A e \in Wanted : e <= Len(events)
BY DEF TypeOK, Wanted, Ids

\* The sink puts what it is given behind what it has, or gives up.
LEMMA WriteInv ==
  ASSUME TypeOK, SinkInv, NEW fs \in Seq(Nat), Write(fs), UNCHANGED << received, events, maxQueue >>,
         open => /\ Sorted(fs) /\ IdsOf(fs) \subseteq Wanted /\ Before(AllIds, IdsOf(fs))
                 /\ Gapless(Wanted, AllIds \cup IdsOf(fs))
  PROVE  /\ SinkInv'
         /\ open' \in BOOLEAN /\ backpressured' \in BOOLEAN
         /\ wire' \in Seq(Nat) /\ Len(wire') <= HighWater
         /\ queue' \in Seq(Nat) /\ Len(queue') <= maxQueue'
         /\ open' => open /\ AllIds' = AllIds \cup IdsOf(fs)
<1>1. Wanted' = Wanted /\ received' = received
  BY DEF Wanted, Ids
<1>2. CASE ~ open
  <2>1. UNCHANGED sinkVars
    BY <1>2 DEF Write
  <2>2. QED
    BY <1>1, <1>2, <2>1 DEF sinkVars, SinkInv, QueueWillFlush, TypeOK
<1>3. CASE open
  <2>1. /\ Len(fs) \in Nat /\ Len(wire) \in Nat /\ Len(queue) \in Nat /\ HighWater \in Nat
        /\ Len(wire) <= HighWater /\ maxQueue \in Nat /\ HighWater > 0
    BY StreamAssumption DEF TypeOK, StreamAssumption
  <2>2. PICK k \in 0..Len(fs) :
          /\ Put(fs, k)
          /\ Len(wire) + k <= HighWater
          /\ k = 0 \/ queue = << >>
          /\ k < Len(fs) => backpressured \/ Len(wire) + k = HighWater
    <3>1. CASE backpressured \/ queue # << >>
      <4>1. Put(fs, 0) /\ backpressured
        BY <1>3, <3>1 DEF Write, SinkInv, QueueWillFlush
      <4>2. QED
        BY <2>1, <4>1
    <3>2. CASE ~ (backpressured \/ queue # << >>)
      <4> DEFINE n == Taken(Len(fs))
      <4>1. Put(fs, n)
        BY <1>3, <3>2 DEF Write
      <4>2. n \in 0..Len(fs) /\ Len(wire) + n <= HighWater
        BY <2>1 DEF Taken
      <4>3. n < Len(fs) => Len(wire) + n = HighWater
        BY <2>1 DEF Taken
      <4> HIDE DEF n
      <4>4. QED
        BY <3>2, <4>1, <4>2, <4>3
    <3>3. QED
      BY <3>1, <3>2
  <2> DEFINE h == SubSeq(fs, 1, k)
             t == SubSeq(fs, k + 1, Len(fs))
             taken == WithFirst(wire, fs, k)
             held == WithRest(queue, fs, k)
  <2>5. /\ OnTheWay(Wanted, received, taken, held)
        /\ IdsOf(taken) \cup IdsOf(held) = IdsOf(wire) \cup IdsOf(queue) \cup IdsOf(fs)
        /\ Len(taken) = Len(wire) + k /\ Len(held) = Len(queue) + (Len(fs) - k)
    <3>1. OnTheWay(Wanted, received, wire, queue)
      BY DEF SinkInv
    <3>2. ComesNext(Wanted, received, wire, queue, fs)
      BY <1>3 DEF AllIds, ComesNext
    <3>3. QED
      BY <2>2, <3>1, <3>2, Written
  <2>6. Len(t) = Len(fs) - k
    BY <2>2, SplitFrames
  <2>7. taken \in Seq(Nat) /\ held \in Seq(Nat)
    BY <2>5 DEF OnTheWay
  <2> HIDE DEF h, t, taken, held
  <2>9. CASE Len(queue) + Len(t) > maxQueue
    <3>1. Closed /\ UNCHANGED backpressured /\ \E n \in 0..Len(taken) : wire' = SubSeq(taken, 1, n)
      BY <2>2, <2>9 DEF Put, taken, h, t, WithFirst
    <3>2. PICK n \in 0..Len(taken) : wire' = SubSeq(taken, 1, n)
      BY <3>1
    <3>3. OnTheWay(Wanted, received, wire', << >>)
      BY <2>5, <3>2, CutOff
    <3>4. wire' \in Seq(Nat) /\ Len(wire') = n /\ n <= HighWater
      <4>1. wire' \in Seq(Nat) /\ Len(wire') = n
        BY <2>7, <3>2, SplitFrames
      <4>2. n \in Nat /\ n <= Len(wire) + k
        BY <2>1, <2>5, <3>2
      <4>3. QED
        BY <2>1, <2>2, <4>1, <4>2
    <3>5. open' = FALSE /\ queue' = << >>
      BY <3>1 DEF Closed
    <3>6. SinkInv'
      BY <1>1, <3>3, <3>5 DEF SinkInv, QueueWillFlush
    <3>7. queue' \in Seq(Nat) /\ Len(queue') <= maxQueue'
      BY <2>1, <3>5
    <3>8. QED
      BY <3>1, <3>4, <3>5, <3>6, <3>7 DEF TypeOK
  <2>10. CASE ~ (Len(queue) + Len(t) > maxQueue)
    <3>1. /\ wire' = taken /\ queue' = held
          /\ backpressured' = (backpressured \/ Len(taken) = HighWater)
          /\ UNCHANGED open
      BY <2>2, <2>10 DEF Put, taken, held, h, t, WithFirst, WithRest
    <3>2. Len(wire') <= HighWater /\ Len(queue') <= maxQueue'
      BY <2>1, <2>2, <2>5, <2>6, <2>10, <3>1
    <3>3. held # << >> => backpressured \/ Len(taken) = HighWater
      <4>1. CASE k < Len(fs)
        BY <2>2, <2>5, <4>1
      <4>2. CASE k = Len(fs)
        <5>1. held # << >> => Len(queue) # 0
          BY <2>1, <2>5, <2>7, <4>2
        <5>2. Len(queue) # 0 => queue # << >>
          OBVIOUS
        <5>3. QED
          BY <1>3, <5>1, <5>2 DEF SinkInv, QueueWillFlush
      <4>3. QED
        BY <2>1, <2>2, <4>1, <4>2
    <3>4. SinkInv'
      BY <1>1, <1>3, <2>5, <3>1, <3>3 DEF SinkInv, QueueWillFlush
    <3>5. AllIds' = AllIds \cup IdsOf(fs)
      BY <1>1, <2>5, <3>1 DEF AllIds
    <3>6. backpressured' \in BOOLEAN
      BY <3>1 DEF TypeOK
    <3>7. QED
      BY <1>3, <2>7, <3>1, <3>2, <3>4, <3>5, <3>6
  <2>11. QED
    BY <2>9, <2>10
<1>4. QED
  BY <1>2, <1>3

LEMMA StreamInitInv == Init => StreamInv
<1> SUFFICES ASSUME Init PROVE StreamInv
  OBVIOUS
<1> USE DEF Init
<1>1. TypeOK
  <2>1. << >> \in Seq(Tasks) /\ << >> \in Seq(Nat) /\ Len(<< >>) = 0
    OBVIOUS
  <2>2. Len(wire) <= HighWater /\ Len(queue) <= maxQueue
    BY <2>1, StreamAssumption DEF StreamAssumption
  <2>3. open \in BOOLEAN /\ backpressured \in BOOLEAN /\ drainAgain \in BOOLEAN /\ unawaited \in BOOLEAN
    OBVIOUS
  <2>4. QED
    BY <2>1, <2>2, <2>3 DEF TypeOK
<1>2. Wanted = {}
  BY DEF Wanted, Ids
<1>3. OnTheWay(Wanted, received, wire, queue)
  BY <1>2, EmptyFrames DEF OnTheWay, Before, Gapless
<1>4. QED
  BY <1>1, <1>3 DEF StreamInv, SinkInv, QueueWillFlush

\* The steps that do not touch the frames or the table.
LEMMA DrainStepInv ==
  ASSUME StreamInv, UNCHANGED << events, sinkVars, received >>, TypeOK',
         open => UNCHANGED cursor,
         open /\ pc' = "paged" => UNCHANGED << pc, page >>
  PROVE  StreamInv'
<1>1. Wanted' = Wanted /\ AllIds' = AllIds
  BY DEF Wanted, Ids, AllIds, sinkVars
<1>2. SinkInv'
  BY <1>1 DEF StreamInv, SinkInv, QueueWillFlush, sinkVars
<1>3. open' => CursorInv'
  BY <1>1 DEF StreamInv, CursorInv, sinkVars
<1>4. open' /\ pc' = "paged" => PageInv'
  BY <1>1 DEF StreamInv, PageInv, sinkVars
<1>5. QED
  BY <1>2, <1>3, <1>4 DEF StreamInv

LEMMA CallbackInv ==
  ASSUME StreamInv, Publish \/ Notify \/ Poll \/ Settle PROVE StreamInv'
<1>1. UNCHANGED << events, sinkVars, received, cursor, page, counters >>
  <2>1. CASE Publish
    BY <2>1 DEF Publish, drainVars
  <2>2. CASE Notify \/ Poll
    BY <2>2 DEF Notify, Poll, Drain, tableVars, drainVars
  <2>3. CASE Settle
    BY <2>3 DEF Settle, tableVars
  <2>4. QED
    BY <2>1, <2>2, <2>3
<1>2. pc' = "paged" => pc = "paged"
  BY DEF Publish, Notify, Poll, Settle, Drain, drainVars
<1>3. /\ unpublished' \in Nat /\ notified' \in Nat
  BY DEF StreamInv, TypeOK, Publish, Notify, Poll, Settle, tableVars
<1>4. /\ drainAgain' \in BOOLEAN /\ unawaited' \in BOOLEAN
      /\ pc' \in {"idle", "reading", "paged", "settling"}
  BY DEF StreamInv, TypeOK, Publish, Notify, Poll, Settle, Drain, drainVars
<1>5. TypeOK'
  BY <1>1, <1>3, <1>4 DEF StreamInv, TypeOK, sinkVars, counters
<1>6. QED
  BY <1>1, <1>2, <1>5, DrainStepInv

LEMMA AppendInv ==
  ASSUME StreamInv, NEW t \in Tasks, AppendEvent(t) PROVE StreamInv'
<1> USE DEF AppendEvent
<1>1. /\ events \in Seq(Tasks) /\ events' = Append(events, t) /\ events' \in Seq(Tasks)
      /\ Len(events) \in Nat /\ Len(events') = Len(events) + 1
      /\ \A i \in Ids : events'[i] = events[i]
  BY DEF StreamInv, TypeOK, Ids
<1>2. TypeOK'
  BY <1>1 DEF StreamInv, TypeOK, drainVars, sinkVars, counters
<1>3. Wanted \subseteq Wanted' /\ Wanted' \subseteq Wanted \cup {Len(events')}
  BY <1>1 DEF Wanted, Ids
<1>4. Wanted \subseteq Nat /\ Wanted' \subseteq Nat /\ \A e \in Wanted : e <= Len(events)
  <2>1. Wanted \subseteq Nat /\ \A e \in Wanted : e <= Len(events)
    BY WantedNat DEF StreamInv
  <2>2. Wanted' \subseteq Nat
    BY <1>1 DEF Wanted, Ids
  <2>3. QED
    BY <2>1, <2>2
<1>5. Before(Wanted, Wanted' \ Wanted)
  BY <1>1, <1>3, <1>4 DEF Before
<1>6. SinkInv'
  <2>1. OnTheWay(Wanted', received, wire, queue)
    BY <1>3, <1>4, <1>5, Grown DEF StreamInv, SinkInv
  <2>2. QED
    BY <2>1 DEF StreamInv, SinkInv, QueueWillFlush, sinkVars
<1>7. ASSUME open PROVE CursorInv'
  <2>1. CursorInv /\ cursor' = cursor /\ AllIds' = AllIds /\ cursor \in Nat /\ After \in Nat
    BY <1>7, StreamAssumption DEF StreamInv, TypeOK, AllIds, drainVars, sinkVars, StreamAssumption
  <2>2. ASSUME NEW e \in Wanted', e <= cursor PROVE e \in Wanted
    <3>1. e > After
      BY DEF Wanted
    <3>2. CASE cursor = After
      BY <1>4, <2>1, <2>2, <3>1, <3>2
    <3>3. CASE cursor <= Len(events)
      BY <1>1, <1>3, <1>4, <2>1, <2>2, <3>3
    <3>4. QED
      BY <2>1, <3>2, <3>3 DEF CursorInv
  <2>3. QED
    BY <1>1, <2>1, <2>2 DEF CursorInv
<1>8. ASSUME open, pc = "paged" PROVE PageInv'
  <2>1. PageInv /\ page' = page /\ cursor' = cursor
    BY <1>8 DEF StreamInv, drainVars
  <2>2. ASSUME NEW e \in Wanted', NEW f \in IdsOf(page), e < f PROVE e \in Wanted
    <3>1. f \in Nat /\ f <= Len(events) /\ e \in Nat
      BY <1>4, <2>1 DEF PageInv
    <3>2. e # Len(events')
      BY <1>1, <2>2, <3>1
    <3>3. QED
      BY <1>3, <3>2
  <2>3. QED
    BY <1>3, <2>1, <2>2 DEF PageInv
<1>9. QED
  BY <1>2, <1>6, <1>7, <1>8 DEF StreamInv, sinkVars, drainVars

\* The rows that listEventsAfter returns are what comes after the cursor.
LEMMA ReadPageInv ==
  ASSUME StreamInv, ReadPage PROVE StreamInv'
<1> USE DEF ReadPage
<1>1. page' \in Seq(Ids) /\ IsPage(page') /\ Len(page') \in Nat /\ DOMAIN page' = 1..Len(page')
  <2>1. PICK n \in 0..PageLimit : page' \in [1..n -> Ids]
    BY DEF listEventsAfter
  <2>2. n \in Nat
    BY <2>1, StreamAssumption DEF StreamAssumption
  <2>3. page' \in Seq(Ids)
    BY <2>1, <2>2
  <2>4. IsPage(page')
    BY DEF listEventsAfter
  <2>5. QED
    BY <2>3, <2>4
<1>2. \A i \in 1..Len(page') : page'[i] \in Ids /\ page'[i] \in Nat /\ page'[i] # 0
  BY <1>1 DEF Ids
<1>3. page' \in Seq(Nat)
  BY <1>1 DEF Ids
<1>4. TypeOK'
  BY <1>3 DEF StreamInv, TypeOK, tableVars, sinkVars, counters
<1>5. Wanted' = Wanted /\ AllIds' = AllIds
  BY DEF Wanted, Ids, AllIds, tableVars, sinkVars
<1>6. SinkInv' /\ (open' => CursorInv')
  BY <1>5 DEF StreamInv, SinkInv, CursorInv, QueueWillFlush, sinkVars, tableVars
<1>7. ASSUME open PROVE PageInv'
  <2>1. /\ Sorted(page') /\ KeepAlive \notin {page'[i] : i \in 1..Len(page')}
    BY <1>1, <1>2 DEF IsPage, Sorted, KeepAlive
  <2>2. \A f \in IdsOf(page') : f \in Wanted /\ f > cursor
    <3>1. cursor >= After /\ cursor \in Nat /\ After \in Nat
      BY <1>7, StreamAssumption DEF StreamInv, CursorInv, TypeOK, StreamAssumption
    <3>2. QED
      BY <1>1, <1>2, <3>1 DEF IsPage, IdsOf, Wanted
  <2>3. ASSUME NEW e \in Wanted, NEW f \in IdsOf(page'), e > cursor, e < f
        PROVE  e \in IdsOf(page')
    <3>1. PICK i \in 1..Len(page') : f = page'[i]
      BY DEF IdsOf
    <3>2. CASE \E j \in DOMAIN page' : page'[j] = e
      BY <1>1, <1>2, <3>2 DEF IdsOf, KeepAlive
    <3>3. CASE Len(page') = PageLimit /\ page'[PageLimit] < e
      <4>1. PageLimit \in 1..Len(page')
        BY <3>1, <3>3, <1>1
      <4>2. i = PageLimit \/ i < PageLimit
        BY <3>1, <3>3, <4>1
      <4>3. f = page'[PageLimit] \/ f < page'[PageLimit]
        BY <1>1, <3>1, <4>1, <4>2 DEF IsPage
      <4>4. e \in Nat /\ f \in Nat /\ page'[PageLimit] \in Nat
        BY <1>2, <3>1, <4>1, WantedNat DEF StreamInv
      <4>5. QED
        BY <2>3, <3>3, <4>3, <4>4
    <3>4. QED
      BY <1>1, <2>3, <3>2, <3>3 DEF IsPage, Wanted
  <2>4. QED
    BY <1>5, <2>1, <2>2, <2>3 DEF PageInv
<1>8. QED
  BY <1>4, <1>6, <1>7 DEF StreamInv, sinkVars

\* The drain gives the page to the sink and moves the cursor to its end.
LEMMA ResumeInv ==
  ASSUME StreamInv, Resume PROVE StreamInv'
<1> USE DEF Resume
<1>1. /\ page \in Seq(Nat) /\ Write(page) /\ UNCHANGED << received, events >>
      /\ Wanted' = Wanted /\ cursor \in Nat /\ pc = "paged"
  BY DEF StreamInv, TypeOK, tableVars, Wanted, Ids
<1>2. ASSUME open
      PROVE  /\ Sorted(page) /\ IdsOf(page) \subseteq Wanted /\ Before(AllIds, IdsOf(page))
             /\ Gapless(Wanted, AllIds \cup IdsOf(page))
  <2>1. PageInv /\ CursorInv
    BY <1>1, <1>2 DEF StreamInv
  <2>2. Wanted \subseteq Nat /\ AllIds \subseteq Wanted /\ IdsOf(page) \subseteq Wanted
    BY <2>1 DEF StreamInv, SinkInv, OnTheWay, AllIds, PageInv
  <2>3. Before(AllIds, IdsOf(page))
    <3>1. ASSUME NEW f \in AllIds, NEW g \in IdsOf(page) PROVE f < g
      <4>1. f <= cursor /\ g > cursor
        BY <2>1 DEF CursorInv, PageInv
      <4>2. f \in Nat /\ g \in Nat
        BY <2>2
      <4>3. QED
        BY <1>1, <4>1, <4>2
    <3>2. QED
      BY <3>1 DEF Before
  <2>4. ASSUME NEW e \in Wanted, NEW f \in AllIds \cup IdsOf(page), e < f
        PROVE  e \in AllIds \cup IdsOf(page)
    <3>1. CASE e <= cursor
      BY <2>1, <3>1 DEF CursorInv
    <3>2. CASE e > cursor
      <4>1. f \in IdsOf(page)
        BY <1>1, <2>1, <2>2, <2>4, <3>2 DEF CursorInv
      <4>2. QED
        BY <2>1, <2>4, <3>2, <4>1 DEF PageInv
    <3>3. QED
      BY <1>1, <2>2, <3>1, <3>2
  <2>5. QED
    BY <2>1, <2>3, <2>4 DEF PageInv, Gapless
<1>3. /\ SinkInv'
      /\ open' \in BOOLEAN /\ backpressured' \in BOOLEAN
      /\ wire' \in Seq(Nat) /\ Len(wire') <= HighWater
      /\ queue' \in Seq(Nat) /\ Len(queue') <= maxQueue'
      /\ open' => open /\ AllIds' = AllIds \cup IdsOf(page)
  BY <1>1, <1>2, WriteInv DEF StreamInv, counters
<1>4. page # << >> => Len(page) \in 1..Len(page) /\ page[Len(page)] \in Nat
  BY <1>1
<1>5. TypeOK'
  <2>1. cursor' \in Nat
    BY <1>1, <1>4
  <2>2. drainAgain' \in BOOLEAN /\ pc' \in {"reading", "settling"} /\ page' = << >>
    BY DEF StreamInv, TypeOK
  <2>3. QED
    BY <1>3, <2>1, <2>2 DEF StreamInv, TypeOK, tableVars, counters
<1>6. ASSUME open' PROVE CursorInv'
  <2>1. open /\ PageInv /\ CursorInv /\ AllIds' = AllIds \cup IdsOf(page)
    BY <1>1, <1>3, <1>6 DEF StreamInv
  <2>2. CASE page = << >>
    <3>1. IdsOf(page) = {} /\ cursor' = cursor
      BY <2>2, EmptyFrames
    <3>2. QED
      BY <1>1, <2>1, <3>1 DEF CursorInv
  <2>3. CASE page # << >>
    <3> DEFINE l == page[Len(page)]
    <3>1. cursor' = l /\ l \in IdsOf(page) /\ l \in Nat
      BY <1>4, <2>1, <2>3 DEF PageInv, IdsOf
    <3>2. l \in Wanted /\ l > cursor /\ l <= Len(events)
      BY <2>1, <3>1, WantedNat DEF PageInv, StreamInv
    <3>3. \A f \in IdsOf(page) : f <= l
      <4>1. ASSUME NEW i \in 1..Len(page), page[i] # KeepAlive PROVE page[i] <= l
        <5>1. i = Len(page) \/ i < Len(page)
          BY <1>1
        <5>2. l # KeepAlive /\ page[i] \in Nat
          BY <1>1, <3>1 DEF IdsOf
        <5>3. QED
          BY <1>4, <2>1, <2>3, <3>1, <4>1, <5>1, <5>2 DEF PageInv, Sorted
      <4>2. QED
        BY <4>1 DEF IdsOf
    <3>4. \A f \in AllIds : f <= l
      <4>1. AllIds \subseteq Nat
        BY DEF StreamInv, SinkInv, OnTheWay, AllIds
      <4>2. QED
        BY <1>1, <2>1, <3>1, <3>2, <4>1 DEF CursorInv
    <3>5. ASSUME NEW e \in Wanted, e <= l PROVE e \in AllIds \cup IdsOf(page)
      <4>1. e \in Nat
        BY WantedNat DEF StreamInv
      <4>2. CASE e <= cursor
        BY <2>1, <4>2 DEF CursorInv
      <4>3. CASE e > cursor
        BY <2>1, <3>1, <3>5, <4>1, <4>3 DEF PageInv
      <4>4. QED
        BY <1>1, <4>1, <4>2, <4>3
    <3>6. l >= After
      BY <1>1, <2>1, <3>1, <3>2, StreamAssumption DEF CursorInv, StreamAssumption
    <3> HIDE DEF l
    <3>7. QED
      BY <1>1, <2>1, <3>1, <3>2, <3>3, <3>4, <3>5, <3>6 DEF CursorInv
  <2>4. QED
    BY <2>2, <2>3
<1>7. pc' # "paged"
  OBVIOUS
<1>8. QED
  BY <1>3, <1>5, <1>6, <1>7 DEF StreamInv

LEMMA HeartbeatInv ==
  ASSUME StreamInv, Heartbeat PROVE StreamInv'
<1> USE DEF Heartbeat
<1> DEFINE fs == << KeepAlive >>
<1>1. /\ fs \in Seq(Nat) /\ Sorted(fs) /\ IdsOf(fs) = {}
  BY DEF KeepAlive, Sorted, IdsOf
<1>2. Write(fs) /\ UNCHANGED << received, events >> /\ Wanted' = Wanted
  BY DEF tableVars, Wanted, Ids
<1>3. Before(AllIds, IdsOf(fs)) /\ Gapless(Wanted, AllIds \cup IdsOf(fs))
  BY <1>1 DEF Before, StreamInv, SinkInv, OnTheWay, AllIds, Gapless
<1> HIDE DEF fs
<1>4. /\ SinkInv'
      /\ open' \in BOOLEAN /\ backpressured' \in BOOLEAN
      /\ wire' \in Seq(Nat) /\ Len(wire') <= HighWater
      /\ queue' \in Seq(Nat) /\ Len(queue') <= maxQueue'
      /\ open' => open /\ AllIds' = AllIds \cup IdsOf(fs)
  BY <1>1, <1>2, <1>3, WriteInv DEF StreamInv
<1>5. TypeOK'
  BY <1>4 DEF StreamInv, TypeOK, tableVars, drainVars
<1>6. open' => CursorInv'
  BY <1>1, <1>2, <1>4 DEF StreamInv, CursorInv, drainVars
<1>7. open' /\ pc' = "paged" => PageInv'
  BY <1>2, <1>4 DEF StreamInv, PageInv, drainVars
<1>8. QED
  BY <1>4, <1>5, <1>6, <1>7 DEF StreamInv

LEMMA FlushInv ==
  ASSUME StreamInv, Flush PROVE StreamInv'
<1> DEFINE k == Taken(Len(queue))
<1>1. /\ open /\ backpressured /\ wire = << >> /\ UNCHANGED << events, received, open >>
      /\ wire' = SubSeq(queue, 1, k) /\ queue' = SubSeq(queue, k + 1, Len(queue))
      /\ backpressured' = (k = HighWater)
      /\ UNCHANGED << tableVars, notified, drainVars, counters >>
  BY DEF Flush, tableVars
<1>2. /\ Len(queue) \in Nat /\ HighWater \in Nat \ {0} /\ queue \in Seq(Nat)
      /\ maxQueue \in Nat /\ Len(queue) <= maxQueue
  BY StreamAssumption DEF StreamInv, TypeOK, StreamAssumption
<1>3. k \in 0..Len(queue) /\ k <= HighWater /\ (k = Len(queue) \/ k = HighWater)
  BY <1>1, <1>2 DEF Taken
<1> HIDE DEF k
<1>4. Wanted' = Wanted
  BY <1>1 DEF Wanted, Ids
<1>5. OnTheWay(Wanted, received, wire', queue')
  BY <1>1, <1>3, Flushed DEF StreamInv, SinkInv
<1>6. /\ wire' \in Seq(Nat) /\ Len(wire') = k /\ queue' \in Seq(Nat)
      /\ Len(queue') = Len(queue) - k /\ IdsOf(wire') \cup IdsOf(queue') = IdsOf(queue)
  BY <1>1, <1>2, <1>3, SplitFrames
<1>7. queue' # << >> => backpressured'
  <2>1. queue' # << >> => Len(queue') # 0
    BY <1>6
  <2>2. k # HighWater => Len(queue') = 0
    BY <1>2, <1>3, <1>6
  <2>3. QED
    BY <1>1, <2>1, <2>2
<1>8. SinkInv'
  BY <1>1, <1>4, <1>5, <1>7 DEF SinkInv, QueueWillFlush
<1>9. Len(wire') <= HighWater /\ Len(queue') <= maxQueue'
  BY <1>1, <1>2, <1>3, <1>6 DEF counters
<1>10. backpressured' \in BOOLEAN
  BY <1>1
<1>11. TypeOK'
  BY <1>1, <1>6, <1>9, <1>10 DEF StreamInv, TypeOK, tableVars, drainVars, counters
<1>12. AllIds' = AllIds
  BY <1>1, <1>6, EmptyFrames DEF AllIds
<1>13. CursorInv'
  BY <1>1, <1>4, <1>12 DEF StreamInv, CursorInv, drainVars
<1>14. pc' = "paged" => PageInv'
  BY <1>1, <1>4 DEF StreamInv, PageInv, drainVars
<1>15. QED
  BY <1>8, <1>11, <1>13, <1>14 DEF StreamInv

LEMMA DeliverInv ==
  ASSUME StreamInv, Deliver PROVE StreamInv'
<1> DEFINE r == IF Head(wire) = KeepAlive THEN received ELSE Append(received, Head(wire))
<1>1. /\ wire # << >> /\ wire' = Tail(wire) /\ received' = r
      /\ UNCHANGED << events, open, queue, backpressured, tableVars, notified, drainVars, counters >>
  BY DEF Deliver, tableVars
<1>2. wire \in Seq(Nat) /\ received \in Seq(Nat) /\ HighWater \in Nat
  BY StreamAssumption DEF StreamInv, TypeOK, StreamAssumption
<1>3. /\ Head(wire) \in Nat /\ Tail(wire) \in Seq(Nat) /\ Len(Tail(wire)) = Len(wire) - 1
      /\ IdsOf(wire) = (IdsOf(Tail(wire)) \cup {Head(wire)}) \ {KeepAlive}
  BY <1>1, <1>2, TailFrames
<1>4. Wanted' = Wanted
  BY <1>1 DEF Wanted, Ids
<1>5. OnTheWay(Wanted, r, Tail(wire), queue)
  BY <1>1, Delivered DEF StreamInv, SinkInv
<1>6. r \in Seq(Nat)
  BY <1>5 DEF OnTheWay
<1>7. IdsOf(r) \cup IdsOf(Tail(wire)) = IdsOf(received) \cup IdsOf(wire)
  <2>1. KeepAlive \notin IdsOf(Tail(wire))
    BY DEF IdsOf
  <2>2. CASE Head(wire) = KeepAlive
    BY <1>3, <2>1, <2>2
  <2>3. CASE Head(wire) # KeepAlive
    <3>1. IdsOf(r) = IdsOf(received) \cup {Head(wire)}
      BY <1>2, <1>3, <2>3, AppendFrame
    <3>2. QED
      BY <1>3, <2>1, <2>3, <3>1
  <2>4. QED
    BY <2>2, <2>3
<1> HIDE DEF r
<1>8. SinkInv'
  BY <1>1, <1>4, <1>5 DEF StreamInv, SinkInv, QueueWillFlush
<1>9. Len(wire') <= HighWater
  BY <1>1, <1>2, <1>3 DEF StreamInv, TypeOK
<1>10. TypeOK'
  BY <1>1, <1>3, <1>6, <1>9 DEF StreamInv, TypeOK, tableVars, drainVars, counters
<1>11. AllIds' = AllIds
  BY <1>1, <1>7 DEF AllIds
<1>12. open' => CursorInv'
  BY <1>1, <1>4, <1>11 DEF StreamInv, CursorInv, drainVars
<1>13. open' /\ pc' = "paged" => PageInv'
  BY <1>1, <1>4 DEF StreamInv, PageInv, drainVars
<1>14. QED
  BY <1>8, <1>10, <1>12, <1>13 DEF StreamInv

\* What was received decides where the next connection begins.
LEMMA ConnectInv ==
  ASSUME StreamInv, Connect PROVE StreamInv'
<1> USE DEF Connect
<1>1. /\ wire' = << >> /\ queue' = << >> /\ UNCHANGED << events, received >>
      /\ pc' = "reading" /\ open' = TRUE /\ backpressured' = FALSE
      /\ After \in Nat /\ HighWater \in Nat /\ maxQueue \in Nat /\ maxQueue' = maxQueue
  BY StreamAssumption DEF tableVars, counters, StreamAssumption, StreamInv, TypeOK
<1>2. Wanted' = Wanted /\ OnTheWay(Wanted, received, wire, queue) /\ received \in Seq(Nat)
  BY <1>1 DEF Wanted, Ids, StreamInv, SinkInv, TypeOK
<1>3. OnTheWay(Wanted, received, << >>, << >>)
  <2>1. wire \in Seq(Nat) /\ Len(wire) \in Nat /\ 0 \in 0..Len(wire)
    BY DEF StreamInv, TypeOK
  <2>2. SubSeq(wire, 1, 0) = << >>
    BY <2>1
  <2>3. OnTheWay(Wanted, received, SubSeq(wire, 1, 0), << >>)
    BY <1>2, <2>1, CutOff
  <2>4. QED
    BY <2>2, <2>3
<1>4. SinkInv'
  BY <1>1, <1>2, <1>3 DEF SinkInv, QueueWillFlush
<1>5. AllIds' = IdsOf(received)
  BY <1>1, EmptyFrames DEF AllIds
<1>6. received # << >> =>
        /\ LastEventId \in IdsOf(received) /\ LastEventId \in Nat
        /\ \A f \in IdsOf(received) : f <= LastEventId
  <2>1. SUFFICES ASSUME received # << >>
                 PROVE  /\ LastEventId \in IdsOf(received) /\ LastEventId \in Nat
                        /\ \A f \in IdsOf(received) : f <= LastEventId
    OBVIOUS
  <2>2. LastEventId = received[Len(received)] /\ Len(received) \in 1..Len(received)
    BY <1>2, <2>1 DEF LastEventId
  <2>3. /\ Sorted(received) /\ KeepAlive \notin {received[i] : i \in 1..Len(received)}
    BY <1>2 DEF OnTheWay
  <2>4. LastEventId \in IdsOf(received) /\ LastEventId \in Nat
    BY <1>2, <2>2, <2>3 DEF IdsOf
  <2>5. ASSUME NEW i \in 1..Len(received) PROVE received[i] <= LastEventId
    <3>1. i = Len(received) \/ i < Len(received)
      BY <1>2
    <3>2. received[i] # KeepAlive /\ received[Len(received)] # KeepAlive /\ received[i] \in Nat
      BY <1>2, <2>2, <2>3
    <3>3. QED
      BY <2>2, <2>3, <2>4, <3>1, <3>2 DEF Sorted
  <2>6. QED
    BY <2>4, <2>5 DEF IdsOf
<1>7. cursor' \in Nat
  BY <1>1, <1>6 DEF LastEventId
<1>8. TypeOK'
  <2>1. << >> \in Seq(Nat) /\ Len(<< >>) = 0
    OBVIOUS
  <2>2. Len(wire') <= HighWater /\ Len(queue') <= maxQueue'
    BY <1>1, <2>1
  <2>3. drainAgain' \in BOOLEAN /\ unawaited' \in BOOLEAN /\ open' \in BOOLEAN /\ backpressured' \in BOOLEAN
    OBVIOUS
  <2>4. QED
    BY <1>1, <1>7, <2>1, <2>2, <2>3 DEF StreamInv, TypeOK, tableVars, counters
<1>9. CursorInv'
  <2>1. CASE received = << >>
    <3>1. cursor' = After /\ IdsOf(received) = {}
      BY <1>1, <2>1, EmptyFrames DEF LastEventId
    <3>2. \A e \in Wanted : e > After /\ e \in Nat
      BY WantedNat DEF Wanted, StreamInv
    <3>3. QED
      BY <1>1, <1>2, <1>5, <3>1, <3>2 DEF CursorInv
  <2>2. CASE received # << >>
    <3>1. LastEventId \in Wanted /\ LastEventId > After
      BY <1>2, <1>6, <2>2 DEF OnTheWay, Wanted
    <3>2. cursor' = LastEventId /\ LastEventId <= Len(events)
      BY <3>1, WantedNat DEF StreamInv
    <3>3. ASSUME NEW e \in Wanted, e <= LastEventId PROVE e \in IdsOf(received)
      <4>1. e = LastEventId \/ e < LastEventId
        BY <1>6, <2>2, <3>3, WantedNat DEF StreamInv
      <4>2. QED
        BY <1>2, <1>6, <2>2, <4>1 DEF OnTheWay, Gapless
    <3>4. QED
      BY <1>1, <1>2, <1>5, <1>6, <2>2, <3>1, <3>2, <3>3 DEF CursorInv
  <2>3. QED
    BY <2>1, <2>2
<1>10. QED
  BY <1>1, <1>4, <1>8, <1>9 DEF StreamInv

\* A connection that ends loses the queue and may lose the response.
LEMMA EndInv ==
  ASSUME StreamInv, Break \/ Crash \/ (ReadFails /\ unawaited) PROVE StreamInv'
<1>1. /\ Closed /\ UNCHANGED << events, received, wire, backpressured >>
      /\ UNCHANGED << cursor, page, drainAgain, unawaited, beats, maxQueue >>
      /\ pc' \in {pc, "idle"}
      /\ unpublished' \in {unpublished, 0} /\ notified' \in {notified, 0}
      /\ breaks' = breaks + 1
  BY DEF Break, Crash, ReadFails, DaemonGone, tableVars, drainVars
<1>2. open' = FALSE /\ queue' = << >>
  BY <1>1 DEF Closed
<1>3. OnTheWay(Wanted, received, wire, << >>)
  <2>1. wire \in Seq(Nat) /\ Len(wire) \in 0..Len(wire)
    BY DEF StreamInv, TypeOK
  <2>2. SubSeq(wire, 1, Len(wire)) = wire
    BY <2>1
  <2>3. OnTheWay(Wanted, received, SubSeq(wire, 1, Len(wire)), << >>)
    BY <2>1, CutOff DEF StreamInv, SinkInv
  <2>4. QED
    BY <2>2, <2>3
<1>4. Wanted' = Wanted
  BY <1>1 DEF Wanted, Ids
<1>5. SinkInv'
  BY <1>1, <1>2, <1>3, <1>4 DEF SinkInv, QueueWillFlush
<1>6. << >> \in Seq(Nat) /\ Len(<< >>) = 0 /\ maxQueue \in Nat
  BY StreamAssumption DEF StreamAssumption, StreamInv, TypeOK
<1>7. TypeOK'
  <2>1. pc' \in {"idle", "reading", "paged", "settling"} /\ open' \in BOOLEAN
    BY <1>1, <1>2 DEF StreamInv, TypeOK
  <2>2. unpublished' \in Nat /\ notified' \in Nat /\ breaks' \in Nat
    BY <1>1 DEF StreamInv, TypeOK
  <2>3. queue' \in Seq(Nat) /\ Len(queue') <= maxQueue'
    BY <1>1, <1>2, <1>6
  <2>4. QED
    BY <1>1, <2>1, <2>2, <2>3 DEF StreamInv, TypeOK
<1>8. QED
  BY <1>2, <1>5, <1>7 DEF StreamInv

LEMMA FirstReadFailsInv ==
  ASSUME StreamInv, ReadFails, ~ unawaited PROVE StreamInv'
<1>1. /\ UNCHANGED << events, unpublished, notified, sinkVars, received, cursor, page, drainAgain,
                      unawaited, beats, maxQueue >>
      /\ pc' = "settling" /\ breaks' = breaks + 1
  BY DEF ReadFails, tableVars
<1>2. TypeOK'
  BY <1>1 DEF StreamInv, TypeOK, sinkVars
<1>3. QED
  BY <1>1, <1>2, DrainStepInv

LEMMA StreamStepInv == StreamInv /\ [Next]_vars => StreamInv'
<1> SUFFICES ASSUME StreamInv, [Next]_vars PROVE StreamInv'
  OBVIOUS
<1>1. CASE UNCHANGED vars
  <2>1. Wanted' = Wanted /\ AllIds' = AllIds
    BY <1>1 DEF vars, tableVars, sinkVars, Wanted, Ids, AllIds
  <2>2. QED
    BY <1>1, <2>1 DEF vars, tableVars, drainVars, sinkVars, counters, StreamInv, TypeOK, SinkInv,
       CursorInv, PageInv, QueueWillFlush
<1>2. CASE Next
  BY <1>2, AppendInv, CallbackInv, ReadPageInv, ResumeInv, FlushInv, HeartbeatInv, DeliverInv,
     ConnectInv, EndInv, FirstReadFailsInv DEF Next
<1>3. QED
  BY <1>1, <1>2

LEMMA StreamInductive == Spec => []StreamInv
BY StreamInitInv, StreamStepInv, PTL DEF Spec

\* The daemon holds at most maxQueue frames for a client, and the response as
\* many as it takes.
THEOREM StreamTypeCorrect == Spec => []TypeOK
<1>1. StreamInv => TypeOK
  BY DEF StreamInv
<1>2. QED
  BY <1>1, StreamInductive, PTL

\* No frame is left in the queue without a drain event to come for it.
THEOREM QueueIsNeverStuck == Spec => []QueueWillFlush
<1>1. StreamInv => QueueWillFlush
  BY DEF StreamInv, SinkInv
<1>2. QED
  BY <1>1, StreamInductive, PTL

\* The client gets every event it wants up to the last one it got, each once
\* and in order, over however many connections.
THEOREM StreamExact == Spec => []StreamIsExact
<1>1. StreamInv => StreamIsExact
  <2>1. SUFFICES ASSUME StreamInv PROVE StreamIsExact
    OBVIOUS
  <2>2. /\ received \in Seq(Nat) /\ DOMAIN received = 1..Len(received) /\ Sorted(received)
        /\ KeepAlive \notin {received[i] : i \in 1..Len(received)}
        /\ IdsOf(received) \subseteq Wanted /\ Gapless(Wanted, IdsOf(received))
    BY <2>1 DEF StreamInv, SinkInv, OnTheWay
  <2>3. \A i, j \in DOMAIN received : i < j => received[i] < received[j]
    BY <2>2 DEF Sorted
  <2>4. \A i \in DOMAIN received : received[i] \in Wanted
    BY <2>2 DEF IdsOf
  <2>5. ASSUME NEW e \in Wanted, e < LastEventId PROVE \E i \in DOMAIN received : received[i] = e
    <3>1. received # << >>
      <4>1. e \in Nat
        BY <2>1, WantedNat DEF StreamInv
      <4>2. QED
        BY <2>5, <4>1 DEF LastEventId
    <3>2. LastEventId \in IdsOf(received)
      BY <2>2, <3>1 DEF LastEventId, IdsOf
    <3>3. e \in IdsOf(received)
      BY <2>2, <2>5, <3>2 DEF Gapless
    <3>4. QED
      BY <2>2, <3>3 DEF IdsOf
  <2>6. QED
    BY <2>3, <2>4, <2>5 DEF StreamIsExact
<1>2. QED
  BY <1>1, StreamInductive, PTL
=============================================================================
