----------------------------- MODULE RingProofs -----------------------------
(***************************************************************************)
(* Rings whose counters wrap, for rings and counters of any size where the *)
(* one divides the other, and the first of them: a pipe is a bounded queue *)
(* and its ends wake each other.                                           *)
(***************************************************************************)
EXTENDS Pipe, SequenceTheorems, TLAPS

(***************************************************************************)
(* Arithmetic of counters that wrap at M and index a ring of P.            *)
(***************************************************************************)
LEMMA DivMod ==
  ASSUME NEW P \in Nat \ {0}, NEW x \in Int
  PROVE  x = P * (x \div P) + (x % P) /\ x % P \in 0 .. P - 1 /\ x \div P \in Int
OBVIOUS

LEMMA MulLess ==
  ASSUME NEW P \in Nat \ {0}, NEW d \in Int, NEW e \in Int, d < e
  PROVE  P * e >= P * d + P
<1>1. e - d >= 1
  OBVIOUS
<1>2. P * (e - d) >= P
  BY <1>1
<1>3. P * (e - d) = P * e - P * d
  OBVIOUS
<1> QED
  BY <1>2, <1>3

\* There is one remainder.
LEMMA ModUnique ==
  ASSUME NEW P \in Nat \ {0}, NEW d \in Int, NEW r \in 0 .. P - 1, NEW x \in Int, x = P * d + r
  PROVE  x % P = r
<1>1. x = P * (x \div P) + (x % P) /\ x % P \in 0 .. P - 1 /\ x \div P \in Int
  BY DivMod
<1>2. PICK e \in Int : e = x \div P
  BY <1>1
<1>3. PICK s \in 0 .. P - 1 : s = x % P
  BY <1>1
<1>4. P * d + r = P * e + s
  BY <1>1, <1>2, <1>3
<1>5. ~(d < e)
  BY <1>4, MulLess
<1>6. ~(e < d)
  BY <1>4, MulLess
<1>7. d = e
  BY <1>5, <1>6
<1> QED
  BY <1>3, <1>4, <1>7

\* Whole rounds do not change the place in the ring.
LEMMA ModShift ==
  ASSUME NEW P \in Nat \ {0}, NEW q \in Int, NEW x \in Int
  PROVE  (x + P * q) % P = x % P
<1>1. x = P * (x \div P) + (x % P) /\ x % P \in 0 .. P - 1 /\ x \div P \in Int
  BY DivMod
<1>2. PICK e \in Int : e = x \div P
  BY <1>1
<1>3. PICK s \in 0 .. P - 1 : s = x % P
  BY <1>1
<1>4. x = P * e + s
  BY <1>1, <1>2, <1>3
<1>5. x + P * q = P * (e + q) + s
  BY <1>4
<1>6. PICK y \in Int, d \in Int : y = x + P * q /\ d = e + q
  <2>1. x + P * q \in Int /\ e + q \in Int
    OBVIOUS
  <2> QED
    BY <2>1, Zenon
<1>7. y = P * d + s
  BY <1>5, <1>6
<1>8. y % P = s
  BY <1>7, ModUnique
<1> QED
  BY <1>3, <1>6, <1>8

\* Two numbers less than a round apart are at different places.
LEMMA ModApart ==
  ASSUME NEW P \in Nat \ {0}, NEW x \in Int, NEW y \in Int, x % P = y % P, x <= y, y - x < P
  PROVE  x = y
<1>1. x = P * (x \div P) + (x % P) /\ x % P \in 0 .. P - 1 /\ x \div P \in Int
  BY DivMod
<1>2. y = P * (y \div P) + (y % P) /\ y % P \in 0 .. P - 1 /\ y \div P \in Int
  BY DivMod
<1>3. PICK d \in Int, e \in Int : d = x \div P /\ e = y \div P
  BY <1>1, <1>2
<1>4. y - x = P * e - P * d
  BY <1>1, <1>2, <1>3
<1>5. ~(d < e)
  BY <1>4, MulLess
<1>6. ~(e < d)
  BY <1>4, MulLess
<1> QED
  BY <1>4, <1>5, <1>6

\* A counter may wrap before it is used as an index.
LEMMA Wrap ==
  ASSUME NEW P \in Nat \ {0}, NEW M \in Nat \ {0}, M % P = 0, NEW x \in Int, NEW j \in Int
  PROVE  ((x % M) + j) % P = (x + j) % P
<1>1. M = P * (M \div P) + (M % P) /\ M \div P \in Int
  BY DivMod
<1>2. PICK q \in Int : M = P * q
  BY <1>1
<1>3. x = M * (x \div M) + (x % M) /\ x \div M \in Int /\ x % M \in Int
  BY DivMod
<1>4. PICK e \in Int, m \in Int : x = M * e + m /\ m = x % M
  BY <1>3
<1>5. x + j = (m + j) + P * (q * e)
  <2>1. M * e = P * (q * e)
    BY <1>2
  <2> QED
    BY <1>4, <2>1
<1>6. m + j \in Int /\ q * e \in Int
  OBVIOUS
<1>7. ((m + j) + P * (q * e)) % P = (m + j) % P
  BY <1>6, ModShift
<1> QED
  BY <1>4, <1>5, <1>7

\* How far a counter w is ahead of a counter r.
LEMMA AheadMod ==
  ASSUME NEW M \in Nat \ {0}, NEW r \in 0 .. M - 1, NEW w \in 0 .. M - 1
  PROVE  /\ (w - r + M) % M \in 0 .. M - 1
         /\ w = (r + ((w - r + M) % M)) % M
         /\ (w - r + M) % M = 0 <=> w = r
<1>1. CASE r <= w
  <2>1. w - r + M = M * 1 + (w - r) /\ w - r \in 0 .. M - 1 /\ w - r + M \in Int
    BY <1>1
  <2>2. (w - r + M) % M = w - r
    BY <2>1, ModUnique
  <2>3. w % M = w
    OBVIOUS
  <2> QED
    BY <2>1, <2>2, <2>3
<1>2. CASE w < r
  <2>1. w - r + M \in 0 .. M - 1
    BY <1>2
  <2>2. (w - r + M) % M = w - r + M
    BY <2>1
  <2>3. w + M = M * 1 + w /\ w + M \in Int
    OBVIOUS
  <2>4. (w + M) % M = w
    BY <2>3, ModUnique
  <2>5. r + (w - r + M) = w + M
    OBVIOUS
  <2> QED
    BY <1>2, <2>1, <2>2, <2>4, <2>5
<1> QED
  BY <1>1, <1>2

\* A counter n ahead of r is ahead by n.
LEMMA AheadByMod ==
  ASSUME NEW M \in Nat \ {0}, NEW r \in 0 .. M - 1, NEW n \in 0 .. M - 1
  PROVE  (r + n) % M \in 0 .. M - 1 /\ (((r + n) % M) - r + M) % M = n
<1>0. PICK w : w = (r + n) % M
  OBVIOUS
<1>1. CASE r + n < M
  <2>1. w = r + n
    BY <1>0, <1>1
  <2>2. w - r + M = M * 1 + n /\ w - r + M \in Int
    BY <2>1
  <2> QED
    BY <1>0, <1>1, <2>1, <2>2, ModUnique
<1>2. CASE r + n >= M
  <2>1. r + n = M * 1 + (r + n - M) /\ r + n - M \in 0 .. M - 1 /\ r + n \in Int
    BY <1>2
  <2>2. w = r + n - M
    BY <1>0, <2>1, ModUnique
  <2>3. w - r + M = n
    BY <2>2
  <2> QED
    BY <1>0, <2>1, <2>2, <2>3
<1> QED
  BY <1>1, <1>2

\* The same, in terms of the distance of two counters and of a counter moved on.
Dist(M, w, r) == (w - r + M) % M
Moved(M, r, k) == (r + k) % M

LEMMA Ahead ==
  ASSUME NEW M \in Nat \ {0}, NEW r \in 0 .. M - 1, NEW w \in 0 .. M - 1
  PROVE  /\ Dist(M, w, r) \in 0 .. M - 1 /\ w = Moved(M, r, Dist(M, w, r))
         /\ Dist(M, w, r) = 0 <=> w = r
BY AheadMod DEF Dist, Moved

LEMMA AheadBy ==
  ASSUME NEW M \in Nat \ {0}, NEW r \in 0 .. M - 1, NEW n \in 0 .. M - 1
  PROVE  Moved(M, r, n) \in 0 .. M - 1 /\ Dist(M, Moved(M, r, n), r) = n
BY AheadByMod DEF Dist, Moved

LEMMA MoveEnd ==
  ASSUME NEW M \in Nat \ {0}, NEW r \in 0 .. M - 1, NEW w \in 0 .. M - 1, Dist(M, w, r) + 1 < M
  PROVE  Moved(M, w, 1) \in 0 .. M - 1 /\ Dist(M, Moved(M, w, 1), r) = Dist(M, w, r) + 1
<1>0. PICK n, v : n = (w - r + M) % M /\ v = (w + 1) % M /\ n + 1 < M
  BY DEF Dist
<1>1. n \in 0 .. M - 1 /\ w = (r + n) % M
  BY <1>0, AheadMod
<1>2. PICK x \in Int : x = r + n
  BY <1>0, <1>1
<1>3. PICK m \in 0 .. M - 1 : m = n + 1
  BY <1>0, <1>1
<1>4. ((x % M) + 1) % M = (x + 1) % M
  <2>1. M % M = 0 /\ 1 \in Int
    OBVIOUS
  <2> QED
    BY <2>1, Wrap, Zenon
<1>5. x + 1 = r + m
  BY <1>0, <1>1, <1>2, <1>3
<1>6. v = (r + m) % M
  BY <1>0, <1>1, <1>2, <1>4, <1>5
<1>7. (r + m) % M \in 0 .. M - 1 /\ (((r + m) % M) - r + M) % M = m
  BY AheadByMod, Zenon
<1> QED
  BY <1>0, <1>3, <1>6, <1>7 DEF Dist, Moved

LEMMA MoveStart ==
  ASSUME NEW M \in Nat \ {0}, NEW r \in 0 .. M - 1, NEW w \in 0 .. M - 1, NEW k \in 0 .. Dist(M, w, r)
  PROVE  Moved(M, r, k) \in 0 .. M - 1 /\ Dist(M, w, Moved(M, r, k)) = Dist(M, w, r) - k
<1>0. PICK n, v : n = (w - r + M) % M /\ v = (r + k) % M /\ k \in 0 .. n
  BY DEF Dist
<1>1. n \in 0 .. M - 1 /\ w = (r + n) % M
  BY <1>0, AheadMod
<1>2. PICK x \in Int : x = r + k
  BY <1>0, <1>1
<1>3. PICK m \in 0 .. M - 1 : m = n - k
  <2>1. n - k \in 0 .. M - 1
    BY <1>0, <1>1
  <2> QED
    BY <2>1, Zenon
<1>4. ((x % M) + m) % M = (x + m) % M
  <2>1. M % M = 0 /\ m \in Int
    OBVIOUS
  <2> QED
    BY <2>1, Wrap
<1>5. x + m = r + n
  BY <1>0, <1>1, <1>2, <1>3
<1>6. v \in 0 .. M - 1 /\ w = (v + m) % M
  BY <1>0, <1>1, <1>2, <1>4, <1>5
<1>7. (((v + m) % M) - v + M) % M = m
  BY <1>0, <1>6, AheadByMod, Zenon
<1> QED
  BY <1>0, <1>3, <1>6, <1>7 DEF Dist, Moved

LEMMA MoveBack ==
  ASSUME NEW M \in Nat \ {0}, NEW r \in 0 .. M - 1, NEW w \in 0 .. M - 1, NEW k \in 0 .. Dist(M, w, r)
  PROVE  Dist(M, w, k) \in 0 .. M - 1 /\ Dist(M, Dist(M, w, k), r) = Dist(M, w, r) - k
<1>0. PICK n, v : n = (w - r + M) % M /\ v = (w - k + M) % M /\ k \in 0 .. n
  BY DEF Dist
<1>1. n \in 0 .. M - 1 /\ w = (r + n) % M
  BY <1>0, AheadMod
<1>2. PICK x \in Int : x = r + n
  BY <1>0, <1>1
<1>3. PICK m \in 0 .. M - 1 : m = n - k
  <2>1. n - k \in 0 .. M - 1
    BY <1>0, <1>1
  <2> QED
    BY <2>1, Zenon
<1>4. PICK j \in Int : j = M - k
  BY <1>0, <1>1
<1>5. ((x % M) + j) % M = (x + j) % M
  <2>1. M % M = 0
    OBVIOUS
  <2> QED
    BY <2>1, Wrap
<1>6. PICK y \in Int : y = r + m
  <2>1. r + m \in Int
    OBVIOUS
  <2> QED
    BY <2>1, Zenon
<1>7. (y + M * 1) % M = y % M
  <2>1. 1 \in Int
    OBVIOUS
  <2> QED
    BY <2>1, ModShift, Zenon
<1>8. x + j = y + M * 1 /\ w - k + M = w + j
  BY <1>0, <1>1, <1>2, <1>3, <1>4, <1>6
<1>9. v = (r + m) % M
  BY <1>0, <1>1, <1>2, <1>5, <1>6, <1>7, <1>8
<1>10. (r + m) % M \in 0 .. M - 1 /\ (((r + m) % M) - r + M) % M = m
  BY AheadByMod, Zenon
<1> QED
  BY <1>0, <1>3, <1>9, <1>10 DEF Dist, Moved

\* Places less than a round apart differ.
LEMMA SlotsApart ==
  ASSUME NEW P \in Nat \ {0}, NEW x \in Int, NEW i \in 0 .. P - 1, NEW j \in 0 .. P - 1,
         (x + i) % P = (x + j) % P
  PROVE  i = j
<1>1. x + i \in Int /\ x + j \in Int
  OBVIOUS
<1>2. CASE i <= j
  <2>1. x + i <= x + j /\ (x + j) - (x + i) < P
    BY <1>2
  <2>2. x + i = x + j
    BY <1>1, <2>1, ModApart
  <2> QED
    BY <2>2
<1>3. CASE j <= i
  <2>1. x + j <= x + i /\ (x + i) - (x + j) < P
    BY <1>3
  <2>2. x + i = x + j
    BY <1>1, <2>1, ModApart
  <2> QED
    BY <2>2
<1> QED
  BY <1>2, <1>3

\* A ring of P values in S, with counters that wrap at M.
Sizes(P, M) == P \in Nat \ {0} /\ M \in Nat \ {0} /\ M % P = 0 /\ P < M
Buffer(P, S, buf) == buf \in [0 .. P - 1 -> S]
Counter(M, r) == r \in 0 .. M - 1

\* The slot i places after counter r, and what is held between two counters.
At(P, r, i) == (r + i) % P
Held(buf, M, P, r, w) == [k \in 1 .. Dist(M, w, r) |-> buf[(r + k - 1) % P]]

\* q is the n values of the ring from counter r.
Reads(q, S, buf, P, r, n) ==
  q \in Seq(S) /\ Len(q) = n /\ \A k \in 1 .. n : q[k] = buf[At(P, r, k - 1)]

\* b is stored at counter w; the values from k to n after counter r are kept.
Stores(P, buf, new, w, b) == new = [buf EXCEPT ![w % P] = b]
Keeps(P, buf, new, r, k, n) == \A i \in k .. n - 1 : new[At(P, r, i)] = buf[At(P, r, i)]

\* q is h with b put at the end, without its first k, without its last k, or g and h.
IsPut(q, h, b) == q = Append(h, b)
IsTake(q, h, k) == q = SubSeq(h, k + 1, Len(h))
IsBack(q, h, k) == q = SubSeq(h, 1, Len(h) - k)
IsJoin(q, g, h) == q = g \o h

LEMMA AtIn ==
  ASSUME NEW P \in Nat \ {0}, NEW r \in Int, NEW i \in Int
  PROVE  At(P, r, i) \in 0 .. P - 1
<1>1. r + i \in Int
  OBVIOUS
<1> QED
  BY <1>1 DEF At

LEMMA AtMoved ==
  ASSUME NEW P, NEW M, Sizes(P, M),
         NEW r \in Int, NEW k \in Int, NEW i \in Int
  PROVE  At(P, Moved(M, r, k), i) = At(P, r, k + i)
<1> P \in Nat \ {0} /\ M \in Nat \ {0} /\ M % P = 0 /\ P < M
  BY DEF Sizes
<1>1. PICK x \in Int : x = r + k
  OBVIOUS
<1>2. ((x % M) + i) % P = (x + i) % P
  BY Wrap, ZenonT(40)
<1>3. r + (k + i) = x + i
  BY <1>1
<1> QED
  BY <1>1, <1>2, <1>3 DEF At, Moved

LEMMA AtApart ==
  ASSUME NEW P \in Nat \ {0}, NEW r \in Int, NEW i \in 0 .. P - 1, NEW j \in 0 .. P - 1, i # j
  PROVE  At(P, r, i) # At(P, r, j)
BY SlotsApart DEF At

LEMMA HeldIs ==
  ASSUME NEW S, NEW P, NEW M, Sizes(P, M), NEW buf, Buffer(P, S, buf),
         NEW r \in 0 .. M - 1, NEW w \in 0 .. M - 1
  PROVE  Reads(Held(buf, M, P, r, w), S, buf, P, r, Dist(M, w, r))
<1> P \in Nat \ {0} /\ M \in Nat \ {0} /\ M % P = 0 /\ P < M
  BY DEF Sizes
<1> buf \in [0 .. P - 1 -> S]
  BY DEF Buffer
<1>1. PICK n \in 0 .. M - 1 : n = Dist(M, w, r)
  BY Ahead
<1>2. ASSUME NEW k \in 1 .. n PROVE (r + k - 1) % P = At(P, r, k - 1) /\ buf[At(P, r, k - 1)] \in S
  <2>1. r + k - 1 = r + (k - 1) /\ k - 1 \in Int /\ r \in Int
    OBVIOUS
  <2>2. At(P, r, k - 1) \in 0 .. P - 1
    BY <2>1, AtIn
  <2> QED
    BY <2>1, <2>2 DEF At
<1>3. PICK h : h = Held(buf, M, P, r, w)
  OBVIOUS
<1>4. h = [k \in 1 .. n |-> buf[At(P, r, k - 1)]]
  BY <1>1, <1>2, <1>3 DEF Held
<1>5. h \in Seq(S) /\ Len(h) = n
  <2>1. n \in Nat
    OBVIOUS
  <2>2. h \in [1 .. n -> S]
    BY <1>2, <1>4, Zenon
  <2> QED
    BY <2>1, <2>2
<1>6. \A k \in 1 .. n : h[k] = buf[At(P, r, k - 1)]
  BY <1>4, Zenon
<1>7. Reads(h, S, buf, P, r, n)
  BY <1>5, <1>6 DEF Reads
<1> QED
  BY <1>1, <1>3, <1>7

\* A value stored at the end does not touch the others.
LEMMA HeldPut ==
  ASSUME NEW S, NEW P, NEW M, Sizes(P, M),
         NEW buf, Buffer(P, S, buf), NEW new, NEW b \in S, NEW r \in 0 .. M - 1, NEW w \in 0 .. M - 1,
         Dist(M, w, r) < P, Stores(P, buf, new, w, b)
  PROVE  IsPut(Held(new, M, P, r, Moved(M, w, 1)), Held(buf, M, P, r, w), b)
<1> P \in Nat \ {0} /\ M \in Nat \ {0} /\ M % P = 0 /\ P < M
  BY DEF Sizes
<1> buf \in [0 .. P - 1 -> S]
  BY DEF Buffer
<1>1. PICK n \in 0 .. P - 1 : n = Dist(M, w, r) /\ w = Moved(M, r, n)
  <2>1. Dist(M, w, r) \in 0 .. M - 1 /\ w = Moved(M, r, Dist(M, w, r))
    BY Ahead
  <2>2. Dist(M, w, r) \in 0 .. P - 1
    BY <2>1
  <2> QED
    BY <2>1, <2>2, Zenon
<1>2. PICK v \in 0 .. M - 1 : v = Moved(M, w, 1) /\ Dist(M, v, r) = n + 1
  <2>1. Dist(M, w, r) + 1 < M
    BY <1>1
  <2> QED
    BY <1>1, <2>1, MoveEnd
<1>3. w % P = At(P, r, n)
  <2>1. At(P, w, 0) = At(P, r, n + 0)
    <3>1. r \in Int /\ n \in Int /\ 0 \in Int
      OBVIOUS
    <3>2. At(P, Moved(M, r, n), 0) = At(P, r, n + 0)
      BY <3>1, AtMoved
    <3> QED
      BY <1>1, <3>2
  <2>2. w + 0 = w /\ n + 0 = n
    OBVIOUS
  <2> QED
    BY <2>1, <2>2 DEF At
<1>4. /\ new \in [0 .. P - 1 -> S] /\ At(P, r, n) \in 0 .. P - 1
      /\ new = [buf EXCEPT ![At(P, r, n)] = b] /\ Buffer(P, S, new)
  <2>1. r \in Int /\ n \in Int
    OBVIOUS
  <2>2. At(P, r, n) \in 0 .. P - 1
    BY <2>1, AtIn
  <2> QED
    BY <1>3, <2>2 DEF Buffer, Stores
<1> DEFINE old == Held(buf, M, P, r, w)
           nxt == Held(new, M, P, r, v)
<1>5. old \in Seq(S) /\ Len(old) = n /\ \A k \in 1 .. n : old[k] = buf[At(P, r, k - 1)]
  <2>1. Reads(Held(buf, M, P, r, w), S, buf, P, r, Dist(M, w, r))
    BY HeldIs
  <2> QED
    BY <2>1, <1>1 DEF Reads
<1>6. nxt \in Seq(S) /\ Len(nxt) = n + 1 /\ \A k \in 1 .. n + 1 : nxt[k] = new[At(P, r, k - 1)]
  <2>1. Reads(Held(new, M, P, r, v), S, new, P, r, Dist(M, v, r))
    BY <1>4, HeldIs
  <2> QED
    BY <2>1, <1>2, <1>4 DEF Reads
<1> HIDE DEF old, nxt
<1>7. /\ Append(old, b) \in Seq(S) /\ Len(Append(old, b)) = n + 1 /\ Append(old, b)[n + 1] = b
      /\ \A k \in 1 .. n : Append(old, b)[k] = old[k]
  BY <1>5, AppendProperties
<1>8. ASSUME NEW k \in 1 .. n + 1 PROVE nxt[k] = Append(old, b)[k]
  <2>1. PICK j \in 0 .. n : j = k - 1
    OBVIOUS
  <2>2. nxt[k] = new[At(P, r, j)] /\ At(P, r, j) \in 0 .. P - 1
    <3>1. r \in Int /\ j \in Int
      OBVIOUS
    <3>2. At(P, r, j) \in 0 .. P - 1
      BY <3>1, AtIn
    <3> QED
      BY <1>6, <2>1, <3>2
  <2>3. CASE j = n
    <3>1. k = n + 1 /\ new[At(P, r, n)] = b
      BY <1>4, <2>1, <2>3
    <3> QED
      BY <1>7, <2>2, <2>3, <3>1
  <2>4. CASE j # n
    <3>1. At(P, r, j) # At(P, r, n)
      <4>1. r \in Int /\ j \in 0 .. P - 1 /\ n \in 0 .. P - 1
        OBVIOUS
      <4> QED
        BY <2>4, <4>1, AtApart
    <3>2. k \in 1 .. n
      BY <2>1, <2>4
    <3>3. old[k] = buf[At(P, r, j)] /\ Append(old, b)[k] = old[k]
      BY <1>5, <1>7, <2>1, <3>2
    <3> QED
      BY <1>4, <2>2, <3>1, <3>3
  <2> QED
    BY <2>3, <2>4
<1>9. nxt = Append(old, b)
  BY <1>6, <1>7, <1>8, SeqEqual
<1> QED
  BY <1>2, <1>9 DEF IsPut, old, nxt

\* Values are taken from the front; the slots they leave may be overwritten.
LEMMA HeldTake ==
  ASSUME NEW S, NEW P, NEW M, Sizes(P, M),
         NEW buf, Buffer(P, S, buf), NEW new, Buffer(P, S, new),
         NEW r \in 0 .. M - 1, NEW w \in 0 .. M - 1, NEW k \in 0 .. Dist(M, w, r),
         Keeps(P, buf, new, r, k, Dist(M, w, r))
  PROVE  IsTake(Held(new, M, P, Moved(M, r, k), w), Held(buf, M, P, r, w), k)
<1> P \in Nat \ {0} /\ M \in Nat \ {0} /\ M % P = 0 /\ P < M
  BY DEF Sizes
<1> buf \in [0 .. P - 1 -> S]
  BY DEF Buffer
<1> new \in [0 .. P - 1 -> S]
  BY DEF Buffer
<1>1. PICK n \in 0 .. M - 1 : n = Dist(M, w, r) /\ k \in 0 .. n
  BY Ahead
<1>2. PICK v \in 0 .. M - 1 : v = Moved(M, r, k) /\ Dist(M, w, v) = n - k
  BY <1>1, MoveStart
<1> DEFINE old == Held(buf, M, P, r, w)
           nxt == Held(new, M, P, v, w)
<1>3. old \in Seq(S) /\ Len(old) = n /\ \A i \in 1 .. n : old[i] = buf[At(P, r, i - 1)]
  <2>1. Reads(Held(buf, M, P, r, w), S, buf, P, r, Dist(M, w, r))
    BY HeldIs
  <2> QED
    BY <2>1, <1>1 DEF Reads
<1>4. nxt \in Seq(S) /\ Len(nxt) = n - k /\ \A i \in 1 .. n - k : nxt[i] = new[At(P, v, i - 1)]
  <2>1. Reads(Held(new, M, P, v, w), S, new, P, v, Dist(M, w, v))
    BY HeldIs
  <2> QED
    BY <2>1, <1>2 DEF Reads
<1> HIDE DEF old, nxt
<1> DEFINE sub == SubSeq(old, k + 1, n)
<1>5. /\ sub \in Seq(S) /\ Len(sub) = n - k /\ \A i \in 1 .. n - k : sub[i] = old[k + i]
  <2>1. k + 1 \in Int /\ n \in Int /\ \A i \in k + 1 .. n : old[i] \in S
    BY <1>1, <1>3
  <2>2. /\ sub \in Seq(S) /\ Len(sub) = IF k + 1 <= n THEN n - (k + 1) + 1 ELSE 0
        /\ \A i \in 1 .. n - (k + 1) + 1 : sub[i] = old[(k + 1) + i - 1]
    BY <2>1, SubSeqProperties
  <2>3. n - (k + 1) + 1 = n - k /\ \A i \in 1 .. n - k : (k + 1) + i - 1 = k + i
    BY <1>1
  <2> HIDE DEF sub
  <2>4. Len(sub) = n - k
    BY <1>1, <2>2
  <2>5. \A i \in 1 .. n - k : sub[i] = old[k + i]
    BY <2>2, <2>3
  <2> QED
    BY <2>2, <2>4, <2>5
<1> HIDE DEF sub
<1>6. ASSUME NEW i \in 1 .. n - k PROVE nxt[i] = sub[i]
  <2>1. PICK j \in Int : j = i - 1
    BY <1>1
  <2>2. PICK m \in k .. n - 1 : m = k + j
    BY <1>1, <2>1
  <2>3. At(P, v, j) = At(P, r, m)
    <3>1. r \in Int /\ k \in Int
      BY <1>1
    <3>2. At(P, Moved(M, r, k), j) = At(P, r, k + j)
      BY <3>1, AtMoved
    <3> QED
      BY <1>2, <2>2, <3>2
  <2>4. nxt[i] = new[At(P, r, m)]
    BY <1>4, <2>1, <2>3
  <2>5. k + i \in 1 .. n /\ (k + i) - 1 = m
    BY <1>1, <2>1, <2>2
  <2>6. sub[i] = buf[At(P, r, m)]
    BY <1>3, <1>5, <2>5
  <2> QED
    BY <1>1, <2>4, <2>6 DEF Keeps
<1>7. nxt = sub
  BY <1>4, <1>5, <1>6, SeqEqual
<1> QED
  BY <1>2, <1>3, <1>7 DEF IsTake, old, nxt, sub

\* The last value is taken back.
LEMMA HeldBack ==
  ASSUME NEW S, NEW P, NEW M, Sizes(P, M), NEW buf, Buffer(P, S, buf),
         NEW r \in 0 .. M - 1, NEW w \in 0 .. M - 1, NEW k \in 0 .. Dist(M, w, r)
  PROVE  IsBack(Held(buf, M, P, r, Dist(M, w, k)), Held(buf, M, P, r, w), k)
<1> P \in Nat \ {0} /\ M \in Nat \ {0} /\ M % P = 0 /\ P < M
  BY DEF Sizes
<1> buf \in [0 .. P - 1 -> S]
  BY DEF Buffer
<1>1. PICK n \in 0 .. M - 1 : n = Dist(M, w, r) /\ k \in 0 .. n
  BY Ahead
<1>2. PICK v \in 0 .. M - 1 : v = Dist(M, w, k) /\ Dist(M, v, r) = n - k
  BY <1>1, MoveBack
<1> DEFINE old == Held(buf, M, P, r, w)
           nxt == Held(buf, M, P, r, v)
<1>3. old \in Seq(S) /\ Len(old) = n /\ \A i \in 1 .. n : old[i] = buf[At(P, r, i - 1)]
  <2>1. Reads(Held(buf, M, P, r, w), S, buf, P, r, Dist(M, w, r))
    BY HeldIs
  <2> QED
    BY <2>1, <1>1 DEF Reads
<1>4. nxt \in Seq(S) /\ Len(nxt) = n - k /\ \A i \in 1 .. n - k : nxt[i] = buf[At(P, r, i - 1)]
  <2>1. Reads(Held(buf, M, P, r, v), S, buf, P, r, Dist(M, v, r))
    BY HeldIs
  <2> QED
    BY <2>1, <1>2 DEF Reads
<1> HIDE DEF old, nxt
<1> DEFINE sub == SubSeq(old, 1, n - k)
<1>5. /\ sub \in Seq(S) /\ Len(sub) = n - k /\ \A i \in 1 .. n - k : sub[i] = old[i]
  <2>1. 1 \in Int /\ n - k \in Int /\ \A i \in 1 .. n - k : old[i] \in S
    BY <1>1, <1>3
  <2>2. /\ sub \in Seq(S) /\ Len(sub) = IF 1 <= n - k THEN (n - k) - 1 + 1 ELSE 0
        /\ \A i \in 1 .. (n - k) - 1 + 1 : sub[i] = old[1 + i - 1]
    BY <2>1, SubSeqProperties
  <2>3. (n - k) - 1 + 1 = n - k /\ \A i \in 1 .. n - k : 1 + i - 1 = i
    BY <1>1
  <2> HIDE DEF sub
  <2>4. Len(sub) = n - k
    BY <1>1, <2>2
  <2>5. \A i \in 1 .. n - k : sub[i] = old[i]
    BY <2>2, <2>3
  <2> QED
    BY <2>2, <2>4, <2>5
<1> HIDE DEF sub
<1>6. ASSUME NEW i \in 1 .. n - k PROVE nxt[i] = sub[i]
  <2>1. i \in 1 .. n
    BY <1>1
  <2> QED
    BY <1>3, <1>4, <1>5, <2>1
<1>7. nxt = sub
  BY <1>4, <1>5, <1>6, SeqEqual
<1> QED
  BY <1>2, <1>3, <1>7 DEF IsBack, old, nxt, sub

\* What lies between r and w and then between w and e lies between r and e.
LEMMA HeldJoin ==
  ASSUME NEW S, NEW P, NEW M, Sizes(P, M), NEW buf, Buffer(P, S, buf),
         NEW r \in 0 .. M - 1, NEW w \in 0 .. M - 1, NEW e \in 0 .. M - 1,
         Dist(M, e, r) = Dist(M, w, r) + Dist(M, e, w)
  PROVE  IsJoin(Held(buf, M, P, r, e), Held(buf, M, P, r, w), Held(buf, M, P, w, e))
<1> P \in Nat \ {0} /\ M \in Nat \ {0} /\ M % P = 0 /\ P < M
  BY DEF Sizes
<1> buf \in [0 .. P - 1 -> S]
  BY DEF Buffer
<1>1. PICK n \in 0 .. M - 1 : n = Dist(M, w, r) /\ w = Moved(M, r, n)
  <2>1. Dist(M, w, r) \in 0 .. M - 1 /\ w = Moved(M, r, Dist(M, w, r))
    BY Ahead
  <2> QED
    BY <2>1, Zenon
<1>2. PICK m \in 0 .. M - 1 : m = Dist(M, e, w) /\ Dist(M, e, r) = n + m
  BY <1>1, Ahead
<1> DEFINE fst == Held(buf, M, P, r, w)
           snd == Held(buf, M, P, w, e)
           all == Held(buf, M, P, r, e)
<1>3. fst \in Seq(S) /\ Len(fst) = n /\ \A i \in 1 .. n : fst[i] = buf[At(P, r, i - 1)]
  <2>1. Reads(Held(buf, M, P, r, w), S, buf, P, r, Dist(M, w, r))
    BY HeldIs
  <2> QED
    BY <2>1, <1>1 DEF Reads
<1>4. snd \in Seq(S) /\ Len(snd) = m /\ \A i \in 1 .. m : snd[i] = buf[At(P, w, i - 1)]
  <2>1. Reads(Held(buf, M, P, w, e), S, buf, P, w, Dist(M, e, w))
    BY HeldIs
  <2> QED
    BY <2>1, <1>2 DEF Reads
<1>5. all \in Seq(S) /\ Len(all) = n + m /\ \A i \in 1 .. n + m : all[i] = buf[At(P, r, i - 1)]
  <2>1. Reads(Held(buf, M, P, r, e), S, buf, P, r, Dist(M, e, r))
    BY HeldIs
  <2> QED
    BY <2>1, <1>2 DEF Reads
<1> HIDE DEF fst, snd, all
<1>6. /\ fst \o snd \in Seq(S) /\ Len(fst \o snd) = n + m
      /\ \A i \in 1 .. n + m : (fst \o snd)[i] = IF i <= n THEN fst[i] ELSE snd[i - n]
  <2>1. /\ fst \o snd \in Seq(S) /\ Len(fst \o snd) = Len(fst) + Len(snd)
        /\ \A i \in 1 .. Len(fst) + Len(snd) :
             (fst \o snd)[i] = IF i <= Len(fst) THEN fst[i] ELSE snd[i - Len(fst)]
    <3>1. fst \in Seq(S) /\ snd \in Seq(S)
      BY <1>3, <1>4
    <3>2. PICK f \in Seq(S), g \in Seq(S) : f = fst /\ g = snd
      BY <3>1
    <3>3. /\ f \o g \in Seq(S) /\ Len(f \o g) = Len(f) + Len(g)
          /\ \A i \in 1 .. Len(f) + Len(g) : (f \o g)[i] = IF i <= Len(f) THEN f[i] ELSE g[i - Len(f)]
      BY ConcatProperties
    <3> QED
      BY <3>2, <3>3
  <2> QED
    BY <1>3, <1>4, <2>1
<1>7. ASSUME NEW i \in 1 .. n + m PROVE all[i] = (fst \o snd)[i]
  <2>1. CASE i <= n
    <3>1. i \in 1 .. n
      BY <2>1
    <3>2. (fst \o snd)[i] = fst[i]
      BY <1>6, <2>1
    <3> QED
      BY <1>3, <1>5, <3>1, <3>2
  <2>2. CASE ~(i <= n)
    <3>1. PICK l \in 1 .. m : l = i - n
      BY <2>2
    <3>2. PICK j \in Int : j = l - 1
      OBVIOUS
    <3>3. At(P, w, j) = At(P, r, i - 1)
      <4>1. r \in Int /\ n \in Int
        OBVIOUS
      <4>2. At(P, Moved(M, r, n), j) = At(P, r, n + j)
        BY <4>1, AtMoved
      <4>3. n + j = i - 1
        BY <3>1, <3>2
      <4> QED
        BY <1>1, <4>2, <4>3
    <3>4. (fst \o snd)[i] = buf[At(P, w, j)]
      BY <1>4, <1>6, <2>2, <3>1, <3>2
    <3> QED
      BY <1>5, <3>3, <3>4
  <2> QED
    BY <2>1, <2>2
<1>8. all = fst \o snd
  BY <1>5, <1>6, <1>7, SeqEqual
<1> QED
  BY <1>8 DEF IsJoin, fst, snd, all

LEMMA HeldSame ==
  ASSUME NEW S, NEW P, NEW M, Sizes(P, M), NEW buf, Buffer(P, S, buf), NEW new, Buffer(P, S, new),
         NEW r \in 0 .. M - 1, NEW w \in 0 .. M - 1, Keeps(P, buf, new, r, 0, Dist(M, w, r))
  PROVE  Held(new, M, P, r, w) = Held(buf, M, P, r, w)
<1>1. PICK n \in Nat : n = Dist(M, w, r)
  BY Ahead DEF Sizes
<1>2. Reads(Held(buf, M, P, r, w), S, buf, P, r, n)
  BY <1>1, HeldIs
<1>3. Reads(Held(new, M, P, r, w), S, new, P, r, n)
  BY <1>1, HeldIs
<1>4. PICK old, nxt : old = Held(buf, M, P, r, w) /\ nxt = Held(new, M, P, r, w)
  OBVIOUS
<1>5. old \in Seq(S) /\ nxt \in Seq(S) /\ Len(old) = n /\ Len(nxt) = n
  BY <1>2, <1>3, <1>4 DEF Reads
<1>6. ASSUME NEW k \in 1 .. n PROVE nxt[k] = old[k]
  <2>1. PICK i \in 0 .. n - 1 : i = k - 1
    OBVIOUS
  <2>2. old[k] = buf[At(P, r, i)] /\ nxt[k] = new[At(P, r, i)]
    BY <1>2, <1>3, <1>4, <2>1 DEF Reads
  <2> QED
    BY <1>1, <2>2 DEF Keeps
<1>7. nxt = old
  BY <1>5, <1>6, SeqEqual
<1> QED
  BY <1>4, <1>7

\* The counter k before the end is in the slot that many before it.
LEMMA BackSlot ==
  ASSUME NEW P, NEW M, Sizes(P, M), NEW r \in 0 .. M - 1, NEW w \in 0 .. M - 1,
         NEW k \in 0 .. Dist(M, w, r)
  PROVE  Dist(M, w, k) % P = At(P, r, Dist(M, w, r) - k)
<1> P \in Nat \ {0} /\ M \in Nat \ {0} /\ M % P = 0 /\ P < M
  BY DEF Sizes
<1>1. PICK v \in 0 .. M - 1 : v = Dist(M, w, k) /\ Dist(M, v, r) = Dist(M, w, r) - k
  BY MoveBack
<1>2. PICK m \in 0 .. M - 1 : m = Dist(M, v, r) /\ v = Moved(M, r, m)
  <2>1. Dist(M, v, r) \in 0 .. M - 1
    BY Ahead
  <2>2. v = Moved(M, r, Dist(M, v, r))
    BY Ahead
  <2> QED
    BY <2>1, <2>2, Zenon
<1>3. At(P, v, 0) = At(P, r, m)
  <2>1. r \in Int /\ m \in Int /\ 0 \in Int /\ m + 0 = m
    OBVIOUS
  <2>2. At(P, Moved(M, r, m), 0) = At(P, r, m + 0)
    BY <2>1, AtMoved
  <2> QED
    BY <1>2, <2>1, <2>2
<1>4. At(P, v, 0) = v % P
  <2>1. v + 0 = v
    OBVIOUS
  <2> QED
    BY <2>1 DEF At
<1> QED
  BY <1>1, <1>2, <1>3, <1>4

\* The slot of the end.
LEMMA EndSlot ==
  ASSUME NEW P, NEW M, Sizes(P, M), NEW r \in 0 .. M - 1, NEW w \in 0 .. M - 1
  PROVE  w % P = At(P, r, Dist(M, w, r))
<1> P \in Nat \ {0} /\ M \in Nat \ {0} /\ M % P = 0 /\ P < M
  BY DEF Sizes
<1>1. Dist(M, w, r) \in 0 .. M - 1
  BY Ahead
<1>2. 0 \in 0 .. Dist(M, w, r)
  BY <1>1
<1>3. Dist(M, w, 0) % P = At(P, r, Dist(M, w, r) - 0)
  BY <1>2, BackSlot
<1>4. Dist(M, w, 0) = w
  BY DEF Dist
<1>5. Dist(M, w, r) - 0 = Dist(M, w, r)
  BY <1>1
<1> QED
  BY <1>3, <1>4, <1>5

\* A counter may be tested before it wraps.
LEMMA DistNext ==
  ASSUME NEW M \in Nat \ {0}, NEW r \in 0 .. M - 1, NEW w \in 0 .. M - 1
  PROVE  Dist(M, w + 1, r) = Dist(M, Moved(M, w, 1), r)
<1>1. PICK x \in Int : x = w + 1
  OBVIOUS
<1>2. PICK j \in Int : j = M - r
  OBVIOUS
<1>3. ((x % M) + j) % M = (x + j) % M
  <2>1. M % M = 0
    OBVIOUS
  <2> QED
    BY <2>1, Wrap
<1>4. (x % M) - r + M = (x % M) + j /\ x - r + M = x + j
  BY <1>1, <1>2
<1> QED
  BY <1>1, <1>3, <1>4 DEF Dist, Moved

\* What is held stays when a value is stored at the end.
LEMMA StoreKeeps ==
  ASSUME NEW S, NEW P, NEW M, Sizes(P, M), NEW buf, Buffer(P, S, buf), NEW new, NEW b \in S,
         NEW r \in 0 .. M - 1, NEW w \in 0 .. M - 1, Dist(M, w, r) < P, Stores(P, buf, new, w, b)
  PROVE  Buffer(P, S, new) /\ Keeps(P, buf, new, r, 0, Dist(M, w, r))
<1> P \in Nat \ {0} /\ M \in Nat \ {0} /\ M % P = 0 /\ P < M
  BY DEF Sizes
<1> buf \in [0 .. P - 1 -> S]
  BY DEF Buffer
<1>1. PICK n \in 0 .. P - 1 : n = Dist(M, w, r)
  <2>1. Dist(M, w, r) \in 0 .. M - 1
    BY Ahead
  <2> QED
    BY <2>1
<1>2. w % P = At(P, r, n)
  BY <1>1, EndSlot
<1>3. r \in Int /\ n \in Int
  OBVIOUS
<1>4. At(P, r, n) \in 0 .. P - 1
  BY <1>3, AtIn
<1>5. new = [buf EXCEPT ![At(P, r, n)] = b]
  BY <1>2 DEF Stores
<1>6. ASSUME NEW i \in 0 .. n - 1 PROVE new[At(P, r, i)] = buf[At(P, r, i)]
  <2>1. i \in 0 .. P - 1 /\ i # n /\ i \in Int
    OBVIOUS
  <2>2. At(P, r, i) # At(P, r, n)
    BY <1>3, <2>1, AtApart
  <2>3. At(P, r, i) \in 0 .. P - 1
    BY <1>3, <2>1, AtIn
  <2> QED
    BY <1>5, <2>2, <2>3
<1>7. Buffer(P, S, new)
  BY <1>4, <1>5 DEF Buffer
<1>8. Keeps(P, buf, new, r, 0, n)
  BY <1>6 DEF Keeps
<1> QED
  BY <1>1, <1>7, <1>8

(***************************************************************************)
(* Pipes.                                                                  *)
(***************************************************************************)
Inside == {"loop", "byte", "sleep"}
Steps == {"user", "lock", "asleep", "woken"} \cup Inside

\* Whoever is inside holds pi->lock, and whoever is in a call has its descriptor
\* open, and so its end.
CallersInv == \A u \in PipeUsers :
  /\ step[u] \in Inside => pilock = u
  /\ step[u] # "user" => open[u]
EndsInv ==
  /\ \A w \in Writers : open[w] => writeopen
  /\ \A r \in Readers : open[r] => readopen
  /\ freed <=> ~readopen /\ ~writeopen

\* What a writer has seen stays true until it stores the byte or sleeps; the pipe is
\* full while it sleeps.
WritersInv == \A w \in Writers :
  /\ step[w] # "sleep"
  /\ step[w] = "byte" => readopen /\ todo[w] > 0
  /\ step[w] = "asleep" => Full /\ readopen

\* The pipe is empty while a reader sleeps, unless a writer is at work or was killed.
ReadersInv == \A r \in Readers :
  /\ step[r] # "byte"
  /\ step[r] = "sleep" => Empty /\ writeopen
  /\ step[r] = "asleep" => writeopen /\ (pilock \in Writers \/ Empty \/ hushed)

PipeInv ==
  /\ PipeTypeOK /\ Used <= PIPESIZE
  /\ CallersInv /\ EndsInv /\ WritersInv /\ ReadersInv

LEMMA PipeConstants ==
  /\ CtrMod \in Nat \ {0} /\ PIPESIZE \in Nat \ {0} /\ PIPESIZE \in 0 .. CtrMod - 1
  /\ CtrMod % PIPESIZE = 0 /\ MaxRW \in Nat
  /\ Readers \cap Writers = {} /\ NoUser \notin PipeUsers
BY PipeAssumption

\* Used is how far nwrite is ahead; a pipe is full when that is PIPESIZE.
LEMMA UsedIs ==
  ASSUME nread \in 0 .. CtrMod - 1, nwrite \in 0 .. CtrMod - 1
  PROVE  /\ Used \in 0 .. CtrMod - 1 /\ nwrite = Moved(CtrMod, nread, Used)
         /\ Used = 0 <=> Empty
         /\ Full <=> Used = PIPESIZE
         /\ Used = Dist(CtrMod, nwrite, nread)
<1>1. Used = Dist(CtrMod, nwrite, nread) /\ (Full <=> nwrite = Moved(CtrMod, nread, PIPESIZE))
  BY DEF Used, Full, Dist, Moved
<1>2. /\ Used \in 0 .. CtrMod - 1 /\ nwrite = Moved(CtrMod, nread, Used)
      /\ Used = 0 <=> nwrite = nread
  <2> DEFINE d == Dist(CtrMod, nwrite, nread)
  <2>1. CtrMod \in Nat \ {0}
    BY PipeConstants
  <2>2. d \in 0 .. CtrMod - 1
    BY <2>1, Ahead
  <2>3. nwrite = Moved(CtrMod, nread, d)
    BY <2>1, Ahead
  <2>4. d = 0 <=> nwrite = nread
    BY <2>1, Ahead
  <2> QED
    BY <1>1, <2>2, <2>3, <2>4
<1>3. Full => Used = PIPESIZE
  BY <1>1, PipeConstants, AheadBy
<1> QED
  BY <1>1, <1>2, <1>3 DEF Empty

\* The effect of the two steps that move a counter.
LEMMA ByteStep ==
  ASSUME PipeTypeOK, Used <= PIPESIZE, NEW w \in Writers, WriteByte(w)
  PROVE  nwrite' \in 0 .. CtrMod - 1 /\ Used < PIPESIZE /\ Used' = Used + 1
<1>1. nread \in 0 .. CtrMod - 1 /\ nwrite \in 0 .. CtrMod - 1
  BY DEF PipeTypeOK
<1>2. /\ Used \in 0 .. CtrMod - 1 /\ Used # PIPESIZE
      /\ Used = Dist(CtrMod, nwrite, nread)
  BY <1>1, UsedIs DEF WriteByte
<1>3. Used < PIPESIZE /\ Used + 1 < CtrMod
  BY <1>2, PipeConstants
<1>4. nwrite' = Moved(CtrMod, nwrite, 1) /\ Used' = Dist(CtrMod, nwrite', nread)
  BY DEF WriteByte, Used, Moved, Dist
<1> QED
  BY <1>1, <1>2, <1>3, <1>4, PipeConstants, MoveEnd

LEMMA CopyStep ==
  ASSUME PipeTypeOK, NEW r \in Readers, NEW k \in 0 .. PIPESIZE, ReadCopy(r, k)
  PROVE  nread' \in 0 .. CtrMod - 1 /\ k <= Used /\ Used' = Used - k
<1>1. nread \in 0 .. CtrMod - 1 /\ nwrite \in 0 .. CtrMod - 1
  BY DEF PipeTypeOK
<1>2. Used \in 0 .. CtrMod - 1 /\ Used = Dist(CtrMod, nwrite, nread) /\ k <= Used
  BY <1>1, UsedIs DEF ReadCopy
<1>3. k \in 0 .. Dist(CtrMod, nwrite, nread)
  BY <1>2, PipeConstants
<1>4. nread' = Moved(CtrMod, nread, k) /\ Used' = Dist(CtrMod, nwrite, nread')
  BY DEF ReadCopy, Used, Moved, Dist
<1> QED
  BY <1>1, <1>2, <1>3, <1>4, PipeConstants, MoveStart

LEMMA PipeTypeStep ==
  ASSUME PipeInv, PipeNext
  PROVE  PipeTypeOK'
<1>0. /\ nread \in 0 .. CtrMod - 1 /\ nwrite \in 0 .. CtrMod - 1
      /\ data \in [0 .. PIPESIZE - 1 -> Bytes]
      /\ pilock \in PipeUsers \cup {NoUser} /\ step \in [PipeUsers -> Steps]
      /\ todo \in [PipeUsers -> 0 .. MaxRW]
      /\ {readopen, writeopen, freed, hushed} \subseteq BOOLEAN
      /\ killed \in [PipeUsers -> BOOLEAN] /\ open \in [PipeUsers -> BOOLEAN]
  BY DEF PipeInv, PipeTypeOK, Steps, Inside
<1>1. ASSUME NEW u \in PipeUsers, NEW n \in 0 .. MaxRW, PipeCall(u, n) PROVE PipeTypeOK'
  BY <1>0, <1>1 DEF PipeCall, PipeTypeOK, ringVars, endVars, Steps, Inside, PipeUsers, Bytes, PipeWake
<1>2. ASSUME NEW u \in PipeUsers, PipeLock(u) PROVE PipeTypeOK'
  BY <1>0, <1>2 DEF PipeLock, PipeTypeOK, ringVars, endVars, Steps, Inside, PipeUsers, Bytes, PipeWake
<1>3. ASSUME NEW u \in PipeUsers, PipeClose(u) PROVE PipeTypeOK'
  BY <1>0, <1>3 DEF PipeClose, LastOf, PipeTypeOK, ringVars, endVars, Steps, Inside, PipeUsers, Bytes, PipeWake
<1>4. ASSUME NEW u \in PipeUsers, KillUser(u) PROVE PipeTypeOK'
  BY <1>0, <1>4 DEF KillUser, PipeTypeOK, ringVars, endVars, Steps, Inside, PipeUsers, Bytes, PipeWake
<1>5. ASSUME NEW u \in PipeUsers, RouseUser(u) PROVE PipeTypeOK'
  BY <1>0, <1>5 DEF RouseUser, PipeTypeOK, ringVars, endVars, Steps, Inside, PipeUsers, Bytes, PipeWake
<1>6. ASSUME NEW w \in Writers, WriteQuit(w) PROVE PipeTypeOK'
  <2>1. step' \in [PipeUsers -> Steps] /\ pilock' = NoUser
    BY <1>0, <1>6 DEF WriteQuit, PipeLeave, Steps, Inside, PipeUsers
  <2>2. todo' \in [PipeUsers -> 0 .. MaxRW]
    BY <1>0, <1>6, PipeConstants DEF WriteQuit, PipeUsers
  <2>3. hushed' \in BOOLEAN
    BY <1>6 DEF WriteQuit
  <2> QED
    BY <1>0, <1>6, <2>1, <2>2, <2>3 DEF WriteQuit, PipeTypeOK, ringVars, endVars, Steps, Inside
<1>7. ASSUME NEW w \in Writers, WriteGo(w) PROVE PipeTypeOK'
  BY <1>0, <1>7 DEF WriteGo, PipeTypeOK, ringVars, endVars, Steps, Inside, PipeUsers, Bytes, PipeWake
<1>8. ASSUME NEW w \in Writers, WriteFull(w) PROVE PipeTypeOK'
  BY <1>0, <1>8 DEF WriteFull, FullWakes, PipeTypeOK, ringVars, endVars, Steps, Inside, PipeUsers, Bytes, PipeWake
<1>9. ASSUME NEW w \in Writers, WriteByte(w) PROVE PipeTypeOK'
  <2>1. nwrite' \in 0 .. CtrMod - 1
    BY <1>9, ByteStep DEF PipeInv
  <2>2. todo[w] - 1 \in 0 .. MaxRW /\ todo[w] \in Bytes
    BY <1>0, <1>9, PipeConstants DEF WriteByte, PipeInv, WritersInv, PipeUsers, Bytes
  <2>3. todo' \in [PipeUsers -> 0 .. MaxRW]
    BY <1>0, <1>9, <2>2 DEF WriteByte, PipeUsers
  <2>4. data' \in [0 .. PIPESIZE - 1 -> Bytes]
    BY <1>0, <1>9, <2>2 DEF WriteByte
  <2> QED
    BY <1>0, <1>9, <2>1, <2>3, <2>4 DEF WriteByte, PipeTypeOK, endVars, Steps, Inside
<1>10. ASSUME NEW w \in Writers, WriteDone(w) PROVE PipeTypeOK'
  <2>1. step' \in [PipeUsers -> Steps] /\ pilock' = NoUser
    BY <1>0, <1>10 DEF WriteDone, PipeLeave, PipeWake, Steps, Inside, PipeUsers
  <2>2. todo' \in [PipeUsers -> 0 .. MaxRW]
    BY <1>0, <1>10, PipeConstants DEF WriteDone, PipeUsers
  <2> QED
    BY <1>0, <1>10, <2>1, <2>2 DEF WriteDone, PipeTypeOK, ringVars, endVars, Steps, Inside
<1>11. ASSUME NEW r \in Readers, ReadWait(r) PROVE PipeTypeOK'
  <2>1. step' \in [PipeUsers -> Steps] /\ pilock' \in PipeUsers \cup {NoUser}
    BY <1>0, <1>11 DEF ReadWait, PipeLeave, Steps, Inside, PipeUsers
  <2>2. todo' \in [PipeUsers -> 0 .. MaxRW]
    BY <1>0, <1>11, PipeConstants DEF ReadWait, PipeUsers
  <2> QED
    BY <1>0, <1>11, <2>1, <2>2 DEF ReadWait, PipeTypeOK, ringVars, endVars, Steps, Inside
<1>12. ASSUME NEW r \in Readers, ReadSleep(r) PROVE PipeTypeOK'
  BY <1>0, <1>12 DEF ReadSleep, PipeTypeOK, ringVars, endVars, Steps, Inside, PipeUsers, Bytes, PipeWake
<1>13. ASSUME NEW r \in Readers, NEW k \in 0 .. PIPESIZE, ReadCopy(r, k) PROVE PipeTypeOK'
  <2>1. nread' \in 0 .. CtrMod - 1
    BY <1>13, CopyStep DEF PipeInv
  <2>2. step' \in [PipeUsers -> Steps] /\ pilock' = NoUser
    BY <1>0, <1>13 DEF ReadCopy, PipeLeave, TakeWakes, PipeWake, Steps, Inside, PipeUsers
  <2>3. todo' \in [PipeUsers -> 0 .. MaxRW]
    BY <1>0, <1>13, PipeConstants DEF ReadCopy, PipeUsers
  <2>4. data' \in [0 .. PIPESIZE - 1 -> Bytes]
    BY <1>0, <1>13, PipeConstants DEF ReadCopy, Bytes
  <2> QED
    BY <1>0, <1>13, <2>1, <2>2, <2>3, <2>4 DEF ReadCopy, PipeTypeOK, endVars, Steps, Inside
<1> QED
  BY <1>1, <1>2, <1>3, <1>4, <1>5, <1>6, <1>7, <1>8, <1>9, <1>10, <1>11, <1>12, <1>13 DEF PipeNext
LEMMA CallersStep ==
  ASSUME PipeInv, PipeNext
  PROVE  CallersInv'
<1>0. /\ pilock \in PipeUsers \cup {NoUser} /\ step \in [PipeUsers -> Steps]
      /\ todo \in [PipeUsers -> 0 .. MaxRW]
      /\ readopen \in BOOLEAN /\ writeopen \in BOOLEAN /\ open \in [PipeUsers -> BOOLEAN]
      /\ CallersInv /\ EndsInv /\ WritersInv /\ ReadersInv
      /\ Readers \cap Writers = {} /\ NoUser \notin PipeUsers
  BY PipeConstants DEF PipeInv, PipeTypeOK, Steps, Inside
<1>1. ASSUME NEW u \in PipeUsers, NEW n \in 0 .. MaxRW, PipeCall(u, n) PROVE CallersInv'
  BY <1>0, <1>1 DEF PipeCall, CallersInv, PipeWake, endVars, PipeUsers, Inside
<1>2. ASSUME NEW u \in PipeUsers, PipeLock(u) PROVE CallersInv'
  BY <1>0, <1>2 DEF PipeLock, CallersInv, PipeWake, endVars, PipeUsers, Inside
<1>3. ASSUME NEW u \in PipeUsers, PipeClose(u) PROVE CallersInv'
  BY <1>0, <1>3 DEF PipeClose, LastOf, CallersInv, PipeWake, endVars, PipeUsers, Inside
<1>4. ASSUME NEW u \in PipeUsers, KillUser(u) PROVE CallersInv'
  BY <1>0, <1>4 DEF KillUser, CallersInv, PipeWake, endVars, PipeUsers, Inside
<1>5. ASSUME NEW u \in PipeUsers, RouseUser(u) PROVE CallersInv'
  BY <1>0, <1>5 DEF RouseUser, CallersInv, PipeWake, endVars, PipeUsers, Inside
<1>6. ASSUME NEW w \in Writers, WriteQuit(w) PROVE CallersInv'
  BY <1>0, <1>6 DEF WriteQuit, PipeLeave, CallersInv, PipeWake, endVars, PipeUsers, Inside
<1>7. ASSUME NEW w \in Writers, WriteGo(w) PROVE CallersInv'
  BY <1>0, <1>7 DEF WriteGo, CallersInv, PipeWake, endVars, PipeUsers, Inside
<1>8. ASSUME NEW w \in Writers, WriteFull(w) PROVE CallersInv'
  BY <1>0, <1>8 DEF WriteFull, FullWakes, CallersInv, PipeWake, endVars, PipeUsers, Inside
<1>9. ASSUME NEW w \in Writers, WriteByte(w) PROVE CallersInv'
  BY <1>0, <1>9 DEF WriteByte, CallersInv, PipeWake, endVars, PipeUsers, Inside
<1>10. ASSUME NEW w \in Writers, WriteDone(w) PROVE CallersInv'
  BY <1>0, <1>10 DEF WriteDone, PipeLeave, CallersInv, PipeWake, endVars, PipeUsers, Inside
<1>11. ASSUME NEW r \in Readers, ReadWait(r) PROVE CallersInv'
  BY <1>0, <1>11 DEF ReadWait, PipeLeave, CallersInv, PipeWake, endVars, PipeUsers, Inside
<1>12. ASSUME NEW r \in Readers, ReadSleep(r) PROVE CallersInv'
  BY <1>0, <1>12 DEF ReadSleep, CallersInv, PipeWake, endVars, PipeUsers, Inside
<1>13. ASSUME NEW r \in Readers, NEW k \in 0 .. PIPESIZE, ReadCopy(r, k) PROVE CallersInv'
  BY <1>0, <1>13 DEF ReadCopy, PipeLeave, TakeWakes, CallersInv, PipeWake, endVars, PipeUsers, Inside
<1> QED
  BY <1>1, <1>2, <1>3, <1>4, <1>5, <1>6, <1>7, <1>8, <1>9, <1>10, <1>11, <1>12, <1>13 DEF PipeNext

LEMMA EndsStep ==
  ASSUME PipeInv, PipeNext
  PROVE  EndsInv'
<1>0. /\ pilock \in PipeUsers \cup {NoUser} /\ step \in [PipeUsers -> Steps]
      /\ todo \in [PipeUsers -> 0 .. MaxRW]
      /\ readopen \in BOOLEAN /\ writeopen \in BOOLEAN /\ open \in [PipeUsers -> BOOLEAN]
      /\ CallersInv /\ EndsInv /\ WritersInv /\ ReadersInv
      /\ Readers \cap Writers = {} /\ NoUser \notin PipeUsers
  BY PipeConstants DEF PipeInv, PipeTypeOK, Steps, Inside
<1>1. ASSUME NEW u \in PipeUsers, NEW n \in 0 .. MaxRW, PipeCall(u, n) PROVE EndsInv'
  BY <1>0, <1>1 DEF PipeCall, EndsInv, endVars, PipeUsers
<1>2. ASSUME NEW u \in PipeUsers, PipeLock(u) PROVE EndsInv'
  BY <1>0, <1>2 DEF PipeLock, EndsInv, endVars, PipeUsers
<1>3. ASSUME NEW u \in PipeUsers, PipeClose(u) PROVE EndsInv'
  BY <1>0, <1>3 DEF PipeClose, LastOf, EndsInv, endVars, PipeUsers
<1>4. ASSUME NEW u \in PipeUsers, KillUser(u) PROVE EndsInv'
  BY <1>0, <1>4 DEF KillUser, EndsInv, endVars, PipeUsers
<1>5. ASSUME NEW u \in PipeUsers, RouseUser(u) PROVE EndsInv'
  BY <1>0, <1>5 DEF RouseUser, EndsInv, endVars, PipeUsers
<1>6. ASSUME NEW w \in Writers, WriteQuit(w) PROVE EndsInv'
  BY <1>0, <1>6 DEF WriteQuit, PipeLeave, EndsInv, endVars, PipeUsers
<1>7. ASSUME NEW w \in Writers, WriteGo(w) PROVE EndsInv'
  BY <1>0, <1>7 DEF WriteGo, EndsInv, endVars, PipeUsers
<1>8. ASSUME NEW w \in Writers, WriteFull(w) PROVE EndsInv'
  BY <1>0, <1>8 DEF WriteFull, FullWakes, EndsInv, endVars, PipeUsers
<1>9. ASSUME NEW w \in Writers, WriteByte(w) PROVE EndsInv'
  BY <1>0, <1>9 DEF WriteByte, EndsInv, endVars, PipeUsers
<1>10. ASSUME NEW w \in Writers, WriteDone(w) PROVE EndsInv'
  BY <1>0, <1>10 DEF WriteDone, PipeLeave, EndsInv, endVars, PipeUsers
<1>11. ASSUME NEW r \in Readers, ReadWait(r) PROVE EndsInv'
  BY <1>0, <1>11 DEF ReadWait, PipeLeave, EndsInv, endVars, PipeUsers
<1>12. ASSUME NEW r \in Readers, ReadSleep(r) PROVE EndsInv'
  BY <1>0, <1>12 DEF ReadSleep, EndsInv, endVars, PipeUsers
<1>13. ASSUME NEW r \in Readers, NEW k \in 0 .. PIPESIZE, ReadCopy(r, k) PROVE EndsInv'
  BY <1>0, <1>13 DEF ReadCopy, PipeLeave, TakeWakes, EndsInv, endVars, PipeUsers
<1> QED
  BY <1>1, <1>2, <1>3, <1>4, <1>5, <1>6, <1>7, <1>8, <1>9, <1>10, <1>11, <1>12, <1>13 DEF PipeNext

LEMMA WritersStep ==
  ASSUME PipeInv, PipeNext
  PROVE  WritersInv'
<1>0. /\ pilock \in PipeUsers \cup {NoUser} /\ step \in [PipeUsers -> Steps]
      /\ todo \in [PipeUsers -> 0 .. MaxRW]
      /\ readopen \in BOOLEAN /\ writeopen \in BOOLEAN /\ open \in [PipeUsers -> BOOLEAN]
      /\ CallersInv /\ EndsInv /\ WritersInv /\ ReadersInv
      /\ Readers \cap Writers = {} /\ NoUser \notin PipeUsers
  BY PipeConstants DEF PipeInv, PipeTypeOK, Steps, Inside
<1>1. ASSUME NEW u \in PipeUsers, NEW n \in 0 .. MaxRW, PipeCall(u, n) PROVE WritersInv'
  BY <1>0, <1>1 DEF PipeCall, WritersInv, CallersInv, EndsInv, PipeWake, ringVars, endVars, PipeUsers, Inside, Full
<1>2. ASSUME NEW u \in PipeUsers, PipeLock(u) PROVE WritersInv'
  BY <1>0, <1>2 DEF PipeLock, WritersInv, CallersInv, EndsInv, PipeWake, ringVars, endVars, PipeUsers, Inside, Full
<1>3. ASSUME NEW u \in PipeUsers, PipeClose(u) PROVE WritersInv'
  BY <1>0, <1>3 DEF PipeClose, LastOf, WritersInv, CallersInv, EndsInv, PipeWake, ringVars, endVars, PipeUsers, Inside, Full
<1>4. ASSUME NEW u \in PipeUsers, KillUser(u) PROVE WritersInv'
  BY <1>0, <1>4 DEF KillUser, WritersInv, CallersInv, EndsInv, PipeWake, ringVars, endVars, PipeUsers, Inside, Full
<1>5. ASSUME NEW u \in PipeUsers, RouseUser(u) PROVE WritersInv'
  BY <1>0, <1>5 DEF RouseUser, WritersInv, CallersInv, EndsInv, PipeWake, ringVars, endVars, PipeUsers, Inside, Full
<1>6. ASSUME NEW w \in Writers, WriteQuit(w) PROVE WritersInv'
  BY <1>0, <1>6 DEF WriteQuit, PipeLeave, WritersInv, CallersInv, EndsInv, PipeWake, ringVars, endVars, PipeUsers, Inside, Full
<1>7. ASSUME NEW w \in Writers, WriteGo(w) PROVE WritersInv'
  BY <1>0, <1>7 DEF WriteGo, WritersInv, CallersInv, EndsInv, PipeWake, ringVars, endVars, PipeUsers, Inside, Full
<1>8. ASSUME NEW w \in Writers, WriteFull(w) PROVE WritersInv'
  BY <1>0, <1>8 DEF WriteFull, FullWakes, WritersInv, CallersInv, EndsInv, PipeWake, ringVars, endVars, PipeUsers, Inside, Full
<1>9. ASSUME NEW w \in Writers, WriteByte(w) PROVE WritersInv'
  BY <1>0, <1>9 DEF WriteByte, WritersInv, CallersInv, EndsInv, PipeWake, ringVars, endVars, PipeUsers, Inside, Full
<1>10. ASSUME NEW w \in Writers, WriteDone(w) PROVE WritersInv'
  BY <1>0, <1>10 DEF WriteDone, PipeLeave, WritersInv, CallersInv, EndsInv, PipeWake, ringVars, endVars, PipeUsers, Inside, Full
<1>11. ASSUME NEW r \in Readers, ReadWait(r) PROVE WritersInv'
  BY <1>0, <1>11 DEF ReadWait, PipeLeave, WritersInv, CallersInv, EndsInv, PipeWake, ringVars, endVars, PipeUsers, Inside, Full
<1>12. ASSUME NEW r \in Readers, ReadSleep(r) PROVE WritersInv'
  BY <1>0, <1>12 DEF ReadSleep, WritersInv, CallersInv, EndsInv, PipeWake, ringVars, endVars, PipeUsers, Inside, Full
<1>13. ASSUME NEW r \in Readers, NEW k \in 0 .. PIPESIZE, ReadCopy(r, k) PROVE WritersInv'
  BY <1>0, <1>13 DEF ReadCopy, PipeLeave, TakeWakes, WritersInv, CallersInv, EndsInv, PipeWake, ringVars, endVars, PipeUsers, Inside, Full
<1> QED
  BY <1>1, <1>2, <1>3, <1>4, <1>5, <1>6, <1>7, <1>8, <1>9, <1>10, <1>11, <1>12, <1>13 DEF PipeNext

LEMMA ReadersStep ==
  ASSUME PipeInv, PipeNext
  PROVE  ReadersInv'
<1>0. /\ pilock \in PipeUsers \cup {NoUser} /\ step \in [PipeUsers -> Steps]
      /\ todo \in [PipeUsers -> 0 .. MaxRW]
      /\ readopen \in BOOLEAN /\ writeopen \in BOOLEAN /\ open \in [PipeUsers -> BOOLEAN]
      /\ CallersInv /\ EndsInv /\ WritersInv /\ ReadersInv
      /\ Readers \cap Writers = {} /\ NoUser \notin PipeUsers
  BY PipeConstants DEF PipeInv, PipeTypeOK, Steps, Inside
<1>1. ASSUME NEW u \in PipeUsers, NEW n \in 0 .. MaxRW, PipeCall(u, n) PROVE ReadersInv'
  BY <1>0, <1>1 DEF PipeCall, ReadersInv, CallersInv, EndsInv, PipeWake, ringVars, endVars, PipeUsers, Inside, Empty
<1>2. ASSUME NEW u \in PipeUsers, PipeLock(u) PROVE ReadersInv'
  BY <1>0, <1>2 DEF PipeLock, ReadersInv, CallersInv, EndsInv, PipeWake, ringVars, endVars, PipeUsers, Inside, Empty
<1>3. ASSUME NEW u \in PipeUsers, PipeClose(u) PROVE ReadersInv'
  BY <1>0, <1>3 DEF PipeClose, LastOf, ReadersInv, CallersInv, EndsInv, PipeWake, ringVars, endVars, PipeUsers, Inside, Empty
<1>4. ASSUME NEW u \in PipeUsers, KillUser(u) PROVE ReadersInv'
  BY <1>0, <1>4 DEF KillUser, ReadersInv, CallersInv, EndsInv, PipeWake, ringVars, endVars, PipeUsers, Inside, Empty
<1>5. ASSUME NEW u \in PipeUsers, RouseUser(u) PROVE ReadersInv'
  BY <1>0, <1>5 DEF RouseUser, ReadersInv, CallersInv, EndsInv, PipeWake, ringVars, endVars, PipeUsers, Inside, Empty
<1>6. ASSUME NEW w \in Writers, WriteQuit(w) PROVE ReadersInv'
  BY <1>0, <1>6 DEF WriteQuit, PipeLeave, ReadersInv, CallersInv, EndsInv, PipeWake, ringVars, endVars, PipeUsers, Inside, Empty
<1>7. ASSUME NEW w \in Writers, WriteGo(w) PROVE ReadersInv'
  BY <1>0, <1>7 DEF WriteGo, ReadersInv, CallersInv, EndsInv, PipeWake, ringVars, endVars, PipeUsers, Inside, Empty
<1>8. ASSUME NEW w \in Writers, WriteFull(w) PROVE ReadersInv'
  BY <1>0, <1>8 DEF WriteFull, FullWakes, ReadersInv, CallersInv, EndsInv, PipeWake, ringVars, endVars, PipeUsers, Inside, Empty
<1>9. ASSUME NEW w \in Writers, WriteByte(w) PROVE ReadersInv'
  BY <1>0, <1>9 DEF WriteByte, ReadersInv, CallersInv, EndsInv, PipeWake, ringVars, endVars, PipeUsers, Inside, Empty
<1>10. ASSUME NEW w \in Writers, WriteDone(w) PROVE ReadersInv'
  BY <1>0, <1>10 DEF WriteDone, PipeLeave, ReadersInv, CallersInv, EndsInv, PipeWake, ringVars, endVars, PipeUsers, Inside, Empty
<1>11. ASSUME NEW r \in Readers, ReadWait(r) PROVE ReadersInv'
  BY <1>0, <1>11 DEF ReadWait, PipeLeave, ReadersInv, CallersInv, EndsInv, PipeWake, ringVars, endVars, PipeUsers, Inside, Empty
<1>12. ASSUME NEW r \in Readers, ReadSleep(r) PROVE ReadersInv'
  BY <1>0, <1>12 DEF ReadSleep, ReadersInv, CallersInv, EndsInv, PipeWake, ringVars, endVars, PipeUsers, Inside, Empty
<1>13. ASSUME NEW r \in Readers, NEW k \in 0 .. PIPESIZE, ReadCopy(r, k) PROVE ReadersInv'
  BY <1>0, <1>13 DEF ReadCopy, PipeLeave, TakeWakes, ReadersInv, CallersInv, EndsInv, PipeWake, ringVars, endVars, PipeUsers, Inside, Empty
<1> QED
  BY <1>1, <1>2, <1>3, <1>4, <1>5, <1>6, <1>7, <1>8, <1>9, <1>10, <1>11, <1>12, <1>13 DEF PipeNext

LEMMA PipeInvInit == PipeInit => PipeInv
<1> SUFFICES ASSUME PipeInit PROVE PipeInv
  OBVIOUS
<1>1. PipeTypeOK
  <2>1. 0 \in 0 .. CtrMod - 1 /\ 0 \in 0 .. MaxRW
    BY PipeConstants
  <2>2. data \in [0 .. PIPESIZE - 1 -> Bytes] /\ todo \in [PipeUsers -> 0 .. MaxRW]
    BY <2>1 DEF PipeInit, Bytes
  <2> QED
    BY <2>1, <2>2 DEF PipeInit, PipeTypeOK
<1>2. Used = 0
  BY <1>1, UsedIs DEF PipeInit, PipeTypeOK, Empty
<1> QED
  BY <1>1, <1>2, PipeConstants
     DEF PipeInit, PipeInv, CallersInv, EndsInv, WritersInv, ReadersInv, Inside, PipeUsers

\* What the other steps leave alone.
LEMMA RingStays ==
  ASSUME PipeNext, ~\E w \in Writers : WriteByte(w),
         ~\E r \in Readers : \E k \in 0 .. PIPESIZE : ReadCopy(r, k)
  PROVE  UNCHANGED ringVars
BY DEF PipeNext, PipeCall, PipeLock, PipeClose, KillUser, RouseUser, WriteQuit, WriteGo, WriteFull,
       WriteDone, ReadWait, ReadSleep, ringVars

LEMMA PipeInvStep == PipeInv /\ [PipeNext]_pipeVars => PipeInv'
<1> SUFFICES ASSUME PipeInv, [PipeNext]_pipeVars PROVE PipeInv'
  OBVIOUS
<1>1. CASE UNCHANGED pipeVars
  BY <1>1 DEF pipeVars, PipeInv, PipeTypeOK, Used, CallersInv, EndsInv, WritersInv, ReadersInv,
              Full, Empty
<1>2. CASE PipeNext
  <2>1. PipeTypeOK' /\ CallersInv' /\ EndsInv' /\ WritersInv' /\ ReadersInv'
    BY <1>2, PipeTypeStep, CallersStep, EndsStep, WritersStep, ReadersStep
  <2>2. (Used <= PIPESIZE)'
    <3>1. CASE \E w \in Writers : WriteByte(w)
      <4>1. nread \in 0 .. CtrMod - 1 /\ nwrite \in 0 .. CtrMod - 1 /\ Used <= PIPESIZE
        BY DEF PipeInv, PipeTypeOK
      <4>2. Used \in 0 .. CtrMod - 1 /\ Used < PIPESIZE /\ Used' = Used + 1
        BY <3>1, <4>1, UsedIs, ByteStep DEF PipeInv
      <4> QED
        BY <4>2, PipeConstants
    <3>2. CASE \E r \in Readers : \E k \in 0 .. PIPESIZE : ReadCopy(r, k)
      <4>1. nread \in 0 .. CtrMod - 1 /\ nwrite \in 0 .. CtrMod - 1 /\ Used <= PIPESIZE
        BY DEF PipeInv, PipeTypeOK
      <4>2. PICK k \in 0 .. PIPESIZE : Used \in 0 .. CtrMod - 1 /\ Used' = Used - k
        BY <3>2, <4>1, UsedIs, CopyStep DEF PipeInv
      <4> QED
        BY <4>1, <4>2, PipeConstants
    <3>3. CASE UNCHANGED ringVars
      BY <3>3 DEF ringVars, Used, PipeInv
    <3> QED
      BY <1>2, <3>1, <3>2, <3>3, RingStays
  <2> QED
    BY <2>1, <2>2 DEF PipeInv
<1> QED
  BY <1>1, <1>2

LEMMA PipeInvariant == PipeSpec => []PipeInv
BY PipeInvInit, PipeInvStep, PTL DEF PipeSpec

(***************************************************************************)
(* Nobody sleeps on a pipe beside what it waits for (piperead(),           *)
(* pipewrite(), pipeclose()), and pipeclose() frees the pipe under nobody. *)
(* The one exception is a reader beside bytes that a writer left without a *)
(* wakeup when it was killed (pipewrite()'s early return); the bytes of a  *)
(* writer whose copyin() fails are announced.                              *)
(***************************************************************************)
THEOREM PipeWakes == PipeSpec => []PipeWakeups
<1>1. PipeInv => PipeWakeups
  <2> SUFFICES ASSUME PipeInv PROVE PipeWakeups
    OBVIOUS
  <2>1. ASSUME pilock = NoUser, NEW u \in PipeUsers, step[u] = "asleep"
        PROVE  IF u \in Writers THEN Full /\ readopen ELSE writeopen /\ (Empty \/ hushed)
    BY <2>1, PipeConstants DEF PipeInv, WritersInv, ReadersInv, PipeUsers
  <2>2. freed => \A u \in PipeUsers : step[u] = "user"
    BY DEF PipeInv, CallersInv, EndsInv, PipeUsers
  <2> QED
    BY <2>1, <2>2 DEF PipeInv, PipeWakeups
<1> QED
  BY <1>1, PipeInvariant, PTL

LEMMA PipeSizes == Sizes(PIPESIZE, CtrMod)
BY PipeConstants DEF Sizes

\* The bytes of the pipe are those its ring holds.
LEMMA ContentsIs ==
  PipeInv => /\ Contents = Held(data, CtrMod, PIPESIZE, nread, nwrite)
             /\ nread \in 0 .. CtrMod - 1 /\ nwrite \in 0 .. CtrMod - 1
             /\ Buffer(PIPESIZE, Bytes, data)
             /\ Used = Dist(CtrMod, nwrite, nread) /\ Len(Contents) = Used
             /\ Used \in 0 .. PIPESIZE
<1> SUFFICES ASSUME PipeInv
             PROVE  /\ Contents = Held(data, CtrMod, PIPESIZE, nread, nwrite)
                    /\ nread \in 0 .. CtrMod - 1 /\ nwrite \in 0 .. CtrMod - 1
                    /\ Buffer(PIPESIZE, Bytes, data)
                    /\ Used = Dist(CtrMod, nwrite, nread) /\ Len(Contents) = Used
                    /\ Used \in 0 .. PIPESIZE
  OBVIOUS
<1>1. nread \in 0 .. CtrMod - 1 /\ nwrite \in 0 .. CtrMod - 1 /\ Buffer(PIPESIZE, Bytes, data)
  BY DEF PipeInv, PipeTypeOK, Buffer
<1>2. Used \in 0 .. CtrMod - 1 /\ Used = Dist(CtrMod, nwrite, nread)
  BY <1>1, UsedIs
<1>3. Contents = Held(data, CtrMod, PIPESIZE, nread, nwrite)
  BY <1>2, Zenon DEF Contents, Held
<1>4. Len(Contents) = Used
  <2>1. Reads(Held(data, CtrMod, PIPESIZE, nread, nwrite), Bytes, data, PIPESIZE, nread,
              Dist(CtrMod, nwrite, nread))
    BY <1>1, PipeSizes, HeldIs
  <2> QED
    BY <1>2, <1>3, <2>1 DEF Reads
<1>5. Used \in 0 .. PIPESIZE
  BY <1>2, PipeConstants DEF PipeInv
<1> QED
  BY <1>1, <1>2, <1>3, <1>4, <1>5

LEMMA ContentsIsNext ==
  PipeInv' => (/\ Contents = Held(data, CtrMod, PIPESIZE, nread, nwrite)
               /\ nread \in 0 .. CtrMod - 1 /\ nwrite \in 0 .. CtrMod - 1
               /\ Buffer(PIPESIZE, Bytes, data)
               /\ Used = Dist(CtrMod, nwrite, nread) /\ Len(Contents) = Used
               /\ Used \in 0 .. PIPESIZE)'
BY ContentsIs, PTL

LEMMA ContentsStay ==
  ASSUME UNCHANGED ringVars
  PROVE  UNCHANGED Contents
BY DEF ringVars, Contents, Used

\* A byte goes in at the end ...
LEMMA WritePuts ==
  ASSUME PipeInv, PipeInv', NEW w \in Writers, WriteByte(w)
  PROVE  \E b \in Bytes : Fifo!Put(b)
<1>1. /\ Contents = Held(data, CtrMod, PIPESIZE, nread, nwrite)
      /\ nread \in 0 .. CtrMod - 1 /\ nwrite \in 0 .. CtrMod - 1
      /\ Buffer(PIPESIZE, Bytes, data)
      /\ Used = Dist(CtrMod, nwrite, nread) /\ Len(Contents) = Used
  BY ContentsIs
<1>2. /\ Contents' = Held(data', CtrMod, PIPESIZE, nread, nwrite')
  <2>1. PipeInv' => Contents' = Held(data', CtrMod, PIPESIZE, nread', nwrite')
    BY ContentsIsNext
  <2> QED
    BY <2>1 DEF WriteByte
<1>3. Used < PIPESIZE /\ todo[w] \in Bytes
  BY ByteStep DEF PipeInv, PipeTypeOK, PipeUsers, Bytes
<1>4. data' = [data EXCEPT ![nwrite % PIPESIZE] = todo[w]] /\ nwrite' = Moved(CtrMod, nwrite, 1)
  BY DEF WriteByte, Moved
<1>5. Contents' = Append(Contents, todo[w])
  <2>1. Dist(CtrMod, nwrite, nread) < PIPESIZE
    BY <1>1, <1>3
  <2>2. IsPut(Held(data', CtrMod, PIPESIZE, nread, Moved(CtrMod, nwrite, 1)),
              Held(data, CtrMod, PIPESIZE, nread, nwrite), todo[w])
    <3>1. /\ nread \in 0 .. CtrMod - 1 /\ nwrite \in 0 .. CtrMod - 1 /\ todo[w] \in Bytes
          /\ Buffer(PIPESIZE, Bytes, data) /\ Stores(PIPESIZE, data, data', nwrite, todo[w])
      BY <1>1, <1>3, <1>4 DEF Stores
    <3> QED
      BY <2>1, <3>1, PipeSizes, HeldPut
  <2> QED
    BY <1>1, <1>2, <1>4, <2>2 DEF IsPut
<1>6. readopen /\ writeopen /\ readopen' = readopen /\ writeopen' = writeopen
  BY DEF WriteByte, PipeInv, WritersInv, CallersInv, EndsInv, Inside, PipeUsers, endVars
<1>7. Fifo!Put(todo[w])
  BY <1>1, <1>3, <1>5, <1>6 DEF Fifo!Put
<1> QED
  BY <1>3, <1>7

\* ... and bytes come out at the front; the slots that are cleared are those they leave.
LEMMA CopyTakes ==
  ASSUME PipeInv, PipeInv', NEW r \in Readers, NEW k \in 0 .. PIPESIZE, ReadCopy(r, k)
  PROVE  (\E n \in 1 .. PIPESIZE : Fifo!Take(n)) \/ UNCHANGED <<Contents, readopen, writeopen>>
<1>1. /\ Contents = Held(data, CtrMod, PIPESIZE, nread, nwrite)
      /\ nread \in 0 .. CtrMod - 1 /\ nwrite \in 0 .. CtrMod - 1
      /\ Buffer(PIPESIZE, Bytes, data)
      /\ Used = Dist(CtrMod, nwrite, nread) /\ Len(Contents) = Used /\ Used \in 0 .. PIPESIZE
  BY ContentsIs
<1>2. /\ Contents' = Held(data', CtrMod, PIPESIZE, nread', nwrite) /\ Buffer(PIPESIZE, Bytes, data')
  BY ContentsIsNext DEF ReadCopy
<1>3. nread' = Moved(CtrMod, nread, k) /\ k <= Used
  BY DEF ReadCopy, Moved
<1>4. readopen' = readopen /\ writeopen' = writeopen
  BY DEF ReadCopy, endVars
<1>5. CASE k = 0
  <2>1. data' = data
    <3>1. data' = [i \in 0 .. PIPESIZE - 1 |-> data[i]]
      <4>1. {(nread + j) % PIPESIZE : j \in 0 .. k - 1} = {}
        BY <1>5
      <4> QED
        BY <4>1, Zenon DEF ReadCopy
    <3> QED
      BY <1>1, <3>1 DEF Buffer
  <2>2. nread' = nread
    <3>1. nread' = (nread + k) % CtrMod
      BY DEF ReadCopy
    <3>2. nread + k = nread /\ nread % CtrMod = nread
      BY <1>1, <1>5, PipeConstants
    <3> QED
      BY <3>1, <3>2
  <2> QED
    BY <1>1, <1>2, <1>4, <2>1, <2>2
<1>6. CASE k # 0
  <2>1. ASSUME NEW i \in k .. Used - 1
        PROVE  data'[At(PIPESIZE, nread, i)] = data[At(PIPESIZE, nread, i)]
    <3>1. i \in 0 .. PIPESIZE - 1 /\ nread \in Int
      BY <1>1, PipeConstants
    <3>2. At(PIPESIZE, nread, i) \in 0 .. PIPESIZE - 1
      BY <3>1, PipeConstants, AtIn
    <3>3. ASSUME NEW j \in 0 .. k - 1 PROVE At(PIPESIZE, nread, i) # (nread + j) % PIPESIZE
      <4>1. j \in 0 .. PIPESIZE - 1 /\ i # j
        BY PipeConstants
      <4>2. At(PIPESIZE, nread, i) # At(PIPESIZE, nread, j)
        BY <3>1, <4>1, PipeConstants, AtApart
      <4> QED
        BY <4>2 DEF At
    <3> QED
      BY <3>2, <3>3, Zenon DEF ReadCopy
  <2>2. k \in 0 .. Dist(CtrMod, nwrite, nread)
        /\ Keeps(PIPESIZE, data, data', nread, k, Dist(CtrMod, nwrite, nread))
    BY <1>1, <1>3, <2>1 DEF Keeps
  <2>3. IsTake(Held(data', CtrMod, PIPESIZE, Moved(CtrMod, nread, k), nwrite),
               Held(data, CtrMod, PIPESIZE, nread, nwrite), k)
    <3>1. /\ nread \in 0 .. CtrMod - 1 /\ nwrite \in 0 .. CtrMod - 1
          /\ Buffer(PIPESIZE, Bytes, data) /\ Buffer(PIPESIZE, Bytes, data')
      BY <1>1, <1>2
    <3> QED
      BY <2>2, <3>1, PipeSizes, HeldTake
  <2>4. Contents' = SubSeq(Contents, k + 1, Len(Contents))
    BY <1>1, <1>2, <1>3, <2>3 DEF IsTake
  <2>5. readopen
    BY DEF ReadCopy, PipeInv, CallersInv, EndsInv, Inside, PipeUsers
  <2>6. Fifo!Take(k)
    BY <1>1, <1>3, <1>4, <2>4, <2>5 DEF Fifo!Take
  <2>7. k \in 1 .. PIPESIZE
    BY <1>6
  <2> QED
    BY <2>6, <2>7
<1> QED
  BY <1>5, <1>6

LEMMA FifoStep == PipeInv /\ PipeInv' /\ [PipeNext]_pipeVars => [Fifo!FifoNext]_Fifo!fifoVars
<1> SUFFICES ASSUME PipeInv, PipeInv', [PipeNext]_pipeVars
             PROVE  Fifo!FifoNext \/ UNCHANGED <<Contents, readopen, writeopen>>
  BY DEF Fifo!fifoVars
<1>1. CASE UNCHANGED pipeVars
  BY <1>1, ContentsStay DEF pipeVars, ringVars
<1>2. CASE \E w \in Writers : WriteByte(w)
  BY <1>2, WritePuts DEF Fifo!FifoNext
<1>3. CASE \E r \in Readers, k \in 0 .. PIPESIZE : ReadCopy(r, k)
  BY <1>3, CopyTakes DEF Fifo!FifoNext
<1>4. ASSUME NEW u \in PipeUsers, PipeClose(u)
      PROVE  Fifo!FifoNext \/ UNCHANGED <<Contents, readopen, writeopen>>
  <2>1. UNCHANGED Contents
    BY <1>4, ContentsStay DEF PipeClose
  <2>2. readopen \in BOOLEAN /\ writeopen \in BOOLEAN /\ ~(u \in Readers /\ u \in Writers)
    BY PipeConstants DEF PipeInv, PipeTypeOK
  <2>3. CASE LastOf(u, Writers)
    BY <1>4, <2>1, <2>2, <2>3 DEF PipeClose, LastOf, Fifo!FifoNext, Fifo!CloseWrite
  <2>4. CASE LastOf(u, Readers)
    BY <1>4, <2>1, <2>2, <2>4 DEF PipeClose, LastOf, Fifo!FifoNext, Fifo!CloseRead
  <2>5. CASE ~LastOf(u, Writers) /\ ~LastOf(u, Readers)
    BY <1>4, <2>1, <2>2, <2>5 DEF PipeClose
  <2> QED
    BY <2>3, <2>4, <2>5
<1>5. CASE UNCHANGED ringVars /\ UNCHANGED endVars
  BY <1>5, ContentsStay DEF endVars
<1> QED
  BY <1>1, <1>2, <1>3, <1>4, <1>5
     DEF PipeNext, PipeCall, PipeLock, KillUser, RouseUser, WriteQuit, WriteGo, WriteFull,
         WriteDone, ReadWait, ReadSleep

(***************************************************************************)
(* The ring of pipe.c with its wrapping counters is a bounded first-in     *)
(* first-out queue with two ends: what pipewrite() stores piperead() takes *)
(* out in order and once.                                                  *)
(***************************************************************************)
THEOREM PipeImplementsFifo == PipeSpec => ImplementsFifo
<1>1. PipeInit => Fifo!FifoInit
  <2> SUFFICES ASSUME PipeInit PROVE Contents = <<>>
    BY DEF PipeInit, Fifo!FifoInit
  <2>1. Used = 0
    BY PipeConstants DEF PipeInit, Used
  <2> QED
    BY <2>1 DEF Contents
<1> QED
  BY <1>1, PipeInvariant, FifoStep, PTL DEF PipeSpec, ImplementsFifo, Fifo!FifoSpec
=============================================================================
