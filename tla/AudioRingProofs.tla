--------------------------- MODULE AudioRingProofs ---------------------------
(***************************************************************************)
(* What the ring gives is what it took, and a stamp is its block's, for    *)
(* every capacity, every wrap that is a larger multiple of it, and any     *)
(* number of blocks.                                                       *)
(***************************************************************************)
EXTENDS AudioRing, TLAPS

\* A counter of the machine wraps at a power of two, and so does an index of the ring.
Sizes ==
  /\ Cap \in Nat \ {0} /\ Block \in Nat
  /\ \E m \in Nat : m > 1 /\ Wrap = m * Cap

-----------------------------------------------------------------------------
(* Remainders.                                                             *)

\* A number is so many times its modulus, and the rest.
LEMMA Split == ASSUME NEW a \in Nat, NEW b \in Nat \ {0}
               PROVE  /\ a % b \in 0..(b - 1)
                      /\ \E q \in Nat : a = b * q + (a % b)
<1>1. a % b \in 0..(b - 1)
  BY SMT
<1>2. a = b * (a \div b) + (a % b)
  BY SMT
<1>3. a \div b \in Nat
  BY SMT
<1>4. QED
  BY <1>1, <1>2, <1>3

\* A multiple of a modulus is not smaller.
LEMMA MulOne == ASSUME NEW b \in Nat \ {0}, NEW k \in Int, k >= 1
               PROVE  b * k >= b
  BY SMT

\* There is one way to split it.
LEMMA Unique == ASSUME NEW b \in Nat \ {0}, NEW q \in Int, NEW p \in Int, NEW r \in 0..(b-1), NEW s \in 0..(b-1),
                  b * q + r = b * p + s
                PROVE  r = s /\ q = p
<1>1. b * (q - p) = s - r
  BY SMT
<1>2. ~(q - p >= 1)
  BY <1>1, MulOne, SMT
<1>3. b * (p - q) = r - s
  BY SMT
<1>4. ~(p - q >= 1)
  BY <1>3, MulOne, SMT
<1>5. q = p
  BY <1>2, <1>4, SMT
<1>6. QED
  BY <1>5, <1>1, SMT

\* The rest, when a split is known.
LEMMA ModIs == ASSUME NEW b \in Nat \ {0}, NEW a \in Int, NEW q \in Int, NEW r \in 0..(b - 1), a = b * q + r
               PROVE  a % b = r
<1>1. /\ a % b \in 0..(b - 1) /\ a = b * (a \div b) + (a % b) /\ a \div b \in Int
  BY SMT
<1> DEFINE s == a % b
           d == a \div b
<1>2. s \in 0..(b - 1) /\ d \in Int /\ b * q + r = b * d + s
  BY <1>1
<1> HIDE DEF s, d
<1>3. r = s
  BY <1>2, Unique
<1>4. QED
  BY <1>3 DEF s

\* Two wrapped counters that are less than a turn apart tell their distance.
LEMMA ModDiff == ASSUME NEW b \in Nat \ {0}, NEW a \in Nat, NEW t \in Nat, t <= a, a - t < b
                 PROVE  ((a % b) - (t % b)) % b = a - t
<1>1. PICK q \in Nat : a = b * q + (a % b)
  BY Split
<1>2. PICK p \in Nat : t = b * p + (t % b)
  BY Split
<1>3. a % b \in Int /\ t % b \in Int
  BY Split
<1>4. b * (p - q) = b * p - b * q /\ p - q \in Int
  BY SMT
<1>5. (a % b) - (t % b) = b * (p - q) + (a - t)
  <2> DEFINE r == a % b
             s == t % b
             f == b * q
             g == b * p
  <2>1. a = f + r /\ t = g + s /\ r \in Int /\ s \in Int /\ f \in Int /\ g \in Int
    BY <1>1, <1>2, <1>3
  <2> HIDE DEF r, s, f, g
  <2>2. r - s = (g - f) + (a - t)
    BY <2>1
  <2>3. QED
    BY <2>2, <1>4 DEF r, s, f, g
<1>6. a - t \in 0..(b - 1) /\ (a % b) - (t % b) \in Int
  BY <1>3, SMT
<1>7. QED
  BY <1>4, <1>5, <1>6, ModIs

Multiple(w, c) == \E m \in Nat : w = m * c

\* A wrapped counter finds the same place in the ring as one that does not wrap.
LEMMA ModNested == ASSUME NEW c \in Nat \ {0}, NEW w \in Nat \ {0}, Multiple(w, c),
                          NEW x \in Nat, NEW k \in Nat
                   PROVE  ((x % w) + k) % c = (x + k) % c
<1>1. PICK m \in Nat : w = m * c
  BY DEF Multiple
<1>2. PICK q \in Nat : x = w * q + (x % w)
  BY Split
<1>3. x % w \in Nat
  BY Split
<1>4. PICK p \in Nat : (x + k) = c * p + ((x + k) % c)
  <2>1. x + k \in Nat
    BY SMT
  <2>2. QED
    BY <2>1, Split
<1>5. w * q = c * (m * q)
  BY <1>1, SMT
<1>6. (x % w) + k = c * (p - m * q) + ((x + k) % c)
  <2>1. (x % w) + k = x + k - c * (m * q)
    BY <1>2, <1>3, <1>5, SMT
  <2>2. (x + k) % c \in Nat
    BY Split
  <2> DEFINE n == m * q
  <2>3. n \in Nat
    BY SMT
  <2>4. (x % w) + k = x + k - c * n
    BY <2>1
  <2> HIDE DEF n
  <2>5. c * (p - n) = c * p - c * n
    BY <2>3, SMT
  <2>6. (x % w) + k = c * (p - n) + ((x + k) % c)
    BY <1>3, <1>4, <2>2, <2>3, <2>4, <2>5, SMT
  <2>7. QED
    BY <2>6 DEF n
<1>7. (x + k) % c \in 0..(c - 1)
  <2>1. x + k \in Nat
    OBVIOUS
  <2>2. QED
    BY <2>1, Split
<1>8. (x % w) + k \in Int /\ p - m * q \in Int
  BY <1>3, SMT
<1>9. QED
  BY <1>8, <1>6, <1>7, ModIs

\* Less than a ring apart, two samples have two places.
LEMMA ModApart == ASSUME NEW c \in Nat \ {0}, NEW x \in Nat, NEW y \in Nat, x < y, y - x < c
                  PROVE  x % c # y % c
<1>1. PICK q \in Nat : x = c * q + (x % c)
  BY Split
<1>2. PICK p \in Nat : y = c * p + (y % c)
  BY Split
<1>3. x % c \in Nat /\ y % c \in Nat
  BY Split
<1>4. SUFFICES ASSUME x % c = y % c PROVE FALSE
  OBVIOUS
<1>5. c * (p - q) = y - x
  BY <1>1, <1>2, <1>3, <1>4, SMT
<1>6. ~(p - q >= 1)
  BY <1>5, MulOne, SMT
<1>7. c * (q - p) = x - y
  BY <1>5, SMT
<1>8. q - p >= 0
  BY <1>6, SMT
<1>9. QED
  BY <1>7, <1>8, SMT
-----------------------------------------------------------------------------
(* The samples.                                                            *)

ProdPlaces == {"idle", "pos", "ns", "even", "write", "copy"}
ConsPlaces == {"idle", "copy", "seq", "pos", "ns", "same"}

Types ==
  /\ accepted \in Nat /\ taken \in Nat
  /\ buf \in [0..(Cap - 1) -> Nat] /\ out \in Seq(Nat)
  /\ seq \in Nat /\ pos \in Nat /\ ns \in Nat
  /\ prod \in [at : ProdPlaces, n : Nat, k : Nat, block : Nat]
  /\ cons \in [at : ConsPlaces, n : Nat, k : Nat, tries : Nat, seq : Nat, pos : Nat, ns : Nat]

\* The counters that wrap, by those that do not.
Wrapped == head = accepted % Wrap /\ tail = taken % Wrap

\* What each side works on is its own: the producer what is free, the consumer what is
\* there.
Room ==
  /\ taken <= accepted /\ accepted - taken <= Cap
  /\ IF prod.at = "copy" THEN accepted + prod.n - taken <= Cap /\ prod.k <= prod.n
                         ELSE prod.k = 0
  /\ cons.at = "copy" => taken + cons.n <= accepted /\ cons.k <= cons.n

\* Every sample that was accepted and not taken is where it belongs, and so is what the
\* producer has copied.
Kept == \A i \in taken..(accepted + prod.k - 1) : buf[i % Cap] = i

\* The consumer has copied as many as it thinks, and the right ones.
Given == cons.at = "copy" => Len(out) = cons.k /\ \A i \in 1..Len(out) : out[i] = taken + i - 1

Samples == Types /\ Wrapped /\ Room /\ Kept /\ Given

LEMMA SizesMean ==
  ASSUME Sizes PROVE Cap \in Nat \ {0} /\ Block \in Nat /\ Wrap \in Nat \ {0} /\ Cap < Wrap
<1>1. PICK m \in Nat : m > 1 /\ Wrap = m * Cap
  BY DEF Sizes
<1>2. Cap \in Nat \ {0} /\ Block \in Nat
  BY DEF Sizes
<1>3. (m - 1) * Cap >= Cap /\ m * Cap = (m - 1) * Cap + Cap /\ m * Cap \in Nat
  BY <1>1, <1>2, SMT
<1>4. QED
  BY <1>1, <1>2, <1>3, SMT

\* The distance of the counters is the number of samples in the ring.
LEMMA Content == ASSUME Sizes, Types, Wrapped, Room PROVE Between(tail, head) = accepted - taken
<1>1. /\ Wrap \in Nat \ {0} /\ accepted \in Nat /\ taken \in Nat
      /\ taken <= accepted /\ accepted - taken < Wrap
  BY SizesMean DEF Types, Room
<1>2. ((accepted % Wrap) - (taken % Wrap)) % Wrap = accepted - taken
  BY <1>1, ModDiff
<1>3. QED
  BY <1>2 DEF Wrapped, Between

\* A place in the ring, from a wrapped counter.
LEMMA Place == ASSUME Sizes, NEW x \in Nat, NEW k \in Nat
               PROVE  ((x % Wrap) + k) % Cap = (x + k) % Cap
<1>1. Multiple(Wrap, Cap)
  BY Zenon DEF Sizes, Multiple
<1>2. Cap \in Nat \ {0} /\ Wrap \in Nat \ {0}
  BY SizesMean
<1>3. \A y, n \in Nat : ((y % Wrap) + n) % Cap = (y + n) % Cap
  BY <1>1, <1>2, ModNested, Zenon
<1>4. QED
  BY <1>3

\* A counter goes on.
LEMMA Onward == ASSUME Sizes, NEW x \in Nat, NEW k \in Nat
                PROVE  ((x % Wrap) + k) % Wrap = (x + k) % Wrap
<1>1. Wrap \in Nat \ {0}
  BY SizesMean
<1>2. 1 \in Nat /\ Wrap = 1 * Wrap
  BY <1>1
<1>3. Multiple(Wrap, Wrap)
  BY <1>2, Zenon DEF Multiple
<1>4. QED
  BY <1>1, <1>3, ModNested, Zenon

LEMMA SamplesInit == ASSUME Sizes, Init PROVE Samples
<1>1. Wrap \in Nat \ {0} /\ Cap \in Nat \ {0}
  BY SizesMean DEF Sizes
<1>2. 0 % Wrap = 0
  BY <1>1, ModIs
<1>3. buf \in [0..(Cap - 1) -> Nat]
  BY DEF Init
<1>4. Types /\ Wrapped
  BY <1>2, <1>3 DEF Init, Types, Wrapped, ProdPlaces, ConsPlaces
<1>5. Room
  BY <1>1 DEF Init, Room
<1>6. Kept
  BY DEF Init, Kept
<1>7. Given
  BY DEF Init, Given
<1>8. QED
  BY <1>4, <1>5, <1>6, <1>7 DEF Samples

\* The producer before it writes: only its own place and the anchor change.
LEMMA SamplesStamp ==
  ASSUME Sizes, Samples,
         (\E n \in 1..Block : Push(n) \/ PushAt(n)) \/ StorePos \/ StoreNs \/ Publish
  PROVE  Samples'
<1> USE DEF Samples
<1>1. /\ UNCHANGED <<buf, head, tail, cons, accepted, taken, out>>
      /\ prod' \in [at : ProdPlaces, n : Nat, k : Nat, block : Nat]
      /\ prod.at # "copy" /\ prod'.at # "copy" /\ prod'.k = 0
      /\ seq' \in Nat /\ pos' \in Nat /\ ns' \in Nat
  <2>1. CASE \E n \in 1..Block : Push(n) \/ PushAt(n)
    <3>1. PICK n \in 1..Block : Push(n) \/ PushAt(n)
      BY <2>1
    <3>2. n \in Nat
      BY SizesMean
    <3>3. /\ UNCHANGED <<buf, head, tail, cons, accepted, taken, out, pos, ns>>
          /\ prod.at = "idle" /\ seq' \in {seq, seq + 1}
          /\ \E place \in {"write", "pos"} :
                prod' = [at |-> place, n |-> n, k |-> 0, block |-> prod.block + 1]
      BY <3>1, Zenon DEF Push, PushAt, anchor
    <3>4. /\ prod \in [at : ProdPlaces, n : Nat, k : Nat, block : Nat]
          /\ seq \in Nat /\ pos \in Nat /\ ns \in Nat
      BY Zenon DEF Types
    <3>5. QED
      BY ONLY <3>2, <3>3, <3>4 DEF ProdPlaces
  <2>2. CASE StorePos
    <3>1. head \in Nat
      <4>1. accepted % Wrap \in 0..(Wrap - 1)
        BY SizesMean, Split DEF Types
      <4>2. QED
        BY <4>1, SizesMean DEF Wrapped
    <3>2. /\ UNCHANGED <<buf, head, tail, seq, ns, cons, accepted, taken, out>>
          /\ pos' = head /\ prod.at = "pos" /\ prod' = [prod EXCEPT !.at = "ns"]
      BY <2>2, Zenon DEF StorePos, ProdAt
    <3>3. /\ prod \in [at : ProdPlaces, n : Nat, k : Nat, block : Nat]
          /\ seq \in Nat /\ ns \in Nat /\ (prod.at # "copy" => prod.k = 0)
      BY Zenon DEF Types, Room
    <3>4. QED
      BY ONLY <3>1, <3>2, <3>3 DEF ProdPlaces
  <2>3. CASE StoreNs \/ Publish
    <3>1. /\ UNCHANGED <<buf, head, tail, pos, cons, accepted, taken, out>>
          /\ prod.at \in {"ns", "even"}
          /\ ns' \in {ns, prod.block} /\ seq' \in {seq, seq + 1}
          /\ \E place \in {"even", "write"} : prod' = [prod EXCEPT !.at = place]
      BY <2>3, Zenon DEF StoreNs, Publish, ProdAt
    <3>2. /\ prod \in [at : ProdPlaces, n : Nat, k : Nat, block : Nat]
          /\ seq \in Nat /\ pos \in Nat /\ ns \in Nat /\ (prod.at # "copy" => prod.k = 0)
      BY Zenon DEF Types, Room
    <3>3. QED
      BY ONLY <3>1, <3>2 DEF ProdPlaces
  <2>4. QED
    BY <2>1, <2>2, <2>3
<1>2. prod.k = 0
  BY <1>1 DEF Room
<1>3. Types' /\ Wrapped'
  BY <1>1 DEF Types, Wrapped
<1>4. Room'
  BY <1>1 DEF Room
<1>5. Kept'
  BY <1>1, <1>2 DEF Kept
<1>6. Given'
  BY <1>1 DEF Given
<1>7. QED
  BY <1>3, <1>4, <1>5, <1>6

\* The producer learns what is free; later there can only be more.
LEMMA SamplesWrite == ASSUME Sizes, Samples, Write PROVE Samples'
<1> USE DEF Samples
<1> DEFINE n == Least(prod.n, Free)
<1>1. Free = Cap - (accepted - taken)
  BY Content DEF Free
<1>2. n \in Nat /\ accepted + n - taken <= Cap
  <2>1. /\ prod \in [at : ProdPlaces, n : Nat, k : Nat, block : Nat] /\ accepted \in Nat
        /\ taken \in Nat /\ Cap \in Nat /\ taken <= accepted /\ accepted - taken <= Cap
    BY SizesMean, Zenon DEF Types, Room
  <2>2. prod.n \in Nat
    BY ONLY <2>1
  <2>3. QED
    BY ONLY <1>1, <2>1, <2>2 DEF Least
<1>3. prod.k = 0 /\ prod' = [prod EXCEPT !.at = "copy", !.n = n]
  BY DEF Write, Room
<1> HIDE DEF n
<1>4. prod' \in [at : ProdPlaces, n : Nat, k : Nat, block : Nat] /\ prod'.at = "copy" /\ prod'.n = n
      /\ prod'.k = 0
  BY <1>2, <1>3 DEF Types, ProdPlaces
<1>5. UNCHANGED <<buf, head, tail, anchor, cons, accepted, taken, out>>
  BY DEF Write
<1>6. Types' /\ Wrapped'
  BY <1>4, <1>5 DEF Types, Wrapped, anchor
<1>7. Room'
  BY <1>2, <1>4, <1>5 DEF Room
<1>8. Kept'
  BY <1>3, <1>4, <1>5 DEF Kept
<1>9. Given'
  BY <1>5 DEF Given
<1>10. QED
  BY <1>6, <1>7, <1>8, <1>9

\* A sample is written to a place that no sample still in the ring has.
LEMMA SamplesCopyIn == ASSUME Sizes, Samples, CopyIn PROVE Samples'
<1> USE DEF Samples
<1> DEFINE x == accepted + prod.k
<1>1. /\ prod.at = "copy" /\ prod.k < prod.n /\ prod.k \in Nat /\ prod.n \in Nat
      /\ accepted \in Nat /\ taken \in Nat /\ Cap \in Nat \ {0} /\ x \in Nat
  <2>1. prod.at = "copy" /\ prod.k < prod.n
    BY Zenon DEF CopyIn
  <2>2. prod \in [at : ProdPlaces, n : Nat, k : Nat, block : Nat] /\ accepted \in Nat /\ taken \in Nat
    BY Zenon DEF Types
  <2>3. prod.k \in Nat /\ prod.n \in Nat /\ x \in Nat
    BY ONLY <2>2
  <2>4. QED
    BY <2>1, <2>2, <2>3, SizesMean, Zenon
<1>2. (head + prod.k) % Cap = x % Cap
  BY <1>1, Place DEF Wrapped
<1>3. x % Cap \in 0..(Cap - 1)
  BY <1>1, Split
<1>4. buf' = [buf EXCEPT ![x % Cap] = x]
  BY <1>2 DEF CopyIn
<1>5. /\ prod' \in [at : ProdPlaces, n : Nat, k : Nat, block : Nat]
      /\ prod'.at = "copy" /\ prod'.n = prod.n /\ prod'.k = prod.k + 1
  <2>1. prod' = [prod EXCEPT !.k = prod.k + 1] /\ prod.at = "copy"
    BY Zenon DEF CopyIn
  <2>2. prod \in [at : ProdPlaces, n : Nat, k : Nat, block : Nat]
    BY Zenon DEF Types
  <2>3. QED
    BY ONLY <2>1, <2>2 DEF ProdPlaces
<1>6. UNCHANGED <<head, tail, anchor, cons, accepted, taken, out>>
  BY DEF CopyIn
<1>7. Types' /\ Wrapped'
  <2>1. buf' \in [0..(Cap - 1) -> Nat]
    BY <1>1, <1>3, <1>4 DEF Types
  <2>2. QED
    BY <2>1, <1>5, <1>6 DEF Types, Wrapped, anchor
<1>8. Room'
  BY <1>1, <1>5, <1>6 DEF Room
<1>9. Kept'
  <2> SUFFICES ASSUME NEW i \in taken..(accepted + (prod.k + 1) - 1) PROVE buf'[i % Cap] = i
    BY <1>5, <1>6 DEF Kept
  <2>1. CASE i = x
    BY <2>1, <1>3, <1>4 DEF Types
  <2>2. CASE i # x
    <3>1. i \in taken..(accepted + prod.k - 1) /\ i \in Nat /\ i < x /\ x - i < Cap
      BY <2>2, <1>1 DEF Room
    <3>2. i % Cap # x % Cap /\ i % Cap \in 0..(Cap - 1)
      BY <3>1, <1>1, ModApart, Split
    <3>3. buf[i % Cap] = i
      BY <3>1 DEF Kept
    <3>4. QED
      BY <3>2, <3>3, <1>4 DEF Types
  <2>3. QED
    BY <2>1, <2>2
<1>10. Given'
  BY <1>6 DEF Given
<1>11. QED
  BY <1>7, <1>8, <1>9, <1>10

\* What was copied is accepted.
LEMMA SamplesRelease == ASSUME Sizes, Samples, Release PROVE Samples'
<1> USE DEF Samples
<1>1. /\ prod.at = "copy" /\ prod.k = prod.n /\ prod.n \in Nat /\ accepted \in Nat /\ taken \in Nat
      /\ accepted' = accepted + prod.n /\ head' = (head + prod.n) % Wrap
      /\ UNCHANGED <<buf, tail, anchor, cons, taken, out>>
  BY DEF Release, Types
<1>2. head' = accepted' % Wrap
  BY <1>1, Onward DEF Wrapped
<1>3. prod' \in [at : ProdPlaces, n : Nat, k : Nat, block : Nat] /\ prod'.at = "idle" /\ prod'.k = 0
  BY DEF Release, Types, ProdPlaces
<1>4. Types' /\ Wrapped'
  <2>1. accepted' \in Nat
    BY <1>1
  <2>2. Types'
    BY <1>1, <1>3, <2>1, Zenon DEF Types, anchor
  <2>3. Wrapped'
    BY <1>1, <1>2, Zenon DEF Wrapped
  <2>4. QED
    BY <2>2, <2>3
<1>5. Room'
  <2>1. /\ prod.at = "copy" /\ prod.n \in Nat /\ accepted \in Nat /\ taken \in Nat
        /\ accepted' = accepted + prod.n /\ taken' = taken /\ cons' = cons
        /\ prod'.at = "idle" /\ prod'.k = 0
    BY <1>1, <1>3, Zenon
  <2>2. Cap \in Nat /\ Room /\ cons.n \in Nat
    BY SizesMean DEF Types
  <2>3. QED
    BY ONLY <2>1, <2>2 DEF Room
<1>6. Kept'
  BY <1>1, <1>3 DEF Kept
<1>7. Given'
  BY <1>1 DEF Given
<1>8. QED
  BY <1>4, <1>5, <1>6, <1>7

\* The consumer begins with what is there; later there can only be more.
LEMMA SamplesPop == ASSUME Sizes, Samples, NEW n \in 1..Block, Pop(n) PROVE Samples'
<1> USE DEF Samples
<1> DEFINE m == Least(n, Between(tail, head))
<1>1. Between(tail, head) = accepted - taken
  BY Content
<1>2. m \in Nat /\ taken + m <= accepted
  <2>1. accepted \in Nat /\ taken \in Nat /\ taken <= accepted /\ n \in 1..Block /\ Block \in Nat
    BY SizesMean, Zenon DEF Types, Room
  <2>2. QED
    BY ONLY <1>1, <2>1 DEF Least
<1>3. cons' = [cons EXCEPT !.at = "copy", !.n = m, !.k = 0] /\ out' = <<>>
  BY DEF Pop
<1> HIDE DEF m
<1>4. /\ cons' \in [at : ConsPlaces, n : Nat, k : Nat, tries : Nat, seq : Nat, pos : Nat, ns : Nat]
      /\ cons'.n = m /\ cons'.k = 0
  BY <1>2, <1>3 DEF Types, ConsPlaces
<1>5. UNCHANGED <<buf, head, tail, anchor, prod, accepted, taken>>
  BY DEF Pop
<1>6. Types' /\ Wrapped'
  BY <1>3, <1>4, <1>5 DEF Types, Wrapped, anchor
<1>7. Room'
  BY <1>2, <1>4, <1>5 DEF Room
<1>8. Kept'
  BY <1>5 DEF Kept
<1>9. Given'
  BY <1>3, <1>4 DEF Given
<1>10. QED
  BY <1>6, <1>7, <1>8, <1>9

\* A sample is read that the producer does not write.
LEMMA SamplesCopyOut == ASSUME Sizes, Samples, CopyOut PROVE Samples'
<1> USE DEF Samples
<1> DEFINE x == taken + cons.k
<1>1. /\ cons.at = "copy" /\ cons.k < cons.n /\ cons.k \in Nat /\ cons.n \in Nat /\ prod.k \in Nat
      /\ accepted \in Nat /\ taken \in Nat /\ x \in Nat
      /\ UNCHANGED <<buf, head, tail, anchor, prod, accepted, taken>>
  <2>1. /\ cons.at = "copy" /\ cons.k < cons.n
        /\ UNCHANGED <<buf, head, tail, anchor, prod, accepted, taken>>
    BY Zenon DEF CopyOut
  <2>2. /\ prod \in [at : ProdPlaces, n : Nat, k : Nat, block : Nat]
        /\ cons \in [at : ConsPlaces, n : Nat, k : Nat, tries : Nat, seq : Nat, pos : Nat, ns : Nat]
        /\ accepted \in Nat /\ taken \in Nat
    BY Zenon DEF Types
  <2>3. cons.k \in Nat /\ cons.n \in Nat /\ prod.k \in Nat
    BY ONLY <2>2
  <2>4. x \in Nat
    BY ONLY <2>2, <2>3
  <2>5. QED
    BY <2>1, <2>2, <2>3, <2>4, Zenon
<1>2. (tail + cons.k) % Cap = x % Cap
  BY <1>1, Place DEF Wrapped
<1>3. buf[x % Cap] = x
  BY <1>1 DEF Kept, Room
<1>4. out' = Append(out, x)
  BY <1>2, <1>3 DEF CopyOut
<1>5. /\ cons' \in [at : ConsPlaces, n : Nat, k : Nat, tries : Nat, seq : Nat, pos : Nat, ns : Nat]
      /\ cons'.at = "copy" /\ cons'.n = cons.n /\ cons'.k = cons.k + 1
  <2>1. cons' = [cons EXCEPT !.k = cons.k + 1] /\ cons.at = "copy"
    BY Zenon DEF CopyOut
  <2>2. cons \in [at : ConsPlaces, n : Nat, k : Nat, tries : Nat, seq : Nat, pos : Nat, ns : Nat]
    BY Zenon DEF Types
  <2>3. QED
    BY ONLY <2>1, <2>2 DEF ConsPlaces
<1>6. Types' /\ Wrapped'
  BY <1>1, <1>4, <1>5 DEF Types, Wrapped, anchor
<1>7. Room'
  BY <1>1, <1>5 DEF Room
<1>8. Kept'
  BY <1>1 DEF Kept
<1>9. Given'
  <2>1. Len(out) = cons.k /\ out \in Seq(Nat)
    BY <1>1 DEF Given, Types
  <2>2. Len(out') = cons.k + 1
    BY <2>1, <1>4, <1>1
  <2>3. ASSUME NEW i \in 1..Len(out') PROVE out'[i] = taken + i - 1
    <3>1. CASE i = cons.k + 1
      BY <3>1, <2>1, <1>4, <1>1
    <3>2. CASE i # cons.k + 1
      <4>1. i \in 1..Len(out)
        BY <3>2, <2>1, <2>2, <1>1
      <4>2. QED
        BY <4>1, <2>1, <1>1, <1>4 DEF Given
    <3>3. QED
      BY <3>1, <3>2
  <2>4. QED
    BY <2>2, <2>3, <1>1, <1>5 DEF Given
<1>10. QED
  BY <1>6, <1>7, <1>8, <1>9

\* What was copied is gone.
LEMMA SamplesReturn == ASSUME Sizes, Samples, Return PROVE Samples'
<1> USE DEF Samples
<1>1. /\ cons.at = "copy" /\ cons.n \in Nat /\ accepted \in Nat /\ taken \in Nat /\ prod.k \in Nat /\ prod.n \in Nat
      /\ taken' = taken + cons.n /\ tail' = (tail + cons.n) % Wrap
      /\ UNCHANGED <<buf, head, anchor, prod, accepted, out>>
  BY DEF Return, Types
<1>2. tail' = taken' % Wrap
  BY <1>1, Onward DEF Wrapped
<1>3. /\ cons' \in [at : ConsPlaces, n : Nat, k : Nat, tries : Nat, seq : Nat, pos : Nat, ns : Nat]
      /\ cons'.at = "idle"
  BY DEF Return, Types, ConsPlaces
<1>4. Types' /\ Wrapped'
  <2>1. taken' \in Nat
    BY <1>1
  <2>2. Types'
    BY <1>1, <1>3, <2>1, Zenon DEF Types, anchor
  <2>3. Wrapped'
    BY <1>1, <1>2, Zenon DEF Wrapped
  <2>4. QED
    BY <2>2, <2>3
<1>5. Room'
  BY <1>1, <1>3 DEF Room, Sizes
<1>6. Kept'
  BY <1>1 DEF Kept
<1>7. Given'
  BY <1>3 DEF Given
<1>8. QED
  BY <1>4, <1>5, <1>6, <1>7

\* Reading the anchor touches no sample.
LEMMA SamplesAnchor ==
  ASSUME Samples, Anchor \/ LoadSeq \/ LoadPos \/ LoadNs \/ Compare PROVE Samples'
<1> USE DEF Samples
<1>1. /\ UNCHANGED <<buf, head, tail, anchor, prod, accepted, taken, out>>
      /\ cons' \in [at : ConsPlaces, n : Nat, k : Nat, tries : Nat, seq : Nat, pos : Nat, ns : Nat]
      /\ cons'.at # "copy"
  <2> DEFINE Record == [at : ConsPlaces, n : Nat, k : Nat, tries : Nat, seq : Nat, pos : Nat, ns : Nat]
  <2>0. cons \in Record
    BY Zenon DEF Types
  <2>6. /\ GiveUp \in Record /\ GiveUp.at # "copy"
        /\ Again \in Record /\ Again.at # "copy"
    <3>1. GiveUp \in Record /\ GiveUp.at = "idle"
      BY ONLY <2>0 DEF GiveUp, ConsPlaces
    <3>2. CASE cons.tries > 1
      <4>1. cons.tries - 1 \in Nat
        BY ONLY <2>0, <3>2
      <4>2. Again = [GiveUp EXCEPT !.at = "seq", !.tries = cons.tries - 1]
        BY <3>2, Zenon DEF Again
      <4>3. Again \in Record /\ Again.at = "seq"
        BY ONLY <3>1, <4>1, <4>2 DEF ConsPlaces
      <4>4. QED
        BY <3>1, <4>3
    <3>3. CASE ~(cons.tries > 1)
      BY <3>1, <3>3, Zenon DEF Again
    <3>4. QED
      BY <3>2, <3>3
  <2>1. CASE Anchor
    BY <2>1 DEF Anchor, Types, ConsPlaces
  <2>2. CASE LoadSeq
    <3>1. /\ cons' = GiveUp \/ cons' = Again \/ cons' = [cons EXCEPT !.at = "pos", !.seq = seq]
          /\ UNCHANGED <<buf, head, tail, anchor, prod, accepted, taken, out>>
      BY <2>2, Zenon DEF LoadSeq
    <3>2. seq \in Nat
      BY DEF Types
    <3>3. LET to == [cons EXCEPT !.at = "pos", !.seq = seq] IN to \in Record /\ to.at = "pos"
      BY ONLY <2>0, <3>2 DEF ConsPlaces
    <3>4. QED
      BY <2>6, <3>1, <3>3, Zenon
  <2>3. CASE LoadPos \/ LoadNs
    BY <2>3 DEF LoadPos, LoadNs, Types, ConsPlaces
  <2>4. CASE Compare
    <3>1. /\ cons' = GiveUp \/ cons' = Again
          /\ UNCHANGED <<buf, head, tail, anchor, prod, accepted, taken, out>>
      BY <2>4, Zenon DEF Compare
    <3>2. QED
      BY <2>6, <3>1, Zenon
  <2>5. QED
    BY <2>1, <2>2, <2>3, <2>4
<1>2. Types' /\ Wrapped'
  BY <1>1 DEF Types, Wrapped, anchor
<1>3. Room' /\ Kept' /\ Given'
  BY <1>1 DEF Room, Kept, Given
<1>4. QED
  BY <1>2, <1>3

LEMMA SamplesNext == ASSUME Sizes, Samples, [Next]_vars PROVE Samples'
<1>1. CASE UNCHANGED vars
  BY <1>1 DEF vars, anchor, Samples, Types, Wrapped, Room, Kept, Given
<1>2. QED
  BY <1>1, SamplesStamp, SamplesWrite, SamplesCopyIn, SamplesRelease, SamplesPop, SamplesCopyOut,
     SamplesReturn, SamplesAnchor DEF Next

LEMMA SamplesAlways == ASSUME Sizes PROVE Spec => []Samples
<1>1. Init => Samples
  BY SamplesInit
<1>2. Samples /\ [Next]_vars => Samples'
  BY SamplesNext
<1>3. QED
  BY <1>1, <1>2, PTL DEF Spec

\* The consumer is given the samples that were accepted, each once and in their order,
\* for every capacity and however often the counters wrap (ring.rs:123-124, 192-194).
THEOREM SamplesInOrder == ASSUME Sizes PROVE Spec => []InOrder
<1>1. Samples => InOrder
  BY DEF Samples, Given, InOrder
<1>2. QED
  BY <1>1, SamplesAlways, PTL

-----------------------------------------------------------------------------
(* The anchor.                                                             *)

Writing == prod.at \in {"pos", "ns", "even"}
Stamp   == [pos |-> pos, ns |-> ns]

\* An odd sequence number says that the words are being written; an even one that they
\* are a block's.
Published ==
  /\ Writing <=> seq % 2 = 1
  /\ Writing => [pos |-> head, ns |-> prod.block] \in blocks
  /\ prod.at \in {"ns", "even"} => pos = head
  /\ prod.at = "even" => ns = prod.block
  /\ seq # 0 /\ ~Writing => Stamp \in blocks

\* A reader whose sequence number still stands has read what stands.
Loaded ==
  /\ cons.at \in {"pos", "ns", "same"} => cons.seq # 0 /\ cons.seq % 2 = 0 /\ cons.seq <= seq
  /\ cons.at \in {"ns", "same"} /\ cons.seq = seq => cons.pos = pos
  /\ cons.at = "same" /\ cons.seq = seq => cons.ns = ns

Anchored == Published /\ Loaded /\ AnchorTrue

LEMMA AnchoredInit == ASSUME Init PROVE Anchored
BY DEF Init, Anchored, Published, Loaded, AnchorTrue, Writing

\* The sequence number becomes odd before a word changes, so that no reader's number
\* stands.
LEMMA AnchoredPushAt == ASSUME Samples, Anchored, NEW n \in 1..Block, PushAt(n) PROVE Anchored'
<1>1. seq \in Nat /\ cons.seq \in Nat /\ ~Writing /\ seq % 2 # 1
  BY DEF Samples, Types, Anchored, Published, PushAt, Writing
<1>2. (seq + 1) % 2 = 1
  BY <1>1
<1>3. Published'
  <2>1. prod' = [at |-> "pos", n |-> n, k |-> 0, block |-> prod.block + 1] /\ seq' = seq + 1 /\ head' = head
    BY DEF PushAt
  <2>2. Writing' /\ prod'.at = "pos" /\ seq' % 2 = 1
    BY <1>2, <2>1 DEF Writing
  <2>3. [pos |-> head', ns |-> prod'.block] \in blocks'
    BY <2>1 DEF PushAt, Samples, Wrapped
  <2>4. QED
    BY <2>2, <2>3 DEF Published
<1>4. Loaded'
  BY <1>1 DEF PushAt, Anchored, Loaded
<1>5. AnchorTrue'
  BY DEF PushAt, Anchored, AnchorTrue
<1>6. QED
  BY <1>3, <1>4, <1>5 DEF Anchored

LEMMA AnchoredStore == ASSUME Samples, Anchored, StorePos \/ StoreNs PROVE Anchored'
<1>1. seq % 2 = 1 /\ Writing /\ prod \in [at : ProdPlaces, n : Nat, k : Nat, block : Nat]
  BY DEF Samples, Types, Anchored, Published, StorePos, StoreNs, Writing
<1>2. Published'
  BY <1>1 DEF StorePos, StoreNs, ProdAt, Published, Anchored, Writing
<1>3. Loaded'
  BY <1>1 DEF StorePos, StoreNs, Anchored, Loaded
<1>4. AnchorTrue'
  BY DEF StorePos, StoreNs, Anchored, AnchorTrue
<1>5. QED
  BY <1>2, <1>3, <1>4 DEF Anchored

LEMMA AnchoredPublish == ASSUME Samples, Anchored, Publish PROVE Anchored'
<1>1. /\ seq \in Nat /\ cons.seq \in Nat /\ seq % 2 = 1
      /\ prod \in [at : ProdPlaces, n : Nat, k : Nat, block : Nat]
  BY DEF Samples, Types, Anchored, Published, Publish, Writing
<1>2. (seq + 1) % 2 = 0
  BY <1>1
<1>3. Published'
  BY <1>1, <1>2 DEF Publish, ProdAt, Published, Anchored, Writing, Stamp
<1>4. Loaded'
  BY <1>1 DEF Publish, Anchored, Loaded
<1>5. AnchorTrue'
  BY DEF Publish, Anchored, AnchorTrue
<1>6. QED
  BY <1>3, <1>4, <1>5 DEF Anchored

\* The rest of the producer's steps, and the consumer's with samples, keep the anchor.
LEMMA AnchoredRest ==
  ASSUME Samples, Anchored,
         (\E n \in 1..Block : Push(n) \/ Pop(n)) \/ Write \/ CopyIn \/ Release \/ CopyOut \/ Return
  PROVE  Anchored'
<1>1. /\ UNCHANGED <<anchor, dated, blocks>>
      /\ (~Writing /\ ~Writing') \/ UNCHANGED <<prod, head>>
      /\ UNCHANGED cons \/ cons'.at \in {"idle", "copy"}
  <2>1. CASE \E n \in 1..Block : Push(n)
    BY <2>1 DEF Push, Writing
  <2>2. CASE Write \/ CopyIn \/ Release
    <3>1. /\ prod.at \in {"write", "copy"} /\ UNCHANGED <<anchor, cons, dated, blocks>>
          /\ \/ prod' = [prod EXCEPT !.at = "copy", !.n = Least(prod.n, Free)]
             \/ prod' = [prod EXCEPT !.k = prod.k + 1]
             \/ prod' = [prod EXCEPT !.at = "idle", !.n = 0, !.k = 0]
      BY <2>2, Zenon DEF Write, CopyIn, Release
    <3>2. QED
      BY <3>1 DEF Writing, Samples, Types, ProdPlaces
  <2>3. CASE (\E n \in 1..Block : Pop(n)) \/ CopyOut \/ Return
    <3>1. /\ UNCHANGED <<anchor, prod, head, dated, blocks>>
          /\ \/ \E m : cons' = [cons EXCEPT !.at = "copy", !.n = m, !.k = 0]
             \/ cons.at = "copy" /\ cons' = [cons EXCEPT !.k = cons.k + 1]
             \/ cons' = [cons EXCEPT !.at = "idle", !.n = 0, !.k = 0]
      BY <2>3, Zenon DEF Pop, CopyOut, Return
    <3>2. QED
      BY <3>1 DEF Samples, Types, ConsPlaces
  <2>4. QED
    BY <2>1, <2>2, <2>3
<1>2. Published'
  BY <1>1 DEF Anchored, Published, Writing, Stamp, anchor
<1>3. Loaded'
  BY <1>1 DEF Anchored, Loaded, anchor
<1>4. AnchorTrue'
  BY <1>1 DEF Anchored, AnchorTrue
<1>5. QED
  BY <1>2, <1>3, <1>4 DEF Anchored

\* The consumer's reading of the anchor.
LEMMA AnchoredLoad ==
  ASSUME Samples, Anchored, Anchor \/ LoadSeq \/ LoadPos \/ LoadNs \/ Compare PROVE Anchored'
<1>1. UNCHANGED <<head, anchor, prod, blocks>>
  BY DEF Anchor, LoadSeq, LoadPos, LoadNs, Compare
<1>2. Published'
  BY <1>1 DEF Anchored, Published, Writing, Stamp, anchor
<1>3. seq \in Nat /\ cons \in [at : ConsPlaces, n : Nat, k : Nat, tries : Nat, seq : Nat, pos : Nat, ns : Nat]
  BY DEF Samples, Types
<1>4. Loaded'
  <2>1. CASE Anchor
    BY <2>1, <1>3 DEF Anchor, Loaded
  <2>2. CASE LoadSeq
    BY <2>2, <1>3 DEF LoadSeq, GiveUp, Again, Loaded, anchor
  <2>3. CASE LoadPos \/ LoadNs
    BY <2>3, <1>3 DEF LoadPos, LoadNs, Anchored, Loaded, anchor
  <2>4. CASE Compare
    BY <2>4, <1>3 DEF Compare, GiveUp, Again, Loaded
  <2>5. QED
    BY <2>1, <2>2, <2>3, <2>4
<1>5. AnchorTrue'
  <2>1. CASE Compare /\ Unmoved
    <3>1. seq # 0 /\ seq % 2 = 0 /\ cons.pos = pos /\ cons.ns = ns
      BY <2>1 DEF Compare, Unmoved, Anchored, Loaded
    <3>2. Stamp \in blocks
      BY <3>1 DEF Anchored, Published
    <3>3. dated' = Stamp
      BY <2>1, <3>1 DEF Compare, Stamp
    <3>4. QED
      BY <1>1, <3>2, <3>3 DEF AnchorTrue
  <2>2. CASE ~(Compare /\ Unmoved)
    BY <1>1, <2>2 DEF Anchor, LoadSeq, LoadPos, LoadNs, Compare, Anchored, AnchorTrue
  <2>3. QED
    BY <2>1, <2>2
<1>6. QED
  BY <1>2, <1>4, <1>5 DEF Anchored

LEMMA AnchoredNext == ASSUME Samples, Anchored, [Next]_vars PROVE Anchored'
<1>1. CASE UNCHANGED vars
  BY <1>1 DEF vars, anchor, Anchored, Published, Loaded, AnchorTrue, Writing, Stamp
<1>2. QED
  BY <1>1, AnchoredPushAt, AnchoredStore, AnchoredPublish, AnchoredRest, AnchoredLoad DEF Next

\* A stamp is never paired with the place of another block, however a call of anchor and
\* any number of push_at overlap (ring.rs:94-105, 162-176).
THEOREM AnchorIsTrue == ASSUME Sizes PROVE Spec => []AnchorTrue
<1>1. Init => Anchored
  BY AnchoredInit
<1>2. Samples /\ Anchored /\ [Next]_vars => Anchored'
  BY AnchoredNext
<1>3. Anchored => AnchorTrue
  BY DEF Anchored
<1>4. QED
  BY <1>1, <1>2, <1>3, SamplesAlways, PTL DEF Spec

=============================================================================
