-------------------------- MODULE ReassemblyProofs --------------------------
(***************************************************************************)
(* That every message is found that was captured whole, and only as it was *)
(* sent, for messages of all lengths and captures of any number of         *)
(* segments.  What is recursive is computed along the segments or along    *)
(* the turns of a loop: an induction is over the least or the greatest     *)
(* number that would be an exception.                                      *)
(***************************************************************************)
EXTENDS Capture, FiniteSetTheorems, WellFoundedInduction, TLAPS

-----------------------------------------------------------------------------
(* Numbers *)

\* Every nonempty set of natural numbers has a least element.
LEMMA LeastNumber ==
  ASSUME NEW S \in SUBSET Nat, S # {}
  PROVE  \E m \in S : \A k \in S : m =< k
<1>1. PICK D : D = {0..n : n \in S}
  OBVIOUS
<1>2. ASSUME NEW n \in S
      PROVE  0..n \in FiniteSubsetsOf(Nat)
  <2>1. 0..n \in SUBSET Nat /\ IsFiniteSet(0..n)
    BY FS_Interval
  <2>2. QED
    BY <2>1 DEF FiniteSubsetsOf
<1>3. D \subseteq FiniteSubsetsOf(Nat) /\ D # {}
  BY <1>1, <1>2
<1>4. IsWellFoundedOn(StrictSubsetOrdering(Nat), FiniteSubsetsOf(Nat))
  BY FS_StrictSubsetOrderingWellFounded
<1>5. \E x \in D : \A y \in D : ~ (<<y, x>> \in StrictSubsetOrdering(Nat))
  BY <1>3, <1>4, WFMin
<1>6. PICK m \in S : \A k \in S : ~ (<<0..k, 0..m>> \in StrictSubsetOrdering(Nat))
  BY <1>1, <1>5
<1>7. ASSUME NEW k \in S
      PROVE  m =< k
  <2>1. k \in Nat /\ m \in Nat
    OBVIOUS
  <2>2. k < m => <<0..k, 0..m>> \in StrictSubsetOrdering(Nat)
    BY <2>1 DEF StrictSubsetOrdering
  <2>3. QED
    BY <1>6, <2>1, <2>2
<1>8. QED
  BY <1>7

\* So a nonempty set of numbers up to n has a greatest one.
LEMMA GreatestNumber ==
  ASSUME NEW n \in Nat, NEW S \in SUBSET (1..n), S # {}
  PROVE  \E m \in S : \A k \in S : k =< m
<1>1. PICK D : D = {n - s : s \in S}
  OBVIOUS
<1>2. D \in SUBSET Nat /\ D # {}
  <2>1. \A s \in S : n - s \in Nat
    OBVIOUS
  <2>2. D \in SUBSET Nat
    BY <1>1, <2>1
  <2>3. D # {}
    BY <1>1
  <2>4. QED
    BY <2>2, <2>3
<1>3. PICK d \in D : \A e \in D : d =< e
  BY <1>2, LeastNumber
<1>4. PICK m \in S : d = n - m
  BY <1>1, <1>3
<1>5. ASSUME NEW k \in S
      PROVE  k =< m
  <2>1. n - k \in D
    BY <1>1
  <2>2. QED
    BY <1>3, <1>4, <2>1
<1>6. QED
  BY <1>5

LEMMA Modulo ==
  ASSUME NEW M \in Nat \ {0}, NEW x \in Int
  PROVE  /\ 0 =< x /\ x < M => x % M = x
         /\ M =< x /\ x < 2 * M => x % M = x - M
         /\ -M =< x /\ x < 0 => x % M = x + M
<1>1. 0 =< x /\ x < M => x % M = x
  OBVIOUS
<1>2. M =< x /\ x < 2 * M => x % M = x - M
  OBVIOUS
<1>3. -M =< x /\ x < 0 => x % M = x + M
  OBVIOUS
<1>4. QED
  BY <1>1, <1>2, <1>3

Steps(n, V) == [(1..n) \X V -> V]

Computes(n, V, b, G) ==
  \E f \in [0..n -> V] : f[0] = b /\ \A k \in 1..n : f[k] = G[<<k, f[k - 1]>>]

\* A value for each number up to n, each from the one before.
LEMMA Recursion ==
  ASSUME NEW n \in Nat, NEW V, NEW b \in V, NEW G \in Steps(n, V)
  PROVE  Computes(n, V, b, G)
<1> DEFINE Upto(m) == {f \in [0..m -> V] : f[0] = b /\ \A k \in 1..m : f[k] = G[<<k, f[k - 1]>>]}
           Bad == {m \in 0..n : Upto(m) = {}}
<1>1. SUFFICES ASSUME Bad # {}
               PROVE  FALSE
  <2>1. Bad = {} => Upto(n) # {}
    <3>1. n \in 0..n
      OBVIOUS
    <3>2. QED
      <4> HIDE DEF Upto
      <4>1. QED
        BY <3>1
  <2>2. Upto(n) # {} => Computes(n, V, b, G)
    BY DEF Computes
  <2>3. QED
    BY <1>1, <2>1, <2>2
<1>2. PICK m \in Bad : \A k \in Bad : m =< k
  <2>1. Bad \in SUBSET Nat
    OBVIOUS
  <2>2. QED
    BY <1>1, <2>1, LeastNumber
<1>3. m # 0
  <2>1. [k \in 0..0 |-> b] \in Upto(0)
    OBVIOUS
  <2>2. QED
    BY <1>2, <2>1
<1>4. m \in 1..n /\ m - 1 \in 0..n /\ m - 1 \notin Bad
  <2>1. m \in 0..n
    BY <1>2
  <2>2. m \in 1..n /\ m - 1 \in 0..n /\ ~(m =< m - 1)
    BY <1>3, <2>1
  <2>3. QED
    BY <1>2, <2>2
<1>5. PICK f : f \in Upto(m - 1)
  <2> HIDE DEF Upto
  <2>1. QED
    BY <1>4
<1>6. PICK g : g = [k \in 0..m |-> IF k = m THEN G[<<m, f[m - 1]>>] ELSE f[k]]
  OBVIOUS
<1>7. f \in [0..(m - 1) -> V] /\ f[0] = b /\ \A k \in 1..(m - 1) : f[k] = G[<<k, f[k - 1]>>]
  BY <1>5
<1>8. f[m - 1] \in V /\ <<m, f[m - 1]>> \in (1..n) \X V
  BY <1>4, <1>7
<1>9. g \in [0..m -> V]
  BY <1>4, <1>6, <1>7, <1>8 DEF Steps
<1>10. g[0] = b
  BY <1>4, <1>6, <1>7
<1>11. ASSUME NEW k \in 1..m
       PROVE  g[k] = G[<<k, g[k - 1]>>]
  <2>1. k - 1 \in 0..(m - 1) /\ g[k - 1] = f[k - 1]
    BY <1>4, <1>6
  <2>2. CASE k = m
    <3>1. g[m] = G[<<m, f[m - 1]>>] /\ g[m - 1] = f[m - 1]
      BY <1>4, <1>6, <2>1, <2>2
    <3>2. QED
      BY <2>2, <3>1, Zenon
  <2>3. CASE k # m
    <3>1. k \in 1..(m - 1)
      BY <1>4, <2>3
    <3>2. g[k] = f[k]
      BY <1>6, <2>3
    <3>3. QED
      BY <1>7, <2>1, <3>1, <3>2
  <2>4. QED
    BY <2>2, <2>3
<1>12. g \in Upto(m)
  BY <1>9, <1>10, <1>11
<1>13. QED
  BY <1>2, <1>12

-----------------------------------------------------------------------------
(* The wire *)

LEMMA Limits ==
  /\ Bodies \in Seq(Nat) /\ Len(Bodies) \in Nat
  /\ \A m \in 1..Len(Bodies) : Bodies[m] \in Nat
  /\ Modulus \in Nat \ {0} /\ EndOf[Len(Bodies)] < Modulus
  /\ Numbers \subseteq 0..(Modulus - 1)
BY ReassemblyAssumption DEF ReassemblyAssumption

\* The recursion that defines EndOf has a solution, so that EndOf is one.
LEMMA EndOfEquation ==
  EndOf = [m \in 0..Len(Bodies) |-> IF m = 0 THEN 0 ELSE EndOf[m - 1] + Bodies[m] + 1]
<1> DEFINE n == Len(Bodies)
           G == [x \in (1..n) \X Nat |-> x[2] + Bodies[x[1]] + 1]
<1>1. n \in Nat /\ G \in [(1..n) \X Nat -> Nat]
  BY Limits
<1>2. PICK f \in [0..n -> Nat] : f[0] = 0 /\ \A k \in 1..n : f[k] = G[<<k, f[k - 1]>>]
  <2>1. 0 \in Nat /\ G \in Steps(n, Nat)
    BY <1>1 DEF Steps
  <2>2. Computes(n, Nat, 0, G)
    <3> HIDE DEF n, G
    <3>1. QED
      BY <1>1, <2>1, Recursion
  <2>3. QED
    BY <2>2 DEF Computes
<1>3. ASSUME NEW m \in 0..n
      PROVE  f[m] = IF m = 0 THEN 0 ELSE f[m - 1] + Bodies[m] + 1
  <2>1. CASE m = 0
    BY <1>2, <2>1
  <2>2. CASE m # 0
    <3>1. m \in 1..n /\ m - 1 \in 0..n
      BY <1>1, <2>2
    <3>2. <<m, f[m - 1]>> \in (1..n) \X Nat
      BY <1>2, <3>1
    <3>3. f[m] = G[<<m, f[m - 1]>>]
      BY <1>2, <3>1
    <3>4. QED
      BY <2>2, <3>2, <3>3
  <2>3. QED
    BY <2>1, <2>2
<1>4. f = [m \in 0..n |-> IF m = 0 THEN 0 ELSE f[m - 1] + Bodies[m] + 1]
  BY <1>2, <1>3
<1>5. \E h : h = [m \in 0..Len(Bodies) |-> IF m = 0 THEN 0 ELSE h[m - 1] + Bodies[m] + 1]
  BY <1>4, Zenon
<1>6. QED
  BY <1>5, Zenon DEF EndOf

LEMMA EndOfType ==
  /\ EndOf \in [0..Len(Bodies) -> Nat]
  /\ EndOf[0] = 0
  /\ \A m \in 1..Len(Bodies) : EndOf[m] = EndOf[m - 1] + Bodies[m] + 1
<1> DEFINE n == Len(Bodies)
           Bad == {m \in 0..n : EndOf[m] \notin Nat}
<1>1. \A m \in 0..n : EndOf[m] = IF m = 0 THEN 0 ELSE EndOf[m - 1] + Bodies[m] + 1
  BY EndOfEquation
<1>2. n \in Nat
  BY Limits
<1>3. Bad = {}
  <2>1. SUFFICES ASSUME Bad # {}
                 PROVE  FALSE
    OBVIOUS
  <2>2. Bad \in SUBSET Nat
    BY <1>2
  <2>3. PICK m \in Bad : \A k \in Bad : m =< k
    BY <2>1, <2>2, LeastNumber
  <2>4. m # 0
    BY <1>1, <2>3
  <2>5. m \in 1..n /\ m - 1 \in 0..n /\ m - 1 \notin Bad
    BY <1>2, <2>3, <2>4
  <2>6. EndOf[m] = EndOf[m - 1] + Bodies[m] + 1
    BY <1>1, <2>3, <2>4
  <2>7. EndOf[m - 1] \in Nat /\ Bodies[m] \in Nat
    BY <2>5, Limits
  <2>8. QED
    BY <2>3, <2>6, <2>7
<1>4. DOMAIN EndOf = 0..n /\ EndOf = [m \in 0..n |-> EndOf[m]]
  BY EndOfEquation, Zenon
<1>5. EndOf \in [0..n -> Nat]
  BY <1>3, <1>4
<1>6. \A m \in 1..n : m \in 0..n /\ m # 0
  BY <1>2
<1>7. 0 \in 0..n
  BY <1>2
<1>8. QED
  BY <1>1, <1>5, <1>6, <1>7

\* Messages follow each other.
LEMMA EndOfGrows ==
  ASSUME NEW l \in 0..Len(Bodies), NEW m \in 0..Len(Bodies), l < m
  PROVE  EndOf[l] < Place(m) /\ Place(m) =< EndOf[m]
<1> DEFINE n == Len(Bodies)
           Bad == {k \in 0..n : l < k /\ ~(EndOf[l] < EndOf[k])}
<1>1. n \in Nat
  BY Limits
<1>2. ASSUME NEW k \in 1..n
      PROVE  /\ k - 1 \in 0..n /\ k \in 0..n
             /\ EndOf[k] \in Nat /\ EndOf[k - 1] \in Nat
             /\ EndOf[k - 1] < Place(k) /\ Place(k) =< EndOf[k] /\ EndOf[k - 1] < EndOf[k]
  <2>1. k - 1 \in 0..n /\ k \in 0..n
    BY <1>1
  <2>2. Bodies[k] \in Nat /\ EndOf[k] \in Nat /\ EndOf[k - 1] \in Nat
    BY <2>1, Limits, EndOfType
  <2>3. EndOf[k] = EndOf[k - 1] + Bodies[k] + 1
    BY EndOfType
  <2>4. QED
    BY <2>1, <2>2, <2>3 DEF Place
<1>3. EndOf[l] \in Nat
  BY EndOfType
<1>4. Bad = {}
  <2>1. SUFFICES ASSUME Bad # {}
                 PROVE  FALSE
    OBVIOUS
  <2>2. Bad \in SUBSET Nat
    BY <1>1
  <2>3. PICK k \in Bad : \A j \in Bad : k =< j
    BY <2>1, <2>2, LeastNumber
  <2>4. k \in 0..n /\ l < k /\ ~(EndOf[l] < EndOf[k])
    BY <2>3
  <2>5. k \in 1..n /\ k - 1 \in 0..n /\ k - 1 \notin Bad
    <3>1. k \in 1..n /\ k - 1 \in 0..n /\ ~(k =< k - 1)
      BY <1>1, <2>4
    <3>2. QED
      BY <2>3, <3>1
  <2>6. EndOf[k] \in Nat /\ EndOf[k - 1] \in Nat /\ EndOf[k - 1] < EndOf[k]
    BY <1>2, <2>5
  <2>7. CASE l = k - 1
    BY <2>4, <2>6, <2>7
  <2>8. CASE l # k - 1
    <3>1. l < k - 1
      BY <2>4, <2>8
    <3>2. EndOf[l] < EndOf[k - 1]
      BY <2>5, <3>1
    <3>3. QED
      BY <1>3, <2>4, <2>6, <3>2
  <2>9. QED
    BY <2>7, <2>8
<1>5. m \in 1..n /\ m - 1 \in 0..n
  BY <1>1
<1>6. EndOf[l] =< EndOf[m - 1]
  <2>1. CASE l = m - 1
    BY <1>3, <2>1
  <2>2. CASE l # m - 1
    <3>1. l < m - 1
      BY <1>5, <2>2
    <3>2. EndOf[l] < EndOf[m - 1]
      BY <1>4, <1>5, <3>1
    <3>3. QED
      BY <1>2, <1>3, <1>5, <3>2
  <2>3. QED
    BY <2>1, <2>2
<1>7. EndOf[m - 1] \in Nat /\ EndOf[m - 1] < Place(m) /\ Place(m) =< EndOf[m]
  BY <1>2, <1>5
<1>8. QED
  BY <1>3, <1>6, <1>7 DEF Place

Cells == [message : 1..Len(Bodies), part : Nat]

\* Every cell belongs to one message.
LEMMA WireFacts ==
  /\ Len(Wire) = EndOf[Len(Bodies)] /\ Len(Wire) \in Nat /\ Len(Wire) < Modulus
  /\ Wire \in Seq(Cells)
  /\ \A i \in 1..Len(Wire) : \E m \in 1..Len(Bodies) :
       i \in Place(m)..EndOf[m] /\ Wire[i] = [message |-> m, part |-> i - Place(m)]
<1> DEFINE n == Len(Bodies)
<1>1. n \in Nat /\ n \in 0..n /\ 0 \in 0..n /\ EndOf[n] \in Nat /\ EndOf[n] < Modulus
  BY Limits, EndOfType
<1>2. ASSUME NEW i \in 1..EndOf[n]
      PROVE  \E m \in 1..n : i \in Place(m)..EndOf[m]
  <2> DEFINE Ends == {m \in 0..n : i =< EndOf[m]}
  <2>1. n \in Ends
    BY <1>1
  <2>2. Ends \in SUBSET Nat
    BY <1>1
  <2>3. PICK m \in Ends : \A k \in Ends : m =< k
    BY <2>1, <2>2, LeastNumber
  <2>4. m \in 0..n /\ i =< EndOf[m]
    BY <2>3
  <2>5. m # 0
    BY <2>4, EndOfType
  <2>6. m \in 1..n /\ m - 1 \in 0..n /\ ~(m =< m - 1)
    BY <1>1, <2>4, <2>5
  <2>7. ~(i =< EndOf[m - 1])
    BY <2>3, <2>6
  <2>8. EndOf[m - 1] \in Nat /\ EndOf[m] \in Nat
    BY <2>4, <2>6, EndOfType
  <2>9. i \in Place(m)..EndOf[m]
    BY <2>4, <2>7, <2>8 DEF Place
  <2>10. QED
    BY <2>6, <2>9
<1>3. ASSUME NEW i \in 1..EndOf[n]
      PROVE  /\ Wire[i] \in Cells
             /\ \E m \in 1..n : i \in Place(m)..EndOf[m] /\ Wire[i] = [message |-> m, part |-> i - Place(m)]
  <2> DEFINE m == CHOOSE m \in 1..Len(Bodies) : i \in Place(m)..EndOf[m]
  <2>1. m \in 1..n /\ i \in Place(m)..EndOf[m]
    BY <1>2
  <2>2. Wire[i] = [message |-> m, part |-> i - Place(m)]
    BY DEF Wire
  <2>3. m - 1 \in 0..n
    BY <1>1, <2>1
  <2>4. i - Place(m) \in Nat
    <3> HIDE DEF m
    <3>1. Place(m) \in Nat /\ EndOf[m - 1] \in Nat
      BY <2>3, EndOfType DEF Place
    <3>2. QED
      BY <2>1, <3>1
  <2>5. QED
    <3> HIDE DEF m
    <3>1. QED
      BY <2>1, <2>2, <2>4 DEF Cells
<1>4. DOMAIN Wire = 1..EndOf[n] /\ Wire = [i \in 1..EndOf[n] |-> Wire[i]]
  BY DEF Wire
<1>5. Wire \in [1..EndOf[n] -> Cells]
  BY <1>3, <1>4
<1>6. Wire \in Seq(Cells) /\ Len(Wire) = EndOf[n]
  BY <1>1, <1>5
<1>7. QED
  BY <1>1, <1>3, <1>6

LEMMA PlaceFacts ==
  ASSUME NEW m \in 1..Len(Bodies)
  PROVE  /\ Place(m) \in 1..Len(Wire) /\ EndOf[m] \in 1..Len(Wire) /\ Place(m) =< EndOf[m]
         /\ EndOf[m] = Place(m) + Bodies[m] /\ Bodies[m] \in Nat
         /\ m + 1 \in 1..Len(Bodies) => Place(m + 1) = EndOf[m] + 1
         /\ \A l \in 1..Len(Bodies) : l < m => EndOf[l] < Place(m)
<1> DEFINE n == Len(Bodies)
<1>1. n \in Nat /\ m - 1 \in 0..n /\ m \in 0..n /\ n \in 0..n
  BY Limits
<1>2. EndOf[m - 1] \in Nat /\ EndOf[m] \in Nat /\ EndOf[n] \in Nat /\ Bodies[m] \in Nat
  BY <1>1, EndOfType, Limits
<1>3. EndOf[m] = EndOf[m - 1] + Bodies[m] + 1
  BY EndOfType
<1>4. EndOf[m] =< EndOf[n]
  <2>1. CASE m = n
    BY <1>2, <2>1
  <2>2. CASE m # n
    <3>1. m < n
      BY <1>1, <2>2
    <3>2. EndOf[m] < Place(n) /\ Place(n) =< EndOf[n]
      BY <1>1, <3>1, EndOfGrows
    <3>3. Place(n) \in Int
      BY <1>1, <2>2, EndOfType DEF Place
    <3>4. QED
      BY <1>2, <3>2, <3>3
  <2>3. QED
    BY <2>1, <2>2
<1>5. m + 1 \in 1..n => Place(m + 1) = EndOf[m] + 1
  BY <1>1 DEF Place
<1>6. \A l \in 1..n : l < m => EndOf[l] < Place(m)
  <2>1. \A l \in 1..n : l \in 0..n
    BY <1>1
  <2>2. QED
    BY <1>1, <2>1, EndOfGrows
<1>7. Len(Wire) = EndOf[n]
  BY WireFacts
<1>8. Place(m) = EndOf[m - 1] + 1
  BY DEF Place
<1>9. EndOf[m] = Place(m) + Bodies[m]
  BY <1>2, <1>3, <1>8
<1>10. /\ Place(m) \in Nat /\ Place(m) >= 1 /\ Place(m) =< EndOf[m] /\ EndOf[m] =< Len(Wire)
       /\ EndOf[m] \in Nat /\ Len(Wire) \in Nat
  <2>1. Place(m) \in Nat /\ Place(m) >= 1
    BY <1>2, <1>8
  <2>2. QED
    BY <1>2, <1>4, <1>7, <1>9, <2>1
<1>11. Place(m) \in 1..Len(Wire) /\ EndOf[m] \in 1..Len(Wire)
  BY <1>10
<1>12. QED
  BY <1>2, <1>5, <1>6, <1>9, <1>10, <1>11, Zenon

\* The headers in the wire are where messages begin.
LEMMA WireHeaders ==
  ASSUME NEW i \in 1..Len(Wire)
  PROVE  /\ Wire[i].message \in 1..Len(Bodies)
         /\ Wire[i].part = 0 => i = Place(Wire[i].message)
         /\ \A m \in 1..Len(Bodies) : i = Place(m) => Wire[i].part = 0 /\ Wire[i].message = m
<1>1. PICK l \in 1..Len(Bodies) :
        i \in Place(l)..EndOf[l] /\ Wire[i] = [message |-> l, part |-> i - Place(l)]
  BY WireFacts
<1>2. Wire[i].message = l /\ Wire[i].part = i - Place(l)
  BY <1>1
<1>3. Place(l) \in Nat /\ Place(l) =< EndOf[l] /\ EndOf[l] \in Nat
  BY <1>1, PlaceFacts
<1>4. Wire[i].part = 0 => i = Place(l)
  BY <1>2, <1>3
<1>5. ASSUME NEW m \in 1..Len(Bodies), i = Place(m)
      PROVE  l = m
  <2>1. Place(m) =< EndOf[m] /\ Place(m) \in Nat /\ EndOf[m] \in Nat
    BY PlaceFacts
  <2>2. ~(l < m)
    <3>1. l < m => EndOf[l] < Place(m)
      BY <1>1, PlaceFacts
    <3>2. QED
      BY <1>1, <1>3, <1>5, <2>1, <3>1
  <2>3. ~(m < l)
    <3>1. m < l => EndOf[m] < Place(l)
      BY <1>1, PlaceFacts
    <3>2. QED
      BY <1>1, <1>3, <1>5, <2>1, <3>1
  <2>4. l \in Int /\ m \in Int
    BY <1>1
  <2>5. QED
    BY <2>2, <2>3, <2>4
<1>6. \A m \in 1..Len(Bodies) : i = Place(m) => Wire[i].part = 0 /\ Wire[i].message = m
  <2>1. ASSUME NEW m \in 1..Len(Bodies), i = Place(m)
        PROVE  Wire[i].part = 0 /\ Wire[i].message = m
    BY <1>2, <1>3, <1>5, <2>1
  <2>2. QED
    BY <2>1
<1>7. QED
  BY <1>1, <1>2, <1>4, <1>6

-----------------------------------------------------------------------------
(* The order *)

\* Packets: their times are their places in the capture.
Packets(p, n) ==
  /\ DOMAIN p = 1..n
  /\ \A t \in 1..n : p[t].sequence \in Nat /\ p[t].time = t

LEMMA BeforeIsOrder ==
  ASSUME NEW n \in Nat, NEW p, Packets(p, n), NEW t \in 1..n, NEW u \in 1..n
  PROVE  /\ ~(Before(p[t], p[u]) /\ Before(p[u], p[t])) /\ ~Before(p[t], p[t])
         /\ t = u \/ Before(p[t], p[u]) \/ Before(p[u], p[t])
         /\ \A v \in 1..n : Before(p[t], p[u]) /\ Before(p[u], p[v]) => Before(p[t], p[v])
<1>1. \A v \in 1..n : p[v].sequence \in Nat /\ p[v].time = v
  BY DEF Packets
<1>2. QED
  BY <1>1 DEF Before

\* The place of a packet in the order is the number of those that are not after it.
LEMMA SortExists ==
  ASSUME NEW n \in Nat, NEW p, Packets(p, n)
  PROVE  \E s \in Bijection(DOMAIN p, Range(p)) : \A j, k \in DOMAIN s : j < k => Before(s[j], s[k])
<1> DEFINE Upto(t) == {u \in 1..n : u = t \/ Before(p[u], p[t])}
           rank == [t \in 1..n |-> Cardinality(Upto(t))]
<1>1. IsFiniteSet(1..n) /\ Cardinality(1..n) = n
  BY FS_Interval
<1>2. ASSUME NEW t \in 1..n
      PROVE  /\ IsFiniteSet(Upto(t)) /\ Cardinality(Upto(t)) \in 1..n
  <2>1. Upto(t) \in SUBSET (1..n) /\ t \in Upto(t)
    OBVIOUS
  <2>2. IsFiniteSet(Upto(t)) /\ Cardinality(Upto(t)) =< n
    <3> HIDE DEF Upto
    <3>1. QED
      BY <1>1, <2>1, FS_Subset
  <2>3. Cardinality(Upto(t)) \in Nat /\ Cardinality(Upto(t)) # 0
    <3> HIDE DEF Upto
    <3>1. QED
      BY <2>1, <2>2, FS_CardinalityType, FS_EmptySet
  <2>4. QED
    BY <2>2, <2>3
<1>3. ASSUME NEW t \in 1..n, NEW u \in 1..n, Before(p[t], p[u])
      PROVE  rank[t] < rank[u]
  <2>1. Upto(t) \in SUBSET Upto(u)
    BY <1>3, BeforeIsOrder
  <2>2. u \in Upto(u) /\ u \notin Upto(t)
    BY <1>3, BeforeIsOrder
  <2>3. Cardinality(Upto(t)) =< Cardinality(Upto(u)) /\ Cardinality(Upto(t)) # Cardinality(Upto(u))
    <3>1. IsFiniteSet(Upto(u)) /\ Upto(t) # Upto(u)
      BY <1>2, <2>2
    <3>2. QED
      <4> HIDE DEF Upto
      <4>1. QED
        BY <2>1, <3>1, FS_Subset
  <2>4. Cardinality(Upto(t)) \in Int /\ Cardinality(Upto(u)) \in Int
    <3> HIDE DEF Upto
    <3>1. QED
      BY <1>2
  <2>5. rank[t] = Cardinality(Upto(t)) /\ rank[u] = Cardinality(Upto(u))
    OBVIOUS
  <2>6. QED
    <3> HIDE DEF Upto, rank
    <3>1. QED
      BY <2>3, <2>4, <2>5
<1>4. rank \in [1..n -> 1..n]
  <2>1. \A t \in 1..n : Cardinality(Upto(t)) \in 1..n
    BY <1>2
  <2>2. QED
    BY <2>1
<1> HIDE DEF Upto, rank
<1>5. rank \in Injection(1..n, 1..n)
  <2>1. ASSUME NEW t \in 1..n, NEW u \in 1..n, rank[t] = rank[u]
        PROVE  t = u
    <3>1. rank[t] \in Int /\ ~(rank[t] < rank[u]) /\ ~(rank[u] < rank[t])
      BY <1>4, <2>1
    <3>2. QED
      BY <1>3, <3>1, BeforeIsOrder
  <2>2. QED
    BY <1>4, <2>1 DEF Injection, IsInjective
<1>6. rank \in Surjection(1..n, 1..n)
  BY <1>1, <1>5, FS_Injection
<1> DEFINE At(k) == CHOOSE t \in 1..n : rank[t] = k
           s == [k \in 1..n |-> p[At(k)]]
<1>7. ASSUME NEW k \in 1..n
      PROVE  At(k) \in 1..n /\ rank[At(k)] = k
  <2>1. \E t \in 1..n : rank[t] = k
    BY <1>6 DEF Surjection
  <2>2. QED
    BY <2>1
<1>8. ASSUME NEW t \in 1..n
      PROVE  rank[t] \in 1..n /\ At(rank[t]) = t
  <2>1. rank[t] \in 1..n
    BY <1>4
  <2>2. At(rank[t]) \in 1..n /\ rank[At(rank[t])] = rank[t]
    BY <1>7, <2>1
  <2>3. QED
    <3> HIDE DEF At
    <3>1. QED
      BY <1>5, <2>1, <2>2 DEF Injection, IsInjective
<1> HIDE DEF At
<1>9. DOMAIN p = 1..n /\ \A t \in 1..n : p[t].time = t
  BY DEF Packets
<1>10. ASSUME NEW j \in 1..n, NEW k \in 1..n, j < k
       PROVE  Before(s[j], s[k])
  <2>1. At(j) \in 1..n /\ At(k) \in 1..n /\ rank[At(j)] = j /\ rank[At(k)] = k
    BY <1>7
  <2>2. At(j) # At(k) /\ ~(rank[At(k)] < rank[At(j)])
    BY <1>10, <2>1
  <2>3. Before(p[At(j)], p[At(k)])
    BY <1>3, <2>1, <2>2, BeforeIsOrder
  <2>4. QED
    BY <2>3
<1>11. s \in [1..n -> Range(p)]
  BY <1>7, <1>9 DEF Range
<1>12. IsInjective(s)
  <2>1. ASSUME NEW j \in 1..n, NEW k \in 1..n, s[j] = s[k]
        PROVE  j = k
    <3>1. p[At(j)].time = p[At(k)].time
      BY <2>1
    <3>2. At(j) = At(k)
      BY <1>7, <1>9, <3>1
    <3>3. QED
      BY <1>7, <3>2
  <2>2. DOMAIN s = 1..n
    OBVIOUS
  <2>3. QED
    <3> HIDE DEF s
    <3>1. QED
      BY <2>1, <2>2 DEF IsInjective
<1>13. \A x \in Range(p) : \E k \in 1..n : s[k] = x
  <2>1. ASSUME NEW x \in Range(p)
        PROVE  \E k \in 1..n : s[k] = x
    <3>1. PICK t \in 1..n : x = p[t]
      BY <1>9 DEF Range
    <3>2. rank[t] \in 1..n /\ s[rank[t]] = p[t]
      BY <1>8
    <3>3. QED
      BY <3>1, <3>2
  <2>2. QED
    BY <2>1
<1>14. s \in Bijection(1..n, Range(p)) /\ DOMAIN s = 1..n
  <2>1. DOMAIN s = 1..n
    OBVIOUS
  <2>2. QED
    <3> HIDE DEF s
    <3>1. QED
      BY <1>11, <1>12, <1>13, <2>1 DEF Bijection, Injection, Surjection
<1>15. QED
  <2> HIDE DEF s
  <2>1. QED
    BY <1>9, <1>10, <1>14

\* What is sorted is what was captured.
Ordered(s, p, n) ==
  /\ s \in [1..n -> Range(p)] /\ s \in Seq(Range(p)) /\ Len(s) = n
  /\ \A t \in 1..n : \E k \in 1..n : s[k] = p[t]
  /\ \A k \in 1..n : s[k].time \in 1..n /\ s[k] = p[s[k].time]
  /\ \A j, k \in 1..n : j < k => Before(s[j], s[k])

LEMMA SortedFacts ==
  ASSUME NEW n \in Nat, NEW p, Packets(p, n)
  PROVE  Ordered(Sorted(p), p, n)
<1> DEFINE s == Sorted(p)
<1>1. s \in Bijection(DOMAIN p, Range(p)) /\ \A j, k \in DOMAIN s : j < k => Before(s[j], s[k])
  BY SortExists, Zenon DEF Sorted
<1> HIDE DEF s
<1>2. DOMAIN p = 1..n /\ \A t \in 1..n : p[t].time = t
  BY DEF Packets
<1>3. s \in [1..n -> Range(p)] /\ \A x \in Range(p) : \E k \in 1..n : s[k] = x
  BY <1>1, <1>2 DEF Bijection, Injection, Surjection
<1>4. s \in Seq(Range(p)) /\ Len(s) = n
  BY <1>3
<1>5. \A t \in 1..n : \E k \in 1..n : s[k] = p[t]
  BY <1>2, <1>3 DEF Range
<1>6. ASSUME NEW k \in 1..n
      PROVE  s[k].time \in 1..n /\ s[k] = p[s[k].time]
  <2>1. PICK t \in 1..n : s[k] = p[t]
    BY <1>2, <1>3 DEF Range
  <2>2. QED
    BY <1>2, <2>1
<1>7. QED
  <2>1. DOMAIN s = 1..n
    BY <1>3
  <2>2. Ordered(s, p, n)
    BY <1>1, <1>3, <1>4, <1>5, <1>6, <2>1 DEF Ordered
  <2>3. QED
    BY <2>2 DEF s

-----------------------------------------------------------------------------
(* The sequence numbers *)

\* How far one cell of the wire is from another, going forward: around the modulus, a cell
\* before it is farther away than the wire is long.
LEMMA Offset ==
  ASSUME NEW number \in 0..(Modulus - 1), NEW a \in 1..Len(Wire), NEW c \in 1..Len(Wire)
  PROVE  /\ (number + a) % Modulus \in 0..(Modulus - 1)
         /\ (((number + a) % Modulus) - ((number + c) % Modulus)) % Modulus
              = IF c =< a THEN a - c ELSE Modulus - (c - a)
<1> DEFINE M == Modulus
           x == (number + a) % M
           y == (number + c) % M
<1>1. M \in Nat \ {0} /\ number \in Nat /\ number < M /\ Len(Wire) \in Nat /\ Len(Wire) < M
  BY Limits, WireFacts
<1>2. a \in Nat /\ c \in Nat /\ 1 =< a /\ a < M /\ 1 =< c /\ c < M
  BY <1>1
<1>3. x = IF number + a < M THEN number + a ELSE (number + a) - M
  <2>1. number + a \in Int /\ 0 =< number + a /\ number + a < 2 * M
    BY <1>1, <1>2
  <2>2. CASE number + a < M
    <3>1. (number + a) % M = number + a
      BY <1>1, <2>1, <2>2, Modulo
    <3>2. QED
      BY <2>2, <3>1
  <2>3. CASE ~(number + a < M)
    <3>1. M =< number + a
      BY <1>1, <1>2, <2>3
    <3>2. ASSUME NEW z \in Int, M =< z, z < 2 * M
          PROVE  z % M = z - M
      BY <1>1, <3>2, Modulo
    <3>3. (number + a) % M = (number + a) - M
      BY <2>1, <3>1, <3>2, Zenon
    <3>4. QED
      BY <2>3, <3>3
  <2>4. QED
    BY <2>2, <2>3
<1>4. y = IF number + c < M THEN number + c ELSE (number + c) - M
  <2>1. number + c \in Int /\ 0 =< number + c /\ number + c < 2 * M
    BY <1>1, <1>2
  <2>2. CASE number + c < M
    <3>1. (number + c) % M = number + c
      BY <1>1, <2>1, <2>2, Modulo
    <3>2. QED
      BY <2>2, <3>1
  <2>3. CASE ~(number + c < M)
    <3>1. M =< number + c
      BY <1>1, <1>2, <2>3
    <3>2. ASSUME NEW z \in Int, M =< z, z < 2 * M
          PROVE  z % M = z - M
      BY <1>1, <3>2, Modulo
    <3>3. (number + c) % M = (number + c) - M
      BY <2>1, <3>1, <3>2, Zenon
    <3>4. QED
      BY <2>3, <3>3
  <2>4. QED
    BY <2>2, <2>3
<1> HIDE DEF x, y
<1>5. x - y \in Int /\ -M =< x - y /\ x - y < M
  BY <1>1, <1>2, <1>3, <1>4
<1>6. (x - y) % M = IF 0 =< x - y THEN x - y ELSE x - y + M
  BY <1>1, <1>5, Modulo
<1>7. (x - y) % M = IF c =< a THEN a - c ELSE M - (c - a)
  BY <1>1, <1>2, <1>3, <1>4, <1>6
<1>8. x \in 0..(M - 1)
  BY <1>1, <1>2, <1>3
<1>9. QED
  BY <1>7, <1>8, Zenon DEF x, y

\* What is in a segment.
LEMMA SegmentFacts ==
  ASSUME NEW number \in 0..(Modulus - 1), NEW a \in 1..Len(Wire), NEW b \in 1..Len(Wire),
         a =< b, NEW t \in Nat
  PROVE  LET s == Segment(number, a, b, t) IN
         /\ s.sequence = (number + a) % Modulus /\ s.sequence \in 0..(Modulus - 1)
         /\ s.time = t
         /\ s.cells \in Seq(Cells) /\ Len(s.cells) = b - a + 1
         /\ \A k \in 1..(b - a + 1) : s.cells[k] = Wire[a + k - 1]
<1> DEFINE s == Segment(number, a, b, t)
<1>1. s.sequence = (number + a) % Modulus /\ s.time = t /\ s.cells = SubSeq(Wire, a, b)
  BY DEF Segment
<1>2. (number + a) % Modulus \in 0..(Modulus - 1)
  BY Limits, WireFacts, Offset, Zenon
<1>3. Wire \in Seq(Cells) /\ Len(Wire) \in Nat
  BY WireFacts
<1>4. /\ SubSeq(Wire, a, b) \in Seq(Cells) /\ Len(SubSeq(Wire, a, b)) = b - a + 1
      /\ \A k \in 1..(b - a + 1) : SubSeq(Wire, a, b)[k] = Wire[a + k - 1]
  BY <1>3
<1>5. QED
  BY <1>1, <1>2, <1>4

\* If the sequence numbers do not wrap, a segment has the cells from a to b and no other.
LEMMA HasFacts ==
  ASSUME NEW number \in 0..(Modulus - 1), ~Wraps(number),
         NEW a \in 1..Len(Wire), NEW b \in 1..Len(Wire), a =< b, NEW t \in Nat
  PROVE  /\ Segment(number, a, b, t).sequence = number + a
         /\ \A i \in 1..Len(Wire) : Has(number, Segment(number, a, b, t), i) <=> a =< i /\ i =< b
<1> DEFINE s == Segment(number, a, b, t)
<1>1. /\ Modulus \in Nat \ {0} /\ Len(Wire) \in Nat /\ number \in Nat
      /\ number + Len(Wire) < Modulus
  BY Limits, WireFacts DEF Wraps
<1>2. ASSUME NEW i \in 1..Len(Wire)
      PROVE  (number + i) % Modulus = number + i
  <2>1. number + i \in Int /\ 0 =< number + i /\ number + i < Modulus
    BY <1>1
  <2>2. QED
    BY <1>1, <2>1, Modulo
<1>3. s.sequence = number + a /\ Len(s.cells) = b - a + 1
  BY <1>2, SegmentFacts
<1> HIDE DEF s
<1>4. ASSUME NEW i \in 1..Len(Wire)
      PROVE  Has(number, s, i) <=> a =< i /\ i =< b
  <2>1. ASSUME NEW k \in 1..Len(s.cells)
        PROVE  (s.sequence + k - 1) % Modulus = number + a + k - 1
    <3>1. a + k - 1 \in 1..Len(Wire)
      BY <1>1, <1>3
    <3>2. s.sequence + k - 1 = number + (a + k - 1) /\ number + (a + k - 1) = number + a + k - 1
      BY <1>1, <1>3
    <3>3. (number + (a + k - 1)) % Modulus = number + (a + k - 1)
      BY <1>2, <3>1
    <3>4. QED
      BY <3>2, <3>3, Zenon
  <2>2. Has(number, s, i) <=> \E k \in 1..Len(s.cells) : number + i = number + a + k - 1
    BY <1>2, <2>1 DEF Has
  <2>3. ASSUME a =< i, i =< b
        PROVE  i - a + 1 \in 1..Len(s.cells) /\ number + i = number + a + (i - a + 1) - 1
    BY <1>1, <1>3, <2>3
  <2>4. ASSUME NEW k \in 1..Len(s.cells), number + i = number + a + k - 1
        PROVE  a =< i /\ i =< b
    BY <1>1, <1>3, <2>4
  <2>5. QED
    BY <2>2, <2>3, <2>4
<1>5. QED
  BY <1>3, <1>4 DEF s

-----------------------------------------------------------------------------
(* Sequences *)

LEMMA SubSeqFacts ==
  ASSUME NEW S, NEW q \in Seq(S), NEW i \in 1..(Len(q) + 1), NEW j \in 0..Len(q), i =< j + 1
  PROVE  /\ SubSeq(q, i, j) \in Seq(S) /\ Len(SubSeq(q, i, j)) = j - i + 1
         /\ \A k \in 1..(j - i + 1) : SubSeq(q, i, j)[k] = q[i + k - 1]
<1>1. Len(q) \in Nat
  OBVIOUS
<1>2. SubSeq(q, i, j) \in Seq(S) /\ Len(SubSeq(q, i, j)) = j - i + 1
  BY <1>1
<1>3. \A k \in 1..(j - i + 1) : SubSeq(q, i, j)[k] = q[i + k - 1]
  BY <1>1
<1>4. QED
  BY <1>2, <1>3

Concatenates(c, q, r, S) ==
  /\ c \in Seq(S) /\ Len(c) = Len(q) + Len(r)
  /\ \A x \in 1..Len(q) : c[x] = q[x]
  /\ \A x \in 1..Len(r) : c[Len(q) + x] = r[x]

LEMMA ConcatFacts ==
  ASSUME NEW S, NEW q \in Seq(S), NEW r \in Seq(S)
  PROVE  Concatenates(q \o r, q, r, S)
BY DEF Concatenates

-----------------------------------------------------------------------------
(* The stream *)

Streams == [cells: Seq(Cells), times: Seq(Nat)]

\* A stretch of the wire from the cell first on.
Part(v, first) ==
  /\ v \in Streams
  /\ Len(v.times) = Len(v.cells)
  /\ first + Len(v.cells) =< Len(Wire) + 1
  /\ \A x \in 1..Len(v.cells) : v.cells[x] = Wire[first + x - 1]

LEMMA ExtendedType ==
  ASSUME NEW v \in Streams, NEW base \in Nat,
         NEW s, s.sequence \in Nat, s.time \in Nat, s.cells \in Seq(Cells)
  PROVE  Extended(v, s, base) \in Streams
<1> DEFINE start == (s.sequence - base) % Modulus
           n == Len(v.cells)
           rest == SubSeq(s.cells, n - start + 1, Len(s.cells))
           marks == [k \in 1..Len(rest) |-> s.time]
<1>1. start \in Nat
  <2>1. s.sequence - base \in Int /\ Modulus \in Nat \ {0}
    BY Limits
  <2>2. QED
    BY <2>1
<1>2. v.cells \in Seq(Cells) /\ v.times \in Seq(Nat) /\ n \in Nat
  BY DEF Streams
<1>3. CASE start > n \/ n - start >= Len(s.cells)
  <2>1. Extended(v, s, base) = v
    BY <1>3, Zenon DEF Extended
  <2>2. QED
    BY <2>1
<1>4. CASE ~(start > n \/ n - start >= Len(s.cells))
  <2>1. Extended(v, s, base) = [cells |-> v.cells \o rest, times |-> v.times \o marks]
    BY <1>4, Zenon DEF Extended
  <2> HIDE DEF start, n
  <2>2. n - start + 1 \in 1..Len(s.cells) /\ Len(s.cells) \in Nat
    BY <1>1, <1>2, <1>4
  <2>3. rest \in Seq(Cells)
    BY <2>2
  <2>4. marks \in Seq(Nat)
    <3>1. Len(rest) \in Nat
      BY <2>3
    <3> HIDE DEF rest
    <3>2. QED
      BY <3>1
  <2> HIDE DEF rest, marks
  <2>5. v.cells \o rest \in Seq(Cells) /\ v.times \o marks \in Seq(Nat)
    BY <1>2, <2>3, <2>4
  <2>6. QED
    BY <2>1, <2>5 DEF Streams
<1>5. QED
  BY <1>3, <1>4

\* What a segment that reaches past the end e of the stretch, and has no gap before it, adds.
Adds(v, r, first, b, time) ==
  /\ Len(r.cells) = b - first + 1
  /\ \A x \in 1..Len(r.cells) : r.times[x] = IF x =< Len(v.cells) THEN v.times[x] ELSE time

Takes(v, r, first, a, b, time) ==
  LET next == first + Len(v.cells) IN
  /\ Part(r, first)
  /\ first =< a /\ a =< next /\ next =< b => Adds(v, r, first, b, time)
  /\ ~(first =< a /\ a =< next /\ next =< b) => r = v

LEMMA ExtendedFacts ==
  ASSUME NEW number \in 0..(Modulus - 1), NEW first \in 1..Len(Wire),
         NEW a \in 1..Len(Wire), NEW b \in 1..Len(Wire), a =< b, NEW t \in Nat,
         NEW v, Part(v, first)
  PROVE  Takes(v, Extended(v, Segment(number, a, b, t), (number + first) % Modulus), first, a, b, t)
<1> DEFINE s == Segment(number, a, b, t)
           base == (number + first) % Modulus
           r == Extended(v, s, base)
           n == Len(v.cells)
           next == first + n
           start == (s.sequence - base) % Modulus
           rest == SubSeq(s.cells, n - start + 1, Len(s.cells))
           marks == [k \in 1..Len(rest) |-> s.time]
<1>1. /\ Modulus \in Nat /\ Len(Wire) \in Nat /\ Len(Wire) < Modulus
      /\ first \in Nat /\ a \in Nat /\ b \in Nat /\ 1 =< first /\ b =< Len(Wire) /\ 1 =< a
  BY Limits, WireFacts
<1>2. /\ s.sequence = (number + a) % Modulus /\ s.time = t
      /\ s.cells \in Seq(Cells) /\ Len(s.cells) = b - a + 1
      /\ \A k \in 1..(b - a + 1) : s.cells[k] = Wire[a + k - 1]
  BY SegmentFacts
<1>3. start = IF first =< a THEN a - first ELSE Modulus - (first - a)
  <2>1. (((number + a) % Modulus) - base) % Modulus
          = IF first =< a THEN a - first ELSE Modulus - (first - a)
    BY Offset, Zenon
  <2>2. s.sequence = (number + a) % Modulus
    BY <1>2
  <2> HIDE DEF s, base
  <2>3. QED
    BY <2>1, <2>2, Zenon
<1>4. /\ v.cells \in Seq(Cells) /\ v.times \in Seq(Nat) /\ n \in Nat /\ Len(v.times) = n
      /\ first + n =< Len(Wire) + 1
      /\ \A x \in 1..n : v.cells[x] = Wire[first + x - 1]
  BY DEF Part, Streams
<1> HIDE DEF s, base, start, n
<1>5. (start > n \/ n - start >= Len(s.cells)) <=> ~(first =< a /\ a =< next /\ next =< b)
  <2>1. CASE first =< a
    BY <1>1, <1>2, <1>3, <1>4, <2>1
  <2>2. CASE ~(first =< a)
    <3>1. start = Modulus - (first - a)
      BY <1>3, <2>2
    <3>2. start > n
      BY <1>1, <1>4, <2>2, <3>1
    <3>3. QED
      BY <2>2, <3>2
  <2>3. QED
    BY <2>1, <2>2
<1>6. ASSUME ~(first =< a /\ a =< next /\ next =< b)
      PROVE  r = v
  <2>1. start > n \/ n - start >= Len(s.cells)
    BY <1>5, <1>6
  <2>2. QED
    BY <2>1, Zenon DEF Extended, start, n
<1>7. ASSUME first =< a, a =< next, next =< b
      PROVE  Part(r, first) /\ Adds(v, r, first, b, t)
  <2>1. ~(start > n \/ n - start >= Len(s.cells))
    BY <1>5, <1>7
  <2>2. r = [cells |-> v.cells \o rest, times |-> v.times \o marks]
    BY <2>1, Zenon DEF Extended, start, n
  <2>3. n - start + 1 = next - a + 1 /\ Len(s.cells) = b - a + 1
    BY <1>1, <1>2, <1>3, <1>4, <1>7
  <2>4. next - a + 1 \in 1..(b - a + 1) /\ b - a + 1 \in Nat
    BY <1>1, <1>4, <1>7
  <2>5. rest = SubSeq(s.cells, next - a + 1, b - a + 1)
    BY <2>3
  <2>6. rest \in Seq(Cells) /\ Len(rest) = b - next + 1
    <3>1. Len(rest) = (b - a + 1) - (next - a + 1) + 1 /\ rest \in Seq(Cells)
      <4> DEFINE i == next - a + 1
                 j == b - a + 1
      <4>1. s.cells \in Seq(Cells) /\ i \in 1..j /\ j \in Nat /\ j =< Len(s.cells)
        BY <1>2, <2>4
      <4> HIDE DEF rest, i, j
      <4>2. i \in 1..Len(s.cells) /\ j \in 1..Len(s.cells) /\ i =< j
        BY <1>2, <4>1
      <4>3. SubSeq(s.cells, i, j) \in Seq(Cells) /\ Len(SubSeq(s.cells, i, j)) = j - i + 1
        BY <4>1, <4>2, SubSeqFacts
      <4>4. rest = SubSeq(s.cells, i, j)
        BY <2>5 DEF i, j
      <4>5. Len(rest) = j - i + 1 /\ rest \in Seq(Cells)
        BY <4>3, <4>4
      <4>6. QED
        BY <4>5 DEF i, j
    <3>2. (b - a + 1) - (next - a + 1) + 1 = b - next + 1
      BY <1>1, <1>4
    <3>3. QED
      BY <3>1, <3>2
  <2>7. ASSUME NEW k \in 1..Len(rest)
        PROVE  rest[k] = Wire[next + k - 1]
    <3> HIDE DEF rest
    <3>1. k \in Int /\ 1 =< k /\ k =< b - next + 1
      BY <2>6
    <3>2. (next - a + 1) + k - 1 = next - a + k /\ next - a + k \in 1..(b - a + 1)
      <4> HIDE DEF next
      <4>1. next \in Int
        BY <1>1, <1>4 DEF next
      <4>2. QED
        BY <1>1, <1>7, <3>1, <4>1
    <3>10. rest[k] = s.cells[(next - a + 1) + k - 1]
      <4>1. next - a + 1 \in 1..(Len(s.cells) + 1) /\ b - a + 1 \in 0..Len(s.cells)
            /\ next - a + 1 =< (b - a + 1) + 1
        BY <1>2, <2>4
      <4>2. k \in 1..((b - a + 1) - (next - a + 1) + 1)
        <5> HIDE DEF next
        <5>1. next \in Int
          BY <1>1, <1>4 DEF next
        <5>2. QED
          BY <1>1, <3>1, <5>1
      <4> HIDE DEF next
      <4>3. QED
        BY <1>2, <2>5, <4>1, <4>2, SubSeqFacts
    <3>3. s.cells[next - a + k] = Wire[a + (next - a + k) - 1]
      BY <1>2, <3>2
    <3>4. a + (next - a + k) - 1 = next + k - 1
      BY <1>1, <1>4, <2>6
    <3>5. QED
      BY <3>10, <3>2, <3>3, <3>4
  <2>8. marks \in Seq(Nat) /\ Len(marks) = Len(rest) /\ \A k \in 1..Len(rest) : marks[k] = t
    <3>1. Len(rest) \in Nat
      BY <2>6
    <3> HIDE DEF rest
    <3>2. QED
      BY <1>2, <3>1
  <2> HIDE DEF rest, marks
  <2>9. /\ r.cells \in Seq(Cells) /\ r.times \in Seq(Nat)
        /\ Len(r.cells) = n + Len(rest) /\ Len(r.times) = n + Len(rest)
        /\ \A x \in 1..n : r.cells[x] = v.cells[x] /\ r.times[x] = v.times[x]
        /\ \A x \in 1..Len(rest) : r.cells[n + x] = rest[x] /\ r.times[n + x] = marks[x]
    <3>1. Len(v.cells) = n
      BY DEF n
    <3>2. r.cells = v.cells \o rest /\ r.times = v.times \o marks
      BY <2>2
    <3> HIDE DEF r
    <3>3. v.cells \in Seq(Cells) /\ rest \in Seq(Cells) /\ v.times \in Seq(Nat) /\ marks \in Seq(Nat)
      BY <1>4, <2>6, <2>8
    <3>4. Concatenates(v.cells \o rest, v.cells, rest, Cells)
      BY <3>3, ConcatFacts
    <3>5. Concatenates(v.times \o marks, v.times, marks, Nat)
      BY <3>3, ConcatFacts
    <3>6. Concatenates(r.cells, v.cells, rest, Cells) /\ Concatenates(r.times, v.times, marks, Nat)
      BY <3>2, <3>4, <3>5
    <3>7. Len(v.times) = n /\ Len(marks) = Len(rest)
      BY <1>4, <2>8
    <3>8. QED
      BY <3>1, <3>6, <3>7 DEF Concatenates
  <2>10. n + Len(rest) = b - first + 1
    BY <1>1, <1>4, <2>6
  <2>11. ASSUME NEW x \in 1..(b - first + 1)
         PROVE  /\ r.cells[x] = Wire[first + x - 1]
                /\ r.times[x] = IF x =< n THEN v.times[x] ELSE t
    <3>1. CASE x =< n
      <4>1. x \in 1..n
        BY <1>4, <3>1
      <4>2. r.cells[x] = v.cells[x] /\ r.times[x] = v.times[x]
        BY <2>9, <4>1
      <4>3. QED
        BY <1>4, <3>1, <4>1, <4>2
    <3>2. CASE ~(x =< n)
      <4>1. x - n \in 1..Len(rest) /\ next + (x - n) - 1 = first + x - 1 /\ n + (x - n) = x
        <5>1. x \in Int /\ x =< n + Len(rest) /\ Len(rest) \in Int
          BY <1>1, <2>6, <2>10
        <5>2. QED
          BY <1>1, <1>4, <3>2, <5>1
      <4>2. r.cells[x] = rest[x - n] /\ r.times[x] = marks[x - n]
        BY <2>9, <4>1
      <4>3. QED
        BY <2>7, <2>8, <3>2, <4>1, <4>2
    <3>3. QED
      BY <3>1, <3>2
  <2>12. r \in Streams
    BY <2>2, <2>9 DEF Streams
  <2>13. Len(r.cells) = b - first + 1 /\ Len(r.times) = b - first + 1
    BY <2>9, <2>10
  <2>14. first + (b - first + 1) =< Len(Wire) + 1
    BY <1>1
  <2>15. Part(r, first)
    <3> HIDE DEF r
    <3>1. QED
      BY <2>11, <2>12, <2>13, <2>14 DEF Part
  <2>16. Adds(v, r, first, b, t)
    <3> HIDE DEF r
    <3>1. QED
      BY <2>11, <2>13 DEF Adds, n
  <2>17. QED
    BY <2>15, <2>16
<1>8. Part(r, first)
  BY <1>6, <1>7
<1>9. Takes(v, r, first, a, b, t)
  <2> HIDE DEF r
  <2>1. QED
    BY <1>6, <1>7, <1>8 DEF Takes, n
<1>10. QED
  BY <1>9, Zenon DEF s, base

Empty == [cells |-> <<>>, times |-> <<>>]

\* Segments in the order of their sequence numbers: the cells from a to b of each.
Slicing(s, number, n, a, b, tau) ==
  /\ number \in 0..(Modulus - 1)
  /\ n \in Nat \ {0} /\ Len(s) = n
  /\ a \in [1..n -> 1..Len(Wire)] /\ b \in [1..n -> 1..Len(Wire)] /\ tau \in [1..n -> Nat]
  /\ \A k \in 1..n : a[k] =< b[k] /\ s[k] = Segment(number, a[k], b[k], tau[k])
  /\ \A j, k \in 1..n : j < k => Before(s[j], s[k])

\* The values of the stream while the segments are read.
Grows(f, s, n) ==
  /\ f \in [0..n -> Streams]
  /\ f[0] = Empty
  /\ \A k \in 1..n : f[k] = Extended(f[k - 1], s[k], s[1].sequence)

LEMMA StreamExists ==
  ASSUME NEW s, NEW number, NEW n, NEW a, NEW b, NEW tau, Slicing(s, number, n, a, b, tau)
  PROVE  \E f : Grows(f, s, n)
<1> DEFINE G == [x \in (1..n) \X Streams |-> Extended(x[2], s[x[1]], s[1].sequence)]
<1>1. n \in Nat /\ 1 \in 1..n
  BY DEF Slicing
<1>2. Empty \in Streams
  BY DEF Empty, Streams
<1>3. ASSUME NEW k \in 1..n
      PROVE  s[k].sequence \in Nat /\ s[k].time \in Nat /\ s[k].cells \in Seq(Cells)
  <2>1. /\ a[k] \in 1..Len(Wire) /\ b[k] \in 1..Len(Wire) /\ a[k] =< b[k] /\ tau[k] \in Nat
        /\ s[k] = Segment(number, a[k], b[k], tau[k]) /\ number \in 0..(Modulus - 1)
    BY DEF Slicing
  <2>2. /\ Segment(number, a[k], b[k], tau[k]).sequence \in 0..(Modulus - 1)
        /\ Segment(number, a[k], b[k], tau[k]).time = tau[k]
        /\ Segment(number, a[k], b[k], tau[k]).cells \in Seq(Cells)
    BY <2>1, SegmentFacts
  <2>3. \A i \in 0..(Modulus - 1) : i \in Nat
    BY Limits
  <2>4. QED
    BY <2>1, <2>2, <2>3
<1>4. ASSUME NEW k \in 1..n, NEW v \in Streams
      PROVE  Extended(v, s[k], s[1].sequence) \in Streams
  <2>1. s[1].sequence \in Nat
    BY <1>1, <1>3
  <2>2. QED
    BY <1>3, <2>1, ExtendedType
<1>5. G \in Steps(n, Streams)
  BY <1>4 DEF Steps
<1>6. Computes(n, Streams, Empty, G)
  <2> HIDE DEF G
  <2>1. QED
    BY <1>1, <1>2, <1>5, Recursion
<1>7. PICK f \in [0..n -> Streams] : f[0] = Empty /\ \A k \in 1..n : f[k] = G[<<k, f[k - 1]>>]
  <2> HIDE DEF G
  <2>1. QED
    BY <1>6 DEF Computes
<1>8. ASSUME NEW k \in 1..n
      PROVE  f[k] = Extended(f[k - 1], s[k], s[1].sequence)
  <2>1. k - 1 \in 0..n
    BY <1>1
  <2>2. <<k, f[k - 1]>> \in (1..n) \X Streams
    BY <1>7, <2>1
  <2>3. f[k] = G[<<k, f[k - 1]>>]
    BY <1>7
  <2>4. QED
    BY <2>2, <2>3
<1>9. QED
  BY <1>7, <1>8 DEF Grows

LEMMA ReassembledIsLast ==
  ASSUME NEW p, NEW number, NEW n, NEW a, NEW b, NEW tau,
         Slicing(Sorted(p), number, n, a, b, tau)
  PROVE  \E f : Grows(f, Sorted(p), n) /\ Reassembled(p) = f[n]
<1> DEFINE s == Sorted(p)
           stream[k \in 0..Len(s)] ==
             IF k = 0 THEN [cells |-> <<>>, times |-> <<>>]
             ELSE Extended(stream[k - 1], s[k], s[1].sequence)
<1>1. Len(s) = n /\ n \in Nat
  BY DEF Slicing
<1>2. PICK f : Grows(f, s, n)
  BY StreamExists
<1>3. f = [k \in 0..Len(s) |-> IF k = 0 THEN [cells |-> <<>>, times |-> <<>>]
                               ELSE Extended(f[k - 1], s[k], s[1].sequence)]
  <2> HIDE DEF s
  <2>1. f \in [0..n -> Streams] /\ f[0] = Empty
    BY <1>2 DEF Grows
  <2>2. ASSUME NEW k \in 0..n
        PROVE  f[k] = IF k = 0 THEN [cells |-> <<>>, times |-> <<>>]
                      ELSE Extended(f[k - 1], s[k], s[1].sequence)
    <3>1. CASE k = 0
      BY <2>1, <3>1 DEF Empty
    <3>2. CASE k # 0
      <4>1. k \in 1..n
        BY <1>1, <3>2
      <4>2. f[k] = Extended(f[k - 1], s[k], s[1].sequence)
        BY <1>2, <4>1 DEF Grows
      <4>3. QED
        BY <3>2, <4>2
    <3>3. QED
      BY <3>1, <3>2
  <2>3. QED
    BY <1>1, <2>1, <2>2
<1>4. \E h : h = [k \in 0..Len(s) |-> IF k = 0 THEN [cells |-> <<>>, times |-> <<>>]
                                      ELSE Extended(h[k - 1], s[k], s[1].sequence)]
  BY <1>3, Zenon
<1>5. stream = [k \in 0..Len(s) |-> IF k = 0 THEN [cells |-> <<>>, times |-> <<>>]
                                    ELSE Extended(stream[k - 1], s[k], s[1].sequence)]
  BY <1>4, Zenon
<1>6. Reassembled(p) = stream[Len(s)]
  BY Zenon DEF Reassembled
<1> HIDE DEF stream, s
<1>7. ASSUME NEW k \in 0..n
      PROVE  /\ stream[k] = IF k = 0 THEN Empty ELSE Extended(stream[k - 1], s[k], s[1].sequence)
             /\ f[k] = IF k = 0 THEN Empty ELSE Extended(f[k - 1], s[k], s[1].sequence)
  <2>1. k \in 0..Len(s)
    BY <1>1
  <2>2. QED
    BY <1>3, <1>5, <2>1 DEF Empty
<1>8. stream[n] = f[n]
  <2> DEFINE Bad == {k \in 0..n : stream[k] # f[k]}
  <2>1. SUFFICES ASSUME Bad # {}
                 PROVE  FALSE
    BY <1>1
  <2>2. PICK k \in Bad : \A j \in Bad : k =< j
    <3>1. Bad \in SUBSET Nat
      BY <1>1
    <3>2. QED
      BY <2>1, <3>1, LeastNumber
  <2>3. k \in 0..n /\ stream[k] # f[k]
    BY <2>2
  <2>4. k # 0
    BY <1>7, <2>3
  <2>5. k - 1 \in 0..n /\ ~(k =< k - 1)
    BY <1>1, <2>3, <2>4
  <2>6. stream[k - 1] = f[k - 1]
    BY <2>2, <2>5
  <2>7. stream[k] = f[k]
    BY <1>7, <2>3, <2>4, <2>6
  <2>8. QED
    BY <2>3, <2>7
<1>9. QED
  BY <1>1, <1>2, <1>6, <1>8 DEF s

\* The stream is always a stretch of the wire from the first cell of the first segment on.
LEMMA StreamIsPart ==
  ASSUME NEW s, NEW number, NEW n, NEW a, NEW b, NEW tau, Slicing(s, number, n, a, b, tau),
         NEW f, Grows(f, s, n)
  PROVE  \A k \in 0..n : Part(f[k], a[1])
<1> DEFINE Bad == {k \in 0..n : ~Part(f[k], a[1])}
<1>1. n \in Nat /\ 1 \in 1..n /\ a[1] \in 1..Len(Wire) /\ number \in 0..(Modulus - 1)
  BY DEF Slicing
<1>2. SUFFICES ASSUME Bad # {}
               PROVE  FALSE
  OBVIOUS
<1>3. PICK k \in Bad : \A j \in Bad : k =< j
  <2>1. Bad \in SUBSET Nat
    BY <1>1
  <2>2. QED
    BY <1>2, <2>1, LeastNumber
<1>4. k \in 0..n /\ ~Part(f[k], a[1])
  BY <1>3
<1>5. k # 0
  <2>1. f[0] = Empty /\ Empty \in Streams /\ Len(Empty.cells) = 0 /\ Len(Empty.times) = 0
    BY DEF Grows, Empty, Streams
  <2>2. a[1] + 0 =< Len(Wire) + 1 /\ 1..0 = {}
    BY <1>1, WireFacts
  <2>3. Part(f[0], a[1])
    BY <2>1, <2>2 DEF Part
  <2>4. QED
    BY <1>4, <2>3
<1>6. k \in 1..n /\ k - 1 \in 0..n /\ Part(f[k - 1], a[1])
  <2>1. k \in 1..n /\ k - 1 \in 0..n /\ ~(k =< k - 1)
    BY <1>1, <1>4, <1>5
  <2>2. QED
    BY <1>3, <2>1
<1>7. /\ a[k] \in 1..Len(Wire) /\ b[k] \in 1..Len(Wire) /\ a[k] =< b[k] /\ tau[k] \in Nat
      /\ s[k] = Segment(number, a[k], b[k], tau[k])
  BY <1>6 DEF Slicing
<1>8. s[1].sequence = (number + a[1]) % Modulus
  BY <1>1 DEF Slicing, Segment
<1>9. f[k] = Extended(f[k - 1], Segment(number, a[k], b[k], tau[k]), (number + a[1]) % Modulus)
  BY <1>6, <1>7, <1>8 DEF Grows
<1>10. Part(f[k], a[1])
  <2>1. Takes(f[k - 1], f[k], a[1], a[k], b[k], tau[k])
    BY <1>1, <1>6, <1>7, <1>9, ExtendedFacts
  <2>2. QED
    BY <2>1 DEF Takes
<1>11. QED
  BY <1>4, <1>10

\* A cell is in a segment.
In(i, a, b, j) == a[j] =< i /\ i =< b[j]

\* After k segments the stream has the cells without a gap, each from the first segment
\* that has it.
Covers(v, first, a, b, tau, k, n) ==
  /\ \A i \in 1..k : b[i] < first + Len(v.cells) \/ first + Len(v.cells) < a[i]
  /\ \A x \in 1..Len(v.cells) :
       \E i \in 1..k : /\ v.times[x] = tau[i] /\ In(first + x - 1, a, b, i)
                       /\ \A j \in 1..n : In(first + x - 1, a, b, j) => i =< j

LEMMA InOrder ==
  ASSUME NEW s, NEW number, NEW n, NEW a, NEW b, NEW tau, Slicing(s, number, n, a, b, tau),
         ~Wraps(number), NEW j \in 1..n, NEW k \in 1..n, j =< k
  PROVE  a[j] =< a[k]
<1>1. \A i \in 1..n : /\ a[i] \in 1..Len(Wire) /\ b[i] \in 1..Len(Wire) /\ a[i] =< b[i]
                      /\ tau[i] \in Nat /\ s[i] = Segment(number, a[i], b[i], tau[i])
  BY DEF Slicing
<1>2. number \in 0..(Modulus - 1) /\ n \in Nat /\ Len(Wire) \in Nat /\ Modulus \in Nat
  BY Limits, WireFacts DEF Slicing
<1>3. ASSUME NEW i \in 1..n
      PROVE  s[i].sequence = number + a[i]
  <2>1. Segment(number, a[i], b[i], tau[i]).sequence = number + a[i]
    BY <1>1, <1>2, HasFacts
  <2>2. s[i] = Segment(number, a[i], b[i], tau[i])
    BY <1>1
  <2>3. QED
    BY <2>1, <2>2, Zenon
<1>4. CASE j = k
  BY <1>1, <1>4
<1>5. CASE j # k
  <2>1. j < k
    BY <1>2, <1>5
  <2>2. Before(s[j], s[k])
    BY <2>1 DEF Slicing
  <2>3. /\ s[j].sequence = number + a[j] /\ s[k].sequence = number + a[k]
        /\ number \in Int /\ a[j] \in Int /\ a[k] \in Int
    <3>1. s[j].sequence = number + a[j] /\ s[k].sequence = number + a[k]
      BY <1>3
    <3>2. a[j] \in 1..Len(Wire) /\ a[k] \in 1..Len(Wire)
      BY <1>1
    <3>3. number \in Int /\ a[j] \in Int /\ a[k] \in Int
      BY <1>2, <3>2
    <3>4. QED
      BY <3>1, <3>3
  <2>4. s[j].sequence < s[k].sequence \/ s[j].sequence = s[k].sequence
    BY <2>2 DEF Before
  <2>5. QED
    BY <2>3, <2>4
<1>6. QED
  BY <1>4, <1>5

LEMMA CoverStep ==
  ASSUME NEW s, NEW number, NEW n, NEW a, NEW b, NEW tau, Slicing(s, number, n, a, b, tau),
         ~Wraps(number), NEW f, Grows(f, s, n),
         NEW k \in 1..n, Covers(f[k - 1], a[1], a, b, tau, k - 1, n)
  PROVE  Covers(f[k], a[1], a, b, tau, k, n)
<1> DEFINE v == f[k - 1]
           r == f[k]
           first == a[1]
           next == first + Len(v.cells)
<1>1. n \in Nat /\ 1 \in 1..n /\ number \in 0..(Modulus - 1) /\ k \in Nat /\ k - 1 \in 0..n
  BY DEF Slicing
<1>2. \A i \in 1..n : /\ a[i] \in Nat /\ b[i] \in Nat /\ a[i] =< b[i] /\ tau[i] \in Nat
                      /\ a[i] \in 1..Len(Wire) /\ b[i] \in 1..Len(Wire)
                      /\ s[i] = Segment(number, a[i], b[i], tau[i])
  BY DEF Slicing
<1>3. Part(v, first) /\ Part(r, first)
  BY <1>1, StreamIsPart
<1>4. Len(v.cells) \in Nat /\ Len(r.cells) \in Nat /\ next \in Nat
  <2>1. v.cells \in Seq(Cells) /\ r.cells \in Seq(Cells)
    BY <1>3 DEF Part, Streams
  <2>2. first \in Nat
    BY <1>1, <1>2
  <2> HIDE DEF v, r, first
  <2>3. QED
    BY <2>1, <2>2
<1>5. Takes(v, r, first, a[k], b[k], tau[k])
  <2>1. s[1].sequence = (number + first) % Modulus
    <3>1. s[1] = Segment(number, a[1], b[1], tau[1])
      BY <1>1, <1>2
    <3>2. QED
      BY <3>1 DEF Segment
  <2>2. r = Extended(v, Segment(number, a[k], b[k], tau[k]), (number + first) % Modulus)
    BY <1>2, <2>1 DEF Grows
  <2>3. first \in 1..Len(Wire)
    BY <1>1, <1>2
  <2> HIDE DEF v, r, first
  <2>4. QED
    BY <1>1, <1>2, <1>3, <2>2, <2>3, ExtendedFacts
<1>6. \A i \in 1..k : a[i] =< a[k] /\ first =< a[i]
  <2>1. ASSUME NEW i \in 1..k
        PROVE  i \in 1..n /\ i =< k /\ 1 =< i
    BY <1>1
  <2>2. QED
    BY <1>1, <2>1, InOrder
<1>7. /\ \A i \in 1..(k - 1) : b[i] < next \/ next < a[i]
      /\ \A x \in 1..Len(v.cells) :
           \E i \in 1..(k - 1) : /\ v.times[x] = tau[i] /\ In(first + x - 1, a, b, i)
                                 /\ \A j \in 1..n : In(first + x - 1, a, b, j) => i =< j
  BY DEF Covers
<1> HIDE DEF v, r, first
<1>8. first \in Nat /\ 1 =< first
  BY <1>1, <1>2 DEF first
<1>9. CASE ~(a[k] =< next /\ next =< b[k])
  <2>1. r = v
    BY <1>5, <1>9 DEF Takes
  <2>2. ASSUME NEW i \in 1..k
        PROVE  b[i] < next \/ next < a[i]
    <3>1. CASE i = k
      BY <1>2, <1>4, <1>9, <3>1
    <3>2. CASE i # k
      <4>1. i \in 1..(k - 1)
        BY <1>1, <3>2
      <4>2. QED
        BY <1>7, <4>1
    <3>3. QED
      BY <3>1, <3>2
  <2>3. \A i \in 1..(k - 1) : i \in 1..k
    BY <1>1
  <2>4. Covers(v, first, a, b, tau, k, n)
    BY <1>7, <2>2, <2>3 DEF Covers
  <2>5. QED
    BY <2>1, <2>4 DEF r, first
<1>10. CASE a[k] =< next /\ next =< b[k]
  <2>1. first =< a[k]
    BY <1>1, <1>6
  <2>2. Adds(v, r, first, b[k], tau[k])
    BY <1>5, <1>10, <2>1 DEF Takes
  <2>3. first + Len(r.cells) = b[k] + 1
    BY <1>2, <1>8, <2>2 DEF Adds
  <2>4. ASSUME NEW i \in 1..k
        PROVE  b[i] < b[k] + 1
    <3>1. CASE i = k
      BY <1>2, <3>1
    <3>2. CASE i # k
      <4>1. i \in 1..(k - 1) /\ i \in 1..n
        BY <1>1, <3>2
      <4>2. b[i] < next \/ next < a[i]
        BY <1>7, <4>1
      <4>3. a[i] =< a[k]
        BY <1>6
      <4>4. QED
        BY <1>2, <1>4, <1>10, <4>1, <4>2, <4>3
    <3>3. QED
      BY <3>1, <3>2
  <2>5. ASSUME NEW x \in 1..Len(r.cells)
        PROVE  \E i \in 1..k : /\ r.times[x] = tau[i] /\ In(first + x - 1, a, b, i)
                               /\ \A j \in 1..n : In(first + x - 1, a, b, j) => i =< j
    <3>1. r.times[x] = IF x =< Len(v.cells) THEN v.times[x] ELSE tau[k]
      BY <2>2 DEF Adds
    <3>2. CASE x =< Len(v.cells)
      <4>1. x \in 1..Len(v.cells) /\ r.times[x] = v.times[x]
        BY <1>4, <3>1, <3>2
      <4>2. PICK i \in 1..(k - 1) : /\ v.times[x] = tau[i] /\ In(first + x - 1, a, b, i)
                                    /\ \A j \in 1..n : In(first + x - 1, a, b, j) => i =< j
        BY <1>7, <4>1
      <4>3. i \in 1..k
        BY <1>1
      <4>4. QED
        BY <4>1, <4>2, <4>3
    <3>3. CASE ~(x =< Len(v.cells))
      <4> DEFINE y == first + x - 1
      <4>1. y \in Nat /\ next =< y /\ y =< b[k]
        BY <1>2, <1>4, <1>8, <2>3, <3>3
      <4>2. In(y, a, b, k)
        BY <1>2, <1>4, <1>10, <4>1 DEF In
      <4>3. ASSUME NEW j \in 1..n, In(y, a, b, j)
            PROVE  k =< j
        <5>1. SUFFICES ASSUME ~(k =< j)
                       PROVE  FALSE
          OBVIOUS
        <5>2. j \in 1..(k - 1) /\ j \in 1..k
          BY <1>1, <5>1
        <5>3. (b[j] < next \/ next < a[j]) /\ a[j] =< a[k]
          BY <1>6, <1>7, <5>2
        <5>4. a[j] =< y /\ y =< b[j]
          BY <4>3 DEF In
        <5> HIDE DEF y
        <5>5. QED
          BY <1>2, <1>4, <1>10, <4>1, <5>3, <5>4
      <4>4. r.times[x] = tau[k] /\ k \in 1..k
        BY <1>1, <3>1, <3>3
      <4>5. QED
        BY <4>2, <4>3, <4>4
    <3>4. QED
      BY <3>2, <3>3
  <2>6. Covers(r, first, a, b, tau, k, n)
    BY <2>3, <2>4, <2>5 DEF Covers
  <2>7. QED
    BY <2>6 DEF r, first
<1>11. QED
  BY <1>9, <1>10

LEMMA StreamCovers ==
  ASSUME NEW s, NEW number, NEW n, NEW a, NEW b, NEW tau, Slicing(s, number, n, a, b, tau),
         ~Wraps(number), NEW f, Grows(f, s, n)
  PROVE  Covers(f[n], a[1], a, b, tau, n, n)
<1> DEFINE Bad == {k \in 0..n : ~Covers(f[k], a[1], a, b, tau, k, n)}
<1>1. n \in Nat
  BY DEF Slicing
<1>2. SUFFICES ASSUME Bad # {}
               PROVE  FALSE
  BY <1>1
<1>3. PICK k \in Bad : \A j \in Bad : k =< j
  <2>1. Bad \in SUBSET Nat
    BY <1>1
  <2>2. QED
    BY <1>2, <2>1, LeastNumber
<1>4. k \in 0..n /\ ~Covers(f[k], a[1], a, b, tau, k, n)
  BY <1>3
<1>5. k # 0
  <2>1. f[0] = Empty /\ Len(Empty.cells) = 0 /\ 1..0 = {}
    BY DEF Grows, Empty
  <2>2. Covers(f[0], a[1], a, b, tau, 0, n)
    BY <2>1 DEF Covers
  <2>3. QED
    BY <1>4, <2>2
<1>6. k \in 1..n /\ Covers(f[k - 1], a[1], a, b, tau, k - 1, n)
  <2>1. k \in 1..n /\ k - 1 \in 0..n /\ ~(k =< k - 1)
    BY <1>1, <1>4, <1>5
  <2>2. QED
    BY <1>3, <2>1
<1>7. QED
  BY <1>4, <1>6, CoverStep

-----------------------------------------------------------------------------
(* The messages in a stretch *)

\* The first message that begins at y or later, and the last that is over before next.
FirstAt(y) ==
  CHOOSE l \in 1..(Len(Bodies) + 1) : \A m \in 1..Len(Bodies) : y =< Place(m) <=> l =< m

LastBefore(next) ==
  CHOOSE h \in 0..Len(Bodies) : \A m \in 1..Len(Bodies) : EndOf[m] < next <=> m =< h

LEMMA PlacesGrow ==
  ASSUME NEW l \in 1..Len(Bodies), NEW m \in 1..Len(Bodies), l =< m
  PROVE  /\ Place(l) \in Nat /\ EndOf[l] \in Nat /\ Place(m) \in Nat /\ EndOf[m] \in Nat
         /\ Place(l) =< Place(m) /\ EndOf[l] =< EndOf[m] /\ Place(l) =< EndOf[l]
<1>1. /\ Place(l) \in Nat /\ EndOf[l] \in Nat /\ Place(l) =< EndOf[l]
      /\ Place(m) \in Nat /\ EndOf[m] \in Nat /\ Place(m) =< EndOf[m]
  BY PlaceFacts
<1>2. CASE l = m
  BY <1>1, <1>2
<1>3. CASE l # m
  <2>1. l < m
    BY <1>3
  <2>2. EndOf[l] < Place(m)
    BY <2>1, PlaceFacts
  <2>3. QED
    BY <1>1, <2>2
<1>4. QED
  BY <1>2, <1>3

LEMMA FirstAtFacts ==
  ASSUME NEW y \in Int
  PROVE  /\ FirstAt(y) \in 1..(Len(Bodies) + 1)
         /\ \A m \in 1..Len(Bodies) : y =< Place(m) <=> FirstAt(y) =< m
<1> DEFINE n == Len(Bodies)
           Later == {m \in 1..n : y =< Place(m)}
<1>1. n \in Nat
  BY Limits
<1>2. \E l \in 1..(n + 1) : \A m \in 1..n : y =< Place(m) <=> l =< m
  <2>1. CASE Later = {}
    <3>1. n + 1 \in 1..(n + 1) /\ \A m \in 1..n : ~(n + 1 =< m)
      BY <1>1
    <3>2. QED
      BY <2>1, <3>1
  <2>2. CASE Later # {}
    <3>1. PICK l \in Later : \A m \in Later : l =< m
      <4>1. Later \in SUBSET Nat
        BY <1>1
      <4>2. QED
        BY <2>2, <4>1, LeastNumber
    <3>2. l \in 1..n /\ l \in 1..(n + 1) /\ y =< Place(l)
      BY <1>1, <3>1
    <3>3. ASSUME NEW m \in 1..n, l =< m
          PROVE  y =< Place(m)
      <4>1. Place(l) =< Place(m) /\ Place(l) \in Nat /\ Place(m) \in Nat
        BY <3>2, <3>3, PlacesGrow
      <4>2. QED
        BY <3>2, <4>1
    <3>4. QED
      BY <3>1, <3>2, <3>3
  <2>3. QED
    BY <2>1, <2>2
<1>3. QED
  BY <1>2, Zenon DEF FirstAt

LEMMA FirstAtUnique ==
  ASSUME NEW y \in Int, NEW l \in 1..(Len(Bodies) + 1),
         \A m \in 1..Len(Bodies) : y =< Place(m) <=> l =< m
  PROVE  FirstAt(y) = l
<1> DEFINE n == Len(Bodies)
<1>1. FirstAt(y) \in 1..(n + 1) /\ \A m \in 1..n : l =< m <=> FirstAt(y) =< m
  BY FirstAtFacts
<1>2. n \in Nat
  BY Limits
<1>3. CASE l =< n
  <2>1. l \in 1..n
    BY <1>2, <1>3
  <2>2. FirstAt(y) =< l
    BY <1>1, <2>1
  <2>3. FirstAt(y) \in 1..n
    BY <1>1, <1>2, <2>1, <2>2
  <2>4. l =< FirstAt(y)
    BY <1>1, <2>3
  <2>5. QED
    BY <1>1, <1>2, <2>1, <2>2, <2>4
<1>4. CASE ~(l =< n)
  <2>1. ~(FirstAt(y) \in 1..n)
    BY <1>1, <1>2, <1>4
  <2>2. QED
    BY <1>1, <1>2, <1>4, <2>1
<1>5. QED
  BY <1>3, <1>4

LEMMA LastBeforeFacts ==
  ASSUME NEW next \in Int
  PROVE  /\ LastBefore(next) \in 0..Len(Bodies)
         /\ \A m \in 1..Len(Bodies) : EndOf[m] < next <=> m =< LastBefore(next)
<1> DEFINE n == Len(Bodies)
           Over == {m \in 1..n : EndOf[m] < next}
<1>1. n \in Nat
  BY Limits
<1>2. \E h \in 0..n : \A m \in 1..n : EndOf[m] < next <=> m =< h
  <2>1. CASE Over = {}
    <3>1. 0 \in 0..n /\ \A m \in 1..n : ~(m =< 0)
      BY <1>1
    <3>2. QED
      BY <2>1, <3>1
  <2>2. CASE Over # {}
    <3>1. PICK h \in Over : \A m \in Over : m =< h
      <4>1. Over \in SUBSET (1..n)
        OBVIOUS
      <4>2. QED
        <5> HIDE DEF Over, n
        <5>1. QED
          BY <1>1, <2>2, <4>1, GreatestNumber
    <3>2. h \in 1..n /\ h \in 0..n /\ EndOf[h] < next
      BY <1>1, <3>1
    <3>3. ASSUME NEW m \in 1..n, m =< h
          PROVE  EndOf[m] < next
      <4>1. EndOf[m] =< EndOf[h] /\ EndOf[m] \in Nat /\ EndOf[h] \in Nat
        BY <3>2, <3>3, PlacesGrow
      <4>2. QED
        BY <3>2, <4>1
    <3>4. QED
      BY <3>1, <3>2, <3>3
  <2>3. QED
    BY <2>1, <2>2
<1>3. QED
  BY <1>2, Zenon DEF LastBefore

Heads(v, o) == {i \in o..Len(v.cells) : IsHead(v.cells[i])}

\* Where the first head at the o-th cell of the stretch or later is, and its message.
HeadAt(v, o, l, start) ==
  /\ start \in 1..Len(v.cells) /\ start \in Heads(v, o) /\ \A x \in Heads(v, o) : start =< x
  /\ v.cells[start] = Wire[Place(l)] /\ v.cells[start].message = l

LEMMA HeadFacts ==
  ASSUME NEW first \in 1..Len(Wire), NEW v, Part(v, first), NEW o \in 1..(Len(v.cells) + 1)
  PROVE  LET l == FirstAt(first + o - 1)
             found == l =< Len(Bodies) /\ Place(l) < first + Len(v.cells) IN
         /\ found => HeadAt(v, o, l, Place(l) - first + 1)
         /\ ~found => Heads(v, o) = {}
<1> DEFINE n == Len(v.cells)
           y == first + o - 1
           l == FirstAt(y)
           found == l =< Len(Bodies) /\ Place(l) < first + Len(v.cells)
<1>1. /\ n \in Nat /\ first + n =< Len(Wire) + 1 /\ Len(Wire) \in Nat /\ first \in Nat /\ 1 =< first
      /\ o \in Nat /\ 1 =< o /\ o =< n + 1 /\ y \in Int
  <2>1. v.cells \in Seq(Cells)
    BY DEF Part, Streams
  <2>2. Len(v.cells) \in Nat
    BY <2>1
  <2>3. first + n =< Len(Wire) + 1
    BY DEF Part
  <2>4. QED
    BY <2>2, <2>3, WireFacts
<1>2. \A x \in 1..n : v.cells[x] = Wire[first + x - 1]
  BY DEF Part
<1>3. l \in 1..(Len(Bodies) + 1) /\ \A m \in 1..Len(Bodies) : y =< Place(m) <=> l =< m
  BY <1>1, FirstAtFacts
<1>4. Len(Bodies) \in Nat
  BY Limits
<1> HIDE DEF n, l
\* A head in the stretch is where a message begins.
<1>5. ASSUME NEW x \in Heads(v, o)
      PROVE  /\ x \in 1..n /\ o =< x
             /\ \E m \in 1..Len(Bodies) : first + x - 1 = Place(m) /\ v.cells[x].message = m
  <2>1. x \in 1..n /\ v.cells[x].part = 0 /\ o =< x
    BY <1>1 DEF Heads, IsHead, n
  <2>2. first + x - 1 \in 1..Len(Wire) /\ v.cells[x] = Wire[first + x - 1]
    BY <1>1, <1>2, <2>1
  <2>3. /\ Wire[first + x - 1].message \in 1..Len(Bodies)
        /\ first + x - 1 = Place(Wire[first + x - 1].message)
    BY <2>1, <2>2, WireHeaders
  <2>4. QED
    BY <2>1, <2>2, <2>3
<1>6. ASSUME ~found
      PROVE  Heads(v, o) = {}
  <2>1. SUFFICES ASSUME NEW x \in Heads(v, o)
                 PROVE  FALSE
    OBVIOUS
  <2>2. PICK m \in 1..Len(Bodies) : first + x - 1 = Place(m)
    BY <1>5
  <2>3. x \in 1..n /\ o =< x
    BY <1>5
  <2>4. y =< Place(m) /\ Place(m) < first + n
    BY <1>1, <2>2, <2>3
  <2>5. l =< m
    BY <1>3, <2>4
  <2>6. l \in 1..Len(Bodies)
    BY <1>3, <1>4, <2>5
  <2>7. Place(l) =< Place(m) /\ Place(l) \in Nat /\ Place(m) \in Nat
    BY <2>5, <2>6, PlacesGrow
  <2>8. Place(l) < first + n
    BY <1>1, <2>4, <2>7
  <2>9. QED
    BY <1>6, <2>6, <2>8 DEF n
<1>7. ASSUME found
      PROVE  HeadAt(v, o, l, Place(l) - first + 1)
  <2> DEFINE start == Place(l) - first + 1
  <2>1. l \in 1..Len(Bodies) /\ Place(l) < first + n
    BY <1>3, <1>4, <1>7 DEF n
  <2>2. Place(l) \in Nat /\ y =< Place(l) /\ Place(l) \in 1..Len(Wire)
    BY <1>3, <1>4, <2>1, PlaceFacts
  <2>3. start \in 1..n /\ o =< start /\ first + start - 1 = Place(l)
    BY <1>1, <2>1, <2>2
  <2>4. v.cells[start] = Wire[Place(l)]
    BY <1>2, <2>3
  <2>5. Wire[Place(l)].part = 0 /\ Wire[Place(l)].message = l
    BY <2>1, <2>2, WireHeaders
  <2>6. start \in Heads(v, o)
    BY <1>1, <2>3, <2>4, <2>5 DEF Heads, IsHead, n
  <2>7. ASSUME NEW x \in Heads(v, o)
        PROVE  start =< x
    <3>1. x \in 1..n /\ o =< x
      BY <1>5
    <3>2. PICK m \in 1..Len(Bodies) : first + x - 1 = Place(m)
      BY <1>5
    <3>3. y =< Place(m)
      BY <1>1, <3>1, <3>2
    <3>4. l =< m
      BY <1>3, <3>3
    <3>5. Place(l) =< Place(m) /\ Place(m) \in Nat
      BY <2>1, <3>4, PlacesGrow
    <3>6. QED
      BY <1>1, <2>2, <3>1, <3>2, <3>5
  <2> HIDE DEF start
  <2>8. HeadAt(v, o, l, start)
    BY <2>3, <2>4, <2>5, <2>6, <2>7 DEF HeadAt, n
  <2>9. QED
    BY <2>8 DEF start
<1>8. QED
  BY <1>6, <1>7 DEF l

\* Nothing at the o-th cell or later looks like a start before the first head.
Settled(v, o) ==
  \A i \in o..Len(v.cells) : IsStart(v.cells[i]) => \E j \in o..i : IsHead(v.cells[j])

\* The message l, whose head is at start, is taken if it is all there.
Taken(v, state, l, start) ==
  IF start + Bodies[l] > Len(v.cells) THEN state
  ELSE [offset |-> start + Bodies[l] + 1,
        found |-> Append(state.found,
                    [head |-> <<Wire[Place(l)]>>,
                     body |-> SubSeq(v.cells, start + 1, start + Bodies[l]),
                     time |-> v.times[start]])]

LEMMA LeastIs ==
  ASSUME NEW S \in SUBSET Int, NEW m \in S, \A k \in S : m =< k
  PROVE  Min(S) = m
<1>1. Min(S) \in S /\ \A k \in S : Min(S) =< k
  BY Zenon DEF Min
<1>2. Min(S) =< m /\ m =< Min(S) /\ Min(S) \in Int /\ m \in Int
  BY <1>1
<1>3. QED
  BY <1>2

\* The headers of a head say how long the body is.
LEMMA HeadLength ==
  ASSUME NEW c, IsHead(c), NEW l, c.message = l
  PROVE  Length(<<c>>) = Bodies[l]
<1> DEFINE saying == {i \in 1..Len(<<c>>) : IsHead(<<c>>[i]) \/ <<c>>[i] \in DOMAIN Lengths}
<1>1. Len(<<c>>) = 1 /\ <<c>>[1] = c
  OBVIOUS
<1>2. saying = {1}
  BY <1>1
<1>3. Max(saying) = 1
  <2>1. \E x \in {1} : \A y \in {1} : x >= y
    OBVIOUS
  <2>2. Max({1}) \in {1}
    BY <2>1, Zenon DEF Max
  <2>3. Max({1}) = 1
    BY <2>2
  <2> HIDE DEF saying
  <2>4. QED
    BY <1>2, <2>3
<1>4. Said(c) = Bodies[l]
  BY Zenon DEF Said
<1>5. Length(<<c>>) = IF saying = {} THEN 0 ELSE Said(<<c>>[Max(saying)])
  BY Zenon DEF Length
<1> HIDE DEF saying
<1>6. QED
  BY <1>1, <1>2, <1>3, <1>4, <1>5

\* A turn of the loop takes the message of the first head, if there is one.
LEMMA TurnFacts ==
  ASSUME NEW first \in 1..Len(Wire), NEW v, Part(v, first), NEW state,
         state.offset \in 1..(Len(v.cells) + 1), Settled(v, state.offset)
  PROVE  LET l == FirstAt(first + state.offset - 1)
             found == l =< Len(Bodies) /\ Place(l) < first + Len(v.cells) IN
         /\ found => Parsed(v, state) = Taken(v, state, l, Place(l) - first + 1)
         /\ ~found => Parsed(v, state) = state
<1> DEFINE n == Len(v.cells)
           o == state.offset
           l == FirstAt(first + o - 1)
           found == l =< Len(Bodies) /\ Place(l) < first + n
           starts == {i \in o..n : IsStart(v.cells[i])}
           blanks(s) == {i \in s..n : IsBlank(v.cells[i])}
           head(s, b) == SubSeq(v.cells, s, b)
           end(s, b) == b + Length(head(s, b))
<1>1. n \in Nat /\ o \in Nat /\ 1 =< o /\ v.cells \in Seq(Cells)
  <2>1. v.cells \in Seq(Cells)
    BY DEF Part, Streams
  <2>2. QED
    BY <2>1
<1>2. Parsed(v, state) =
        IF starts = {} \/ blanks(Min(starts)) = {} \/ end(Min(starts), Min(blanks(Min(starts)))) > n
        THEN state
        ELSE [offset |-> end(Min(starts), Min(blanks(Min(starts)))) + 1,
              found |-> Append(state.found,
                          [head |-> head(Min(starts), Min(blanks(Min(starts)))),
                           body |-> SubSeq(v.cells, Min(blanks(Min(starts))) + 1,
                                           end(Min(starts), Min(blanks(Min(starts))))),
                           time |-> v.times[Min(starts)]])]
  BY Zenon DEF Parsed
<1>3. CASE ~found
  <2>1. Heads(v, o) = {}
    BY <1>3, HeadFacts
  <2>2. starts = {}
    <3>1. SUFFICES ASSUME NEW i \in starts
                   PROVE  FALSE
      OBVIOUS
    <3>2. PICK j \in o..i : IsHead(v.cells[j])
      BY <3>1 DEF Settled
    <3>3. j \in Heads(v, o)
      BY <1>1, <3>1, <3>2 DEF Heads
    <3>4. QED
      BY <2>1, <3>3
  <2> HIDE DEF starts
  <2>3. Parsed(v, state) = state
    BY <1>2, <2>2, Zenon
  <2>4. QED
    BY <1>3, <2>3
<1>4. CASE found
  <2> DEFINE start == Place(l) - first + 1
  <2>1. HeadAt(v, o, l, start)
    BY <1>4, HeadFacts
  <2> HIDE DEF l, start
  <2>2. /\ start \in 1..n /\ start \in o..n /\ IsHead(v.cells[start])
        /\ \A x \in Heads(v, o) : start =< x
        /\ v.cells[start] = Wire[Place(l)] /\ v.cells[start].message = l
    BY <2>1 DEF HeadAt, Heads
  <2>3. start \in starts /\ starts \in SUBSET Int
    BY <2>2 DEF IsStart
  <2>4. ASSUME NEW i \in starts
        PROVE  start =< i
    <3>1. PICK j \in o..i : IsHead(v.cells[j])
      BY <2>4 DEF Settled
    <3>2. j \in Heads(v, o) /\ j =< i /\ j \in Int /\ i \in Int
      BY <1>1, <2>4, <3>1 DEF Heads
    <3>3. QED
      BY <2>2, <3>2
  <2> HIDE DEF starts
  <2>5. Min(starts) = start
    BY <2>3, <2>4, LeastIs
  <2>6. start \in blanks(start) /\ blanks(start) \in SUBSET Int /\ \A i \in blanks(start) : start =< i
    BY <1>1, <2>2 DEF IsBlank
  <2> HIDE DEF blanks
  <2>7. Min(blanks(start)) = start
    BY <2>6, LeastIs
  <2>8. head(start, start) = <<Wire[Place(l)]>>
    <3>1. start - start + 1 = 1 /\ start + 1 - 1 = start
      BY <2>2
    <3>2. start \in 1..(Len(v.cells) + 1) /\ start \in 0..Len(v.cells) /\ start =< start + 1
      BY <1>1, <2>2
    <3>3. /\ head(start, start) \in Seq(Cells) /\ Len(head(start, start)) = start - start + 1
          /\ \A k \in 1..(start - start + 1) : head(start, start)[k] = v.cells[start + k - 1]
      BY <1>1, <3>2, SubSeqFacts
    <3> HIDE DEF head
    <3>4. /\ head(start, start) \in Seq(Cells) /\ Len(head(start, start)) = 1
          /\ head(start, start)[1] = Wire[Place(l)]
      BY <2>2, <3>1, <3>3
    <3>5. QED
      BY <3>4
  <2>9. end(start, start) = start + Bodies[l]
    <3>1. Length(<<Wire[Place(l)]>>) = Bodies[l]
      BY <2>2, HeadLength
    <3>2. QED
      BY <2>8, <3>1
  <2> HIDE DEF head, end, n
  <2>10. Parsed(v, state) =
           IF start + Bodies[l] > n THEN state
           ELSE [offset |-> start + Bodies[l] + 1,
                 found |-> Append(state.found,
                             [head |-> <<Wire[Place(l)]>>,
                              body |-> SubSeq(v.cells, start + 1, start + Bodies[l]),
                              time |-> v.times[start]])]
    <3>1. starts # {} /\ blanks(start) # {}
      BY <2>3, <2>6
    <3>2. QED
      BY <1>2, <2>5, <2>7, <2>8, <2>9, <3>1, Zenon
  <2>11. Parsed(v, state) = Taken(v, state, l, start)
    BY <2>10, Zenon DEF Taken, n
  <2>12. QED
    BY <1>4, <2>11 DEF start, l, n
<1>5. QED
  BY <1>3, <1>4

Found(v, first, m) ==
  [head |-> <<Wire[Place(m)]>>, body |-> SubSeq(Wire, Place(m) + 1, EndOf[m]),
   time |-> v.times[Place(m) - first + 1]]

\* The messages that begin in the stretch and are over in it.
Whole(v, first) ==
  LET l == FirstAt(first)
      h == LastBefore(first + Len(v.cells))
  IN  [k \in 1..(h - l + 1) |-> Found(v, first, l + k - 1)]

\* The body of a message that is over in the stretch.
LEMMA BodyFacts ==
  ASSUME NEW first \in 1..Len(Wire), NEW v, Part(v, first), NEW m \in 1..Len(Bodies),
         first =< Place(m), EndOf[m] < first + Len(v.cells)
  PROVE  LET start == Place(m) - first + 1 IN
         SubSeq(v.cells, start + 1, start + Bodies[m]) = SubSeq(Wire, Place(m) + 1, EndOf[m])
<1> DEFINE P == Place(m)
           E == EndOf[m]
           B == Bodies[m]
           start == P - first + 1
           n == Len(v.cells)
           p == SubSeq(v.cells, start + 1, start + B)
           q == SubSeq(Wire, P + 1, E)
<1>1. v.cells \in Seq(Cells) /\ n \in Nat /\ \A x \in 1..n : v.cells[x] = Wire[first + x - 1]
  <2>1. v.cells \in Seq(Cells)
    BY DEF Part, Streams
  <2>2. QED
    BY <2>1 DEF Part
<1>2. Wire \in Seq(Cells) /\ Len(Wire) \in Nat
  BY WireFacts
<1>3. /\ P \in Nat /\ E \in Nat /\ B \in Nat /\ E = P + B
      /\ 1 =< P /\ E =< Len(Wire) /\ first \in Nat /\ 1 =< first /\ first =< P /\ E < first + n
  BY <1>2, PlaceFacts
<1> HIDE DEF n, P, E, B
<1>4. start \in Nat /\ start + B =< n /\ 1 =< start
  BY <1>1, <1>3
<1>5. P = first + start - 1
  BY <1>3
<1> HIDE DEF start
<1>6. /\ start + 1 \in 1..(n + 1) /\ start + B \in 0..n /\ start + 1 =< (start + B) + 1
      /\ P + 1 \in 1..(Len(Wire) + 1) /\ E \in 0..Len(Wire) /\ P + 1 =< E + 1
      /\ (start + B) - (start + 1) + 1 = B /\ E - (P + 1) + 1 = B
  BY <1>1, <1>2, <1>3, <1>4
<1>7. p \in Seq(Cells) /\ Len(p) = B /\ \A k \in 1..B : p[k] = v.cells[(start + 1) + k - 1]
  <2>1. /\ p \in Seq(Cells) /\ Len(p) = (start + B) - (start + 1) + 1
        /\ \A k \in 1..((start + B) - (start + 1) + 1) : p[k] = v.cells[(start + 1) + k - 1]
    <3>1. /\ v.cells \in Seq(Cells) /\ start + 1 \in 1..(Len(v.cells) + 1)
          /\ start + B \in 0..Len(v.cells) /\ start + 1 =< (start + B) + 1
      BY <1>1, <1>6 DEF n
    <3> HIDE DEF p
    <3>2. p = SubSeq(v.cells, start + 1, start + B)
      BY DEF p
    <3>3. PICK i, j : i = start + 1 /\ j = start + B
      OBVIOUS
    <3>4. /\ SubSeq(v.cells, i, j) \in Seq(Cells) /\ Len(SubSeq(v.cells, i, j)) = j - i + 1
          /\ \A k \in 1..(j - i + 1) : SubSeq(v.cells, i, j)[k] = v.cells[i + k - 1]
      BY <3>1, <3>3, SubSeqFacts
    <3>5. QED
      BY <3>2, <3>3, <3>4
  <2>2. QED
    BY <1>6, <2>1
<1>8. q \in Seq(Cells) /\ Len(q) = B /\ \A k \in 1..B : q[k] = Wire[(P + 1) + k - 1]
  <2>1. /\ q \in Seq(Cells) /\ Len(q) = E - (P + 1) + 1
        /\ \A k \in 1..(E - (P + 1) + 1) : q[k] = Wire[(P + 1) + k - 1]
    BY <1>2, <1>6, SubSeqFacts
  <2>2. QED
    BY <1>6, <2>1
<1> HIDE DEF p, q
<1>9. ASSUME NEW k \in 1..B
      PROVE  p[k] = q[k]
  <2>1. (start + 1) + k - 1 = start + k /\ (P + 1) + k - 1 = P + k
    BY <1>3, <1>4
  <2>2. start + k \in 1..n /\ first + (start + k) - 1 = P + k
    BY <1>1, <1>3, <1>4, <1>5
  <2>3. p[k] = v.cells[start + k] /\ q[k] = Wire[P + k]
    BY <1>7, <1>8, <2>1
  <2>4. v.cells[start + k] = Wire[first + (start + k) - 1]
    BY <1>1, <2>2
  <2>5. QED
    BY <2>2, <2>3, <2>4
<1>10. p = q
  BY <1>7, <1>8, <1>9
<1>11. QED
  BY <1>10, Zenon DEF p, q, start, P, E, B

\* A sequence is its first values with the last one appended.
LEMMA AppendNext ==
  ASSUME NEW S, NEW j \in Nat, NEW g \in [1..(j + 1) -> S]
  PROVE  Append([i \in 1..j |-> g[i]], g[j + 1]) = g
<1> DEFINE q == [i \in 1..j |-> g[i]]
<1>1. q \in Seq(S) /\ Len(q) = j /\ \A i \in 1..j : q[i] = g[i]
  <2>1. q \in [1..j -> S]
    OBVIOUS
  <2>2. QED
    BY <2>1
<1> HIDE DEF q
<1>2. g \in Seq(S) /\ Len(g) = j + 1 /\ g[j + 1] \in S
  OBVIOUS
<1>3. PICK e \in S : e = g[j + 1]
  BY <1>2
<1>4. /\ Append(q, e) \in Seq(S) /\ Len(Append(q, e)) = j + 1
      /\ \A i \in 1..j : Append(q, e)[i] = q[i]
      /\ Append(q, e)[j + 1] = e
  BY <1>1
<1>5. ASSUME NEW i \in 1..(j + 1)
      PROVE  Append(q, e)[i] = g[i]
  <2>1. CASE i = j + 1
    BY <1>3, <1>4, <2>1
  <2>2. CASE i # j + 1
    <3>1. i \in 1..j
      BY <2>2
    <3>2. QED
      BY <1>1, <1>4, <3>1
  <2>3. QED
    BY <2>1, <2>2
<1>6. Append(q, e) = g
  BY <1>2, <1>4, <1>5
<1>7. QED
  BY <1>3, <1>6 DEF q

\* How many messages are whole in the stretch.
Count(v, first) ==
  LET l == FirstAt(first)
      h == LastBefore(first + Len(v.cells))
  IN  IF l =< h THEN h - l + 1 ELSE 0

\* The loop after the first j of them.
Turned(v, first, j) ==
  [offset |-> IF j = 0 THEN 1 ELSE EndOf[FirstAt(first) + j - 1] + 2 - first,
   found |-> [k \in 1..j |-> Found(v, first, FirstAt(first) + k - 1)]]

LEMMA CountFacts ==
  ASSUME NEW first \in 1..Len(Wire), NEW v, Part(v, first)
  PROVE  /\ Len(v.cells) \in Nat /\ first \in Nat /\ 1 =< first
         /\ FirstAt(first) \in 1..(Len(Bodies) + 1)
         /\ LastBefore(first + Len(v.cells)) \in 0..Len(Bodies)
         /\ \A m \in 1..Len(Bodies) : first =< Place(m) <=> FirstAt(first) =< m
         /\ \A m \in 1..Len(Bodies) :
              EndOf[m] < first + Len(v.cells) <=> m =< LastBefore(first + Len(v.cells))
         /\ Count(v, first) \in Nat /\ Count(v, first) =< Len(v.cells)
         /\ \A j \in 0..Count(v, first) :
              /\ FirstAt(first) + j \in 1..(Len(Bodies) + 1)
              /\ j < Count(v, first) <=>
                   FirstAt(first) + j =< LastBefore(first + Len(v.cells))
<1> DEFINE n == Len(v.cells)
           N == Len(Bodies)
           l == FirstAt(first)
           h == LastBefore(first + n)
           c == Count(v, first)
<1>1. n \in Nat /\ first \in Nat /\ 1 =< first /\ first + n \in Int /\ N \in Nat
  <2>1. v.cells \in Seq(Cells)
    BY DEF Part, Streams
  <2>2. QED
    BY <2>1, Limits
<1>2. l \in 1..(N + 1) /\ \A m \in 1..N : first =< Place(m) <=> l =< m
  BY <1>1, FirstAtFacts
<1>3. h \in 0..N /\ \A m \in 1..N : EndOf[m] < first + n <=> m =< h
  BY <1>1, LastBeforeFacts, Zenon
<1>4. c = IF l =< h THEN h - l + 1 ELSE 0
  BY Zenon DEF Count
<1> HIDE DEF n, N, l, h, c
<1>5. c \in Nat /\ \A j \in 0..c : l + j \in 1..(N + 1) /\ (j < c <=> l + j =< h)
  BY <1>1, <1>2, <1>3, <1>4
<1>6. c =< n
  <2>1. CASE l =< h
    <3>1. l \in 1..N /\ h \in 1..N
      BY <1>1, <1>2, <1>3, <2>1
    <3>2. first =< Place(l) /\ EndOf[h] < first + n
      BY <1>2, <1>3, <2>1, <3>1
    <3> DEFINE Bad == {d \in 0..(h - l) : ~(Place(l) + d =< EndOf[l + d])}
    <3>3. Bad = {}
      <4>1. SUFFICES ASSUME Bad # {}
                     PROVE  FALSE
        OBVIOUS
      <4>2. Bad \in SUBSET Nat
        OBVIOUS
      <4>3. PICK d \in Bad : \A k \in Bad : d =< k
        <5> HIDE DEF Bad
        <5>1. QED
          BY <4>1, <4>2, LeastNumber
      <4>4. d \in 0..(h - l) /\ ~(Place(l) + d =< EndOf[l + d])
        BY <4>3
      <4>5. Place(l) \in Nat /\ Place(l) =< EndOf[l] /\ EndOf[l] \in Nat
        BY <3>1, PlacesGrow DEF N
      <4>6. d # 0
        BY <1>1, <3>1, <4>4, <4>5
      <4>7. d - 1 \in 0..(h - l) /\ d - 1 \notin Bad
        <5>1. d - 1 \in 0..(h - l) /\ ~(d =< d - 1)
          BY <1>1, <3>1, <4>4, <4>6
        <5> HIDE DEF Bad
        <5>2. QED
          BY <4>3, <5>1
      <4>8. Place(l) + (d - 1) =< EndOf[l + (d - 1)]
        BY <4>7
      <4>9. l + d \in 1..N /\ l + (d - 1) \in 1..N /\ l + (d - 1) < l + d
        BY <1>1, <3>1, <4>4, <4>6
      <4>10. EndOf[l + (d - 1)] < Place(l + d) /\ Place(l + d) =< EndOf[l + d]
             /\ Place(l + d) \in Nat /\ EndOf[l + d] \in Nat /\ EndOf[l + (d - 1)] \in Nat
        <5> DEFINE x == l + d
                   y == l + (d - 1)
        <5> HIDE DEF x, y
        <5>1. x \in 1..Len(Bodies) /\ y \in 1..Len(Bodies) /\ y < x
          BY <4>9 DEF x, y, N
        <5>2. EndOf[y] < Place(x) /\ Place(x) =< EndOf[x]
          BY <5>1, PlaceFacts
        <5>3. Place(x) \in Nat /\ EndOf[x] \in Nat /\ EndOf[y] \in Nat
          BY <5>1, PlaceFacts
        <5>4. QED
          BY <5>2, <5>3 DEF x, y
      <4>11. QED
        BY <4>4, <4>5, <4>8, <4>10
    <3>4. h - l \in 0..(h - l) /\ l + (h - l) = h
      BY <1>1, <2>1, <3>1
    <3>5. h - l \notin Bad
      BY <3>3, Zenon
    <3>6. Place(l) + (h - l) =< EndOf[h]
      BY <3>4, <3>5
    <3>7. Place(l) \in Nat /\ EndOf[h] \in Nat
      BY <3>1, PlacesGrow DEF N
    <3>8. QED
      BY <1>1, <1>4, <2>1, <3>1, <3>2, <3>6, <3>7
  <2>2. CASE ~(l =< h)
    BY <1>1, <1>4, <2>2
  <2>3. QED
    BY <2>1, <2>2
<1>7. QED
  BY <1>1, <1>2, <1>3, <1>5, <1>6 DEF n, N, l, h, c

\* After the first j messages the loop is at the head of the next one.
LEMMA TurnedOffset ==
  ASSUME NEW first \in 1..Len(Wire), NEW v, Part(v, first), Clean(v),
         NEW j \in 0..Count(v, first)
  PROVE  LET o == Turned(v, first, j).offset IN
         /\ o \in 1..(Len(v.cells) + 1) /\ Settled(v, o)
         /\ FirstAt(first + o - 1) = FirstAt(first) + j
<1> DEFINE n == Len(v.cells)
           N == Len(Bodies)
           l == FirstAt(first)
           h == LastBefore(first + n)
           c == Count(v, first)
           o == Turned(v, first, j).offset
<1>1. /\ n \in Nat /\ first \in Nat /\ 1 =< first /\ l \in 1..(N + 1) /\ h \in 0..N /\ c \in Nat
      /\ \A m \in 1..N : first =< Place(m) <=> l =< m
      /\ \A m \in 1..N : EndOf[m] < first + n <=> m =< h
      /\ \A i \in 0..c : l + i \in 1..(N + 1) /\ (i < c <=> l + i =< h)
  BY CountFacts
<1>2. N \in Nat /\ first + n =< Len(Wire) + 1 /\ \A x \in 1..n : v.cells[x] = Wire[first + x - 1]
  BY Limits DEF Part
<1>3. o = IF j = 0 THEN 1 ELSE EndOf[l + j - 1] + 2 - first
  BY Zenon DEF Turned
<1>4. Len(Wire) \in Nat
  BY WireFacts
<1>5. CASE j = 0
  <2>1. o = 1
    BY <1>3, <1>5
  <2>2. 1 \in 1..(n + 1) /\ first + 1 - 1 = first /\ l + 0 = l
    BY <1>1
  <2>3. Settled(v, 1)
    BY Zenon DEF Clean, Settled
  <2> HIDE DEF o, n, l
  <2>4. QED
    BY <1>5, <2>1, <2>2, <2>3 DEF o, n, l
<1>6. CASE j # 0
  <2> DEFINE m == l + j - 1
             E == EndOf[m]
  <2>1. j - 1 \in 0..c /\ j - 1 < c /\ l + (j - 1) = m /\ j \in 0..c
    <3> HIDE DEF c, l
    <3>1. j \in 0..c
      BY DEF c
    <3>2. QED
      BY <1>1, <1>6, <3>1
  <2> HIDE DEF c, l, h, n, m, o, N
  <2>2. m \in 1..N /\ m =< h /\ l =< m /\ m + 1 = l + j /\ m + 1 \in 1..(N + 1)
    <3>1. m =< h /\ m \in 1..(N + 1)
      BY <1>1, <2>1
    <3>2. m = l + j - 1
      BY DEF m
    <3>3. QED
      BY <1>1, <1>2, <2>1, <3>1, <3>2
  <2>3. E < first + n /\ first =< Place(m)
    BY <1>1, <2>2
  <2>4. Place(m) \in Nat /\ E \in Nat /\ Place(m) =< E
    BY <2>2, PlacesGrow DEF N
  <2>5. o = E + 2 - first
    BY <1>3, <1>6 DEF m
  <2> HIDE DEF E
  <2>6. o \in 1..(n + 1) /\ first + o - 1 = E + 1 /\ o \in Int
    BY <1>1, <2>3, <2>4, <2>5
  <2>7. ASSUME NEW k \in 1..N
        PROVE  E + 1 =< Place(k) <=> m + 1 =< k
    <3>1. Place(k) \in Nat /\ EndOf[k] \in Nat /\ Place(k) =< EndOf[k]
      BY PlacesGrow DEF N
    <3>2. CASE m < k
      <4>1. EndOf[m] < Place(k)
        BY <2>2, <3>2, PlaceFacts DEF N
      <4>2. QED
        BY <2>2, <2>4, <3>1, <3>2, <4>1 DEF E
    <3>3. CASE ~(m < k)
      <4>1. k =< m
        BY <2>2, <3>3
      <4>2. Place(k) =< Place(m)
        BY <2>2, <4>1, PlacesGrow DEF N
      <4>3. QED
        BY <2>2, <2>4, <3>1, <3>3, <4>2
    <3>4. QED
      BY <3>2, <3>3
  <2>8. FirstAt(E + 1) = m + 1
    <3>1. E + 1 \in Int
      BY <2>4
    <3>2. QED
      BY <2>2, <2>7, <3>1, FirstAtUnique DEF N
  <2>9. Settled(v, o)
    <3>1. SUFFICES ASSUME NEW i \in o..n
                   PROVE  IsHead(v.cells[o]) /\ o \in o..i
      <4>1. (\A i \in o..n : IsHead(v.cells[o]) /\ o \in o..i) => Settled(v, o)
        BY Zenon DEF Settled, n
      <4>2. QED
        BY <3>1, <4>1
    <3>2. o \in o..i /\ o \in 1..n
      BY <1>1, <2>6
    <3>3. v.cells[o] = Wire[E + 1] /\ E + 1 \in 1..Len(Wire)
      BY <1>1, <1>2, <1>4, <2>4, <2>6, <3>2
    <3>4. m + 1 \in 1..N
      <4>1. SUFFICES ASSUME m = N
                     PROVE  FALSE
        BY <1>2, <2>2
      <4>2. Len(Wire) = E
        BY <4>1, WireFacts DEF E, N
      <4>3. QED
        BY <2>4, <3>3, <4>2
    <3>5. Place(m + 1) = E + 1
      BY <2>2, <3>4, PlaceFacts DEF E, N
    <3>6. Wire[E + 1].part = 0
      BY <3>3, <3>4, <3>5, WireHeaders DEF N
    <3>7. QED
      BY <3>2, <3>3, <3>6 DEF IsHead
  <2>10. FirstAt(first + o - 1) = l + j
    BY <2>2, <2>6, <2>8
  <2>11. QED
    BY <2>6, <2>9, <2>10 DEF o, n, l
<1>7. QED
  BY <1>5, <1>6

\* A turn of the loop finds the next whole message, and after the last one nothing.
LEMMA TurnedStep ==
  ASSUME NEW first \in 1..Len(Wire), NEW v, Part(v, first), Clean(v),
         NEW j \in 0..Count(v, first)
  PROVE  Parsed(v, Turned(v, first, j)) =
           IF j < Count(v, first) THEN Turned(v, first, j + 1) ELSE Turned(v, first, j)
<1> DEFINE n == Len(v.cells)
           N == Len(Bodies)
           l == FirstAt(first)
           h == LastBefore(first + n)
           c == Count(v, first)
           state == Turned(v, first, j)
           m == l + j
           found == m =< N /\ Place(m) < first + n
<1>1. /\ n \in Nat /\ first \in Nat /\ 1 =< first /\ l \in 1..(N + 1) /\ h \in 0..N /\ c \in Nat
      /\ \A i \in 1..N : first =< Place(i) <=> l =< i
      /\ \A i \in 1..N : EndOf[i] < first + n <=> i =< h
      /\ m \in 1..(N + 1) /\ (j < c <=> m =< h)
  <2>1. /\ n \in Nat /\ first \in Nat /\ 1 =< first /\ l \in 1..(N + 1) /\ h \in 0..N /\ c \in Nat
        /\ \A i \in 1..N : first =< Place(i) <=> l =< i
        /\ \A i \in 1..N : EndOf[i] < first + n <=> i =< h
        /\ \A i \in 0..c : l + i \in 1..(N + 1) /\ (i < c <=> l + i =< h)
    BY CountFacts
  <2>2. j \in 0..c
    OBVIOUS
  <2> HIDE DEF n, N, l, h, c
  <2>3. QED
    BY <2>1, <2>2
<1>2. N \in Nat /\ j \in Nat /\ j \in 0..c
  BY <1>1, Limits
<1>3. /\ state.offset \in 1..(n + 1) /\ Settled(v, state.offset)
      /\ FirstAt(first + state.offset - 1) = m
  BY TurnedOffset
<1> HIDE DEF c, l, h, N, state
<1>4. /\ found => Parsed(v, state) = Taken(v, state, m, Place(m) - first + 1)
      /\ ~found => Parsed(v, state) = state
  <2> HIDE DEF m
  <2>1. LET k == FirstAt(first + state.offset - 1)
            ok == k =< Len(Bodies) /\ Place(k) < first + Len(v.cells) IN
        /\ ok => Parsed(v, state) = Taken(v, state, k, Place(k) - first + 1)
        /\ ~ok => Parsed(v, state) = state
    BY <1>3, TurnFacts
  <2>2. QED
    BY <1>3, <2>1, Zenon DEF N
<1> HIDE DEF n
<1>5. CASE ~found
  <2>1. ~(j < c)
    <3>1. SUFFICES ASSUME m =< h
                   PROVE  FALSE
      BY <1>1
    <3>2. m \in 1..N
      BY <1>1, <1>2, <3>1
    <3>3. EndOf[m] < first + n
      BY <1>1, <3>1, <3>2
    <3>4. Place(m) \in Nat /\ EndOf[m] \in Nat /\ Place(m) =< EndOf[m]
      BY <3>2, PlacesGrow DEF N
    <3>5. QED
      BY <1>1, <1>5, <3>2, <3>3, <3>4
  <2>2. QED
    BY <1>4, <1>5, <2>1 DEF state, c
<1>6. CASE found
  <2> DEFINE P == Place(m)
             E == EndOf[m]
             B == Bodies[m]
             start == P - first + 1
  <2>1. m \in 1..N
    BY <1>1, <1>2, <1>6
  <2>2. P \in Nat /\ E \in Nat /\ B \in Nat /\ E = P + B
    <3>1. Place(m) \in Nat /\ EndOf[m] = Place(m) + Bodies[m] /\ Bodies[m] \in Nat
      BY <2>1, PlaceFacts DEF N
    <3>2. QED
      BY <3>1
  <2>3. first =< P
    <3>1. l =< m
      BY <1>1, <1>2 DEF m
    <3>2. QED
      BY <1>1, <2>1, <3>1
  <2>4. start + B = E - first + 1 /\ start \in Nat /\ (E < first + n <=> ~(start + B > n))
    <3> HIDE DEF P, E, B
    <3>1. QED
      BY <1>1, <2>2, <2>3
  <2>5. Parsed(v, state) =
          IF start + B > n THEN state
          ELSE [offset |-> start + B + 1,
                found |-> Append(state.found,
                            [head |-> <<Wire[P]>>, body |-> SubSeq(v.cells, start + 1, start + B),
                             time |-> v.times[start]])]
    BY <1>4, <1>6, Zenon DEF Taken, n
  <2>6. j < c <=> ~(start + B > n)
    BY <1>1, <2>1, <2>4
  <2> HIDE DEF P, E, B, start
  <2>7. CASE ~(j < c)
    BY <2>5, <2>6, <2>7 DEF state, c
  <2>8. CASE j < c
    <3>1. E < first + n /\ EndOf[m] < first + n
      BY <2>4, <2>6, <2>8 DEF E
    <3>2. SubSeq(v.cells, start + 1, start + B) = SubSeq(Wire, P + 1, E)
      BY <2>1, <2>3, <3>1, BodyFacts DEF P, E, B, start, n, N
    <3>3. [head |-> <<Wire[P]>>, body |-> SubSeq(v.cells, start + 1, start + B),
           time |-> v.times[start]] = Found(v, first, m)
      BY <3>2, Zenon DEF Found, P, E, start
    <3>4. state.found = [k \in 1..j |-> Found(v, first, l + k - 1)]
      BY Zenon DEF state, Turned, l
    <3> DEFINE g == [k \in 1..(j + 1) |-> Found(v, first, l + k - 1)]
               S == {Found(v, first, l + k - 1) : k \in 1..(j + 1)}
    <3>5. g \in [1..(j + 1) -> S] /\ g[j + 1] = Found(v, first, m)
      <4>1. g \in [1..(j + 1) -> S]
        OBVIOUS
      <4>2. j + 1 \in 1..(j + 1) /\ l + (j + 1) - 1 = m
        BY <1>1, <1>2 DEF m
      <4>3. g[j + 1] = Found(v, first, l + (j + 1) - 1)
        BY <4>2
      <4>4. QED
        BY <4>1, <4>2, <4>3
    <3>6. state.found = [k \in 1..j |-> g[k]]
      <4>1. \A k \in 1..j : g[k] = Found(v, first, l + k - 1)
        BY <1>2
      <4> HIDE DEF g
      <4>2. QED
        BY <3>4, <4>1
    <3>7. Append(state.found, Found(v, first, m)) = g
      <4> HIDE DEF g, S
      <4>1. Append([k \in 1..j |-> g[k]], g[j + 1]) = g
        BY <1>2, <3>5, AppendNext
      <4>2. QED
        BY <3>5, <3>6, <4>1
    <3>8. start + B + 1 = E + 2 - first /\ j + 1 # 0 /\ l + (j + 1) - 1 = m
      BY <1>1, <1>2, <2>2, <2>4 DEF m
    <3>9. Turned(v, first, j + 1) = [offset |-> E + 2 - first, found |-> g]
      <4>1. Turned(v, first, j + 1) =
              [offset |-> IF j + 1 = 0 THEN 1 ELSE EndOf[l + (j + 1) - 1] + 2 - first, found |-> g]
        BY Zenon DEF Turned, l
      <4> HIDE DEF g, m
      <4>2. QED
        BY <3>8, <4>1 DEF E
    <3> HIDE DEF g
    <3>10. Parsed(v, state) = [offset |-> start + B + 1, found |-> g]
      BY <2>5, <2>6, <2>8, <3>3, <3>7, Zenon
    <3>11. QED
      BY <2>8, <3>8, <3>9, <3>10 DEF state, c
  <2>9. QED
    BY <2>7, <2>8
<1>7. QED
  BY <1>5, <1>6

\* So the code finds what is whole in a clean stretch, whatever was left out of it.
LEMMA MessagesAreWhole ==
  ASSUME NEW first \in 1..Len(Wire), NEW v, Part(v, first), Clean(v)
  PROVE  Messages(v) = Whole(v, first)
<1> DEFINE n == Len(v.cells)
           c == Count(v, first)
           capped(k) == IF k < c THEN k ELSE c
           f == [k \in 0..n |-> Turned(v, first, capped(k))]
           loop[k \in 0..n] == IF k = 0 THEN [offset |-> 1, found |-> <<>>]
                               ELSE Parsed(v, loop[k - 1])
<1>1. n \in Nat /\ c \in Nat /\ c =< n
  BY CountFacts
<1>2. \A j \in 0..c : Parsed(v, Turned(v, first, j)) =
                        IF j < c THEN Turned(v, first, j + 1) ELSE Turned(v, first, j)
  BY TurnedStep
<1> HIDE DEF n, c
<1>3. Turned(v, first, 0) = [offset |-> 1, found |-> <<>>]
  <2>1. [k \in 1..0 |-> Found(v, first, FirstAt(first) + k - 1)] = <<>>
    <3>1. 1..0 = {}
      OBVIOUS
    <3>2. QED
      BY <3>1
  <2>2. QED
    BY <2>1, Zenon DEF Turned
<1>4. ASSUME NEW k \in 0..n
      PROVE  f[k] = IF k = 0 THEN [offset |-> 1, found |-> <<>>] ELSE Parsed(v, f[k - 1])
  <2>1. CASE k = 0
    <3>1. f[k] = Turned(v, first, 0)
      BY <1>1, <2>1
    <3>2. QED
      BY <1>3, <2>1, <3>1
  <2>2. CASE k # 0
    <3>1. k - 1 \in 0..n /\ capped(k - 1) \in 0..c
      BY <1>1, <2>2
    <3>2. (capped(k - 1) < c => capped(k) = capped(k - 1) + 1)
          /\ (~(capped(k - 1) < c) => capped(k) = capped(k - 1))
      BY <1>1, <2>2
    <3>3. f[k] = Turned(v, first, capped(k)) /\ f[k - 1] = Turned(v, first, capped(k - 1))
      BY <3>1
    <3> HIDE DEF capped, f
    <3>4. Parsed(v, f[k - 1]) = Turned(v, first, capped(k))
      BY <1>2, <3>1, <3>2, <3>3
    <3>5. QED
      BY <2>2, <3>3, <3>4
  <2>3. QED
    BY <2>1, <2>2
<1>5. f = [k \in 0..n |-> IF k = 0 THEN [offset |-> 1, found |-> <<>>] ELSE Parsed(v, f[k - 1])]
  BY <1>4
<1>6. \E g : g = [k \in 0..n |-> IF k = 0 THEN [offset |-> 1, found |-> <<>>] ELSE Parsed(v, g[k - 1])]
  BY <1>5, Zenon
<1>7. loop = [k \in 0..n |-> IF k = 0 THEN [offset |-> 1, found |-> <<>>] ELSE Parsed(v, loop[k - 1])]
  BY <1>6, Zenon
<1>8. Messages(v) = loop[n].found
  BY Zenon DEF Messages, n
<1> HIDE DEF loop
<1>9. \A k \in 0..n : loop[k] = f[k]
  <2> DEFINE Bad == {k \in 0..n : loop[k] # f[k]}
  <2>1. SUFFICES ASSUME Bad # {}
                 PROVE  FALSE
    OBVIOUS
  <2>2. PICK k \in Bad : \A x \in Bad : k =< x
    <3>1. Bad \in SUBSET Nat
      BY <1>1
    <3> HIDE DEF Bad
    <3>2. QED
      BY <2>1, <3>1, LeastNumber
  <2> HIDE DEF f
  <2>3. k \in 0..n /\ loop[k] # f[k]
    BY <2>2
  <2>4. loop[k] = IF k = 0 THEN [offset |-> 1, found |-> <<>>] ELSE Parsed(v, loop[k - 1])
    BY <1>7, <2>3, Zenon
  <2>5. f[k] = IF k = 0 THEN [offset |-> 1, found |-> <<>>] ELSE Parsed(v, f[k - 1])
    BY <1>4, <2>3
  <2>6. k # 0
    BY <2>3, <2>4, <2>5
  <2>7. k - 1 \in 0..n /\ ~(k =< k - 1)
    BY <1>1, <2>3, <2>6
  <2>8. loop[k - 1] = f[k - 1]
    BY <2>2, <2>7
  <2>9. QED
    BY <2>3, <2>4, <2>5, <2>6, <2>8
<1>10. loop[n] = Turned(v, first, c)
  <2>1. n \in 0..n /\ capped(n) = c
    BY <1>1
  <2> HIDE DEF capped
  <2>2. f[n] = Turned(v, first, capped(n))
    BY <2>1
  <2>3. QED
    BY <1>9, <2>1, <2>2
<1>11. Turned(v, first, c).found = Whole(v, first)
  <2> DEFINE l == FirstAt(first)
             h == LastBefore(first + Len(v.cells))
  <2>1. Turned(v, first, c).found = [k \in 1..c |-> Found(v, first, l + k - 1)]
    BY Zenon DEF Turned
  <2>2. Whole(v, first) = [k \in 1..(h - l + 1) |-> Found(v, first, l + k - 1)]
    BY Zenon DEF Whole
  <2>3. l \in Int /\ h \in Int
    BY CountFacts
  <2>4. c = IF l =< h THEN h - l + 1 ELSE 0
    BY Zenon DEF Count, c
  <2> HIDE DEF l, h
  <2>5. 1..c = 1..(h - l + 1)
    BY <2>3, <2>4
  <2>6. QED
    BY <2>1, <2>2, <2>5
<1>12. QED
  BY <1>8, <1>10, <1>11

-----------------------------------------------------------------------------
(* The messages of a capture *)

LEMMA CaptureFacts ==
  ASSUME NEW number \in Numbers, NEW p \in Captures(number)
  PROVE  \E n, a, b, tau :
           /\ Packets(p, n) /\ Slicing(Sorted(p), number, n, a, b, tau) /\ Ordered(Sorted(p), p, n)
           /\ \A k \in 1..n : tau[k] = Sorted(p)[k].time
<1>1. PICK n \in 1..MaxSegments :
        \E q \in [1..n -> Slices] : p = [t \in 1..n |-> Segment(number, q[t][1], q[t][2], t)]
  BY DEF Captures
<1>2. PICK q \in [1..n -> Slices] :
        p = [t \in 1..n |-> Segment(number, q[t][1], q[t][2], t)]
  BY <1>1
<1>3. n \in Nat \ {0} /\ number \in 0..(Modulus - 1)
  <2>1. MaxSegments \in Nat
    BY ReassemblyAssumption DEF ReassemblyAssumption
  <2>2. QED
    BY <1>1, <2>1, Limits
<1>4. ASSUME NEW t \in 1..n
      PROVE  /\ q[t][1] \in 1..Len(Wire) /\ q[t][2] \in 1..Len(Wire) /\ q[t][1] =< q[t][2]
             /\ p[t] = Segment(number, q[t][1], q[t][2], t)
             /\ p[t].sequence \in Nat /\ p[t].time = t
  <2>1. q[t] \in Slices
    BY <1>2
  <2>2. q[t][1] \in 1..Len(Wire) /\ q[t][2] \in 1..Len(Wire) /\ q[t][1] =< q[t][2]
    BY <2>1 DEF Slices
  <2>3. p[t] = Segment(number, q[t][1], q[t][2], t)
    BY <1>2
  <2>4. p[t].sequence = (number + q[t][1]) % Modulus /\ p[t].time = t
    BY <2>3 DEF Segment
  <2>5. (number + q[t][1]) % Modulus \in 0..(Modulus - 1)
    BY <1>3, <2>2, Offset, Zenon
  <2>6. p[t].sequence \in Nat
    BY <2>4, <2>5, Limits
  <2>7. QED
    BY <2>2, <2>3, <2>4, <2>6
<1>5. Packets(p, n)
  <2>1. DOMAIN p = 1..n
    BY <1>2
  <2>2. QED
    BY <1>4, <2>1 DEF Packets
<1> DEFINE s == Sorted(p)
<1>6. Ordered(s, p, n)
  BY <1>3, <1>5, SortedFacts
<1> HIDE DEF s
<1>7. /\ Len(s) = n
      /\ \A k \in 1..n : s[k].time \in 1..n /\ s[k] = p[s[k].time]
      /\ \A j, k \in 1..n : j < k => Before(s[j], s[k])
  BY <1>6 DEF Ordered
<1> DEFINE tau == [k \in 1..n |-> s[k].time]
           a == [k \in 1..n |-> q[s[k].time][1]]
           b == [k \in 1..n |-> q[s[k].time][2]]
<1>8. ASSUME NEW k \in 1..n
      PROVE  /\ tau[k] \in Nat /\ a[k] \in 1..Len(Wire) /\ b[k] \in 1..Len(Wire) /\ a[k] =< b[k]
             /\ s[k] = Segment(number, a[k], b[k], tau[k])
  <2>1. PICK t \in 1..n : t = s[k].time
    BY <1>7
  <2>2. tau[k] = t /\ a[k] = q[t][1] /\ b[k] = q[t][2] /\ s[k] = p[t]
    BY <1>7, <2>1
  <2> HIDE DEF tau, a, b
  <2>3. QED
    BY <1>3, <1>4, <2>1, <2>2
<1>9. tau \in [1..n -> Nat] /\ a \in [1..n -> 1..Len(Wire)] /\ b \in [1..n -> 1..Len(Wire)]
  <2>1. \A k \in 1..n : s[k].time \in Nat /\ q[s[k].time][1] \in 1..Len(Wire)
                        /\ q[s[k].time][2] \in 1..Len(Wire)
    BY <1>8
  <2>2. QED
    BY <2>1
<1>10. \A k \in 1..n : tau[k] = s[k].time
  OBVIOUS
<1> HIDE DEF tau, a, b
<1>11. Slicing(s, number, n, a, b, tau)
  BY <1>3, <1>7, <1>8, <1>9 DEF Slicing
<1>12. QED
  BY <1>5, <1>6, <1>10, <1>11 DEF s

\* What is found in the packets of a capture, if its stream is clean, is what is whole in
\* a stretch of the wire.
LEMMA CaptureIsPart ==
  ASSUME NEW p, NEW number, NEW n, NEW a, NEW b, NEW tau,
         Slicing(Sorted(p), number, n, a, b, tau)
  PROVE  LET v == Reassembled(p) IN
         /\ a[1] \in 1..Len(Wire) /\ Part(v, a[1])
         /\ Clean(v) => Messages(v) = Whole(v, a[1])
         /\ ~Wraps(number) => Covers(v, a[1], a, b, tau, n, n)
<1>1. n \in Nat /\ 1 \in 1..n /\ n \in 0..n /\ a[1] \in 1..Len(Wire)
  BY DEF Slicing
<1>2. PICK f : Grows(f, Sorted(p), n) /\ Reassembled(p) = f[n]
  BY ReassembledIsLast
<1>3. Part(f[n], a[1])
  BY <1>1, <1>2, StreamIsPart
<1>4. Clean(f[n]) => Messages(f[n]) = Whole(f[n], a[1])
  BY <1>1, <1>3, MessagesAreWhole
<1>5. ~Wraps(number) => Covers(f[n], a[1], a, b, tau, n, n)
  BY <1>2, StreamCovers
<1>6. QED
  BY <1>1, <1>2, <1>3, <1>4, <1>5

\* No message is made up of the parts of others, also when the sequence numbers wrap: what
\* is found in any capture whose stream is clean has the head and the body of a message
\* that was sent (reassemble, parse_http_messages).
THEOREM NoMessageIsMadeUp == NoneMadeUp
<1>1. SUFFICES ASSUME NEW number \in Numbers, NEW p \in Captures(number),
                      Clean(Reassembled(p)), NEW k \in 1..Len(Messages(Reassembled(p)))
               PROVE  \E m \in 1..Len(Bodies) :
                        LET message == Messages(Reassembled(p))[k] IN
                        /\ message.head = <<Wire[Place(m)]>>
                        /\ message.body = SubSeq(Wire, Place(m) + 1, EndOf[m])
  BY Zenon DEF NoneMadeUp
<1>2. PICK n, a, b, tau : Slicing(Sorted(p), number, n, a, b, tau)
  BY CaptureFacts
<1> DEFINE v == Reassembled(p)
           first == a[1]
           l == FirstAt(first)
           h == LastBefore(first + Len(v.cells))
<1>3. first \in 1..Len(Wire) /\ Part(v, first) /\ Messages(v) = Whole(v, first)
  BY <1>1, <1>2, CaptureIsPart
<1> HIDE DEF v, first
<1>4. l \in 1..(Len(Bodies) + 1) /\ h \in 0..Len(Bodies) /\ Len(Bodies) \in Nat
  BY <1>3, CountFacts, Limits
<1>5. Whole(v, first) = [i \in 1..(h - l + 1) |-> Found(v, first, l + i - 1)]
  BY Zenon DEF Whole
<1>6. k \in 1..Len(Whole(v, first))
  BY <1>1, <1>3 DEF v
<1> HIDE DEF l, h
<1>7. k \in 1..(h - l + 1)
  <2>1. CASE l =< h
    <3>1. h - l + 1 \in Nat
      BY <1>4, <2>1
    <3>2. Len(Whole(v, first)) = h - l + 1
      BY <1>5, <3>1
    <3>3. QED
      BY <1>6, <3>2
  <2>2. CASE ~(l =< h)
    <3>1. 1..(h - l + 1) = {}
      BY <1>4, <2>2
    <3>2. Whole(v, first) = <<>>
      BY <1>5, <3>1
    <3>3. QED
      BY <1>6, <3>2
  <2>3. QED
    BY <2>1, <2>2
<1>8. Messages(v)[k] = Found(v, first, l + k - 1)
  BY <1>3, <1>5, <1>7
<1>9. PICK m \in 1..Len(Bodies) : m = l + k - 1
  BY <1>4, <1>7
<1>10. /\ Found(v, first, m).head = <<Wire[Place(m)]>>
       /\ Found(v, first, m).body = SubSeq(Wire, Place(m) + 1, EndOf[m])
  BY DEF Found
<1>11. Messages(Reassembled(p))[k] = Found(v, first, m)
  BY <1>8, <1>9 DEF v
<1>12. QED
  BY <1>10, <1>11, Zenon

\* A capture of n segments, in the order of its sequence numbers the cells from a to b of
\* each, at the times tau.
Captured(p, number, n, a, b, tau) ==
  /\ number \in Numbers /\ Packets(p, n)
  /\ Slicing(Sorted(p), number, n, a, b, tau) /\ Ordered(Sorted(p), p, n)
  /\ \A k \in 1..n : tau[k] = Sorted(p)[k].time

LEMMA HasIsIn ==
  ASSUME NEW p, NEW number, NEW n, NEW a, NEW b, NEW tau, Captured(p, number, n, a, b, tau),
         ~Wraps(number), NEW i \in 1..Len(Wire)
  PROVE  /\ \A k \in 1..n : Sorted(p)[k] \in Range(p)
         /\ \A t \in Range(p) : \E k \in 1..n : t = Sorted(p)[k]
         /\ \A k \in 1..n : Has(number, Sorted(p)[k], i) <=> In(i, a, b, k)
<1> DEFINE s == Sorted(p)
<1>1. Slicing(s, number, n, a, b, tau) /\ Ordered(s, p, n) /\ DOMAIN p = 1..n
  BY DEF Captured, Packets
<1> HIDE DEF s
<1>2. \A k \in 1..n : s[k] \in Range(p)
  BY <1>1 DEF Ordered
<1>3. \A t \in Range(p) : \E k \in 1..n : t = s[k]
  BY <1>1 DEF Ordered, Range
<1>4. ASSUME NEW k \in 1..n
      PROVE  Has(number, s[k], i) <=> In(i, a, b, k)
  <2>1. /\ a[k] \in 1..Len(Wire) /\ b[k] \in 1..Len(Wire) /\ a[k] =< b[k] /\ tau[k] \in Nat
        /\ s[k] = Segment(number, a[k], b[k], tau[k]) /\ number \in 0..(Modulus - 1)
    BY <1>1 DEF Slicing
  <2>2. Has(number, Segment(number, a[k], b[k], tau[k]), i) <=> a[k] =< i /\ i =< b[k]
    BY <2>1, HasFacts
  <2>3. QED
    BY <2>1, <2>2 DEF In
<1>5. QED
  BY <1>2, <1>3, <1>4 DEF s

\* The run of a capture is the stretch that its stream has.
LEMMA RunFacts ==
  ASSUME NEW p, NEW number, NEW n, NEW a, NEW b, NEW tau, Captured(p, number, n, a, b, tau),
         ~Wraps(number)
  PROVE  Run(number, p) = a[1]..(a[1] + Len(Reassembled(p).cells) - 1)
<1> DEFINE first == a[1]
           v == Reassembled(p)
           c == Len(v.cells)
           caught == {i \in 1..Len(Wire) : \E s \in Range(p) : Has(number, s, i)}
<1>1. Slicing(Sorted(p), number, n, a, b, tau)
  BY DEF Captured
<1>2. first \in 1..Len(Wire) /\ Part(v, first) /\ Covers(v, first, a, b, tau, n, n)
  BY <1>1, CaptureIsPart
<1>3. /\ c \in Nat /\ first \in Nat /\ 1 =< first /\ first + c =< Len(Wire) + 1 /\ Len(Wire) \in Nat
      /\ n \in Nat /\ 1 \in 1..n
  <2>1. v.cells \in Seq(Cells)
    BY <1>2 DEF Part, Streams
  <2>2. c \in Nat
    BY <2>1
  <2>3. first + c =< Len(Wire) + 1
    BY <1>2 DEF Part
  <2> HIDE DEF c, first
  <2>4. QED
    BY <1>1, <1>2, <2>2, <2>3, WireFacts DEF Slicing
<1>4. /\ \A i \in 1..n : b[i] < first + c \/ first + c < a[i]
      /\ \A x \in 1..c : \E i \in 1..n : In(first + x - 1, a, b, i)
  BY <1>2 DEF Covers
<1>5. \A k \in 1..n : a[k] \in 1..Len(Wire) /\ b[k] \in 1..Len(Wire) /\ a[k] =< b[k] /\ first =< a[k]
  <2>1. \A k \in 1..n : a[k] \in 1..Len(Wire) /\ b[k] \in 1..Len(Wire) /\ a[k] =< b[k]
    BY <1>1 DEF Slicing
  <2>2. ASSUME NEW k \in 1..n
        PROVE  first =< a[k]
    BY <1>1, <1>3, <2>2, InOrder
  <2>3. QED
    BY <2>1, <2>2
<1>6. ASSUME NEW i \in 1..Len(Wire)
      PROVE  i \in caught <=> \E k \in 1..n : In(i, a, b, k)
  BY HasIsIn
<1> HIDE DEF first, v, c
<1>7. first \in caught /\ \A i \in caught : first =< i
  <2>1. In(first, a, b, 1)
    BY <1>3, <1>5 DEF In, first
  <2>2. first \in caught
    BY <1>2, <1>3, <1>6, <2>1
  <2>3. ASSUME NEW i \in caught
        PROVE  first =< i
    <3>1. i \in 1..Len(Wire)
      OBVIOUS
    <3>2. PICK k \in 1..n : In(i, a, b, k)
      BY <1>6, <3>1
    <3>3. QED
      BY <1>3, <1>5, <3>1, <3>2 DEF In
  <2>4. QED
    BY <2>2, <2>3
<1>8. Min(caught) = first
  <2> HIDE DEF caught
  <2>1. Min(caught) \in caught /\ \A i \in caught : Min(caught) =< i
    BY <1>7, Zenon DEF Min
  <2>2. Min(caught) \in Int
    <3>1. \A i \in caught : i \in Int
      BY DEF caught
    <3>2. QED
      BY <2>1, <3>1
  <2>3. QED
    BY <1>3, <1>7, <2>1, <2>2
<1>9. Run(number, p) = {i \in caught : \A j \in first..i : j \in caught}
  <2>1. Run(number, p) = {i \in caught : \A j \in Min(caught)..i : j \in caught}
    BY Zenon DEF Run
  <2>2. QED
    <3> HIDE DEF caught
    <3>1. QED
      BY <1>8, <2>1, Zenon
<1>10. ASSUME NEW y \in first..(first + c - 1)
       PROVE  y \in caught
  <2>1. y - first + 1 \in 1..c /\ first + (y - first + 1) - 1 = y /\ y \in 1..Len(Wire)
    BY <1>3
  <2>2. PICK i \in 1..n : In(first + (y - first + 1) - 1, a, b, i)
    BY <1>4, <2>1
  <2>3. QED
    BY <1>6, <2>1, <2>2
<1>11. first + c \notin caught
  <2>1. SUFFICES ASSUME first + c \in caught
                 PROVE  FALSE
    OBVIOUS
  <2>2. first + c \in 1..Len(Wire)
    BY <2>1
  <2>3. PICK k \in 1..n : In(first + c, a, b, k)
    BY <1>6, <2>1, <2>2
  <2>4. QED
    BY <1>3, <1>4, <1>5, <2>3 DEF In
<1>12. ASSUME NEW y \in caught, \A j \in first..y : j \in caught
       PROVE  y \in first..(first + c - 1)
  <2>1. y \in Int /\ first =< y
    BY <1>7
  <2>2. ~(first + c =< y)
    <3>1. first + c =< y => first + c \in first..y
      BY <1>3, <2>1
    <3>2. QED
      BY <1>11, <1>12, <3>1
  <2>3. QED
    BY <1>3, <2>1, <2>2
<1>13. ASSUME NEW y \in first..(first + c - 1)
       PROVE  y \in caught /\ \A j \in first..y : j \in caught
  <2>1. \A j \in first..y : j \in first..(first + c - 1)
    BY <1>3
  <2>2. QED
    BY <1>10, <2>1
<1> HIDE DEF caught
<1>14. Run(number, p) = first..(first + c - 1)
  BY <1>9, <1>12, <1>13
<1>15. QED
  BY <1>14 DEF first, c, v

\* The first segment, in the order of the sequence numbers, that has a cell of the run is
\* the one whose time the stream has for that cell.
LEMMA FirstSegment ==
  ASSUME NEW p, NEW number, NEW n, NEW a, NEW b, NEW tau, Captured(p, number, n, a, b, tau),
         ~Wraps(number), NEW x \in 1..Len(Reassembled(p).cells)
  PROVE  LET i == a[1] + x - 1
             s == CHOOSE s \in Range(p) :
                    /\ Has(number, s, i)
                    /\ \A t \in Range(p) : Has(number, t, i) => s = t \/ Before(s, t) IN
         s.time = Reassembled(p).times[x]
<1> DEFINE first == a[1]
           v == Reassembled(p)
           i == first + x - 1
           Is(s) == /\ Has(number, s, i)
                    /\ \A t \in Range(p) : Has(number, t, i) => s = t \/ Before(s, t)
           s == CHOOSE s \in Range(p) : Is(s)
<1>1. Slicing(Sorted(p), number, n, a, b, tau) /\ Packets(p, n) /\ \A k \in 1..n : tau[k] = Sorted(p)[k].time
  BY DEF Captured
<1>2. first \in 1..Len(Wire) /\ Part(v, first) /\ Covers(v, first, a, b, tau, n, n)
  BY <1>1, CaptureIsPart
<1>3. n \in Nat /\ i \in 1..Len(Wire)
  <2>1. first + Len(v.cells) =< Len(Wire) + 1 /\ v.cells \in Seq(Cells)
    BY <1>2 DEF Part, Streams
  <2>2. Len(v.cells) \in Nat /\ x \in 1..Len(v.cells)
    BY <2>1
  <2>3. n \in Nat
    BY <1>1 DEF Slicing
  <2>4. first \in 1..Len(Wire) /\ Len(Wire) \in Nat
    BY <1>2, WireFacts
  <2> HIDE DEF first, v
  <2>5. i \in 1..Len(Wire)
    BY <2>1, <2>2, <2>4
  <2>6. QED
    BY <2>3, <2>5
<1>4. PICK k \in 1..n : /\ v.times[x] = tau[k] /\ In(i, a, b, k)
                        /\ \A j \in 1..n : In(i, a, b, j) => k =< j
  BY <1>2 DEF Covers
<1> HIDE DEF i, v, first
<1>5. /\ \A j \in 1..n : Sorted(p)[j] \in Range(p)
      /\ \A t \in Range(p) : \E j \in 1..n : t = Sorted(p)[j]
      /\ \A j \in 1..n : Has(number, Sorted(p)[j], i) <=> In(i, a, b, j)
  BY <1>3, HasIsIn
<1>6. Is(Sorted(p)[k])
  <2>1. Has(number, Sorted(p)[k], i)
    BY <1>4, <1>5
  <2>2. ASSUME NEW t \in Range(p), Has(number, t, i)
        PROVE  Sorted(p)[k] = t \/ Before(Sorted(p)[k], t)
    <3>1. PICK j \in 1..n : t = Sorted(p)[j]
      BY <1>5
    <3>2. k =< j
      BY <1>4, <1>5, <2>2, <3>1
    <3>3. CASE k = j
      BY <3>1, <3>3
    <3>4. CASE k # j
      <4>1. k < j
        BY <1>3, <3>2, <3>4
      <4>2. Before(Sorted(p)[k], Sorted(p)[j])
        BY <1>1, <4>1 DEF Slicing
      <4>3. QED
        BY <3>1, <4>2
    <3>5. QED
      BY <3>3, <3>4
  <2>3. QED
    BY <2>1, <2>2
<1>7. s \in Range(p) /\ Is(s)
  <2>1. Sorted(p)[k] \in Range(p)
    BY <1>5
  <2> HIDE DEF Is
  <2>2. QED
    BY <1>6, <2>1
<1> HIDE DEF s
<1>8. s = Sorted(p)[k]
  <2> DEFINE u == Sorted(p)[k]
  <2>1. u \in Range(p) /\ Has(number, u, i) /\ Has(number, s, i)
    BY <1>5, <1>6, <1>7
  <2>2. (s = u \/ Before(s, u)) /\ (u = s \/ Before(u, s))
    BY <1>6, <1>7, <2>1
  <2>3. DOMAIN p = 1..n
    BY <1>1 DEF Packets
  <2>4. PICK j \in 1..n, l \in 1..n : s = p[j] /\ u = p[l]
    BY <1>7, <2>1, <2>3 DEF Range
  <2>5. ~(Before(p[j], p[l]) /\ Before(p[l], p[j]))
    BY <1>1, <1>3, BeforeIsOrder
  <2> HIDE DEF u
  <2>6. s = u
    BY <2>2, <2>4, <2>5
  <2>7. QED
    BY <2>6 DEF u
<1>9. s.time = v.times[x]
  BY <1>1, <1>4, <1>8
<1>10. QED
  BY <1>9 DEF s, v, i, first

\* If the sequence numbers do not wrap and the stream is clean, every message that was
\* captured whole before the first gap is found, in the order of the wire and with the time
\* of its first segment, and nothing else, whatever the bodies hold (reassemble,
\* parse_http_messages).
THEOREM EveryMessageIsFound == AllFound
<1>1. SUFFICES ASSUME NEW number \in Numbers, NEW p \in Captures(number), ~Wraps(number),
                      Clean(Reassembled(p))
               PROVE  Messages(Reassembled(p)) = Expected(number, p)
  BY Zenon DEF AllFound
<1>2. PICK n, a, b, tau : Captured(p, number, n, a, b, tau)
  BY CaptureFacts DEF Captured
<1> DEFINE first == a[1]
           v == Reassembled(p)
           c == Len(v.cells)
           N == Len(Bodies)
           l == FirstAt(first)
           h == LastBefore(first + c)
           run == Run(number, p)
           whole == {m \in 1..N : Place(m)..EndOf[m] \subseteq run}
           head(m) == CHOOSE s \in Range(p) :
                        /\ Has(number, s, Place(m))
                        /\ \A t \in Range(p) : Has(number, t, Place(m)) => s = t \/ Before(s, t)
           nth(k) == CHOOSE m \in whole : Cardinality({j \in whole : j =< m}) = k
<1>3. Slicing(Sorted(p), number, n, a, b, tau)
  BY <1>2 DEF Captured
<1>4. first \in 1..Len(Wire) /\ Part(v, first) /\ Messages(v) = Whole(v, first)
  BY <1>1, <1>3, CaptureIsPart
<1>5. c \in Nat /\ first \in Nat /\ first + c \in Int /\ N \in Nat
  <2>1. v.cells \in Seq(Cells)
    BY <1>4 DEF Part, Streams
  <2>2. c \in Nat
    BY <2>1
  <2> HIDE DEF first, c
  <2>3. QED
    BY <1>4, <2>2, Limits
<1>6. Expected(number, p) =
        [k \in 1..Cardinality(whole) |->
           [head |-> <<Wire[Place(nth(k))]>>, body |-> SubSeq(Wire, Place(nth(k)) + 1, EndOf[nth(k)]),
            time |-> head(nth(k)).time]]
  BY Zenon DEF Expected
<1>7. run = first..(first + c - 1)
  BY <1>1, <1>2, RunFacts
<1>8. Messages(v) = [k \in 1..(h - l + 1) |-> Found(v, first, l + k - 1)]
  <2> HIDE DEF first, v
  <2>1. QED
    BY <1>4, <1>5, Zenon DEF Whole
<1>9. ASSUME NEW m \in 1..N, first =< Place(m), EndOf[m] < first + c
      PROVE  head(m).time = v.times[Place(m) - first + 1]
  <2> DEFINE x == Place(m) - first + 1
  <2>1. Place(m) \in Nat /\ EndOf[m] \in Nat /\ Place(m) =< EndOf[m]
    BY PlaceFacts
  <2>2. x \in 1..c /\ first + x - 1 = Place(m)
    <3> DEFINE P == Place(m)
               E == EndOf[m]
    <3> HIDE DEF first, c, P, E
    <3>1. P \in Nat /\ E \in Nat /\ P =< E /\ first =< P /\ E < first + c
      BY <1>9, <2>1 DEF P, E
    <3>2. P - first + 1 \in 1..c /\ first + (P - first + 1) - 1 = P
      BY <1>5, <3>1
    <3>3. QED
      BY <3>2 DEF P
  <2> HIDE DEF x
  <2>3. (CHOOSE s \in Range(p) :
           /\ Has(number, s, first + x - 1)
           /\ \A t \in Range(p) : Has(number, t, first + x - 1) => s = t \/ Before(s, t)).time = v.times[x]
    BY <1>1, <1>2, <2>2, FirstSegment
  <2>4. head(m).time = v.times[x]
    BY <2>2, <2>3, Zenon
  <2>5. QED
    BY <2>4 DEF x
<1> HIDE DEF first, v, c, run, head
<1>10. /\ l \in 1..(N + 1) /\ \A m \in 1..N : first =< Place(m) <=> l =< m
       /\ h \in 0..N /\ \A m \in 1..N : EndOf[m] < first + c <=> m =< h
  <2>1. first \in Int /\ first + c \in Int
    BY <1>5
  <2>2. QED
    BY <2>1, FirstAtFacts, LastBeforeFacts, Zenon
<1> HIDE DEF l, h
<1>11. whole = l..h
  <2>1. ASSUME NEW m \in 1..N
        PROVE  Place(m)..EndOf[m] \subseteq run <=> first =< Place(m) /\ EndOf[m] < first + c
    <3> DEFINE P == Place(m)
               E == EndOf[m]
    <3>1. P \in Nat /\ E \in Nat /\ P =< E
      BY PlaceFacts
    <3> HIDE DEF P, E
    <3>2. P..E \subseteq first..(first + c - 1) <=> first =< P /\ E < first + c
      <4>1. P \in P..E /\ E \in P..E
        BY <3>1
      <4>2. ASSUME P..E \subseteq first..(first + c - 1)
            PROVE  first =< P /\ E < first + c
        <5>1. P \in first..(first + c - 1) /\ E \in first..(first + c - 1)
          BY <4>1, <4>2
        <5>2. QED
          BY <1>5, <3>1, <5>1
      <4>3. ASSUME first =< P, E < first + c
            PROVE  P..E \subseteq first..(first + c - 1)
        BY <1>5, <3>1, <4>3
      <4>4. QED
        BY <4>2, <4>3
    <3>3. QED
      BY <1>7, <3>2 DEF P, E
  <2>2. \A m \in 1..N : m \in whole <=> l =< m /\ m =< h
    BY <1>10, <2>1
  <2>3. \A m \in l..h : m \in 1..N
    BY <1>5, <1>10
  <2>4. QED
    BY <1>10, <2>2, <2>3
<1> HIDE DEF whole, N
<1>12. CASE ~(l =< h)
  <2>1. l..h = {} /\ 1..(h - l + 1) = {}
    BY <1>5, <1>10, <1>12
  <2>2. Cardinality(whole) = 0
    BY <1>11, <2>1, FS_EmptySet
  <2>3. 1..Cardinality(whole) = {}
    BY <2>2
  <2>4. Expected(number, p) = <<>>
    BY <1>6, <2>3
  <2>5. Messages(v) = <<>>
    BY <1>8, <2>1
  <2>6. QED
    BY <2>4, <2>5 DEF v
<1>13. CASE l =< h
  <2>1. l \in Int /\ h \in Int /\ 1 =< l /\ h =< N
    BY <1>5, <1>10
  <2>2. Cardinality(whole) = h - l + 1
    BY <1>11, <1>13, <2>1, FS_Interval
  <2>3. ASSUME NEW k \in 1..(h - l + 1)
        PROVE  nth(k) = l + k - 1
    <3>1. ASSUME NEW m \in whole
          PROVE  Cardinality({j \in whole : j =< m}) = m - l + 1
      <4>1. m \in Int /\ l =< m /\ m =< h
        BY <1>11, <2>1
      <4>2. {j \in whole : j =< m} = l..m
        BY <1>11, <2>1, <4>1
      <4>3. Cardinality(l..m) = m - l + 1
        BY <2>1, <4>1, FS_Interval
      <4>4. QED
        BY <4>2, <4>3
    <3>2. l + k - 1 \in whole /\ (l + k - 1) - l + 1 = k
      BY <1>11, <2>1
    <3>3. \E m \in whole : Cardinality({j \in whole : j =< m}) = k
      BY <3>1, <3>2
    <3>4. nth(k) \in whole /\ Cardinality({j \in whole : j =< nth(k)}) = k
      BY <3>3, Zenon
    <3> HIDE DEF nth
    <3>5. nth(k) - l + 1 = k /\ nth(k) \in Int
      BY <1>11, <2>1, <3>1, <3>4
    <3>6. QED
      BY <2>1, <3>5
  <2>4. ASSUME NEW k \in 1..(h - l + 1)
        PROVE  [head |-> <<Wire[Place(nth(k))]>>, body |-> SubSeq(Wire, Place(nth(k)) + 1, EndOf[nth(k)]),
                time |-> head(nth(k)).time] = Found(v, first, l + k - 1)
    <3> DEFINE m == l + k - 1
    <3>1. m \in 1..N /\ l =< m /\ m =< h
      BY <1>5, <2>1
    <3>2. nth(k) = m
      BY <2>3
    <3> HIDE DEF m, nth
    <3>3. head(m).time = v.times[Place(m) - first + 1]
      BY <1>9, <1>10, <3>1 DEF N
    <3>4. Found(v, first, m) = [head |-> <<Wire[Place(m)]>>, body |-> SubSeq(Wire, Place(m) + 1, EndOf[m]),
                                time |-> head(m).time]
      BY <3>3, Zenon DEF Found
    <3>5. Found(v, first, m) = [head |-> <<Wire[Place(nth(k))]>>, body |-> SubSeq(Wire, Place(nth(k)) + 1, EndOf[nth(k)]),
                                time |-> head(nth(k)).time]
      BY <3>2, <3>4, Zenon
    <3>6. QED
      BY <3>5, Zenon DEF m
  <2> HIDE DEF nth
  <2>5. Expected(number, p) = [k \in 1..(h - l + 1) |-> Found(v, first, l + k - 1)]
    <3>1. Expected(number, p) =
            [k \in 1..(h - l + 1) |->
               [head |-> <<Wire[Place(nth(k))]>>, body |-> SubSeq(Wire, Place(nth(k)) + 1, EndOf[nth(k)]),
                time |-> head(nth(k)).time]]
      BY <1>6, <2>2, Zenon
    <3>2. QED
      BY <2>4, <3>1
  <2>6. QED
    BY <1>8, <2>5 DEF v
<1>14. QED
  BY <1>12, <1>13

-----------------------------------------------------------------------------
(* The promise *)

\* Whatever the order, the repetitions and the losses of the packets, the messages of a
\* report are those that were captured whole, as they were sent (analyze_pcap, reassemble
\* and parse_http_messages), if nothing that looks like a start comes before the first head
\* in the stream: for messages of every length and with anything in their bodies, every
\* modulus that is greater than the wire is long, every first sequence number and any
\* number of segments.
THEOREM MessagesAreFound == Spec => []MessagesFound
<1>1. WholeMessages
  BY EveryMessageIsFound, NoMessageIsMadeUp DEF WholeMessages
<1>2. MessagesFound
  BY <1>1 DEF MessagesFound
<1>3. QED
  BY <1>2, PTL
=============================================================================
