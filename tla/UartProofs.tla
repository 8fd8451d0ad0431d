------------------------------ MODULE UartProofs ------------------------------
(***************************************************************************)
(* The UARTs of Uart.tla, for every size of the rings and of the FIFOs and *)
(* any number of ports.  First the ring, a queue of capacity Size - 1;     *)
(* then the two loops of the interrupt handler over it; then the inductive *)
(* invariant IInv of the ports, which says where every byte is while the   *)
(* interrupt comes between any two steps of the main thread.               *)
(***************************************************************************)
EXTENDS Uart, SequenceTheorems, WellFoundedInduction, TLAPS

-----------------------------------------------------------------------------
(* The ring.                                                               *)

(* The ring holds Size - 1 bytes at most, is empty exactly when it holds   *)
(* none and full exactly when it holds that many (hw_uart.c:25-29, :344).  *)
THEOREM CountIsFill ==
  ASSUME NEW B, NEW r \in Rings(B)
  PROVE  /\ Count(r) \in 0..(Size - 1)
         /\ IsEmpty(r) <=> Count(r) = 0
         /\ IsFull(r) <=> Count(r) = Size - 1
BY RingSizeAssumption DEF Rings, Index, Count, IsEmpty, IsFull, Incr

(* Put on a ring that is not full stays a ring and appends one byte: it    *)
(* overwrites none of those waiting, wherever head has wrapped             *)
(* (hw_uart.c:153-156, :268-272).                                          *)
THEOREM PutAppends ==
  ASSUME NEW B, NEW r \in Rings(B), NEW b \in B, ~IsFull(r)
  PROVE  Put(r, b) \in Rings(B) /\ Contents(Put(r, b)) = Append(Contents(r), b)
<1> DEFINE q == Put(r, b)
<1>1. /\ r.head \in Index /\ r.tail \in Index /\ r.slot \in [Index -> B]
      /\ Incr(r.head) \in Index
  BY RingSizeAssumption DEF Rings, Index, Incr
<1>2. q \in Rings(B)
  BY <1>1 DEF Rings, Put
<1>fields. q.head = Incr(r.head) /\ q.tail = r.tail /\ q.slot = [r.slot EXCEPT ![r.head] = b]
  BY DEF Put
<1>3. Count(q) = Count(r) + 1 /\ Count(r) \in Nat
  <2>1. r.head \in 0..(Size - 1) /\ r.tail \in 0..(Size - 1) /\ r.tail # Incr(r.head)
    BY <1>1 DEF Index, IsFull
  <2>2. Count(r) \in Nat
    BY <2>1, RingSizeAssumption DEF Count
  <2>3. CASE r.head + 1 = Size
    BY <1>fields, <2>1, <2>3, RingSizeAssumption DEF Count, Incr
  <2>4. CASE r.head + 1 # Size
    BY <1>fields, <2>1, <2>4, RingSizeAssumption DEF Count, Incr
  <2> QED BY <2>2, <2>3, <2>4
<1>4. ASSUME NEW i \in 1..Count(r) PROVE At(q, i) = At(r, i)
  BY <1>1, RingSizeAssumption DEF Put, Count, Incr, IsFull, Index, At
<1>5. At(q, Count(r) + 1) = b
  BY <1>1, RingSizeAssumption DEF Put, Count, Incr, IsFull, Index, At
<1>6. Contents(q) = Append(Contents(r), b)
  BY <1>3, <1>4, <1>5 DEF Contents
<1> QED BY <1>2, <1>6

(* Take on a ring that is not empty stays a ring, removes the oldest byte  *)
(* and keeps the order of the others (hw_uart.c:207-209, :326-330).        *)
THEOREM TakeRemovesOldest ==
  ASSUME NEW B, NEW r \in Rings(B), ~IsEmpty(r)
  PROVE  /\ Take(r) \in Rings(B)
         /\ Contents(r) # <<>>
         /\ First(r) = Head(Contents(r))
         /\ Contents(Take(r)) = Tail(Contents(r))
<1> DEFINE q == Take(r)
<1>1. /\ r.head \in Index /\ r.tail \in Index /\ r.slot \in [Index -> B]
      /\ Incr(r.tail) \in Index
  BY RingSizeAssumption DEF Rings, Index, Incr
<1>2. q \in Rings(B)
  BY <1>1 DEF Rings, Take
<1>3. q.head = r.head /\ q.tail = Incr(r.tail) /\ q.slot = r.slot
  BY DEF Take, Rings
<1>4. Count(r) \in Nat \ {0} /\ Count(q) = Count(r) - 1
  BY <1>1, <1>3, RingSizeAssumption DEF Count, Incr, IsEmpty, Index
<1>5. ASSUME NEW i \in 1..(Count(r) - 1) PROVE At(q, i) = At(r, i + 1)
  <2> DEFINE Slot(t, k) == IF t + k - 1 < Size THEN t + k - 1 ELSE t + k - 1 - Size
  <2>1. Count(r) \in 1..(Size - 1) /\ r.tail \in 0..(Size - 1) /\ i \in Nat \ {0} /\ i + 1 < Size + 1
    BY <1>1, <1>4, RingSizeAssumption DEF Count, Index
  <2>2. Slot(Incr(r.tail), i) = Slot(r.tail, i + 1)
    BY <2>1, RingSizeAssumption DEF Incr
  <2> QED BY <2>2, <1>3 DEF At
<1>6. First(r) = At(r, 1)
  BY <1>1, RingSizeAssumption DEF First, At, Index
<1>7. Contents(r) # <<>> /\ First(r) = Head(Contents(r))
  BY <1>4, <1>6 DEF Contents
<1>8. Contents(q) = Tail(Contents(r))
  BY <1>4, <1>5 DEF Contents
<1> QED BY <1>2, <1>7, <1>8

-----------------------------------------------------------------------------
(* Loops over a bounded index.                                             *)

LEMMA LeastOf ==
  ASSUME NEW S, S \subseteq Nat, S # {}
  PROVE  \E x \in S : \A y \in S : x <= y
<1> DEFINE R == OpToRel(<, Nat)
<1>1. IsWellFoundedOn(R, Nat)
  BY NatLessThanWellFounded
<1>2. \A x, y \in Nat : y < x => <<y, x>> \in R
  BY DEF OpToRel
<1> HIDE DEF R
<1>3. PICK x \in S : \A y \in S : ~ (<<y, x>> \in R)
  BY <1>1, WFMin
<1>4. ASSUME NEW y \in S PROVE x <= y
  <2>1. x \in Nat /\ y \in Nat
    OBVIOUS
  <2>2. ~(y < x)
    BY <1>2, <1>3, <2>1
  <2>3. QED
    BY <2>1, <2>2
<1>5. QED
  BY <1>4

(* What holds before a loop and is kept by every turn holds at its end.    *)
LEMMA LoopKeeps ==
  ASSUME NEW n \in Nat, NEW good, 0 \in good,
         \A k \in 1..n : k - 1 \in good => k \in good
  PROVE  \A k \in 0..n : k \in good
<1> DEFINE bad == {k \in 0..n : k \notin good}
<1>1. SUFFICES ASSUME bad # {} PROVE FALSE
  OBVIOUS
<1>2. PICK m \in bad : \A k \in bad : m <= k
  <2>1. bad \subseteq Nat
    OBVIOUS
  <2> HIDE DEF bad
  <2>2. QED
    BY <1>1, <2>1, LeastOf
<1>3. m \in 1..n /\ m - 1 \in 0..n /\ m - 1 \notin bad
  BY <1>2
<1>4. QED
  BY <1>2, <1>3

(* The values a loop goes through: the state before it, and after each     *)
(* turn what turn[k] makes of the state before.                            *)
Run(n, S, first, turn, f) ==
  f \in [0..n -> S] /\ f[0] = first /\ \A k \in 1..n : f[k] = turn[k][f[k - 1]]

LEMMA LoopExists ==
  ASSUME NEW n \in Nat, NEW S, NEW first \in S, NEW turn \in [1..n -> [S -> S]]
  PROVE  \E f : Run(n, S, first, turn, f)
<1> DEFINE Runs(m, f) == /\ f \in [0..m -> S] /\ f[0] = first
                        /\ \A k \in 1..m : f[k] = turn[k][f[k - 1]]
           good == {m \in 0..n : \E f : Runs(m, f)}
<1>1. 0 \in good
  <2>1. Runs(0, [k \in 0..0 |-> first])
    OBVIOUS
  <2> HIDE DEF Runs
  <2>2. 0 \in 0..n
    OBVIOUS
  <2>3. QED
    BY <2>1, <2>2
<1>2. ASSUME NEW m \in 1..n, m - 1 \in good PROVE m \in good
  <2>1. PICK f : Runs(m - 1, f)
    BY <1>2
  <2>2. f[m - 1] \in S /\ turn[m][f[m - 1]] \in S
    BY <2>1
  <2> DEFINE g == [k \in 0..m |-> IF k = m THEN turn[m][f[m - 1]] ELSE f[k]]
  <2>3. g \in [0..m -> S] /\ g[0] = first
    BY <2>1, <2>2
  <2>4. ASSUME NEW k \in 1..m PROVE g[k] = turn[k][g[k - 1]]
    <3>1. g[k - 1] = f[k - 1] /\ k \in 0..m
      OBVIOUS
    <3>2. CASE k = m
      BY <3>1, <3>2
    <3>3. CASE k # m
      <4>1. k \in 1..(m - 1) /\ g[k] = f[k]
        BY <3>1, <3>3
      <4>2. QED
        BY <2>1, <3>1, <4>1
    <3>4. QED
      BY <3>2, <3>3
  <2>5. Runs(m, g) /\ m \in 0..n
    <3> HIDE DEF g
    <3>1. QED
      BY <2>3, <2>4
  <2> HIDE DEF Runs
  <2>6. QED
    BY <2>5
<1>3. n \in good
  <2> HIDE DEF good
  <2>1. \A m \in 1..n : m - 1 \in good => m \in good
    BY <1>2
  <2>2. \A k \in 0..n : k \in good
    BY <1>1, <2>1, LoopKeeps
  <2>3. QED
    BY <2>2
<1>4. PICK f : Runs(n, f)
  BY <1>3
<1>5. QED
  BY <1>4 DEF Run

-----------------------------------------------------------------------------
(* The two loops of the interrupt handler.                                 *)

LEMMA ContentsAre ==
  ASSUME NEW r \in Rings(Nat)
  PROVE  /\ Contents(r) \in Seq(Nat) /\ Len(Contents(r)) = Count(r)
         /\ Count(r) \in 0..(Size - 1)
         /\ \A i \in 1..Count(r) : Contents(r)[i] = At(r, i)
<1>1. Count(r) \in 0..(Size - 1)
  BY CountIsFill
<1>2. ASSUME NEW i \in 1..Count(r) PROVE At(r, i) \in Nat
  BY <1>1, RingSizeAssumption DEF At, Rings, Index
<1>3. QED
  BY <1>1, <1>2 DEF Contents

LEMMA PutIsRing ==
  ASSUME NEW r \in Rings(Nat), NEW b \in Nat
  PROVE  Put(r, b) \in Rings(Nat) /\ Put(r, b).head = Incr(r.head) /\ Put(r, b).tail = r.tail
BY RingSizeAssumption DEF Put, Rings, Index, Incr

LEMMA TakeIsRing ==
  ASSUME NEW r \in Rings(Nat)
  PROVE  Take(r) \in Rings(Nat) /\ Take(r).head = r.head
BY RingSizeAssumption DEF Take, Rings, Index, Incr

(* UART_IntTransmit moves the oldest bytes of the ring into the FIFO, as   *)
(* many as fit, in order, and leaves the others in the ring.               *)
LEMMA TransmittedAs ==
  ASSUME NEW p \in Ports, rb[p].tx \in Rings(Nat)
  PROVE  LET t == Transmitted(p)
         IN /\ t.ring \in Rings(Nat) /\ t.ring.head = rb[p].tx.head
            /\ t.out \in Seq(Nat) /\ Len(t.out) <= FifoSize
            /\ Contents(rb[p].tx) = t.out \o Contents(t.ring)
            /\ t.more <=> ~IsEmpty(t.ring)
            /\ t.thre = IF t.out = <<>> THEN hw[p].thre ELSE FALSE
            /\ IsEmpty(rb[p].tx) => t.ring = rb[p].tx /\ t.out = <<>>
<1> DEFINE r == rb[p].tx
           S == Rings(Nat)
           n == IF Count(r) < FifoSize THEN Count(r) ELSE FifoSize
           move == [k \in 1..n |-> At(r, k)]
           drop == CHOOSE drop : drop = [k \in 0..n |-> IF k = 0 THEN r ELSE Take(drop[k - 1])]
<1>1. /\ Transmitted(p).ring = drop[n] /\ Transmitted(p).out = move
      /\ Transmitted(p).more = ~IsEmpty(drop[n])
      /\ Transmitted(p).thre = IF n = 0 THEN hw[p].thre ELSE FALSE
  BY DEF Transmitted
<1>2. /\ Contents(r) \in Seq(Nat) /\ Len(Contents(r)) = Count(r) /\ Count(r) \in Nat
      /\ \A k \in 1..Count(r) : Contents(r)[k] = At(r, k)
  BY ContentsAre, RingSizeAssumption
<1>3. n \in Nat /\ n <= Count(r) /\ n <= FifoSize /\ (Count(r) = 0 => n = 0)
  BY <1>2, UartAssumption
<1>4. drop = [k \in 0..n |-> IF k = 0 THEN r ELSE Take(drop[k - 1])]
  <2> DEFINE turn == [k \in 1..n |-> [x \in S |-> Take(x)]]
  <2> HIDE DEF n, drop
  <2>1. turn \in [1..n -> [S -> S]] /\ r \in S
    BY TakeIsRing
  <2>2. PICK f : Run(n, S, r, turn, f)
    <3> HIDE DEF turn, r, S
    <3>1. QED
      BY <1>3, <2>1, LoopExists
  <2>3. ASSUME NEW k \in 1..n PROVE f[k] = Take(f[k - 1])
    <3>1. k - 1 \in 0..n
      BY <1>3
    <3>2. f[k - 1] \in S
      BY <2>2, <3>1 DEF Run
    <3>3. QED
      BY <2>2, <3>2 DEF Run
  <2>4. f = [k \in 0..n |-> IF k = 0 THEN r ELSE Take(f[k - 1])]
    BY <1>3, <2>2, <2>3 DEF Run
  <2>5. QED
    BY <2>4 DEF drop
<1> HIDE DEF drop
<1> DEFINE good == {k \in 0..n : /\ drop[k] \in S /\ drop[k].head = r.head
                                /\ Count(drop[k]) = Count(r) - k
                                /\ \A i \in 1..(Count(r) - k) : Contents(drop[k])[i] = Contents(r)[i + k]}
<1>5. 0 \in good
  BY <1>2, <1>3, <1>4
<1>6. ASSUME NEW k \in 1..n, k - 1 \in good PROVE k \in good
  <2> DEFINE d == drop[k - 1]
  <2>1. drop[k] = Take(d) /\ k \in 0..n
    BY <1>3, <1>4
  <2>2. /\ d \in S /\ d.head = r.head /\ Count(d) = Count(r) - (k - 1) /\ Count(d) # 0
        /\ \A i \in 1..(Count(r) - (k - 1)) : Contents(d)[i] = Contents(r)[i + (k - 1)]
    BY <1>2, <1>3, <1>6
  <2> HIDE DEF d, n
  <2>3. ~IsEmpty(d)
    BY <2>2, CountIsFill
  <2>4. /\ Take(d) \in S /\ Contents(d) # <<>> /\ Contents(Take(d)) = Tail(Contents(d))
        /\ Take(d).head = r.head
    BY <2>2, <2>3, TakeRemovesOldest, TakeIsRing
  <2>5. Contents(d) \in Seq(Nat) /\ Len(Contents(d)) = Count(d)
    BY <2>2, ContentsAre
  <2>6. Count(Take(d)) = Count(r) - k
    <3>1. Len(Contents(Take(d))) = Count(Take(d))
      BY <2>4, ContentsAre
    <3>2. Len(Tail(Contents(d))) = Len(Contents(d)) - 1
      BY <2>4, <2>5
    <3>3. k \in Nat
      BY <1>3
    <3>4. QED
      BY <1>2, <2>2, <2>4, <2>5, <3>1, <3>2, <3>3
  <2>7. ASSUME NEW i \in 1..(Count(r) - k) PROVE Contents(Take(d))[i] = Contents(r)[i + k]
    <3>1. i + 1 \in 1..(Count(r) - (k - 1)) /\ i \in 1..(Len(Contents(d)) - 1)
      BY <1>2, <1>3, <2>2, <2>5
    <3>2. Contents(Take(d))[i] = Contents(d)[i + 1]
      BY <2>4, <2>5, <3>1
    <3>3. Contents(d)[i + 1] = Contents(r)[(i + 1) + (k - 1)] /\ (i + 1) + (k - 1) = i + k
      BY <1>2, <1>3, <2>2, <3>1
    <3>4. QED
      BY <3>2, <3>3
  <2>8. QED
    BY <2>1, <2>4, <2>6, <2>7
<1>7. n \in good
  <2> HIDE DEF good, n
  <2>1. QED
    BY <1>3, <1>5, <1>6, LoopKeeps
<1>8. /\ drop[n] \in S /\ drop[n].head = r.head /\ Count(drop[n]) = Count(r) - n
      /\ \A i \in 1..(Count(r) - n) : Contents(drop[n])[i] = Contents(r)[i + n]
  BY <1>7
<1>9. move \in Seq(Nat) /\ Len(move) = n /\ \A k \in 1..n : move[k] = Contents(r)[k]
  <2> HIDE DEF n
  <2>1. \A k \in 1..n : At(r, k) = Contents(r)[k] /\ Contents(r)[k] \in Nat
    BY <1>2, <1>3
  <2>2. QED
    BY <1>3, <2>1
<1> HIDE DEF n, move
<1>10. Contents(r) = move \o Contents(drop[n])
  <2> DEFINE rest == Contents(drop[n])
  <2>1. rest \in Seq(Nat) /\ Len(rest) = Count(r) - n
    BY <1>8, ContentsAre
  <2>2. \A i \in 1..(Count(r) - n) : rest[i] = Contents(r)[i + n]
    BY <1>8
  <2> HIDE DEF rest
  <2>3. /\ move \o rest \in Seq(Nat) /\ Len(move \o rest) = Len(move) + Len(rest)
        /\ \A i \in 1..(Len(move) + Len(rest)) :
             (move \o rest)[i] = IF i <= Len(move) THEN move[i] ELSE rest[i - Len(move)]
    BY <1>9, <2>1, ConcatProperties, Zenon
  <2>4. Len(move) + Len(rest) = Count(r)
    BY <1>2, <1>3, <1>9, <2>1
  <2>5. ASSUME NEW i \in 1..Count(r) PROVE (move \o rest)[i] = Contents(r)[i]
    <3>1. (move \o rest)[i] = IF i <= n THEN move[i] ELSE rest[i - n]
      BY <1>9, <2>3, <2>4
    <3>2. CASE i <= n
      BY <1>2, <1>3, <1>9, <3>1, <3>2
    <3>3. CASE ~(i <= n)
      <4>1. i - n \in 1..(Count(r) - n) /\ (i - n) + n = i
        BY <1>2, <1>3, <3>3
      <4>2. QED
        BY <2>2, <3>1, <3>3, <4>1
    <3>4. QED
      BY <3>2, <3>3
  <2>6. move \o rest = Contents(r)
    BY <1>2, <2>3, <2>4, <2>5, SeqEqual
  <2>7. QED
    BY <2>6 DEF rest
<1>11. IsEmpty(r) => drop[n] = r /\ n = 0
  BY <1>3, <1>4, CountIsFill
<1>12. move = <<>> <=> n = 0
  BY <1>3, <1>9
<1>13. QED
  BY <1>1, <1>3, <1>8, <1>9, <1>10, <1>11, <1>12

(* Bytes that arrived in the order s, none twice, the last no later than   *)
(* the m-th; and all of the first m but the dropped ones.                  *)
Within(s, m) ==
  /\ \A i, j \in 1..Len(s) : i < j => s[i] < s[j]
  /\ \A i \in 1..Len(s) : s[i] \in 1..m
Rising(s) == \A i, j \in 1..Len(s) : i < j => s[i] < s[j]
Kept(s, m, dropped) == Within(s, m) /\ dropped = (1..m) \ ToSet(s)

LEMMA ToSetAppend ==
  ASSUME NEW s \in Seq(Nat), NEW b \in Nat
  PROVE  ToSet(Append(s, b)) = ToSet(s) \union {b}
<1> DEFINE t == Append(s, b)
<1>1. /\ t \in Seq(Nat) /\ Len(t) = Len(s) + 1 /\ Len(s) \in Nat /\ t[Len(s) + 1] = b
      /\ \A i \in 1..Len(s) : t[i] = s[i]
  OBVIOUS
<1>2. DOMAIN t = 1..(Len(s) + 1) /\ DOMAIN s = 1..Len(s)
  BY <1>1
<1> HIDE DEF t
<1>3. ASSUME NEW x \in ToSet(t) PROVE x \in ToSet(s) \union {b}
  BY <1>1, <1>2 DEF ToSet
<1>4. ASSUME NEW x \in ToSet(s) \union {b} PROVE x \in ToSet(t)
  BY <1>1, <1>2 DEF ToSet
<1>5. QED
  BY <1>3, <1>4 DEF t

LEMMA WithinAppend ==
  ASSUME NEW s \in Seq(Nat), NEW m \in Nat, Within(s, m)
  PROVE  Within(Append(s, m + 1), m + 1)
<1> DEFINE t == Append(s, m + 1)
<1>1. /\ Len(t) = Len(s) + 1 /\ Len(s) \in Nat /\ t[Len(s) + 1] = m + 1
      /\ \A i \in 1..Len(s) : t[i] = s[i]
  OBVIOUS
<1> HIDE DEF t
<1>2. \A i \in 1..Len(t) : t[i] \in 1..(m + 1) /\ (i <= Len(s) => t[i] \in 1..m)
  BY <1>1 DEF Within
<1>3. \A i, j \in 1..Len(t) : i < j => t[i] < t[j]
  <2>1. SUFFICES ASSUME NEW i \in 1..Len(t), NEW j \in 1..Len(t), i < j PROVE t[i] < t[j]
    OBVIOUS
  <2>2. CASE j <= Len(s)
    BY <1>1, <2>1, <2>2 DEF Within
  <2>3. CASE j = Len(s) + 1
    <3>1. t[j] = m + 1 /\ t[i] \in 1..m
      BY <1>1, <1>2, <2>1, <2>3
    <3>2. QED
      BY <3>1
  <2>4. QED
    BY <1>1, <2>2, <2>3
<1>4. QED
  BY <1>2, <1>3 DEF Within, t

LEMMA WithinGrows ==
  ASSUME NEW s \in Seq(Nat), NEW m \in Nat, Within(s, m)
  PROVE  Within(s, m + 1)
BY DEF Within

LEMMA KeptAppend ==
  ASSUME NEW s \in Seq(Nat), NEW m \in Nat, NEW dropped, Kept(s, m, dropped)
  PROVE  Kept(Append(s, m + 1), m + 1, dropped)
<1>1. Within(Append(s, m + 1), m + 1)
  BY WithinAppend DEF Kept
<1>2. ToSet(Append(s, m + 1)) = ToSet(s) \union {m + 1}
  BY ToSetAppend
<1>3. dropped = (1..(m + 1)) \ (ToSet(s) \union {m + 1})
  BY DEF Kept
<1>4. QED
  BY <1>1, <1>2, <1>3 DEF Kept

LEMMA KeptDrop ==
  ASSUME NEW s \in Seq(Nat), NEW m \in Nat, NEW dropped, Kept(s, m, dropped)
  PROVE  Kept(s, m + 1, dropped \union {m + 1})
<1>1. m + 1 \notin ToSet(s)
  BY DEF Kept, Within, ToSet
<1>2. dropped \union {m + 1} = (1..(m + 1)) \ ToSet(s)
  BY <1>1 DEF Kept
<1>3. QED
  BY <1>2, WithinGrows DEF Kept

(* With the bytes that wait in the receive FIFO: the order and the set of  *)
(* all that was not dropped.                                               *)
LEMMA KeptAll ==
  ASSUME NEW s \in Seq(Nat), NEW m \in Nat, NEW n \in Nat, NEW dropped, Kept(s, m, dropped),
         NEW fifo, fifo = [k \in 1..n |-> m + k]
  PROVE  LET kept == s \o fifo
         IN /\ ToSet(kept) = (1..(m + n)) \ dropped
            /\ Rising(kept)
            /\ dropped = (1..(m + n)) \ ToSet(kept)
<1> DEFINE kept == s \o fifo
<1>1. fifo \in Seq(Nat) /\ Len(fifo) = n /\ \A k \in 1..n : fifo[k] = m + k
  OBVIOUS
<1>2. /\ kept \in Seq(Nat) /\ Len(kept) = Len(s) + Len(fifo)
      /\ \A i \in 1..(Len(s) + Len(fifo)) :
           kept[i] = IF i <= Len(s) THEN s[i] ELSE fifo[i - Len(s)]
  BY <1>1, ConcatProperties, Zenon
<1>3. Len(s) \in Nat /\ DOMAIN kept = 1..Len(kept) /\ DOMAIN s = 1..Len(s)
  BY <1>2
<1> HIDE DEF kept
<1>4. \A i \in 1..Len(s) : i \in 1..Len(kept) /\ kept[i] = s[i]
  BY <1>1, <1>2, <1>3
<1>5. ASSUME NEW k \in 1..n PROVE Len(s) + k \in 1..Len(kept) /\ kept[Len(s) + k] = m + k
  <2>1. Len(s) + k \in 1..Len(kept) /\ ~(Len(s) + k <= Len(s)) /\ (Len(s) + k) - Len(s) = k
    BY <1>1, <1>2, <1>3
  <2>2. QED
    BY <1>1, <1>2, <2>1
<1>6. \A i \in 1..Len(kept) : i > Len(s) => i - Len(s) \in 1..n /\ kept[i] = m + (i - Len(s))
  <2>1. SUFFICES ASSUME NEW i \in 1..Len(kept), i > Len(s)
                 PROVE  i - Len(s) \in 1..n /\ kept[i] = m + (i - Len(s))
    OBVIOUS
  <2>2. i - Len(s) \in 1..n /\ Len(s) + (i - Len(s)) = i
    BY <1>1, <1>2, <1>3, <2>1
  <2>3. QED
    BY <1>5, <2>2
<1>7. ToSet(kept) = ToSet(s) \union ((m + 1)..(m + n))
  <2>1. ASSUME NEW x \in ToSet(kept) PROVE x \in ToSet(s) \union ((m + 1)..(m + n))
    <3>1. PICK i \in 1..Len(kept) : x = kept[i]
      BY <1>3 DEF ToSet
    <3>2. CASE i <= Len(s)
      <4>1. i \in DOMAIN s /\ x = s[i]
        BY <1>3, <1>4, <3>1, <3>2
      <4>2. QED
        BY <4>1 DEF ToSet
    <3>3. CASE i > Len(s)
      BY <1>3, <1>6, <3>1, <3>3
    <3>4. QED
      BY <1>3, <3>2, <3>3
  <2>2. ASSUME NEW x \in ToSet(s) PROVE x \in ToSet(kept)
    BY <1>3, <1>4 DEF ToSet
  <2>3. ASSUME NEW x \in (m + 1)..(m + n) PROVE x \in ToSet(kept)
    <3>1. x - m \in 1..n /\ m + (x - m) = x
      OBVIOUS
    <3>2. QED
      BY <1>3, <1>5, <3>1 DEF ToSet
  <2>4. QED
    BY <2>1, <2>2, <2>3
<1>8. ToSet(s) \subseteq 1..m
  BY <1>3 DEF ToSet, Kept, Within
<1>9. /\ ToSet(kept) = (1..(m + n)) \ dropped
      /\ dropped = (1..(m + n)) \ ToSet(kept)
  BY <1>7, <1>8 DEF Kept
<1>10. ASSUME NEW i \in 1..Len(kept), NEW j \in 1..Len(kept), i < j PROVE kept[i] < kept[j]
  <2>1. CASE j <= Len(s)
    BY <1>3, <1>4, <1>10, <2>1 DEF Kept, Within
  <2>2. CASE j > Len(s) /\ i <= Len(s)
    <3>1. kept[i] \in 1..m
      BY <1>3, <1>4, <2>2 DEF Kept, Within
    <3>2. QED
      BY <1>6, <2>2, <3>1
  <2>3. CASE i > Len(s)
    BY <1>3, <1>6, <1>10, <2>3
  <2>4. QED
    BY <1>3, <1>10, <2>1, <2>2, <2>3
<1>11. QED
  BY <1>9, <1>10 DEF kept, Rising

(* The ring hw_uart_initialize leaves once it has reset the tail too; the  *)
(* head has not come round to the old tail.                                *)
FromStart(r) == [r EXCEPT !.tail = 0]
NotRound(r) == r.tail = 0 \/ r.head < r.tail

LEMMA FromStartIsRing ==
  ASSUME NEW r \in Rings(Nat)
  PROVE  FromStart(r) \in Rings(Nat) /\ FromStart(r).head = r.head /\ FromStart(r).tail = 0
BY RingSizeAssumption DEF FromStart, Rings, Index

LEMMA PutFromStart ==
  ASSUME NEW r \in Rings(Nat), NEW b \in Nat, NotRound(r), ~IsFull(r)
  PROVE  /\ NotRound(Put(r, b)) /\ FromStart(r) \in Rings(Nat)
         /\ Contents(FromStart(Put(r, b))) = Append(Contents(FromStart(r)), b)
<1>1. r.head \in 0..(Size - 1) /\ r.tail \in 0..(Size - 1) /\ r.tail # Incr(r.head)
  BY DEF Rings, Index, IsFull
<1>2. Incr(r.head) # 0 /\ (r.tail = 0 \/ Incr(r.head) < r.tail)
  BY <1>1, RingSizeAssumption DEF Incr, NotRound
<1>3. FromStart(r) \in Rings(Nat) /\ FromStart(r).head = r.head /\ FromStart(r).tail = 0
  BY FromStartIsRing
<1>4. ~IsFull(FromStart(r))
  BY <1>2, <1>3 DEF IsFull
<1>5. FromStart(Put(r, b)) = Put(FromStart(r), b)
  BY DEF FromStart, Put, Rings
<1>6. NotRound(Put(r, b))
  BY <1>2, PutIsRing DEF NotRound
<1>7. QED
  BY <1>3, <1>4, <1>5, <1>6, PutAppends

(* UART_IntReceive empties the FIFO: each byte of it is put into the ring  *)
(* after those before it, or is dropped.  The ring never holds less after  *)
(* it, and this is so, too, while hw_uart_initialize has reset one index.  *)
LEMMA IntReceiveAs ==
  ASSUME NEW p \in Ports, rb[p].rx \in Rings(Nat), rx[p].dropped \in SUBSET Nat,
         NEW m \in Nat, NEW n \in Nat, Len(hw[p].in) = n, hw[p].in = [k \in 1..n |-> m + k]
  PROVE  LET r == rb[p].rx
             t == IntReceive(p)
         IN /\ t.ring \in Rings(Nat) /\ t.dropped \in SUBSET Nat
            /\ t.ring.tail = r.tail /\ Count(t.ring) >= Count(r)
            /\ \A d \in Seq(Nat) : Kept(d \o Contents(r), m, rx[p].dropped)
                  => Kept(d \o Contents(t.ring), m + n, t.dropped)
            /\ NotRound(r) /\ Within(Contents(FromStart(r)), m)
                  => NotRound(t.ring) /\ Within(Contents(FromStart(t.ring)), m + n)
<1> DEFINE r == rb[p].rx
           in == hw[p].in
           S == [ring : Rings(Nat), dropped : SUBSET Nat]
           first == [ring |-> r, dropped |-> rx[p].dropped]
           next(acc, k) == IF IsFull(acc.ring) THEN [acc EXCEPT !.dropped = @ \union {in[k]}]
                                               ELSE [acc EXCEPT !.ring = Put(@, in[k])]
           got == CHOOSE got : got = [k \in 0..n |-> IF k = 0 THEN first ELSE next(got[k - 1], k)]
<1>1. IntReceive(p) = got[n]
  BY DEF IntReceive
<1>2. \A k \in 1..n : in[k] = m + k /\ in[k] \in Nat
  OBVIOUS
<1>3. ASSUME NEW acc \in S, NEW k \in 1..n PROVE next(acc, k) \in S
  BY <1>2, PutIsRing
<1> HIDE DEF in
<1>4. /\ got = [k \in 0..n |-> IF k = 0 THEN first ELSE next(got[k - 1], k)]
      /\ \A k \in 0..n : got[k] \in S
  <2> DEFINE turn == [k \in 1..n |-> [acc \in S |-> next(acc, k)]]
  <2> HIDE DEF got
  <2>1. turn \in [1..n -> [S -> S]] /\ first \in S
    <3> HIDE DEF next
    <3>1. turn \in [1..n -> [S -> S]]
      BY <1>3
    <3>2. QED
      BY <3>1
  <2>2. PICK f : Run(n, S, first, turn, f)
    <3> HIDE DEF turn, first, S
    <3>1. QED
      BY <2>1, LoopExists
  <2> HIDE DEF next, first
  <2>3. f = [k \in 0..n |-> IF k = 0 THEN first ELSE next(f[k - 1], k)]
    <3>1. ASSUME NEW k \in 1..n PROVE f[k] = next(f[k - 1], k)
      <4>1. k - 1 \in 0..n
        OBVIOUS
      <4>2. f[k - 1] \in S
        BY <2>2, <4>1 DEF Run
      <4>3. QED
        BY <2>2, <4>2 DEF Run
    <3>2. QED
      BY <2>2, <3>1 DEF Run
  <2>4. got = [k \in 0..n |-> IF k = 0 THEN first ELSE next(got[k - 1], k)]
    BY <2>3 DEF got
  <2>5. \A k \in 0..n : got[k] \in S
    <3> DEFINE typed == {k \in 0..n : got[k] \in S}
    <3>1. 0 \in typed
      BY <2>1, <2>4
    <3>2. ASSUME NEW k \in 1..n, k - 1 \in typed PROVE k \in typed
      <4>1. got[k - 1] \in S /\ k \in 0..n /\ k # 0
        BY <3>2
      <4>2. got[k] = next(got[k - 1], k)
        BY <2>4, <4>1
      <4>3. QED
        BY <1>3, <4>1, <4>2
    <3> HIDE DEF typed
    <3>3. \A k \in 0..n : k \in typed
      BY <3>1, <3>2, LoopKeeps
    <3>4. QED
      BY <3>3 DEF typed
  <2>6. QED
    BY <2>4, <2>5
<1> HIDE DEF got
<1> DEFINE Fills(k) ==
             /\ got[k].ring.tail = r.tail /\ Count(got[k].ring) >= Count(r)
             /\ \A d \in Seq(Nat) : Kept(d \o Contents(r), m, rx[p].dropped)
                  => Kept(d \o Contents(got[k].ring), m + k, got[k].dropped)
             /\ NotRound(r) /\ Within(Contents(FromStart(r)), m)
                  => NotRound(got[k].ring) /\ Within(Contents(FromStart(got[k].ring)), m + k)
           good == {k \in 0..n : Fills(k)}
<1>5. Fills(0)
  <2>1. got[0] = first
    BY <1>4
  <2>2. Count(r) \in Nat
    BY ContentsAre
  <2>3. QED
    BY <2>1, <2>2
<1>6. ASSUME NEW k \in 1..n, Fills(k - 1) PROVE Fills(k)
  <2> DEFINE acc == got[k - 1]
  <2>1. acc \in S /\ got[k] = next(acc, k) /\ in[k] = m + k
    <3>1. k - 1 \in 0..n /\ k \in 0..n /\ k # 0
      OBVIOUS
    <3> HIDE DEF next, S
    <3>2. QED
      BY <1>2, <1>4, <3>1
  <2>2. (m + (k - 1)) + 1 = m + k /\ m + (k - 1) \in Nat
    OBVIOUS
  <2>3. Contents(acc.ring) \in Seq(Nat) /\ Count(acc.ring) \in Nat /\ Count(r) \in Nat
        /\ Contents(FromStart(acc.ring)) \in Seq(Nat)
    <3>1. acc.ring \in Rings(Nat)
      BY <2>1
    <3>2. FromStart(acc.ring) \in Rings(Nat)
      BY <3>1, FromStartIsRing
    <3>3. QED
      BY <3>1, <3>2, ContentsAre
  <2>4. CASE IsFull(acc.ring)
    <3>1. got[k].ring = acc.ring /\ got[k].dropped = acc.dropped \union {m + k}
      BY <2>1, <2>4
    <3>2. ASSUME NEW d \in Seq(Nat), Kept(d \o Contents(r), m, rx[p].dropped)
          PROVE  Kept(d \o Contents(got[k].ring), m + k, got[k].dropped)
      <4>1. Kept(d \o Contents(acc.ring), m + (k - 1), acc.dropped)
        BY <1>6, <3>2
      <4>2. d \o Contents(acc.ring) \in Seq(Nat)
        BY <2>3
      <4> HIDE DEF acc
      <4>3. Kept(d \o Contents(acc.ring), m + k, acc.dropped \union {m + k})
        BY <2>2, <4>1, <4>2, KeptDrop
      <4>4. QED
        BY <3>1, <4>3
    <3>3. ASSUME NotRound(r), Within(Contents(FromStart(r)), m)
          PROVE  NotRound(got[k].ring) /\ Within(Contents(FromStart(got[k].ring)), m + k)
      <4>1. NotRound(acc.ring) /\ Within(Contents(FromStart(acc.ring)), m + (k - 1))
        BY <1>6, <3>3
      <4> HIDE DEF acc
      <4>2. QED
        BY <2>2, <2>3, <3>1, <4>1, WithinGrows
    <3>4. QED
      BY <1>6, <3>1, <3>2, <3>3
  <2>5. CASE ~IsFull(acc.ring)
    <3>1. got[k].ring = Put(acc.ring, m + k) /\ got[k].dropped = acc.dropped
      BY <2>1, <2>5
    <3>2. /\ Put(acc.ring, m + k) \in Rings(Nat)
          /\ Contents(Put(acc.ring, m + k)) = Append(Contents(acc.ring), m + k)
      BY <2>1, <2>5, PutAppends
    <3>3. got[k].ring.tail = acc.ring.tail /\ Count(got[k].ring) = Count(acc.ring) + 1
      <4>1. Len(Contents(got[k].ring)) = Count(got[k].ring) /\ Len(Contents(acc.ring)) = Count(acc.ring)
        BY <2>1, <3>1, <3>2, ContentsAre
      <4>2. Len(Append(Contents(acc.ring), m + k)) = Len(Contents(acc.ring)) + 1
        BY <2>3
      <4>3. got[k].ring.tail = acc.ring.tail
        <5>1. acc.ring \in Rings(Nat) /\ m + k \in Nat
          BY <2>1
        <5>2. Put(acc.ring, m + k).tail = acc.ring.tail
          BY <5>1, PutIsRing
        <5>3. QED
          BY <3>1, <5>2
      <4>4. QED
        BY <3>1, <3>2, <4>1, <4>2, <4>3
    <3>4. ASSUME NEW d \in Seq(Nat), Kept(d \o Contents(r), m, rx[p].dropped)
          PROVE  Kept(d \o Contents(got[k].ring), m + k, got[k].dropped)
      <4>1. Kept(d \o Contents(acc.ring), m + (k - 1), acc.dropped)
        BY <1>6, <3>4
      <4>2. d \o Contents(acc.ring) \in Seq(Nat)
        BY <2>3
      <4> HIDE DEF acc
      <4>3. Kept(Append(d \o Contents(acc.ring), m + k), m + k, acc.dropped)
        BY <2>2, <4>1, <4>2, KeptAppend
      <4>4. d \o Append(Contents(acc.ring), m + k) = Append(d \o Contents(acc.ring), m + k)
        BY <2>3
      <4>5. QED
        BY <3>1, <3>2, <4>3, <4>4
    <3>5. ASSUME NotRound(r), Within(Contents(FromStart(r)), m)
          PROVE  NotRound(got[k].ring) /\ Within(Contents(FromStart(got[k].ring)), m + k)
      <4>1. NotRound(acc.ring) /\ Within(Contents(FromStart(acc.ring)), m + (k - 1))
        BY <1>6, <3>5
      <4> HIDE DEF acc
      <4>2. Within(Append(Contents(FromStart(acc.ring)), m + k), m + k)
        BY <2>2, <2>3, <4>1, WithinAppend
      <4>3. /\ NotRound(got[k].ring)
            /\ Contents(FromStart(got[k].ring)) = Append(Contents(FromStart(acc.ring)), m + k)
        <5>1. acc.ring \in Rings(Nat) /\ m + k \in Nat
          BY <2>1
        <5>2. QED
          BY <2>5, <3>1, <4>1, <5>1, PutFromStart
      <4>4. QED
        BY <4>2, <4>3
    <3>6. QED
      BY <1>6, <2>3, <3>3, <3>4, <3>5
  <2>6. QED
    BY <2>4, <2>5
<1>7. Fills(n)
  <2> HIDE DEF Fills
  <2>1. 0 \in good /\ \A k \in 1..n : k - 1 \in good => k \in good
    BY <1>5, <1>6
  <2> HIDE DEF good
  <2>2. \A k \in 0..n : k \in good
    BY <2>1, LoopKeeps
  <2>3. n \in good
    BY <2>2
  <2>4. QED
    BY <2>3 DEF good
<1>8. got[n] \in S
  <2>1. n \in 0..n
    OBVIOUS
  <2>2. QED
    BY <1>4, <2>1
<1>9. QED
  BY <1>1, <1>7, <1>8

-----------------------------------------------------------------------------
(* The inductive invariant.                                                *)

Irqs == {"RBR", "THRE"}
Sending == {"thre off", "fill", "thre on", "kick", "transmit"}
Receiving == {"rbr off", "take", "rbr on"}
Disabling == {"disable", "free", "nvic"}

Memory == [tx : Rings(Nat), rx : Rings(Nat), mem : BOOLEAN]
Peripheral == [ier : SUBSET Irqs, nvic : BOOLEAN, txen : BOOLEAN, thre : BOOLEAN,
               out : Seq(Nat), in : Seq(Nat)]
TxCount == [accepted : Nat, wire : Nat]
RxCount == [arrived : Nat, dropped : SUBSET Nat, delivered : Seq(Nat)]
Calls == [at : Sending \union Receiving \union Disabling, port : Ports,
          left : Nat, ier : SUBSET Irqs]

Types ==
  /\ rb \in [Ports -> Memory] /\ hw \in [Ports -> Peripheral]
  /\ TxIntStat \in {"SET", "RESET"}
  /\ rxEvents \subseteq Ports
  /\ \/ main = Idle
     \/ main \in [at : {"init"}, port : Ports]
     \/ main \in Calls
  /\ tx \in [Ports -> TxCount] /\ rx \in [Ports -> RxCount]
  /\ opens \in Nat

(* The main thread is at one of these places with the port.                *)
At2(p, places) == main.at \in places /\ main.port = p

(* The FIFOs: the THRE interrupt is latched only by one that has drained,  *)
(* and the receive FIFO holds the last bytes that arrived.                 *)
Fifos(p) ==
  /\ Len(hw[p].out) <= FifoSize /\ Len(hw[p].in) <= FifoSize
  /\ hw[p].thre => hw[p].out = <<>>
  /\ Len(hw[p].in) <= rx[p].arrived
  /\ hw[p].in = [k \in 1..Len(hw[p].in) |-> (rx[p].arrived - Len(hw[p].in)) + k]

Sent(p) ==
  Live(p) => /\ tx[p].wire <= tx[p].accepted
             /\ hw[p].out \o Contents(rb[p].tx) =
                  [k \in 1..(tx[p].accepted - tx[p].wire) |-> tx[p].wire + k]

Received(p) ==
  Live(p) => Kept(rx[p].delivered \o Contents(rb[p].rx),
                  rx[p].arrived - Len(hw[p].in), rx[p].dropped)

(* Bytes may come in while hw_uart_initialize is half through, if the port *)
(* was open before: they wait from the start of the receive ring on.       *)
Opening(p) ==
  At2(p, {"init"}) =>
    /\ NotRound(rb[p].rx) /\ (rb[p].rx.head # 0 => p \in rxEvents)
    /\ Within(Contents(FromStart(rb[p].rx)), rx[p].arrived - Len(hw[p].in))
    /\ hw[p].ier = {"RBR"} /\ hw[p].out = <<>> /\ ~hw[p].thre

(* What is in the receive ring is announced, or is being taken.            *)
Announced(p) ==
  /\ Live(p) /\ ~At2(p, Receiving) => IsEmpty(rb[p].rx) \/ p \in rxEvents
  /\ At2(p, {"rbr off", "take"}) =>
       main.left <= Count(rb[p].rx) /\ (main.left = Count(rb[p].rx) \/ p \in rxEvents)
  /\ At2(p, {"rbr on"}) => main.left = 0 /\ (IsEmpty(rb[p].rx) \/ p \in rxEvents)

(* A port that is closed, or being closed: once RBR is off nothing comes   *)
(* in any more, and nothing is freed before the rings are empty.           *)
Closing(p) ==
  /\ At2(p, {"free", "nvic"}) =>
       "RBR" \notin hw[p].ier /\ rb[p].rx.head = 0 /\ rb[p].rx.tail = 0 /\ rb[p].tx.head = 0
  /\ At2(p, {"nvic"}) => ~rb[p].mem
  /\ At2(p, Sending) => rb[p].mem
  /\ ~rb[p].mem =>
       /\ rb[p].rx.head = 0 /\ rb[p].rx.tail = 0 /\ rb[p].tx.head = 0 /\ rb[p].tx.tail = 0
       /\ hw[p].nvic => At2(p, {"nvic"})

Sound(p) ==
  Fifos(p) /\ Sent(p) /\ Received(p) /\ Opening(p) /\ Announced(p) /\ Closing(p)

IInv == Types /\ \A p \in Ports : Sound(p)

LEMMA InitIInv == Init => IInv
<1> SUFFICES ASSUME Init PROVE IInv
  OBVIOUS
<1>1. Blank \in Rings(Nat) /\ Blank.head = 0 /\ Blank.tail = 0
  BY RingSizeAssumption DEF Blank, Rings, Index
<1>2. Types
  BY <1>1 DEF Init, Types, Memory, Peripheral, TxCount, RxCount
<1>3. ASSUME NEW p \in Ports PROVE Sound(p)
  <2>1. /\ rb[p] = [tx |-> Blank, rx |-> Blank, mem |-> FALSE] /\ main.at = "idle"
        /\ hw[p].in = <<>> /\ hw[p].out = <<>> /\ ~hw[p].nvic /\ rx[p].arrived = 0
        /\ ~hw[p].thre
    BY DEF Init, Idle
  <2>2. Fifos(p)
    BY <2>1, UartAssumption DEF Fifos
  <2>3. QED
    BY <1>1, <2>1, <2>2 DEF Sound, Sent, Received, Opening, Announced, Closing, Live, At2,
                            Sending, Receiving
<1>4. QED
  BY <1>2, <1>3 DEF IInv

LEMMA MainAs ==
  ASSUME Types
  PROVE  /\ main.at = "idle" \/ main.port \in Ports
         /\ main.at \in {"idle", "init"} \/ (main.left \in Nat /\ main.ier \in SUBSET Irqs)
         /\ main.at = "idle" => main = Idle
         /\ main.at \in {"idle", "init"} \union Sending \union Receiving \union Disabling
<1> DEFINE Busy == Sending \union Receiving \union Disabling
<1>1. "idle" \notin Busy /\ "init" \notin Busy
  BY DEF Sending, Receiving, Disabling
<1>2. \/ main = Idle
      \/ main \in [at : {"init"}, port : Ports]
      \/ main \in [at : Busy, port : Ports, left : Nat, ier : SUBSET Irqs]
  BY DEF Types, Calls
<1> HIDE DEF Busy
<1>3. CASE main = Idle
  BY <1>3 DEF Idle
<1>4. CASE main \in [at : {"init"}, port : Ports]
  BY <1>4
<1>5. CASE main \in [at : Busy, port : Ports, left : Nat, ier : SUBSET Irqs]
  BY <1>1, <1>5 DEF Busy
<1>6. QED
  BY <1>2, <1>3, <1>4, <1>5

(* What the two loops do to a port of the running system.                  *)
LEMMA Transmits ==
  ASSUME Types, NEW p \in Ports
  PROVE  LET t == Transmitted(p)
         IN /\ t.ring \in Rings(Nat) /\ t.ring.head = rb[p].tx.head
            /\ t.out \in Seq(Nat) /\ Len(t.out) <= FifoSize
            /\ Contents(rb[p].tx) = t.out \o Contents(t.ring)
            /\ t.more <=> ~IsEmpty(t.ring)
            /\ t.thre = IF t.out = <<>> THEN hw[p].thre ELSE FALSE
            /\ IsEmpty(rb[p].tx) => t.ring = rb[p].tx /\ t.out = <<>>
BY TransmittedAs DEF Types, Memory

LEMMA Receives ==
  ASSUME Types, NEW p \in Ports, Fifos(p)
  PROVE  LET r == rb[p].rx
             t == IntReceive(p)
             m == rx[p].arrived - Len(hw[p].in)
         IN /\ t.ring \in Rings(Nat) /\ t.dropped \in SUBSET Nat
            /\ t.ring.tail = r.tail /\ Count(t.ring) >= Count(r)
            /\ \A d \in Seq(Nat) : Kept(d \o Contents(r), m, rx[p].dropped)
                  => Kept(d \o Contents(t.ring), rx[p].arrived, t.dropped)
            /\ NotRound(r) /\ Within(Contents(FromStart(r)), m)
                  => NotRound(t.ring) /\ Within(Contents(FromStart(t.ring)), rx[p].arrived)
<1> DEFINE n == Len(hw[p].in)
           m == rx[p].arrived - n
<1>1. n \in Nat /\ m \in Nat /\ m + n = rx[p].arrived
  BY DEF Types, Peripheral, RxCount, Fifos
<1>2. hw[p].in = [k \in 1..n |-> m + k]
  BY DEF Fifos
<1>3. rb[p].rx \in Rings(Nat) /\ rx[p].dropped \in SUBSET Nat
  BY DEF Types, Memory, RxCount
<1>4. Len(hw[p].in) = n
  OBVIOUS
<1> HIDE DEF n
<1>5. m \in Nat
  BY <1>1
<1> HIDE DEF m
<1>6. /\ IntReceive(p).ring \in Rings(Nat) /\ IntReceive(p).dropped \in SUBSET Nat
      /\ IntReceive(p).ring.tail = rb[p].rx.tail
      /\ Count(IntReceive(p).ring) >= Count(rb[p].rx)
      /\ \A d \in Seq(Nat) : Kept(d \o Contents(rb[p].rx), m, rx[p].dropped)
            => Kept(d \o Contents(IntReceive(p).ring), m + n, IntReceive(p).dropped)
      /\ NotRound(rb[p].rx) /\ Within(Contents(FromStart(rb[p].rx)), m)
            => NotRound(IntReceive(p).ring)
               /\ Within(Contents(FromStart(IntReceive(p).ring)), m + n)
  BY <1>1, <1>2, <1>3, <1>4, <1>5, IntReceiveAs
<1>7. QED
  BY <1>1, <1>6 DEF m, n

(* A step that leaves a port alone keeps it sound.                         *)
LEMMA OtherPorts ==
  ASSUME NEW q \in Ports, Sound(q), rb'[q] = rb[q], hw'[q] = hw[q], tx'[q] = tx[q],
         rx'[q] = rx[q], q \in rxEvents' <=> q \in rxEvents,
         main' = main \/ (Settled(q) /\ Settled(q)')
  PROVE  Sound(q)'
<1>1. Fifos(q)'
  BY DEF Sound, Fifos
<1>2. CASE main' = main
  BY <1>1, <1>2 DEF Sound, Sent, Received, Opening, Announced, Closing, Live, Settled, At2
<1>3. CASE Settled(q) /\ Settled(q)'
  <2>1. \A places \in SUBSET ({"init"} \union Sending \union Receiving \union Disabling) :
          ~At2(q, places) /\ ~At2(q, places)'
    BY <1>3 DEF Settled, At2, Sending, Receiving, Disabling
  <2>2. (Live(q) <=> rb[q].mem) /\ (Live(q)' <=> rb[q].mem)
    BY <1>3 DEF Live
  <2>3. QED
    BY <1>1, <2>1, <2>2 DEF Sound, Sent, Received, Opening, Announced, Closing,
                            Sending, Receiving, Disabling
<1>4. QED
  BY <1>2, <1>3

(* A place of the main thread in a function, and the step to the next.     *)
LEMMA MainGoes ==
  ASSUME Types
  PROVE  /\ \A p \in Ports, n \in Nat, at \in Sending \union Receiving \union Disabling :
              [at |-> at, port |-> p, left |-> n, ier |-> hw[p].ier] \in Calls
         /\ main.at \notin {"idle", "init"} =>
              /\ main \in Calls
              /\ \A at \in Sending \union Receiving \union Disabling : [main EXCEPT !.at = at] \in Calls
<1> DEFINE Busy == Sending \union Receiving \union Disabling
<1>1. \A p \in Ports : hw[p].ier \in SUBSET Irqs
  BY DEF Types, Peripheral
<1>2. main.at \notin {"idle", "init"} =>
        main \in [at : Busy, port : Ports, left : Nat, ier : SUBSET Irqs]
  BY DEF Types, Idle, Calls
<1> HIDE DEF Busy
<1>3. QED
  BY <1>1, <1>2 DEF Busy, Calls

(* One assignment to a port's rings or peripheral keeps it one.            *)
LEMMA RingUpdates ==
  \A r \in Rings(Nat) :
    [r EXCEPT !.head = 0] \in Rings(Nat) /\ [r EXCEPT !.tail = 0] \in Rings(Nat)
BY RingSizeAssumption DEF Rings, Index

LEMMA RbUpdates ==
  ASSUME NEW f \in [Ports -> Memory], NEW p \in Ports
  PROVE  /\ [f EXCEPT ![p].rx.head = 0] \in [Ports -> Memory]
         /\ [f EXCEPT ![p].rx.tail = 0] \in [Ports -> Memory]
         /\ [f EXCEPT ![p].tx.head = 0] \in [Ports -> Memory]
         /\ [f EXCEPT ![p].tx.tail = 0] \in [Ports -> Memory]
         /\ [f EXCEPT ![p].mem = FALSE] \in [Ports -> Memory]
         /\ \A r \in Rings(Nat) : [f EXCEPT ![p].rx = r] \in [Ports -> Memory]
         /\ \A r \in Rings(Nat) : [f EXCEPT ![p].tx = r] \in [Ports -> Memory]
<1>1. /\ \A m \in Memory, r \in Rings(Nat) :
           [m EXCEPT !.rx = r] \in Memory /\ [m EXCEPT !.tx = r] \in Memory
      /\ \A m \in Memory :
           [m EXCEPT !.mem = FALSE] \in Memory /\ m.rx \in Rings(Nat) /\ m.tx \in Rings(Nat)
  BY DEF Memory
<1>2. \A r \in Rings(Nat) :
        [r EXCEPT !.head = 0] \in Rings(Nat) /\ [r EXCEPT !.tail = 0] \in Rings(Nat)
  BY RingUpdates
<1>3. f[p] \in Memory /\ \A m \in Memory : [f EXCEPT ![p] = m] \in [Ports -> Memory]
  OBVIOUS
<1>4. QED
  BY <1>1, <1>2, <1>3

LEMMA HwUpdates ==
  ASSUME NEW f \in [Ports -> Peripheral], NEW p \in Ports
  PROVE  /\ \A e \in SUBSET Irqs : [f EXCEPT ![p].ier = e] \in [Ports -> Peripheral]
         /\ \A b \in BOOLEAN : [f EXCEPT ![p].nvic = b] \in [Ports -> Peripheral]
         /\ \A b \in BOOLEAN : [f EXCEPT ![p].txen = b] \in [Ports -> Peripheral]
         /\ \A b \in BOOLEAN : [f EXCEPT ![p].thre = b] \in [Ports -> Peripheral]
         /\ \A s \in Seq(Nat) : [f EXCEPT ![p].out = s] \in [Ports -> Peripheral]
         /\ \A s \in Seq(Nat) : [f EXCEPT ![p].in = s] \in [Ports -> Peripheral]
BY DEF Peripheral

LEMMA RxUpdates ==
  ASSUME NEW f \in [Ports -> RxCount], NEW p \in Ports
  PROVE  /\ \A k \in Nat : [f EXCEPT ![p].arrived = k] \in [Ports -> RxCount]
         /\ \A d \in SUBSET Nat : [f EXCEPT ![p].dropped = d] \in [Ports -> RxCount]
         /\ \A s \in Seq(Nat) : [f EXCEPT ![p].delivered = s] \in [Ports -> RxCount]
BY DEF RxCount

LEMMA TxUpdates ==
  ASSUME NEW f \in [Ports -> TxCount], NEW p \in Ports
  PROVE  /\ \A k \in Nat : [f EXCEPT ![p].accepted = k] \in [Ports -> TxCount]
         /\ \A k \in Nat : [f EXCEPT ![p].wire = k] \in [Ports -> TxCount]
BY DEF TxCount

LEMMA PortTypes ==
  ASSUME Types, NEW p \in Ports
  PROVE  /\ rb[p].tx \in Rings(Nat) /\ rb[p].rx \in Rings(Nat) /\ rb[p].mem \in BOOLEAN
         /\ hw[p].ier \in SUBSET Irqs /\ hw[p].thre \in BOOLEAN
         /\ hw[p].out \in Seq(Nat) /\ hw[p].in \in Seq(Nat)
         /\ tx[p].accepted \in Nat /\ tx[p].wire \in Nat
         /\ rx[p].arrived \in Nat /\ rx[p].dropped \in SUBSET Nat /\ rx[p].delivered \in Seq(Nat)
         /\ rb \in [Ports -> Memory] /\ hw \in [Ports -> Peripheral]
         /\ tx \in [Ports -> TxCount] /\ rx \in [Ports -> RxCount]
BY DEF Types, Memory, Peripheral, TxCount, RxCount

-----------------------------------------------------------------------------
(* Every step keeps the types.                                             *)

Step(p) == \/ InitUart(p) \/ DisableStart(p) \/ \E n \in SendSizes : SendStart(p, n)
           \/ MainSteps(p) \/ Hardware(p) \/ Arrive(p)

LEMMA StepTypes ==
  ASSUME IInv, NEW p \in Ports, Step(p)
  PROVE  Types'
<1>1. Types /\ Fifos(p)
  BY DEF IInv, Sound
<1> USE <1>1
<1>2. /\ {"RBR"} \in SUBSET Irqs /\ 0 \in Nat /\ <<>> \in Seq(Nat)
      /\ \A e \in SUBSET Irqs : \A i : e \ {i} \in SUBSET Irqs
      /\ \A e \in SUBSET Irqs, i \in Irqs : e \union {i} \in SUBSET Irqs
  <2>1. {"RBR"} \in SUBSET Irqs /\ 0 \in Nat /\ <<>> \in Seq(Nat)
    BY DEF Irqs
  <2>2. /\ \A e \in SUBSET Irqs : \A i : e \ {i} \in SUBSET Irqs
        /\ \A e \in SUBSET Irqs, i \in Irqs : e \union {i} \in SUBSET Irqs
    OBVIOUS
  <2>3. QED
    BY <2>1, <2>2
<1>4. CASE InitUart(p)
  <2> DEFINE a == [hw EXCEPT ![p].ier = {"RBR"}]
             b == [a EXCEPT ![p].txen = TRUE]
             c == [b EXCEPT ![p].thre = FALSE]
             d == [c EXCEPT ![p].out = <<>>]
  <2>1. hw' = [d EXCEPT ![p].in = <<>>]
    BY <1>4, PortTypes DEF InitUart
  <2>2. a \in [Ports -> Peripheral]
    BY <1>2, HwUpdates, PortTypes
  <2> HIDE DEF a
  <2>3. b \in [Ports -> Peripheral]
    BY <2>2, HwUpdates
  <2> HIDE DEF b
  <2>4. c \in [Ports -> Peripheral]
    BY <2>3, HwUpdates
  <2> HIDE DEF c
  <2>5. d \in [Ports -> Peripheral]
    BY <1>2, <2>4, HwUpdates
  <2> HIDE DEF d
  <2>6. hw' \in [Ports -> Peripheral]
    BY <1>2, <2>1, <2>5, HwUpdates
  <2>7. rb' \in [Ports -> Memory]
    BY <1>4, RbUpdates, PortTypes DEF InitUart
  <2>8. main' \in [at : {"init"}, port : Ports] /\ opens' \in Nat
    BY <1>4 DEF InitUart, Types
  <2>9. QED
    BY <1>4, <2>6, <2>7, <2>8 DEF InitUart, Types
<1>5. CASE DisableStart(p)
  <2>1. hw' = [hw EXCEPT ![p].txen = FALSE] /\ UNCHANGED <<rb, TxIntStat, rxEvents, tx, rx, opens>>
        /\ main' = [at |-> "disable", port |-> p, left |-> 0, ier |-> hw[p].ier]
    BY <1>5 DEF DisableStart, Goto
  <2>2. hw' \in [Ports -> Peripheral]
    BY <2>1, HwUpdates, PortTypes
  <2>3. QED
    BY <1>2, <2>1, <2>2, MainGoes DEF Types, Disabling
<1>6. ASSUME NEW n \in SendSizes, SendStart(p, n) PROVE Types'
  BY <1>6, MainGoes, UartAssumption DEF SendStart, Goto, Types, Sending
<1>7. CASE InitRings(p)
  <2> DEFINE ring == [rb[p].rx EXCEPT !.tail = 0]
             dropped == (1..rx[p].arrived) \ ToSet(Contents(ring) \o hw[p].in)
             first == [[rb[p].tx EXCEPT !.head = 0] EXCEPT !.tail = 0]
             a == [rx EXCEPT ![p].delivered = <<>>]
  <2>1. /\ rb' = [rb EXCEPT ![p] = [tx |-> first, rx |-> ring, mem |-> TRUE]]
        /\ rx' = [a EXCEPT ![p].dropped = dropped]
        /\ hw' = [hw EXCEPT ![p].nvic = TRUE] /\ main' = Idle
        /\ tx' = [tx EXCEPT ![p] = [accepted |-> 0, wire |-> 0]]
        /\ UNCHANGED <<TxIntStat, rxEvents, opens>>
    BY <1>7, PortTypes DEF InitRings
  <2>2. ring \in Rings(Nat) /\ first \in Rings(Nat)
    BY PortTypes, RingUpdates
  <2>3. dropped \in SUBSET Nat
    BY PortTypes
  <2> HIDE DEF ring, dropped, first
  <2>4. rb' \in [Ports -> Memory]
    BY <2>1, <2>2, PortTypes DEF Memory
  <2>5. a \in [Ports -> RxCount]
    BY <1>2, RxUpdates, PortTypes
  <2> HIDE DEF a
  <2>6. rx' \in [Ports -> RxCount]
    BY <2>1, <2>3, <2>5, RxUpdates
  <2>7. hw' \in [Ports -> Peripheral]
    BY <2>1, HwUpdates, PortTypes
  <2>8. tx' \in [Ports -> TxCount]
    BY <2>1, PortTypes DEF TxCount
  <2>9. QED
    BY <2>1, <2>4, <2>6, <2>7, <2>8 DEF Types
<1>8. CASE DisableRbr(p)
  <2> DEFINE a == [rb EXCEPT ![p].rx.head = 0]
             b == [a EXCEPT ![p].rx.tail = 0]
  <2>1. rb' = [b EXCEPT ![p].tx.head = 0]
    BY <1>8, PortTypes DEF DisableRbr, Memory
  <2>2. a \in [Ports -> Memory]
    BY RbUpdates, PortTypes
  <2> HIDE DEF a
  <2>3. b \in [Ports -> Memory]
    BY <2>2, RbUpdates
  <2> HIDE DEF b
  <2>4. rb' \in [Ports -> Memory]
    BY <2>1, <2>3, RbUpdates
  <2>5. /\ main.at = "disable" /\ main' = [main EXCEPT !.at = "free"]
        /\ hw' = [hw EXCEPT ![p].ier = main.ier \ {"RBR"}]
        /\ UNCHANGED <<TxIntStat, rxEvents, tx, rx, opens>>
    BY <1>8 DEF DisableRbr, On
  <2>6. main.ier \ {"RBR"} \in SUBSET Irqs
    BY <1>2, <2>5, MainAs
  <2>7. hw' \in [Ports -> Peripheral]
    BY <2>5, <2>6, HwUpdates, PortTypes
  <2>8. main' \in Calls
    BY <2>5, MainGoes DEF Disabling
  <2>9. QED
    BY <2>4, <2>5, <2>7, <2>8 DEF Types
<1>9. CASE DisableFree(p)
  <2> DEFINE a == [rb EXCEPT ![p].tx.tail = 0]
  <2>1. rb' = [a EXCEPT ![p].mem = FALSE]
    BY <1>9, PortTypes DEF DisableFree, Memory
  <2>2. a \in [Ports -> Memory]
    BY RbUpdates, PortTypes
  <2> HIDE DEF a
  <2>3. rb' \in [Ports -> Memory]
    BY <2>1, <2>2, RbUpdates
  <2>4. main.at = "free" /\ main' = [main EXCEPT !.at = "nvic"]
        /\ UNCHANGED <<hw, TxIntStat, rxEvents, tx, rx, opens>>
    BY <1>9 DEF DisableFree, On
  <2>5. main' \in Calls
    BY <2>4, MainGoes DEF Disabling
  <2>6. QED
    BY <2>3, <2>4, <2>5 DEF Types
<1>10. CASE DisableNvic(p)
  <2>1. hw' \in [Ports -> Peripheral]
    BY <1>10, HwUpdates, PortTypes DEF DisableNvic
  <2>2. QED
    BY <1>10, <2>1 DEF DisableNvic, Types
<1>11. ASSUME NEW e, NEW at \in Sending \union Receiving,
              e = main.ier \ {"THRE"} \/ e = main.ier \ {"RBR"},
              main.at \notin {"idle", "init"}, main' = [main EXCEPT !.at = at],
              hw' = [hw EXCEPT ![p].ier = e], UNCHANGED <<rb, TxIntStat, rxEvents, tx, rx, opens>>
       PROVE  Types'
  <2>1. e \in SUBSET Irqs
    BY <1>2, <1>11, MainAs
  <2>2. hw' \in [Ports -> Peripheral] /\ main' \in Calls
    BY <1>11, <2>1, HwUpdates, PortTypes, MainGoes
  <2>3. QED
    BY <1>11, <2>2 DEF Types
<1>12. CASE SendThreOff(p) \/ SendKick(p) \/ ReceiveRbrOff(p)
  BY <1>11, <1>12 DEF SendThreOff, SendKick, ReceiveRbrOff, On, Sending, Receiving
<1>13. CASE SendThreOn(p) \/ ReceiveRbrOn(p)
  <2>1. /\ main.at \notin {"idle", "init"} /\ main' = Idle
        /\ \E i \in {"RBR", "THRE"} : hw' = [hw EXCEPT ![p].ier = main.ier \union {i}]
        /\ UNCHANGED <<rb, TxIntStat, rxEvents, tx, rx, opens>>
    BY <1>13 DEF SendThreOn, ReceiveRbrOn, On
  <2>2. PICK i \in Irqs : hw' = [hw EXCEPT ![p].ier = main.ier \union {i}]
    BY <2>1 DEF Irqs
  <2>3. main.ier \union {i} \in SUBSET Irqs
    BY <1>2, <2>1, MainAs
  <2>4. hw' \in [Ports -> Peripheral]
    BY <2>2, <2>3, HwUpdates, PortTypes
  <2>5. QED
    BY <2>1, <2>4 DEF Types
<1>14. CASE SendFill(p)
  <2>1. main.at = "fill" /\ main.left \in Nat /\ main \in Calls
    BY <1>14, MainAs, MainGoes DEF SendFill, On
  <2>2. CASE main.left > 0 /\ ~IsFull(rb[p].tx)
    <3> DEFINE r == Put(rb[p].tx, tx[p].accepted + 1)
    <3>1. rb' = [rb EXCEPT ![p].tx = r]
          /\ tx' = [tx EXCEPT ![p].accepted = @ + 1] /\ main' = [main EXCEPT !.left = @ - 1]
          /\ UNCHANGED <<hw, TxIntStat, rxEvents, rx, opens>>
      BY <1>14, <2>1, <2>2 DEF SendFill
    <3>2. r \in Rings(Nat)
      BY PortTypes, PutIsRing
    <3> HIDE DEF r
    <3>3. rb' \in [Ports -> Memory]
      BY <3>1, <3>2, RbUpdates, PortTypes
    <3>4. tx' \in [Ports -> TxCount]
      <4>1. tx[p].accepted + 1 \in Nat
        BY PortTypes
      <4>2. QED
        BY <3>1, <4>1, TxUpdates, PortTypes
    <3>5. main' \in Calls
      BY <2>1, <2>2, <3>1 DEF Calls
    <3>6. QED
      BY <3>1, <3>3, <3>4, <3>5 DEF Types
  <2>3. CASE ~(main.left > 0 /\ ~IsFull(rb[p].tx))
    <3>1. main' = [at |-> AfterFill, port |-> p, left |-> 0, ier |-> hw[p].ier]
          /\ UNCHANGED <<rb, tx, hw, TxIntStat, rxEvents, rx, opens>>
      BY <1>14, <2>3 DEF SendFill, Goto
    <3>2. AfterFill \in Sending
      BY DEF AfterFill, Sending
    <3>3. main' \in Calls
      BY <1>2, <3>1, <3>2, MainGoes
    <3>4. QED
      BY <3>1, <3>3 DEF Types
  <2>4. QED
    BY <2>2, <2>3
<1>15. CASE SendTransmit(p)
  <2> DEFINE t == Transmitted(p)
             a == [hw EXCEPT ![p].out = t.out]
  <2>1. t.ring \in Rings(Nat) /\ t.out \in Seq(Nat) /\ t.thre \in BOOLEAN
    BY Transmits, PortTypes
  <2>2. /\ rb' = [rb EXCEPT ![p].tx = t.ring] /\ hw' = [a EXCEPT ![p].thre = t.thre]
        /\ TxIntStat' \in {"SET", "RESET"} /\ UNCHANGED <<rxEvents, tx, rx, opens>>
        /\ \/ main' = Idle
           \/ main' = [at |-> "thre on", port |-> p, left |-> 0, ier |-> hw[p].ier]
    BY <1>15, PortTypes DEF SendTransmit, Goto
  <2> HIDE DEF t
  <2>3. rb' \in [Ports -> Memory] /\ a \in [Ports -> Peripheral]
    BY <2>1, <2>2, RbUpdates, HwUpdates, PortTypes
  <2> HIDE DEF a
  <2>4. hw' \in [Ports -> Peripheral]
    BY <2>1, <2>2, <2>3, HwUpdates
  <2>5. main' = Idle \/ main' \in Calls
    <3>1. [at |-> "thre on", port |-> p, left |-> 0, ier |-> hw[p].ier] \in Calls
      BY <1>2, MainGoes DEF Sending
    <3>2. QED
      BY <2>2, <3>1
  <2>6. QED
    BY <2>2, <2>3, <2>4, <2>5 DEF Types
<1>16. CASE RxCallback(p)
  <2>1. Count(rb[p].rx) \in Nat
    BY PortTypes, ContentsAre
  <2>2. /\ main' = [at |-> "rbr off", port |-> p, left |-> Count(rb[p].rx), ier |-> hw[p].ier]
        /\ rxEvents' = rxEvents \ {p} /\ UNCHANGED <<rb, hw, TxIntStat, tx, rx, opens>>
    BY <1>16 DEF RxCallback, Goto
  <2>3. main' \in Calls
    BY <2>1, <2>2, MainGoes DEF Receiving
  <2>4. QED
    BY <2>2, <2>3 DEF Types
<1>18. CASE ReceiveTake(p)
  <2>1. main.at = "take" /\ main.left \in Nat /\ main \in Calls
    BY <1>18, MainAs, MainGoes DEF ReceiveTake, On
  <2>2. CASE main.left > 0 /\ ~IsEmpty(rb[p].rx)
    <3>1. rb' = [rb EXCEPT ![p].rx = Take(@)]
          /\ rx' = [rx EXCEPT ![p].delivered = Append(@, First(rb[p].rx))]
          /\ main' = [main EXCEPT !.left = @ - 1]
          /\ UNCHANGED <<hw, TxIntStat, rxEvents, tx, opens>>
      <4>1. main.left # 0
        BY <2>1, <2>2
      <4>2. QED
        BY <1>18, <2>2, <4>1 DEF ReceiveTake
    <3>2. Take(rb[p].rx) \in Rings(Nat) /\ First(rb[p].rx) \in Nat
      BY PortTypes, TakeIsRing DEF First, Rings
    <3>3. rb' \in [Ports -> Memory]
      BY <3>1, <3>2, RbUpdates, PortTypes
    <3>4. Append(rx[p].delivered, First(rb[p].rx)) \in Seq(Nat)
      BY <3>2, PortTypes
    <3>5. rx' \in [Ports -> RxCount]
      BY <3>1, <3>4, RxUpdates, PortTypes
    <3>6. main' \in Calls
      BY <2>1, <2>2, <3>1 DEF Calls
    <3>7. QED
      BY <3>1, <3>3, <3>5, <3>6 DEF Types
  <2>3. CASE ~(main.left > 0 /\ ~IsEmpty(rb[p].rx))
    <3>1. main' = [at |-> "rbr on", port |-> p, left |-> main.left, ier |-> hw[p].ier]
          /\ UNCHANGED <<rb, rx, hw, TxIntStat, rxEvents, tx, opens>>
      BY <1>18, <2>3 DEF ReceiveTake, Goto
    <3>2. main' \in Calls
      BY <2>1, <3>1, MainGoes DEF Receiving
    <3>3. QED
      BY <3>1, <3>2 DEF Types
  <2>4. QED
    BY <2>2, <2>3
<1>20. CASE TxIsr(p)
  <2> DEFINE t == Transmitted(p)
             e == IF t.more THEN hw[p].ier ELSE hw[p].ier \ {"THRE"}
             a == [hw EXCEPT ![p].out = t.out]
             b == [a EXCEPT ![p].thre = FALSE]
  <2>1. t.ring \in Rings(Nat) /\ t.out \in Seq(Nat) /\ e \in SUBSET Irqs
    BY <1>2, Transmits, PortTypes
  <2>2. /\ rb' = [rb EXCEPT ![p].tx = t.ring] /\ hw' = [b EXCEPT ![p].ier = e]
        /\ TxIntStat' \in {"SET", "RESET"} /\ UNCHANGED <<rxEvents, main, tx, rx, opens>>
    BY <1>20, PortTypes DEF TxIsr
  <2> HIDE DEF t, e
  <2>3. rb' \in [Ports -> Memory] /\ a \in [Ports -> Peripheral]
    BY <2>1, <2>2, RbUpdates, HwUpdates, PortTypes
  <2> HIDE DEF a
  <2>4. b \in [Ports -> Peripheral]
    BY <2>3, HwUpdates
  <2> HIDE DEF b
  <2>5. hw' \in [Ports -> Peripheral]
    BY <2>1, <2>2, <2>4, HwUpdates
  <2>6. QED
    BY <2>2, <2>3, <2>5 DEF Types
<1>21. CASE RxIsr(p)
  <2> DEFINE t == IntReceive(p)
  <2>1. t.ring \in Rings(Nat) /\ t.dropped \in SUBSET Nat
    BY Receives
  <2>2. /\ rb' = [rb EXCEPT ![p].rx = t.ring] /\ rx' = [rx EXCEPT ![p].dropped = t.dropped]
        /\ hw' = [hw EXCEPT ![p].in = <<>>] /\ rxEvents' = rxEvents \union {p}
        /\ UNCHANGED <<TxIntStat, main, tx, opens>>
    BY <1>21 DEF RxIsr
  <2> HIDE DEF t
  <2>3. rb' \in [Ports -> Memory] /\ hw' \in [Ports -> Peripheral]
    BY <1>2, <2>1, <2>2, RbUpdates, HwUpdates, PortTypes
  <2>4. rx' \in [Ports -> RxCount]
    BY <2>1, <2>2, RxUpdates, PortTypes
  <2>5. QED
    BY <2>2, <2>3, <2>4 DEF Types
<1>22. CASE Shift(p)
  <2> DEFINE a == [hw EXCEPT ![p].out = Tail(@)]
             latch == hw[p].thre \/ Len(hw[p].out) = 1
  <2>1. /\ hw[p].out # <<>> /\ hw' = [a EXCEPT ![p].thre = latch]
        /\ tx' = [tx EXCEPT ![p].wire = Head(hw[p].out)]
        /\ UNCHANGED <<rb, TxIntStat, rxEvents, main, rx, opens>>
    BY <1>22, PortTypes DEF Shift
  <2>2. Head(hw[p].out) \in Nat /\ Tail(hw[p].out) \in Seq(Nat)
    BY <2>1, PortTypes
  <2>3. a \in [Ports -> Peripheral] /\ latch \in BOOLEAN
    BY <2>2, HwUpdates, PortTypes
  <2> HIDE DEF a, latch
  <2>4. hw' \in [Ports -> Peripheral]
    BY <2>1, <2>3, HwUpdates
  <2>5. tx' \in [Ports -> TxCount]
    BY <2>1, <2>2, PortTypes DEF TxCount
  <2>6. QED
    BY <2>1, <2>4, <2>5 DEF Types
<1>23. CASE Arrive(p)
  <2> DEFINE s == Append(hw[p].in, rx[p].arrived + 1)
  <2>1. /\ hw' = [hw EXCEPT ![p].in = s]
        /\ rx' = [rx EXCEPT ![p].arrived = @ + 1]
        /\ UNCHANGED <<rb, TxIntStat, rxEvents, main, tx, opens>>
    BY <1>23 DEF Arrive
  <2>2. s \in Seq(Nat)
    BY PortTypes
  <2> HIDE DEF s
  <2>3. hw' \in [Ports -> Peripheral]
    BY <2>1, <2>2, HwUpdates, PortTypes
  <2>4. rx' \in [Ports -> RxCount]
    <3>1. rx[p].arrived + 1 \in Nat
      BY PortTypes
    <3>2. QED
      BY <2>1, <3>1, RxUpdates, PortTypes
  <2>5. QED
    BY <2>1, <2>3, <2>4 DEF Types
<1>24. QED
  BY <1>4, <1>5, <1>6, <1>7, <1>8, <1>9, <1>10, <1>12, <1>13, <1>14, <1>15, <1>16,
     <1>18, <1>20, <1>21, <1>22, <1>23 DEF Step, MainSteps, Hardware

-----------------------------------------------------------------------------
(* Every step of a port keeps the ports sound: the others, which it leaves *)
(* alone, and the port itself, step by step.                               *)

LEMMA Elsewhere ==
  ASSUME IInv, NEW p \in Ports, Step(p), NEW q \in Ports, q # p
  PROVE  Sound(q)'
<1>1. Types /\ Sound(q)
  BY DEF IInv
<1>2. rb'[q] = rb[q] /\ hw'[q] = hw[q] /\ tx'[q] = tx[q] /\ rx'[q] = rx[q]
  <2>1. CASE InitUart(p) \/ InitRings(p) \/ DisableRbr(p) \/ DisableFree(p) \/ DisableNvic(p)
             \/ DisableStart(p) \/ \E n \in SendSizes : SendStart(p, n)
    BY <1>1, <2>1, PortTypes DEF InitUart, InitRings, DisableStart, DisableRbr, DisableFree, DisableNvic, SendStart
  <2>2. CASE SendThreOff(p) \/ SendFill(p) \/ SendThreOn(p) \/ SendKick(p) \/ SendTransmit(p)
    BY <1>1, <2>2, PortTypes DEF SendThreOff, SendFill, SendThreOn, SendKick, SendTransmit
  <2>3. CASE RxCallback(p) \/ ReceiveRbrOff(p) \/ ReceiveTake(p) \/ ReceiveRbrOn(p)
    BY <1>1, <2>3, PortTypes DEF RxCallback, ReceiveRbrOff, ReceiveTake, ReceiveRbrOn
  <2>4. CASE Hardware(p) \/ Arrive(p)
    BY <1>1, <2>4, PortTypes DEF Hardware, TxIsr, RxIsr, Shift, Arrive
  <2>5. QED
    BY <2>1, <2>2, <2>3, <2>4 DEF Step, MainSteps
<1>3. q \in rxEvents' <=> q \in rxEvents
  BY DEF Step, MainSteps, Hardware, InitUart, InitRings, DisableStart, DisableRbr, DisableFree,
         DisableNvic, SendStart, SendThreOff, SendFill, SendThreOn, SendKick, SendTransmit,
         RxCallback, ReceiveRbrOff, ReceiveTake, ReceiveRbrOn, TxIsr, RxIsr, Shift, Arrive
<1>4. main' = main \/ (Settled(q) /\ Settled(q)')
  <2>1. CASE Hardware(p) \/ Arrive(p)
    BY <2>1 DEF Hardware, TxIsr, RxIsr, Shift, Arrive
  <2>2. CASE InitUart(p) \/ DisableStart(p) \/ RxCallback(p) \/ \E n \in SendSizes : SendStart(p, n)
    <3>1. main.at = "idle"
      BY <2>2 DEF InitUart, DisableStart, RxCallback, SendStart, On
    <3>2. InitUart(p) => main'.port = p
      BY DEF InitUart
    <3>3. DisableStart(p) => main'.port = p
      BY DEF DisableStart, Goto
    <3> DEFINE Away(at, n) == main' = [at |-> at, port |-> p, left |-> n, ier |-> hw[p].ier]
    <3>a. \A at, n : Away(at, n) => main'.port = p
      OBVIOUS
    <3>4. RxCallback(p) => main'.port = p
      <4>1. RxCallback(p) => Away("rbr off", Count(rb[p].rx))
        BY DEF RxCallback, Goto
      <4> HIDE DEF Away
      <4>2. QED
        BY <3>a, <4>1
    <3>5. (\E n \in SendSizes : SendStart(p, n)) => main'.port = p
      <4>1. \A n \in SendSizes : SendStart(p, n) => Away("thre off", n)
        BY DEF SendStart, Goto
      <4> HIDE DEF Away
      <4>2. QED
        BY <3>a, <4>1
    <3>6. main'.port = p
      BY <2>2, <3>2, <3>3, <3>4, <3>5
    <3>7. QED
      BY <3>1, <3>6 DEF Settled
  <2>3. CASE main.port = p /\ (MainSteps(p) /\ ~RxCallback(p))
    <3>1. Settled(q)
      BY <2>3 DEF Settled
    <3>2. main'.at = "idle" \/ main'.port = p
      <4>1. CASE InitRings(p) \/ DisableNvic(p) \/ SendThreOn(p) \/ ReceiveRbrOn(p) \/ SendTransmit(p)
        <5>1. main' = Idle \/ Goto("thre on", p, 0)
          BY <4>1 DEF InitRings, DisableNvic, SendThreOn, ReceiveRbrOn, SendTransmit
        <5>2. main' = Idle => main'.at = "idle"
          BY DEF Idle
        <5>3. Goto("thre on", p, 0) => main'.port = p
          <6> DEFINE Away == [at |-> "thre on", port |-> p, left |-> 0, ier |-> hw[p].ier]
          <6>1. Goto("thre on", p, 0) => main' = Away
            BY DEF Goto
          <6>2. Away.port = p
            OBVIOUS
          <6> HIDE DEF Away
          <6>3. QED
            BY <6>1, <6>2
        <5>4. QED
          BY <5>1, <5>2, <5>3
      <4>2. main.at \notin {"idle", "init"} => main \in Calls
        BY <1>1, MainGoes
      <4>3. CASE DisableRbr(p) \/ DisableFree(p) \/ SendThreOff(p) \/ SendKick(p) \/ ReceiveRbrOff(p)
        BY <2>3, <4>2, <4>3 DEF DisableRbr, DisableFree, SendThreOff, SendKick, ReceiveRbrOff, On, Calls
      <4>4. CASE SendFill(p) \/ ReceiveTake(p)
        <5>1. \/ main' = [main EXCEPT !.left = @ - 1]
              \/ \E at, n : main' = [at |-> at, port |-> p, left |-> n, ier |-> hw[p].ier]
          BY <4>4 DEF SendFill, ReceiveTake, Goto
        <5>2. main.at \notin {"idle", "init"}
          BY <4>4 DEF SendFill, ReceiveTake, On
        <5>3. QED
          BY <2>3, <4>2, <5>1, <5>2 DEF Calls
      <4>5. QED
        BY <2>3, <4>1, <4>3, <4>4 DEF MainSteps
    <3>3. QED
      BY <3>1, <3>2 DEF Settled
  <2>4. QED
    BY <2>1, <2>2, <2>3 DEF Step, MainSteps, InitRings, DisableRbr, DisableFree, DisableNvic,
                            SendThreOff, SendFill, SendThreOn, SendKick, SendTransmit,
                            ReceiveRbrOff, ReceiveTake, ReceiveRbrOn
<1>5. QED
  BY <1>1, <1>2, <1>3, <1>4, OtherPorts

LEMMA RingIndex == \A r \in Rings(Nat) : r.head \in Nat /\ r.tail \in Nat
BY RingSizeAssumption DEF Rings, Index

LEMMA EmptyContents ==
  ASSUME NEW r \in Rings(Nat), r.head = r.tail
  PROVE  Contents(r) = <<>> /\ IsEmpty(r) /\ Count(r) = 0
<1>1. Len(Contents(r)) = Count(r) /\ Contents(r) \in Seq(Nat)
  BY ContentsAre
<1>2. IsEmpty(r)
  BY DEF IsEmpty
<1>3. Count(r) = 0
  BY <1>2, CountIsFill
<1>4. QED
  BY <1>1, <1>2, <1>3

(* The main thread elsewhere than in a function that opens or closes p.    *)
LEMMA LiveAt ==
  ASSUME NEW p \in Ports
  PROVE  /\ main.at = "idle" \/ At2(p, Sending \union Receiving) => (Live(p) <=> rb[p].mem)
         /\ At2(p, {"init"} \union Disabling) => ~Live(p)
BY DEF Live, Settled, At2, Sending, Receiving, Disabling

(* hw_uart_initialize and hw_uart_disable.                                 *)
LEMMA Opens ==
  ASSUME IInv, NEW p \in Ports, InitUart(p) \/ InitRings(p)
  PROVE  Sound(p)'
<1>1. Types /\ Sound(p) /\ rb[p].rx \in Rings(Nat) /\ rb[p].tx \in Rings(Nat)
      /\ rx[p].arrived \in Nat
  BY PortTypes DEF IInv
<1>2. CASE InitUart(p)
  <2>1. /\ main.at = "idle" /\ main'.at = "init" /\ main'.port = p
        /\ rb'[p].rx = [rb[p].rx EXCEPT !.head = 0] /\ rb'[p].tx = rb[p].tx
        /\ rb'[p].mem = rb[p].mem
        /\ hw'[p].in = <<>> /\ hw'[p].out = <<>> /\ hw'[p].ier = {"RBR"} /\ ~hw'[p].thre
        /\ hw'[p].nvic = hw[p].nvic /\ rx'[p] = rx[p]
    <3>1. main.at = "idle" /\ main' = [at |-> "init", port |-> p] /\ rx' = rx
      BY <1>2 DEF InitUart, On
    <3>2. rb'[p].rx = [rb[p].rx EXCEPT !.head = 0] /\ rb'[p].tx = rb[p].tx
          /\ rb'[p].mem = rb[p].mem
      BY <1>1, <1>2, PortTypes DEF InitUart, Memory
    <3>3. /\ hw'[p].in = <<>> /\ hw'[p].out = <<>> /\ hw'[p].ier = {"RBR"} /\ ~hw'[p].thre
          /\ hw'[p].nvic = hw[p].nvic
      BY <1>1, <1>2, PortTypes DEF InitUart, Peripheral
    <3>4. QED
      BY <3>1, <3>2, <3>3
  <2>2. /\ rb'[p].rx \in Rings(Nat) /\ rb'[p].rx.head = 0 /\ rb'[p].rx.tail = rb[p].rx.tail
        /\ rb'[p].rx.tail \in Nat
    <3>1. [rb[p].rx EXCEPT !.head = 0] \in Rings(Nat) /\ [rb[p].rx EXCEPT !.head = 0].head = 0
          /\ [rb[p].rx EXCEPT !.head = 0].tail = rb[p].rx.tail /\ rb[p].rx.tail \in Nat
      <4>1. [rb[p].rx EXCEPT !.head = 0] \in Rings(Nat)
        BY <1>1, RingUpdates
      <4>2. [rb[p].rx EXCEPT !.head = 0].head = 0
            /\ [rb[p].rx EXCEPT !.head = 0].tail = rb[p].rx.tail
        BY <1>1 DEF Rings
      <4>3. rb[p].rx.tail \in Nat
        BY <1>1, RingIndex
      <4>4. QED
        BY <4>1, <4>2, <4>3
    <3>2. QED
      BY <2>1, <3>1
  <2>3. Fifos(p)'
    <3>1. rx'[p].arrived \in Nat /\ Len(hw'[p].in) = 0 /\ Len(hw'[p].out) = 0
      BY <1>1, <2>1
    <3>2. hw'[p].in = [k \in 1..Len(hw'[p].in) |-> (rx'[p].arrived - Len(hw'[p].in)) + k]
      BY <2>1, <3>1
    <3>3. QED
      BY <2>1, <3>1, <3>2, UartAssumption DEF Fifos
  <2>4. Opening(p)'
    <3>1. FromStart(rb'[p].rx) \in Rings(Nat) /\ FromStart(rb'[p].rx).head = 0
          /\ FromStart(rb'[p].rx).tail = 0
      BY <2>2, FromStartIsRing
    <3>2. Contents(FromStart(rb'[p].rx)) = <<>>
      BY <3>1, EmptyContents
    <3>3. Within(Contents(FromStart(rb'[p].rx)), rx'[p].arrived - Len(hw'[p].in))
      BY <3>2 DEF Within
    <3>4. NotRound(rb'[p].rx)
      BY <2>2 DEF NotRound
    <3>5. QED
      BY <2>1, <2>2, <3>3, <3>4 DEF Opening
  <2>5. ~Live(p)'
    BY <2>1 DEF Live, Settled
  <2>6. ~At2(p, Sending)' /\ ~At2(p, Receiving)' /\ ~At2(p, Disabling)'
    BY <2>1 DEF At2, Sending, Receiving, Disabling
  <2>7. Closing(p)'
    <3>1. rb[p].mem \/ (rb[p].rx.tail = 0 /\ rb[p].tx.head = 0 /\ rb[p].tx.tail = 0 /\ ~hw[p].nvic)
      BY <1>1, <2>1 DEF Sound, Closing, At2
    <3>2. QED
      BY <2>1, <2>2, <2>6, <3>1 DEF Closing, At2, Disabling
  <2>8. QED
    BY <2>3, <2>4, <2>5, <2>6, <2>7 DEF Sound, Sent, Received, Announced, At2, Receiving
<1>3. CASE InitRings(p)
  <2> DEFINE ring == FromStart(rb[p].rx)
             first == [[rb[p].tx EXCEPT !.head = 0] EXCEPT !.tail = 0]
             dropped == (1..rx[p].arrived) \ ToSet(Contents(ring) \o hw[p].in)
  <2>1. /\ main.at = "init" /\ main.port = p /\ main' = Idle
        /\ rb'[p] = [tx |-> first, rx |-> ring, mem |-> TRUE]
        /\ hw'[p].in = hw[p].in /\ hw'[p].out = hw[p].out /\ hw'[p].thre = hw[p].thre
        /\ hw'[p].ier = hw[p].ier /\ rxEvents' = rxEvents
        /\ rx'[p].arrived = rx[p].arrived /\ rx'[p].delivered = <<>> /\ rx'[p].dropped = dropped
        /\ tx'[p].accepted = 0 /\ tx'[p].wire = 0
    <3>1. main.at = "init" /\ main.port = p /\ main' = Idle /\ rxEvents' = rxEvents
      BY <1>3 DEF InitRings, On
    <3>2. rb'[p] = [tx |-> first, rx |-> ring, mem |-> TRUE]
      BY <1>1, <1>3, PortTypes DEF InitRings, FromStart, Memory
    <3>3. hw'[p].in = hw[p].in /\ hw'[p].out = hw[p].out /\ hw'[p].thre = hw[p].thre
          /\ hw'[p].ier = hw[p].ier
      BY <1>1, <1>3, PortTypes DEF InitRings, Peripheral
    <3>4. rx'[p].arrived = rx[p].arrived /\ rx'[p].delivered = <<>> /\ rx'[p].dropped = dropped
      BY <1>1, <1>3, PortTypes DEF InitRings, RxCount, FromStart
    <3>5. tx'[p] = [accepted |-> 0, wire |-> 0]
      BY <1>1, <1>3, PortTypes DEF InitRings
    <3>6. QED
      BY <3>1, <3>2, <3>3, <3>4, <3>5
  <2>2. /\ NotRound(rb[p].rx) /\ (rb[p].rx.head # 0 => p \in rxEvents)
        /\ Within(Contents(ring), rx[p].arrived - Len(hw[p].in)) /\ hw[p].out = <<>>
    BY <1>1, <2>1 DEF Sound, Opening, At2
  <2>3. ring \in Rings(Nat) /\ ring.head = rb[p].rx.head /\ ring.tail = 0
    BY <1>1, FromStartIsRing
  <2>4. first \in Rings(Nat) /\ first.head = 0 /\ first.tail = 0
    BY <1>1, RingUpdates DEF Rings
  <2> HIDE DEF first, ring
  <2>5. main'.at = "idle"
    BY <2>1 DEF Idle
  <2>6. Fifos(p)'
    BY <1>1, <2>1 DEF Sound, Fifos
  <2>7. Sent(p)'
    <3>1. Contents(rb'[p].tx) = <<>>
      BY <2>1, <2>4, EmptyContents
    <3>2. hw'[p].out \o Contents(rb'[p].tx) = <<>>
      BY <2>1, <2>2, <3>1
    <3>3. <<>> = [k \in 1..(tx'[p].accepted - tx'[p].wire) |-> tx'[p].wire + k]
      BY <2>1
    <3>4. QED
      BY <2>1, <3>2, <3>3 DEF Sent
  <2>8. Received(p)'
    <3> DEFINE c == Contents(ring)
               n == Len(hw[p].in)
               m == rx[p].arrived - n
    <3>1. c \in Seq(Nat) /\ n \in Nat /\ m \in Nat /\ m + n = rx[p].arrived /\ n = Len(hw[p].in)
      BY <1>1, <2>3, ContentsAre, PortTypes DEF Sound, Fifos
    <3>2. hw[p].in = [k \in 1..n |-> m + k]
      BY <1>1 DEF Sound, Fifos
    <3>3. Within(c, m)
      BY <2>2
    <3>4. rx'[p].delivered \o Contents(rb'[p].rx) = c
      BY <2>1, <3>1
    <3> HIDE DEF c, n
    <3> HIDE DEF m
    <3>5. Kept(c, m, (1..m) \ ToSet(c))
      BY <3>3 DEF Kept
    <3>6. (1..m) \ ToSet(c) = (1..(m + n)) \ ToSet(c \o hw[p].in)
      <4> DEFINE gone == (1..m) \ ToSet(c)
                 fifo == hw[p].in
      <4>1. Kept(c, m, gone) /\ fifo = [k \in 1..n |-> m + k]
        BY <3>2, <3>5
      <4> HIDE DEF gone, fifo
      <4>2. gone = (1..(m + n)) \ ToSet(c \o fifo)
        <5>1. c \in Seq(Nat) /\ m \in Nat /\ n \in Nat
          BY <3>1
        <5>2. QED
          <6>1. \A s \in Seq(Nat), j \in Nat, l \in Nat : \A d, f : Kept(s, j, d) /\ f = [k \in 1..l |-> j + k]
                   => d = (1..(j + l)) \ ToSet(s \o f)
            BY KeptAll
          <6>2. QED
            BY <4>1, <5>1, <6>1
      <4>3. QED
        BY <4>2 DEF gone, fifo
    <3>7. Kept(c, m, rx'[p].dropped)
      BY <2>1, <3>1, <3>5, <3>6 DEF c
    <3>8. QED
      BY <2>1, <3>1, <3>4, <3>7 DEF Received, m
  <2>9. Announced(p)'
    <3>1. IsEmpty(rb'[p].rx) \/ p \in rxEvents
      BY <2>1, <2>2, <2>3 DEF IsEmpty
    <3>2. QED
      BY <2>1, <2>5, <3>1 DEF Announced, At2, Receiving
  <2>10. QED
    BY <2>1, <2>5, <2>6, <2>7, <2>8, <2>9 DEF Sound, Opening, Closing, At2, Sending
<1>4. QED
  BY <1>2, <1>3

LEMMA Closes ==
  ASSUME IInv, NEW p \in Ports,
         DisableStart(p) \/ DisableRbr(p) \/ DisableFree(p) \/ DisableNvic(p)
  PROVE  Sound(p)'
<1>1. Types /\ Sound(p) /\ rb[p].rx \in Rings(Nat) /\ rb[p].tx \in Rings(Nat)
  BY PortTypes DEF IInv
<1>2. CASE DisableStart(p)
  <2>1. main.at = "idle" /\ rb[p].mem /\ UNCHANGED <<rb, rxEvents, tx, rx>>
        /\ main' = [at |-> "disable", port |-> p, left |-> 0, ier |-> hw[p].ier]
    BY <1>2 DEF DisableStart, Goto, On
  <2>2. main'.at = "disable" /\ main'.port = p
    BY <2>1
  <2>3. hw'[p].in = hw[p].in /\ hw'[p].out = hw[p].out /\ hw'[p].thre = hw[p].thre
    BY <1>1, <1>2, PortTypes DEF DisableStart, Peripheral
  <2>4. Fifos(p)'
    BY <1>1, <2>1, <2>3 DEF Sound, Fifos
  <2>5. QED
    BY <2>1, <2>2, <2>4 DEF Sound, Sent, Received, Opening, Announced, Closing, At2, Live,
                            Settled, Sending, Receiving
<1>3. CASE DisableRbr(p)
  <2>1. main.at = "disable" /\ main.port = p /\ UNCHANGED <<rxEvents, tx, rx>>
        /\ main' = [main EXCEPT !.at = "free"]
    BY <1>3 DEF DisableRbr, On
  <2>2. main'.at = "free" /\ main'.port = p
    BY <1>1, <2>1, MainGoes DEF Calls
  <2>3. hw'[p].in = hw[p].in /\ hw'[p].out = hw[p].out /\ hw'[p].thre = hw[p].thre
        /\ hw'[p].nvic = hw[p].nvic /\ hw'[p].ier = main.ier \ {"RBR"}
    BY <1>1, <1>3, PortTypes DEF DisableRbr, Peripheral
  <2>4. rb'[p].rx.head = 0 /\ rb'[p].rx.tail = 0 /\ rb'[p].tx.head = 0
        /\ rb'[p].tx.tail = rb[p].tx.tail /\ rb'[p].mem = rb[p].mem
    BY <1>1, <1>3, PortTypes DEF DisableRbr, Memory, Rings
  <2>5. Fifos(p)'
    BY <1>1, <2>1, <2>3 DEF Sound, Fifos
  <2>6. rb[p].mem \/ (rb[p].tx.tail = 0 /\ ~hw[p].nvic)
    BY <1>1, <2>1 DEF Sound, Closing, At2
  <2>7. QED
    BY <2>2, <2>3, <2>4, <2>5, <2>6 DEF Sound, Sent, Received, Opening, Announced, Closing,
                                        At2, Live, Settled, Sending, Receiving
<1>4. CASE DisableFree(p)
  <2>1. main.at = "free" /\ main.port = p /\ UNCHANGED <<hw, rxEvents, tx, rx>>
        /\ main' = [main EXCEPT !.at = "nvic"]
    BY <1>4 DEF DisableFree, On
  <2>2. main'.at = "nvic" /\ main'.port = p
    BY <1>1, <2>1, MainGoes DEF Calls
  <2>3. rb'[p].rx = rb[p].rx /\ rb'[p].tx.head = rb[p].tx.head /\ rb'[p].tx.tail = 0
        /\ rb'[p].mem = FALSE
    BY <1>1, <1>4, PortTypes DEF DisableFree, Memory, Rings
  <2>4. "RBR" \notin hw[p].ier /\ rb[p].rx.head = 0 /\ rb[p].rx.tail = 0 /\ rb[p].tx.head = 0
    BY <1>1, <2>1 DEF Sound, Closing, At2
  <2>5. Fifos(p)'
    BY <1>1, <2>1 DEF Sound, Fifos
  <2>6. QED
    BY <2>1, <2>2, <2>3, <2>4, <2>5 DEF Sound, Sent, Received, Opening, Announced, Closing,
                                        At2, Live, Sending, Receiving
<1>5. CASE DisableNvic(p)
  <2>1. main.at = "nvic" /\ main.port = p /\ UNCHANGED <<rb, rxEvents, tx, rx>> /\ main' = Idle
    BY <1>5 DEF DisableNvic, On
  <2>2. main'.at = "idle"
    BY <2>1 DEF Idle
  <2>3. hw'[p].in = hw[p].in /\ hw'[p].out = hw[p].out /\ hw'[p].thre = hw[p].thre
        /\ hw'[p].nvic = FALSE
    BY <1>1, <1>5, PortTypes DEF DisableNvic, Peripheral
  <2>4. ~rb[p].mem
    BY <1>1, <2>1 DEF Sound, Closing, At2
  <2>5. Fifos(p)'
    BY <1>1, <2>1, <2>3 DEF Sound, Fifos
  <2>6. QED
    BY <1>1, <2>1, <2>2, <2>3, <2>4, <2>5 DEF Sound, Sent, Received, Opening, Announced, Closing,
                                        At2, Live, Sending, Receiving
<1>6. QED
  BY <1>2, <1>3, <1>4, <1>5

(* The steps of hw_uart_send and of hw_uart_receive that change IER or     *)
(* only go on: they move no byte.                                          *)
LEMMA GoesOn ==
  ASSUME IInv, NEW p \in Ports,
         \/ \E n \in SendSizes : SendStart(p, n)
         \/ SendThreOff(p) \/ SendThreOn(p) \/ SendKick(p)
         \/ RxCallback(p) \/ ReceiveRbrOff(p) \/ ReceiveRbrOn(p)
  PROVE  Sound(p)'
<1>1. Types /\ Sound(p) /\ rb[p].rx \in Rings(Nat)
  BY PortTypes DEF IInv
<1>2. rb' = rb /\ tx' = tx /\ rx' = rx /\ (~RxCallback(p) => rxEvents' = rxEvents)
      /\ rxEvents \ {p} \subseteq rxEvents'
  BY DEF SendStart, SendThreOff, SendThreOn, SendKick, RxCallback, ReceiveRbrOff, ReceiveRbrOn
<1>3. hw'[p].in = hw[p].in /\ hw'[p].out = hw[p].out /\ hw'[p].thre = hw[p].thre
      /\ hw'[p].nvic = hw[p].nvic
  <2>1. hw' = hw \/ \E e : hw' = [hw EXCEPT ![p].ier = e]
    BY DEF SendStart, SendThreOff, SendThreOn, SendKick, RxCallback, ReceiveRbrOff, ReceiveRbrOn
  <2>2. hw \in [Ports -> Peripheral]
    BY <1>1, PortTypes
  <2>3. QED
    BY <2>1, <2>2 DEF Peripheral
<1>4. Fifos(p)'
  BY <1>1, <1>2, <1>3 DEF Sound, Fifos
<1> DEFINE Here == main.at = "idle" \/ At2(p, Sending \union Receiving)
<1>5. ASSUME Here, Here' PROVE Sent(p)' /\ Received(p)' /\ Opening(p)'
  <2>1. (Live(p) <=> rb[p].mem) /\ (Live(p)' <=> rb[p].mem)
    BY <1>2, <1>5 DEF Live, Settled, At2, Sending, Receiving
  <2>2. ~At2(p, {"init"})'
    BY <1>5 DEF At2, Sending, Receiving
  <2>3. QED
    BY <1>1, <1>2, <1>3, <2>1, <2>2 DEF Sound, Sent, Received, Opening
<1>6. ASSUME Here, Here', At2(p, Sending)' => rb[p].mem PROVE Closing(p)'
  <2>1. ~At2(p, {"free", "nvic"})' /\ ~At2(p, {"nvic"}) /\ ~At2(p, {"nvic"})'
    BY <1>6 DEF At2, Sending, Receiving
  <2>2. QED
    BY <1>1, <1>2, <1>3, <1>6, <2>1 DEF Sound, Closing
<1>7. ASSUME NEW at \in Sending \union Receiving,
             \E n, e : main' = [at |-> at, port |-> p, left |-> n, ier |-> e]
      PROVE  main'.at = at /\ main'.port = p
  BY <1>7
<1>8. ASSUME NEW at, main.at \notin {"idle", "init"}, main' = [main EXCEPT !.at = at]
      PROVE  main'.at = at /\ main'.port = main.port /\ main'.left = main.left
  BY <1>1, <1>8, MainGoes DEF Calls
<1>9. Idle.at = "idle"
  BY DEF Idle
<1>10. CASE (\E n \in SendSizes : SendStart(p, n)) \/ SendThreOff(p) \/ SendThreOn(p) \/ SendKick(p)
  <2>1. CASE \E n \in SendSizes : SendStart(p, n)
    <3>1. main.at = "idle" /\ rb[p].mem /\ rxEvents' = rxEvents
          /\ \E n, e : main' = [at |-> "thre off", port |-> p, left |-> n, ier |-> e]
      BY <2>1 DEF SendStart, Goto, On
    <3>2. main'.at = "thre off" /\ main'.port = p
      BY <1>7, <3>1 DEF Sending
    <3>3. Here /\ Here'
      BY <3>1, <3>2 DEF At2, Sending
    <3>4. Announced(p)'
      BY <1>1, <1>2, <3>1, <3>2 DEF Sound, Announced, At2, Live, Settled, Receiving
    <3>5. QED
      BY <1>4, <1>5, <1>6, <3>1, <3>3, <3>4 DEF Sound
  <2>2. CASE SendThreOff(p) \/ SendThreOn(p) \/ SendKick(p)
    <3>1. At2(p, Sending) /\ main.at \notin {"idle", "init"} /\ main.port = p
          /\ rxEvents' = rxEvents
          /\ main' \in {Idle, [main EXCEPT !.at = "fill"], [main EXCEPT !.at = "transmit"]}
      BY <2>2 DEF SendThreOff, SendThreOn, SendKick, On, At2, Sending
    <3>2. main'.at = "idle" \/ (main'.at \in {"fill", "transmit"} /\ main'.port = p)
      BY <1>8, <1>9, <3>1
    <3>3. Here /\ Here' /\ rb[p].mem
      BY <1>1, <3>1, <3>2 DEF At2, Sending, Sound, Closing
    <3>4. Announced(p)'
      BY <1>1, <1>2, <3>1, <3>2, <3>3 DEF Sound, Announced, At2, Live, Settled, Sending, Receiving
    <3>5. QED
      BY <1>4, <1>5, <1>6, <3>3, <3>4 DEF Sound
  <2>3. QED
    BY <1>10, <2>1, <2>2
<1>11. CASE RxCallback(p)
  <2> DEFINE n == Count(rb[p].rx)
  <2>1. main.at = "idle"
        /\ main' = [at |-> "rbr off", port |-> p, left |-> n, ier |-> hw[p].ier]
    BY <1>11 DEF RxCallback, Goto, On
  <2>2. n \in Nat
    BY <1>1, ContentsAre
  <2> HIDE DEF n
  <2>3. main'.at = "rbr off" /\ main'.port = p /\ main'.left = n
    BY <2>1
  <2>4. Here /\ Here' /\ ~At2(p, Sending)'
    BY <2>1, <2>3 DEF At2, Sending, Receiving
  <2>5. Announced(p)'
    <3>1. Count(rb[p].rx)' = n /\ n <= n
      BY <1>2, <2>2 DEF n
    <3>2. At2(p, Receiving)' /\ ~At2(p, {"rbr on"})'
      BY <2>3 DEF At2, Receiving
    <3>3. QED
      BY <2>3, <3>1, <3>2 DEF Announced
  <2>6. QED
    BY <1>4, <1>5, <1>6, <2>4, <2>5 DEF Sound
<1>12. CASE ReceiveRbrOff(p)
  <2>1. main.at = "rbr off" /\ main.port = p /\ main' = [main EXCEPT !.at = "take"]
        /\ rxEvents' = rxEvents
    BY <1>12 DEF ReceiveRbrOff, On
  <2>2. main'.at = "take" /\ main'.port = p /\ main'.left = main.left
    BY <1>8, <2>1
  <2>3. Here /\ Here' /\ ~At2(p, Sending)'
    BY <2>1, <2>2 DEF At2, Sending, Receiving
  <2>4. Announced(p)'
    BY <1>1, <1>2, <2>1, <2>2 DEF Sound, Announced, At2, Receiving
  <2>5. QED
    BY <1>4, <1>5, <1>6, <2>3, <2>4 DEF Sound
<1>13. CASE ReceiveRbrOn(p)
  <2>1. main.at = "rbr on" /\ main.port = p /\ main'.at = "idle" /\ rxEvents' = rxEvents
    BY <1>9, <1>13 DEF ReceiveRbrOn, On
  <2>2. Here /\ Here' /\ ~At2(p, Sending)'
    BY <2>1 DEF At2, Sending, Receiving
  <2>3. Announced(p)'
    BY <1>1, <1>2, <2>1 DEF Sound, Announced, At2, Receiving
  <2>4. QED
    BY <1>4, <1>5, <1>6, <2>2, <2>3 DEF Sound
<1>14. QED
  BY <1>10, <1>11, <1>12, <1>13

(* Sending: the bytes after the w-th, up to the a-th.                      *)
After(w, a) == [k \in 1..(a - w) |-> w + k]

LEMMA AfterAppend ==
  ASSUME NEW w \in Nat, NEW a \in Nat, w <= a
  PROVE  Append(After(w, a), a + 1) = After(w, a + 1)
<1> DEFINE s == After(w, a)
           t == After(w, a + 1)
<1>1. s \in Seq(Nat) /\ Len(s) = a - w /\ \A k \in 1..(a - w) : s[k] = w + k
  BY DEF After
<1>2. t \in Seq(Nat) /\ Len(t) = (a - w) + 1 /\ \A k \in 1..((a - w) + 1) : t[k] = w + k
  BY DEF After
<1> HIDE DEF s, t
<1>3. /\ Append(s, a + 1) \in Seq(Nat) /\ Len(Append(s, a + 1)) = (a - w) + 1
      /\ \A k \in 1..(a - w) : Append(s, a + 1)[k] = w + k
      /\ Append(s, a + 1)[(a - w) + 1] = a + 1
  BY <1>1
<1>4. ASSUME NEW k \in 1..((a - w) + 1) PROVE Append(s, a + 1)[k] = t[k]
  <2>1. CASE k = (a - w) + 1
    BY <1>2, <1>3, <2>1
  <2>2. CASE k # (a - w) + 1
    BY <1>2, <1>3, <2>2
  <2>3. QED
    BY <2>1, <2>2
<1>5. Append(s, a + 1) = t
  BY <1>2, <1>3, <1>4, SeqEqual
<1>6. QED
  BY <1>5 DEF s, t

LEMMA AfterTail ==
  ASSUME NEW w \in Nat, NEW a \in Nat, w <= a, NEW o \in Seq(Nat), NEW c \in Seq(Nat), o # <<>>,
         o \o c = After(w, a)
  PROVE  Head(o) = w + 1 /\ w + 1 <= a /\ Tail(o) \o c = After(w + 1, a)
<1> DEFINE s == After(w, a)
           t == After(w + 1, a)
<1>1. s \in Seq(Nat) /\ Len(s) = a - w /\ \A k \in 1..(a - w) : s[k] = w + k
  BY DEF After
<1>2. w + 1 <= a => t \in Seq(Nat) /\ Len(t) = (a - w) - 1
                    /\ \A k \in 1..((a - w) - 1) : t[k] = (w + 1) + k
  BY DEF After
<1>3. s = o \o c
  OBVIOUS
<1> HIDE DEF s, t
<1>4. /\ Len(s) = Len(o) + Len(c)
      /\ \A i \in 1..(Len(o) + Len(c)) : s[i] = IF i <= Len(o) THEN o[i] ELSE c[i - Len(o)]
  BY <1>3, ConcatProperties, Zenon
<1>5. Len(o) \in Nat \ {0} /\ Len(c) \in Nat /\ Head(o) = o[1]
  OBVIOUS
<1>6. w + 1 <= a /\ Head(o) = w + 1
  <2>1. 1 \in 1..(Len(o) + Len(c)) /\ 1 <= Len(o) /\ 1 \in 1..(a - w)
    BY <1>1, <1>4, <1>5
  <2>2. QED
    BY <1>1, <1>4, <1>5, <2>1
<1>7. Tail(o) \in Seq(Nat) /\ Len(Tail(o)) = Len(o) - 1
      /\ \A i \in 1..(Len(o) - 1) : Tail(o)[i] = o[i + 1]
  OBVIOUS
<1> DEFINE u == Tail(o)
<1>8. u \in Seq(Nat) /\ Len(u) = Len(o) - 1 /\ \A i \in 1..(Len(o) - 1) : u[i] = o[i + 1]
  BY <1>7
<1> HIDE DEF u
<1>9. /\ u \o c \in Seq(Nat) /\ Len(u \o c) = Len(u) + Len(c)
      /\ \A i \in 1..(Len(u) + Len(c)) : (u \o c)[i] = IF i <= Len(u) THEN u[i] ELSE c[i - Len(u)]
  BY <1>8, ConcatProperties, Zenon
<1>10. Len(u) + Len(c) = (a - w) - 1
  BY <1>1, <1>4, <1>5, <1>8
<1>11. ASSUME NEW i \in 1..((a - w) - 1) PROVE (u \o c)[i] = t[i]
  <2>1. t[i] = (w + 1) + i /\ i + 1 \in 1..(a - w) /\ (w + 1) + i = w + (i + 1)
    BY <1>2, <1>6
  <2>2. s[i + 1] = w + (i + 1)
    BY <1>1, <2>1
  <2>3. s[i + 1] = IF i + 1 <= Len(o) THEN o[i + 1] ELSE c[(i + 1) - Len(o)]
    BY <1>1, <1>4, <2>1
  <2>4. (u \o c)[i] = IF i <= Len(u) THEN u[i] ELSE c[i - Len(u)]
    BY <1>9, <1>10
  <2>5. CASE i + 1 <= Len(o)
    <3>1. i \in 1..(Len(o) - 1) /\ i <= Len(u)
      BY <1>5, <1>8, <2>5
    <3>2. QED
      BY <1>8, <2>1, <2>2, <2>3, <2>4, <2>5, <3>1
  <2>6. CASE ~(i + 1 <= Len(o))
    <3>1. ~(i <= Len(u)) /\ i - Len(u) = (i + 1) - Len(o)
      BY <1>5, <1>8, <2>6
    <3>2. QED
      BY <2>1, <2>2, <2>3, <2>4, <2>6, <3>1
  <2>7. QED
    BY <2>5, <2>6
<1>12. u \o c = t
  BY <1>2, <1>6, <1>9, <1>10, <1>11, SeqEqual
<1>13. QED
  BY <1>6, <1>12 DEF u, t

(* hw_uart_send fills the ring, byte by byte.                              *)
LEMMA Fills ==
  ASSUME IInv, NEW p \in Ports, SendFill(p)
  PROVE  Sound(p)'
<1>1. Types /\ Sound(p) /\ rb[p].tx \in Rings(Nat) /\ tx[p].accepted \in Nat /\ tx[p].wire \in Nat
      /\ hw[p].out \in Seq(Nat)
  BY PortTypes DEF IInv
<1>2. /\ main.at = "fill" /\ main.port = p /\ main.left \in Nat /\ main \in Calls
      /\ hw' = hw /\ rx' = rx /\ rxEvents' = rxEvents
  BY <1>1, MainAs, MainGoes DEF SendFill, On
<1>3. rb[p].mem
  BY <1>1, <1>2 DEF Sound, Closing, At2, Sending
<1>4. Fifos(p)'
  BY <1>1, <1>2 DEF Sound, Fifos
<1>5. /\ Live(p) /\ Sent(p) /\ Received(p) /\ (IsEmpty(rb[p].rx) \/ p \in rxEvents)
  BY <1>1, <1>2, <1>3 DEF Sound, Live, Settled, Announced, At2, Receiving
<1>6. CASE main.left > 0 /\ ~IsFull(rb[p].tx)
  <2> DEFINE r == Put(rb[p].tx, tx[p].accepted + 1)
  <2>1. /\ rb'[p].tx = r /\ rb'[p].rx = rb[p].rx /\ rb'[p].mem = rb[p].mem
        /\ tx'[p].accepted = tx[p].accepted + 1 /\ tx'[p].wire = tx[p].wire
    <3>1. rb' = [rb EXCEPT ![p].tx = r] /\ tx' = [tx EXCEPT ![p].accepted = @ + 1]
      BY <1>2, <1>6 DEF SendFill
    <3> HIDE DEF r
    <3>2. QED
      BY <1>1, <3>1, PortTypes DEF Memory, TxCount
  <2>2. main'.at = "fill" /\ main'.port = p
    <3>1. main' = [main EXCEPT !.left = @ - 1]
      BY <1>2, <1>6 DEF SendFill
    <3>2. QED
      BY <1>2, <3>1 DEF Calls
  <2>3. Contents(r) = Append(Contents(rb[p].tx), tx[p].accepted + 1)
    <3>1. tx[p].accepted + 1 \in Nat
      BY <1>1
    <3>2. QED
      BY <1>1, <1>6, <3>1, PutAppends
  <2> HIDE DEF r
  <2>4. Sent(p)'
    <3> DEFINE a == tx[p].accepted
               w == tx[p].wire
               c == Contents(rb[p].tx)
               o == hw[p].out
    <3>1. w <= a /\ o \o c = After(w, a) /\ c \in Seq(Nat) /\ a \in Nat /\ w \in Nat /\ o \in Seq(Nat)
      BY <1>1, <1>5, ContentsAre DEF Sent, After
    <3>2. tx'[p].accepted = a + 1 /\ tx'[p].wire = w /\ Contents(rb'[p].tx) = Append(c, a + 1)
          /\ hw'[p].out = o
      BY <1>2, <2>1, <2>3
    <3> HIDE DEF a, w, c, o
    <3>3. o \o Append(c, a + 1) = Append(o \o c, a + 1)
      BY <3>1
    <3>4. o \o Append(c, a + 1) = After(w, a + 1) /\ w <= a + 1
      <4>1. Append(After(w, a), a + 1) = After(w, a + 1)
        BY <3>1, AfterAppend
      <4>2. w <= a + 1
        BY <3>1
      <4>3. QED
        BY <3>1, <3>3, <4>1, <4>2
    <3>5. QED
      BY <3>2, <3>4 DEF Sent, After
  <2>5. Received(p)' /\ Announced(p)'
    BY <1>2, <1>5, <2>1, <2>2 DEF Received, Announced, At2, Receiving
  <2>6. QED
    BY <1>3, <1>4, <2>1, <2>2, <2>4, <2>5 DEF Sound, Opening, Closing, At2
<1>7. CASE ~(main.left > 0 /\ ~IsFull(rb[p].tx))
  <2>1. rb' = rb /\ tx' = tx
        /\ main' = [at |-> AfterFill, port |-> p, left |-> 0, ier |-> hw[p].ier]
    BY <1>7 DEF SendFill, Goto
  <2>2. main'.port = p /\ main'.at \in {"kick", "thre on"}
    BY <2>1 DEF AfterFill
  <2>3. Sent(p)' /\ Received(p)' /\ Announced(p)'
    BY <1>2, <1>5, <2>1, <2>2 DEF Sent, Received, Announced, At2, Receiving
  <2>4. QED
    BY <1>3, <1>4, <2>1, <2>2, <2>3 DEF Sound, Opening, Closing, At2
<1>8. QED
  BY <1>6, <1>7

(* UART_IntTransmit, from either side: the FIFO is empty, and the oldest   *)
(* bytes of the ring go into it.                                           *)
LEMMA TransmitSent ==
  ASSUME Types, NEW p \in Ports, Sent(p), Live(p), hw[p].out = <<>>, tx' = tx,
         rb'[p].tx = Transmitted(p).ring, hw'[p].out = Transmitted(p).out
  PROVE  Sent(p)'
<1>1. Contents(rb[p].tx) = Transmitted(p).out \o Contents(Transmitted(p).ring)
      /\ Contents(rb[p].tx) \in Seq(Nat)
  BY Transmits, PortTypes, ContentsAre
<1>2. <<>> \o Contents(rb[p].tx) = Contents(rb[p].tx)
  BY <1>1
<1>3. QED
  BY <1>1, <1>2 DEF Sent

LEMMA MainTransmits ==
  ASSUME IInv, NEW p \in Ports, SendTransmit(p)
  PROVE  Sound(p)'
<1>1. Types /\ Sound(p) /\ rb[p].tx \in Rings(Nat)
  BY PortTypes DEF IInv
<1> DEFINE t == Transmitted(p)
<1>2. /\ main.at = "transmit" /\ main.port = p /\ hw[p].out = <<>> /\ tx' = tx /\ rx' = rx
      /\ rxEvents' = rxEvents
      /\ main' = Idle \/ \E n, e : main' = [at |-> "thre on", port |-> p, left |-> n, ier |-> e]
  BY DEF SendTransmit, On, Goto
<1>3. main'.at = "idle" \/ (main'.at = "thre on" /\ main'.port = p)
  <2>1. Idle.at = "idle"
    BY DEF Idle
  <2>2. (\E n, e : main' = [at |-> "thre on", port |-> p, left |-> n, ier |-> e])
          => main'.at = "thre on" /\ main'.port = p
    <3>1. \A at, n, e : LET m == [at |-> at, port |-> p, left |-> n, ier |-> e]
                        IN m.at = at /\ m.port = p
      OBVIOUS
    <3>2. ASSUME NEW n, NEW e, main' = [at |-> "thre on", port |-> p, left |-> n, ier |-> e]
          PROVE  main'.at = "thre on" /\ main'.port = p
      BY <3>1, <3>2, Zenon
    <3>3. QED
      BY <3>2
  <2>3. QED
    BY <1>2, <2>1, <2>2
<1>4. rb'[p].tx = t.ring /\ rb'[p].rx = rb[p].rx /\ rb'[p].mem = rb[p].mem
      /\ hw'[p].out = t.out /\ hw'[p].thre = t.thre /\ hw'[p].in = hw[p].in
  <2>1. rb' = [rb EXCEPT ![p].tx = t.ring]
        /\ hw' = [hw EXCEPT ![p].out = t.out, ![p].thre = t.thre]
    BY DEF SendTransmit
  <2> HIDE DEF t
  <2>2. QED
    BY <1>1, <2>1, PortTypes DEF Memory, Peripheral
<1>5. rb[p].mem
  BY <1>1, <1>2 DEF Sound, Closing, At2, Sending
<1>6. Live(p) /\ Sent(p) /\ Received(p) /\ (IsEmpty(rb[p].rx) \/ p \in rxEvents)
  BY <1>1, <1>2, <1>5 DEF Sound, Live, Settled, Announced, At2, Receiving
<1>7. Fifos(p)'
  <2>1. Len(t.out) <= FifoSize /\ (t.thre => t.out = <<>>)
    BY <1>1, Transmits
  <2>2. QED
    BY <1>1, <1>2, <1>4, <2>1 DEF Sound, Fifos
<1>8. Sent(p)'
  BY <1>1, <1>2, <1>4, <1>6, TransmitSent
<1>9. Received(p)' /\ Announced(p)'
  BY <1>2, <1>3, <1>4, <1>6 DEF Received, Announced, At2, Receiving
<1>10. QED
  BY <1>3, <1>4, <1>5, <1>7, <1>8, <1>9 DEF Sound, Opening, Closing, At2

LEMMA InterruptTransmits ==
  ASSUME IInv, NEW p \in Ports, TxIsr(p)
  PROVE  Sound(p)'
<1>1. Types /\ Sound(p) /\ rb[p].tx \in Rings(Nat)
  BY PortTypes DEF IInv
<1> DEFINE t == Transmitted(p)
<1>2. /\ TxPending(p) /\ tx' = tx /\ rx' = rx /\ rxEvents' = rxEvents /\ main' = main
  BY DEF TxIsr
<1>3. hw[p].out = <<>> /\ "THRE" \in hw[p].ier /\ hw[p].nvic
  BY <1>1, <1>2 DEF TxPending, Sound, Fifos
<1>4. rb'[p].tx = t.ring /\ rb'[p].rx = rb[p].rx /\ rb'[p].mem = rb[p].mem
      /\ hw'[p].out = t.out /\ ~hw'[p].thre /\ hw'[p].in = hw[p].in
      /\ hw'[p].ier \subseteq hw[p].ier /\ hw'[p].nvic = hw[p].nvic
  <2> DEFINE e == IF t.more THEN hw[p].ier ELSE hw[p].ier \ {"THRE"}
  <2>1. rb' = [rb EXCEPT ![p].tx = t.ring]
        /\ hw' = [hw EXCEPT ![p].out = t.out, ![p].thre = FALSE, ![p].ier = e]
    BY DEF TxIsr
  <2>2. e \subseteq hw[p].ier
    OBVIOUS
  <2> HIDE DEF t, e
  <2>3. rb'[p].tx = t.ring /\ rb'[p].rx = rb[p].rx /\ rb'[p].mem = rb[p].mem
    BY <1>1, <2>1, PortTypes DEF Memory
  <2>4. hw'[p].out = t.out /\ ~hw'[p].thre /\ hw'[p].in = hw[p].in
        /\ hw'[p].ier = e /\ hw'[p].nvic = hw[p].nvic
    BY <1>1, <2>1, PortTypes DEF Peripheral
  <2>5. QED
    BY <2>2, <2>3, <2>4
<1>5. ~At2(p, {"init"})
  BY <1>1, <1>3 DEF Sound, Opening
<1>6. Fifos(p)'
  <2>1. Len(t.out) <= FifoSize
    BY <1>1, Transmits
  <2>2. QED
    BY <1>1, <1>2, <1>4, <2>1 DEF Sound, Fifos
<1>7. Live(p)' <=> Live(p)
  BY <1>2, <1>4 DEF Live, Settled
<1>8. Sent(p)'
  <2>1. CASE Live(p)
    BY <1>1, <1>2, <1>3, <1>4, <2>1, TransmitSent DEF Sound
  <2>2. CASE ~Live(p)
    BY <1>7, <2>2 DEF Sent
  <2>3. QED
    BY <2>1, <2>2
<1>9. Received(p)' /\ Announced(p)' /\ Opening(p)'
  BY <1>1, <1>2, <1>4, <1>5, <1>7 DEF Sound, Received, Announced, Opening, At2
<1>10. Closing(p)'
  <2>1. t.ring.head = rb[p].tx.head
    BY <1>1, Transmits
  <2>2. rb[p].tx.head = 0 /\ rb[p].tx.tail = 0 => t.ring.tail = 0
    <3>1. rb[p].tx.head = rb[p].tx.tail => IsEmpty(rb[p].tx)
      BY DEF IsEmpty
    <3>2. IsEmpty(rb[p].tx) => t.ring = rb[p].tx
      BY <1>1, Transmits
    <3> HIDE DEF t
    <3>3. QED
      BY <3>1, <3>2
  <2>3. QED
    BY <1>1, <1>2, <1>4, <2>1, <2>2 DEF Sound, Closing, At2
<1>11. QED
  BY <1>6, <1>8, <1>9, <1>10 DEF Sound

(* The line takes a byte from the FIFO.                                    *)
LEMMA Shifts ==
  ASSUME IInv, NEW p \in Ports, Shift(p)
  PROVE  Sound(p)'
<1>1. Types /\ Sound(p) /\ rb[p].tx \in Rings(Nat) /\ tx[p].accepted \in Nat /\ tx[p].wire \in Nat
      /\ hw[p].out \in Seq(Nat)
  BY PortTypes DEF IInv
<1>2. hw[p].out # <<>> /\ rb' = rb /\ rx' = rx /\ rxEvents' = rxEvents /\ main' = main
  BY DEF Shift
<1>3. /\ hw'[p].out = Tail(hw[p].out) /\ (hw'[p].thre => hw[p].thre \/ Len(hw[p].out) = 1)
      /\ hw'[p].in = hw[p].in /\ hw'[p].ier = hw[p].ier /\ hw'[p].nvic = hw[p].nvic
      /\ tx'[p].wire = Head(hw[p].out) /\ tx'[p].accepted = tx[p].accepted
  <2>1. tx'[p].wire = Head(hw[p].out) /\ tx'[p].accepted = tx[p].accepted
    BY <1>1, PortTypes DEF Shift, TxCount
  <2>2. /\ hw'[p].out = Tail(hw[p].out) /\ (hw'[p].thre => hw[p].thre \/ Len(hw[p].out) = 1)
        /\ hw'[p].in = hw[p].in /\ hw'[p].ier = hw[p].ier /\ hw'[p].nvic = hw[p].nvic
    BY <1>1, PortTypes DEF Shift, Peripheral
  <2>3. QED
    BY <2>1, <2>2
<1>4. Fifos(p)'
  <2>1. Len(Tail(hw[p].out)) <= Len(hw[p].out) /\ Len(hw[p].out) \in Nat
        /\ (Len(hw[p].out) = 1 => Tail(hw[p].out) = <<>>)
    <3> DEFINE o == hw[p].out
               s == Tail(o)
    <3>1. o \in Seq(Nat) /\ o # <<>>
      BY <1>1, <1>2
    <3> HIDE DEF o
    <3>2. Len(o) \in Nat /\ s \in Seq(Nat) /\ Len(s) = Len(o) - 1
      BY <3>1
    <3> HIDE DEF s
    <3>3. Len(s) = 0 => s = <<>>
      BY <3>2
    <3>4. QED
      BY <3>2, <3>3 DEF s, o
  <2>2. Len(Tail(hw[p].out)) \in Nat /\ Len(hw[p].out) <= FifoSize /\ FifoSize \in Nat /\ ~hw[p].thre
    BY <1>1, <1>2, UartAssumption DEF Sound, Fifos
  <2>3. QED
    BY <1>1, <1>2, <1>3, <2>1, <2>2 DEF Sound, Fifos
<1>5. Live(p)' <=> Live(p)
  BY <1>2 DEF Live, Settled
<1>6. Sent(p)'
  <2>1. SUFFICES ASSUME Live(p) PROVE Sent(p)'
    BY <1>5 DEF Sent
  <2> DEFINE a == tx[p].accepted
             w == tx[p].wire
             c == Contents(rb[p].tx)
             o == hw[p].out
  <2>2. /\ w <= a /\ o \o c = After(w, a) /\ c \in Seq(Nat) /\ a \in Nat /\ w \in Nat
        /\ o \in Seq(Nat) /\ o # <<>>
    BY <1>1, <1>2, <2>1, ContentsAre DEF Sound, Sent, After
  <2>3. tx'[p].accepted = a /\ tx'[p].wire = Head(o) /\ Contents(rb'[p].tx) = c
        /\ hw'[p].out = Tail(o)
    BY <1>2, <1>3
  <2> HIDE DEF a, w, c, o
  <2>4. Head(o) = w + 1 /\ w + 1 <= a /\ Tail(o) \o c = After(w + 1, a)
    BY <2>2, AfterTail
  <2>5. QED
    BY <2>3, <2>4 DEF Sent, After
<1>7. ~At2(p, {"init"})
  BY <1>1, <1>2 DEF Sound, Opening
<1>8. Received(p)' /\ Announced(p)' /\ Opening(p)' /\ Closing(p)'
  BY <1>1, <1>2, <1>3, <1>5, <1>7 DEF Sound, Received, Announced, Opening, Closing, At2
<1>9. QED
  BY <1>4, <1>6, <1>8 DEF Sound

(* A byte arrives; the interrupt empties the receive FIFO into the ring;   *)
(* hw_uart_receive takes the oldest byte.                                  *)
LEMMA Arrives ==
  ASSUME IInv, NEW p \in Ports, Arrive(p)
  PROVE  Sound(p)'
<1> DEFINE s == hw[p].in
           a == rx[p].arrived
<1>1. Types /\ Sound(p) /\ s \in Seq(Nat) /\ a \in Nat
  BY PortTypes DEF IInv
<1>2. /\ rb' = rb /\ tx' = tx /\ rxEvents' = rxEvents /\ main' = main /\ Len(s) < FifoSize
      /\ rb[p].mem
  BY DEF Arrive
<1>3. hw'[p].in = Append(s, a + 1) /\ hw'[p].out = hw[p].out /\ hw'[p].thre = hw[p].thre
      /\ hw'[p].ier = hw[p].ier /\ hw'[p].nvic = hw[p].nvic
  BY <1>1, PortTypes DEF Arrive, Peripheral
<1>4. rx'[p].arrived = a + 1 /\ rx'[p].delivered = rx[p].delivered /\ rx'[p].dropped = rx[p].dropped
  BY <1>1, PortTypes DEF Arrive, RxCount
<1>5. /\ Len(s) <= a /\ s = [k \in 1..Len(s) |-> (a - Len(s)) + k]
      /\ Len(hw[p].out) <= FifoSize /\ (hw[p].thre => hw[p].out = <<>>)
  BY <1>1 DEF Sound, Fifos
<1> HIDE DEF s, a
<1>6. Append(s, a + 1) \in Seq(Nat) /\ Len(Append(s, a + 1)) = Len(s) + 1 /\ Len(s) \in Nat
      /\ (a + 1) - (Len(s) + 1) = a - Len(s)
  BY <1>1
<1>7. Append(s, a + 1) = [k \in 1..(Len(s) + 1) |-> (a - Len(s)) + k]
  <2> DEFINE w == a - Len(s)
  <2>1. w \in Nat /\ w <= a /\ a - w = Len(s) /\ (a + 1) - w = Len(s) + 1
    BY <1>1, <1>5, <1>6
  <2>2. s = [k \in 1..(a - w) |-> w + k]
    BY <1>5, <2>1
  <2> HIDE DEF w
  <2>3. Append(s, a + 1) = After(w, a + 1)
    <3>1. s = After(w, a)
      BY <2>2 DEF After
    <3>2. QED
      BY <1>1, <2>1, <3>1, AfterAppend
  <2>4. Append(s, a + 1) = [k \in 1..(Len(s) + 1) |-> w + k]
    BY <2>1, <2>3 DEF After
  <2>5. QED
    BY <2>4 DEF w
<1>8. Fifos(p)'
  <2>1. Len(s) + 1 <= FifoSize /\ Len(s) + 1 <= a + 1
    BY <1>1, <1>2, <1>5, <1>6, UartAssumption
  <2>2. Len(hw'[p].in) = Len(s) + 1
    BY <1>3, <1>6
  <2>3. hw'[p].in = [k \in 1..Len(hw'[p].in) |-> (rx'[p].arrived - Len(hw'[p].in)) + k]
    BY <1>3, <1>4, <1>6, <1>7, <2>2
  <2>4. QED
    BY <1>3, <1>4, <1>5, <2>1, <2>2, <2>3 DEF Fifos
<1>9. rx'[p].arrived - Len(hw'[p].in) = a - Len(s)
  BY <1>3, <1>4, <1>6
<1>10. Sent(p)' /\ Announced(p)' /\ Closing(p)'
  BY <1>1, <1>2, <1>3 DEF Sound, Sent, Announced, Closing, At2, Live, Settled
<1>11. Received(p)' /\ Opening(p)'
  BY <1>1, <1>2, <1>3, <1>4, <1>9 DEF Sound, Received, Opening, At2, Live, Settled, s, a
<1>12. QED
  BY <1>8, <1>10, <1>11 DEF Sound

LEMMA InterruptReceives ==
  ASSUME IInv, NEW p \in Ports, RxIsr(p)
  PROVE  Sound(p)'
<1> DEFINE t == IntReceive(p)
           m == rx[p].arrived - Len(hw[p].in)
<1>1. Types /\ Sound(p) /\ Fifos(p) /\ rb[p].rx \in Rings(Nat) /\ rx[p].delivered \in Seq(Nat)
      /\ rx[p].arrived \in Nat
  BY PortTypes DEF IInv, Sound
<1>2. /\ hw[p].nvic /\ "RBR" \in hw[p].ier /\ tx' = tx /\ main' = main
      /\ rxEvents' = rxEvents \union {p}
  BY DEF RxIsr, RxPending
<1>3. rb[p].mem /\ ~At2(p, {"free", "nvic"}) /\ ~At2(p, {"nvic"})
  BY <1>1, <1>2 DEF Sound, Closing, At2
<1>4. /\ t.ring \in Rings(Nat) /\ t.ring.tail = rb[p].rx.tail /\ Count(t.ring) >= Count(rb[p].rx)
      /\ \A d \in Seq(Nat) : Kept(d \o Contents(rb[p].rx), m, rx[p].dropped)
            => Kept(d \o Contents(t.ring), rx[p].arrived, t.dropped)
      /\ NotRound(rb[p].rx) /\ Within(Contents(FromStart(rb[p].rx)), m)
            => NotRound(t.ring) /\ Within(Contents(FromStart(t.ring)), rx[p].arrived)
  BY <1>1, Receives
<1>5. /\ rb'[p].rx = t.ring /\ rb'[p].tx = rb[p].tx /\ rb'[p].mem = rb[p].mem
      /\ rx'[p].dropped = t.dropped /\ rx'[p].arrived = rx[p].arrived
      /\ rx'[p].delivered = rx[p].delivered
      /\ hw'[p].in = <<>> /\ hw'[p].out = hw[p].out /\ hw'[p].thre = hw[p].thre
      /\ hw'[p].ier = hw[p].ier /\ hw'[p].nvic = hw[p].nvic
  <2>1. rb' = [rb EXCEPT ![p].rx = t.ring] /\ rx' = [rx EXCEPT ![p].dropped = t.dropped]
        /\ hw' = [hw EXCEPT ![p].in = <<>>]
    BY DEF RxIsr
  <2> HIDE DEF t
  <2>2. rb'[p].rx = t.ring /\ rb'[p].tx = rb[p].tx /\ rb'[p].mem = rb[p].mem
    BY <1>1, <2>1, PortTypes DEF Memory
  <2>3. rx'[p].dropped = t.dropped /\ rx'[p].arrived = rx[p].arrived
        /\ rx'[p].delivered = rx[p].delivered
    BY <1>1, <2>1, PortTypes DEF RxCount
  <2>4. hw'[p].in = <<>> /\ hw'[p].out = hw[p].out /\ hw'[p].thre = hw[p].thre
        /\ hw'[p].ier = hw[p].ier /\ hw'[p].nvic = hw[p].nvic
    BY <1>1, <2>1, PortTypes DEF Peripheral
  <2>5. QED
    BY <2>2, <2>3, <2>4
<1> HIDE DEF t
<1>6. rx'[p].arrived - Len(hw'[p].in) = rx[p].arrived
  BY <1>1, <1>5
<1>7. Fifos(p)'
  <2>1. Len(hw'[p].in) = 0
    BY <1>5
  <2>2. hw'[p].in = [k \in 1..Len(hw'[p].in) |-> (rx'[p].arrived - Len(hw'[p].in)) + k]
    BY <1>5, <2>1
  <2>3. QED
    BY <1>1, <1>5, <2>1, <2>2, UartAssumption DEF Fifos
<1>8. Sent(p)' /\ Closing(p)'
  BY <1>1, <1>2, <1>3, <1>5 DEF Sound, Sent, Closing, At2, Live, Settled
<1>9. Received(p)'
  <2>1. SUFFICES ASSUME Live(p) PROVE Received(p)'
    BY <1>2, <1>5 DEF Received, Live, Settled
  <2>2. Kept(rx[p].delivered \o Contents(rb[p].rx), m, rx[p].dropped)
    BY <1>1, <2>1 DEF Sound, Received
  <2>3. Kept(rx[p].delivered \o Contents(t.ring), rx[p].arrived, t.dropped)
    BY <1>1, <1>4, <2>2
  <2>4. QED
    BY <1>5, <1>6, <2>3 DEF Received
<1>10. Opening(p)'
  <2>1. SUFFICES ASSUME At2(p, {"init"}) PROVE Opening(p)'
    BY <1>2 DEF Opening, At2
  <2>2. /\ NotRound(rb[p].rx) /\ Within(Contents(FromStart(rb[p].rx)), m)
        /\ hw[p].ier = {"RBR"} /\ hw[p].out = <<>> /\ ~hw[p].thre
    BY <1>1, <2>1 DEF Sound, Opening
  <2>3. NotRound(t.ring) /\ Within(Contents(FromStart(t.ring)), rx[p].arrived)
    BY <1>4, <2>2
  <2>4. QED
    BY <1>2, <1>5, <1>6, <2>2, <2>3 DEF Opening
<1>11. Announced(p)'
  <2>1. p \in rxEvents'
    BY <1>2
  <2>2. At2(p, {"rbr off", "take"}) => main.left <= Count(t.ring)
    <3>1. SUFFICES ASSUME At2(p, {"rbr off", "take"}) PROVE main.left <= Count(t.ring)
      OBVIOUS
    <3>2. main.left \in Nat
      BY <1>1, <3>1, MainAs DEF At2
    <3>3. main.left <= Count(rb[p].rx) /\ Count(rb[p].rx) \in Nat /\ Count(t.ring) \in Nat
      <4>1. main.left <= Count(rb[p].rx)
        BY <1>1, <3>1 DEF Sound, Announced
      <4>2. QED
        BY <1>1, <1>4, <4>1, ContentsAre
    <3>4. QED
      BY <1>4, <3>2, <3>3
  <2>3. At2(p, {"rbr on"}) => main.left = 0
    BY <1>1 DEF Sound, Announced
  <2>4. QED
    BY <1>2, <1>5, <2>1, <2>2, <2>3 DEF Announced, At2
<1>12. QED
  BY <1>7, <1>8, <1>9, <1>10, <1>11 DEF Sound

LEMMA ConcatTail ==
  ASSUME NEW d \in Seq(Nat), NEW c \in Seq(Nat), c # <<>>
  PROVE  Append(d, Head(c)) \o Tail(c) = d \o c
<1> DEFINE h == Head(c)
           u == Tail(c)
           l == Append(d, h)
<1>1. h \in Nat /\ u \in Seq(Nat) /\ Len(c) \in Nat \ {0} /\ Len(u) = Len(c) - 1 /\ h = c[1]
      /\ \A i \in 1..(Len(c) - 1) : u[i] = c[i + 1]
  OBVIOUS
<1> HIDE DEF h, u
<1>2. l \in Seq(Nat) /\ Len(l) = Len(d) + 1 /\ Len(d) \in Nat /\ l[Len(d) + 1] = h
      /\ \A i \in 1..Len(d) : l[i] = d[i]
  BY <1>1
<1> HIDE DEF l
<1>3. /\ l \o u \in Seq(Nat) /\ Len(l \o u) = Len(l) + Len(u)
      /\ \A i \in 1..(Len(l) + Len(u)) : (l \o u)[i] = IF i <= Len(l) THEN l[i] ELSE u[i - Len(l)]
  BY <1>1, <1>2, ConcatProperties, Zenon
<1>4. /\ d \o c \in Seq(Nat) /\ Len(d \o c) = Len(d) + Len(c)
      /\ \A i \in 1..(Len(d) + Len(c)) : (d \o c)[i] = IF i <= Len(d) THEN d[i] ELSE c[i - Len(d)]
  BY ConcatProperties, Zenon
<1>5. Len(l) + Len(u) = Len(d) + Len(c)
  BY <1>1, <1>2
<1>6. ASSUME NEW i \in 1..(Len(d) + Len(c)) PROVE (l \o u)[i] = (d \o c)[i]
  <2>1. (l \o u)[i] = IF i <= Len(l) THEN l[i] ELSE u[i - Len(l)]
    BY <1>3, <1>5
  <2>2. (d \o c)[i] = IF i <= Len(d) THEN d[i] ELSE c[i - Len(d)]
    BY <1>4
  <2>3. CASE i <= Len(d)
    <3>1. i \in 1..Len(d) /\ i <= Len(l)
      BY <1>2, <2>3
    <3>2. QED
      BY <1>2, <2>1, <2>2, <2>3, <3>1
  <2>4. CASE i = Len(d) + 1
    <3>1. ~(i <= Len(d)) /\ i <= Len(l) /\ i - Len(d) = 1
      BY <1>2, <2>4
    <3>2. QED
      BY <1>1, <1>2, <2>1, <2>2, <2>4, <3>1
  <2>5. CASE i > Len(d) + 1
    <3>1. ~(i <= Len(d)) /\ ~(i <= Len(l)) /\ i - Len(l) \in 1..(Len(c) - 1)
          /\ (i - Len(l)) + 1 = i - Len(d)
      BY <1>1, <1>2, <2>5
    <3>2. QED
      BY <1>1, <2>1, <2>2, <3>1
  <2>6. i <= Len(d) \/ i = Len(d) + 1 \/ i > Len(d) + 1
    BY <1>2
  <2>7. QED
    BY <2>3, <2>4, <2>5, <2>6
<1>7. l \o u = d \o c
  BY <1>3, <1>4, <1>5, <1>6, SeqEqual
<1>8. QED
  BY <1>7 DEF l, h, u

LEMMA Takes ==
  ASSUME IInv, NEW p \in Ports, ReceiveTake(p)
  PROVE  Sound(p)'
<1> DEFINE r == rb[p].rx
<1>1. Types /\ Sound(p) /\ r \in Rings(Nat) /\ rx[p].delivered \in Seq(Nat)
  BY PortTypes DEF IInv
<1>2. /\ main.at = "take" /\ main.port = p /\ main.left \in Nat /\ main \in Calls
      /\ hw' = hw /\ tx' = tx /\ rxEvents' = rxEvents
  BY <1>1, MainAs, MainGoes DEF ReceiveTake, On
<1>3. /\ main.left <= Count(r) /\ (main.left = Count(r) \/ p \in rxEvents) /\ Count(r) \in Nat
  BY <1>1, <1>2, ContentsAre DEF Sound, Announced, At2
<1>4. (Live(p) <=> rb[p].mem) /\ Fifos(p)
  BY <1>1, <1>2 DEF Sound, Live, Settled
<1>5. CASE main.left > 0 /\ ~IsEmpty(r)
  <2>1. /\ rb' = [rb EXCEPT ![p].rx = Take(r)] /\ main' = [main EXCEPT !.left = @ - 1]
        /\ rx' = [rx EXCEPT ![p].delivered = Append(@, First(r))]
    <3>1. main.left # 0
      BY <1>2, <1>5
    <3>2. QED
      BY <1>5, <3>1 DEF ReceiveTake
  <2> HIDE DEF r
  <2>2. /\ rb'[p].rx = Take(r) /\ rb'[p].tx = rb[p].tx /\ rb'[p].mem = rb[p].mem
    BY <1>1, <2>1, PortTypes DEF Memory
  <2>3. /\ rx'[p].delivered = Append(rx[p].delivered, First(r)) /\ rx'[p].arrived = rx[p].arrived
        /\ rx'[p].dropped = rx[p].dropped
    BY <1>1, <2>1, PortTypes DEF RxCount
  <2>4. main'.at = "take" /\ main'.port = p /\ main'.left = main.left - 1
    BY <1>2, <2>1 DEF Calls
  <2>5. /\ Take(r) \in Rings(Nat) /\ Contents(r) # <<>> /\ First(r) = Head(Contents(r))
        /\ Contents(Take(r)) = Tail(Contents(r)) /\ Contents(r) \in Seq(Nat)
    BY <1>1, <1>5, TakeRemovesOldest, ContentsAre
  <2>6. Count(Take(r)) = Count(r) - 1
    <3>1. Len(Contents(Take(r))) = Count(Take(r)) /\ Len(Contents(r)) = Count(r)
      BY <1>1, <2>5, ContentsAre
    <3>2. Len(Tail(Contents(r))) = Len(Contents(r)) - 1
      BY <2>5
    <3>3. QED
      BY <2>5, <3>1, <3>2
  <2>7. Append(rx[p].delivered, First(r)) \o Contents(Take(r)) = rx[p].delivered \o Contents(r)
    BY <1>1, <2>5, ConcatTail
  <2>8. Fifos(p)' /\ Sent(p)'
    <3>1. Live(p)' => Live(p)
      BY <1>4, <2>2 DEF Live
    <3>2. Fifos(p)'
      BY <1>2, <1>4, <2>3 DEF Fifos
    <3>3. Sent(p)'
      BY <1>1, <1>2, <2>2, <3>1 DEF Sound, Sent
    <3>4. QED
      BY <3>2, <3>3
  <2>9. Received(p)'
    BY <1>1, <1>2, <1>4, <2>2, <2>3, <2>4, <2>7 DEF Sound, Received, Live, Settled, r
  <2>10. Announced(p)'
    <3>1. /\ main'.left <= Count(rb'[p].rx)
          /\ main'.left = Count(rb'[p].rx) \/ p \in rxEvents'
      BY <1>2, <1>3, <2>2, <2>4, <2>6
    <3>2. At2(p, Receiving)' /\ ~At2(p, {"rbr on"})'
      BY <2>4 DEF At2, Receiving
    <3>3. QED
      BY <3>1, <3>2 DEF Announced
  <2>11. Closing(p)'
    <3>1. rb[p].mem
      BY <1>1, <1>5 DEF Sound, Closing, IsEmpty, r
    <3>2. QED
      BY <2>2, <2>4, <3>1 DEF Closing, At2, Sending
  <2>12. QED
    BY <2>4, <2>8, <2>9, <2>10, <2>11 DEF Sound, Opening, At2
<1>6. CASE ~(main.left > 0 /\ ~IsEmpty(r))
  <2>1. rb' = rb /\ rx' = rx
        /\ main' = [at |-> "rbr on", port |-> p, left |-> main.left, ier |-> hw[p].ier]
    BY <1>6 DEF ReceiveTake, Goto
  <2>2. main'.at = "rbr on" /\ main'.port = p /\ main'.left = main.left
    BY <2>1
  <2>3. IsEmpty(r) <=> Count(r) = 0
    BY <1>1, CountIsFill
  <2>4. main.left = 0 /\ (IsEmpty(r) \/ p \in rxEvents)
    BY <1>2, <1>3, <1>6, <2>3
  <2>5. Fifos(p)' /\ Sent(p)' /\ Received(p)'
    BY <1>1, <1>2, <1>4, <2>1, <2>2 DEF Sound, Fifos, Sent, Received, Live, Settled
  <2>6. Announced(p)' /\ Closing(p)'
    BY <1>1, <1>2, <2>1, <2>2, <2>4 DEF Sound, Announced, Closing, At2, Receiving, Sending
  <2>7. QED
    BY <2>2, <2>5, <2>6 DEF Sound, Opening, At2
<1>7. QED
  BY <1>5, <1>6

LEMMA StepIInv == IInv /\ [Next]_vars => IInv'
<1> SUFFICES ASSUME IInv, [Next]_vars PROVE IInv'
  OBVIOUS
<1>1. CASE Next
  <2>1. PICK p \in Ports : Step(p)
    BY <1>1 DEF Next, Step
  <2>2. Types'
    BY <2>1, StepTypes
  <2>3. Sound(p)'
    BY <2>1, Opens, Closes, GoesOn, Fills, MainTransmits, InterruptTransmits, Shifts, Arrives,
       InterruptReceives, Takes DEF Step, MainSteps, Hardware
  <2>4. \A q \in Ports : q # p => Sound(q)'
    BY <2>1, Elsewhere
  <2>5. QED
    BY <2>2, <2>3, <2>4 DEF IInv
<1>2. CASE UNCHANGED vars
  <2>1. Types'
    BY <1>2 DEF vars, IInv, Types
  <2>2. ASSUME NEW p \in Ports PROVE Sound(p)'
    BY <1>2 DEF vars, IInv, Sound, Fifos, Sent, Received, Opening, Announced, Closing, Live, Settled, At2
  <2>3. QED
    BY <2>1, <2>2 DEF IInv
<1>3. QED
  BY <1>1, <1>2

-----------------------------------------------------------------------------
(* What the invariant says of the ports.                                   *)

LEMMA TypesOK == IInv => TypeOK
<1> SUFFICES ASSUME IInv PROVE TypeOK
  OBVIOUS
<1>1. Types /\ Rings(Nat) = Rings(Bytes)
  BY DEF IInv, Bytes
<1>2. ASSUME NEW p \in Ports
      PROVE  /\ rb[p].mem \in BOOLEAN /\ rb[p].tx \in Rings(Nat) /\ rb[p].rx \in Rings(Nat)
             /\ hw[p].ier \subseteq {"RBR", "THRE"}
             /\ Len(hw[p].out) <= FifoSize /\ Len(hw[p].in) <= FifoSize
  BY <1>1, PortTypes DEF IInv, Sound, Fifos, Irqs
<1>3. TxIntStat \in {"SET", "RESET"} /\ rxEvents \subseteq Ports
  BY <1>1 DEF Types
<1>4. QED
  BY <1>1, <1>2, <1>3 DEF TypeOK

LEMMA AllAccounted == IInv => RxAccounted
<1> SUFFICES ASSUME IInv, NEW p \in Ports, Live(p)
             PROVE  LET kept == rx[p].delivered \o Contents(rb[p].rx) \o hw[p].in
                    IN /\ ToSet(kept) = (1..rx[p].arrived) \ rx[p].dropped
                       /\ \A i, j \in 1..Len(kept) : i < j => kept[i] < kept[j]
  BY DEF RxAccounted
<1> DEFINE s == rx[p].delivered \o Contents(rb[p].rx)
           n == Len(hw[p].in)
           m == rx[p].arrived - n
           fifo == hw[p].in
           gone == rx[p].dropped
<1>1. s \in Seq(Nat) /\ n \in Nat /\ m \in Nat /\ m + n = rx[p].arrived
  <2>1. rb[p].rx \in Rings(Nat) /\ rx[p].delivered \in Seq(Nat) /\ hw[p].in \in Seq(Nat)
        /\ rx[p].arrived \in Nat
    BY PortTypes DEF IInv
  <2>2. Contents(rb[p].rx) \in Seq(Nat)
    BY <2>1, ContentsAre
  <2>3. n <= rx[p].arrived
    BY DEF IInv, Sound, Fifos
  <2>4. s \in Seq(Nat)
    BY <2>1, <2>2
  <2> HIDE DEF s
  <2>5. n \in Nat
    BY <2>1
  <2> HIDE DEF n
  <2>6. QED
    BY <2>1, <2>3, <2>4, <2>5
<1>2. Kept(s, m, gone)
  BY DEF IInv, Sound, Received
<1>3. fifo = [k \in 1..n |-> m + k]
  BY DEF IInv, Sound, Fifos
<1> HIDE DEF s, n
<1> HIDE DEF m, fifo, gone
<1>4. \A t \in Seq(Nat), j \in Nat, l \in Nat : \A d, f : Kept(t, j, d) /\ f = [k \in 1..l |-> j + k]
        => ToSet(t \o f) = (1..(j + l)) \ d /\ Rising(t \o f)
  BY KeptAll
<1>5. ToSet(s \o fifo) = (1..(m + n)) \ gone /\ Rising(s \o fifo)
  BY <1>1, <1>2, <1>3, <1>4
<1>6. QED
  BY <1>1, <1>5 DEF s, fifo, gone, Rising

(* Every byte is accounted for, whatever comes between the steps of the    *)
(* main thread: sent in order, none lost and none twice; received in       *)
(* order, or dropped from a full ring; the count read before RBR is off    *)
(* still right (hw_uart.c:181); and nothing waits without its event.       *)
THEOREM BytesAccounted == Spec => []RingsAccounted
<1>1. IInv => RingsAccounted
  <2> SUFFICES ASSUME IInv PROVE RingsAccounted
    OBVIOUS
  <2>1. TypeOK /\ RxAccounted
    BY TypesOK, AllAccounted
  <2>2. TxInFlight
    BY DEF TxInFlight, IInv, Sound, Sent
  <2>3. ReadAssert
    BY MainAs DEF ReadAssert, IInv, Sound, Announced, At2
  <2>4. RxNeverForgotten
    BY DEF RxNeverForgotten, IInv, Sound, Announced, At2, Settled, Receiving
  <2>5. QED
    BY <2>1, <2>2, <2>3, <2>4 DEF RingsAccounted
<1>2. QED
  BY <1>1, InitIInv, StepIInv, PTL DEF Spec

(* No interrupt reads or writes a ring that hw_uart_disable has freed or   *)
(* hw_uart_initialize has not allocated (hw_uart.c:80-110).                *)
THEOREM FreedRingsUntouched == Spec => []FreedNeverTouched
<1>1. IInv => FreedNeverTouched
  <2> SUFFICES ASSUME IInv, NEW p \in Ports, ~rb[p].mem
               PROVE  ~RxPending(p) /\ IsEmpty(rb[p].tx)
    BY DEF FreedNeverTouched
  <2>1. rb[p].tx.head = 0 /\ rb[p].tx.tail = 0 /\ (hw[p].nvic => "RBR" \notin hw[p].ier)
    BY DEF IInv, Sound, Closing, At2
  <2>2. QED
    BY <2>1 DEF RxPending, IsEmpty
<1>2. QED
  BY <1>1, InitIInv, StepIInv, PTL DEF Spec

=============================================================================
