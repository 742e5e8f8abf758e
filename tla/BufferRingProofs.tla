-------------------------- MODULE BufferRingProofs --------------------------
(***************************************************************************)
(* Proofs about the provided buffers, for any entry_count that divides the *)
(* range of the indices: no descriptor the kernel may take is stale, and   *)
(* the ring implements BufferPool.                                         *)
(***************************************************************************)
EXTENDS BufferRing, FiniteSetTheorems, TLAPS

-----------------------------------------------------------------------------
(* Remainders.                                                               *)

LEMMA Division ==
  ASSUME NEW n \in Int, NEW d \in Nat \ {0}
  PROVE  /\ n \div d \in Int /\ n % d \in 0 .. d - 1
         /\ n = d * (n \div d) + (n % d)
OBVIOUS

LEMMA Multiple ==
  ASSUME NEW d \in Nat \ {0}, NEW k \in Int
  PROVE  /\ d * k \in Int
         /\ k >= 1 => d * k >= d
         /\ k <= -1 => d * k <= -d
OBVIOUS

LEMMA Remainder ==
  ASSUME NEW d \in Nat \ {0}, NEW q \in Int, NEW r \in 0 .. d - 1
  PROVE  (d * q + r) % d = r
<1> DEFINE n == d * q + r
<1>1. n \in Int  BY Multiple
<1> DEFINE p == n \div d
           s == n % d
<1>2. p \in Int /\ s \in 0 .. d - 1 /\ n = d * p + s  BY <1>1, Division
<1>3. d * (p - q) = r - s
  <2>1. d * (p - q) = d * p - d * q  BY <1>2
  <2>2. d * p \in Int /\ d * q \in Int  BY <1>2, Multiple
  <2> QED  BY <1>2, <2>1, <2>2
<1>4. p - q \in Int  BY <1>2
<1>5. ~(p - q >= 1) /\ ~(p - q <= -1)  BY <1>2, <1>3, <1>4, Multiple
<1> QED  BY <1>2, <1>3, <1>5

LEMMA ModMultiple ==
  ASSUME NEW d \in Nat \ {0}, NEW n \in Int, NEW k \in Int
  PROVE  (n + d * k) % d = n % d
<1> DEFINE q == n \div d
           r == n % d
<1>1. q \in Int /\ r \in 0 .. d - 1 /\ n = d * q + r  BY Division
<1> HIDE DEF q, r
<1>2. d * q \in Int /\ d * k \in Int  BY <1>1, Multiple
<1>3. d * (q + k) = d * q + d * k  BY <1>1
<1>4. n + d * k = d * (q + k) + r  BY <1>1, <1>2, <1>3
<1>5. (d * (q + k) + r) % d = r  BY <1>1, Remainder
<1> QED  BY <1>4, <1>5 DEF r

\* Indices less than a turn apart have different descriptors.
LEMMA ModDistinct ==
  ASSUME NEW d \in Nat \ {0}, NEW a \in Int, NEW b \in Int, a < b, b < a + d
  PROVE  a % d # b % d
<1> SUFFICES ASSUME a % d = b % d PROVE FALSE  OBVIOUS
<1> DEFINE p == a \div d
           q == b \div d
           r == a % d
<1>1. p \in Int /\ r \in 0 .. d - 1 /\ a = d * p + r  BY Division
<1>2. q \in Int /\ b = d * q + r  BY Division
<1> HIDE DEF p, q, r
<1>3. d * p \in Int /\ d * q \in Int  BY <1>1, <1>2, Multiple
<1>4. d * (q - p) = d * q - d * p  BY <1>1, <1>2
<1>5. d * (q - p) = b - a  BY <1>1, <1>2, <1>3, <1>4
<1>6. q - p \in Int /\ ~(q - p >= 1) /\ ~(q - p <= 0)
  <2>1. q - p \in Int  BY <1>1, <1>2
  <2>2. ~(q - p >= 1)  BY <1>5, <2>1, Multiple
  <2>3. q - p # 0  BY <1>5
  <2>4. ~(q - p <= -1)  BY <1>5, <2>1, Multiple
  <2> QED  BY <2>1, <2>2, <2>3, <2>4
<1> QED  BY <1>6

Indices == 0 .. Wrap - 1

LEMMA WrapsEvenly ==
  ASSUME NEW n \in Int
  PROVE  (n + Wrap) % Size = n % Size /\ (n - Wrap) % Size = n % Size
<1> DEFINE k == Wrap \div Size
<1>1. k \in Int /\ Wrap = Size * k + 0  BY RingAssumption, Division
<1> HIDE DEF k
<1>2. Size * k \in Int /\ Size * (-k) = -(Size * k) /\ -k \in Int  BY <1>1, RingAssumption
<1>3. Wrap = Size * k /\ -Wrap = Size * (-k)  BY <1>1, <1>2
<1>4. (n + Size * k) % Size = n % Size /\ (n + Size * (-k)) % Size = n % Size
  BY Zenon, <1>1, <1>2, RingAssumption, ModMultiple
<1>5. n - Wrap = n + (-Wrap)  BY RingAssumption
<1> QED  BY <1>3, <1>4, <1>5

LEMMA Successor ==
  ASSUME NEW x \in Indices
  PROVE  /\ (x + 1) % Wrap \in Indices
         /\ (x + 1) % Wrap = IF x + 1 = Wrap THEN 0 ELSE x + 1
BY RingAssumption DEF Indices

\* The distance from b to a, in the order in which the indices run.
LEMMA Distance ==
  ASSUME NEW a \in Indices, NEW b \in Indices
  PROVE  /\ (a - b) % Wrap \in Indices
         /\ (a - b) % Wrap = IF a >= b THEN a - b ELSE a - b + Wrap
<1>1. Wrap \in Nat \ {0}  BY RingAssumption
<1>2. CASE a >= b
  <2>1. a - b \in 0 .. Wrap - 1 /\ a - b = Wrap * 0 + (a - b)  BY <1>1, <1>2 DEF Indices
  <2>2. (Wrap * 0 + (a - b)) % Wrap = a - b  BY <1>1, <2>1, Remainder
  <2> QED  BY <1>2, <2>1, <2>2 DEF Indices
<1>3. CASE ~(a >= b)
  <2>1. a - b + Wrap \in 0 .. Wrap - 1 /\ a - b = Wrap * (-1) + (a - b + Wrap)
    BY <1>1, <1>3 DEF Indices
  <2>2. (Wrap * (-1) + (a - b + Wrap)) % Wrap = a - b + Wrap  BY <1>1, <2>1, Remainder
  <2> QED  BY <1>3, <2>1, <2>2 DEF Indices
<1> QED  BY <1>2, <1>3

-----------------------------------------------------------------------------
(* The completion queue.                                                     *)

LEMMA QueueAppend ==
  ASSUME NEW S, NEW s \in Seq(S), NEW e \in S, IsInjective(s), e \notin Range(s)
  PROVE  /\ Append(s, e) \in Seq(S) /\ IsInjective(Append(s, e))
         /\ Range(Append(s, e)) = Range(s) \cup {e}
<1> DEFINE t == Append(s, e)
<1>1. /\ t \in Seq(S) /\ Len(t) = Len(s) + 1 /\ t[Len(s) + 1] = e
      /\ \A i \in 1 .. Len(s) : t[i] = s[i]
  OBVIOUS
<1>2. DOMAIN s = 1 .. Len(s) /\ DOMAIN t = 1 .. Len(s) + 1 /\ Len(s) \in Nat  BY <1>1
<1> HIDE DEF t
<1>3. \A i \in 1 .. Len(s) + 1 : i \in 1 .. Len(s) \/ i = Len(s) + 1  BY <1>2
<1>4. \A i \in 1 .. Len(s) : i \in DOMAIN t /\ s[i] # e  BY <1>2 DEF Range
<1>5. IsInjective(t)  BY <1>1, <1>2, <1>3, <1>4 DEF IsInjective
<1>6. Range(t) = Range(s) \cup {e}
  <2>1. ASSUME NEW y \in Range(t)  PROVE y \in Range(s) \cup {e}
    BY <1>1, <1>2, <1>3 DEF Range
  <2>2. ASSUME NEW y \in Range(s)  PROVE y \in Range(t)  BY <1>1, <1>2, <1>4 DEF Range
  <2>3. Len(s) + 1 \in DOMAIN t  BY <1>2
  <2>4. e \in Range(t)  BY <1>1, <2>3 DEF Range
  <2> QED  BY <2>1, <2>2, <2>4
<1>7. t = Append(s, e)  BY DEF t
<1> QED  BY <1>1, <1>5, <1>6, <1>7

LEMMA QueueTail ==
  ASSUME NEW S, NEW s \in Seq(S), s # <<>>, IsInjective(s)
  PROVE  /\ Tail(s) \in Seq(S) /\ IsInjective(Tail(s)) /\ Head(s) \in Range(s)
         /\ Head(s) \in S /\ Range(Tail(s)) = Range(s) \ {Head(s)}
<1> DEFINE t == Tail(s)
<1>1. /\ t \in Seq(S) /\ Len(s) >= 1 /\ Len(t) = Len(s) - 1 /\ Head(s) = s[1] /\ Head(s) \in S
      /\ \A i \in 1 .. Len(s) - 1 : t[i] = s[i + 1]
  OBVIOUS
<1>2. DOMAIN s = 1 .. Len(s) /\ DOMAIN t = 1 .. Len(s) - 1 /\ Len(s) \in Nat  BY <1>1
<1> HIDE DEF t
<1>3. \A i \in 1 .. Len(s) - 1 : i + 1 \in DOMAIN s /\ i + 1 # 1  BY <1>2
<1>4. 1 \in DOMAIN s  BY <1>1, <1>2
<1>5. IsInjective(t)
  <2> SUFFICES ASSUME NEW i \in DOMAIN t, NEW j \in DOMAIN t, t[i] = t[j]  PROVE i = j
    BY DEF IsInjective
  <2>1. s[i + 1] = s[j + 1] /\ i + 1 \in DOMAIN s /\ j + 1 \in DOMAIN s
    BY <1>1, <1>2, <1>3
  <2>2. i + 1 = j + 1 /\ i \in Nat /\ j \in Nat  BY <1>2, <2>1 DEF IsInjective
  <2> QED  BY <2>2
<1>6. Range(t) = Range(s) \ {s[1]}
  <2>1. ASSUME NEW y \in Range(t)  PROVE y \in Range(s) \ {s[1]}
    <3>1. PICK i \in 1 .. Len(s) - 1 : y = t[i]  BY <1>2 DEF Range
    <3>2. y = s[i + 1] /\ i + 1 \in DOMAIN s /\ i + 1 # 1  BY <1>1, <1>3, <3>1
    <3> QED  BY <1>4, <3>2 DEF Range, IsInjective
  <2>2. ASSUME NEW y \in Range(s), y # s[1]  PROVE y \in Range(t)
    <3>1. PICK i \in 1 .. Len(s) : y = s[i]  BY <1>2 DEF Range
    <3>2. i - 1 \in 1 .. Len(s) - 1 /\ (i - 1) + 1 = i  BY <1>2, <2>2, <3>1
    <3>3. t[i - 1] = s[i]  BY <1>1, <3>2
    <3> QED  BY <1>2, <3>1, <3>2, <3>3 DEF Range
  <2> QED  BY <2>1, <2>2
<1>7. s[1] \in Range(s)  BY <1>4 DEF Range
<1>8. t = Tail(s)  BY DEF t
<1> QED  BY <1>1, <1>5, <1>6, <1>7, <1>8

-----------------------------------------------------------------------------
(* The invariant.                                                            *)

Op == [step : 0 .. 3, id : Ids, copied : BOOLEAN]

\* The types of the state.
TypeOK ==
  /\ entries \in [Ids -> Ids]
  /\ tail \in Indices /\ shown \in Indices /\ head \in Indices
  /\ filling \in SUBSET Ids /\ lent \in Seq(Ids)
  /\ op \in Op

\* What copy_and_release has done: the descriptor is written once the bytes are copied,
\* and only between the two stores does the worker's tail run ahead of the shared one.
Progress ==
  /\ op.copied <=> op.step \in {2, 3}
  /\ tail = IF op.step = 3 THEN (shown + 1) % Wrap ELSE shown
  /\ op.step = 3 => entries[Index(shown)] = op.id

\* The descriptor i places behind the kernel's head.
Descriptor(i) == entries[(head + i) % Size]

\* The kernel may take at most Size descriptors, which name different buffers.
Distinct ==
  /\ Count <= Size
  /\ \A i, j \in 0 .. Count - 1 : Descriptor(i) = Descriptor(j) => i = j

\* The buffer copy_and_release works on.
Held == {i \in Ids : op.step # 0 /\ i = op.id}

\* No buffer is in two places.
Separate ==
  /\ IsInjective(lent)
  /\ Offered \cap filling = {} /\ Offered \cap Range(lent) = {} /\ Offered \cap Held = {}
  /\ filling \cap Range(lent) = {} /\ filling \cap Held = {} /\ Range(lent) \cap Held = {}

IInv == TypeOK /\ Progress /\ Distinct /\ Separate

-----------------------------------------------------------------------------
(* The window of descriptors between the kernel's head and the shared tail.  *)

LEMMA Sizes ==
  /\ Size \in Nat \ {0} /\ Wrap \in Nat \ {0} /\ Size < Wrap
  /\ IsFiniteSet(Ids) /\ Cardinality(Ids) = Size
  /\ \A n \in Int : n % Size \in Ids
<1>1. Size \in Nat \ {0} /\ Wrap \in Nat \ {0} /\ Size < Wrap  BY RingAssumption
<1>2. IsFiniteSet(Ids) /\ Cardinality(Ids) = Size  BY <1>1, FS_Interval DEF Ids
<1>3. \A n \in Int : n % Size \in Ids  BY <1>1 DEF Ids
<1> QED  BY <1>1, <1>2, <1>3

LEMMA Window ==
  ASSUME TypeOK
  PROVE  /\ Count \in Indices /\ Count = IF shown >= head THEN shown - head ELSE shown - head + Wrap
         /\ Offered = {Descriptor(i) : i \in 0 .. Count - 1}
         /\ (head + Count) % Size = Index(shown)
         /\ \A i \in Nat : (head + i) % Size \in Ids /\ Descriptor(i) \in Ids
<1>1. Count \in Indices /\ Count = IF shown >= head THEN shown - head ELSE shown - head + Wrap
  BY Distance DEF TypeOK, Count
<1>2. (head + Count) % Size = Index(shown)
  <2>1. shown \in Int /\ head \in Int /\ Wrap \in Int  BY Sizes DEF TypeOK, Indices
  <2>2. CASE shown >= head
    <3>1. head + Count = shown  BY <1>1, <2>1, <2>2
    <3> QED  BY <3>1 DEF Index
  <2>3. CASE ~(shown >= head)
    <3>1. head + Count = shown + Wrap  BY <1>1, <2>1, <2>3
    <3> QED  BY <2>1, <3>1, WrapsEvenly DEF Index
  <2> QED  BY <2>2, <2>3
<1>3. \A i \in Nat : (head + i) % Size \in Ids /\ Descriptor(i) \in Ids
  <2> SUFFICES ASSUME NEW i \in Nat
               PROVE  (head + i) % Size \in Ids /\ Descriptor(i) \in Ids
    OBVIOUS
  <2>1. head + i \in Int  BY DEF TypeOK, Indices
  <2>2. (head + i) % Size \in Ids  BY <2>1, Sizes
  <2> QED  BY <2>2 DEF TypeOK, Descriptor
<1> QED  BY <1>1, <1>2, <1>3 DEF Offered, Descriptor

\* Distinct descriptors name as many buffers as there are descriptors.
LEMMA OfferedCount ==
  ASSUME TypeOK, Distinct
  PROVE  IsFiniteSet(Offered) /\ Cardinality(Offered) = Count
<1> DEFINE S == 0 .. Count - 1
           f == [i \in S |-> Descriptor(i)]
<1>1. Count \in Nat  BY Window DEF Indices
<1>2. IsFiniteSet(S) /\ Cardinality(S) = Count  BY <1>1, FS_Interval
<1>3. Offered = {Descriptor(i) : i \in S}  BY Window
<1>4. \A i, j \in S : Descriptor(i) = Descriptor(j) => i = j  BY DEF Distinct
<1> HIDE DEF S
<1>5. f \in Bijection(S, Offered)
  BY <1>3, <1>4 DEF Bijection, Injection, Surjection, IsInjective
<1>6. ExistsBijection(S, Offered)  BY <1>5 DEF ExistsBijection
<1> QED  BY <1>2, <1>6, FS_Bijection

\* While copy_and_release has a buffer, a place for its descriptor is left.
LEMMA Room ==
  ASSUME IInv, op.step # 0
  PROVE  Count < Size
<1>1. op.id \in Ids /\ op.id \notin Offered  BY DEF IInv, TypeOK, Separate, Held, Op
<1>2. Offered \in SUBSET (Ids \ {op.id})
  <2>1. \A i \in 0 .. Count - 1 : i \in Nat  BY Window DEF IInv, Indices
  <2> QED  BY <1>1, <2>1, Window DEF IInv
<1>3. IsFiniteSet(Ids \ {op.id}) /\ Cardinality(Ids \ {op.id}) = Size - 1
  BY <1>1, Sizes, FS_RemoveElement
<1>4. Cardinality(Offered) <= Size - 1  BY <1>2, <1>3, FS_Subset
<1>5. Cardinality(Offered) = Count /\ Count \in Nat
  BY OfferedCount, Window DEF IInv, Indices
<1> QED  BY <1>4, <1>5, Sizes

\* The steps of copy_and_release, by number.
LEMMA Steps ==
  ASSUME TypeOK
  PROVE  /\ At("copy") <=> op.step = 1
         /\ At("entry") <=> op.step = 2
         /\ At("tail") <=> op.step = 3
         /\ Len(Order) = 3
BY DEF TypeOK, At, Order, Op

LEMMA SteppedOp ==
  ASSUME NEW o \in Op, o.step \in {1, 2}, Len(Order) = 3
  PROVE  /\ Stepped(o) \in Op /\ Stepped(o).step = o.step + 1
         /\ Stepped(o).id = o.id /\ Stepped(o).copied = o.copied
<1>1. Stepped(o) = [o EXCEPT !.step = o.step + 1]  BY DEF Stepped
<1>2. o.step + 1 \in 0 .. 3  OBVIOUS
<1> QED  BY <1>1, <1>2 DEF Op

\* A step that leaves the descriptors, the tails and the head alone keeps the window.
LEMMA WindowKept ==
  ASSUME UNCHANGED <<entries, shown, head>>
  PROVE  Count' = Count /\ Offered' = Offered /\ \A i : Descriptor(i)' = Descriptor(i)
BY DEF Count, Offered, Descriptor

-----------------------------------------------------------------------------
(* The steps.                                                                *)

\* The kernel takes the first descriptor.
LEMMA TakeWindow ==
  ASSUME IInv, Take
  PROVE  /\ Count > 0 /\ Count' = Count - 1 /\ head' \in Indices
         /\ Descriptor(0) \in Offered /\ entries[head % Size] = Descriptor(0)
         /\ Offered' = Offered \ {Descriptor(0)}
         /\ \A i \in Nat : Descriptor(i)' = Descriptor(i + 1)
<1>1. /\ head # shown /\ head' = (head + 1) % Wrap /\ shown' = shown /\ entries' = entries
      /\ tail' = tail /\ shown \in Indices /\ head \in Indices
  BY DEF Take, IInv, TypeOK
<1>2. head' = (IF head + 1 = Wrap THEN 0 ELSE head + 1) /\ head' \in Indices
  BY <1>1, Successor
<1>3. Count = (IF shown >= head THEN shown - head ELSE shown - head + Wrap) /\ Count \in Nat
  BY Window DEF IInv, Indices
<1>4. Count' = IF shown >= head' THEN shown - head' ELSE shown - head' + Wrap
  BY <1>1, <1>2, Distance DEF Count
<1>5. Count > 0 /\ Count' = Count - 1
  BY <1>1, <1>2, <1>3, <1>4, Sizes DEF Indices
<1>6. ASSUME NEW i \in Nat  PROVE Descriptor(i)' = Descriptor(i + 1)
  <2>1. CASE head + 1 = Wrap
    <3>1. head' + i = i /\ head + (i + 1) = i + Wrap  BY <1>1, <1>2, <2>1 DEF Indices
    <3>2. (i + Wrap) % Size = i % Size  BY WrapsEvenly
    <3> QED  BY <1>1, <3>1, <3>2 DEF Descriptor
  <2>2. CASE head + 1 # Wrap
    <3>1. head' + i = head + (i + 1)  BY <1>1, <1>2, <2>2 DEF Indices
    <3> QED  BY <1>1, <3>1 DEF Descriptor
  <2> QED  BY <2>1, <2>2
<1>7. Offered = {Descriptor(i) : i \in 0 .. Count - 1}  BY Window DEF IInv
<1>8. Offered' = {Descriptor(i + 1) : i \in 0 .. Count - 2}
  <2>1. Offered' = {entries'[(head' + i) % Size] : i \in 0 .. Count' - 1}  BY DEF Offered
  <2>2. Count' - 1 = Count - 2  BY <1>3, <1>5
  <2>3. \A i \in 0 .. Count - 2 : i \in Nat /\ entries'[(head' + i) % Size] = Descriptor(i + 1)
    BY <1>3, <1>6 DEF Descriptor
  <2> QED  BY <2>1, <2>2, <2>3
<1>9. 0 \in 0 .. Count - 1  BY <1>3, <1>5
<1>10. ASSUME NEW x \in Offered'  PROVE x \in Offered \ {Descriptor(0)}
  <2>1. PICK i \in 0 .. Count - 2 : x = Descriptor(i + 1)  BY <1>8
  <2>2. i + 1 \in 0 .. Count - 1 /\ i + 1 # 0  BY <1>3
  <2> QED  BY <1>7, <1>9, <2>1, <2>2 DEF IInv, Distinct
<1>11. ASSUME NEW x \in Offered, x # Descriptor(0)  PROVE x \in Offered'
  <2>1. PICK i \in 0 .. Count - 1 : x = Descriptor(i)  BY <1>7
  <2>2. i # 0  BY <1>11, <2>1
  <2>3. i - 1 \in 0 .. Count - 2 /\ (i - 1) + 1 = i  BY <1>3, <2>2
  <2> QED  BY <1>8, <2>1, <2>3
<1>12. Descriptor(0) \in Offered  BY <1>7, <1>9
<1>13. entries[head % Size] = Descriptor(0)
  <2>1. head + 0 = head  BY <1>1 DEF Indices
  <2> QED  BY <2>1 DEF Descriptor
<1> QED  BY <1>2, <1>5, <1>6, <1>10, <1>11, <1>12, <1>13

LEMMA TakeKeeps == ASSUME IInv, Take PROVE IInv'
<1>1. /\ entries' = entries /\ tail' = tail /\ shown' = shown /\ lent' = lent /\ op' = op
      /\ filling' = filling \cup {entries[head % Size]}
  BY DEF Take
<1>2. /\ Count > 0 /\ Count' = Count - 1 /\ head' \in Indices
      /\ Descriptor(0) \in Offered /\ entries[head % Size] = Descriptor(0)
      /\ Offered' = Offered \ {Descriptor(0)}
      /\ \A i \in Nat : Descriptor(i)' = Descriptor(i + 1)
  BY TakeWindow
<1>3. Count \in Nat /\ Descriptor(0) \in Ids  BY Window DEF IInv, Indices
<1>4. TypeOK'  BY <1>1, <1>2, <1>3 DEF IInv, TypeOK
<1>5. Progress'  BY <1>1 DEF IInv, Progress, Index
<1>6. Distinct'
  <2>1. Count' <= Size  BY <1>2, <1>3, Sizes DEF IInv, Distinct
  <2>2. ASSUME NEW i \in 0 .. Count' - 1, NEW j \in 0 .. Count' - 1,
               Descriptor(i)' = Descriptor(j)'
        PROVE  i = j
    <3>1. i \in Nat /\ j \in Nat /\ i + 1 \in 0 .. Count - 1 /\ j + 1 \in 0 .. Count - 1
      BY <1>2, <1>3
    <3>2. Descriptor(i + 1) = Descriptor(j + 1)  BY <1>2, <2>2, <3>1
    <3>3. i + 1 = j + 1  BY <3>1, <3>2 DEF IInv, Distinct
    <3> QED  BY <3>1, <3>3
  <2> QED  BY <2>1, <2>2 DEF Distinct
<1>7. Held' = Held  BY <1>1 DEF Held
<1>8. Separate'  BY <1>1, <1>2, <1>7 DEF IInv, Separate
<1> QED  BY <1>4, <1>5, <1>6, <1>8 DEF IInv

LEMMA PostKeeps == ASSUME IInv, Post PROVE IInv'
<1>1. UNCHANGED <<entries, tail, shown, head, op>>  BY DEF Post
<1>2. PICK i \in filling : filling' = filling \ {i} /\ lent' = Append(lent, i)  BY DEF Post
<1>3. i \in Ids /\ lent \in Seq(Ids) /\ IsInjective(lent) /\ i \notin Range(lent)
  BY DEF IInv, TypeOK, Separate
<1>4. lent' \in Seq(Ids) /\ IsInjective(lent') /\ Range(lent') = Range(lent) \cup {i}
  BY <1>2, <1>3, QueueAppend
<1>5. Count' = Count /\ Offered' = Offered /\ \A k : Descriptor(k)' = Descriptor(k)
  BY <1>1, WindowKept
<1>6. TypeOK'  BY <1>1, <1>2, <1>4 DEF IInv, TypeOK
<1>7. Progress'  BY <1>1 DEF IInv, Progress, Index
<1>8. Distinct'  BY <1>5 DEF IInv, Distinct
<1>9. Held' = Held  BY <1>1 DEF Held
<1>10. Separate'  BY <1>2, <1>4, <1>5, <1>9 DEF IInv, Separate
<1> QED  BY <1>6, <1>7, <1>8, <1>10 DEF IInv

LEMMA CompleteKeeps == ASSUME IInv, Complete PROVE IInv'
<1>1. /\ UNCHANGED <<entries, tail, shown, head, filling>> /\ op.step = 0 /\ lent # <<>>
      /\ lent' = Tail(lent)
  BY DEF Complete
<1>2. op' = [step |-> 1, id |-> Head(lent), copied |-> FALSE]
  BY Zenon DEF Complete, Idle
<1>3. /\ Tail(lent) \in Seq(Ids) /\ IsInjective(Tail(lent)) /\ Head(lent) \in Range(lent)
      /\ Head(lent) \in Ids /\ Range(Tail(lent)) = Range(lent) \ {Head(lent)}
  BY <1>1, QueueTail DEF IInv, TypeOK, Separate
<1>4. Count' = Count /\ Offered' = Offered /\ \A k : Descriptor(k)' = Descriptor(k)
  BY <1>1, WindowKept
<1>5. TypeOK'
  <2>1. op' \in Op  BY <1>2, <1>3 DEF Op
  <2> QED  BY <1>1, <1>3, <2>1 DEF IInv, TypeOK
<1>6. Progress'  BY <1>1, <1>2 DEF IInv, Progress
<1>7. Distinct'  BY <1>4 DEF IInv, Distinct
<1>8. Held' = {Head(lent)}  BY <1>2, <1>3 DEF Held
<1>9. Separate'  BY <1>1, <1>3, <1>4, <1>8 DEF IInv, Separate
<1> QED  BY <1>5, <1>6, <1>7, <1>9 DEF IInv

LEMMA CopyKeeps == ASSUME IInv, Copy PROVE IInv'
<1>1. UNCHANGED <<entries, tail, shown, head, filling, lent>> /\ op.step = 1
  BY Steps DEF Copy, IInv
<1>2. op' \in Op /\ op'.step = 2 /\ op'.id = op.id /\ op'.copied
  <2> DEFINE o == [op EXCEPT !.copied = TRUE]
  <2>1. o \in Op /\ o.step = 1 /\ o.id = op.id /\ o.copied
    BY Zenon, <1>1 DEF Op, IInv, TypeOK
  <2>2. op' = Stepped(o) /\ Len(Order) = 3  BY Steps DEF Copy, IInv
  <2> HIDE DEF o
  <2> QED  BY <2>1, <2>2, SteppedOp
<1>3. Count' = Count /\ Offered' = Offered /\ \A k : Descriptor(k)' = Descriptor(k)
  BY <1>1, WindowKept
<1>4. TypeOK'  BY <1>1, <1>2 DEF IInv, TypeOK
<1>5. Progress'  BY <1>1, <1>2 DEF IInv, Progress
<1>6. Distinct'  BY <1>3 DEF IInv, Distinct
<1>7. Held' = Held  BY <1>1, <1>2 DEF Held
<1>8. Separate'  BY <1>1, <1>3, <1>7 DEF IInv, Separate
<1> QED  BY <1>4, <1>5, <1>6, <1>8 DEF IInv

\* The descriptor is written outside the window.
LEMMA EntryWindow ==
  ASSUME IInv, PublishEntry
  PROVE  /\ Count' = Count /\ Offered' = Offered
         /\ \A i \in 0 .. Count - 1 : Descriptor(i)' = Descriptor(i)
         /\ op' \in Op /\ op'.step = 3 /\ op'.id = op.id /\ op'.copied
         /\ tail = shown /\ entries' = [entries EXCEPT ![Index(shown)] = op.id]
<1>1. UNCHANGED <<shown, head, filling, lent>> /\ op.step = 2
  BY Steps DEF PublishEntry, IInv
<1>2. op' \in Op /\ op'.step = 3 /\ op'.id = op.id /\ op'.copied
  <2>1. op \in Op /\ op.copied  BY <1>1 DEF IInv, TypeOK, Progress
  <2>2. op' = Stepped(op) /\ Len(Order) = 3  BY Steps DEF PublishEntry, IInv
  <2> QED  BY <1>1, <2>1, <2>2, SteppedOp
<1>3. tail = shown /\ entries' = [entries EXCEPT ![Index(shown)] = op.id]
  BY <1>1 DEF IInv, Progress, PublishEntry
<1>4. Count < Size /\ Count \in Nat  BY <1>1, Room, Window DEF IInv, Indices
<1>5. ASSUME NEW i \in 0 .. Count - 1  PROVE Descriptor(i)' = Descriptor(i)
  <2>1. /\ i \in Nat /\ head + i \in Int /\ head + Count \in Int
        /\ head + i < head + Count /\ head + Count < head + i + Size
    BY <1>4, Sizes DEF IInv, TypeOK, Indices
  <2>2. (head + i) % Size # (head + Count) % Size  BY <2>1, Sizes, ModDistinct
  <2>3. (head + i) % Size # Index(shown) /\ (head + i) % Size \in Ids
    BY <2>1, <2>2, Window DEF IInv
  <2> QED  BY <1>1, <1>3, <2>3 DEF Descriptor, IInv, TypeOK
<1>6. Count' = Count  BY <1>1 DEF Count
<1>7. Offered' = Offered
  <2>1. Offered = {Descriptor(i) : i \in 0 .. Count - 1}  BY DEF Offered, Descriptor
  <2>2. Offered' = {Descriptor(i)' : i \in 0 .. Count' - 1}  BY DEF Offered, Descriptor
  <2> QED  BY <1>5, <1>6, <2>1, <2>2
<1> QED  BY <1>2, <1>3, <1>5, <1>6, <1>7

LEMMA PublishEntryKeeps == ASSUME IInv, PublishEntry PROVE IInv'
<1>1. UNCHANGED <<shown, head, filling, lent>> /\ op.step = 2 /\ tail' = (tail + 1) % Wrap
  BY Steps DEF PublishEntry, IInv
<1>2. /\ Count' = Count /\ Offered' = Offered
      /\ \A i \in 0 .. Count - 1 : Descriptor(i)' = Descriptor(i)
      /\ op' \in Op /\ op'.step = 3 /\ op'.id = op.id /\ op'.copied
      /\ tail = shown /\ entries' = [entries EXCEPT ![Index(shown)] = op.id]
  BY EntryWindow
<1>3. Index(shown) \in Ids
  <2>1. shown \in Int  BY DEF IInv, TypeOK, Indices
  <2> QED  BY <2>1, Sizes DEF Index
<1>4. TypeOK'
  <2>1. op' \in Op  BY <1>2
  <2>2. tail' \in Indices  BY <1>1, Successor DEF IInv, TypeOK
  <2>3. entries' \in [Ids -> Ids]  BY <1>2, <1>3 DEF IInv, TypeOK, Op
  <2> QED  BY <1>1, <2>1, <2>2, <2>3 DEF IInv, TypeOK
<1>5. Progress'
  <2>1. entries'[Index(shown)] = op.id  BY <1>2, <1>3 DEF IInv, TypeOK
  <2> QED  BY <1>1, <1>2, <2>1 DEF Progress, Index
<1>6. Distinct'
  <2>1. Count' <= Size  BY <1>2 DEF IInv, Distinct
  <2>2. ASSUME NEW i \in 0 .. Count' - 1, NEW j \in 0 .. Count' - 1,
               Descriptor(i)' = Descriptor(j)'
        PROVE  i = j
    BY <1>2, <2>2 DEF IInv, Distinct
  <2> QED  BY <2>1, <2>2 DEF Distinct
<1>7. Held' = Held  BY <1>1, <1>2 DEF Held
<1>8. Separate'  BY <1>1, <1>2, <1>7 DEF IInv, Separate
<1> QED  BY <1>4, <1>5, <1>6, <1>8 DEF IInv

\* The store of the tail makes the new descriptor the last of the window.
LEMMA TailWindow ==
  ASSUME IInv, PublishTail
  PROVE  /\ Count' = Count + 1 /\ Offered' = Offered \cup {op.id}
         /\ \A i : Descriptor(i)' = Descriptor(i)
         /\ Descriptor(Count) = op.id /\ Count \in Nat /\ Count < Size
         /\ op.step = 3 /\ op' = Idle /\ shown' = tail
<1>1. UNCHANGED <<entries, tail, head, filling, lent>> /\ op.step = 3 /\ shown' = tail
  BY Steps DEF PublishTail, IInv, Stored
<1>2. op' = Idle  BY <1>1, Steps DEF PublishTail, Stepped, IInv
<1>3. tail = (shown + 1) % Wrap /\ entries[Index(shown)] = op.id
  BY <1>1 DEF IInv, Progress
<1>4. shown \in Indices /\ head \in Indices  BY DEF IInv, TypeOK
<1>5. /\ Count \in Nat /\ Count < Size
      /\ Count = IF shown >= head THEN shown - head ELSE shown - head + Wrap
  BY <1>1, Room, Window DEF IInv, Indices
<1>6. shown' = (IF shown + 1 = Wrap THEN 0 ELSE shown + 1) /\ shown' \in Indices
  BY <1>1, <1>3, <1>4, Successor
<1>7. Count' = IF shown' >= head THEN shown' - head ELSE shown' - head + Wrap
  BY <1>1, <1>4, <1>6, Distance DEF Count
<1>8. Count' = Count + 1  BY <1>4, <1>5, <1>6, <1>7, Sizes DEF Indices
<1>9. \A i : Descriptor(i)' = Descriptor(i)  BY <1>1 DEF Descriptor
<1>10. Descriptor(Count) = op.id  BY <1>3, Window DEF IInv, Descriptor
<1>11. Offered' = Offered \cup {op.id}
  <2>1. Offered = {Descriptor(i) : i \in 0 .. Count - 1}  BY DEF Offered, Descriptor
  <2>2. Offered' = {Descriptor(i) : i \in 0 .. Count}
    <3>1. Offered' = {entries[(head + i) % Size] : i \in 0 .. Count' - 1}
      BY <1>1 DEF Offered
    <3>2. Count' - 1 = Count  BY <1>5, <1>8
    <3> QED  BY <3>1, <3>2 DEF Descriptor
  <2>3. 0 .. Count = (0 .. Count - 1) \cup {Count}  BY <1>5
  <2> QED  BY <1>10, <2>1, <2>2, <2>3
<1> QED  BY <1>1, <1>2, <1>5, <1>8, <1>9, <1>10, <1>11

LEMMA PublishTailKeeps == ASSUME IInv, PublishTail PROVE IInv'
<1>1. UNCHANGED <<entries, tail, head, filling, lent>>  BY DEF PublishTail
<1>2. /\ Count' = Count + 1 /\ Offered' = Offered \cup {op.id}
      /\ \A i : Descriptor(i)' = Descriptor(i)
      /\ Descriptor(Count) = op.id /\ Count \in Nat /\ Count < Size
      /\ op.step = 3 /\ op' = Idle /\ shown' = tail
  BY TailWindow
<1>3. TypeOK'
  <2>1. Idle \in Op  BY Sizes DEF Idle, Ids, Op
  <2> QED  BY <1>1, <1>2, <2>1 DEF IInv, TypeOK
<1>4. Progress'  BY <1>1, <1>2 DEF Progress, Idle
<1>5. op.id \in Held /\ Held' = {}  BY <1>2 DEF Held, Idle, IInv, TypeOK, Op
<1>6. \A i \in 0 .. Count - 1 : Descriptor(i) # op.id
  BY <1>5, Window DEF IInv, Separate
<1>7. Distinct'
  <2>1. Count' <= Size  BY <1>2, Sizes
  <2>2. \A i \in 0 .. Count' - 1 : i \in 0 .. Count - 1 \/ i = Count  BY <1>2
  <2>3. ASSUME NEW i \in 0 .. Count' - 1, NEW j \in 0 .. Count' - 1,
               Descriptor(i)' = Descriptor(j)'
        PROVE  i = j
    BY <1>2, <1>6, <2>2, <2>3 DEF IInv, Distinct
  <2> QED  BY <2>1, <2>3 DEF Distinct
<1>8. Separate'  BY <1>1, <1>2, <1>5 DEF IInv, Separate
<1> QED  BY <1>3, <1>4, <1>7, <1>8 DEF IInv

-----------------------------------------------------------------------------
(* The theorems.                                                             *)

LEMMA InitSound == ASSUME Init PROVE IInv /\ Offered = Ids
<1>1. /\ entries = [i \in Ids |-> i] /\ tail = Size /\ shown = Size /\ head = 0
      /\ filling = {} /\ lent = <<>> /\ op = Idle
  BY DEF Init
<1>2. TypeOK
  <2>1. Idle \in Op  BY Sizes DEF Idle, Ids, Op
  <2>2. Size \in Indices /\ 0 \in Indices  BY Sizes DEF Indices
  <2> QED  BY <1>1, <2>1, <2>2 DEF TypeOK
<1>3. Progress  BY <1>1 DEF Progress, Idle
<1>4. Count = Size  BY <1>1, <1>2, Window, Sizes
<1>5. ASSUME NEW i \in Ids  PROVE Descriptor(i) = i
  <2>1. head + i = i /\ i \in 0 .. Size - 1 /\ i = Size * 0 + i  BY <1>1, Sizes DEF Ids
  <2>2. (Size * 0 + i) % Size = i  BY <2>1, Sizes, Remainder
  <2> QED  BY <1>1, <2>1, <2>2 DEF Descriptor
<1>6. Distinct  BY <1>4, <1>5, Sizes DEF Distinct, Ids
<1>7. Offered = Ids
  <2>1. Offered = {Descriptor(i) : i \in Ids}  BY <1>2, <1>4, Window DEF Ids
  <2> QED  BY <1>5, <2>1
<1>8. Separate
  <2>1. DOMAIN lent = {}  BY <1>1
  <2>2. IsInjective(lent) /\ Range(lent) = {}  BY <2>1 DEF IsInjective, Range
  <2>3. Held = {}  BY <1>1 DEF Held, Idle
  <2> QED  BY <1>1, <2>2, <2>3 DEF Separate
<1> QED  BY <1>2, <1>3, <1>6, <1>7, <1>8 DEF IInv

LEMMA NextSound == IInv /\ [Next]_vars => IInv'
<1> SUFFICES ASSUME IInv, [Next]_vars PROVE IInv'  OBVIOUS
<1>1. CASE Next
  BY <1>1, TakeKeeps, PostKeeps, CompleteKeeps, CopyKeeps, PublishEntryKeeps,
     PublishTailKeeps DEF Next, Worker
<1>2. CASE UNCHANGED vars
  <2>1. UNCHANGED <<entries, tail, shown, head, filling, lent, op>>  BY <1>2 DEF vars
  <2>2. Count' = Count /\ Offered' = Offered /\ \A k : Descriptor(k)' = Descriptor(k)
    BY <2>1, WindowKept
  <2>3. TypeOK' /\ Progress'  BY <2>1 DEF IInv, TypeOK, Progress, Index
  <2>4. Distinct'  BY <2>2 DEF IInv, Distinct
  <2>5. Held' = Held  BY <2>1 DEF Held
  <2>6. Separate'  BY <2>1, <2>2, <2>5 DEF IInv, Separate
  <2> QED  BY <2>3, <2>4, <2>6 DEF IInv
<1> QED  BY <1>1, <1>2

\* Between any two stores of the worker, and however the kernel runs beside it, the window
\* holds different buffers and every buffer is in one place.
THEOREM RingSound == Spec => []IInv
<1>1. Init => IInv  BY InitSound
<1> QED  BY <1>1, NextSound, PTL DEF Spec

\* No descriptor the kernel may take is stale or a duplicate, also when the u16 indices
\* wrap: for every entry_count that divides 2^16, not only the sizes TLC tries.
THEOREM Fresh == Spec => []DescriptorsAreFresh
<1>1. IInv => DescriptorsAreFresh
  <2> SUFFICES ASSUME IInv PROVE DescriptorsAreFresh  OBVIOUS
  <2>1. Cardinality(Offered) = Count  BY OfferedCount DEF IInv
  <2> QED  BY <2>1 DEF IInv, Separate, DescriptorsAreFresh
<1> QED  BY <1>1, RingSound, PTL

Owner == [i \in Ids |-> IF i \in Offered \cup filling THEN "kernel"
                        ELSE IF i \in Lent THEN "lent" ELSE "copied"]

LEMMA OwnerKept ==
  ASSUME Offered' \cup filling' = Offered \cup filling, Lent' = Lent
  PROVE  Owner' = Owner
BY DEF Owner

\* One buffer changes hands.
LEMMA OwnerMoves ==
  ASSUME NEW i \in Ids, NEW to,
         \A j \in Ids \ {i} : /\ j \in Offered' \cup filling' <=> j \in Offered \cup filling
                              /\ j \in Lent' <=> j \in Lent,
         to = IF i \in Offered' \cup filling' THEN "kernel"
              ELSE IF i \in Lent' THEN "lent" ELSE "copied"
  PROVE  Owner' = [Owner EXCEPT ![i] = to]
BY Zenon DEF Owner

LEMMA StepMoves ==
  ASSUME IInv, [Next]_vars
  PROVE  \/ \E i \in Ids : \/ Owner[i] = "kernel" /\ Owner' = [Owner EXCEPT ![i] = "lent"]
                           \/ Owner[i] = "lent" /\ Owner' = [Owner EXCEPT ![i] = "copied"]
                           \/ Owner[i] = "copied" /\ Owner' = [Owner EXCEPT ![i] = "kernel"]
         \/ Owner' = Owner
<1> DEFINE Moved(i, from, to) == Owner[i] = from /\ Owner' = [Owner EXCEPT ![i] = to]
<1>1. CASE Take
  <2>1. Offered' \cup filling' = Offered \cup filling  BY <1>1, TakeWindow DEF Take
  <2>2. Lent' = Lent  BY <1>1 DEF Take, Lent
  <2> QED  BY <2>1, <2>2, OwnerKept
<1>2. CASE Post
  <2>1. UNCHANGED <<entries, shown, head, op>>  BY <1>2 DEF Post
  <2>2. PICK i \in filling : filling' = filling \ {i} /\ lent' = Append(lent, i)
    BY <1>2 DEF Post
  <2>3. i \in Ids /\ i \notin Offered /\ Range(lent') = Range(lent) \cup {i}
    BY <2>2, QueueAppend DEF IInv, TypeOK, Separate
  <2>4. Offered' = Offered  BY <2>1, WindowKept
  <2>5. Lent' = Lent \cup {i}  BY <2>1, <2>3 DEF Lent
  <2>6. Owner' = [Owner EXCEPT ![i] = "lent"]  BY <2>2, <2>3, <2>4, <2>5, OwnerMoves
  <2>7. Owner[i] = "kernel"  BY <2>2, <2>3 DEF Owner
  <2> QED  BY Zenon, <2>3, <2>6, <2>7
<1>3. CASE Complete
  <2>1. UNCHANGED <<entries, shown, head, filling>> /\ op.step = 0 /\ lent # <<>>
    BY <1>3 DEF Complete
  <2>2. op'.step = 1 /\ op'.id = Head(lent) /\ ~op'.copied /\ lent' = Tail(lent)
    BY <1>3 DEF Complete, Idle
  <2>3. Head(lent) \in Range(lent) /\ Head(lent) \in Ids /\ Range(lent') = Range(lent) \ {Head(lent)}
    BY <2>1, <2>2, QueueTail DEF IInv, TypeOK, Separate
  <2>4. Lent' = Lent  BY <2>1, <2>2, <2>3 DEF Lent
  <2>5. Offered' = Offered  BY <2>1, WindowKept
  <2> QED  BY <2>1, <2>4, <2>5, OwnerKept
<1>4. CASE Copy
  <2>1. UNCHANGED <<entries, shown, head, filling, lent>> /\ op.step = 1 /\ ~op.copied
    BY <1>4, Steps DEF Copy, IInv, Progress
  <2>2. op'.copied
    <3> DEFINE o == [op EXCEPT !.copied = TRUE]
    <3>1. o \in Op /\ o.step = 1 /\ o.copied  BY Zenon, <2>1 DEF Op, IInv, TypeOK
    <3>2. op' = Stepped(o) /\ Len(Order) = 3  BY <1>4, Steps DEF Copy, IInv
    <3> HIDE DEF o
    <3> QED  BY <3>1, <3>2, SteppedOp
  <2>3. op.id \in Held /\ op.id \in Ids  BY <2>1 DEF Held, IInv, TypeOK, Op
  <2>4. op.id \notin Offered \cup filling \cup Range(lent)  BY <2>3 DEF IInv, Separate
  <2>5. Lent = Range(lent) \cup {op.id} /\ Lent' = Range(lent)  BY <2>1, <2>2, <2>3 DEF Lent
  <2>6. Offered' = Offered  BY <2>1, WindowKept
  <2>7. Owner' = [Owner EXCEPT ![op.id] = "copied"]
    BY <2>1, <2>3, <2>4, <2>5, <2>6, OwnerMoves
  <2>8. Owner[op.id] = "lent"  BY <2>3, <2>4, <2>5 DEF Owner
  <2> QED  BY Zenon, <2>3, <2>7, <2>8
<1>5. CASE PublishEntry
  <2>1. UNCHANGED <<filling, lent>> /\ op.step = 2 /\ op.copied
    BY <1>5, Steps DEF PublishEntry, IInv, Progress
  <2>2. Offered' = Offered /\ op'.copied  BY <1>5, EntryWindow
  <2>3. Lent' = Lent  BY <2>1, <2>2 DEF Lent
  <2> QED  BY <2>1, <2>2, <2>3, OwnerKept
<1>6. CASE PublishTail
  <2>1. UNCHANGED <<filling, lent>>  BY <1>6 DEF PublishTail
  <2>2. Offered' = Offered \cup {op.id} /\ op.step = 3 /\ op' = Idle  BY <1>6, TailWindow
  <2>3. op.copied /\ op.id \in Held /\ op.id \in Ids  BY <2>2 DEF Held, IInv, TypeOK, Progress, Op
  <2>4. op.id \notin Offered \cup filling \cup Range(lent)  BY <2>3 DEF IInv, Separate
  <2>5. Lent = Range(lent) /\ Lent' = Range(lent)  BY <2>1, <2>2, <2>3 DEF Lent, Idle
  <2>6. Owner' = [Owner EXCEPT ![op.id] = "kernel"]
    BY <2>1, <2>2, <2>3, <2>4, <2>5, OwnerMoves
  <2>7. Owner[op.id] = "copied"  BY <2>3, <2>4, <2>5 DEF Owner
  <2> QED  BY Zenon, <2>3, <2>6, <2>7
<1>7. CASE UNCHANGED vars
  <2>1. UNCHANGED <<entries, shown, head, filling, lent, op>>  BY <1>7 DEF vars
  <2>2. Offered' = Offered /\ Lent' = Lent  BY <2>1, WindowKept DEF Lent
  <2> QED  BY <2>1, <2>2, OwnerKept
<1> QED  BY <1>1, <1>2, <1>3, <1>4, <1>5, <1>6, <1>7 DEF Next, Worker

\* The ring implements BufferPool: the kernel gets a buffer back only after
\* copy_and_release has copied its bytes, and never fills one that is lent.
THEOREM RingImplementsPool == Spec => RingIsAPool
<1>1. Init => Pool!Init
  <2> SUFFICES ASSUME Init PROVE Owner = [i \in Ids |-> "kernel"]  BY DEF Pool!Init, Owner
  <2> QED  BY InitSound DEF Owner
<1>2. IInv /\ [Next]_vars => [Pool!Next]_Owner
  <2> SUFFICES ASSUME IInv, [Next]_vars PROVE Pool!Next \/ Owner' = Owner  OBVIOUS
  <2>1. CASE Owner' = Owner  BY <2>1
  <2>2. CASE \E i \in Ids : \/ Owner[i] = "kernel" /\ Owner' = [Owner EXCEPT ![i] = "lent"]
                            \/ Owner[i] = "lent" /\ Owner' = [Owner EXCEPT ![i] = "copied"]
                            \/ Owner[i] = "copied" /\ Owner' = [Owner EXCEPT ![i] = "kernel"]
    BY Zenon, <2>2 DEF Pool!Next, Pool!Lend, Pool!Copy, Pool!Return, Pool!Moves, Owner
  <2> QED  BY <2>1, <2>2, StepMoves
<1> QED  BY <1>1, <1>2, RingSound, PTL DEF Spec, RingIsAPool, Pool!Spec, Owner

=============================================================================
