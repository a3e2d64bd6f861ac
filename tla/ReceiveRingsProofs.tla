--------------------------- MODULE ReceiveRingsProofs ---------------------------
(* The receive rings, for every size of them: no access is outside a ring, and   *)
(* each is a queue that forgets its oldest, wherever the interrupts fall.        *)
EXTENDS ReceiveRings, SequenceTheorems, TLAPS

--------------------------------------------------------------------------------
(* Bytes stored in a ring, from any place and of any number. *)

LEMMA ModRange == ASSUME NEW n \in Nat \ {0}, NEW a \in Int PROVE a % n \in 0 .. n - 1
  OBVIOUS

LEMMA ModSmall == ASSUME NEW n \in Nat \ {0}, NEW a \in 0 .. n - 1 PROVE a % n = a
  OBVIOUS

LEMMA Index ==
    ASSUME NEW size \in Nat \ {0}, NEW from \in 0 .. size - 1, NEW k \in 0 .. size
    PROVE  (from + k) % size = IF from + k < size THEN from + k ELSE (from + k) - size
  OBVIOUS

\* A ring, an index in it, and how many bytes there are from it on.
Ring(cells, size, from, n) ==
    /\ size \in Nat \ {0} /\ cells \in [0 .. size - 1 -> Bytes]
    /\ from \in 0 .. size - 1 /\ n \in 0 .. size

LEMMA StoredSeq ==
    ASSUME NEW cells, NEW size, NEW from, NEW n, Ring(cells, size, from, n)
    PROVE  /\ Stored(cells, size, from, n) \in Seq(Bytes)
           /\ Len(Stored(cells, size, from, n)) = n
           /\ \A i \in 1 .. n : Stored(cells, size, from, n)[i] = cells[(from + (i - 1)) % size]
<1>1. \A i \in 1 .. n : (from + (i - 1)) % size \in 0 .. size - 1
  BY ModRange DEF Ring
<1>2. \A i \in 1 .. n : cells[(from + (i - 1)) % size] \in Bytes
  BY <1>1 DEF Ring
<1>3. Stored(cells, size, from, n) \in [1 .. n -> Bytes]
  BY <1>2 DEF Stored
<1>4. n \in Nat
  BY DEF Ring
<1>5. Stored(cells, size, from, n) \in Seq(Bytes)
  BY <1>3, <1>4, SeqDef
<1> QED BY <1>3, <1>4, <1>5, LenProperties DEF Stored

\* A byte stored behind the others is appended.
LEMMA StoredAppend ==
    ASSUME NEW cells, NEW size, NEW from, NEW n, Ring(cells, size, from, n),
           NEW m, m = n + 1, m <= size,
           NEW b \in Bytes, NEW after, Ring(after, size, from, m),
           \A k \in 0 .. size - 1 : after[k] = IF k = (from + n) % size THEN b ELSE cells[k]
    PROVE  Stored(after, size, from, m) = Append(Stored(cells, size, from, n), b)
<1> DEFINE old == Stored(cells, size, from, n)
           new == Stored(after, size, from, m)
<1>1. size \in Nat \ {0} /\ from \in 0 .. size - 1 /\ n \in 0 .. size - 1
  BY DEF Ring
<1>2. /\ new \in Seq(Bytes) /\ Len(new) = m
      /\ \A i \in 1 .. m : new[i] = after[(from + (i - 1)) % size]
  BY StoredSeq
<1>3. /\ old \in Seq(Bytes) /\ Len(old) = n
      /\ \A i \in 1 .. n : old[i] = cells[(from + (i - 1)) % size]
  BY StoredSeq
<1> HIDE DEF new, old
<1>4. ASSUME NEW i \in 1 .. n PROVE new[i] = old[i]
  <2>1. i - 1 \in 0 .. size /\ i \in 1 .. m
    BY <1>1
  <2>2. (from + (i - 1)) % size
          = IF from + (i - 1) < size THEN from + (i - 1) ELSE (from + (i - 1)) - size
    BY <1>1, <2>1, Index
  <2>3. (from + n) % size = IF from + n < size THEN from + n ELSE (from + n) - size
    BY <1>1, Index
  <2>4. (from + (i - 1)) % size # (from + n) % size
    BY <1>1, <2>2, <2>3
  <2>5. (from + (i - 1)) % size \in 0 .. size - 1
    BY <1>1, <2>1, <2>2
  <2> QED BY <1>2, <1>3, <2>1, <2>4, <2>5
<1>5. new[m] = b
  <2>1. m \in 1 .. m /\ from + (m - 1) = from + n
    BY <1>1
  <2>2. (from + n) % size \in 0 .. size - 1
    BY <1>1, ModRange
  <2> QED BY <1>2, <2>1, <2>2
<1>6. /\ Append(old, b) \in Seq(Bytes) /\ Len(Append(old, b)) = m
      /\ \A i \in 1 .. n : Append(old, b)[i] = old[i]
      /\ Append(old, b)[m] = b
  BY <1>1, <1>3, AppendProperties
<1>7. \A i \in 1 .. m : new[i] = Append(old, b)[i]
  BY <1>1, <1>4, <1>5, <1>6
<1>8. new = Append(old, b)
  BY <1>2, <1>6, <1>7, SeqEqual
<1> QED BY <1>8 DEF new, old

\* The oldest byte is the one at the index; the others are stored from the next on.
LEMMA StoredTail ==
    ASSUME NEW cells, NEW size, NEW from, NEW n, Ring(cells, size, from, n), n > 0
    PROVE  /\ Stored(cells, size, from, n) # <<>>
           /\ Head(Stored(cells, size, from, n)) = cells[from % size]
           /\ Tail(Stored(cells, size, from, n)) = Stored(cells, size, (from + 1) % size, n - 1)
<1> DEFINE next == (from + 1) % size
           old  == Stored(cells, size, from, n)
           new  == Stored(cells, size, next, n - 1)
<1>1. next \in 0 .. size - 1
  BY ModRange DEF Ring
<1>2. Ring(cells, size, next, n - 1)
  BY <1>1 DEF Ring
<1>3. /\ old \in Seq(Bytes) /\ Len(old) = n
      /\ \A i \in 1 .. n : old[i] = cells[(from + (i - 1)) % size]
  BY StoredSeq
<1>4. /\ new \in Seq(Bytes) /\ Len(new) = n - 1
      /\ \A i \in 1 .. n - 1 : new[i] = cells[(next + (i - 1)) % size]
  BY <1>2, StoredSeq
<1>5. old # <<>>
  BY <1>3, EmptySeq DEF Ring
<1>6. Head(old) = cells[from % size]
  <2>1. Head(old) = old[1]
    BY <1>3, <1>5
  <2> QED BY <1>3, <2>1 DEF Ring
<1>7. /\ Tail(old) \in Seq(Bytes) /\ Len(Tail(old)) = n - 1
      /\ \A i \in 1 .. n - 1 : Tail(old)[i] = old[i + 1]
  BY <1>3, <1>5, HeadTailProperties
<1>8. ASSUME NEW i \in 1 .. n - 1 PROVE Tail(old)[i] = new[i]
  <2>1. old[i + 1] = cells[(from + i) % size]
    BY <1>3 DEF Ring
  <2>2. (from + i) % size = (next + (i - 1)) % size
    <3>1. /\ size \in Nat \ {0} /\ from \in 0 .. size - 1
          /\ i \in 0 .. size /\ i - 1 \in 0 .. size /\ 1 \in 0 .. size
      BY DEF Ring
    <3>2. (from + i) % size = IF from + i < size THEN from + i ELSE (from + i) - size
      BY <3>1, Index
    <3>3. next = IF from + 1 < size THEN from + 1 ELSE (from + 1) - size
      BY <3>1, Index
    <3>4. (next + (i - 1)) % size
            = IF next + (i - 1) < size THEN next + (i - 1) ELSE (next + (i - 1)) - size
      BY <1>1, <3>1, Index
    <3> HIDE DEF next
    <3>5. i \in 1 .. size - 1
      BY DEF Ring
    <3> QED BY <3>1, <3>2, <3>3, <3>4, <3>5
  <2> QED BY <1>4, <1>7, <2>1, <2>2
<1> HIDE DEF new, old
<1>9. Tail(old) = new
  BY <1>4, <1>7, <1>8, SeqEqual
<1> QED BY <1>5, <1>6, <1>9 DEF new, old

--------------------------------------------------------------------------------
(* No access is outside its ring. *)

LEMMA Successor ==
    ASSUME NEW size \in Nat \ {0}, NEW i \in 0 .. size - 1
    PROVE  (i + 1) % size = IF i = size - 1 THEN 0 ELSE i + 1
<1>1. 1 \in 0 .. size
  OBVIOUS
<1>2. (i + 1) % size = IF i + 1 < size THEN i + 1 ELSE (i + 1) - size
  BY <1>1, Index
<1> QED BY <1>2

\* Places of the main loop where _tail may be one past the reader's ring.
Unwrapped == {"read", "reload", "wrap"}

TypesOK ==
    /\ m_buff \in [Slots -> Bytes] /\ pool \in [ReaderSlots -> Bytes]
    /\ full \in BOOLEAN /\ between \subseteq {"phone", "reader"}
    /\ at \in {"idle", "size", "front"} \cup InPop
    /\ receivedData \in Bytes /\ ch \in Bytes

\* What the phone's ring adds: a byte that the main loop is about to read is there.
PhoneInv ==
    /\ m_first \in Slots /\ m_last \in Slots
    /\ at = "size"  => reg = m_last \/ m_first # m_last
    /\ at = "front" => m_first # m_last
    /\ at = "pop_front" => /\ reg \in Slots
                           /\ \/ m_first = reg
                              \/ "phone" \in between /\ m_first = Next1(reg)
                           /\ "phone" \in between \/ m_last # reg

\* And the reader's: _tail is past the ring only until it is wrapped.
ReaderInv ==
    /\ head \in ReaderSlots
    /\ tail \in 0 .. BufferSize /\ (tail = BufferSize => at \in Unwrapped)
    /\ at = "test" => reg = head \/ head # tail \/ full
    /\ at \in {"tail", "step"} => head # tail \/ full
    /\ at \in {"step", "read"} => reg \in ReaderSlots
    /\ at = "wrap" => reg \in 0 .. BufferSize

RingsInv == TypesOK /\ PhoneInv /\ ReaderInv

LEMMA Sizes == N \in Nat \ {0} /\ N >= 2 /\ BufferSize \in Nat \ {0}
  BY RingsAssumption

LEMMA NextOne ==
    /\ \A i \in Slots : Next1(i) = IF i = N - 1 THEN 0 ELSE i + 1
    /\ \A i \in ReaderSlots : NextReader1(i) = IF i = BufferSize - 1 THEN 0 ELSE i + 1
  BY Sizes, Successor DEF Slots, ReaderSlots, Next1, NextReader1

LEMMA NextInRange ==
    /\ \A i \in Slots : Next1(i) \in Slots
    /\ \A i \in 0 .. BufferSize : NextReader1(i) \in ReaderSlots
<1>1. \A i \in 0 .. BufferSize : i + 1 \in Int
  BY Sizes
<1>2. \A i \in 0 .. BufferSize : (i + 1) % BufferSize \in 0 .. BufferSize - 1
  BY <1>1, Sizes, ModRange
<1> QED BY <1>2, Sizes, NextOne DEF Slots, ReaderSlots, NextReader1

LEMMA InitRings == Init => RingsInv
<1> SUFFICES ASSUME Init PROVE RingsInv
  OBVIOUS
<1>1. TypesOK
  BY DEF Init, TypesOK
<1>2. PhoneInv
  BY Sizes DEF Init, PhoneInv, Slots
<1>3. ReaderInv
  BY Sizes DEF Init, ReaderInv, ReaderSlots
<1> QED BY <1>1, <1>2, <1>3 DEF RingsInv

LEMMA PhoneInterrupt == RingsInv /\ BLE_SerialHandler => RingsInv'
<1> SUFFICES ASSUME RingsInv, BLE_SerialHandler PROVE RingsInv'
  OBVIOUS
<1>1. PICK b \in Bytes : push_back(b)
  BY DEF BLE_SerialHandler
<1>2. UNCHANGED <<pool, head, tail, full, at, reg, receivedData, ch>>
  BY DEF BLE_SerialHandler, reader, Interrupts
<1>3. /\ "phone" \notin between
      /\ between' = IF at \in InPop THEN between \cup {"phone"} ELSE {}
  BY DEF BLE_SerialHandler, Interrupts
<1>4. m_buff' \in [Slots -> Bytes] /\ m_last' = Next1(m_last)
  BY <1>1 DEF push_back, RingsInv, TypesOK
<1>5. m_first' = IF m_first = m_last' THEN Next1(m_first) ELSE m_first
  BY <1>1 DEF push_back
<1>6. m_first' \in Slots /\ m_last' \in Slots /\ m_first' # m_last'
  BY <1>4, <1>5, NextOne, NextInRange, Sizes DEF RingsInv, PhoneInv, Slots
<1>7. PhoneInv'
  BY <1>2, <1>3, <1>5, <1>6 DEF RingsInv, PhoneInv, InPop
<1>8. TypesOK'
  BY <1>2, <1>3, <1>4 DEF RingsInv, TypesOK
<1>9. ReaderInv'
  BY <1>2 DEF RingsInv, ReaderInv, Unwrapped
<1> QED BY <1>7, <1>8, <1>9 DEF RingsInv

LEMMA ReaderInterrupt == RingsInv /\ HiReader_SerialHandler => RingsInv'
<1> SUFFICES ASSUME RingsInv, HiReader_SerialHandler PROVE RingsInv'
  OBVIOUS
<1>1. PICK b \in Bytes : push(b)
  BY DEF HiReader_SerialHandler
<1>2. UNCHANGED <<m_buff, m_first, m_last, at, reg, receivedData, ch>>
  BY DEF HiReader_SerialHandler, phone, Interrupts
<1>3. /\ "reader" \notin between
      /\ between' = IF at \in InPop THEN between \cup {"reader"} ELSE {}
  BY DEF HiReader_SerialHandler, Interrupts
<1>4. /\ pool' \in [ReaderSlots -> Bytes] /\ head' = NextReader1(head)
      /\ tail' = IF full THEN NextReader1(tail) ELSE tail
      /\ full' = (full \/ head' = tail')
  BY <1>1 DEF push, RingsInv, TypesOK
<1>5. head' \in ReaderSlots
  BY <1>4, NextInRange, Sizes DEF RingsInv, ReaderInv, ReaderSlots
<1>6. tail' \in 0 .. BufferSize /\ (tail' = BufferSize => at \in Unwrapped)
  <2>1. CASE full
    <3>1. NextReader1(tail) \in ReaderSlots
      BY NextInRange DEF RingsInv, ReaderInv
    <3> QED BY <1>4, <2>1, <3>1, Sizes DEF ReaderSlots
  <2>2. CASE ~full
    BY <1>4, <2>2 DEF RingsInv, ReaderInv
  <2> QED BY <2>1, <2>2
<1>7. head' # tail' \/ full'
  BY <1>4 DEF RingsInv, TypesOK
<1>8. ReaderInv'
  BY <1>2, <1>5, <1>6, <1>7 DEF RingsInv, ReaderInv
<1>9. TypesOK'
  BY <1>2, <1>3, <1>4 DEF RingsInv, TypesOK
<1>10. PhoneInv'
  BY <1>2, <1>3 DEF RingsInv, PhoneInv, InPop
<1> QED BY <1>8, <1>9, <1>10 DEF RingsInv

LEMMA NextRings == RingsInv /\ [Next]_vars => RingsInv'
<1> SUFFICES ASSUME RingsInv, [Next]_vars PROVE RingsInv'
  OBVIOUS
<1> USE DEF RingsInv, TypesOK, PhoneInv, ReaderInv, Goes, InPop, Unwrapped
<1>1. CASE LoadLast
  BY <1>1 DEF LoadLast, reader, phone
<1>2. CASE Compare
  BY <1>2 DEF Compare, reader, phone
<1>3. CASE front
  BY <1>3 DEF front, reader, phone, Slots
<1>4. CASE pop_front
  BY <1>4, NextInRange DEF pop_front, StoreFirst, reader
<1>5. CASE LoadHead
  BY <1>5 DEF LoadHead, reader, phone
<1>6. CASE Test
  BY <1>6 DEF Test, reader, phone
<1>7. CASE LoadTail
  BY <1>7, Sizes DEF LoadTail, reader, phone, ReaderSlots
<1>8. CASE StepTail
  BY <1>8, Sizes DEF StepTail, phone, ReaderSlots
<1>9. CASE ReadByte
  BY <1>9 DEF ReadByte, reader, phone
<1>10. CASE ReloadTail
  BY <1>10 DEF ReloadTail, reader, phone
<1>11. CASE Wrap
  <2>1. reg \in Int
    BY <1>11, Sizes DEF Wrap
  <2>2. reg % BufferSize \in 0 .. BufferSize - 1
    BY <2>1, Sizes, ModRange
  <2> QED BY <1>11, <2>2, Sizes DEF Wrap, WrapTail, phone, ReaderSlots
<1>12. CASE ClearFull
  BY <1>12 DEF ClearFull, phone
<1>13. CASE UNCHANGED vars
  BY <1>13 DEF vars, phone, reader
<1> QED BY <1>1, <1>2, <1>3, <1>4, <1>5, <1>6, <1>7, <1>8, <1>9, <1>10, <1>11, <1>12, <1>13,
           PhoneInterrupt, ReaderInterrupt DEF Next, GetMessage, pop

\* No access is outside its ring, and no byte is read that is not there, also when the
\* reader's bytes come faster than they are read (Flood).
THEOREM RingsStaySound == Spec => []RingsSound
<1>1. RingsInv => RingsSound
  BY DEF RingsInv, PhoneInv, ReaderInv, RingsSound
<1> QED BY <1>1, InitRings, NextRings, PTL DEF Spec

--------------------------------------------------------------------------------
(* The phone's ring is a queue of N - 1 bytes that forgets its oldest. *)

LEMMA FrontInRange == RingsInv => Front \in Slots
  BY NextInRange DEF RingsInv, PhoneInv, Front

LEMMA PhonePushes ==
    ASSUME RingsInv, BLE_SerialHandler
    PROVE  PhonePromise!Push
<1>1. PICK b \in Bytes : push_back(b)
  BY DEF BLE_SerialHandler
<1>2. UNCHANGED <<at, reg, receivedData>> /\ "phone" \notin between
  BY DEF BLE_SerialHandler, Interrupts
<1>3. RingsInv'
  BY PhoneInterrupt
<1>6. /\ m_first \in 0 .. N - 1 /\ m_last \in 0 .. N - 1 /\ m_last' \in 0 .. N - 1
      /\ m_last' = Next1(m_last)
  BY <1>1, <1>3 DEF push_back, RingsInv, PhoneInv, Slots
<1>7. m_last' = IF m_last = N - 1 THEN 0 ELSE m_last + 1
  BY <1>6, NextOne DEF Slots
<1>4. Front \in 0 .. N - 1
  BY FrontInRange DEF Slots
<1>5. Front' \in 0 .. N - 1
  <2>1. Front' = IF at' = "pop_front" THEN Next1(reg') ELSE m_first'
    BY DEF Front
  <2> QED BY <1>3, <2>1, NextInRange DEF RingsInv, PhoneInv, Slots
<1>8. /\ Size = IF m_last >= Front THEN m_last - Front ELSE (N + m_last) - Front
      /\ Size' = IF m_last' >= Front' THEN m_last' - Front' ELSE (N + m_last') - Front'
  BY <1>4, <1>5, <1>6, Sizes DEF Size
<1>15. Size \in 0 .. N - 1 /\ (Front + Size) % N = m_last
  <2>1. Size \in 0 .. N - 1 /\ Size \in 0 .. N
    BY <1>4, <1>6, <1>8, Sizes
  <2>2. (Front + Size) % N = IF Front + Size < N THEN Front + Size ELSE (Front + Size) - N
    BY <1>4, <2>1, Sizes, Index
  <2> QED BY <1>4, <1>6, <1>8, <2>1, <2>2, Sizes
<1>16. Size' \in 0 .. N - 1
  BY <1>5, <1>6, <1>8, Sizes
<1>17. Ring(m_buff, N, Front, Size)
  BY <1>4, <1>15, Sizes DEF Ring, Slots, RingsInv, TypesOK
<1>18. m_buff' \in [0 .. N - 1 -> Bytes]
  BY <1>3 DEF RingsInv, TypesOK, Slots
<1>9. \A k \in 0 .. N - 1 : m_buff'[k] = IF k = (Front + Size) % N THEN b ELSE m_buff[k]
  BY <1>1, <1>15 DEF push_back, RingsInv, TypesOK, Slots
<1> DEFINE q == Append(Contents, b)
           one == Size + 1
<1>10. one \in 1 .. N /\ Ring(m_buff', N, Front, one)
  BY <1>4, <1>15, <1>18, Sizes DEF Ring
<1>11. Stored(m_buff', N, Front, one) = q
  <2>1. PICK c : c = m_buff'
    OBVIOUS
  <2>2. PICK m : m = one
    OBVIOUS
  <2>3. Ring(c, N, Front, m) /\ m = Size + 1 /\ m <= N
    BY <1>10, <2>1, <2>2
  <2>4. \A k \in 0 .. N - 1 : c[k] = IF k = (Front + Size) % N THEN b ELSE m_buff[k]
    BY <1>9, <2>1
  <2>5. Stored(c, N, Front, m) = Append(Stored(m_buff, N, Front, Size), b)
    BY <1>17, <2>3, <2>4, StoredAppend
  <2> QED BY <2>1, <2>2, <2>5 DEF Contents
<1>12. Contents \in Seq(Bytes) /\ Len(Contents) = Size
  BY <1>17, StoredSeq DEF Contents
<1>13. Len(q) = one
  BY <1>12
<1> HIDE DEF q, one
<1>14. Contents' = PhonePromise!Fits(q)
  <2>1. CASE Front' = Front
    <3>1. Size' = one
      <4>1. CASE at = "pop_front"
        <5>1. m_first = reg /\ m_last # reg /\ Front = Next1(reg)
          BY <1>2, <4>1 DEF RingsInv, PhoneInv, Front
        <5>2. Front = IF reg = N - 1 THEN 0 ELSE reg + 1
          BY <1>6, <5>1, NextOne DEF Slots
        <5> QED BY <1>6, <1>7, <1>8, <2>1, <5>1, <5>2, Sizes DEF one
      <4>2. CASE at # "pop_front"
        <5>1. Front = m_first /\ Front' = m_first'
          BY <1>2, <4>2 DEF Front
        <5>2. m_first' # m_last'
          BY <1>1, <1>3, <1>6, NextOne, Sizes DEF push_back, Slots
        <5>3. Front # m_last'
          BY <2>1, <5>1, <5>2
        <5> QED BY <1>4, <1>6, <1>7, <1>8, <2>1, <5>3, Sizes DEF one
      <4> QED BY <4>1, <4>2
    <3>2. one <= N - 1 /\ one \in Int
      BY <1>16, <3>1
    <3>3. Contents' = q
      BY <1>11, <2>1, <3>1 DEF Contents
    <3> QED BY <1>13, <3>2, <3>3, Sizes DEF PhonePromise!Fits
  <2>2. CASE Front' # Front
    <3>1. at # "pop_front"
      BY <1>2, <2>2 DEF Front
    <3>2. Front = m_first /\ Front' = m_first'
      BY <1>2, <3>1 DEF Front
    <3>3. m_first = m_last' /\ Front' = Next1(Front)
      BY <1>1, <2>2, <3>2 DEF push_back
    <3>4. Front' = IF Front = N - 1 THEN 0 ELSE Front + 1
      BY <1>4, <3>3, NextOne DEF Slots
    <3>5. Size = N - 1 /\ Size' = N - 1
      BY <1>4, <1>6, <1>7, <1>8, <3>2, <3>3, <3>4, Sizes
    <3>6. one = N
      BY <3>5, Sizes DEF one
    <3>7. Front' = (Front + 1) % N
      BY <3>3 DEF Next1
    <3>8. Tail(q) = Contents'
      <4>1. PICK c : c = m_buff'
        OBVIOUS
      <4>2. Ring(c, N, Front, N) /\ Stored(c, N, Front, N) = q
        BY <1>10, <1>11, <3>6, <4>1
      <4>3. Tail(q) = Stored(c, N, (Front + 1) % N, N - 1)
        BY <4>2, Sizes, StoredTail
      <4> QED BY <3>5, <3>7, <4>1, <4>3 DEF Contents
    <3> QED BY <1>13, <3>6, <3>8, Sizes DEF PhonePromise!Fits
  <2> QED BY <2>1, <2>2
<1> QED BY <1>2, <1>14 DEF PhonePromise!Push, q

LEMMA PhonePops ==
    ASSUME RingsInv, front
    PROVE  PhonePromise!Pop
<1>1. /\ at = "front" /\ at' = "pop_front" /\ reg' = m_first /\ receivedData' = m_buff[m_first]
      /\ m_buff' = m_buff /\ m_first' = m_first /\ m_last' = m_last
  BY DEF front, Goes, phone
<1>2. m_first \in 0 .. N - 1 /\ m_last \in 0 .. N - 1 /\ m_first # m_last
  BY <1>1 DEF RingsInv, PhoneInv, Slots
<1>3. Front = m_first /\ Front' = Next1(m_first)
  BY <1>1 DEF Front
<1>4. Front' = IF m_first = N - 1 THEN 0 ELSE m_first + 1
  BY <1>2, <1>3, NextOne DEF Slots
<1>5. /\ Size = IF m_last >= Front THEN m_last - Front ELSE (N + m_last) - Front
      /\ Size' = IF m_last' >= Front' THEN m_last' - Front' ELSE (N + m_last') - Front'
  BY <1>1, <1>2, <1>3, <1>4, Sizes DEF Size
<1>6. Size \in 1 .. N - 1 /\ Size' = Size - 1
  BY <1>1, <1>2, <1>3, <1>4, <1>5, Sizes
<1>7. Ring(m_buff, N, Front, Size)
  BY <1>2, <1>3, <1>6, Sizes DEF Ring, RingsInv, TypesOK, Slots
<1>8. /\ Contents # <<>> /\ Head(Contents) = m_buff[Front % N]
      /\ Tail(Contents) = Stored(m_buff, N, (Front + 1) % N, Size - 1)
  BY <1>6, <1>7, StoredTail DEF Contents
<1>9. Front % N = m_first
  BY <1>2, <1>3, Sizes, ModSmall
<1>10. Contents' = Tail(Contents)
  BY <1>1, <1>3, <1>6, <1>8 DEF Contents, Next1
<1> QED BY <1>1, <1>8, <1>9, <1>10 DEF PhonePromise!Pop

\* Every other step leaves the bytes and what was read last as they are.
LEMMA PhoneStutters ==
    ASSUME [Next]_vars, ~BLE_SerialHandler, ~front
    PROVE  UNCHANGED <<Contents, receivedData>>
<1>1. CASE pop_front
  <2>1. /\ at = "pop_front" /\ at' = "idle" /\ m_first' = Next1(reg)
        /\ UNCHANGED <<m_buff, m_last, receivedData>>
    BY <1>1 DEF pop_front, Goes, StoreFirst
  <2>2. Front' = Front
    BY <2>1 DEF Front
  <2> QED BY <2>1, <2>2 DEF Contents, Size
<1>2. CASE ~pop_front
  <2>1. UNCHANGED <<m_buff, m_first, m_last, receivedData>>
    BY <1>2 DEF Next, GetMessage, pop, HiReader_SerialHandler, Interrupts, LoadLast, Compare,
                LoadHead, Test, LoadTail, StepTail, ReadByte, ReloadTail, Wrap, ClearFull,
                vars, phone
  <2>2. \/ at # "pop_front" /\ at' # "pop_front"
        \/ at' = at /\ reg' = reg
    BY <1>2 DEF Next, GetMessage, pop, HiReader_SerialHandler, Interrupts, LoadLast, Compare,
                LoadHead, Test, LoadTail, StepTail, ReadByte, ReloadTail, Wrap, ClearFull,
                vars, Goes
  <2>3. Front' = Front
    BY <2>1, <2>2 DEF Front
  <2> QED BY <2>1, <2>3 DEF Contents, Size
<1> QED BY <1>1, <1>2

LEMMA PhoneStarts == Init => PhonePromise!Init
<1> SUFFICES ASSUME Init PROVE PhonePromise!Init
  OBVIOUS
<1>1. receivedData \in Bytes
  BY DEF Init
<1>2. Front = 0 /\ m_last = 0
  BY DEF Init, Front
<1>3. Size = 0
  BY <1>2 DEF Size
<1>4. Ring(m_buff, N, Front, Size)
  BY <1>2, <1>3, Sizes, InitRings DEF Ring, RingsInv, TypesOK, Slots
<1>5. Contents \in Seq(Bytes) /\ Len(Contents) = 0
  BY <1>3, <1>4, StoredSeq DEF Contents
<1>6. Contents = <<>>
  BY <1>5, EmptySeq
<1> QED BY <1>1, <1>6 DEF PhonePromise!Init

\* Wherever the interrupts fall, the phone's bytes are read in the order they came, each
\* once, and a full ring forgets its oldest.
THEOREM PhoneRingImplements == Spec => PhoneIsDropOldest
<1>1. RingsInv /\ [Next]_vars => [PhonePromise!Next]_<<Contents, receivedData>>
  BY PhonePushes, PhonePops, PhoneStutters DEF PhonePromise!Next
<1> QED BY <1>1, PhoneStarts, InitRings, NextRings, PTL
        DEF Spec, PhoneIsDropOldest, PhonePromise!Spec

--------------------------------------------------------------------------------
(* The reader's ring is a queue of BufferSize bytes. *)

\* When its bytes do not come into a full ring: what the main loop has loaded is current,
\* and after _tail is stepped there is room for the one byte that may come meanwhile.
PopInv ==
    /\ full /\ ~Stepped => head = tail
    /\ at \in {"step", "wrap"} => reg = tail
    /\ at = "read" => tail = reg + 1
    /\ Stepped /\ ~full /\ "reader" \notin between => Used # BufferSize - 1

LEMMA UsedIs ==
    ASSUME NEW n \in Nat \ {0}, NEW from \in 0 .. n - 1, NEW to \in 0 .. n - 1
    PROVE  ((to + n) - from) % n = IF to >= from THEN to - from ELSE (to + n) - from
  OBVIOUS

LEMMA Wrapped ==
    ASSUME NEW n \in Nat \ {0}, NEW i \in 0 .. n
    PROVE  i % n = IF i = n THEN 0 ELSE i
  OBVIOUS

\* How many bytes are between _tail and _head, and where the next is put.
LEMMA ReaderCount ==
    ASSUME NEW h \in 0 .. BufferSize - 1, NEW t \in 0 .. BufferSize, NEW first, NEW used,
           first = t % BufferSize, used = ((h + BufferSize) - first) % BufferSize
    PROVE  /\ first = IF t = BufferSize THEN 0 ELSE t
           /\ first \in 0 .. BufferSize - 1
           /\ used = IF h >= first THEN h - first ELSE (h + BufferSize) - first
           /\ used \in 0 .. BufferSize - 1
           /\ (first + used) % BufferSize = h
<1>1. first = (IF t = BufferSize THEN 0 ELSE t) /\ first \in 0 .. BufferSize - 1
  <2>1. t % BufferSize = IF t = BufferSize THEN 0 ELSE t
    BY Sizes, Wrapped
  <2> QED BY <2>1, Sizes
<1>2. used = IF h >= first THEN h - first ELSE (h + BufferSize) - first
  BY <1>1, Sizes, UsedIs
<1>3. used \in 0 .. BufferSize - 1 /\ used \in 0 .. BufferSize
  BY <1>1, <1>2, Sizes
<1>4. (first + used) % BufferSize
        = IF first + used < BufferSize THEN first + used ELSE (first + used) - BufferSize
  BY <1>1, <1>3, Sizes, Index
<1> QED BY <1>1, <1>2, <1>3, <1>4, Sizes

\* The same of the ring as it is.
Counted ==
    /\ head \in 0 .. BufferSize - 1
    /\ tail % BufferSize = IF tail = BufferSize THEN 0 ELSE tail
    /\ tail % BufferSize \in 0 .. BufferSize - 1
    /\ Used = IF head >= tail % BufferSize THEN head - (tail % BufferSize)
              ELSE (head + BufferSize) - (tail % BufferSize)
    /\ Used \in 0 .. BufferSize - 1
    /\ ((tail % BufferSize) + Used) % BufferSize = head

LEMMA CountedNow == RingsInv => Counted
<1> SUFFICES ASSUME RingsInv PROVE Counted
  OBVIOUS
<1>1. head \in 0 .. BufferSize - 1 /\ tail \in 0 .. BufferSize
  BY DEF RingsInv, ReaderInv, ReaderSlots
<1>2. Used = ((head + BufferSize) - (tail % BufferSize)) % BufferSize
  BY DEF Used
<1> QED BY <1>1, <1>2, ReaderCount DEF Counted

LEMMA CountedNext == RingsInv' => Counted'
  BY CountedNow, PTL

LEMMA InitPop == Init => PopInv
  BY DEF Init, PopInv, Stepped

\* A push that comes while the main loop is reading a byte.
LEMMA PushKeepsPop ==
    ASSUME ~Flood, RingsInv, PopInv, HiReader_SerialHandler
    PROVE  PopInv'
<1>1. PICK b \in Bytes : push(b)
  BY DEF HiReader_SerialHandler
<1>2. /\ ~full /\ "reader" \notin between /\ at' = at /\ reg' = reg
      /\ between' = IF at \in InPop THEN between \cup {"reader"} ELSE {}
  BY DEF HiReader_SerialHandler, Interrupts
<1>3. tail' = tail /\ full' = (head' = tail')
  BY <1>1, <1>2 DEF push
<1>4. Stepped' = Stepped
  BY <1>2 DEF Stepped
<1>5. Stepped => "reader" \in between'
  BY <1>2 DEF Stepped, InPop
<1> QED BY <1>2, <1>3, <1>4, <1>5 DEF PopInv

\* _tail is stepped: the byte is the main loop's, and one place is free.
LEMMA StepKeepsPop ==
    ASSUME RingsInv, PopInv, StepTail
    PROVE  /\ Stepped' /\ ~Stepped
           /\ tail % BufferSize = reg /\ tail' % BufferSize = (reg + 1) % BufferSize
           /\ reg \in 0 .. BufferSize - 1
           /\ ReaderSize \in 1 .. BufferSize /\ Used' = ReaderSize - 1
           /\ PopInv'
<1>1. /\ at = "step" /\ at' = "read" /\ tail' = reg + 1 /\ between' = between
      /\ UNCHANGED <<pool, head, full, reg, ch>>
  BY DEF StepTail, Goes, InPop
<1>2. Stepped' /\ ~Stepped
  BY <1>1 DEF Stepped
<1>3. reg = tail /\ reg \in 0 .. BufferSize - 1 /\ (head # tail \/ full) /\ (full => head = tail)
  BY <1>1, <1>2 DEF PopInv, RingsInv, ReaderInv, ReaderSlots
<1>4. Counted /\ Counted'
  BY CountedNow, CountedNext, NextRings DEF Next, pop
<1>5. tail % BufferSize = reg
  BY <1>3, <1>4, Sizes DEF Counted
<1>6. ReaderSize = IF full THEN BufferSize ELSE Used
  BY <1>2 DEF ReaderSize
<1>7. ReaderSize \in 1 .. BufferSize
  BY <1>3, <1>4, <1>5, <1>6, Sizes DEF Counted
<1>8. tail' % BufferSize = IF reg + 1 = BufferSize THEN 0 ELSE reg + 1
  BY <1>1, <1>4 DEF Counted
<1>9. Used' = ReaderSize - 1
  <2>1. Used' = IF reg + 1 = BufferSize THEN head
                ELSE IF head >= reg + 1 THEN head - (reg + 1) ELSE (head + BufferSize) - (reg + 1)
    <3>1. head' = head /\ head \in 0 .. BufferSize - 1
      BY <1>1, <1>4 DEF Counted
    <3>2. Used' = IF head' >= tail' % BufferSize THEN head' - (tail' % BufferSize)
                  ELSE (head' + BufferSize) - (tail' % BufferSize)
      BY <1>4 DEF Counted
    <3>3. CASE reg + 1 = BufferSize
      BY <1>8, <3>1, <3>2, <3>3, Sizes
    <3>4. CASE reg + 1 # BufferSize
      BY <1>8, <3>1, <3>2, <3>4, Sizes
    <3> QED BY <3>3, <3>4
  <2>2. Used = IF head >= reg THEN head - reg ELSE (head + BufferSize) - reg
    BY <1>4, <1>5 DEF Counted
  <2>3. head \in 0 .. BufferSize - 1
    BY <1>4 DEF Counted
  <2> QED BY <1>3, <1>6, <2>1, <2>2, <2>3, Sizes
<1>10. ~full => Used' # BufferSize - 1
  BY <1>4, <1>6, <1>9, Sizes DEF Counted
<1>11. PopInv'
  BY <1>1, <1>2, <1>10 DEF PopInv
<1> QED BY <1>1, <1>2, <1>3, <1>5, <1>7, <1>9, <1>11

LEMMA NextPop == ~Flood /\ RingsInv /\ PopInv /\ [Next]_vars => PopInv'
<1> SUFFICES ASSUME ~Flood, RingsInv, PopInv, [Next]_vars PROVE PopInv'
  OBVIOUS
<1>1. CASE BLE_SerialHandler
  <2>1. /\ UNCHANGED <<head, tail, full, at, reg>>
        /\ Stepped => ("reader" \in between' <=> "reader" \in between)
    BY <1>1 DEF BLE_SerialHandler, reader, Interrupts, InPop, Stepped
  <2> QED BY <2>1 DEF PopInv, Stepped, Used
<1>2. CASE HiReader_SerialHandler
  BY <1>2, PushKeepsPop
<1>3. CASE GetMessage
  <2>1. UNCHANGED <<head, tail, full>> /\ at' \in {"idle", "size", "front", "pop_front"}
        /\ ~Stepped
    BY <1>3 DEF GetMessage, LoadLast, Compare, front, pop_front, reader, Goes, Stepped
  <2> QED BY <2>1 DEF PopInv, Stepped
<1>4. CASE LoadHead \/ Test \/ LoadTail
  <2>1. /\ UNCHANGED <<head, tail, full>> /\ ~Stepped /\ at' \in {"idle", "test", "tail", "step"}
        /\ at' = "step" => reg' = tail
    BY <1>4 DEF LoadHead, Test, LoadTail, reader, Goes, Stepped
  <2> QED BY <2>1 DEF PopInv, Stepped
<1>5. CASE StepTail
  BY <1>5, StepKeepsPop
<1>6. CASE ReadByte \/ ReloadTail
  <2>1. /\ UNCHANGED <<head, tail, full, between>> /\ Stepped /\ at' \in {"reload", "wrap"}
        /\ at' = "wrap" => reg' = tail
    BY <1>6 DEF ReadByte, ReloadTail, reader, Goes, Stepped, InPop
  <2> QED BY <2>1 DEF PopInv, Stepped, Used
<1>7. CASE Wrap
  <2>1. /\ UNCHANGED <<head, full, between>> /\ Stepped /\ at' = "clear"
        /\ tail' = tail % BufferSize
    BY <1>7 DEF Wrap, WrapTail, Goes, Stepped, InPop, PopInv
  <2>2. tail' % BufferSize = tail % BufferSize
    BY <2>1, CountedNow, ModSmall, Sizes DEF Counted
  <2> QED BY <2>1, <2>2 DEF PopInv, Stepped, Used
<1>8. CASE ClearFull
  BY <1>8 DEF ClearFull, Goes, PopInv, Stepped
<1>9. CASE UNCHANGED vars
  BY <1>9 DEF vars, reader, PopInv, Stepped, Used
<1> QED BY <1>1, <1>2, <1>3, <1>4, <1>5, <1>6, <1>7, <1>8, <1>9 DEF Next, pop

LEMMA RestIsSeq ==
    RingsInv => /\ ReaderSize \in 0 .. BufferSize
                /\ Ring(pool, BufferSize, tail % BufferSize, ReaderSize)
                /\ Rest \in Seq(Bytes) /\ Len(Rest) = ReaderSize
<1> SUFFICES ASSUME RingsInv
             PROVE  /\ ReaderSize \in 0 .. BufferSize
                    /\ Ring(pool, BufferSize, tail % BufferSize, ReaderSize)
                    /\ Rest \in Seq(Bytes) /\ Len(Rest) = ReaderSize
  OBVIOUS
<1>1. ReaderSize \in 0 .. BufferSize /\ tail % BufferSize \in 0 .. BufferSize - 1
  BY CountedNow, Sizes DEF Counted, ReaderSize
<1>2. Ring(pool, BufferSize, tail % BufferSize, ReaderSize)
  BY <1>1, Sizes DEF Ring, RingsInv, TypesOK, ReaderSlots
<1> QED BY <1>1, <1>2, StoredSeq DEF Rest

\* A byte in front stays in front.
LEMMA AppendBehind ==
    ASSUME NEW a \in Bytes, NEW q \in Seq(Bytes), NEW b \in Bytes
    PROVE  <<a>> \o Append(q, b) = Append(<<a>> \o q, b)
<1>1. Append(q, b) = q \o <<b>> /\ Append(<<a>> \o q, b) = (<<a>> \o q) \o <<b>>
  BY AppendIsConcat, ConcatProperties
<1>2. (<<a>> \o q) \o <<b>> = <<a>> \o (q \o <<b>>)
  BY ConcatAssociative
<1> QED BY <1>1, <1>2

\* There is room for a byte that comes, and it is counted.
LEMMA PushCounts ==
    ASSUME ~Flood, RingsInv, PopInv, HiReader_SerialHandler
    PROVE  /\ ReaderSize' = ReaderSize + 1
           /\ ReaderSize + 1 <= BufferSize
           /\ at = "read" => ReaderSize + 1 < BufferSize /\ head # reg
<1>1. PICK b \in Bytes : push(b)
  BY DEF HiReader_SerialHandler
<1>2. ~full /\ "reader" \notin between /\ at' = at
  BY DEF HiReader_SerialHandler, Interrupts
<1>3. tail' = tail /\ head' = NextReader1(head) /\ full' = (head' = tail')
  BY <1>1, <1>2 DEF push
<1>4. ReaderSize = Used /\ ReaderSize' = IF full' /\ ~Stepped THEN BufferSize ELSE Used'
  BY <1>2 DEF ReaderSize, Stepped
<1>5. Counted /\ Counted'
  BY CountedNow, CountedNext, ReaderInterrupt
<1>6. PICK first \in 0 .. BufferSize - 1 :
         /\ first = tail % BufferSize
         /\ first = IF tail = BufferSize THEN 0 ELSE tail
  BY <1>5 DEF Counted
<1>7. head \in 0 .. BufferSize - 1 /\ head' = IF head = BufferSize - 1 THEN 0 ELSE head + 1
  BY <1>3, <1>5, NextOne DEF Counted, ReaderSlots
<1>8. /\ Used \in 0 .. BufferSize - 1
      /\ Used = IF head >= first THEN head - first ELSE (head + BufferSize) - first
  BY <1>5, <1>6 DEF Counted
<1>9. Used' = IF head' >= first THEN head' - first ELSE (head' + BufferSize) - first
  <2>1. first = tail' % BufferSize
    BY <1>3, <1>6
  <2> QED BY <1>5, <2>1 DEF Counted
<1>10. CASE Stepped
  <2>1. Used # BufferSize - 1
    BY <1>2, <1>10 DEF PopInv
  <2>2. Used' = Used + 1 /\ Used + 1 < BufferSize
    BY <1>7, <1>8, <1>9, <2>1, Sizes
  <2>3. at = "read" => head # reg
    <3> SUFFICES ASSUME at = "read", head = reg PROVE FALSE
      OBVIOUS
    <3>1. tail = head + 1
      BY DEF PopInv
    <3> QED BY <1>6, <1>7, <1>8, <2>1, <3>1, Sizes
  <2>4. ReaderSize' = Used' /\ ReaderSize = Used
    BY <1>4, <1>10
  <2> QED BY <1>8, <2>2, <2>3, <2>4, Sizes
<1>11. CASE ~Stepped
  <2>1. at # "read" /\ tail = first
    BY <1>5, <1>6, <1>11 DEF Stepped, RingsInv, ReaderInv, Unwrapped, Counted
  <2>2. CASE full'
    <3>1. head' = first
      BY <1>3, <2>1, <2>2
    <3>2. Used = BufferSize - 1
      BY <1>6, <1>7, <1>8, <3>1, Sizes
    <3> QED BY <1>4, <1>11, <2>1, <2>2, <3>2, Sizes
  <2>3. CASE ~full'
    <3>1. head' # first
      BY <1>3, <2>1, <2>3
    <3>2. Used' = Used + 1
      <4>1. CASE head = BufferSize - 1
        BY <1>7, <1>8, <1>9, <3>1, <4>1, Sizes
      <4>2. CASE head # BufferSize - 1
        BY <1>7, <1>8, <1>9, <3>1, <4>2, Sizes
      <4> QED BY <4>1, <4>2
    <3> QED BY <1>4, <1>8, <2>1, <2>3, <3>2, Sizes
  <2> QED BY <2>2, <2>3
<1> QED BY <1>10, <1>11

LEMMA ReaderPushes ==
    ASSUME ~Flood, RingsInv, PopInv, HiReader_SerialHandler
    PROVE  ReaderPromise!Push
<1>1. PICK b \in Bytes : push(b)
  BY DEF HiReader_SerialHandler
<1>2. at' = at /\ reg' = reg /\ ch' = ch /\ ~full /\ Stepped' = Stepped
  BY DEF HiReader_SerialHandler, Interrupts, Stepped
<1>3. tail' = tail /\ pool' = [pool EXCEPT ![head] = b]
  BY <1>1, <1>2 DEF push
<1>4. /\ ReaderSize' = ReaderSize + 1 /\ ReaderSize + 1 <= BufferSize
      /\ at = "read" => ReaderSize + 1 < BufferSize /\ head # reg
  BY PushCounts
<1>5. /\ Ring(pool, BufferSize, tail % BufferSize, ReaderSize)
      /\ Rest \in Seq(Bytes) /\ Len(Rest) = ReaderSize /\ ReaderSize \in 0 .. BufferSize
  BY RestIsSeq
<1>6. /\ ReaderSize = Used /\ ((tail % BufferSize) + Used) % BufferSize = head
      /\ tail % BufferSize \in 0 .. BufferSize - 1
  BY <1>2, CountedNow DEF Counted, ReaderSize
<1>7. /\ pool \in [0 .. BufferSize - 1 -> Bytes]
      /\ \A k \in 0 .. BufferSize - 1 : pool'[k] = IF k = head THEN b ELSE pool[k]
      /\ pool' \in [0 .. BufferSize - 1 -> Bytes]
  BY <1>3 DEF RingsInv, TypesOK, ReaderSlots
<1>8. Rest' = Append(Rest, b)
  <2>1. PICK c : c = pool'
    OBVIOUS
  <2>2. PICK m : m = ReaderSize + 1
    OBVIOUS
  <2>3. PICK first : first = tail % BufferSize
    OBVIOUS
  <2>4. Ring(c, BufferSize, first, m)
    BY <1>4, <1>5, <1>6, <1>7, <2>1, <2>2, <2>3, Sizes DEF Ring
  <2>5. \A k \in 0 .. BufferSize - 1 :
           c[k] = IF k = (first + ReaderSize) % BufferSize THEN b ELSE pool[k]
    BY <1>6, <1>7, <2>1, <2>3
  <2>6. Ring(pool, BufferSize, first, ReaderSize) /\ m <= BufferSize
    BY <1>4, <1>5, <2>2, <2>3
  <2>7. Stored(c, BufferSize, first, m) = Append(Stored(pool, BufferSize, first, ReaderSize), b)
    BY <2>2, <2>4, <2>5, <2>6, StoredAppend
  <2> QED BY <1>3, <1>4, <2>1, <2>2, <2>3, <2>7 DEF Rest
<1>9. ReaderContents' = Append(ReaderContents, b) /\ Len(Append(ReaderContents, b)) <= BufferSize
  <2>1. CASE at = "read"
    <3>1. reg \in 0 .. BufferSize - 1
      BY <2>1 DEF RingsInv, ReaderInv, ReaderSlots
    <3>2. pool'[reg] = pool[reg] /\ pool[reg] \in Bytes
      BY <1>4, <1>7, <2>1, <3>1
    <3>3. ReaderContents = <<pool[reg]>> \o Rest /\ ReaderContents' = <<pool[reg]>> \o Rest'
      BY <1>2, <2>1, <3>2 DEF ReaderContents
    <3>4. ReaderContents' = Append(ReaderContents, b)
      BY <1>5, <1>8, <3>2, <3>3, AppendBehind
    <3>5. ReaderContents \in Seq(Bytes) /\ Len(ReaderContents) = ReaderSize + 1
      BY <1>5, <3>2, <3>3
    <3> QED BY <1>4, <1>5, <2>1, <3>4, <3>5, Sizes
  <2>2. CASE at # "read"
    <3>1. ReaderContents = Rest /\ ReaderContents' = Rest'
      BY <1>2, <2>2 DEF ReaderContents
    <3> QED BY <1>4, <1>5, <1>8, <3>1, Sizes
  <2> QED BY <2>1, <2>2
<1>10. ReaderContents' = ReaderPromise!Fits(Append(ReaderContents, b))
  <2>1. ~(Len(Append(ReaderContents, b)) > BufferSize)
    BY <1>9, Sizes
  <2> QED BY <1>9, <2>1 DEF ReaderPromise!Fits
<1> QED BY <1>2, <1>10 DEF ReaderPromise!Push

LEMMA ReaderPops ==
    ASSUME RingsInv, ReadByte
    PROVE  ReaderPromise!Pop
<1>1. /\ at = "read" /\ at' = "reload" /\ ch' = pool[reg]
      /\ UNCHANGED <<pool, head, tail, full, reg>>
  BY DEF ReadByte, Goes, reader
<1>2. pool[reg] \in Bytes
  BY <1>1 DEF RingsInv, TypesOK, ReaderInv
<1>3. Rest \in Seq(Bytes)
  BY RestIsSeq
<1>4. ReaderContents = <<pool[reg]>> \o Rest
  BY <1>1 DEF ReaderContents
<1>5. ReaderContents' = Rest
  BY <1>1 DEF ReaderContents, Rest, ReaderSize, Used, Stepped
<1>6. /\ ReaderContents # <<>> /\ Head(ReaderContents) = pool[reg]
      /\ Tail(ReaderContents) = Rest
  BY <1>2, <1>3, <1>4
<1> QED BY <1>1, <1>5, <1>6 DEF ReaderPromise!Pop

\* Stepping _tail takes the oldest byte out of the ring and into the main loop's hand.
LEMMA StepStutters ==
    ASSUME RingsInv, PopInv, StepTail
    PROVE  UNCHANGED <<ReaderContents, ch>>
<1>1. /\ at = "step" /\ at' = "read" /\ UNCHANGED <<pool, reg, ch>>
  BY DEF StepTail, Goes
<1>2. /\ Stepped' /\ tail % BufferSize = reg /\ tail' % BufferSize = (reg + 1) % BufferSize
      /\ reg \in 0 .. BufferSize - 1
      /\ ReaderSize \in 1 .. BufferSize /\ Used' = ReaderSize - 1
  BY StepKeepsPop
<1>3. /\ Ring(pool, BufferSize, tail % BufferSize, ReaderSize)
      /\ Rest \in Seq(Bytes)
  BY RestIsSeq
<1>4. /\ Rest # <<>> /\ Head(Rest) = pool[(tail % BufferSize) % BufferSize]
      /\ Tail(Rest) = Stored(pool, BufferSize, ((tail % BufferSize) + 1) % BufferSize, ReaderSize - 1)
  BY <1>2, <1>3, StoredTail DEF Rest
<1>5. Head(Rest) = pool[reg]
  BY <1>2, <1>4, Sizes, ModSmall
<1>6. Rest' = Tail(Rest)
  <2>1. ReaderSize' = ReaderSize - 1
    BY <1>2 DEF ReaderSize
  <2> QED BY <1>1, <1>2, <1>4, <2>1 DEF Rest
<1>7. ReaderContents = Rest /\ ReaderContents' = <<pool[reg]>> \o Rest'
  BY <1>1 DEF ReaderContents
<1>8. Rest = <<Head(Rest)>> \o Tail(Rest)
  BY <1>3, <1>4
<1> QED BY <1>1, <1>5, <1>6, <1>7, <1>8

\* Wrapping it, and clearing _full, change nothing.
LEMMA WrapStutters ==
    ASSUME RingsInv, PopInv, Wrap \/ ClearFull
    PROVE  UNCHANGED <<ReaderContents, ch>>
<1>1. /\ UNCHANGED <<pool, head, ch>> /\ Stepped /\ at # "read" /\ at' # "read"
      /\ Stepped' \/ ~full'
  BY DEF Wrap, ClearFull, Goes, Stepped
<1>2. tail' % BufferSize = tail % BufferSize
  <2>1. CASE Wrap
    <3>1. tail' = tail % BufferSize
      BY <2>1 DEF Wrap, WrapTail, Goes, PopInv
    <3> QED BY <3>1, CountedNow, ModSmall, Sizes DEF Counted
  <2>2. CASE ClearFull
    BY <2>2 DEF ClearFull
  <2> QED BY <2>1, <2>2
<1>3. Used' = Used
  BY <1>1, <1>2 DEF Used
<1>4. ReaderSize' = ReaderSize
  BY <1>1, <1>3 DEF ReaderSize
<1> QED BY <1>1, <1>2, <1>4 DEF ReaderContents, Rest

LEMMA ReaderStutters ==
    ASSUME RingsInv, PopInv, [Next]_vars, ~HiReader_SerialHandler, ~ReadByte
    PROVE  UNCHANGED <<ReaderContents, ch>>
<1>1. CASE StepTail
  BY <1>1, StepStutters
<1>2. CASE Wrap \/ ClearFull
  BY <1>2, WrapStutters
<1>3. CASE ~StepTail /\ ~Wrap /\ ~ClearFull
  <2>1. UNCHANGED <<pool, head, tail, full, ch>>
    BY <1>3 DEF Next, GetMessage, pop, BLE_SerialHandler, Interrupts, LoadLast, Compare, front,
                pop_front, LoadHead, Test, LoadTail, ReloadTail, vars, reader
  <2>2. /\ Stepped' = Stepped
        /\ \/ at # "read" /\ at' # "read"
           \/ at' = at /\ reg' = reg
    BY <1>3 DEF Next, GetMessage, pop, BLE_SerialHandler, Interrupts, LoadLast, Compare, front,
                pop_front, LoadHead, Test, LoadTail, ReloadTail, vars, Goes, Stepped
  <2>3. ReaderSize' = ReaderSize
    BY <2>1, <2>2 DEF ReaderSize, Used
  <2>4. Rest' = Rest
    BY <2>1, <2>3 DEF Rest
  <2> QED BY <2>1, <2>2, <2>4 DEF ReaderContents
<1> QED BY <1>1, <1>2, <1>3

LEMMA ReaderStarts == Init => ReaderPromise!Init
<1> SUFFICES ASSUME Init PROVE ReaderPromise!Init
  OBVIOUS
<1>1. ch \in Bytes /\ head = 0 /\ tail = 0 /\ ~full /\ at = "idle"
  BY DEF Init
<1>2. Used = 0
  BY <1>1, CountedNow, InitRings, Sizes DEF Counted
<1>3. ReaderSize = 0 /\ ReaderContents = Rest
  BY <1>1, <1>2 DEF ReaderSize, ReaderContents
<1>4. Rest \in Seq(Bytes) /\ Len(Rest) = 0
  BY <1>3, InitRings, RestIsSeq
<1>5. ReaderContents = <<>>
  BY <1>3, <1>4, EmptySeq
<1> QED BY <1>1, <1>5 DEF ReaderPromise!Init

\* The reader's bytes are read in the order they came, each once, as long as the main loop
\* keeps up with them: pop clears _full and steps _tail in steps of its own.
THEOREM ReaderRingImplements ==
    ASSUME ~Flood
    PROVE  Spec => ReaderIsDropOldest
<1>1. RingsInv /\ PopInv /\ [Next]_vars => [ReaderPromise!Next]_<<ReaderContents, ch>>
  BY ReaderPushes, ReaderPops, ReaderStutters DEF ReaderPromise!Next
<1>2. RingsInv /\ PopInv /\ [Next]_vars => PopInv'
  BY NextPop
<1> QED BY <1>1, <1>2, ReaderStarts, InitRings, InitPop, NextRings, PTL
        DEF Spec, ReaderIsDropOldest, ReaderPromise!Spec
================================================================================
