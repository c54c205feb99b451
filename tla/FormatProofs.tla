---------------------------- MODULE FormatProofs ----------------------------
(***************************************************************************)
(* That a container can be recovered from its canonical bytes (Format),    *)
(* for every size of a byte, a word, a length, a selector and an offset,   *)
(* and every container.                                                    *)
(*                                                                         *)
(* The reader is followed with a cursor: each part of the bytes, put in    *)
(* front of any further bytes, is read as what was written and leaves the  *)
(* further bytes (WordsReadBack, EntryReadBack, EntriesReadBack). Two      *)
(* facts carry the weight: numbers that fit their width are read back from *)
(* their digits, and a length that was not saturated tells where its list  *)
(* ends.                                                                   *)
(***************************************************************************)
EXTENDS Format, Induction, SequenceTheorems

MaxWidth == LEN_BYTES + WORD_BYTES + OFFSET_BYTES

LEMMA Sizes ==
  /\ LEN_BYTES \in Nat \ {0} /\ WORD_BYTES \in Nat \ {0}
  /\ OFFSET_BYTES \in Nat \ {0} /\ SELECTOR_BYTES \in Nat \ {0}
  /\ BYTE \in Nat \ {0} /\ MaxWidth \in Nat
  /\ LEN_BYTES \in 0..MaxWidth /\ WORD_BYTES \in 0..MaxWidth
  /\ OFFSET_BYTES \in 0..MaxWidth
BY SizesAreNatural, ByteAssumption DEF MaxWidth

LEMMA PlacePowers == Powers(Place, MaxWidth, BYTE)
<1>1. Place = CHOOSE f : f = Raising(f, MaxWidth, BYTE)
  BY DEF Place, Raising, MaxWidth
<1> QED BY <1>1, Sizes, PowersChosen

(***************************************************************************)
(* Types                                                                   *)
(***************************************************************************)
(* What a byte of the output may be: the tag is four letters *)
AnyByte == Byte \cup {FORMAT_TAG[i] : i \in 1..4}

Access == [AccessLists -> Seq(Word)]

Entry == [selector : Selector, offset : Offset, access : Access]

Container == [code : Seq(Byte), consts : Seq(Word), entries : Seq(Entry)]

LEMMA InitTyped == Init => container \in Container
BY DEF Init, Empty, Container

LEMMA AddSlotTyped ==
  ASSUME container \in Container, NEW a \in AccessLists, NEW w \in Word,
         AddSlot(a, w)
  PROVE  container' \in Container
<1>1. PICK n \in Nat \ {0} : n = Len(container.entries)
  BY DEF AddSlot, Container
<1>2. container.entries[n] \in Entry
  BY <1>1 DEF Container
<1>3. container.entries[n].access[a] \in Seq(Word)
  BY <1>2 DEF Entry, Access
<1> DEFINE acc == [container.entries[n].access EXCEPT ![a] = Append(@, w)]
           e == [container.entries[n] EXCEPT !.access = acc]
           es == [container.entries EXCEPT ![n] = e]
<1>4. acc \in Access
  BY <1>2, <1>3 DEF Entry, Access
<1>5. e \in Entry
  <2> HIDE DEF acc
  <2> QED BY <1>2, <1>4 DEF Entry
<1>6. es \in Seq(Entry)
  <2> HIDE DEF e
  <2> QED BY <1>1, <1>5 DEF Container
<1>7. container' = [container EXCEPT !.entries = es]
  BY <1>1 DEF AddSlot
<1> HIDE DEF es
<1> QED BY <1>6, <1>7 DEF Container

LEMMA NextTyped == container \in Container /\ [Next]_container => container' \in Container
<1> SUFFICES ASSUME container \in Container, [Next]_container
             PROVE  container' \in Container
  OBVIOUS
<1>1. ASSUME NEW b \in Byte, AddCode(b) PROVE container' \in Container
  <2>1. PICK p \in Seq(Byte) : p = Append(container.code, b)
    <3>1. container.code \in Seq(Byte)
      BY DEF Container
    <3> QED BY <3>1, AppendProperties
  <2>2. container' = [container EXCEPT !.code = p]
    BY <1>1, <2>1 DEF AddCode
  <2> QED BY <2>2 DEF Container
<1>2. ASSUME NEW w \in Word, AddConst(w) PROVE container' \in Container
  <2>1. PICK p \in Seq(Word) : p = Append(container.consts, w)
    <3>1. container.consts \in Seq(Word)
      BY DEF Container
    <3> QED BY <3>1, AppendProperties
  <2>2. container' = [container EXCEPT !.consts = p]
    BY <1>2, <2>1 DEF AddConst
  <2> QED BY <2>2 DEF Container
<1>3. ASSUME NEW s \in Selector, NEW o \in Offset, AddEntry(s, o)
      PROVE  container' \in Container
  <2> DEFINE acc == [a \in AccessLists |-> <<>>]
             e == [selector |-> s, offset |-> o, access |-> acc]
  <2>1. acc \in Access
    BY DEF Access
  <2>2. e \in Entry
    <3> HIDE DEF acc
    <3> QED BY <2>1 DEF Entry
  <2>3. container' = [container EXCEPT !.entries = Append(container.entries, e)]
    BY <1>3 DEF AddEntry
  <2> HIDE DEF e
  <2>4. PICK p \in Seq(Entry) : p = Append(container.entries, e)
    <3>1. container.entries \in Seq(Entry)
      BY DEF Container
    <3> QED BY <2>2, <3>1, AppendProperties
  <2> QED BY <2>3, <2>4 DEF Container
<1>4. ASSUME NEW a \in AccessLists, NEW w \in Word, AddSlot(a, w)
      PROVE  container' \in Container
  BY <1>4, AddSlotTyped
<1> QED BY <1>1, <1>2, <1>3, <1>4 DEF Next

(***************************************************************************)
(* Numbers                                                                 *)
(***************************************************************************)
LEMMA NumberReadBack ==
  ASSUME NEW n \in 0..MaxWidth, NEW v \in Nat, v < Place[n]
  PROVE  /\ to_be_bytes(v, n) \in Seq(Byte) /\ Len(to_be_bytes(v, n)) = n
         /\ Number(to_be_bytes(v, n)) = v
<1> DEFINE s == to_be_bytes(v, n)
           V == CHOOSE f : f = Horner(f, n, 0, BYTE, s)
<1>1. n \in Nat /\ 0 \in Nat
  BY Sizes
<1>2. s = [i \in 1..n |-> s[i]] /\ Digits(s, n, Place, BYTE, v)
  BY DEF to_be_bytes, Digits
<1> HIDE DEF s
<1>3. \A i \in 1..n : s[i] \in Byte
  BY <1>2, Sizes, PlacePowers, DigitsAreSmall DEF Byte
<1>4. s \in [1..n -> Byte]
  BY <1>2, <1>3
<1>5. s \in Seq(Byte) /\ Len(s) = n
  BY <1>1, <1>4
<1>6. s \in [1..n -> Nat]
  BY <1>4 DEF Byte
<1>7. Number(s) = V[n]
  BY <1>5 DEF Number, Horner
<1>8. Solves(V, n, 0, BYTE, s)
  BY <1>1, <1>6, Sizes, Chosen
<1> HIDE DEF V
<1>9. V[n] = v
  BY <1>2, <1>8, Sizes, PlacePowers, DigitsValue
<1> QED BY <1>5, <1>7, <1>9 DEF s

(* A length that fits is written as it is. *)
LEMMA LengthReadBack ==
  ASSUME NEW n \in 0..LEN_MAX
  PROVE  /\ put_len(n) \in Seq(Byte) /\ Len(put_len(n)) = LEN_BYTES
         /\ Number(put_len(n)) = n
<1>1. Place[LEN_BYTES] \in Nat
  BY Sizes, PlacePowers DEF Powers
<1>2. n \in Nat /\ n < Place[LEN_BYTES] /\ n <= LEN_MAX
  BY <1>1 DEF LEN_MAX
<1>3. put_len(n) = to_be_bytes(n, LEN_BYTES)
  BY <1>2 DEF put_len
<1> QED BY <1>2, <1>3, Sizes, NumberReadBack

(***************************************************************************)
(* The cursor                                                              *)
(***************************************************************************)
LEMMA Listed ==
  ASSUME NEW T, NEW a \in Seq(T)
  PROVE  a = [k \in 1..Len(a) |-> a[k]]
OBVIOUS

LEMMA SliceFirst ==
  ASSUME NEW T, NEW a \in Seq(T), NEW t \in Seq(T)
  PROVE  Slice(a \o t, 1, Len(a)) = a
<1> DEFINE s == a \o t
<1>1. s \in Seq(T) /\ Len(s) = Len(a) + Len(t) /\ \A k \in 1..Len(a) : s[k] = a[k]
  OBVIOUS
<1>2. (Len(a) - 1) + 1 = Len(a) /\ \A k \in 1..Len(a) : (1 + k) - 1 = k
  OBVIOUS
<1>3. \A k \in 1..Len(a) : k \in DOMAIN s
  BY <1>1
<1> HIDE DEF s
<1>4. Slice(s, 1, Len(a)) = [k \in 1..Len(a) |-> a[k]]
  BY <1>1, <1>2, <1>3 DEF Slice
<1> QED BY <1>4 DEF s

LEMMA CutOf ==
  ASSUME NEW T, NEW a \in Seq(T), NEW t \in Seq(T)
  PROVE  Cut(a \o t, Len(a)) = t
<1> DEFINE s == a \o t
           n == Len(a)
<1>1. /\ s \in Seq(T) /\ Len(s) = n + Len(t) /\ n \in Nat
      /\ \A k \in 1..Len(t) : s[n + k] = t[k]
  OBVIOUS
<1>2. (Len(s) - (n + 1)) + 1 = Len(t) /\ \A k \in 1..Len(t) : ((n + 1) + k) - 1 = n + k
  BY <1>1
<1>3. \A k \in 1..Len(t) : n + k \in DOMAIN s
  BY <1>1
<1> HIDE DEF s, n
<1>4. Slice(s, n + 1, Len(s)) = [k \in 1..Len(t) |-> t[k]]
  BY <1>1, <1>2, <1>3 DEF Slice
<1> QED BY <1>4 DEF s, n, Cut

(* Bytes from n + 1 to n + w, wherever they lie *)
Holds(s, n, w, b) == n + w <= Len(s) /\ Len(b) = w /\ \A k \in 1..w : s[n + k] = b[k]

LEMMA SliceAt ==
  ASSUME NEW T, NEW s \in Seq(T), NEW n \in Nat, NEW w \in Nat, NEW b \in Seq(T),
         Holds(s, n, w, b)
  PROVE  Slice(s, n + 1, n + w) = b
<1>1. ((n + w) - (n + 1)) + 1 = w /\ \A k \in 1..w : ((n + 1) + k) - 1 = n + k
  OBVIOUS
<1>2. \A k \in 1..w : n + k \in DOMAIN s
  BY DEF Holds
<1>3. Slice(s, n + 1, n + w) = [k \in 1..w |-> b[k]]
  BY <1>1, <1>2 DEF Slice, Holds
<1>4. b = [k \in 1..w |-> b[k]]
  BY Listed DEF Holds
<1> QED BY <1>3, <1>4

LEMMA BytesAreBytes == Seq(Byte) \subseteq Seq(AnyByte)
<1>1. Byte \subseteq AnyByte
  BY DEF AnyByte
<1> QED BY <1>1, SeqMonotonic

LEMMA WordBytes ==
  ASSUME NEW v \in Word
  PROVE  /\ to_be_bytes(v, WORD_BYTES) \in Seq(AnyByte)
         /\ Len(to_be_bytes(v, WORD_BYTES)) = WORD_BYTES
         /\ Number(to_be_bytes(v, WORD_BYTES)) = v
<1>1. Place[WORD_BYTES] \in Nat
  BY Sizes, PlacePowers DEF Powers
<1>2. v \in Nat /\ v < Place[WORD_BYTES]
  BY <1>1 DEF Word
<1> QED BY <1>2, Sizes, NumberReadBack, BytesAreBytes

(* Pieces of w bytes, one after the other from byte n + 1 *)
Lie(s, n, w, ps, m) == \A i \in 1..m : Holds(s, n + w * (i - 1), w, ps[i])

LEMMA PiecesLie ==
  ASSUME NEW T, NEW m \in Nat, NEW w \in Nat, NEW ps, SeqsOf(ps, m, T),
         LengthsAre(ps, m, w),
         NEW a \in Seq(T), NEW b, b = FlattenSeq(ps), NEW t \in Seq(T)
  PROVE  b \in Seq(T) /\ Len(b) = w * m /\ Lie((a \o b) \o t, Len(a), w, ps, m)
<1>1. /\ b \in Seq(T) /\ Len(b) = w * m
      /\ \A i \in 1..m, j \in 1..w : b[w * (i - 1) + j] = ps[i][j]
  <2>1. /\ FlattenSeq(ps) \in Seq(T) /\ Len(FlattenSeq(ps)) = w * m
        /\ \A i \in 1..m, j \in 1..w : FlattenSeq(ps)[w * (i - 1) + j] = ps[i][j]
    BY FlattenUniform
  <2> QED BY <2>1
<1>2. PICK s \in Seq(T) : /\ s = (a \o b) \o t
                          /\ Len(s) = (Len(a) + Len(b)) + Len(t)
                          /\ \A k \in 1..Len(b) : s[Len(a) + k] = b[k]
  <2>1. /\ (a \o b) \o t \in Seq(T)
        /\ Len((a \o b) \o t) = (Len(a) + Len(b)) + Len(t)
        /\ \A k \in 1..Len(b) : ((a \o b) \o t)[Len(a) + k] = b[k]
    <3>1. Joined(a, b, t, T)
      BY <1>1, ThreeParts
    <3> QED BY <3>1 DEF Joined
  <2> QED BY <2>1
<1>3. PICK n \in Nat : n = Len(a)
  OBVIOUS
<1>4. PICK l \in Nat : l = Len(t)
  OBVIOUS
<1>5. PICK x \in Nat : x = w * m /\ x = Len(b)
  BY <1>1
<1>6. ASSUME NEW i \in 1..m PROVE Holds(s, n + w * (i - 1), w, ps[i])
  <2>1. PICK p \in Nat : p = w * (i - 1)
    OBVIOUS
  <2>2. p + w <= x
    <3>1. w * (i - 1) + w = w * i
      OBVIOUS
    <3>2. w * i <= w * m
      OBVIOUS
    <3> QED BY <1>5, <2>1, <3>1, <3>2
  <2>3. ASSUME NEW k \in 1..w PROVE s[(n + p) + k] = ps[i][k]
    <3>1. b[p + k] = ps[i][k]
      BY <1>1, <2>1
    <3>2. p + k \in 1..x
      BY <2>2
    <3>3. s[n + (p + k)] = b[p + k]
      BY <1>2, <1>3, <1>5, <3>2
    <3>4. n + (p + k) = (n + p) + k
      BY <3>2
    <3> QED BY <3>1, <3>3, <3>4
  <2>4. (n + p) + w <= Len(s)
    <3>1. Len(s) = (n + x) + l
      BY <1>2, <1>3, <1>4, <1>5
    <3> QED BY <2>2, <3>1
  <2>5. Len(ps[i]) = w
    BY DEF LengthsAre
  <2> QED BY <2>1, <2>3, <2>4, <2>5 DEF Holds
<1> QED BY <1>1, <1>2, <1>3, <1>6 DEF Lie

(* A list of words with its length in front, and whatever follows it *)
LEMMA WordsReadBack ==
  ASSUME NEW ws \in Seq(Word), Len(ws) <= LEN_MAX, NEW t \in Seq(AnyByte)
  PROVE  /\ put_slots(ws) \in Seq(AnyByte)
         /\ ReadWords(put_slots(ws) \o t) = [out |-> ws, rest |-> t]
<1> DEFINE ps == [i \in DOMAIN ws |-> to_be_bytes(ws[i], WORD_BYTES)]
<1>1. PICK n \in Nat : n = Len(ws) /\ n \in 0..LEN_MAX /\ DOMAIN ws = 1..n
  <2>1. LEN_MAX \in Int
    BY Sizes, PlacePowers DEF LEN_MAX, Powers
  <2> QED BY <2>1
<1>2. PICK w \in Nat : w = WORD_BYTES
  BY Sizes
<1>3. PICK l \in Nat : l = LEN_BYTES
  BY Sizes
<1>4. PICK a \in Seq(AnyByte) : a = put_len(n) /\ Len(a) = l /\ Number(a) = n
  BY <1>1, <1>3, LengthReadBack, BytesAreBytes
<1>5. ws = [i \in 1..n |-> ws[i]] /\ \A i \in 1..n : ws[i] \in Word
  BY <1>1
<1>6. \A i \in 1..n : /\ ps[i] = to_be_bytes(ws[i], WORD_BYTES)
                      /\ ps[i] \in Seq(AnyByte)
                      /\ Len(ps[i]) = w /\ Number(ps[i]) = ws[i]
  BY <1>1, <1>2, <1>5, WordBytes
<1>7. ps = [i \in 1..n |-> ps[i]]
  BY <1>1
<1>8. PICK b : b = Words(ws) /\ b = FlattenSeq(ps)
  BY DEF Words
<1> HIDE DEF ps
<1>9. SeqsOf(ps, n, AnyByte)
  BY <1>6, <1>7 DEF SeqsOf
<1>10. LengthsAre(ps, n, w)
  BY <1>6 DEF LengthsAre
<1>11. b \in Seq(AnyByte) /\ Len(b) = w * n /\ Lie((a \o b) \o t, Len(a), w, ps, n)
  BY <1>8, <1>9, <1>10, PiecesLie
<1>12. PICK s \in Seq(AnyByte) :
          /\ s = (a \o b) \o t /\ s = a \o (b \o t)
          /\ a \o b \in Seq(AnyByte) /\ b \o t \in Seq(AnyByte)
          /\ Len(a \o b) = Len(a) + Len(b)
  <2>1. /\ (a \o b) \o t \in Seq(AnyByte) /\ (a \o b) \o t = a \o (b \o t)
        /\ a \o b \in Seq(AnyByte) /\ b \o t \in Seq(AnyByte)
        /\ Len(a \o b) = Len(a) + Len(b)
    <3>1. Joined(a, b, t, AnyByte)
      BY <1>11, ThreeParts
    <3> QED BY <3>1 DEF Joined
  <2> QED BY <2>1
<1>13. put_slots(ws) = a \o b
  BY <1>1, <1>4, <1>8 DEF put_slots
<1>14. Slice(s, 1, l) = a
  BY <1>4, <1>12, SliceFirst
<1>15. Cut(s, l + w * n) = t
  <2>1. Cut((a \o b) \o t, Len(a \o b)) = t
    BY <1>12, CutOf
  <2> QED BY <1>4, <1>11, <1>12, <2>1
<1>16. ASSUME NEW i \in 1..n
       PROVE  Number(Slice(s, (l + w * (i - 1)) + 1, (l + w * (i - 1)) + w)) = ws[i]
  <2>1. PICK q \in Nat : q = l + w * (i - 1)
    OBVIOUS
  <2>2. PICK c \in Seq(AnyByte) : c = ps[i] /\ Number(c) = ws[i]
    BY <1>6
  <2>3. Holds(s, q, w, c)
    BY <1>4, <1>11, <1>12, <2>1, <2>2 DEF Lie
  <2>4. Slice(s, q + 1, q + w) = c
    BY <2>3, SliceAt
  <2> QED BY <2>1, <2>2, <2>4
<1>17. ReadWords(s) = [out |-> ws, rest |-> t]
  <2> DEFINE out == [i \in 1..n |->
                Number(Slice(s, (l + w * (i - 1)) + 1, (l + w * (i - 1)) + w))]
  <2>1. ReadWords(s) = [out |-> out, rest |-> Cut(s, l + w * n)]
    BY <1>2, <1>3, <1>4, <1>14 DEF ReadWords
  <2>2. out = [i \in 1..n |-> ws[i]]
    BY <1>16
  <2>3. out = ws
    BY <1>5, <2>2
  <2> HIDE DEF out
  <2> QED BY <1>15, <2>1, <2>3
<1> QED BY <1>12, <1>13, <1>17

(***************************************************************************)
(* Entries                                                                 *)
(***************************************************************************)
(* Five parts and a rest, read from the front *)
Nested(h, p1, p2, p3, p4, t, T) ==
    \E x1, x2, x3, x4 \in Seq(T) :
        /\ x4 = p4 \o t /\ x3 = p3 \o x4 /\ x2 = p2 \o x3 /\ x1 = p1 \o x2
        /\ ((((h \o p1) \o p2) \o p3) \o p4) \o t = h \o x1

LEMMA Regroup ==
  ASSUME NEW T, NEW h \in Seq(T), NEW p1 \in Seq(T), NEW p2 \in Seq(T),
         NEW p3 \in Seq(T), NEW p4 \in Seq(T), NEW t \in Seq(T)
  PROVE  /\ (((h \o p1) \o p2) \o p3) \o p4 \in Seq(T)
         /\ Nested(h, p1, p2, p3, p4, t, T)
<1>1. PICK y1 \in Seq(T) : y1 = h \o p1
  BY JoinedLength
<1>2. PICK y2 \in Seq(T) : y2 = y1 \o p2
  BY JoinedLength
<1>3. PICK y3 \in Seq(T) : y3 = y2 \o p3
  BY JoinedLength
<1>4. PICK y4 \in Seq(T) : y4 = y3 \o p4
  BY JoinedLength
<1>5. PICK x4 \in Seq(T) : x4 = p4 \o t
  BY JoinedLength
<1>6. PICK x3 \in Seq(T) : x3 = p3 \o x4
  BY JoinedLength
<1>7. PICK x2 \in Seq(T) : x2 = p2 \o x3
  BY JoinedLength
<1>8. PICK x1 \in Seq(T) : x1 = p1 \o x2
  BY JoinedLength
<1>9. y4 \o t = y3 \o x4
  <2>1. Joined(y3, p4, t, T)
    BY ThreeParts
  <2> QED BY <1>4, <1>5, <2>1 DEF Joined
<1>10. y3 \o x4 = y2 \o x3
  <2>1. Joined(y2, p3, x4, T)
    BY ThreeParts
  <2> QED BY <1>3, <1>6, <2>1 DEF Joined
<1>11. y2 \o x3 = y1 \o x2
  <2>1. Joined(y1, p2, x3, T)
    BY ThreeParts
  <2> QED BY <1>2, <1>7, <2>1 DEF Joined
<1>12. y1 \o x2 = h \o x1
  <2>1. Joined(h, p1, x2, T)
    BY ThreeParts
  <2> QED BY <1>1, <1>8, <2>1 DEF Joined
<1>13. y4 = (((h \o p1) \o p2) \o p3) \o p4
  BY <1>1, <1>2, <1>3, <1>4
<1>14. y4 \o t = h \o x1
  BY <1>9, <1>10, <1>11, <1>12
<1>15. ((((h \o p1) \o p2) \o p3) \o p4) \o t = h \o x1
  BY <1>13, <1>14
<1> QED BY <1>4, <1>5, <1>6, <1>7, <1>8, <1>13, <1>15 DEF Nested

LEMMA AccessMade ==
  ASSUME NEW a \in Access
  PROVE  a = [reads |-> a.reads, writes |-> a.writes,
              keyed_reads |-> a.keyed_reads, keyed_writes |-> a.keyed_writes]
BY DEF Access, AccessLists

LEMMA EntryMade ==
  ASSUME NEW e \in Entry
  PROVE  e = [selector |-> e.selector, offset |-> e.offset, access |-> e.access]
BY DEF Entry

(* An entry's lists are short enough for their length fields. *)
EntryOk(e) == e \in Entry /\ Slots(e) <= MAX_ACCESS_SLOTS

LEMMA AccessLengths ==
  ASSUME NEW a \in Access
  PROVE  /\ a.reads \in Seq(Word) /\ a.writes \in Seq(Word)
         /\ a.keyed_reads \in Seq(Word) /\ a.keyed_writes \in Seq(Word)
BY DEF Access, AccessLists

(* A list that the length field can hold *)
ListOk(ws) == ws \in Seq(Word) /\ Len(ws) <= LEN_MAX

LEMMA EntryLists ==
  ASSUME NEW e, EntryOk(e)
  PROVE  /\ ListOk(e.access.reads) /\ ListOk(e.access.writes)
         /\ ListOk(e.access.keyed_reads) /\ ListOk(e.access.keyed_writes)
<1> DEFINE a == e.access
<1>1. a \in Access
  BY DEF EntryOk, Entry
<1>2. Len(a.reads) + Len(a.writes) + Len(a.keyed_reads) + Len(a.keyed_writes)
        <= MAX_ACCESS_SLOTS
  BY DEF EntryOk, Slots
<1>3. MAX_ACCESS_SLOTS <= LEN_MAX /\ MAX_ACCESS_SLOTS \in Int /\ LEN_MAX \in Int
  <2>1. LEN_MAX \in Int
    BY Sizes, PlacePowers DEF LEN_MAX, Powers
  <2>2. MAX_ACCESS_SLOTS \in 0..LEN_MAX
    BY LimitsFit
  <2> QED BY <2>1, <2>2
<1> HIDE DEF a
<1>4. /\ a.reads \in Seq(Word) /\ a.writes \in Seq(Word)
      /\ a.keyed_reads \in Seq(Word) /\ a.keyed_writes \in Seq(Word)
  BY <1>1, AccessLengths
<1>5. /\ Len(a.reads) \in Nat /\ Len(a.writes) \in Nat
      /\ Len(a.keyed_reads) \in Nat /\ Len(a.keyed_writes) \in Nat
  BY <1>4
<1>6. /\ Len(a.reads) <= LEN_MAX /\ Len(a.writes) <= LEN_MAX
      /\ Len(a.keyed_reads) <= LEN_MAX /\ Len(a.keyed_writes) <= LEN_MAX
  <2>1. \A i, j, k, l \in Nat, m, n \in Int :
          i + j + k + l <= m /\ m <= n => i <= n /\ j <= n /\ k <= n /\ l <= n
    OBVIOUS
  <2> QED BY <1>2, <1>3, <1>5, <2>1
<1> QED BY <1>4, <1>6 DEF a, ListOk

(* The bytes s are a list of words and the bytes t *)
Reads(s, ws, t) == ReadWords(s).out = ws /\ ReadWords(s).rest = t

LEMMA ListReadBack ==
  ASSUME NEW ws, ListOk(ws), NEW t \in Seq(AnyByte), NEW s, s = put_slots(ws) \o t
  PROVE  Reads(s, ws, t)
<1>1. /\ put_slots(ws) \in Seq(AnyByte)
      /\ ReadWords(put_slots(ws) \o t) = [out |-> ws, rest |-> t]
  BY WordsReadBack DEF ListOk
<1> QED BY <1>1 DEF Reads

LEMMA EntryHead ==
  ASSUME NEW e \in Entry
  PROVE  /\ e.selector \in Seq(AnyByte) /\ Len(e.selector) = SELECTOR_BYTES
         /\ to_be_bytes(e.offset, OFFSET_BYTES) \in Seq(AnyByte)
         /\ Len(to_be_bytes(e.offset, OFFSET_BYTES)) = OFFSET_BYTES
         /\ Number(to_be_bytes(e.offset, OFFSET_BYTES)) = e.offset
<1>1. e.selector \in [1..SELECTOR_BYTES -> Byte] /\ e.offset \in Offset
  BY DEF Entry, Selector
<1>2. e.selector \in Seq(Byte) /\ Len(e.selector) = SELECTOR_BYTES
  BY <1>1, Sizes
<1>3. Place[OFFSET_BYTES] \in Nat
  BY Sizes, PlacePowers DEF Powers
<1>4. e.offset \in Nat /\ e.offset < Place[OFFSET_BYTES]
  BY <1>1, <1>3 DEF Offset
<1> QED BY <1>2, <1>4, Sizes, NumberReadBack, BytesAreBytes

(* An entry, and whatever follows it *)
LEMMA EntryReadBack ==
  ASSUME NEW e, EntryOk(e), NEW t \in Seq(AnyByte)
  PROVE  /\ put_entry(e) \in Seq(AnyByte)
         /\ ReadEntry(put_entry(e) \o t) = [out |-> e, rest |-> t]
<1>1. e \in Entry /\ e.access \in Access
  BY DEF EntryOk, Entry
<1>2. PICK sel \in Seq(AnyByte) : sel = e.selector /\ Len(sel) = SELECTOR_BYTES
  BY <1>1, EntryHead
<1>3. PICK off \in Seq(AnyByte) : /\ off = to_be_bytes(e.offset, OFFSET_BYTES)
                                  /\ Len(off) = OFFSET_BYTES
                                  /\ Number(off) = e.offset
  BY <1>1, EntryHead
<1>4. /\ ListOk(e.access.reads) /\ ListOk(e.access.writes)
      /\ ListOk(e.access.keyed_reads) /\ ListOk(e.access.keyed_writes)
  BY EntryLists
<1>5. PICK p1 \in Seq(AnyByte) : p1 = put_slots(e.access.reads)
  BY <1>4, WordsReadBack DEF ListOk
<1>6. PICK p2 \in Seq(AnyByte) : p2 = put_slots(e.access.writes)
  BY <1>4, WordsReadBack DEF ListOk
<1>7. PICK p3 \in Seq(AnyByte) : p3 = put_slots(e.access.keyed_reads)
  BY <1>4, WordsReadBack DEF ListOk
<1>8. PICK p4 \in Seq(AnyByte) : p4 = put_slots(e.access.keyed_writes)
  BY <1>4, WordsReadBack DEF ListOk
<1>9. PICK h \in Seq(AnyByte) : h = sel \o off /\ Len(h) = Len(sel) + Len(off)
  BY JoinedLength
<1>10. put_entry(e) = (((h \o p1) \o p2) \o p3) \o p4
  BY <1>2, <1>3, <1>5, <1>6, <1>7, <1>8, <1>9 DEF put_entry
<1>11. (((h \o p1) \o p2) \o p3) \o p4 \in Seq(AnyByte)
  BY Regroup
<1>12. PICK x1, x2, x3, x4 \in Seq(AnyByte) :
            /\ x4 = p4 \o t /\ x3 = p3 \o x4 /\ x2 = p2 \o x3 /\ x1 = p1 \o x2
            /\ ((((h \o p1) \o p2) \o p3) \o p4) \o t = h \o x1
  <2>1. Nested(h, p1, p2, p3, p4, t, AnyByte)
    BY Regroup
  <2> QED BY <2>1 DEF Nested
<1>13. PICK s \in Seq(AnyByte) : s = h \o x1 /\ s = put_entry(e) \o t
  BY <1>10, <1>12, JoinedLength
<1>14. Slice(s, 1, SELECTOR_BYTES) = sel
  <2>1. Joined(sel, off, x1, AnyByte)
    BY ThreeParts
  <2>2. s = sel \o (off \o x1) /\ off \o x1 \in Seq(AnyByte)
    BY <1>9, <1>13, <2>1 DEF Joined
  <2> QED BY <1>2, <2>2, SliceFirst
<1>15. Slice(s, SELECTOR_BYTES + 1, SELECTOR_BYTES + OFFSET_BYTES) = off
  <2>1. Joined(sel, off, x1, AnyByte)
    BY ThreeParts
  <2>2. SELECTOR_BYTES \in Nat /\ OFFSET_BYTES \in Nat
    BY Sizes
  <2>3. /\ Len(s) = (SELECTOR_BYTES + OFFSET_BYTES) + Len(x1)
        /\ \A k \in 1..OFFSET_BYTES : s[SELECTOR_BYTES + k] = off[k]
    BY <1>2, <1>3, <1>9, <1>13, <2>1 DEF Joined
  <2>4. SELECTOR_BYTES + OFFSET_BYTES <= Len(s)
    BY <2>2, <2>3
  <2>5. Holds(s, SELECTOR_BYTES, OFFSET_BYTES, off)
    BY <1>3, <2>3, <2>4 DEF Holds
  <2> QED BY <2>2, <2>5, SliceAt
<1>16. Cut(s, SELECTOR_BYTES + OFFSET_BYTES) = x1
  <2>1. Cut(h \o x1, Len(h)) = x1
    BY CutOf
  <2> QED BY <1>2, <1>3, <1>9, <1>13, <2>1
<1>17. Reads(x1, e.access.reads, x2)
  <2>1. x1 = put_slots(e.access.reads) \o x2
    BY <1>5, <1>12
  <2> QED BY <1>4, <2>1, ListReadBack
<1>18. Reads(x2, e.access.writes, x3)
  <2>1. x2 = put_slots(e.access.writes) \o x3
    BY <1>6, <1>12
  <2> QED BY <1>4, <2>1, ListReadBack
<1>19. Reads(x3, e.access.keyed_reads, x4)
  <2>1. x3 = put_slots(e.access.keyed_reads) \o x4
    BY <1>7, <1>12
  <2> QED BY <1>4, <2>1, ListReadBack
<1>20. Reads(x4, e.access.keyed_writes, t)
  <2>1. x4 = put_slots(e.access.keyed_writes) \o t
    BY <1>8, <1>12
  <2> QED BY <1>4, <2>1, ListReadBack
<1>21. ReadEntry(s) =
         [out |-> [selector |-> sel, offset |-> e.offset,
                   access |-> [reads |-> e.access.reads, writes |-> e.access.writes,
                               keyed_reads |-> e.access.keyed_reads,
                               keyed_writes |-> e.access.keyed_writes]],
          rest |-> t]
  BY <1>3, <1>14, <1>15, <1>16, <1>17, <1>18, <1>19, <1>20 DEF ReadEntry, Reads
<1>22. ReadEntry(s) =
         [out |-> [selector |-> e.selector, offset |-> e.offset,
                   access |-> e.access], rest |-> t]
  BY <1>1, <1>2, <1>21, AccessMade
<1>23. ReadEntry(s) = [out |-> e, rest |-> t]
  BY <1>1, <1>22, EntryMade
<1> QED BY <1>10, <1>11, <1>13, <1>23

(***************************************************************************)
(* The list of entries                                                     *)
(***************************************************************************)
Start(s) == [out |-> <<>>, rest |-> s]

(* One step of the recursion of ReadEntries *)
Reading(f, s, m) == [i \in 0..m |-> IF i = 0 THEN Start(s) ELSE Advance(f[i - 1])]

Cursors(f, s, m) == f[0] = Start(s) /\ \A i \in 1..m : f[i] = Advance(f[i - 1])

LEMMA ReadingExists ==
  ASSUME NEW n \in Nat, NEW s
  PROVE  \E f : f = Reading(f, s, n)
<1> DEFINE Upto(f, m) == /\ f = [i \in 0..m |-> f[i]]
                         /\ \A i \in 0..m :
                              f[i] = IF i = 0 THEN Start(s) ELSE Advance(f[i - 1])
           S == {m \in 0..n : \E f : Upto(f, m)}
<1>1. 0 \in S
  <2> DEFINE g == [i \in 0..0 |-> Start(s)]
  <2>1. Upto(g, 0)
    OBVIOUS
  <2>2. 0 \in 0..n
    OBVIOUS
  <2> HIDE DEF g, Upto
  <2> QED BY <2>1, <2>2
<1>2. ASSUME NEW m \in 0..(n - 1), m \in S PROVE m + 1 \in S
  <2>1. PICK f : Upto(f, m)
    BY <1>2
  <2>2. m + 1 \in 0..n /\ m + 1 \in 0..(m + 1) /\ (m + 1) - 1 = m /\ m \in 0..m
    OBVIOUS
  <2> DEFINE x == Advance(f[m])
             g == [i \in 0..(m + 1) |-> IF i = m + 1 THEN x ELSE f[i]]
  <2>3. g[m + 1] = x /\ \A i \in 0..m : g[i] = f[i]
    <3> HIDE DEF x
    <3> QED BY <2>2
  <2>4. g = [i \in 0..(m + 1) |-> g[i]]
    <3> HIDE DEF x
    <3> QED OBVIOUS
  <2> HIDE DEF g
  <2>5. ASSUME NEW i \in 0..(m + 1)
        PROVE  g[i] = IF i = 0 THEN Start(s) ELSE Advance(g[i - 1])
    <3>1. CASE i = m + 1
      <4>1. i # 0 /\ i - 1 = m
        BY <3>1
      <4>2. g[i - 1] = f[m]
        BY <2>2, <2>3, <4>1
      <4> QED BY <2>3, <3>1, <4>1, <4>2
    <3>2. CASE i \in 0..m
      <4>1. i # 0 => g[i - 1] = f[i - 1]
        BY <2>3, <3>2
      <4>2. f[i] = IF i = 0 THEN Start(s) ELSE Advance(f[i - 1])
        BY <2>1, <3>2
      <4> QED BY <2>3, <3>2, <4>1, <4>2
    <3> QED BY <3>1, <3>2
  <2>6. Upto(g, m + 1)
    BY <2>4, <2>5
  <2> HIDE DEF Upto
  <2> QED BY <2>2, <2>6
<1>3. n \in S
  <2> HIDE DEF S
  <2>1. \A i \in 0..n : i \in S
    BY <1>1, <1>2, UpTo
  <2> QED BY <2>1
<1>4. PICK f : Upto(f, n)
  BY <1>3
<1>5. f = Reading(f, s, n)
  BY <1>4 DEF Reading
<1> QED BY <1>5

LEMMA ReadingAt ==
  ASSUME NEW n \in Nat, NEW s
  PROVE  \E f : Cursors(f, s, n) /\ ReadEntries(s, n) = f[n]
<1> DEFINE f == CHOOSE h : h = Reading(h, s, n)
           h == Reading(f, s, n)
<1>1. ReadEntries(s, n) = f[n]
  BY DEF ReadEntries, Reading, Start
<1>2. f = h
  BY ReadingExists
<1> HIDE DEF f
<1>3. \A i \in 0..n : h[i] = IF i = 0 THEN Start(s) ELSE Advance(f[i - 1])
  BY DEF Reading
<1> HIDE DEF h
<1>4. \A i \in 0..n : f[i] = IF i = 0 THEN Start(s) ELSE Advance(f[i - 1])
  BY <1>2, <1>3
<1>5. f[0] = Start(s)
  BY <1>4
<1>6. ASSUME NEW i \in 1..n PROVE f[i] = Advance(f[i - 1])
  <2>1. i \in 0..n /\ i # 0
    OBVIOUS
  <2> QED BY <1>4, <2>1
<1> QED BY <1>1, <1>5, <1>6 DEF Cursors

LEMMA OneMore ==
  ASSUME NEW T, NEW n \in Nat, NEW es \in [1..n -> T], NEW i \in 1..n
  PROVE  Append([k \in 1..(i - 1) |-> es[k]], es[i]) = [k \in 1..i |-> es[k]]
OBVIOUS

(* What is left is told by the whole and what went before. *)
LEMMA Cancelled ==
  ASSUME NEW T, NEW a \in Seq(T), NEW t \in Seq(T), NEW u \in Seq(T), a \o t = a \o u
  PROVE  t = u
<1>1. Cut(a \o t, Len(a)) = t /\ Cut(a \o u, Len(a)) = u
  BY CutOf
<1> QED BY <1>1

(* The cursor after i entries *)
Cursor(es, i, t) == [out |-> [k \in 1..i |-> es[k]], rest |-> t]

LEMMA Advanced ==
  ASSUME NEW n \in Nat, NEW es \in [1..n -> Entry], NEW i \in 1..n, EntryOk(es[i]),
         NEW t \in Seq(AnyByte), NEW u, u = put_entry(es[i]) \o t
  PROVE  Advance(Cursor(es, i - 1, u)) = Cursor(es, i, t)
<1>1. ReadEntry(u) = [out |-> es[i], rest |-> t]
  BY EntryReadBack
<1> DEFINE before == [k \in 1..(i - 1) |-> es[k]]
           after == [k \in 1..i |-> es[k]]
<1>2. Append(before, es[i]) = after
  BY OneMore
<1>3. /\ Cursor(es, i - 1, u) = [out |-> before, rest |-> u]
      /\ Cursor(es, i, t) = [out |-> after, rest |-> t]
  BY DEF Cursor
<1> HIDE DEF before, after
<1>4. Advance([out |-> before, rest |-> u]) = [out |-> Append(before, es[i]), rest |-> t]
  <2>1. PICK r : r = ReadEntry(u) /\ r.out = es[i] /\ r.rest = t
    BY <1>1
  <2> QED BY <2>1 DEF Advance
<1> QED BY <1>2, <1>3, <1>4

EntriesOk(es, n) == es \in [1..n -> Entry] /\ \A i \in 1..n : EntryOk(es[i])

Entries(es, n) == [i \in 1..n |-> put_entry(es[i])]

LEMMA EntriesReadBack ==
  ASSUME NEW n \in Nat, NEW es, EntriesOk(es, n), NEW x, x = FlattenSeq(Entries(es, n))
  PROVE  x \in Seq(AnyByte) /\ ReadEntries(x, n) = [out |-> es, rest |-> <<>>]
<1>1. es \in [1..n -> Entry] /\ \A i \in 1..n : EntryOk(es[i])
  BY DEF EntriesOk
<1>2. PICK ps : ps = Entries(es, n)
  OBVIOUS
<1>3. \A i \in 1..n : ps[i] = put_entry(es[i]) /\ ps[i] \in Seq(AnyByte)
  <2>1. <<>> \in Seq(AnyByte)
    OBVIOUS
  <2> QED BY <1>1, <1>2, <2>1, EntryReadBack DEF Entries
<1>4. SeqsOf(ps, n, AnyByte)
  <2>1. ps = [i \in 1..n |-> ps[i]]
    BY <1>2 DEF Entries
  <2> QED BY <1>3, <2>1 DEF SeqsOf
<1>5. PICK g \in [0..n -> Seq(AnyByte)] : Accumulates(g, ps, n) /\ x = g[n]
  BY <1>2, <1>4, FlattenPrefixes
<1>6. PICK f : Cursors(f, x, n) /\ ReadEntries(x, n) = f[n]
  BY ReadingAt
<1>7. x \in Seq(AnyByte)
  BY <1>5
<1> DEFINE At(i) == \E t \in Seq(AnyByte) : x = g[i] \o t /\ f[i] = Cursor(es, i, t)
           S == {i \in 0..n : At(i)}
<1>8. 0 \in S
  <2>1. g[0] = <<>> /\ f[0] = Start(x)
    BY <1>5, <1>6 DEF Accumulates, Cursors
  <2>2. x = <<>> \o x
    BY <1>7
  <2>3. [k \in 1..0 |-> es[k]] = <<>>
    OBVIOUS
  <2>4. f[0] = Cursor(es, 0, x)
    BY <2>1, <2>3 DEF Start, Cursor
  <2>5. 0 \in 0..n
    OBVIOUS
  <2> QED BY <1>7, <2>1, <2>2, <2>4, <2>5
<1>9. ASSUME NEW j \in 0..(n - 1), j \in S PROVE j + 1 \in S
  <2>1. PICK i \in 1..n : i = j + 1 /\ i - 1 = j /\ i \in 0..n
    OBVIOUS
  <2>2. PICK u \in Seq(AnyByte) : x = g[j] \o u /\ f[j] = Cursor(es, j, u)
    BY <1>9
  <2>3. PICK t \in Seq(AnyByte) : x = g[i] \o t
    <3>1. \A k \in 0..n : \E t \in Seq(AnyByte) : g[n] = g[k] \o t
      BY <1>4, <1>5, PrefixSplits
    <3> QED BY <1>5, <2>1, <3>1
  <2>4. g[i] = g[j] \o ps[i]
    BY <1>5, <2>1 DEF Accumulates
  <2>5. PICK a \in Seq(AnyByte) : a = g[j]
    OBVIOUS
  <2>6. PICK p \in Seq(AnyByte) : p = ps[i]
    BY <1>3
  <2>7. a \o u = a \o (p \o t) /\ p \o t \in Seq(AnyByte)
    <3>1. Joined(a, p, t, AnyByte)
      BY ThreeParts
    <3>2. (a \o p) \o t = a \o (p \o t) /\ p \o t \in Seq(AnyByte)
      BY <3>1 DEF Joined
    <3> QED BY <2>2, <2>3, <2>4, <2>5, <2>6, <3>2
  <2>8. u = p \o t
    BY <2>7, Cancelled
  <2>9. u = put_entry(es[i]) \o t
    BY <1>3, <2>6, <2>8
  <2>10. Advance(Cursor(es, i - 1, u)) = Cursor(es, i, t)
    BY <1>1, <2>9, Advanced
  <2>11. f[i] = Advance(f[i - 1])
    BY <1>6 DEF Cursors
  <2>12. f[i] = Cursor(es, i, t)
    BY <2>1, <2>2, <2>10, <2>11
  <2> QED BY <2>1, <2>3, <2>12
<1>10. n \in S
  <2> HIDE DEF S
  <2>1. \A i \in 0..n : i \in S
    BY <1>8, <1>9, UpTo
  <2> QED BY <2>1
<1>11. PICK t \in Seq(AnyByte) : x = g[n] \o t /\ f[n] = Cursor(es, n, t)
  BY <1>10
<1>12. t = <<>>
  <2>1. x \o <<>> = x /\ <<>> \in Seq(AnyByte)
    BY <1>7
  <2>2. x \o t = x \o <<>>
    BY <1>5, <1>11, <2>1
  <2> QED BY <1>7, <2>1, <2>2, Cancelled
<1>13. es = [k \in 1..n |-> es[k]]
  BY <1>1
<1>14. Cursor(es, n, t) = [out |-> es, rest |-> <<>>]
  BY <1>12, <1>13 DEF Cursor
<1> QED BY <1>6, <1>7, <1>11, <1>14

(***************************************************************************)
(* The container                                                           *)
(***************************************************************************)
LEMMA TagBytes == FORMAT_TAG \in Seq(AnyByte) /\ Len(FORMAT_TAG) = 4
<1>1. Len(FORMAT_TAG) = 4 /\ FORMAT_TAG = [i \in 1..4 |-> FORMAT_TAG[i]]
  BY DEF FORMAT_TAG
<1>2. \A i \in 1..4 : FORMAT_TAG[i] \in AnyByte
  BY DEF AnyByte
<1>3. FORMAT_TAG \in [1..4 -> AnyByte]
  BY <1>1, <1>2
<1> QED BY <1>1, <1>3

(* A length field is read back, whatever follows it. *)
LEMMA LengthFirst ==
  ASSUME NEW n \in 0..LEN_MAX, NEW t \in Seq(AnyByte), NEW s, s = put_len(n) \o t
  PROVE  /\ put_len(n) \in Seq(AnyByte) /\ Len(put_len(n)) = LEN_BYTES
         /\ Number(Slice(s, 1, LEN_BYTES)) = n
         /\ Cut(s, LEN_BYTES) = t
<1>1. PICK a \in Seq(AnyByte) : a = put_len(n) /\ Len(a) = LEN_BYTES /\ Number(a) = n
  BY LengthReadBack, BytesAreBytes
<1>2. Slice(a \o t, 1, Len(a)) = a
  BY SliceFirst
<1>3. Cut(a \o t, Len(a)) = t
  BY CutOf
<1> QED BY <1>1, <1>2, <1>3

ContainerOk(c) ==
    /\ c \in Container /\ SizesOk(c)

LEMMA ContainerParts ==
  ASSUME NEW c, ContainerOk(c)
  PROVE  /\ c.code \in Seq(AnyByte) /\ Len(c.code) \in 0..LEN_MAX
         /\ ListOk(c.consts)
         /\ Len(c.entries) \in 0..LEN_MAX
         /\ EntriesOk(c.entries, Len(c.entries))
         /\ DOMAIN c.entries = 1..Len(c.entries)
<1>1. /\ c.code \in Seq(Byte) /\ c.consts \in Seq(Word) /\ c.entries \in Seq(Entry)
  BY DEF ContainerOk, Container
<1>2. LEN_MAX \in Int
  BY Sizes, PlacePowers DEF LEN_MAX, Powers
<1>3. /\ MAX_CODE_BYTES \in 0..LEN_MAX /\ MAX_CONSTS \in 0..LEN_MAX
      /\ MAX_ENTRIES \in 0..LEN_MAX
  BY LimitsFit
<1>4. /\ Len(c.code) <= MAX_CODE_BYTES /\ Len(c.consts) <= MAX_CONSTS
      /\ Len(c.entries) <= MAX_ENTRIES
  BY DEF ContainerOk, SizesOk
<1>5. Len(c.code) \in Nat /\ Len(c.consts) \in Nat /\ Len(c.entries) \in Nat
  BY <1>1
<1>6. /\ Len(c.code) \in 0..LEN_MAX /\ Len(c.consts) <= LEN_MAX
      /\ Len(c.entries) \in 0..LEN_MAX
  BY <1>2, <1>3, <1>4, <1>5
<1>7. c.code \in Seq(AnyByte)
  BY <1>1, BytesAreBytes
<1>8. PICK es \in Seq(Entry) : es = c.entries
  BY <1>1
<1>9. es \in [1..Len(es) -> Entry] /\ DOMAIN es = 1..Len(es)
  OBVIOUS
<1>10. \A i \in DOMAIN es : Slots(es[i]) <= MAX_ACCESS_SLOTS
  BY <1>8 DEF ContainerOk, SizesOk
<1>11. EntriesOk(es, Len(es))
  BY <1>9, <1>10 DEF EntriesOk, EntryOk
<1> QED BY <1>1, <1>6, <1>7, <1>8, <1>9, <1>11 DEF ListOk

LEMMA ContainerReadBack ==
  ASSUME NEW c, ContainerOk(c)
  PROVE  Read(canonical_bytes(c)) = [container |-> c, rest |-> <<>>]
<1>1. PICK n \in 0..LEN_MAX : n = Len(c.code)
  BY ContainerParts
<1>2. PICK m \in 0..LEN_MAX : m = Len(c.entries) /\ DOMAIN c.entries = 1..m
  BY ContainerParts
<1>3. PICK code \in Seq(AnyByte) : code = c.code /\ Len(code) = n
  BY <1>1, ContainerParts
<1>4. EntriesOk(c.entries, m) /\ ListOk(c.consts)
  BY <1>2, ContainerParts
<1>5. LEN_MAX \in Int /\ m \in Nat /\ n \in Nat /\ LEN_BYTES \in Nat
  BY Sizes, PlacePowers DEF LEN_MAX, Powers
<1>6. PICK tag \in Seq(AnyByte) : tag = FORMAT_TAG /\ Len(tag) = 4
  BY TagBytes
<1>7. PICK lc \in Seq(AnyByte) : lc = put_len(n) /\ Len(lc) = LEN_BYTES
  BY LengthReadBack, BytesAreBytes
<1>8. PICK le \in Seq(AnyByte) : le = put_len(m) /\ Len(le) = LEN_BYTES
  BY LengthReadBack, BytesAreBytes
<1>9. PICK cs \in Seq(AnyByte) : cs = put_slots(c.consts)
  <2>1. <<>> \in Seq(AnyByte)
    OBVIOUS
  <2> QED BY <1>4, <2>1, WordsReadBack DEF ListOk
<1>10. PICK es \in Seq(AnyByte) :
          es = FlattenSeq(Entries(c.entries, m))
          /\ ReadEntries(es, m) = [out |-> c.entries, rest |-> <<>>]
  BY <1>4, <1>5, EntriesReadBack
<1>11. canonical_bytes(c) = ((((tag \o lc) \o code) \o cs) \o le) \o es
  <2>1. FlattenSeq([i \in DOMAIN c.entries |-> put_entry(c.entries[i])]) = es
    BY <1>2, <1>10 DEF Entries
  <2> QED BY <1>1, <1>2, <1>3, <1>6, <1>7, <1>8, <1>9, <2>1 DEF canonical_bytes
<1>12. PICK x1, x2, x3, x4 \in Seq(AnyByte) :
            /\ x4 = le \o es /\ x3 = cs \o x4 /\ x2 = code \o x3 /\ x1 = lc \o x2
            /\ ((((tag \o lc) \o code) \o cs) \o le) \o es = tag \o x1
  <2>1. Nested(tag, lc, code, cs, le, es, AnyByte)
    BY Regroup
  <2> QED BY <2>1 DEF Nested
<1>13. PICK s : s = canonical_bytes(c) /\ s = tag \o x1
  BY <1>11, <1>12
<1>14. Cut(s, Len(FORMAT_TAG)) = x1
  <2>1. Cut(tag \o x1, Len(tag)) = x1
    BY CutOf
  <2> QED BY <1>6, <1>13, <2>1
<1>15. Number(Slice(x1, 1, LEN_BYTES)) = n
  BY <1>7, <1>12, LengthFirst
<1>16. Joined(lc, code, x3, AnyByte)
  BY ThreeParts
<1>17. Cut(x1, LEN_BYTES + n) = x3
  <2>1. x1 = (lc \o code) \o x3 /\ lc \o code \in Seq(AnyByte)
        /\ Len(lc \o code) = LEN_BYTES + n
    BY <1>3, <1>7, <1>12, <1>16 DEF Joined
  <2>2. Cut((lc \o code) \o x3, Len(lc \o code)) = x3
    BY <2>1, CutOf
  <2> QED BY <2>1, <2>2
<1>18. Slice(x1, LEN_BYTES + 1, LEN_BYTES + n) = code
  <2>1. x1 = (lc \o code) \o x3
    BY <1>12, <1>16 DEF Joined
  <2>2. /\ Len(x1) = (LEN_BYTES + n) + Len(x3)
        /\ \A k \in 1..n : x1[LEN_BYTES + k] = code[k]
    BY <1>3, <1>7, <1>16, <2>1 DEF Joined
  <2>3. LEN_BYTES + n <= Len(x1)
    BY <1>5, <2>2
  <2>4. Holds(x1, LEN_BYTES, n, code)
    BY <1>3, <2>2, <2>3 DEF Holds
  <2> QED BY <1>5, <2>4, SliceAt
<1>19. Reads(x3, c.consts, x4)
  <2>1. x3 = put_slots(c.consts) \o x4
    BY <1>9, <1>12
  <2> QED BY <1>4, <2>1, ListReadBack
<1>20. Number(Slice(x4, 1, LEN_BYTES)) = m /\ Cut(x4, LEN_BYTES) = es
  <2>1. x4 = put_len(m) \o es
    BY <1>8, <1>12
  <2> QED BY <2>1, LengthFirst
<1>21. Read(s) = [container |-> [code |-> code, consts |-> c.consts,
                                 entries |-> c.entries], rest |-> <<>>]
  BY <1>10, <1>14, <1>15, <1>17, <1>18, <1>19, <1>20 DEF Read, Reads
<1>22. c = [code |-> c.code, consts |-> c.consts, entries |-> c.entries]
  BY DEF ContainerOk, Container
<1> QED BY <1>3, <1>13, <1>21, <1>22

(***************************************************************************)
(* A container whose sizes verify accepts is recovered from its bytes with *)
(* nothing left over, for every width of a byte, a word, a length, a       *)
(* selector and an offset, and containers of any size: canonical_bytes     *)
(* loses nothing that the identifier should tell apart.                    *)
(***************************************************************************)
THEOREM ContainersReadBack == Spec => []ReadsBack
<1> DEFINE Typed == container \in Container
<1>1. Init => Typed
  BY InitTyped
<1>2. Typed /\ [Next]_container => Typed'
  BY NextTyped
<1>3. Typed => ReadsBack
  BY ContainerReadBack DEF ReadsBack, ContainerOk
<1> HIDE DEF Typed
<1> QED BY <1>1, <1>2, <1>3, PTL DEF Spec

(***************************************************************************)
(* The identifier, a collision-free hash of canonical_bytes, tells apart   *)
(* any two containers whose sizes verify accepts.                          *)
(***************************************************************************)
THEOREM IdentifiersTellApart ==
  \A c, d : ContainerOk(c) /\ ContainerOk(d) /\ identifier(c) = identifier(d) => c = d
<1> SUFFICES ASSUME NEW c, NEW d, ContainerOk(c), ContainerOk(d),
                    identifier(c) = identifier(d)
             PROVE  c = d
  OBVIOUS
<1>1. canonical_bytes(c) = canonical_bytes(d)
  BY DEF identifier
<1>2. /\ Read(canonical_bytes(c)) = [container |-> c, rest |-> <<>>]
      /\ Read(canonical_bytes(d)) = [container |-> d, rest |-> <<>>]
  BY ContainerReadBack
<1>3. [container |-> c, rest |-> <<>>] = [container |-> d, rest |-> <<>>]
  BY <1>1, <1>2
<1> QED BY <1>3
=============================================================================
