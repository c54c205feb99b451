------------------------------- MODULE Format -------------------------------
(***************************************************************************)
(* The canonical serialisation of a container and its identifier,          *)
(* crates/qtv-vm/src/container.rs. A container is put together part by     *)
(* part; sha3_256 is symbolic and free of collisions.                      *)
(***************************************************************************)
EXTENDS Integers, SequencesExt

CONSTANTS
    BYTE,           \* values of a byte, 256 in the source
    LEN_BYTES,      \* bytes of a length, 4
    WORD_BYTES,     \* bytes of a constant or a slot, 8
    SELECTOR_BYTES, OFFSET_BYTES,       \* 4 and 4
    MAX_CODE_BYTES, MAX_CONSTS, MAX_ENTRIES, MAX_ACCESS_SLOTS,
    MaxParts        \* bound on the bytes, constants, entries and slots

(* The powers of BYTE: the value of each place of a number *)
Place[k \in 0..(LEN_BYTES + WORD_BYTES + OFFSET_BYTES)] ==
    IF k = 0 THEN 1 ELSE BYTE * Place[k - 1]

Byte == 0..(BYTE - 1)
Word == 0..(Place[WORD_BYTES] - 1)
Offset == 0..(Place[OFFSET_BYTES] - 1)
Selector == [1..SELECTOR_BYTES -> Byte]

(* u32::MAX *)
LEN_MAX == Place[LEN_BYTES] - 1

ASSUME ByteAssumption == BYTE \in Nat \ {0, 1}
ASSUME SizesAreNatural ==
    {LEN_BYTES, WORD_BYTES, SELECTOR_BYTES, OFFSET_BYTES} \subseteq Nat \ {0}

(* Sizes that verify lets through can be written down. *)
ASSUME LimitsFit ==
    \A n \in {MAX_CODE_BYTES, MAX_CONSTS, MAX_ENTRIES, MAX_ACCESS_SLOTS} :
        n \in 0..LEN_MAX

VARIABLE container

AccessLists == {"reads", "writes", "keyed_reads", "keyed_writes"}

to_be_bytes(v, n) == [i \in 1..n |-> (v \div Place[n - i]) % BYTE]

(***************************************************************************)
(* canonical_bytes                                                         *)
(***************************************************************************)
put_len(n) == to_be_bytes(IF n <= LEN_MAX THEN n ELSE LEN_MAX, LEN_BYTES)

Words(ws) == FlattenSeq([i \in DOMAIN ws |-> to_be_bytes(ws[i], WORD_BYTES)])

(* Mutant of put_slots: no length before the slots. *)
put_slotsBare(slots) == Words(slots)

put_slots(slots) == put_len(Len(slots)) \o Words(slots)

put_entry(e) ==
    e.selector \o to_be_bytes(e.offset, OFFSET_BYTES)
        \o put_slots(e.access.reads) \o put_slots(e.access.writes)
        \o put_slots(e.access.keyed_reads) \o put_slots(e.access.keyed_writes)

FORMAT_TAG == <<"Q", "V", "M", "1">>

canonical_bytes(c) ==
    FORMAT_TAG
        \o put_len(Len(c.code)) \o c.code
        \o put_slots(c.consts)
        \o put_len(Len(c.entries))
        \o FlattenSeq([i \in DOMAIN c.entries |-> put_entry(c.entries[i])])

identifier(c) == <<"sha3_256", canonical_bytes(c)>>

(***************************************************************************)
(* The sizes that Container::verify accepts                                *)
(***************************************************************************)
Slots(e) ==
    Len(e.access.reads) + Len(e.access.writes)
        + Len(e.access.keyed_reads) + Len(e.access.keyed_writes)

SizesOk(c) ==
    /\ Len(c.code) <= MAX_CODE_BYTES
    /\ Len(c.consts) <= MAX_CONSTS
    /\ Len(c.entries) <= MAX_ENTRIES
    /\ \A i \in DOMAIN c.entries : Slots(c.entries[i]) <= MAX_ACCESS_SLOTS

(***************************************************************************)
(* Building a container                                                    *)
(***************************************************************************)
Empty == [code |-> <<>>, consts |-> <<>>, entries |-> <<>>]

Parts(c) ==
    Len(c.code) + Len(c.consts) + Len(c.entries)
        + FoldLeft(LAMBDA n, e : n + Slots(e), 0, c.entries)

Init == container = Empty

AddCode(b) == container' = [container EXCEPT !.code = Append(@, b)]

AddConst(w) == container' = [container EXCEPT !.consts = Append(@, w)]

AddEntry(s, o) ==
    container' = [container EXCEPT !.entries = Append(@,
        [selector |-> s, offset |-> o,
         access |-> [a \in AccessLists |-> <<>>]])]

AddSlot(a, w) ==
    /\ container.entries # <<>>
    /\ container' = [container EXCEPT
            !.entries[Len(container.entries)].access[a] = Append(@, w)]

Next ==
    /\ Parts(container) < MaxParts
    /\ \/ \E b \in Byte : AddCode(b)
       \/ \E w \in Word : AddConst(w)
       \/ \E s \in Selector, o \in Offset : AddEntry(s, o)
       \/ \E a \in AccessLists, w \in Word : AddSlot(a, w)

Spec == Init /\ [][Next]_container

(***************************************************************************)
(* The reference reader: it takes the bytes apart again. A cursor holds    *)
(* the bytes left and what was read from them.                             *)
(***************************************************************************)
Number(bytes) ==
    LET Value[i \in 0..Len(bytes)] ==
            IF i = 0 THEN 0 ELSE BYTE * Value[i - 1] + bytes[i]
    IN  Value[Len(bytes)]

(* SubSeq that reads past the end as zeros: bytes that are no container's  *)
(* are read as some container, which is then not the one written.          *)
Slice(s, i, j) == [k \in 1..(j - i + 1) |->
                    IF i + k - 1 \in DOMAIN s THEN s[i + k - 1] ELSE 0]

Cut(s, n) == Slice(s, n + 1, Len(s))

(* The words after a length, and the bytes after them *)
ReadWords(s) ==
    LET n == Number(Slice(s, 1, LEN_BYTES))
        from(i) == LEN_BYTES + WORD_BYTES * (i - 1)
    IN  [out |-> [i \in 1..n |->
                    Number(Slice(s, from(i) + 1, from(i) + WORD_BYTES))],
         rest |-> Cut(s, LEN_BYTES + WORD_BYTES * n)]

ReadEntry(s) ==
    LET head == SELECTOR_BYTES + OFFSET_BYTES
        r == ReadWords(Cut(s, head))
        w == ReadWords(r.rest)
        kr == ReadWords(w.rest)
        kw == ReadWords(kr.rest)
    IN  [out |-> [selector |-> Slice(s, 1, SELECTOR_BYTES),
                  offset |-> Number(Slice(s, SELECTOR_BYTES + 1, head)),
                  access |-> [reads |-> r.out, writes |-> w.out,
                              keyed_reads |-> kr.out, keyed_writes |-> kw.out]],
         rest |-> kw.rest]

(* The cursor past one more entry *)
Advance(cursor) ==
    LET e == ReadEntry(cursor.rest)
    IN  [out |-> Append(cursor.out, e.out), rest |-> e.rest]

ReadEntries(s, m) ==
    LET Cursor[i \in 0..m] ==
            IF i = 0 THEN [out |-> <<>>, rest |-> s] ELSE Advance(Cursor[i - 1])
    IN  Cursor[m]

Read(s) ==
    LET body == Cut(s, Len(FORMAT_TAG))
        n == Number(Slice(body, 1, LEN_BYTES))
        consts == ReadWords(Cut(body, LEN_BYTES + n))
        m == Number(Slice(consts.rest, 1, LEN_BYTES))
        entries == ReadEntries(Cut(consts.rest, LEN_BYTES), m)
    IN  [container |-> [code |-> Slice(body, LEN_BYTES + 1, LEN_BYTES + n),
                        consts |-> consts.out, entries |-> entries.out],
         rest |-> entries.rest]

(***************************************************************************)
(* Properties                                                              *)
(***************************************************************************)
(* The serialisation can be read back: a container whose sizes verify      *)
(* accepts is recovered from its bytes with nothing left over, so two such *)
(* containers that differ, in code, constants, an entry or the list that a *)
(* slot is declared in, have different identifiers. Past those sizes the   *)
(* lengths saturate and this fails (canonical_bytes, put_len).             *)
ReadsBack ==
    SizesOk(container) =>
        Read(canonical_bytes(container)) = [container |-> container, rest |-> <<>>]
=============================================================================
