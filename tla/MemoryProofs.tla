---------------------------- MODULE MemoryProofs ----------------------------
(***************************************************************************)
(* Proofs about module Memory, for every size of a byte, a word, a key and *)
(* the memory, every declared slot and base, every digest function with    *)
(* results of a key's length, and every sequence of opcodes.               *)
(*                                                                         *)
(* The invariant is MemoryInv. What MSTORE put in memory is followed byte  *)
(* by byte (Stored), since HASH and ADDR write at any offset and overlap a *)
(* word in any way; that the bytes read back as the word is arithmetic,    *)
(* DigitsReadBack, on the two conversions.                                 *)
(***************************************************************************)
EXTENDS Memory, Induction

(***************************************************************************)
(* Places and byte strings                                                 *)
(***************************************************************************)
LEMMA Sizes ==
  /\ WORD_BYTES \in Nat \ {0} /\ MEM_BYTES \in Nat \ {0}
  /\ STORAGE_KEY_BYTES \in Nat \ {0}
  /\ WORD_BYTES <= STORAGE_KEY_BYTES
  /\ BYTE \in Nat \ {0, 1}
BY SizesArePositive, KeysHoldWords, ByteAssumption

(* Place holds the powers of BYTE: none is zero, a later one is no less. *)
LEMMA PlacePowers == Powers(Place, STORAGE_KEY_BYTES, BYTE)
<1>1. Place = CHOOSE f : f = Raising(f, STORAGE_KEY_BYTES, BYTE)
  BY DEF Place, Raising
<1> QED BY <1>1, Sizes, PowersChosen

LEMMA PlaceDef ==
  /\ Place \in [0..STORAGE_KEY_BYTES -> Nat]
  /\ Place[0] = 1
  /\ \A k \in 1..STORAGE_KEY_BYTES : Place[k] = BYTE * Place[k - 1]
BY PlacePowers DEF Powers

LEMMA PlacePositive == \A k \in 0..STORAGE_KEY_BYTES : Place[k] \in Nat \ {0}
BY PlacePowers DEF Powers

LEMMA PlaceGrows ==
  \A k \in WORD_BYTES..STORAGE_KEY_BYTES : Place[WORD_BYTES] <= Place[k]
BY PlacePowers, PowersGrow, Sizes

(* A string whose bytes are the digits of v is read as v: from_be_bytes    *)
(* computes Horner's rule.                                                 *)
LEMMA DigitsReadBack ==
  ASSUME NEW n \in 0..STORAGE_KEY_BYTES, NEW v \in Nat, v < Place[n],
         NEW s \in [1..n -> Byte],
         \A i \in 1..n : s[i] = (v \div Place[n - i]) % BYTE
  PROVE  from_be_bytes(s) = v
<1> DEFINE V == CHOOSE f : f = Horner(f, n, 0, BYTE, s)
<1>1. n \in Nat /\ 0 \in Nat /\ s \in [1..n -> Nat] /\ BYTE \in Nat \ {0}
  BY Sizes DEF Byte
<1>2. Len(s) = n
  BY <1>1
<1>3. from_be_bytes(s) = V[n]
  BY <1>2 DEF from_be_bytes, Horner
<1>4. Solves(V, n, 0, BYTE, s)
  BY <1>1, Chosen
<1>5. Digits(s, n, Place, BYTE, v)
  BY DEF Digits
<1> HIDE DEF V
<1>6. V[n] = v
  BY <1>1, <1>4, <1>5, Sizes, PlacePowers, DigitsValue
<1> QED BY <1>3, <1>6

(* A word is the value of its bytes: from_be_bytes undoes to_be_bytes. *)
LEMMA WordBytes ==
  ASSUME NEW v \in Word
  PROVE  /\ v \in Nat /\ v < Place[WORD_BYTES]
         /\ to_be_bytes(v) \in [1..WORD_BYTES -> Byte]
         /\ Len(to_be_bytes(v)) = WORD_BYTES
         /\ from_be_bytes(to_be_bytes(v)) = v
<1> DEFINE s == to_be_bytes(v)
<1>1. v \in Nat /\ v < Place[WORD_BYTES]
  BY PlaceDef, Sizes DEF Word
<1>2. ASSUME NEW i \in 1..WORD_BYTES
      PROVE  s[i] = (v \div Place[WORD_BYTES - i]) % BYTE /\ s[i] \in Byte
  <2>1. WORD_BYTES - i \in 0..STORAGE_KEY_BYTES
    BY Sizes
  <2>2. s[i] = (v \div Place[WORD_BYTES - i]) % BYTE
    BY DEF to_be_bytes
  <2>3. v \div Place[WORD_BYTES - i] \in Nat
    BY <1>1, <2>1, PlacePositive, DivMod
  <2>4. \A x \in Nat : x % BYTE \in Byte
    BY Sizes, DivMod DEF Byte
  <2> QED BY <2>2, <2>3, <2>4
<1>3. s \in [1..WORD_BYTES -> Byte] /\ Len(s) = WORD_BYTES
  <2>1. s = [i \in 1..WORD_BYTES |-> s[i]]
    BY DEF to_be_bytes
  <2> HIDE DEF s
  <2>2. s \in [1..WORD_BYTES -> Byte]
    BY <2>1, <1>2
  <2> QED BY <2>2, Sizes
<1>4. WORD_BYTES \in 0..STORAGE_KEY_BYTES
  BY Sizes
<1> HIDE DEF s
<1>5. from_be_bytes(s) = v
  BY <1>1, <1>2, <1>3, <1>4, DigitsReadBack
<1> QED BY <1>1, <1>3, <1>5 DEF s

(* The row of a slot spells the slot, the zeros in front counted. *)
LEMMA RowSpells ==
  ASSUME NEW v \in Word
  PROVE  /\ scalar_key(v) \in [1..STORAGE_KEY_BYTES -> Byte]
         /\ from_be_bytes(scalar_key(v)) = v
<1> DEFINE K == STORAGE_KEY_BYTES
           W == WORD_BYTES
           pad == [i \in 1..(K - W) |-> 0]
           b == to_be_bytes(v)
           s == scalar_key(v)
<1>1. K \in Nat /\ W \in Nat /\ W <= K /\ K - W \in Nat /\ 0 \in Byte
  BY Sizes DEF Byte
<1>2. /\ v \in Nat /\ v < Place[W]
      /\ b \in [1..W -> Byte] /\ Len(b) = W
  BY WordBytes
<1>3. pad \in Seq(Byte) /\ Len(pad) = K - W /\ \A i \in 1..(K - W) : pad[i] = 0
  <2>1. pad \in [1..(K - W) -> Byte]
    BY <1>1
  <2> QED BY <1>1, <2>1
<1>4. b \in Seq(Byte)
  BY <1>1, <1>2
<1>5. s = pad \o b
  BY DEF scalar_key
<1>6. \A i \in 1..W : b[i] = (v \div Place[W - i]) % BYTE
  BY DEF to_be_bytes
<1> HIDE DEF pad, b, s
<1>7. s \in Seq(Byte) /\ Len(s) = K
  BY <1>1, <1>2, <1>3, <1>4, <1>5
<1>8. s \in [1..K -> Byte]
  BY <1>7
<1>9. ASSUME NEW i \in 1..K PROVE s[i] = (v \div Place[K - i]) % BYTE
  <2>1. CASE i \in 1..(K - W)
    <3>1. s[i] = 0
      BY <1>1, <1>2, <1>3, <1>4, <1>5, <2>1
    <3>2. K - i \in W..K /\ K - i \in 0..K
      BY <1>1, <2>1
    <3>3. Place[K - i] \in Nat \ {0} /\ Place[W] <= Place[K - i] /\ Place[W] \in Nat
      BY <3>2, <1>1, PlaceGrows, PlaceDef, PlacePositive
    <3>4. v < Place[K - i]
      BY <1>2, <3>3
    <3>5. \A p \in Nat \ {0} : v < p => v \div p = 0
      BY <1>2
    <3>6. 0 % BYTE = 0
      BY Sizes
    <3> QED BY <3>1, <3>3, <3>4, <3>5, <3>6
  <2>2. CASE i \in (K - W + 1)..K
    <3>1. i - (K - W) \in 1..W /\ W - (i - (K - W)) = K - i
      BY <1>1, <2>2
    <3>2. /\ i \in 1..(Len(pad) + Len(b)) /\ ~(i <= Len(pad))
          /\ Len(pad) \in Nat /\ Len(b) \in Nat
      BY <1>1, <1>2, <1>3, <2>2
    <3>3. (pad \o b)[i] = b[i - Len(pad)]
      BY <3>2, <1>3, <1>4
    <3>4. s[i] = b[i - (K - W)]
      BY <1>3, <1>5, <3>3
    <3> QED BY <1>6, <3>1, <3>4
  <2> QED BY <1>1, <2>1, <2>2
<1>10. Place[W] <= Place[K] /\ Place[W] \in Nat /\ Place[K] \in Nat
  BY <1>1, PlaceGrows, PlaceDef
<1>11. v < Place[K] /\ K \in 0..K
  BY <1>1, <1>2, <1>10
<1>12. from_be_bytes(s) = v
  BY <1>2, <1>8, <1>9, <1>11, DigitsReadBack
<1> QED BY <1>8, <1>12 DEF s

(***************************************************************************)
(* The invariant                                                           *)
(***************************************************************************)
(* Every intact word lies in memory, spelt by its bytes *)
Stored ==
    \A w \in intact : \E a, v \in Word :
        /\ w = <<a, v>>
        /\ a + WORD_BYTES <= MEM_BYTES
        /\ \A i \in 1..WORD_BYTES : mem[a + i - 1] = to_be_bytes(v)[i]

MemoryInv ==
    /\ mem \in [0..(MEM_BYTES - 1) -> Byte]
    /\ Stored
    /\ touched \in [{"read", "write"} -> SUBSET [1..STORAGE_KEY_BYTES -> Byte]]
    /\ AuthorisesWhatItHashed
    /\ TouchesOnlyDeclared
    /\ BilledForTheMessage

LEMMA WordIsNat == Word \subseteq Nat
BY PlaceDef, Sizes DEF Word

(* A region inside memory is a string of that many bytes. *)
LEMMA RegionType ==
  ASSUME mem \in [0..(MEM_BYTES - 1) -> Byte],
         NEW o \in Nat, NEW n \in Nat, InMemory(o, n)
  PROVE  /\ mem_region(o, n) \in [1..n -> Byte]
         /\ Len(mem_region(o, n)) = n
         /\ \A i \in 1..n : mem_region(o, n)[i] = mem[o + i - 1]
<1>1. \A i \in 1..n : o + i - 1 \in 0..(MEM_BYTES - 1)
  BY Sizes DEF InMemory
<1>2. mem_region(o, n) \in [1..n -> Byte]
  BY <1>1 DEF mem_region
<1>3. \A i \in 1..n : mem_region(o, n)[i] = mem[o + i - 1]
  BY DEF mem_region
<1> QED BY <1>2, <1>3

LEMMA WrittenType ==
  ASSUME mem \in [0..(MEM_BYTES - 1) -> Byte],
         NEW o \in Nat, NEW n \in Nat, NEW b \in [1..n -> Byte]
  PROVE  /\ Written(o, b) \in [0..(MEM_BYTES - 1) -> Byte]
         /\ \A j \in 0..(MEM_BYTES - 1) : j \notin o..(o + n - 1)
                => Written(o, b)[j] = mem[j]
         /\ \A i \in 1..n : o + i - 1 \in 0..(MEM_BYTES - 1)
                => Written(o, b)[o + i - 1] = b[i]
<1> DEFINE F == Written(o, b)
<1>1. Len(b) = n /\ DOMAIN mem = 0..(MEM_BYTES - 1)
  OBVIOUS
<1>2. F = [j \in 0..(MEM_BYTES - 1) |->
             IF j \in o..(o + n - 1) THEN b[j - o + 1] ELSE mem[j]]
  BY <1>1 DEF Written
<1>3. \A j \in o..(o + n - 1) : j - o + 1 \in 1..n
  OBVIOUS
<1>4. F \in [0..(MEM_BYTES - 1) -> Byte]
  BY <1>2, <1>3
<1>5. \A j \in 0..(MEM_BYTES - 1) : j \notin o..(o + n - 1) => F[j] = mem[j]
  BY <1>2
<1>6. ASSUME NEW i \in 1..n, o + i - 1 \in 0..(MEM_BYTES - 1)
      PROVE  F[o + i - 1] = b[i]
  <2>1. o + i - 1 \in o..(o + n - 1) /\ (o + i - 1) - o + 1 = i
    OBVIOUS
  <2> QED BY <1>2, <1>6, <2>1
<1> QED BY <1>4, <1>5, <1>6

(* The words that a write leaves alone keep their bytes. *)
LEMMA StoredKept ==
  ASSUME mem \in [0..(MEM_BYTES - 1) -> Byte], Stored,
         NEW o \in Nat, NEW n \in Nat, NEW b \in [1..n -> Byte],
         NEW w \in Untouched(o, n)
  PROVE  \E a, v \in Word :
           /\ w = <<a, v>>
           /\ a + WORD_BYTES <= MEM_BYTES
           /\ \A i \in 1..WORD_BYTES :
                 Written(o, b)[a + i - 1] = to_be_bytes(v)[i]
<1>1. w \in intact
  BY DEF Untouched
<1>2. PICK a, v \in Word :
           /\ w = <<a, v>>
           /\ a + WORD_BYTES <= MEM_BYTES
           /\ \A i \in 1..WORD_BYTES : mem[a + i - 1] = to_be_bytes(v)[i]
  BY <1>1 DEF Stored
<1>3. a \in Nat
  BY WordIsNat
<1>4. a + WORD_BYTES <= o \/ o + n <= a
  BY <1>2 DEF Untouched
<1>5. ASSUME NEW i \in 1..WORD_BYTES
      PROVE  Written(o, b)[a + i - 1] = to_be_bytes(v)[i]
  <2>1. a + i - 1 \in 0..(MEM_BYTES - 1) /\ a + i - 1 \notin o..(o + n - 1)
    BY <1>2, <1>3, <1>4, Sizes
  <2>2. Written(o, b)[a + i - 1] = mem[a + i - 1]
    BY <2>1, WrittenType
  <2> QED BY <1>2, <2>2
<1> QED BY <1>2, <1>5

(* mem_write keeps memory typed and the words it leaves alone stored. *)
LEMMA WriteKeeps ==
  ASSUME mem \in [0..(MEM_BYTES - 1) -> Byte], Stored,
         NEW o \in Nat, NEW n \in Nat, NEW b \in [1..n -> Byte],
         mem_write(o, b)
  PROVE  mem' \in [0..(MEM_BYTES - 1) -> Byte] /\ Stored'
<1>1. Len(b) = n
  OBVIOUS
<1>2. mem' = Written(o, b) /\ intact' = Untouched(o, n)
  BY <1>1 DEF mem_write
<1>3. mem' \in [0..(MEM_BYTES - 1) -> Byte]
  BY <1>2, WrittenType
<1>4. Stored'
  BY <1>2, StoredKept DEF Stored, to_be_bytes
<1> QED BY <1>3, <1>4

(***************************************************************************)
(* What each step does to the invariant                                    *)
(***************************************************************************)
LEMMA MemoryInit == Init => MemoryInv
<1> SUFFICES ASSUME Init PROVE MemoryInv
  OBVIOUS
<1>1. mem \in [0..(MEM_BYTES - 1) -> Byte]
  BY Sizes DEF Init, Byte
<1>3. touched \in [{"read", "write"} -> SUBSET [1..STORAGE_KEY_BYTES -> Byte]]
  BY DEF Init
<1>4. Stored /\ AuthorisesWhatItHashed
  BY DEF Init, Stored, AuthorisesWhatItHashed
<1>5. TouchesOnlyDeclared /\ BilledForTheMessage
  BY DEF Init, TouchesOnlyDeclared, BilledForTheMessage
<1> QED BY <1>1, <1>3, <1>4, <1>5 DEF MemoryInv

LEMMA MemoryStutter ==
  ASSUME MemoryInv, UNCHANGED <<mem, auth, intact, granted, touched, bill>>
  PROVE  MemoryInv'
<1>1. /\ mem' = mem /\ intact' = intact /\ granted' = granted
      /\ touched' = touched /\ billed' = billed /\ hashed' = hashed
      /\ keyed_authorized_reads' = keyed_authorized_reads
      /\ keyed_authorized_writes' = keyed_authorized_writes
  BY DEF auth, bill
<1>2. Stored'
  BY <1>1 DEF MemoryInv, Stored, to_be_bytes
<1>3. AuthorisesWhatItHashed' /\ BilledForTheMessage'
  BY <1>1 DEF MemoryInv, AuthorisesWhatItHashed, BilledForTheMessage
<1>4. TouchesOnlyDeclared'
  BY <1>1 DEF MemoryInv, TouchesOnlyDeclared, Spell, from_be_bytes
<1> QED BY <1>1, <1>2, <1>3, <1>4 DEF MemoryInv

LEMMA FaultKeeps ==
  ASSUME MemoryInv, NEW f, Fault(f) PROVE MemoryInv'
<1>1. UNCHANGED <<mem, auth, intact, granted, touched, bill>>
  BY DEF Fault
<1> QED BY <1>1, MemoryStutter

(* A write that leaves the grants, the keys touched and the bill alone. *)
LEMMA OnlyWrites ==
  ASSUME MemoryInv, mem' \in [0..(MEM_BYTES - 1) -> Byte], Stored',
         UNCHANGED <<auth, granted, touched, bill>>
  PROVE  MemoryInv'
<1>1. /\ granted' = granted
      /\ touched' = touched /\ billed' = billed /\ hashed' = hashed
      /\ keyed_authorized_reads' = keyed_authorized_reads
      /\ keyed_authorized_writes' = keyed_authorized_writes
  BY DEF auth, bill
<1>2. AuthorisesWhatItHashed' /\ BilledForTheMessage'
  BY <1>1 DEF MemoryInv, AuthorisesWhatItHashed, BilledForTheMessage
<1>3. TouchesOnlyDeclared'
  BY <1>1 DEF MemoryInv, TouchesOnlyDeclared, Spell, from_be_bytes
<1> QED BY <1>1, <1>2, <1>3 DEF MemoryInv

LEMMA MLoadKeeps ==
  ASSUME MemoryInv, NEW a \in Word, MLoad(a) PROVE MemoryInv'
<1>1. CASE InMemory(a, WORD_BYTES)
  <2>1. UNCHANGED <<mem, auth, intact, granted, touched, bill>>
    BY <1>1 DEF MLoad
  <2> QED BY <2>1, MemoryStutter
<1>2. CASE ~InMemory(a, WORD_BYTES)
  BY <1>2, FaultKeeps DEF MLoad
<1> QED BY <1>1, <1>2

LEMMA MStoreKeeps ==
  ASSUME MemoryInv, NEW a \in Word, NEW v \in Word, MStore(a, v)
  PROVE  MemoryInv'
<1>1. CASE InMemory(a, WORD_BYTES)
  <2> DEFINE b == to_be_bytes(v)
  <2>1. /\ mem \in [0..(MEM_BYTES - 1) -> Byte] /\ Stored
        /\ a \in Nat /\ WORD_BYTES \in Nat /\ b \in [1..WORD_BYTES -> Byte]
        /\ a + WORD_BYTES <= MEM_BYTES
    BY <1>1, WordIsNat, WordBytes, Sizes DEF MemoryInv, InMemory
  <2>2. /\ mem' = Written(a, b)
        /\ intact' = Untouched(a, WORD_BYTES) \cup {<<a, v>>}
        /\ UNCHANGED <<auth, granted, touched, bill>>
    BY <1>1 DEF MStore
  <2>3. mem' \in [0..(MEM_BYTES - 1) -> Byte]
    BY <2>1, <2>2, WrittenType
  <2>4. \A i \in 1..WORD_BYTES : mem'[a + i - 1] = to_be_bytes(v)[i]
    <3> TAKE i \in 1..WORD_BYTES
    <3>1. a + i - 1 \in 0..(MEM_BYTES - 1)
      BY <2>1, Sizes
    <3> HIDE DEF b
    <3>2. Written(a, b)[a + i - 1] = b[i]
      BY <2>1, <3>1, WrittenType
    <3> QED BY <2>2, <3>2 DEF b
  <2>5. ASSUME NEW w \in intact'
        PROVE  \E c, u \in Word :
                 /\ w = <<c, u>>
                 /\ c + WORD_BYTES <= MEM_BYTES
                 /\ \A i \in 1..WORD_BYTES : mem'[c + i - 1] = to_be_bytes(u)[i]
    <3>1. CASE w = <<a, v>>
      BY <3>1, <2>1, <2>4
    <3>2. CASE w \in Untouched(a, WORD_BYTES)
      <4> HIDE DEF b
      <4>1. \E c, u \in Word :
               /\ w = <<c, u>>
               /\ c + WORD_BYTES <= MEM_BYTES
               /\ \A i \in 1..WORD_BYTES :
                     Written(a, b)[c + i - 1] = to_be_bytes(u)[i]
        BY <2>1, <3>2, StoredKept
      <4> QED BY <2>2, <4>1
    <3> QED BY <2>2, <3>1, <3>2
  <2>6. Stored'
    BY <2>5 DEF Stored, to_be_bytes
  <2> QED BY <2>2, <2>3, <2>6, OnlyWrites
<1>2. CASE ~InMemory(a, WORD_BYTES)
  BY <1>2, FaultKeeps DEF MStore
<1> QED BY <1>1, <1>2

LEMMA AddrKeeps ==
  ASSUME MemoryInv, NEW ptr \in Word, NEW scheme \in Word, NEW out \in Word,
         Addr(ptr, scheme, out)
  PROVE  MemoryInv'
<1> DEFINE op == IF scheme = SCHEME_ML_DSA THEN "VerifyMl" ELSE "VerifySlh"
           region == mem_region(ptr, PK[op])
           input == <<scheme % BYTE>> \o region
<1>1. CASE \E f : Fault(f)
  BY <1>1, FaultKeeps
<1>2. CASE /\ InMemory(ptr, PK[op]) /\ InMemory(out, STORAGE_KEY_BYTES)
           /\ mem_write(out, Sha3[input])
           /\ UNCHANGED <<status, read, auth, granted, touched, bill>>
  <2>1. PK[op] \in Nat
    BY SignedSizes DEF VerifyOps
  <2> HIDE DEF op
  <2>2. /\ ptr \in Nat /\ out \in Nat /\ scheme \in Nat
        /\ mem \in [0..(MEM_BYTES - 1) -> Byte] /\ Stored
    BY WordIsNat DEF MemoryInv
  <2>3. region \in [1..PK[op] -> Byte] /\ Len(region) = PK[op]
    BY <1>2, <2>1, <2>2, RegionType
  <2>4. scheme % BYTE \in Byte
    BY <2>2, Sizes, DivMod DEF Byte
  <2> HIDE DEF region
  <2>5. input \in Seq(Byte) /\ Len(input) = PK[op] + 1
    BY <2>1, <2>3, <2>4
  <2> HIDE DEF input
  <2>6. input \in [1..(PK[op] + 1) -> Byte]
    BY <2>5
  <2>7. PK[op] + 1 \in 0..(MEM_BYTES + 1)
    BY <1>2, <2>1, <2>2, Sizes DEF InMemory
  <2>8. Sha3[input] \in [1..STORAGE_KEY_BYTES -> Byte]
    BY <2>6, <2>7, DigestsAreKeys
  <2>9. mem' \in [0..(MEM_BYTES - 1) -> Byte] /\ Stored'
    BY <1>2, <2>2, <2>8, Sizes, WriteKeeps
  <2> QED BY <1>2, <2>9, OnlyWrites
<1>3. QED
  BY <1>1, <1>2 DEF Addr

LEMMA VerifyKeeps ==
  ASSUME MemoryInv, NEW op \in VerifyOps, NEW ptr \in Word, NEW len \in Word,
         Verify(op, ptr, len)
  PROVE  MemoryInv'
<1> DEFINE region == mem_region(ptr, len)
           n == PK[op] + SIG[op]
           message == SubSeq(region, n + 1, len)
<1>1. CASE ~(InMemory(ptr, len) /\ len >= n)
  BY <1>1, FaultKeeps DEF Verify
<1>2. CASE InMemory(ptr, len) /\ len >= n
  <2>1. /\ ptr \in Nat /\ len \in Nat /\ n \in Nat
        /\ mem \in [0..(MEM_BYTES - 1) -> Byte]
    BY WordIsNat, SignedSizes DEF MemoryInv
  <2>2. region \in [1..len -> Byte] /\ Len(region) = len
    BY <1>2, <2>1, RegionType
  <2>3. /\ billed' = tail(op, len) /\ hashed' = Len(message)
        /\ UNCHANGED <<mem, auth, intact, granted, touched>>
    BY <1>2 DEF Verify
  <2>4. tail(op, len) = len - n
    <3>1. tail(op, len) = IF len > n THEN len - n ELSE 0
      BY DEF tail
    <3> HIDE DEF n
    <3> QED BY <1>2, <2>1, <3>1
  <2> HIDE DEF region, n
  <2>5. Len(message) = len - n
    <3>1. region \in Seq(Byte)
      BY <2>1, <2>2
    <3>2. n + 1 \in 1..(Len(region) + 1) /\ len \in n..Len(region)
      BY <1>2, <2>1, <2>2
    <3> QED BY <2>1, <2>2, <3>1, <3>2
  <2>6. BilledForTheMessage'
    BY <2>3, <2>4, <2>5 DEF BilledForTheMessage
  <2>7. /\ mem' = mem /\ intact' = intact /\ granted' = granted
        /\ touched' = touched
        /\ keyed_authorized_reads' = keyed_authorized_reads
        /\ keyed_authorized_writes' = keyed_authorized_writes
    BY <2>3 DEF auth
  <2>8. Stored' /\ AuthorisesWhatItHashed'
    BY <2>7 DEF MemoryInv, Stored, to_be_bytes, AuthorisesWhatItHashed
  <2>9. TouchesOnlyDeclared'
    BY <2>7 DEF MemoryInv, TouchesOnlyDeclared, Spell, from_be_bytes
  <2> QED BY <2>6, <2>7, <2>8, <2>9 DEF MemoryInv
<1> QED BY <1>1, <1>2

(* The grants of a hash: both sets of authorised keys grow by exactly the  *)
(* digest, and only under a base of their own list.                        *)
LEMMA TaintKeeps ==
  ASSUME AuthorisesWhatItHashed, NEW base, NEW key,
         base = {} \/ \E x : base = {x},
         taint_keyed_from_hash(base, key),
         granted' = granted \cup
             (base \cap (keyed_reads \cup keyed_writes)) \X {key}
  PROVE  AuthorisesWhatItHashed'
<1> DEFINE new == base \cap (keyed_reads \cup keyed_writes)
<1>1. \A h \in new \X {key} : h[1] \in new /\ h[2] = key
  OBVIOUS
<1>2. \A x \in new : <<x, key>> \in new \X {key}
  OBVIOUS
<1>3. keyed_authorized_writes' =
            {g[2] : g \in {h \in granted' : h[1] \in keyed_writes}}
  <2>1. CASE base \cap keyed_writes # {}
    <3>1. PICK x \in base : x \in keyed_writes
      BY <2>1
    <3>2. x \in new /\ <<x, key>> \in granted'
      BY <3>1, <1>2
    <3>3. keyed_authorized_writes' = keyed_authorized_writes \cup {key}
      BY <2>1 DEF taint_keyed_from_hash
    <3>4. <<x, key>>[1] = x /\ <<x, key>>[2] = key
      OBVIOUS
    <3>5. key \in {g[2] : g \in {h \in granted' : h[1] \in keyed_writes}}
      BY <3>1, <3>2, <3>4
    <3> QED BY <3>3, <3>5, <1>1 DEF AuthorisesWhatItHashed
  <2>2. CASE base \cap keyed_writes = {}
    <3>1. keyed_authorized_writes' = keyed_authorized_writes
      BY <2>2 DEF taint_keyed_from_hash
    <3>2. \A h \in new \X {key} : h[1] \notin keyed_writes
      BY <2>2, <1>1
    <3>3. {h \in granted' : h[1] \in keyed_writes}
            = {h \in granted : h[1] \in keyed_writes}
      BY <3>2
    <3> QED BY <3>1, <3>3 DEF AuthorisesWhatItHashed
  <2> QED BY <2>1, <2>2
<1>4. keyed_authorized_reads' = {g[2] : g \in granted'}
  <2>1. CASE new = {}
    <3>1. keyed_authorized_reads' = keyed_authorized_reads
      BY <2>1 DEF taint_keyed_from_hash
    <3>2. granted' = granted
      BY <2>1
    <3> QED BY <3>1, <3>2 DEF AuthorisesWhatItHashed
  <2>2. CASE new # {}
    <3>1. keyed_authorized_reads' = keyed_authorized_reads \cup {key}
      BY <2>2 DEF taint_keyed_from_hash
    <3>2. PICK x : x \in new
      BY <2>2
    <3>3. <<x, key>> \in granted' /\ <<x, key>>[2] = key
      BY <3>2, <1>2
    <3> QED BY <3>1, <3>3, <1>1 DEF AuthorisesWhatItHashed
  <2> QED BY <2>1, <2>2
<1> QED BY <1>3, <1>4 DEF AuthorisesWhatItHashed

LEMMA HashKeeps ==
  ASSUME MemoryInv, NEW ptr \in Word, NEW len \in Word, NEW out \in Word,
         Hash(ptr, len, out)
  PROVE  MemoryInv'
<1> DEFINE base == Base(ptr, len)
           region == mem_region(ptr, len)
           digest == Sha3[region]
<1>1. CASE ~(InMemory(ptr, len) /\ InMemory(out, STORAGE_KEY_BYTES))
  BY <1>1, FaultKeeps DEF Hash
<1>2. CASE InMemory(ptr, len) /\ InMemory(out, STORAGE_KEY_BYTES)
  <2>1. /\ mem_write(out, digest)
        /\ taint_keyed_from_hash(base, digest)
        /\ granted' = granted \cup
               (base \cap (keyed_reads \cup keyed_writes)) \X {digest}
        /\ touched' = touched /\ billed' = billed /\ hashed' = hashed
    BY <1>2 DEF Hash, bill
  <2>2. base = {} \/ \E x : base = {x}
    BY DEF Base
  <2>3. /\ ptr \in Nat /\ len \in Nat /\ out \in Nat
        /\ mem \in [0..(MEM_BYTES - 1) -> Byte] /\ Stored
    BY WordIsNat DEF MemoryInv
  <2>4. region \in [1..len -> Byte]
    BY <1>2, <2>3, RegionType
  <2>5. len \in 0..(MEM_BYTES + 1)
    BY <1>2, <2>3, Sizes DEF InMemory
  <2> HIDE DEF region
  <2>6. digest \in [1..STORAGE_KEY_BYTES -> Byte]
    BY <2>4, <2>5, DigestsAreKeys
  <2> HIDE DEF digest, base
  <2>7. mem' \in [0..(MEM_BYTES - 1) -> Byte] /\ Stored'
    BY <2>1, <2>3, <2>6, Sizes, WriteKeeps
  <2>8. AuthorisesWhatItHashed'
    BY <2>1, <2>2, TaintKeeps DEF MemoryInv
  <2>9. TouchesOnlyDeclared'
    <3>1. granted \subseteq granted'
      BY <2>1
    <3>2. /\ {g[2] : g \in granted} \subseteq {g[2] : g \in granted'}
          /\ {g[2] : g \in {h \in granted : h[1] \in keyed_writes}}
               \subseteq {g[2] : g \in {h \in granted' : h[1] \in keyed_writes}}
      BY <3>1
    <3> DEFINE r == Spell(reads \cup writes)
               w == Spell(writes)
    <3>3. touched["read"] \subseteq r \cup {g[2] : g \in granted}
      BY DEF MemoryInv, TouchesOnlyDeclared
    <3>4. touched["write"] \subseteq w
             \cup {g[2] : g \in {h \in granted : h[1] \in keyed_writes}}
      BY DEF MemoryInv, TouchesOnlyDeclared
    <3>5. r' = r /\ w' = w
      BY DEF Spell, from_be_bytes
    <3> HIDE DEF r, w
    <3>6. touched'["read"] \subseteq r \cup {g[2] : g \in granted'}
      BY <2>1, <3>2, <3>3
    <3>7. touched'["write"] \subseteq w
             \cup {g[2] : g \in {h \in granted' : h[1] \in keyed_writes}}
      BY <2>1, <3>2, <3>4
    <3> QED BY <3>6, <3>7 DEF TouchesOnlyDeclared, r, w, Spell, from_be_bytes
  <2>10. BilledForTheMessage'
    BY <2>1 DEF MemoryInv, BilledForTheMessage
  <2>11. touched' \in
           [{"read", "write"} -> SUBSET [1..STORAGE_KEY_BYTES -> Byte]]
    BY <2>1 DEF MemoryInv
  <2> QED BY <2>7, <2>8, <2>9, <2>10, <2>11 DEF MemoryInv
<1> QED BY <1>1, <1>2

(* A key that the access check lets through is declared for that access. *)
LEMMA MayTouchDeclared ==
  ASSUME AuthorisesWhatItHashed
  PROVE  /\ MayTouch("read") \subseteq
               Spell(reads \cup writes) \cup {g[2] : g \in granted}
         /\ MayTouch("write") \subseteq Spell(writes)
               \cup {g[2] : g \in {h \in granted : h[1] \in keyed_writes}}
<1>1. ASSUME NEW slots, slots \subseteq Word
      PROVE  Rows(slots) \subseteq Spell(slots)
  <2>1. ASSUME NEW v \in slots PROVE scalar_key(v) \in Spell(slots)
    <3>1. v \in Word
      BY <1>1
    <3>2. /\ scalar_key(v) \in [1..STORAGE_KEY_BYTES -> Byte]
          /\ from_be_bytes(scalar_key(v)) = v
      BY <3>1, RowSpells
    <3> QED BY <3>2 DEF Spell
  <2> QED BY <2>1 DEF Rows
<1>2. reads \cup writes \subseteq Word /\ writes \subseteq Word
  BY DeclaredAreWords
<1>3. Rows(reads \cup writes) \subseteq Spell(reads \cup writes)
  BY <1>1, <1>2
<1>4. Rows(writes) \subseteq Spell(writes)
  BY <1>1, <1>2
<1> QED BY <1>3, <1>4 DEF MayTouch, AuthorisesWhatItHashed

LEMMA AccessKeeps ==
  ASSUME MemoryInv, NEW mode \in {"read", "write"}, NEW a \in Word,
         Access(mode, a)
  PROVE  MemoryInv'
<1> DEFINE key == read_key(a)
<1>1. CASE \E f : Fault(f)
  BY <1>1, FaultKeeps
<1>2. CASE /\ InMemory(a, STORAGE_KEY_BYTES) /\ key \in MayTouch(mode)
           /\ touched' = [touched EXCEPT ![mode] = @ \cup {key}]
           /\ UNCHANGED <<mem, status, read, auth, intact, granted, bill>>
  <2>1. /\ mem' = mem /\ intact' = intact /\ granted' = granted
        /\ billed' = billed /\ hashed' = hashed
        /\ keyed_authorized_reads' = keyed_authorized_reads
        /\ keyed_authorized_writes' = keyed_authorized_writes
    BY <1>2 DEF auth, bill
  <2>2. key \in [1..STORAGE_KEY_BYTES -> Byte]
    BY <1>2, RegionType, WordIsNat, Sizes DEF MemoryInv, read_key
  <2> HIDE DEF key
  <2>3. touched' \in
           [{"read", "write"} -> SUBSET [1..STORAGE_KEY_BYTES -> Byte]]
    BY <1>2, <2>2 DEF MemoryInv
  <2>4. Stored' /\ AuthorisesWhatItHashed' /\ BilledForTheMessage'
    BY <2>1 DEF MemoryInv, Stored, to_be_bytes, AuthorisesWhatItHashed,
                BilledForTheMessage
  <2>5. TouchesOnlyDeclared'
    <3> DEFINE R == Spell(reads \cup writes) \cup {g[2] : g \in granted}
               U == Spell(writes)
                  \cup {g[2] : g \in {h \in granted : h[1] \in keyed_writes}}
    <3>1. touched["read"] \subseteq R /\ touched["write"] \subseteq U
      BY DEF MemoryInv, TouchesOnlyDeclared
    <3>2. MayTouch("read") \subseteq R /\ MayTouch("write") \subseteq U
      BY MayTouchDeclared DEF MemoryInv
    <3>3. R' = R /\ U' = U
      BY <2>1 DEF Spell, from_be_bytes
    <3>4. DOMAIN touched = {"read", "write"}
      BY DEF MemoryInv
    <3> HIDE DEF R, U
    <3>5. touched'["read"] \subseteq R
      <4>1. CASE mode = "read"
        BY <1>2, <3>1, <3>2, <3>4, <4>1
      <4>2. CASE mode = "write"
        BY <1>2, <3>1, <3>4, <4>2
      <4> QED BY <4>1, <4>2
    <3>6. touched'["write"] \subseteq U
      <4>1. CASE mode = "write"
        BY <1>2, <3>1, <3>2, <3>4, <4>1
      <4>2. CASE mode = "read"
        BY <1>2, <3>1, <3>4, <4>2
      <4> QED BY <4>1, <4>2
    <3>7. touched'["read"] \subseteq R' /\ touched'["write"] \subseteq U'
      BY <3>3, <3>5, <3>6
    <3> QED BY <3>7 DEF TouchesOnlyDeclared, R, U
  <2> QED BY <2>1, <2>3, <2>4, <2>5 DEF MemoryInv
<1> QED BY <1>1, <1>2 DEF Access

LEMMA MemoryStep == MemoryInv /\ [Next]_vars => MemoryInv'
<1> SUFFICES ASSUME MemoryInv, [Next]_vars PROVE MemoryInv'
  OBVIOUS
<1>1. ASSUME NEW a \in Word, MLoad(a) PROVE MemoryInv'
  BY <1>1, MLoadKeeps
<1>2. ASSUME NEW a \in Word, NEW v \in Word, MStore(a, v) PROVE MemoryInv'
  BY <1>2, MStoreKeeps
<1>3. ASSUME NEW ptr \in Word, NEW len \in Word, NEW out \in Word,
             Hash(ptr, len, out)
      PROVE  MemoryInv'
  BY <1>3, HashKeeps
<1>4. ASSUME NEW ptr \in Word, NEW scheme \in Word, NEW out \in Word,
             Addr(ptr, scheme, out)
      PROVE  MemoryInv'
  BY <1>4, AddrKeeps
<1>5. ASSUME NEW op \in VerifyOps, NEW ptr \in Word, NEW len \in Word,
             Verify(op, ptr, len)
      PROVE  MemoryInv'
  BY <1>5, VerifyKeeps
<1>6. ASSUME NEW mode \in {"read", "write"}, NEW a \in Word, Access(mode, a)
      PROVE  MemoryInv'
  BY <1>6, AccessKeeps
<1>7. ASSUME UNCHANGED vars PROVE MemoryInv'
  BY <1>7, MemoryStutter DEF vars
<1> QED BY <1>1, <1>2, <1>3, <1>4, <1>5, <1>6, <1>7 DEF Next

(* An intact word reads back by MLOAD and as the base of a HASH. *)
LEMMA StoredReadsBack == MemoryInv => IntactWordsReadBack
<1> SUFFICES ASSUME MemoryInv, NEW w \in intact
             PROVE  mem_load(w[1]) = w[2] /\ Base(w[1], WORD_BYTES) = {w[2]}
  BY DEF IntactWordsReadBack
<1>1. PICK a, v \in Word :
           /\ w = <<a, v>>
           /\ a + WORD_BYTES <= MEM_BYTES
           /\ \A i \in 1..WORD_BYTES : mem[a + i - 1] = to_be_bytes(v)[i]
  BY DEF MemoryInv, Stored
<1>2. mem_region(a, WORD_BYTES) = to_be_bytes(v)
  BY <1>1 DEF mem_region, to_be_bytes
<1>3. from_be_bytes(mem_region(a, WORD_BYTES)) = v
  BY <1>2, WordBytes
<1>4. mem_load(a) = v
  BY <1>3 DEF mem_load
<1>5. WORD_BYTES >= WORD_BYTES /\ InMemory(a, WORD_BYTES)
  BY <1>1, Sizes DEF InMemory
<1>6. Base(a, WORD_BYTES) = {v}
  BY <1>3, <1>5 DEF Base
<1> QED BY <1>1, <1>4, <1>6

(* The inductive invariant holds in every reachable state of the memory    *)
(* opcodes (state.rs and the memory arms of the interpreter's match).      *)
THEOREM MemoryInvHolds == Spec => []MemoryInv
BY MemoryInit, MemoryStep, PTL DEF Spec

(* HASH authorises exactly the digests of the preimages it was given under *)
(* a declared base, read before the digest is written (Instr::Hash).       *)
THEOREM HashAuthority == Spec => []AuthorisesWhatItHashed
<1>1. MemoryInv => AuthorisesWhatItHashed
  BY DEF MemoryInv
<1> QED BY <1>1, MemoryInvHolds, PTL

(* No key gets past the check of SLOAD or SSTORE that is not the row of a  *)
(* declared slot or the digest of a preimage under a declared base,        *)
(* whatever wrote its bytes (read_key, scalar_key).                        *)
THEOREM DeclaredAccess == Spec => []TouchesOnlyDeclared
<1>1. MemoryInv => TouchesOnlyDeclared
  BY DEF MemoryInv
<1> QED BY <1>1, MemoryInvHolds, PTL

(* A word that MSTORE put in memory reads back until a later write         *)
(* overlaps it: mem_load undoes mem_store for words of every width.        *)
THEOREM StoredWords == Spec => []IntactWordsReadBack
BY StoredReadsBack, MemoryInvHolds, PTL

(* A signature opcode is charged for every byte of the message it hashes:  *)
(* the tail priced from the length operand is the message cut from memory. *)
THEOREM MessageBilled == Spec => []BilledForTheMessage
<1>1. MemoryInv => BilledForTheMessage
  BY DEF MemoryInv
<1> QED BY <1>1, MemoryInvHolds, PTL
=============================================================================
