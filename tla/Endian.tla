-------------------------------- MODULE Endian --------------------------------
(***************************************************************************)
(* endian.h: the byte order conversions, as two machines use them to       *)
(* exchange a word through a memory of bytes, each built for its own       *)
(* platform and each with either of the two ways the header offers: to     *)
(* swap a word and store it as it is, or to store it octet by octet.       *)
(*                                                                         *)
(* A word is the set of the numbers of its bits that are one, so that the  *)
(* operators << >> & | of the source are Shl, Shr, \cap and \cup.          *)
(***************************************************************************)
EXTENDS Integers, Sequences

CONSTANT Bits    \* bits of an octet: 8

ASSUME EndianAssumption == Bits \in Nat \ {0}

Octet(k) == k * Bits .. (k * Bits + Bits - 1)
Octets(n) == 0 .. n * Bits - 1
Shl(x, k) == {i + k * Bits : i \in x}
Shr(x, k) == {i - k * Bits : i \in {j \in x : j >= k * Bits}}

(* The header picks BYTE_ORDER and the types by the platform; for two of them
   uint8_t is an unsigned short, and an octet is stored in two bytes; for one
   uint32_t is an unsigned long, which may have 64 bits (lp64).
   LITTLE_ENDIAN and BIG_ENDIAN are left to a header of the system: without it
   both are 0 to the preprocessor, and so equal. *)
Platforms ==
  [order : {"big"}, uint8_t : {1}, lp64 : {FALSE}, known : BOOLEAN] \cup
                                                         \* MicroBlaze
  [order : {"little"}, uint8_t : {2}, lp64 : {FALSE}, known : BOOLEAN] \cup
                                                         \* STM32, NXP
  [order : {"little"}, uint8_t : {1}, lp64 : BOOLEAN, known : BOOLEAN]
                                                         \* i386, x86_64

BigBranch(m) == m.order = "big" \/ ~m.known

-----------------------------------------------------------------------------
(* Swapping *)

bswap16(x) == (Shl(x, 1) \cap Octet(1)) \cup (Shr(x, 1) \cap Octet(0))

bswap32(x) ==
  (Shl(x, 3) \cap Octet(3)) \cup (Shl(x, 1) \cap Octet(2)) \cup
  (Shr(x, 1) \cap Octet(1)) \cup (Shr(x, 3) \cap Octet(0))

bswap64_Halves(x) ==      \* mutation: the halves stay where they are
  Shl(bswap32(Shr(x, 4)), 4) \cup bswap32(x \cap Octets(4))

bswap64(x) == Shl(bswap32(x \cap Octets(4)), 4) \cup bswap32(Shr(x, 4))

bswap(n, x) ==
  CASE n = 2 -> bswap16(x) [] n = 4 -> bswap32(x) [] n = 8 -> bswap64(x)

(* htobeN and htoleN, and beNtoh and leNtoh, which are the same macros. *)
hto(m, wire, n, x) ==
  IF (wire = "big") = BigBranch(m) THEN x ELSE bswap(n, x)

-----------------------------------------------------------------------------
(* Encoding into an array of octets, and decoding *)

be16enc(u) == <<Shr(u, 1) \cap Octet(0), u \cap Octet(0)>>
le16enc(u) == <<u \cap Octet(0), Shr(u, 1) \cap Octet(0)>>

be32enc(u) == <<Shr(u, 3) \cap Octet(0), Shr(u, 2) \cap Octet(0),
                Shr(u, 1) \cap Octet(0), u \cap Octet(0)>>
le32enc_Swapped(u) ==     \* mutation: two octets in the wrong order
  <<u \cap Octet(0), Shr(u, 2) \cap Octet(0),
    Shr(u, 1) \cap Octet(0), Shr(u, 3) \cap Octet(0)>>
le32enc(u) == <<u \cap Octet(0), Shr(u, 1) \cap Octet(0),
                Shr(u, 2) \cap Octet(0), Shr(u, 3) \cap Octet(0)>>

be64enc(u) == be32enc(Shr(u, 4)) \o be32enc(u \cap Octets(4))
le64enc(u) == le32enc(u \cap Octets(4)) \o le32enc(Shr(u, 4))

be16dec(p) == Shl(p[1], 1) \cup p[2]
le16dec(p) == Shl(p[2], 1) \cup p[1]

(* p[0] << 24 is an int: converted to 64 bits its sign goes with it. *)
Widened(m, x) ==
  IF m.lp64 /\ 4 * Bits - 1 \in x THEN x \cup (Octets(8) \ Octets(4)) ELSE x

be32dec(m, p) ==
  Widened(m, (Shl(p[1], 3) \cup Shl(p[2], 2) \cup Shl(p[3], 1) \cup p[4])
               \cap Octets(4))
le32dec(m, p) ==
  Widened(m, (Shl(p[4], 3) \cup Shl(p[3], 2) \cup Shl(p[2], 1) \cup p[1])
               \cap Octets(4))

be64dec(m, p) ==
  (Shl(be32dec(m, p), 4) \cap Octets(8)) \cup be32dec(m, SubSeq(p, 5, 8))
le64dec(m, p) ==
  le32dec(m, p) \cup (Shl(le32dec(m, SubSeq(p, 5, 8)), 4) \cap Octets(8))

enc(wire, n, u) ==
  CASE wire = "big" /\ n = 2 -> be16enc(u)
    [] wire = "big" /\ n = 4 -> be32enc(u)
    [] wire = "big" /\ n = 8 -> be64enc(u)
    [] wire = "little" /\ n = 2 -> le16enc(u)
    [] wire = "little" /\ n = 4 -> le32enc(u)
    [] wire = "little" /\ n = 8 -> le64enc(u)

dec(m, wire, n, p) ==
  CASE wire = "big" /\ n = 2 -> be16dec(p)
    [] wire = "big" /\ n = 4 -> be32dec(m, p)
    [] wire = "big" /\ n = 8 -> be64dec(m, p)
    [] wire = "little" /\ n = 2 -> le16dec(p)
    [] wire = "little" /\ n = 4 -> le32dec(m, p)
    [] wire = "little" /\ n = 8 -> le64dec(m, p)

-----------------------------------------------------------------------------
(* What a machine stores for a word of n bytes, and loads; the bytes behind
   those stored are taken as zero. *)

Place(m, n, i) == IF m.order = "big" THEN n - i ELSE i - 1

Bytes(m, n, x) == [i \in 1 .. n |-> Shr(x, Place(m, n, i)) \cap Octet(0)]

ByteAt(mem, i) == IF i \in DOMAIN mem THEN mem[i] ELSE {}

Value(m, n, mem, first) ==
  UNION {Shl(ByteAt(mem, first + i - 1), Place(m, n, i)) : i \in 1 .. n}

(* An array of uint8_t of the machine. *)
Array(m, p) ==
  [i \in 1 .. Len(p) * m.uint8_t |->
     Bytes(m, m.uint8_t, p[((i - 1) \div m.uint8_t) + 1])[((i - 1) % m.uint8_t) + 1]]

Elements(m, n, mem) ==
  [i \in 1 .. n |-> Value(m, m.uint8_t, mem, (i - 1) * m.uint8_t + 1)]

-----------------------------------------------------------------------------
(* The exchange of a word *)

VARIABLES sender, receiver,        \* platforms
          wire,                    \* the order agreed: "big" or "little"
          size,                    \* of the word, in bytes
          sent,                    \* the word
          storedBy, memory,        \* how it is stored, and the bytes
          loadedBy, received       \* how it is loaded, and the result

exchangeVars ==
  <<sender, receiver, wire, size, sent, storedBy, memory, loadedBy, received>>

Words == UNION {[bytes : {n}, bits : SUBSET Octets(n)] : n \in {2, 4, 8}}

ExchangeInit ==
  /\ sender \in Platforms
  /\ receiver \in Platforms
  /\ wire \in {"big", "little"}
  /\ \E w \in Words : size = w.bytes /\ sent = w.bits
  /\ storedBy = "nobody"
  /\ memory = <<>>
  /\ loadedBy = "nobody"
  /\ received = {}

Store(way, bytes) ==
  /\ storedBy = "nobody"
  /\ storedBy' = way
  /\ memory' = bytes
  /\ UNCHANGED <<sender, receiver, wire, size, sent, loadedBy, received>>

Load(way, word) ==
  /\ storedBy # "nobody"
  /\ loadedBy = "nobody"
  /\ loadedBy' = way
  /\ received' = word
  /\ UNCHANGED <<sender, receiver, wire, size, sent, storedBy, memory>>

StoreSwapped ==
  Store("swap", Bytes(sender, size, hto(sender, wire, size, sent)))

StoreEncoded == Store("array", Array(sender, enc(wire, size, sent)))

LoadSwapped ==
  Load("swap", hto(receiver, wire, size, Value(receiver, size, memory, 1)))

LoadDecoded == 
  Load("array", dec(receiver, wire, size, Elements(receiver, size, memory)))

ExchangeNext == StoreSwapped \/ StoreEncoded \/ LoadSwapped \/ LoadDecoded

ExchangeSpec == ExchangeInit /\ [][ExchangeNext]_exchangeVars

-----------------------------------------------------------------------------
(* Properties *)

Stride(m, way) == IF way = "array" THEN m.uint8_t ELSE 1

ExchangeTypeOK ==
  /\ sender \in Platforms /\ receiver \in Platforms
  /\ size \in {2, 4, 8} /\ sent \subseteq Octets(size)
  /\ storedBy # "nobody" => Len(memory) = size * Stride(sender, storedBy)
  /\ \A i \in DOMAIN memory : memory[i] \subseteq Octet(0)
  /\ received \subseteq Octets(2 * size)

(* The way the machine has chosen works there. *)
Usable(m, way) == way = "swap" => m.known

(* "big- and little-endian multi-octet values to/from an octet stream"
   (endian.h:161): what is stored, by either way and on every platform, is the
   octets of the word in the order agreed, provided the macros of the byte
   orders are defined and uint8_t is one byte. *)
OctetStream ==
  storedBy # "nobody" /\ Usable(sender, storedBy) /\ Stride(sender, storedBy) = 1
    => \A i \in 1 .. size :
         Shl(memory[i], IF wire = "big" THEN size - i ELSE i - 1)
           = sent \cap Octet(IF wire = "big" THEN size - i ELSE i - 1)

Agree ==
  /\ loadedBy # "nobody"
  /\ Usable(sender, storedBy) /\ Usable(receiver, loadedBy)
  /\ Stride(sender, storedBy) = Stride(receiver, loadedBy)
  /\ ~(receiver.lp64 /\ loadedBy = "array" /\ 4 * Bits - 1 \in sent)

(* A word stored by one machine and loaded by another is the same word, for
   every pair of platforms and every pair of ways that agree on the size of an
   octet in memory. The STM32 build, which makes uint8_t two bytes, can decode
   what it has encoded but exchanges nothing else; and a machine with a 64-bit
   long decodes only words whose bit 31 is zero. *)
WordArrives == Agree => received = sent
=============================================================================
