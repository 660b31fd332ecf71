------------------------------- MODULE Base64 -------------------------------
(***************************************************************************)
(* base64Encode and base64Decode of src/Security.cpp, which write salts    *)
(* and hashes into the password file.  A character is its index in         *)
(* base64EncodeAlphabet; '=' is Padding, which base64DecodeAlphabet, zero  *)
(* wherever the alphabet says nothing, takes for 0.                        *)
(***************************************************************************)
EXTENDS Cutting, SequencesExt

Padding == 64

Octet == 0..255

\* The four characters of three bytes: (a & 0xfc) >> 2, (a & 3) << 4 | b >> 4,
\* (b & 15) << 2 | c >> 6, c & 63.
Characters(a, b, c) ==
  <<a \div 4, (a % 4) * 16 + (b \div 16), (b % 16) * 4 + (c \div 64), c % 64>>

\* The byte at place i of a group, 0 if the group is shorter.
ByteAt(g, i) == IF i \in DOMAIN g THEN g[i] ELSE 0

\* Mutant: the second byte counts only in a whole group.
EncodeGroupShort(g) ==
  LET c == Characters(g[1], IF Len(g) = 3 THEN g[2] ELSE 0, ByteAt(g, 3))
  IN  [i \in 1..4 |-> IF i <= Len(g) + 1 THEN c[i] ELSE Padding]

\* Padding stays where nothing is written.
EncodeGroup(g) ==
  LET c == Characters(g[1], ByteAt(g, 2), ByteAt(g, 3))
  IN  [i \in 1..4 |-> IF i <= Len(g) + 1 THEN c[i] ELSE Padding]

base64Encode(data) ==
  LET groups == Pieces(data, 3)
  IN  FlattenSeq([k \in DOMAIN groups |-> EncodeGroup(groups[k])])

\* base64DecodeAlphabet.
Decoded(c) == IF c = Padding THEN 0 ELSE c

\* The bytes of four characters, with the casts to uint8_t.
Octets(a, b, c, d) ==
  <<((a * 4) % 256) + (b \div 16), ((b * 16) % 256) + (c \div 4), ((c * 64) % 256) + d>>

\* How many characters come before the first padding.
Data(g) == Min({i - 1 : i \in {j \in DOMAIN g : g[j] = Padding}} \cup {Len(g)})

\* A group of four is three bytes, padding or not.  Of a shorter one at the end,
\* each character before the padding starts a byte.
DecodeGroup(g) ==
  LET d == [i \in 1..4 |-> IF i \in DOMAIN g THEN Decoded(g[i]) ELSE 0]
      octets == Octets(d[1], d[2], d[3], d[4])
  IN  IF Len(g) = 4 THEN octets ELSE SubSeq(octets, 1, Data(g))

base64Decode(text) ==
  LET groups == Pieces(text, 4)
  IN  FlattenSeq([k \in DOMAIN groups |-> DecodeGroup(groups[k])])

\* The assertion index+3 > base64Length fails when three characters are left.
DecodeAborts(text) ==
  \E g \in ToSet(Pieces(text, 4)) : Len(g) = 3 /\ Data(g) = 3
=============================================================================
