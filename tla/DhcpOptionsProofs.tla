------------------------- MODULE DhcpOptionsProofs -------------------------
(***************************************************************************)
(* The option walk and the replies of dhcps.c, for messages of any number  *)
(* of options with any data, and any addresses.                            *)
(*                                                                         *)
(* What is encoded is a flattened sequence, which the library defines with *)
(* a recursive function. Its layout is found by induction: as the prover   *)
(* takes no induction over predicates, over sets that have a least element *)
(* (UpTo). The inductive invariant OptInv says that the walk over a        *)
(* well-formed message is always at the beginning of an option (AtItem),   *)
(* with the padding before it in pairs, and knows what the options before  *)
(* it ask for. That the walk stays in the field and that the reply is the  *)
(* expected one follow from it when the walk reads an end mark.            *)
(***************************************************************************)
EXTENDS DhcpOptions, WellFoundedInduction, SequenceTheorems, TLAPS

-----------------------------------------------------------------------------
(* Induction over the natural numbers, with sets instead of predicates.     *)

\* Every set of natural numbers that is not empty has a least element.
LEMMA Least ==
  ASSUME NEW T \in SUBSET Nat, T # {}
  PROVE  \E x \in T : \A y \in T : x <= y
<1> DEFINE R == OpToRel(<, Nat)
<1>1. IsWellFoundedOn(R, Nat)
  BY NatLessThanWellFounded
<1>2. \A x, y \in Nat : y < x => <<y, x>> \in R
  BY DEF OpToRel
<1> HIDE DEF R
<1>3. PICK x \in T : \A y \in T : ~ (<<y, x>> \in R)
  BY <1>1, WFMin
<1>4. \A y \in T : y \in Nat /\ x \in Nat /\ ~(y < x)
  BY <1>2, <1>3
<1>5. \A y \in T : x <= y
  BY <1>4
<1> QED
  BY <1>5

\* What holds of 1, and of k + 1 when it holds of k, holds up to n.
LEMMA UpTo ==
  ASSUME NEW n \in Nat, NEW S,
         1 \in S, \A k \in 1 .. n - 1 : k \in S => k + 1 \in S
  PROVE  1 .. n \subseteq S
<1> DEFINE T == (1 .. n) \ S
<1> SUFFICES ASSUME T # {} PROVE FALSE
  OBVIOUS
<1>1. T \in SUBSET Nat
  OBVIOUS
<1>2. PICK x \in T : \A y \in T : x <= y
  <2> HIDE DEF T
  <2> QED
    BY <1>1, Least
<1>3. x \in 2 .. n
  OBVIOUS
<1>4. x - 1 \in 1 .. n - 1 /\ ~(x <= x - 1)
  BY <1>3
<1>5. x - 1 \in S
  BY <1>2, <1>4
<1>6. (x - 1) + 1 = x
  BY <1>3
<1> QED
  BY <1>4, <1>5, <1>6

-----------------------------------------------------------------------------
(* Flattening. The library defines FlattenSeq with a recursive function: a   *)
(* function that satisfies its equation exists up to every length.           *)

Flattens(g, s, n) ==
  g = [i \in 1 .. n |-> IF i = 1 THEN s[i] ELSE g[i - 1] \o s[i]]

\* A function with the equation of FlattenSeq exists up to every length.
LEMMA FlattenExists ==
  ASSUME NEW s, NEW n \in Nat
  PROVE  \E g : Flattens(g, s, n)
<1> DEFINE S == {m \in Nat : \E g : Flattens(g, s, m)}
<1>1. 0 \in S
  <2> DEFINE g == [i \in 1 .. 0 |-> IF i = 1 THEN s[i] ELSE <<>>]
  <2>1. Flattens(g, s, 0)
    BY DEF Flattens
  <2> QED
    BY <2>1
<1>2. ASSUME NEW m \in Nat, m \in S
      PROVE  m + 1 \in S
  <2>1. PICK g : Flattens(g, s, m)
    BY <1>2
  <2> DEFINE h == [i \in 1 .. m + 1 |-> IF i = 1 THEN s[i] ELSE g[i - 1] \o s[i]]
  <2>2. ASSUME NEW i \in 1 .. m
        PROVE  h[i] = g[i]
    <3>1. i \in 1 .. m + 1
      OBVIOUS
    <3>2. h[i] = IF i = 1 THEN s[i] ELSE g[i - 1] \o s[i]
      BY <3>1
    <3>3. g[i] = IF i = 1 THEN s[i] ELSE g[i - 1] \o s[i]
      BY <2>1 DEF Flattens
    <3> QED
      BY <3>2, <3>3
  <2>3. \A i \in 1 .. m + 1 : i # 1 => i - 1 \in 1 .. m
    OBVIOUS
  <2>4. Flattens(h, s, m + 1)
    BY <2>2, <2>3 DEF Flattens
  <2> QED
    BY <2>4
<1>3. 1 \in S
  BY <1>1, <1>2, 0 + 1 = 1
<1>4. \A k \in 1 .. n - 1 : k \in S => k + 1 \in S
  BY <1>2
<1> HIDE DEF S
<1>5. n \in S
  <2>1. 1 .. n \subseteq S
    BY <1>3, <1>4, UpTo
  <2> QED
    BY <1>1, <2>1
<1> QED
  BY <1>5 DEF S

\* FlattenSeq is the last value of such a function.
LEMMA FlattenIs ==
  ASSUME NEW s, Len(s) \in Nat \ {0}
  PROVE  \E g : Flattens(g, s, Len(s)) /\ FlattenSeq(s) = g[Len(s)]
<1> DEFINE n == Len(s)
           f == CHOOSE g : g = [i \in 1 .. n |-> IF i = 1 THEN s[i] ELSE g[i - 1] \o s[i]]
<1>1. FlattenSeq(s) = f[n]
  BY DEF FlattenSeq
<1>2. PICK g : Flattens(g, s, n)
  BY FlattenExists
<1>3. Flattens(f, s, n)
  BY <1>2 DEF Flattens
<1> QED
  BY <1>1, <1>3

\* One sequence behind another.
LEMMA Behind ==
  ASSUME NEW B, NEW a \in Seq(B), NEW b \in Seq(B)
  PROVE  /\ a \o b \in Seq(B)
         /\ Len(a) \in Nat /\ Len(b) \in Nat
         /\ Len(a \o b) = Len(a) + Len(b)
         /\ \A p \in 1 .. Len(a) : (a \o b)[p] = a[p]
         /\ \A j \in 1 .. Len(b) : (a \o b)[Len(a) + j] = b[j]
OBVIOUS

\* The first k parts: a sequence that the next part is put behind.
Builds(g, s, B) ==
  /\ \A k \in 1 .. Len(s) : s[k] \in Seq(B) /\ g[k] \in Seq(B)
  /\ Len(s) # 0 => g[1] = s[1]
  /\ \A k \in 1 .. Len(s) - 1 : g[k + 1] = g[k] \o s[k + 1]

\* That function has the parts of s one behind the other.
LEMMA FlattenParts ==
  ASSUME NEW B, NEW s \in Seq(Seq(B)), NEW g, Flattens(g, s, Len(s))
  PROVE  Builds(g, s, B)
<1> DEFINE n == Len(s)
<1>1. \A k \in 1 .. n : s[k] \in Seq(B)
  OBVIOUS
<1>2. n \in Nat
  OBVIOUS
<1>3. ASSUME NEW k \in 1 .. n
      PROVE  g[k] = IF k = 1 THEN s[k] ELSE g[k - 1] \o s[k]
  BY DEF Flattens
<1>4. n # 0 => g[1] = s[1]
  BY <1>2, <1>3
<1>5. ASSUME NEW k \in 1 .. n - 1
      PROVE  g[k + 1] = g[k] \o s[k + 1]
  <2>1. k + 1 \in 1 .. n /\ k + 1 # 1 /\ (k + 1) - 1 = k
    OBVIOUS
  <2> QED
    BY <1>3, <2>1
<1> DEFINE S == {k \in 1 .. n : g[k] \in Seq(B)}
<1>6. n # 0 => 1 \in S
  BY <1>1, <1>2, <1>4
<1>7. ASSUME NEW k \in 1 .. n - 1, k \in S
      PROVE  k + 1 \in S
  <2>1. k + 1 \in 1 .. n
    OBVIOUS
  <2>2. s[k + 1] \in Seq(B) /\ g[k] \in Seq(B)
    BY <1>1, <1>7, <2>1
  <2>3. g[k] \o s[k + 1] \in Seq(B)
    BY <2>2, ConcatProperties
  <2> QED
    BY <1>5, <2>1, <2>3
<1> HIDE DEF S
<1>8. n # 0 => 1 .. n \subseteq S
  BY <1>2, <1>6, <1>7, UpTo
<1>9. \A k \in 1 .. n : g[k] \in Seq(B)
  <2> SUFFICES ASSUME NEW k \in 1 .. n PROVE k \in S
    BY DEF S
  <2> HIDE DEF n
  <2>1. n # 0
    BY <1>2
  <2> QED
    BY <1>8, <2>1
<1> QED
  BY <1>1, <1>4, <1>5, <1>9 DEF Builds

\* Where a part begins, all behind it, and what comes before it, is kept.
LEMMA FlattenGrows ==
  ASSUME NEW B, NEW s \in Seq(Seq(B)), NEW g, Flattens(g, s, Len(s)),
         NEW k \in 1 .. Len(s), NEW m \in k .. Len(s)
  PROVE  /\ Len(g[k]) <= Len(g[m])
         /\ \A p \in 1 .. Len(g[k]) : g[m][p] = g[k][p]
<1> DEFINE n == Len(s)
           Keeps(l) == l >= k => /\ Len(g[k]) <= Len(g[l])
                                 /\ \A p \in 1 .. Len(g[k]) : g[l][p] = g[k][p]
           S == {l \in 1 .. n : Keeps(l)}
<1>1. n \in Nat /\ k \in 1 .. n /\ m \in 1 .. n /\ m >= k
  OBVIOUS
<1>2. \A l \in 1 .. n : g[l] \in Seq(B) /\ s[l] \in Seq(B)
  BY FlattenParts DEF Builds
<1>3. Keeps(k)
  BY <1>1, <1>2
<1>4. Keeps(1)
  BY <1>1, <1>3
<1>5. ASSUME NEW l \in 1 .. n - 1, Keeps(l)
      PROVE  Keeps(l + 1)
  <2>1. CASE l + 1 <= k
    BY <1>1, <1>3, <2>1
  <2>2. CASE l >= k
    <3>1. g[l + 1] = g[l] \o s[l + 1]
      BY FlattenParts DEF Builds
    <3>2. g[l] \in Seq(B) /\ s[l + 1] \in Seq(B) /\ g[k] \in Seq(B)
      BY <1>1, <1>2, l + 1 \in 1 .. n
    <3>3. /\ Len(g[l]) \in Nat /\ Len(s[l + 1]) \in Nat /\ Len(g[k]) \in Nat
          /\ Len(g[l + 1]) = Len(g[l]) + Len(s[l + 1])
          /\ \A p \in 1 .. Len(g[l]) : g[l + 1][p] = g[l][p]
      <4> DEFINE a == g[l]
                 b == s[l + 1]
                 c == g[l + 1]
      <4>1. a \in Seq(B) /\ b \in Seq(B) /\ c = a \o b
        BY <3>1, <3>2
      <4>2. Len(g[k]) \in Nat
        BY <3>2
      <4> HIDE DEF a, b, c
      <4>3. /\ Len(a) \in Nat /\ Len(b) \in Nat
            /\ Len(c) = Len(a) + Len(b)
            /\ \A p \in 1 .. Len(a) : c[p] = a[p]
        BY <4>1, Behind
      <4> QED
        BY <4>2, <4>3 DEF a, b, c
    <3>4. Len(g[k]) <= Len(g[l]) /\ \A p \in 1 .. Len(g[k]) : g[l][p] = g[k][p]
      BY <1>5, <2>2
    <3>5. Len(g[k]) <= Len(g[l + 1])
      <4> DEFINE a == Len(g[l])
                 b == Len(s[l + 1])
                 c == Len(g[k])
      <4>1. a \in Nat /\ b \in Nat /\ c \in Nat /\ c <= a
        BY <3>3, <3>4
      <4> HIDE DEF a, b, c
      <4>2. c <= a + b
        BY <4>1
      <4> QED
        BY <3>3, <4>2 DEF a, b, c
    <3>6. ASSUME NEW p \in 1 .. Len(g[k])
          PROVE  g[l + 1][p] = g[k][p]
      <4>1. p \in 1 .. Len(g[l])
        BY <3>3, <3>4
      <4> QED
        BY <3>3, <3>4, <4>1
    <3> QED
      BY <3>5, <3>6
  <2> QED
    BY <1>1, <2>1, <2>2
<1>6. 1 \in S /\ \A l \in 1 .. n - 1 : l \in S => l + 1 \in S
  BY <1>1, <1>4, <1>5
<1>7. m \in S
  <2> HIDE DEF S
  <2> QED
    BY <1>1, <1>6, UpTo
<1> QED
  BY <1>1, <1>7

\* A flattened sequence: each part begins where the one before it ends.
Consecutive(parts, whole, off) ==
  /\ off \in [1 .. Len(parts) + 1 -> Nat \ {0}]
  /\ off[1] = 1
  /\ off[Len(parts) + 1] = Len(whole) + 1
  /\ \A k \in 1 .. Len(parts) :
       /\ off[k + 1] = off[k] + Len(parts[k])
       /\ off[k + 1] <= Len(whole) + 1
       /\ \A j \in 1 .. Len(parts[k]) : whole[off[k] + j - 1] = parts[k][j]

\* A flattened sequence has its parts at consecutive places.
LEMMA FlattenLayout ==
  ASSUME NEW B, NEW s \in Seq(Seq(B))
  PROVE  /\ FlattenSeq(s) \in Seq(B)
         /\ \E off : Consecutive(s, FlattenSeq(s), off)
<1> DEFINE n    == Len(s)
           flat == FlattenSeq(s)
<1>1. n \in Nat
  OBVIOUS
<1>2. CASE n = 0
  <2>1. s = <<>>
    BY <1>2
  <2>2. flat = <<>>
    BY <1>2, <2>1 DEF FlattenSeq
  <2> DEFINE off == [k \in 1 .. 1 |-> 1]
  <2>3. off \in [1 .. 1 -> Nat \ {0}] /\ off[1] = 1
    OBVIOUS
  <2> HIDE DEF off
  <2>4. flat \in Seq(B) /\ Len(flat) = 0
    BY <2>2
  <2> HIDE DEF flat
  <2>5. 0 + 1 = 1 /\ 1 .. 0 = {}
    OBVIOUS
  <2>6. /\ off \in [1 .. n + 1 -> Nat \ {0}] /\ off[1] = 1 /\ off[n + 1] = Len(flat) + 1
        /\ \A k \in 1 .. n : FALSE
    BY <1>2, <2>3, <2>4, <2>5
  <2>7. Consecutive(s, flat, off)
    BY <2>6 DEF Consecutive
  <2> QED
    BY <2>4, <2>7 DEF flat
<1>3. CASE n # 0
  <2>1. PICK g : Flattens(g, s, n) /\ flat = g[n]
    BY <1>1, <1>3, FlattenIs
  <2>2. /\ \A k \in 1 .. n : s[k] \in Seq(B) /\ g[k] \in Seq(B)
        /\ n # 0 => g[1] = s[1]
        /\ \A k \in 1 .. n - 1 : g[k + 1] = g[k] \o s[k + 1]
    <3>1. Flattens(g, s, Len(s))
      BY <2>1
    <3>2. Builds(g, s, B)
      BY <3>1, FlattenParts
    <3> QED
      BY <3>2 DEF Builds
  <2>3. \A k \in 1 .. n : Len(s[k]) \in Nat /\ Len(g[k]) \in Nat
    BY <2>2
  <2> DEFINE off == [k \in 1 .. n + 1 |-> IF k = 1 THEN 1 ELSE Len(g[k - 1]) + 1]
  <2>4. /\ off[1] = 1
        /\ \A k \in 1 .. n : off[k + 1] = Len(g[k]) + 1
    <3>1. \A k \in 1 .. n : k + 1 \in 1 .. n + 1 /\ k + 1 # 1 /\ (k + 1) - 1 = k
      BY <1>1
    <3> QED
      BY <1>1, <3>1
  <2>5. off \in [1 .. n + 1 -> Nat \ {0}]
    <3>1. ASSUME NEW k \in 1 .. n + 1
          PROVE  (IF k = 1 THEN 1 ELSE Len(g[k - 1]) + 1) \in Nat \ {0}
      <4>1. k # 1 => k - 1 \in 1 .. n
        BY <1>1
      <4> QED
        BY <2>3, <4>1
    <3> QED
      BY <3>1
  <2> HIDE DEF off, flat
  <2>6. ASSUME NEW k \in 1 .. n
        PROVE  /\ off[k + 1] = off[k] + Len(s[k])
               /\ off[k + 1] <= Len(flat) + 1
               /\ \A j \in 1 .. Len(s[k]) : flat[off[k] + j - 1] = s[k][j]
    <3>1. Len(g[k]) <= Len(flat) /\ \A p \in 1 .. Len(g[k]) : flat[p] = g[k][p]
      BY <1>1, <2>1, FlattenGrows, n \in k .. n
    <3>2. CASE k = 1
      <4>1. off[k] = 1 /\ g[k] = s[k] /\ off[k + 1] = Len(s[k]) + 1
        BY <1>3, <2>2, <2>4, <3>2
      <4> QED
        BY <2>1, <2>3, <3>1, <4>1
    <3>3. CASE k # 1
      <4> DEFINE l == k - 1
      <4>1. l \in 1 .. n - 1 /\ l \in 1 .. n /\ l + 1 = k
        BY <1>1, <3>3
      <4>2. g[k] = g[l] \o s[k] /\ off[k] = Len(g[l]) + 1
        BY <2>2, <2>4, <4>1
      <4> HIDE DEF l
      <4> DEFINE a == Len(g[l])
                 b == Len(s[k])
                 c == off[k]
                 e == off[k + 1]
      <4>3. /\ a \in Nat /\ b \in Nat
            /\ Len(g[k]) = a + b
            /\ \A j \in 1 .. b : g[k][a + j] = s[k][j]
        <5> DEFINE x == g[l]
                   y == s[k]
                   z == g[k]
        <5>1. x \in Seq(B) /\ y \in Seq(B) /\ z = x \o y
          BY <2>2, <4>1, <4>2
        <5> HIDE DEF x, y, z
        <5>2. /\ Len(x) \in Nat /\ Len(y) \in Nat
              /\ Len(z) = Len(x) + Len(y)
              /\ \A j \in 1 .. Len(y) : z[Len(x) + j] = y[j]
          BY <5>1, Behind
        <5> QED
          BY <5>2 DEF x, y, z
      <4>4. c = a + 1 /\ e = a + b + 1 /\ a + b <= Len(flat) /\ Len(flat) \in Nat
        <5>1. e = Len(g[k]) + 1
          BY <2>4
        <5>2. Len(flat) \in Nat
          BY <1>1, <1>3, <2>1, <2>3
        <5>3. c = a + 1
          BY <4>2
        <5> DEFINE h == Len(g[k])
        <5>4. h = a + b /\ h <= Len(flat) /\ e = h + 1 /\ a \in Nat /\ b \in Nat
          BY <3>1, <4>3, <5>1
        <5> HIDE DEF a, b, c, e, h
        <5> QED
          BY <5>2, <5>3, <5>4
      <4>5. \A j \in 1 .. b : flat[a + j] = s[k][j]
        <5> DEFINE h == Len(g[k])
        <5>1. \A j \in 1 .. b : a + j \in 1 .. h
          <6>1. a \in Nat /\ b \in Nat /\ h = a + b
            BY <4>3
          <6> HIDE DEF a, b, h
          <6> QED
            BY <6>1
        <5>2. /\ \A j \in 1 .. b : g[k][a + j] = s[k][j]
              /\ \A p \in 1 .. h : flat[p] = g[k][p]
          BY <3>1, <4>3
        <5> HIDE DEF a, b, h
        <5> QED
          BY <5>1, <5>2
      <4> HIDE DEF a, b, c, e
      <4>6. /\ e = c + b /\ e <= Len(flat) + 1
            /\ \A j \in 1 .. b : flat[c + j - 1] = s[k][j]
        <5>1. \A j \in 1 .. b : c + j - 1 = a + j
          BY <4>3, <4>4
        <5> QED
          BY <4>3, <4>4, <4>5, <5>1
      <4> QED
        BY <4>6 DEF a, b, c, e
    <3> QED
      BY <3>2, <3>3
  <2>7. off[n + 1] = Len(flat) + 1
    BY <1>1, <1>3, <2>1, <2>4
  <2>8. flat \in Seq(B)
    BY <1>1, <1>3, <2>1, <2>2
  <2>9. Consecutive(s, flat, off)
    BY <2>4, <2>5, <2>6, <2>7 DEF Consecutive
  <2> QED
    BY <2>8, <2>9 DEF flat
<1> QED
  BY <1>2, <1>3

-----------------------------------------------------------------------------
(* The bytes of a message.                                                   *)

\* An option that can be encoded: padding, or a code with some data.
Encodable == {Pad} \cup
             {item \in [code : 1 .. 254, data : Seq(Byte)] : Len(item.data) <= 255}

\* The numbers are kept for when they are compared.
LEMMA Codes ==
  /\ OPT_PAD = 0 /\ OPT.END = 255 /\ OPT.REQ_IP = 50 /\ OPT.MSGTYPE = 53
  /\ OPT.NETMASK = 1 /\ OPT.SERVERID = 54
  /\ OPT.LEASE_TIME = 51 /\ OPT.RENEW_TIME = 58 /\ OPT.REBIND_TIME = 59
  /\ DHCP.DISCOVER = 1 /\ DHCP.OFFER = 2 /\ DHCP.REQUEST = 3
  /\ DHCP.ACK = 5 /\ DHCP.NAK = 6
BY DEF OPT_PAD, OPT, DHCP

\* The options of messages can be encoded.
LEMMA ItemsEncodable == Items \subseteq Encodable
BY OptionsAssumption DEF Encodable

\* An option in the bytes of a message, from place p on, and the place behind it.
ItemAt(bytes, item, p, q) ==
  \/ /\ item = Pad
     /\ q = p + 1
     /\ bytes[p] = 0
  \/ /\ item # Pad
     /\ q = p + 2 + Len(item.data)
     /\ bytes[p] = item.code
     /\ bytes[p + 1] = Len(item.data)
     /\ \A j \in 1 .. Len(item.data) : bytes[p + 1 + j] = item.data[j]

\* The encoding of an option.
LEMMA EncodedIs ==
  ASSUME NEW item \in Encodable
  PROVE  /\ Encoded(item) \in Seq(Byte)
         /\ item = Pad => Len(Encoded(item)) = 1 /\ Encoded(item)[1] = 0
         /\ item # Pad =>
              /\ item.code \in 1 .. 254 /\ item.data \in Seq(Byte)
              /\ Len(item.data) \in Nat /\ Len(item.data) <= 255
              /\ Len(Encoded(item)) = 2 + Len(item.data)
              /\ Encoded(item)[1] = item.code
              /\ Encoded(item)[2] = Len(item.data)
              /\ \A j \in 1 .. Len(item.data) : Encoded(item)[2 + j] = item.data[j]
<1>1. CASE item = Pad
  BY <1>1, Codes DEF Encoded, Byte
<1>2. CASE item # Pad
  <2>1. /\ item.code \in 1 .. 254 /\ item.data \in Seq(Byte)
        /\ Len(item.data) \in Nat /\ Len(item.data) <= 255
    BY <1>2 DEF Encodable
  <2> DEFINE a == <<item.code, Len(item.data)>>
             d == item.data
             e == Encoded(item)
  <2>2. a \in Seq(Byte) /\ Len(a) = 2 /\ a[1] = item.code /\ a[2] = Len(item.data)
    <3> DEFINE c == item.code
               l == Len(item.data)
    <3>0. c \in 1 .. 254 /\ l \in Nat /\ l <= 255
      BY <2>1
    <3> HIDE DEF c, l
    <3>1. c \in Byte /\ l \in Byte
      BY <3>0 DEF Byte
    <3>2. <<c, l>> \in Seq(Byte) /\ Len(<<c, l>>) = 2 /\ <<c, l>>[1] = c /\ <<c, l>>[2] = l
      BY <3>1
    <3> QED
      BY <3>2 DEF c, l
  <2>3. e = a \o d /\ d \in Seq(Byte)
    BY <1>2, <2>1 DEF Encoded
  <2> HIDE DEF a, d, e
  <2>4. /\ e \in Seq(Byte) /\ Len(a) \in Nat /\ Len(d) \in Nat
        /\ Len(e) = Len(a) + Len(d)
        /\ \A p \in 1 .. Len(a) : e[p] = a[p]
        /\ \A j \in 1 .. Len(d) : e[Len(a) + j] = d[j]
    <3>1. a \in Seq(Byte) /\ d \in Seq(Byte)
      BY <2>2, <2>3
    <3>2. /\ a \o d \in Seq(Byte)
          /\ Len(a) \in Nat /\ Len(d) \in Nat
          /\ Len(a \o d) = Len(a) + Len(d)
          /\ \A p \in 1 .. Len(a) : (a \o d)[p] = a[p]
          /\ \A j \in 1 .. Len(d) : (a \o d)[Len(a) + j] = d[j]
      BY <3>1, Behind
    <3> QED
      BY <2>3, <3>2
  <2>5. /\ Len(e) = 2 + Len(d) /\ e[1] = item.code /\ e[2] = Len(item.data)
        /\ \A j \in 1 .. Len(d) : e[2 + j] = d[j]
    BY <2>2, <2>4
  <2> QED
    BY <1>2, <2>1, <2>4, <2>5 DEF d, e
<1> QED
  BY <1>1, <1>2

\* The options of a message lie behind each other in its field, each one where
\* the one before it ends, and the end mark behind them.
Laid(items, end, bytes, off) ==
  /\ off \in [1 .. Len(items) + 1 -> Nat \ {0}]
  /\ off[1] = 1
  /\ \A k \in DOMAIN items : /\ ItemAt(bytes, items[k], off[k], off[k + 1])
                             /\ off[k + 1] <= Len(bytes) + 1
  /\ end => /\ off[Len(items) + 1] <= Len(bytes)
            /\ bytes[off[Len(items) + 1]] = OPT.END
            /\ \A k \in DOMAIN items : off[k + 1] <= Len(bytes)

\* The end mark is one byte.
LEMMA EndMark ==
  <<OPT.END>> \in Seq(Byte) /\ Len(<<OPT.END>>) = 1 /\ <<OPT.END>>[1] = OPT.END
<1> DEFINE e == OPT.END
<1>1. e \in Byte
  BY Codes DEF Byte
<1> HIDE DEF e
<1>2. <<e>> \in Seq(Byte) /\ Len(<<e>>) = 1 /\ <<e>>[1] = e
  BY <1>1
<1> QED
  BY <1>2 DEF e

\* The maximum of two numbers.
LEMMA MaxOfTwo ==
  ASSUME NEW x \in Nat, NEW y \in Nat
  PROVE  /\ Max({x, y}) \in Nat
         /\ Max({x, y}) >= x /\ Max({x, y}) >= y
         /\ x >= y => Max({x, y}) = x
<1>1. \E z \in {x, y} : \A w \in {x, y} : z >= w
  <2>1. CASE x >= y
    BY <2>1
  <2>2. CASE y >= x
    BY <2>2
  <2> QED
    BY <2>1, <2>2
<1>2. Max({x, y}) \in {x, y} /\ \A w \in {x, y} : Max({x, y}) >= w
  BY <1>1 DEF Max
<1> QED
  BY <1>2

\* The field: what is encoded, and zeros.
LEMMA FieldIs ==
  ASSUME NEW items \in Seq(Encodable), NEW end \in BOOLEAN
  PROVE  LET s     == [i \in DOMAIN items |-> Encoded(items[i])]
             bytes == FlattenSeq(s) \o (IF end THEN <<OPT.END>> ELSE <<>>)
             field == Field(items, end)
         IN  /\ s \in Seq(Seq(Byte)) /\ Len(s) = Len(items)
             /\ bytes \in Seq(Byte) /\ Len(bytes) \in Nat
             /\ field \in Seq(Byte) /\ Len(field) \in Nat
             /\ Len(field) = Max({OptionsLen, Len(bytes)})
             /\ Len(field) >= OptionsLen /\ Len(field) >= Len(bytes)
             /\ \A p \in 1 .. Len(bytes) : field[p] = bytes[p]
<1> DEFINE s     == [i \in DOMAIN items |-> Encoded(items[i])]
           mark  == IF end THEN <<OPT.END>> ELSE <<>>
           flat  == FlattenSeq(s)
           bytes == flat \o mark
           field == Field(items, end)
           top   == Max({OptionsLen, Len(bytes)})
<1>1. s \in Seq(Seq(Byte)) /\ Len(s) = Len(items)
  <2>1. ASSUME NEW i \in DOMAIN items
        PROVE  Encoded(items[i]) \in Seq(Byte)
    <3>1. items[i] \in Encodable
      OBVIOUS
    <3> QED
      BY <3>1, EncodedIs
  <2>2. Len(items) \in Nat /\ DOMAIN items = 1 .. Len(items)
    OBVIOUS
  <2> DEFINE S == Seq(Byte)
             m == Len(items)
  <2>3. s \in [1 .. m -> S]
    BY <2>1, <2>2
  <2> HIDE DEF s, S
  <2>4. s \in Seq(S) /\ Len(s) = m
    BY <2>2, <2>3
  <2> QED
    BY <2>4 DEF S
<1>2. field = [i \in 1 .. top |-> IF i <= Len(bytes) THEN bytes[i] ELSE 0]
  BY DEF Field, InField
<1>3. mark \in Seq(Byte)
  BY EndMark
<1> HIDE DEF s
<1>4. flat \in Seq(Byte)
  BY <1>1, FlattenLayout
<1> HIDE DEF mark, flat
<1>5. bytes \in Seq(Byte) /\ Len(bytes) \in Nat /\ \A i \in 1 .. Len(bytes) : bytes[i] \in Byte
  BY <1>3, <1>4
<1> HIDE DEF bytes
<1>6. top \in Nat /\ top >= OptionsLen /\ top >= Len(bytes)
  BY <1>5, OptionsAssumption, MaxOfTwo
<1> HIDE DEF top, field
<1>7. field \in [1 .. top -> Byte]
  <2>1. \A i \in 1 .. top : (IF i <= Len(bytes) THEN bytes[i] ELSE 0) \in Byte
    BY <1>5, <1>6 DEF Byte
  <2> QED
    BY <1>2, <2>1
<1>8. field \in Seq(Byte) /\ Len(field) = top
  BY <1>6, <1>7
<1>9. \A p \in 1 .. Len(bytes) : field[p] = bytes[p]
  BY <1>2, <1>5, <1>6
<1> QED
  BY <1>1, <1>5, <1>6, <1>8, <1>9 DEF s, mark, flat, bytes, field, top

\* The options lie one behind the other in the field, the end mark behind them.
LEMMA FieldLayout ==
  ASSUME NEW items \in Seq(Encodable), NEW end \in BOOLEAN
  PROVE  \E off : Laid(items, end, Field(items, end), off)
<1> DEFINE n     == Len(items)
           s     == [i \in DOMAIN items |-> Encoded(items[i])]
           mark  == IF end THEN <<OPT.END>> ELSE <<>>
           flat  == FlattenSeq(s)
           bytes == flat \o mark
           field == Field(items, end)
<1>1. /\ s \in Seq(Seq(Byte)) /\ Len(s) = n
      /\ Len(field) \in Nat /\ Len(bytes) \in Nat /\ Len(field) >= Len(bytes)
      /\ \A p \in 1 .. Len(bytes) : field[p] = bytes[p]
  BY FieldIs
<1>2. mark \in Seq(Byte) /\ (end => Len(mark) = 1 /\ mark[1] = OPT.END)
  BY EndMark
<1>3. n \in Nat /\ DOMAIN items = 1 .. n
  OBVIOUS
<1>4. \A k \in 1 .. n : s[k] = Encoded(items[k]) /\ items[k] \in Encodable
  BY <1>3
<1> HIDE DEF s, mark, field, n
<1>5. flat \in Seq(Byte) /\ \E off : Consecutive(s, flat, off)
  BY <1>1, FlattenLayout
<1> HIDE DEF flat
<1>6. PICK off \in [1 .. n + 1 -> Nat \ {0}] :
           /\ off[1] = 1
           /\ off[n + 1] = Len(flat) + 1
           /\ \A k \in 1 .. n :
                /\ off[k + 1] = off[k] + Len(s[k])
                /\ off[k + 1] <= Len(flat) + 1
                /\ \A j \in 1 .. Len(s[k]) : flat[off[k] + j - 1] = s[k][j]
  BY <1>1, <1>5 DEF Consecutive
<1>7. /\ Len(flat) \in Nat /\ Len(mark) \in Nat
      /\ Len(bytes) = Len(flat) + Len(mark)
      /\ \A p \in 1 .. Len(flat) : bytes[p] = flat[p]
      /\ \A j \in 1 .. Len(mark) : bytes[Len(flat) + j] = mark[j]
  BY <1>2, <1>5, Behind
<1> HIDE DEF bytes
<1>8. \A p \in 1 .. Len(flat) : field[p] = flat[p]
  BY <1>1, <1>7
<1>9. end => off[n + 1] <= Len(field) /\ field[off[n + 1]] = OPT.END
  <2> SUFFICES ASSUME end
               PROVE  off[n + 1] <= Len(field) /\ field[off[n + 1]] = OPT.END
    OBVIOUS
  <2>1. Len(mark) = 1 /\ mark[1] = OPT.END
    BY <1>2
  <2> DEFINE l == Len(flat)
  <2>2. l \in Nat /\ Len(bytes) = l + 1 /\ bytes[l + 1] = OPT.END
    BY <1>7, <2>1
  <2>3. off[n + 1] = l + 1
    BY <1>6
  <2> HIDE DEF l
  <2>4. l + 1 \in 1 .. Len(bytes) /\ l + 1 <= Len(field)
    BY <1>1, <2>2
  <2> QED
    BY <1>1, <2>2, <2>3, <2>4
<1>10. ASSUME NEW k \in 1 .. n
       PROVE  /\ ItemAt(field, items[k], off[k], off[k + 1])
              /\ off[k + 1] <= Len(field) + 1
              /\ end => off[k + 1] <= Len(field)
  <2> DEFINE a == off[k]
             e == Encoded(items[k])
             b == off[k + 1]
             d == items[k].data
  <2>1. a \in Nat \ {0} /\ b \in Nat \ {0}
    BY <1>3, <1>6
  <2>2. b = a + Len(e) /\ b <= Len(flat) + 1 /\ \A j \in 1 .. Len(e) : flat[a + j - 1] = e[j]
    BY <1>4, <1>6
  <2>3. /\ e \in Seq(Byte)
        /\ items[k] = Pad => Len(e) = 1 /\ e[1] = 0
        /\ items[k] # Pad =>
             /\ Len(d) \in Nat
             /\ Len(e) = 2 + Len(d)
             /\ e[1] = items[k].code
             /\ e[2] = Len(d)
             /\ \A j \in 1 .. Len(d) : e[2 + j] = d[j]
    BY <1>4, EncodedIs
  <2>4. Len(e) \in Nat
    BY <2>3
  <2> HIDE DEF a, b, d, e
  <2>5. \A j \in 1 .. Len(e) : field[a + j - 1] = e[j]
    <3>1. \A j \in 1 .. Len(e) : a + j - 1 \in 1 .. Len(flat)
      BY <1>7, <2>1, <2>2, <2>4
    <3> QED
      BY <1>8, <2>2, <3>1
  <2>6. b <= Len(field) + 1 /\ (end => b <= Len(field))
    BY <1>1, <1>2, <1>7, <2>1, <2>2
  <2>7. ItemAt(field, items[k], a, b)
    <3>1. CASE items[k] = Pad
      <4>1. field[a + 1 - 1] = e[1]
        <5>0. Len(e) = 1
          BY <2>3, <3>1
        <5>1. 1 \in 1 .. Len(e)
          BY <5>0
        <5> QED
          BY <2>5, <5>1
      <4>2. a + 1 - 1 = a
        BY <2>1
      <4> QED
        BY <2>2, <2>3, <3>1, <4>1, <4>2 DEF ItemAt
    <3>2. CASE items[k] # Pad
      <4>1. /\ field[a + 1 - 1] = e[1] /\ field[a + 2 - 1] = e[2]
            /\ \A j \in 1 .. Len(d) : field[a + (2 + j) - 1] = e[2 + j]
        <5>1. /\ 1 \in 1 .. Len(e) /\ 2 \in 1 .. Len(e)
              /\ \A j \in 1 .. Len(d) : 2 + j \in 1 .. Len(e)
          BY <2>3, <2>4, <3>2
        <5> QED
          BY <2>5, <5>1
      <4>2. /\ a + 1 - 1 = a /\ a + 2 - 1 = a + 1
            /\ \A j \in 1 .. Len(d) : a + (2 + j) - 1 = a + 1 + j
        BY <2>1
      <4>3. b = a + 2 + Len(d)
        <5>1. /\ Len(d) \in Nat /\ Len(e) = 2 + Len(d)
              /\ b = a + Len(e) /\ a \in Nat
          BY <2>1, <2>2, <2>3, <3>2
        <5> QED
          BY <5>1
      <4> QED
        BY <2>3, <3>2, <4>1, <4>2, <4>3 DEF ItemAt, d
    <3> QED
      BY <3>1, <3>2
  <2> QED
    BY <2>6, <2>7 DEF a, b
<1> QED
  BY <1>3, <1>6, <1>9, <1>10 DEF Laid, n, field

\* The field of the message that arrived.
LEMMA OptionsIs ==
  ASSUME sent \in Seq(Items), ended \in BOOLEAN
  PROVE  /\ sent \in Seq(Encodable)
         /\ Options \in Seq(Byte) /\ Len(Options) \in Nat /\ Len(Options) >= 34
         /\ \E off : Laid(sent, ended, Options, off)
<1>1. sent \in Seq(Encodable)
  BY ItemsEncodable
<1>2. \E off : Laid(sent, ended, Options, off)
  BY <1>1, FieldLayout DEF Options
<1> DEFINE field == Field(sent, ended)
<1>3. field \in Seq(Byte) /\ Len(field) \in Nat /\ Len(field) >= OptionsLen
  BY <1>1, FieldIs
<1>4. Len(field) >= 34
  <2> HIDE DEF field
  <2> QED
    BY <1>3, OptionsAssumption
<1> QED
  BY <1>1, <1>2, <1>3, <1>4 DEF Options

-----------------------------------------------------------------------------
(* The walk.                                                                 *)

\* The padding right before option k comes in pairs.
PairsBefore(k) ==
  \E i \in 1 .. k : /\ \A m \in i .. k - 1 : sent[m] = Pad
                    /\ i = 1 \/ sent[i - 1] # Pad
                    /\ (k - i) % 2 = 0

\* The address that the options before option k ask for.
AddrBefore(k) == {i \in AddrOptions : i < k}

AskedBefore(k) ==
  \/ AddrBefore(k) = {} /\ reqAddr = ZeroAddr
  \/ \E i \in AddrBefore(k) : /\ \A j \in AddrBefore(k) : j <= i
                              /\ reqAddr = sent[i].data

\* Where the padding before an option comes in pairs and the option is padding,
\* there is more of it behind.
LEMMA PadsPair ==
  ASSUME sent \in Seq(Items), WellFormed,
         NEW k \in DOMAIN sent, PairsBefore(k), sent[k] = Pad
  PROVE  k + 1 \in DOMAIN sent /\ sent[k + 1] = Pad
<1> DEFINE n == Len(sent)
<1>1. n \in Nat /\ DOMAIN sent = 1 .. n
  OBVIOUS
<1>2. PICK i \in 1 .. k : /\ \A m \in i .. k - 1 : sent[m] = Pad
                          /\ i = 1 \/ sent[i - 1] # Pad
                          /\ (k - i) % 2 = 0
  BY DEF PairsBefore
<1>3. k \in 1 .. n /\ i \in 1 .. n /\ k \in i .. n
  BY <1>1
<1>4. \A m \in i .. k : sent[m] = Pad
  <2> SUFFICES ASSUME NEW m \in i .. k PROVE sent[m] = Pad
    OBVIOUS
  <2>1. m = k \/ m \in i .. k - 1
    BY <1>3
  <2> QED
    BY <1>2, <2>1
<1>5. (k - i + 1) % 2 # 0
  <2> DEFINE d == k - i
  <2>1. d \in Nat /\ d % 2 = 0
    BY <1>2, <1>3
  <2> HIDE DEF d
  <2>2. (d + 1) % 2 = 1
    BY <2>1
  <2> QED
    BY <2>2 DEF d
<1>6. ~ RunOfPads(i, k)
  BY <1>1, <1>3, <1>5 DEF WellFormed
<1>7. k # n /\ sent[k + 1] = Pad
  BY <1>2, <1>4, <1>6 DEF RunOfPads
<1> QED
  BY <1>1, <1>3, <1>7

\* At the beginning of an option, or at the end mark, the walk reads what is
\* there, and steps to the beginning of another.
LEMMA ReadsItem ==
  ASSUME sent \in Seq(Items), ended \in BOOLEAN, WellFormed,
         NEW off, Laid(sent, ended, Options, off),
         NEW k \in 1 .. Len(sent) + 1, optionPtr = off[k], PairsBefore(k)
  PROVE  /\ Inside
         /\ k = Len(sent) + 1 => getOption = OPT.END
         /\ k \in DOMAIN sent /\ sent[k] = Pad =>
              /\ k + 1 \in DOMAIN sent /\ sent[k + 1] = Pad
              /\ getOption # OPT.END /\ ~TakesAddr
              /\ nextOption = off[k + 2]
         /\ k \in DOMAIN sent /\ sent[k] # Pad =>
              /\ getOption # OPT.END
              /\ nextOption = off[k + 1]
              /\ TakesAddr <=> k \in AddrOptions
              /\ TakesAddr => getOptionData = sent[k].data
<1> DEFINE n == Len(sent)
           L == Len(Options)
<1>1. /\ n \in Nat /\ DOMAIN sent = 1 .. n
      /\ L \in Nat /\ DOMAIN Options = 1 .. L
      /\ sent \in Seq(Encodable)
  BY OptionsIs
<1>2. ended
  BY DEF WellFormed
<1>3. /\ off \in [1 .. n + 1 -> Nat \ {0}]
      /\ \A j \in 1 .. n : /\ ItemAt(Options, sent[j], off[j], off[j + 1])
                           /\ off[j + 1] <= L
      /\ off[n + 1] <= L
      /\ Options[off[n + 1]] = OPT.END
  BY <1>1, <1>2 DEF Laid
<1>4. CASE k = n + 1
  <2>1. off[k] \in 1 .. L /\ getOption = OPT.END
    BY <1>1, <1>3, <1>4 DEF getOption
  <2>2. k \notin DOMAIN sent
    BY <1>1, <1>4
  <2> QED
    BY <1>1, <1>4, <2>1, <2>2 DEF Inside
<1>5. CASE k \in 1 .. n /\ sent[k] = Pad
  <2>1. k + 1 \in 1 .. n /\ sent[k + 1] = Pad
    BY <1>1, <1>5, PadsPair
  <2> DEFINE p == off[k]
             q == off[k + 1]
             r == off[(k + 1) + 1]
  <2>2. /\ q = p + 1 /\ r = q + 1 /\ q <= L
        /\ Options[p] = 0 /\ Options[q] = 0
    BY <1>3, <1>5, <2>1 DEF ItemAt
  <2>3. p \in Nat \ {0}
    BY <1>1, <1>3, <1>5
  <2>4. (k + 1) + 1 = k + 2
    BY <1>1, <1>5
  <2>5. getOption = 0 /\ getOptionLen = 0
    BY <2>2 DEF getOption, getOptionLen
  <2>6. nextOption = r
    <3>1. p + 0 + 2 = r
      <4> HIDE DEF p, q, r
      <4> QED
        BY <2>2, <2>3
    <3> QED
      BY <2>5, <3>1 DEF nextOption
  <2>7. p \in 1 .. L /\ p + 1 \in 1 .. L
    <3> HIDE DEF p, q, r, L
    <3> QED
      BY <1>1, <2>2, <2>3
  <2>8. ~TakesAddr /\ getOption # OPT.END
    BY <2>5, Codes DEF TakesAddr
  <2>9. Inside
    BY <1>1, <2>7, <2>8 DEF Inside
  <2>10. k # n + 1
    BY <1>1, <1>5
  <2> QED
    BY <1>1, <1>5, <2>1, <2>4, <2>6, <2>8, <2>9, <2>10
<1>6. CASE k \in 1 .. n /\ sent[k] # Pad
  <2> DEFINE p == off[k]
             q == off[k + 1]
             d == sent[k].data
  <2>1. /\ q = p + 2 + Len(d) /\ q <= L
        /\ Options[p] = sent[k].code /\ Options[p + 1] = Len(d)
        /\ \A j \in 1 .. Len(d) : Options[p + 1 + j] = d[j]
    BY <1>3, <1>6 DEF ItemAt
  <2>2. sent[k].code \in 1 .. 254 /\ d \in Seq(Byte) /\ Len(d) \in Nat
    <3>1. sent[k] \in Encodable
      BY <1>1, <1>6
    <3> QED
      BY <1>6, <3>1 DEF Encodable
  <2>3. p \in Nat \ {0}
    BY <1>1, <1>3, <1>6
  <2>4. getOption = sent[k].code /\ getOptionLen = Len(d)
    BY <2>1 DEF getOption, getOptionLen
  <2>5. getOption # OPT.END
    <3>1. \A c \in 1 .. 254 : c # 255
      OBVIOUS
    <3> QED
      BY <2>2, <2>4, <3>1, Codes
  <2>6. nextOption = q
    <3>1. p + Len(d) + 2 = q
      <4> HIDE DEF p, q, d
      <4> QED
        BY <2>1, <2>2, <2>3
    <3> QED
      BY <2>4, <3>1 DEF nextOption
  <2>7. TakesAddr <=> k \in AddrOptions
    BY <1>1, <1>6, <2>4 DEF TakesAddr, AddrOptions
  <2>8. p \in 1 .. L /\ p + 1 \in 1 .. L /\ (Len(d) = 4 => p + 5 \in 1 .. L)
    <3> DEFINE l == Len(d)
    <3>1. /\ L \in Nat /\ l \in Nat /\ p \in Nat \ {0}
          /\ q = p + 2 + l /\ q <= L
      BY <1>1, <2>1, <2>2, <2>3
    <3> HIDE DEF p, q, L, l
    <3>2. p \in 1 .. L /\ p + 1 \in 1 .. L /\ (l = 4 => p + 5 \in 1 .. L)
      BY <3>1
    <3> QED
      BY <3>2 DEF l
  <2>9. Inside
    BY <1>1, <2>4, <2>8 DEF Inside, TakesAddr
  <2>10. ASSUME TakesAddr
         PROVE  getOptionData = d
    <3>1. Len(d) = 4
      BY <2>4, <2>10 DEF TakesAddr
    <3> DEFINE b == SubSeq(Options, p + 2, p + 5)
    <3>2. b \in Seq(Byte) /\ Len(b) = 4 /\ \A j \in 1 .. 4 : b[j] = Options[p + 1 + j]
      <4>0. p \in Nat /\ p >= 1 /\ p + 5 <= L
        BY <1>1, <2>3, <2>8, <3>1
      <4>1. \A j \in p + 2 .. p + 5 : Options[j] \in Byte
        <5> SUFFICES ASSUME NEW j \in p + 2 .. p + 5 PROVE Options[j] \in Byte
          OBVIOUS
        <5> HIDE DEF p, L
        <5>1. j \in 1 .. L
          BY <1>1, <4>0
        <5> QED
          BY <5>1, OptionsIs, ElementOfSeq DEF L
      <4> HIDE DEF p
      <4> DEFINE m == p + 2
                 e == p + 5
      <4>2. m \in Int /\ e \in Int /\ m <= e /\ e - m + 1 = 4
        BY <4>0
      <4>3. \A j \in 1 .. 4 : m + j - 1 = p + 1 + j
        BY <4>0
      <4> HIDE DEF m, e
      <4>4. \A j \in m .. e : Options[j] \in Byte
        BY <4>1 DEF m, e
      <4>5. /\ SubSeq(Options, m, e) \in Seq(Byte)
            /\ Len(SubSeq(Options, m, e)) = IF m <= e THEN e - m + 1 ELSE 0
            /\ \A j \in 1 .. e - m + 1 : SubSeq(Options, m, e)[j] = Options[m + j - 1]
        BY <4>2, <4>4, SubSeqProperties
      <4>6. b = SubSeq(Options, m, e)
        BY DEF m, e
      <4> HIDE DEF b
      <4> QED
        BY <4>2, <4>3, <4>5, <4>6
    <3>3. b = d
      <4>1. \A j \in 1 .. 4 : Options[p + 1 + j] = d[j]
        BY <2>1, <3>1
      <4> HIDE DEF b, d
      <4>2. /\ b \in Seq(Byte) /\ d \in Seq(Byte) /\ Len(b) = Len(d)
            /\ \A j \in 1 .. Len(b) : b[j] = d[j]
        BY <2>2, <3>1, <3>2, <4>1
      <4> QED
        BY <4>2, SeqEqual
    <3> QED
      BY <3>3 DEF getOptionData
  <2>11. k # n + 1
    BY <1>1, <1>6
  <2> QED
    BY <1>1, <1>6, <2>5, <2>6, <2>7, <2>9, <2>10, <2>11
<1> QED
  BY <1>1, <1>4, <1>5, <1>6

-----------------------------------------------------------------------------
(* The replies.                                                              *)

\* Flattening with one more part behind.
LEMMA FlattenAppend ==
  ASSUME NEW B, NEW s \in Seq(Seq(B)), NEW t \in Seq(B)
  PROVE  FlattenSeq(Append(s, t)) = FlattenSeq(s) \o t
<1> DEFINE n == Len(s)
           u == Append(s, t)
<1>1. /\ n \in Nat /\ u \in Seq(Seq(B)) /\ Len(u) = n + 1
      /\ u[n + 1] = t /\ \A k \in 1 .. n : u[k] = s[k]
  <2> DEFINE S == Seq(B)
  <2> HIDE DEF S
  <2>1. s \in Seq(S) /\ t \in S
    BY DEF S
  <2>2. /\ n \in Nat /\ u \in Seq(S) /\ Len(u) = n + 1
        /\ u[n + 1] = t /\ \A k \in 1 .. n : u[k] = s[k]
    BY <2>1
  <2> QED
    BY <2>2 DEF S
<1> HIDE DEF u
<1>2. PICK h : Flattens(h, u, Len(u)) /\ FlattenSeq(u) = h[Len(u)]
  BY <1>1, FlattenIs
<1>3. /\ h[1] = u[1]
      /\ \A k \in 1 .. n : h[k + 1] = h[k] \o u[k + 1]
  <2>1. /\ Len(u) # 0 => h[1] = u[1]
        /\ \A k \in 1 .. Len(u) - 1 : h[k + 1] = h[k] \o u[k + 1]
    <3>1. u \in Seq(Seq(B))
      BY <1>1
    <3>2. Flattens(h, u, Len(u))
      BY <1>2
    <3>3. Builds(h, u, B)
      BY <3>1, <3>2, FlattenParts
    <3> QED
      BY <3>3 DEF Builds
  <2> HIDE DEF n
  <2>2. Len(u) # 0 /\ Len(u) - 1 = n
    BY <1>1
  <2> QED
    BY <2>1, <2>2
<1>4. CASE n = 0
  <2>1. FlattenSeq(u) = t
    BY <1>1, <1>2, <1>3, <1>4
  <2>2. FlattenSeq(s) = <<>>
    BY <1>4 DEF FlattenSeq
  <2>3. <<>> \o t = t
    BY ConcatEmptySeq
  <2> QED
    BY <2>1, <2>2, <2>3 DEF u
<1>5. CASE n # 0
  <2>1. PICK g : Flattens(g, s, n) /\ FlattenSeq(s) = g[n]
    BY <1>1, <1>5, FlattenIs
  <2>2. /\ g[1] = s[1]
        /\ \A k \in 1 .. n - 1 : g[k + 1] = g[k] \o s[k + 1]
    <3>1. Flattens(g, s, Len(s))
      BY <2>1
    <3>2. Builds(g, s, B)
      BY <3>1, FlattenParts
    <3> QED
      BY <1>5, <3>2 DEF Builds
  <2> DEFINE S == {k \in 1 .. n : h[k] = g[k]}
  <2>3. 1 \in S
    BY <1>1, <1>3, <1>5, <2>2
  <2>4. ASSUME NEW k \in 1 .. n - 1, k \in S
        PROVE  k + 1 \in S
    <3>1. k + 1 \in 1 .. n /\ k \in 1 .. n
      BY <1>1
    <3> QED
      BY <1>1, <1>3, <2>2, <2>4, <3>1
  <2> HIDE DEF S
  <2>5. n \in S
    <3> HIDE DEF n
    <3>1. 1 .. n \subseteq S
      BY <1>1, <2>3, <2>4, UpTo
    <3>2. n \in 1 .. n
      BY <1>1, <1>5
    <3> QED
      BY <3>1, <3>2
  <2>6. h[n] = g[n]
    BY <2>5 DEF S
  <2>7. FlattenSeq(u) = g[n] \o t
    <3> HIDE DEF n
    <3>1. n \in 1 .. n
      BY <1>1, <1>5
    <3>2. h[n + 1] = h[n] \o u[n + 1]
      BY <1>3, <3>1
    <3> QED
      BY <1>1, <1>2, <2>6, <3>2
  <2> QED
    BY <2>1, <2>7 DEF u
<1> QED
  BY <1>4, <1>5

\* The bytes that stand for some options.
Writes(items, opts) ==
  /\ items \in Seq(Encodable) /\ opts \in Seq(Byte)
  /\ opts = FlattenSeq([i \in DOMAIN items |-> Encoded(items[i])])

\* A reply begins without options.
LEMMA WritesNothing == Writes(<<>>, <<>>)
<1> DEFINE s == [i \in DOMAIN <<>> |-> Encoded(<<>>[i])]
<1>1. s = <<>>
  OBVIOUS
<1>2. FlattenSeq(<<>>) = <<>>
  BY DEF FlattenSeq
<1>3. <<>> \in Seq(Encodable) /\ <<>> \in Seq(Byte)
  OBVIOUS
<1> QED
  BY <1>1, <1>2, <1>3 DEF Writes

\* One more option is written behind the others.
LEMMA WritesNext ==
  ASSUME NEW items, NEW opts, Writes(items, opts), NEW item \in Encodable
  PROVE  /\ Writes(Append(items, item), opts \o Encoded(item))
         /\ Len(opts) \in Nat
         /\ Len(opts \o Encoded(item)) = Len(opts) + Len(Encoded(item))
<1> DEFINE n == Len(items)
           b == Encoded(item)
           s == [i \in DOMAIN items |-> Encoded(items[i])]
           all == Append(items, item)
           u == [i \in DOMAIN all |-> Encoded(all[i])]
<1>1. items \in Seq(Encodable) /\ opts \in Seq(Byte) /\ opts = FlattenSeq(s)
  BY DEF Writes
<1>2. b \in Seq(Byte)
  BY EncodedIs
<1>3. n \in Nat /\ DOMAIN items = 1 .. n
  BY <1>1
<1>4. /\ all \in Seq(Encodable) /\ DOMAIN all = 1 .. n + 1
      /\ all[n + 1] = item /\ \A i \in 1 .. n : all[i] = items[i]
  BY <1>1
<1> DEFINE S == Seq(Byte)
<1>5. s \in Seq(S) /\ Len(s) = n
  <2>1. \A i \in 1 .. n : Encoded(items[i]) \in S
    BY <1>1, <1>3, EncodedIs
  <2> HIDE DEF S, n
  <2>2. s \in [1 .. n -> S]
    BY <1>3, <2>1
  <2> HIDE DEF s
  <2> QED
    BY <1>3, <2>2
<1>6. u = Append(s, b)
  <2>1. DOMAIN u = 1 .. n + 1
    BY <1>4
  <2>2. u[n + 1] = b /\ \A i \in 1 .. n : u[i] = Encoded(items[i])
    BY <1>3, <1>4
  <2>3. \A i \in 1 .. n : s[i] = Encoded(items[i])
    BY <1>3
  <2>4. b \in S
    BY <1>2
  <2> DEFINE v == Append(s, b)
  <2> HIDE DEF S, s, b, n
  <2>5. /\ v \in Seq(S) /\ Len(v) = n + 1
        /\ v[n + 1] = b /\ \A i \in 1 .. n : v[i] = s[i]
    BY <1>5, <2>4
  <2> HIDE DEF v
  <2>6. \A i \in 1 .. n + 1 : u[i] = v[i]
    <3> SUFFICES ASSUME NEW i \in 1 .. n + 1 PROVE u[i] = v[i]
      OBVIOUS
    <3>1. i = n + 1 \/ i \in 1 .. n
      BY <1>3
    <3> HIDE DEF u
    <3> QED
      BY <2>2, <2>3, <2>5, <3>1
  <2>7. v = [i \in 1 .. n + 1 |-> v[i]]
    BY <2>5
  <2> QED
    BY <2>1, <2>6, <2>7 DEF v
<1>7. FlattenSeq(u) = opts \o b
  <2> HIDE DEF s, b
  <2>1. FlattenSeq(Append(s, b)) = FlattenSeq(s) \o b
    BY <1>2, <1>5, FlattenAppend DEF S
  <2> QED
    BY <1>1, <1>6, <2>1
<1>8. opts \o b \in Seq(Byte) /\ Len(opts) \in Nat /\ Len(opts \o b) = Len(opts) + Len(b)
  <2> HIDE DEF b
  <2> QED
    BY <1>1, <1>2, Behind
<1> QED
  BY <1>4, <1>7, <1>8 DEF Writes

\* An option that has a length.
LEMMA OptIs ==
  ASSUME NEW c \in 1 .. 254, NEW d \in Seq(Byte), Len(d) <= 255
  PROVE  /\ Opt(c, d) \in Encodable
         /\ Encoded(Opt(c, d)) = <<c, Len(d)>> \o d
<1> DEFINE item == Opt(c, d)
<1>1. item.code = c /\ item.data = d /\ item \in [code : 1 .. 254, data : Seq(Byte)]
  BY DEF Opt
<1>2. item # Pad
  <2>1. Pad.code = 0 /\ c # 0
    BY Codes DEF Pad
  <2> HIDE DEF item
  <2> QED
    BY <1>1, <2>1
<1> HIDE DEF item
<1>3. item \in Encodable
  BY <1>1 DEF Encodable
<1>4. Encoded(item) = <<c, Len(d)>> \o d
  BY <1>1, <1>2 DEF Encoded
<1> QED
  BY <1>3, <1>4 DEF item

\* One more option, as the program writes it.
LEMMA AddsByte ==
  ASSUME NEW items, NEW opts, Writes(items, opts), NEW c \in 1 .. 254, NEW v \in Byte
  PROVE  /\ Writes(Append(items, Opt(c, <<v>>)), addOptionByte(opts, c, v))
         /\ Len(opts) \in Nat
         /\ Len(addOptionByte(opts, c, v)) = Len(opts) + 3
<1> DEFINE item == Opt(c, <<v>>)
           d == <<v>>
           h == <<c, 1>>
           e == <<c, 1, v>>
<1>1. d \in Seq(Byte) /\ Len(d) = 1 /\ d[1] = v
  OBVIOUS
<1>2. c \in Byte /\ 1 \in Byte
  BY DEF Byte
<1>3. h \in Seq(Byte) /\ Len(h) = 2 /\ h[1] = c /\ h[2] = 1
  BY <1>2
<1>4. e \in Seq(Byte) /\ Len(e) = 3 /\ e[1] = c /\ e[2] = 1 /\ e[3] = v
  BY <1>2
<1>5. item \in Encodable /\ Encoded(item) = h \o d
  <2> HIDE DEF d
  <2>1. Len(d) <= 255
    BY <1>1
  <2>2. Opt(c, d) \in Encodable /\ Encoded(Opt(c, d)) = <<c, Len(d)>> \o d
    BY <1>1, <2>1, OptIs
  <2> QED
    BY <1>1, <2>2 DEF d
<1> HIDE DEF d, h, e, item
<1>6. h \o d = e
  <2>1. /\ h \o d \in Seq(Byte) /\ Len(h \o d) = 3
        /\ (h \o d)[1] = c /\ (h \o d)[2] = 1 /\ (h \o d)[3] = v
    <3>1. d \in Seq(Byte) /\ h \in Seq(Byte)
      BY <1>1, <1>3
    <3>2. /\ h \o d \in Seq(Byte) /\ Len(h \o d) = Len(h) + Len(d)
          /\ \A p \in 1 .. Len(h) : (h \o d)[p] = h[p]
          /\ \A j \in 1 .. Len(d) : (h \o d)[Len(h) + j] = d[j]
      BY <3>1, Behind
    <3> QED
      BY <1>1, <1>3, <3>2
  <2>2. \A i \in 1 .. 3 : (h \o d)[i] = e[i]
    BY <1>4, <2>1
  <2> QED
    BY <1>4, <2>1, <2>2, SeqEqual
<1>7. /\ Writes(Append(items, item), opts \o Encoded(item))
      /\ Len(opts) \in Nat
      /\ Len(opts \o Encoded(item)) = Len(opts) + Len(Encoded(item))
  BY <1>5, WritesNext
<1> QED
  BY <1>4, <1>5, <1>6, <1>7 DEF addOptionByte, e, item, d

\* Four bytes of data.
LEMMA FourBytes ==
  ASSUME NEW items, NEW opts, Writes(items, opts), NEW c \in 1 .. 254,
         NEW d \in Seq(Byte), Len(d) = 4
  PROVE  /\ Writes(Append(items, Opt(c, d)), opts \o <<c, 4>> \o d)
         /\ Len(opts) \in Nat
         /\ Len(opts \o <<c, 4>> \o d) = Len(opts) + 6
<1> DEFINE item == Opt(c, d)
           h    == <<c, 4>>
<1>2. item \in Encodable /\ Encoded(item) = h \o d
  <2>1. Encoded(item) = <<c, Len(d)>> \o d /\ item \in Encodable
    <3>1. Len(d) <= 255
      OBVIOUS
    <3> QED
      BY <3>1, OptIs
  <2> QED
    BY <2>1
<1>3. Encoded(item) = h \o d
  BY <1>2
<1>4. h \in Seq(Byte) /\ Len(h) = 2
  <2>1. c \in Byte /\ 4 \in Byte
    BY DEF Byte
  <2> QED
    BY <2>1
<1>5. opts \in Seq(Byte)
  BY DEF Writes
<1> HIDE DEF h, item
<1>6. (opts \o h) \o d = opts \o (h \o d) /\ Len(h \o d) = 6
  <2>1. Len(h \o d) = Len(h) + Len(d)
    BY <1>4, Behind
  <2>2. Len(h \o d) = 6
    BY <1>4, <2>1
  <2> QED
    BY <1>4, <1>5, <2>2, ConcatAssociative
<1>7. /\ Writes(Append(items, item), opts \o Encoded(item))
      /\ Len(opts) \in Nat
      /\ Len(opts \o Encoded(item)) = Len(opts) + Len(Encoded(item))
  BY <1>2, WritesNext
<1> QED
  BY <1>3, <1>6, <1>7 DEF h, item

\* An address as the bytes of an option.
LEMMA AddressBytes ==
  ASSUME NEW ip \in Address
  PROVE  ip \in Seq(Byte) /\ Len(ip) = 4
<1> DEFINE B == Byte
<1> HIDE DEF B
<1>1. ip \in [1 .. 4 -> B]
  BY DEF Address, B
<1>2. ip \in Seq(B) /\ Len(ip) = 4
  BY <1>1
<1> QED
  BY <1>2 DEF B

\* addOptionIP writes an option with an address.
LEMMA AddsIP ==
  ASSUME NEW items, NEW opts, Writes(items, opts), NEW c \in 1 .. 254, NEW ip \in Address
  PROVE  /\ Writes(Append(items, Opt(c, ip)), addOptionIP(opts, c, ip))
         /\ Len(opts) \in Nat
         /\ Len(addOptionIP(opts, c, ip)) = Len(opts) + 6
<1>1. ip \in Seq(Byte) /\ Len(ip) = 4
  BY AddressBytes
<1> QED
  BY <1>1, FourBytes DEF addOptionIP

\* The times of a confirmation, in network order.
SecondsIn(t, h, l) ==
  /\ t = h * 256 + l /\ h \in 1 .. 255 /\ l \in 1 .. 255
  /\ t % 256 = l /\ t \div 256 = h
  /\ t \div 16777216 = 0 /\ (t % 16777216) \div 65536 = 0 /\ (t % 65536) \div 256 = h

\* The four bytes of a time of which the lower two are not zero.
LEMMA SecondsIs ==
  ASSUME NEW t \in Nat, NEW h, NEW l, SecondsIn(t, h, l)
  PROVE  Seconds(t) = <<0, 0, h, l>>
<1> DEFINE S == {0} \cup {t % 256} \cup {t \div 256}
           b == <<0, 0, h, l>>
           Is(d) == d[1] * 16777216 + d[2] * 65536 + d[3] * 256 + d[4] = t
<1>1. /\ t = h * 256 + l /\ h \in 1 .. 255 /\ l \in 1 .. 255
      /\ t % 256 = l /\ t \div 256 = h
  BY SMT DEF SecondsIn
<1>2. S = {0, l, h}
  BY <1>1
<1>3. b \in [1 .. 4 -> S] /\ Is(b)
  <2>1. b[1] = 0 /\ b[2] = 0 /\ b[3] = h /\ b[4] = l
    OBVIOUS
  <2>2. b \in [1 .. 4 -> {0, l, h}]
    OBVIOUS
  <2> HIDE DEF b
  <2> QED
    BY <1>1, <1>2, <2>1, <2>2, SMT
<1>4. ASSUME NEW d \in [1 .. 4 -> S], Is(d)
      PROVE  d = b
  <2> HIDE DEF S
  <2> DEFINE w == d[1]
             x == d[2]
             y == d[3]
             z == d[4]
  <2>1. w \in S /\ x \in S /\ y \in S /\ z \in S
    OBVIOUS
  <2>2. w * 16777216 + x * 65536 + y * 256 + z = t
    BY <1>4, SMT
  <2> HIDE DEF w, x, y, z
  <2>3. w \in 0 .. 255 /\ x \in 0 .. 255 /\ y \in 0 .. 255 /\ z \in 0 .. 255
    BY <1>1, <1>2, <2>1
  <2>4. w = 0 /\ x = 0 /\ y = h /\ z = l
    BY <1>1, <2>2, <2>3, SMT
  <2>5. d = [j \in 1 .. 4 |-> d[j]] /\ b = [j \in 1 .. 4 |-> b[j]]
    OBVIOUS
  <2>6. b[1] = 0 /\ b[2] = 0 /\ b[3] = h /\ b[4] = l
    OBVIOUS
  <2> HIDE DEF b
  <2>7. \A j \in 1 .. 4 : d[j] = b[j]
    BY <2>4, <2>6 DEF w, x, y, z
  <2> QED
    BY <2>5, <2>7
<1>5. Seconds(t) = CHOOSE d \in [1 .. 4 -> S] : Is(d)
  BY SMT DEF Seconds
<1> HIDE DEF S, b, Is
<1>6. (CHOOSE d \in [1 .. 4 -> S] : Is(d)) = b
  BY <1>3, <1>4
<1> QED
  BY <1>5, <1>6 DEF b

TwoBytes(t) == t \in Nat /\ \E h, l : SecondsIn(t, h, l)

\* addOptionTime writes an option with a time.
LEMMA AddsTime ==
  ASSUME NEW items, NEW opts, Writes(items, opts), NEW c \in 1 .. 254,
         NEW t, TwoBytes(t)
  PROVE  /\ Writes(Append(items, Opt(c, Seconds(t))), addOptionTime(opts, c, t))
         /\ Len(opts) \in Nat
         /\ Len(addOptionTime(opts, c, t)) = Len(opts) + 6
<1>0. PICK h, l : SecondsIn(t, h, l)
  BY DEF TwoBytes
<1> DEFINE d == <<0, 0, h, l>>
<1>1. Seconds(t) = d
  BY <1>0, SecondsIs DEF TwoBytes
<1>2. d \in Seq(Byte) /\ Len(d) = 4
  BY <1>0, SMT DEF SecondsIn, Byte
<1>3. opts \in Seq(Byte)
  BY DEF Writes
<1> DEFINE f == <<c, 4, 0, 0, h, l>>
           e == <<c, 4>>
<1>4. addOptionTime(opts, c, t) = opts \o f
  <2> DEFINE b1 == t \div 16777216
             b2 == (t % 16777216) \div 65536
             b3 == (t % 65536) \div 256
             b4 == t % 256
  <2>1. b1 = 0 /\ b2 = 0 /\ b3 = h /\ b4 = l
    BY <1>0, SMT DEF SecondsIn
  <2>2. addOptionTime(opts, c, t) = opts \o <<c, 4, b1, b2, b3, b4>>
    BY SMT DEF addOptionTime
  <2> HIDE DEF b1, b2, b3, b4
  <2> QED
    BY <2>1, <2>2
<1>5. c \in Byte /\ 4 \in Byte /\ 0 \in Byte /\ h \in Byte /\ l \in Byte
  BY <1>0, SMT DEF SecondsIn, Byte
<1>6. e \in Seq(Byte) /\ Len(e) = 2 /\ e[1] = c /\ e[2] = 4
  BY <1>5
<1>7. /\ f \in Seq(Byte) /\ Len(f) = 6
      /\ f[1] = c /\ f[2] = 4 /\ f[3] = 0 /\ f[4] = 0 /\ f[5] = h /\ f[6] = l
  BY <1>5
<1>8. d[1] = 0 /\ d[2] = 0 /\ d[3] = h /\ d[4] = l
  OBVIOUS
<1> HIDE DEF d, e, f
<1>9. e \o d = f
  <2> DEFINE x == e \o d
  <2>1. /\ x \in Seq(Byte) /\ Len(x) = Len(e) + Len(d)
        /\ \A p \in 1 .. Len(e) : x[p] = e[p]
        /\ \A j \in 1 .. Len(d) : x[Len(e) + j] = d[j]
    <3>1. d \in Seq(Byte) /\ e \in Seq(Byte)
      BY <1>2, <1>6
    <3> QED
      BY <3>1, Behind
  <2> HIDE DEF x
  <2>2. /\ Len(x) = 6 /\ x[1] = e[1] /\ x[2] = e[2]
        /\ x[2 + 1] = d[1] /\ x[2 + 2] = d[2] /\ x[2 + 3] = d[3] /\ x[2 + 4] = d[4]
    BY <1>2, <1>6, <2>1
  <2>3. x[1] = c /\ x[2] = 4 /\ x[3] = 0 /\ x[4] = 0 /\ x[5] = h /\ x[6] = l
    BY <1>6, <1>8, <2>2
  <2>4. /\ x \in Seq(Byte) /\ f \in Seq(Byte) /\ Len(x) = Len(f)
        /\ \A i \in 1 .. Len(x) : x[i] = f[i]
    <3>1. \A i \in 1 .. 6 : i = 1 \/ i = 2 \/ i = 3 \/ i = 4 \/ i = 5 \/ i = 6
      OBVIOUS
    <3>2. \A i \in 1 .. 6 : x[i] = f[i]
      BY <1>7, <2>3, <3>1
    <3> QED
      BY <1>7, <2>1, <2>2, <3>2
  <2>5. x = f
    BY <2>4, SeqEqual
  <2> QED
    BY <2>5 DEF x
<1>10. (opts \o e) \o d = opts \o (e \o d)
  <2>1. opts \in Seq(Byte) /\ e \in Seq(Byte) /\ d \in Seq(Byte)
    BY <1>2, <1>3, <1>6
  <2> QED
    BY <2>1, ConcatAssociative
<1> QED
  <2>1. addOptionTime(opts, c, t) = opts \o <<c, 4>> \o d
    BY <1>4, <1>9, <1>10 DEF e
  <2>2. /\ Writes(Append(items, Opt(c, d)), opts \o <<c, 4>> \o d)
        /\ Len(opts) \in Nat
        /\ Len(opts \o <<c, 4>> \o d) = Len(opts) + 6
    BY <1>2, FourBytes
  <2> QED
    BY <1>1, <2>1, <2>2

\* What is finished is what a station may read: the options, an end mark, zeros.
\* Up to 33 bytes of options leave room for the mark.
LEMMA FinishIs ==
  ASSUME NEW items, NEW opts, Writes(items, opts), Len(opts) <= 33
  PROVE  /\ Finish(opts) = Field(items, TRUE)
         /\ Finish(opts) \in [1 .. OptionsLen -> Byte]
<1> DEFINE s     == [i \in DOMAIN items |-> Encoded(items[i])]
           bytes == opts \o <<OPT.END>>
           top   == Max({OptionsLen, Len(bytes)})
<1>1. opts \in Seq(Byte) /\ opts = FlattenSeq(s) /\ Len(opts) \in Nat
  BY DEF Writes
<1>2. Len(bytes) = Len(opts) + 1 /\ bytes \in Seq(Byte)
  <2> DEFINE e == <<OPT.END>>
  <2>1. e \in Seq(Byte) /\ Len(e) = 1
    BY EndMark
  <2> HIDE DEF e
  <2>2. Len(opts \o e) = Len(opts) + Len(e) /\ opts \o e \in Seq(Byte)
    BY <1>1, <2>1, Behind
  <2> QED
    BY <2>1, <2>2 DEF e
<1>3. Finish(opts) = [i \in 1 .. top |-> IF i <= Len(bytes) THEN bytes[i] ELSE 0]
  BY DEF Finish, InField
<1>4. Field(items, TRUE) = Finish(opts)
  <2>1. (IF TRUE THEN <<OPT.END>> ELSE <<>>) = <<OPT.END>>
    OBVIOUS
  <2> QED
    BY <1>1, <2>1 DEF Field, Finish
<1> HIDE DEF bytes
<1>5. top = OptionsLen
  <2>1. Len(bytes) \in Nat /\ OptionsLen \in Nat /\ OptionsLen >= Len(bytes)
    BY <1>1, <1>2, OptionsAssumption
  <2> QED
    BY <2>1, MaxOfTwo
<1>6. \A i \in 1 .. OptionsLen : (IF i <= Len(bytes) THEN bytes[i] ELSE 0) \in Byte
  <2>1. 0 \in Byte /\ Len(bytes) \in Nat
    BY <1>1, <1>2 DEF Byte
  <2> QED
    BY <1>2, <2>1, OptionsAssumption
<1> HIDE DEF top
<1> QED
  BY <1>3, <1>4, <1>5, <1>6

\* Each reply holds the options that its kind has, in their order.
Reply(items) == Field(items, TRUE)

\* Every reply begins with its kind.
LEMMA TypeIs ==
  ASSUME NEW t \in Byte
  PROVE  Writes(<<Opt(OPT.MSGTYPE, <<t>>)>>, Type(t)) /\ Len(Type(t)) = 3
<1> DEFINE a == Opt(OPT.MSGTYPE, <<t>>)
<1>1. OPT.MSGTYPE \in 1 .. 254
  BY Codes
<1>2. /\ Writes(Append(<<>>, a), Type(t))
      /\ Len(Type(t)) = Len(<<>>) + 3
  BY <1>1, WritesNothing, AddsByte DEF Type
<1> HIDE DEF a
<1>3. Append(<<>>, a) = <<a>> /\ Len(<<>>) = 0
  OBVIOUS
<1> QED
  BY <1>2, <1>3 DEF a

\* Addresses are four bytes.
LEMMA Addresses ==
  /\ Netmask \in Address /\ ServerAddr \in Address
  /\ NewAddr \in Addrs /\ ZeroAddr \in Addrs /\ \A ip \in Addrs : ip \in Address
BY OptionsAssumption

\* The options of a reply, one after the other.
LEMMA AppendTuples ==
  ASSUME NEW a, NEW b, NEW c, NEW d, NEW e, NEW f
  PROVE  /\ Append(<<a>>, b) = <<a, b>>
         /\ Append(<<a, b>>, c) = <<a, b, c>>
         /\ Append(<<a, b, c>>, d) = <<a, b, c, d>>
         /\ Append(<<a, b, c, d>>, e) = <<a, b, c, d, e>>
         /\ Append(<<a, b, c, d, e>>, f) = <<a, b, c, d, e, f>>
<1> DEFINE S == {a, b, c, d, e, f}
<1>2. Append(<<a>>, b) = <<a, b>>
  <2> DEFINE s == <<a, b>>
             t == Append(<<a>>, b)
  <2>1. s \in Seq(S) /\ Len(s) = 2
        /\ s[1] = a /\ s[2] = b
    OBVIOUS
  <2>2. t \in Seq(S) /\ Len(t) = 2
        /\ t[1] = a /\ t[2] = b
    OBVIOUS
  <2> HIDE DEF s, t, S
  <2>3. \A i \in 1 .. 2 : s[i] = t[i]
    BY <2>1, <2>2
  <2>4. s = t
    BY <2>1, <2>2, <2>3, SeqEqual
  <2> QED
    BY <2>4 DEF s, t
<1>3. Append(<<a, b>>, c) = <<a, b, c>>
  <2> DEFINE s == <<a, b, c>>
             t == Append(<<a, b>>, c)
  <2>1. s \in Seq(S) /\ Len(s) = 3
        /\ s[1] = a /\ s[2] = b /\ s[3] = c
    OBVIOUS
  <2>2. t \in Seq(S) /\ Len(t) = 3
        /\ t[1] = a /\ t[2] = b /\ t[3] = c
    OBVIOUS
  <2> HIDE DEF s, t, S
  <2>3. \A i \in 1 .. 3 : s[i] = t[i]
    BY <2>1, <2>2
  <2>4. s = t
    BY <2>1, <2>2, <2>3, SeqEqual
  <2> QED
    BY <2>4 DEF s, t
<1>4. Append(<<a, b, c>>, d) = <<a, b, c, d>>
  <2> DEFINE s == <<a, b, c, d>>
             t == Append(<<a, b, c>>, d)
  <2>1. s \in Seq(S) /\ Len(s) = 4
        /\ s[1] = a /\ s[2] = b /\ s[3] = c /\ s[4] = d
    OBVIOUS
  <2>2. t \in Seq(S) /\ Len(t) = 4
        /\ t[1] = a /\ t[2] = b /\ t[3] = c /\ t[4] = d
    OBVIOUS
  <2> HIDE DEF s, t, S
  <2>3. \A i \in 1 .. 4 : s[i] = t[i]
    BY <2>1, <2>2
  <2>4. s = t
    BY <2>1, <2>2, <2>3, SeqEqual
  <2> QED
    BY <2>4 DEF s, t
<1>5. Append(<<a, b, c, d>>, e) = <<a, b, c, d, e>>
  <2> DEFINE s == <<a, b, c, d, e>>
             t == Append(<<a, b, c, d>>, e)
  <2>1. s \in Seq(S) /\ Len(s) = 5
        /\ s[1] = a /\ s[2] = b /\ s[3] = c /\ s[4] = d /\ s[5] = e
    OBVIOUS
  <2>2. t \in Seq(S) /\ Len(t) = 5
        /\ t[1] = a /\ t[2] = b /\ t[3] = c /\ t[4] = d /\ t[5] = e
    OBVIOUS
  <2> HIDE DEF s, t, S
  <2>3. \A i \in 1 .. 5 : s[i] = t[i]
    BY <2>1, <2>2
  <2>4. s = t
    BY <2>1, <2>2, <2>3, SeqEqual
  <2> QED
    BY <2>4 DEF s, t
<1>6. Append(<<a, b, c, d, e>>, f) = <<a, b, c, d, e, f>>
  <2> DEFINE s == <<a, b, c, d, e, f>>
             t == Append(<<a, b, c, d, e>>, f)
  <2>1. s \in Seq(S) /\ Len(s) = 6
        /\ s[1] = a /\ s[2] = b /\ s[3] = c /\ s[4] = d /\ s[5] = e /\ s[6] = f
    OBVIOUS
  <2>2. t \in Seq(S) /\ Len(t) = 6
        /\ t[1] = a /\ t[2] = b /\ t[3] = c /\ t[4] = d /\ t[5] = e /\ t[6] = f
    OBVIOUS
  <2> HIDE DEF s, t, S
  <2>3. \A i \in 1 .. 6 : s[i] = t[i]
    BY <2>1, <2>2
  <2>4. s = t
    BY <2>1, <2>2, <2>3, SeqEqual
  <2> QED
    BY <2>4 DEF s, t
<1> QED
  BY <1>2, <1>3, <1>4, <1>5, <1>6

\* The offer is these three options, and fits into its field.
LEMMA OfferIs ==
  /\ Offer = Reply(<<Opt(OPT.MSGTYPE, <<DHCP.OFFER>>), Opt(OPT.NETMASK, Netmask),
                     Opt(OPT.SERVERID, ServerAddr)>>)
  /\ Offer \in [1 .. OptionsLen -> Byte]
<1> DEFINE a == Opt(OPT.MSGTYPE, <<DHCP.OFFER>>)
           b == Opt(OPT.NETMASK, Netmask)
           c == Opt(OPT.SERVERID, ServerAddr)
           o1 == Type(DHCP.OFFER)
           o2 == addOptionIP(o1, OPT.NETMASK, Netmask)
           o3 == addOptionIP(o2, OPT.SERVERID, ServerAddr)
<1>1. OPT.NETMASK \in 1 .. 254 /\ OPT.SERVERID \in 1 .. 254 /\ DHCP.OFFER \in Byte
  BY Codes DEF Byte
<1>2. Writes(<<a>>, o1) /\ Len(o1) = 3
  BY <1>1, TypeIs
<1> HIDE DEF o1
<1>3. Writes(Append(<<a>>, b), o2) /\ Len(o2) = Len(o1) + 6
  BY <1>1, <1>2, Addresses, AddsIP
<1> HIDE DEF o2
<1>4. Offer = Finish(o3)
  BY DEF Offer, o1, o2
<1> HIDE DEF a, b
<1>5. Writes(<<a, b, c>>, o3) /\ Len(o3) = Len(o2) + 6
  <2> DEFINE s == <<a, b>>
  <2>1. s = Append(<<a>>, b) /\ Append(s, c) = <<a, b, c>>
    <3> HIDE DEF c
    <3> QED
      BY AppendTuples
  <2> HIDE DEF s
  <2>2. Writes(s, o2)
    BY <1>3, <2>1
  <2>3. Writes(Append(s, c), o3) /\ Len(o3) = Len(o2) + 6
    BY <1>1, <2>2, Addresses, AddsIP
  <2> HIDE DEF c, o3
  <2> QED
    BY <2>1, <2>3
<1> HIDE DEF c, o3
<1>6. Len(o3) <= 33
  BY <1>2, <1>3, <1>5
<1> QED
  BY <1>4, <1>5, <1>6, FinishIs DEF Reply, a, b, c

\* The refusal is these two.
LEMMA NakIs ==
  /\ Nak = Reply(<<Opt(OPT.MSGTYPE, <<DHCP.NAK>>), Opt(OPT.SERVERID, ServerAddr)>>)
  /\ Nak \in [1 .. OptionsLen -> Byte]
<1> DEFINE a == Opt(OPT.MSGTYPE, <<DHCP.NAK>>)
           b == Opt(OPT.SERVERID, ServerAddr)
           o1 == Type(DHCP.NAK)
           o2 == addOptionIP(o1, OPT.SERVERID, ServerAddr)
<1>1. OPT.SERVERID \in 1 .. 254 /\ DHCP.NAK \in Byte
  BY Codes DEF Byte
<1>2. Writes(<<a>>, o1) /\ Len(o1) = 3
  BY <1>1, TypeIs
<1> HIDE DEF o1
<1>3. Writes(Append(<<a>>, b), o2) /\ Len(o2) = Len(o1) + 6
  BY <1>1, <1>2, Addresses, AddsIP
<1>4. Nak = Finish(o2)
  BY DEF Nak, o1
<1> HIDE DEF a, b, o2
<1>5. Append(<<a>>, b) = <<a, b>>
  BY AppendTuples
<1>6. Len(o2) <= 33
  BY <1>2, <1>3
<1> QED
  BY <1>3, <1>4, <1>5, <1>6, FinishIs DEF Reply, a, b

\* The confirmation is these six.
LEMMA AckIs ==
  /\ Ack = Reply(<<Opt(OPT.MSGTYPE, <<DHCP.ACK>>), Opt(OPT.RENEW_TIME, Seconds(1800)),
                   Opt(OPT.REBIND_TIME, Seconds(3000)), Opt(OPT.LEASE_TIME, Seconds(3600)),
                   Opt(OPT.NETMASK, Netmask), Opt(OPT.SERVERID, ServerAddr)>>)
  /\ Ack \in [1 .. OptionsLen -> Byte]
<1> DEFINE a == Opt(OPT.MSGTYPE, <<DHCP.ACK>>)
           b == Opt(OPT.RENEW_TIME, Seconds(1800))
           c == Opt(OPT.REBIND_TIME, Seconds(3000))
           d == Opt(OPT.LEASE_TIME, Seconds(3600))
           e == Opt(OPT.NETMASK, Netmask)
           f == Opt(OPT.SERVERID, ServerAddr)
           o1 == Type(DHCP.ACK)
           o2 == addOptionTime(o1, OPT.RENEW_TIME, 1800)
           o3 == addOptionTime(o2, OPT.REBIND_TIME, 3000)
           o4 == addOptionTime(o3, OPT.LEASE_TIME, 3600)
           o5 == addOptionIP(o4, OPT.NETMASK, Netmask)
           o6 == addOptionIP(o5, OPT.SERVERID, ServerAddr)
<1>1. /\ OPT.NETMASK \in 1 .. 254 /\ OPT.SERVERID \in 1 .. 254 /\ DHCP.ACK \in Byte
      /\ OPT.RENEW_TIME \in 1 .. 254 /\ OPT.REBIND_TIME \in 1 .. 254
      /\ OPT.LEASE_TIME \in 1 .. 254
  BY Codes DEF Byte
<1>2. TwoBytes(1800) /\ TwoBytes(3000) /\ TwoBytes(3600)
  <2>1. SecondsIn(1800, 7, 8) /\ SecondsIn(3000, 11, 184) /\ SecondsIn(3600, 14, 16)
    BY SMT DEF SecondsIn
  <2> QED
    BY <2>1, SMT DEF TwoBytes
<1>3. Writes(<<a>>, o1) /\ Len(o1) = 3
  BY <1>1, TypeIs
<1>4. Ack = Finish(o6)
  <2>1. 30 * 60 = 1800 /\ 50 * 60 = 3000 /\ 60 * 60 = 3600
    BY SMT
  <2> QED
    BY <2>1 DEF Ack, AckTimes
<1> HIDE DEF o1, a, b, c, d, e, f
<1>5. /\ Append(<<a>>, b) = <<a, b>> /\ Append(<<a, b>>, c) = <<a, b, c>>
       /\ Append(<<a, b, c>>, d) = <<a, b, c, d>>
       /\ Append(<<a, b, c, d>>, e) = <<a, b, c, d, e>>
       /\ Append(<<a, b, c, d, e>>, f) = <<a, b, c, d, e, f>>
  BY AppendTuples
<1>6. Writes(<<a, b>>, o2) /\ Len(o2) = Len(o1) + 6
  <2> DEFINE k == OPT.RENEW_TIME
             v == 1800
             s == <<a>>
  <2>1. k \in 1 .. 254 /\ TwoBytes(v) /\ Writes(s, o1)
    BY <1>1, <1>2, <1>3
  <2>2. Append(s, b) = <<a, b>>
    BY <1>5
  <2> HIDE DEF k, v, s
  <2>3. /\ Writes(Append(s, Opt(k, Seconds(v))), addOptionTime(o1, k, v))
        /\ Len(addOptionTime(o1, k, v)) = Len(o1) + 6
    BY <2>1, AddsTime
  <2>4. o2 = addOptionTime(o1, k, v) /\ b = Opt(k, Seconds(v))
    BY DEF k, v, b
  <2> HIDE DEF o2
  <2> QED
    BY <2>2, <2>3, <2>4
<1> HIDE DEF o2
<1>7. Writes(<<a, b, c>>, o3) /\ Len(o3) = Len(o2) + 6
  <2> DEFINE k == OPT.REBIND_TIME
             v == 3000
             s == <<a, b>>
  <2>1. k \in 1 .. 254 /\ TwoBytes(v) /\ Writes(s, o2)
    BY <1>1, <1>2, <1>6
  <2>2. Append(s, c) = <<a, b, c>>
    BY <1>5
  <2> HIDE DEF k, v, s
  <2>3. /\ Writes(Append(s, Opt(k, Seconds(v))), addOptionTime(o2, k, v))
        /\ Len(addOptionTime(o2, k, v)) = Len(o2) + 6
    BY <2>1, AddsTime
  <2>4. o3 = addOptionTime(o2, k, v) /\ c = Opt(k, Seconds(v))
    BY DEF k, v, c
  <2> HIDE DEF o3
  <2> QED
    BY <2>2, <2>3, <2>4
<1> HIDE DEF o3
<1>8. Writes(<<a, b, c, d>>, o4) /\ Len(o4) = Len(o3) + 6
  <2> DEFINE k == OPT.LEASE_TIME
             v == 3600
             s == <<a, b, c>>
  <2>1. k \in 1 .. 254 /\ TwoBytes(v) /\ Writes(s, o3)
    BY <1>1, <1>2, <1>7
  <2>2. Append(s, d) = <<a, b, c, d>>
    BY <1>5
  <2> HIDE DEF k, v, s
  <2>3. /\ Writes(Append(s, Opt(k, Seconds(v))), addOptionTime(o3, k, v))
        /\ Len(addOptionTime(o3, k, v)) = Len(o3) + 6
    BY <2>1, AddsTime
  <2>4. o4 = addOptionTime(o3, k, v) /\ d = Opt(k, Seconds(v))
    BY DEF k, v, d
  <2> HIDE DEF o4
  <2> QED
    BY <2>2, <2>3, <2>4
<1> HIDE DEF o4
<1>9. Writes(<<a, b, c, d, e>>, o5) /\ Len(o5) = Len(o4) + 6
  <2> DEFINE k == OPT.NETMASK
             v == Netmask
             s == <<a, b, c, d>>
  <2>1. k \in 1 .. 254 /\ v \in Address /\ Writes(s, o4)
    BY <1>1, Addresses, <1>8
  <2>2. Append(s, e) = <<a, b, c, d, e>>
    BY <1>5
  <2> HIDE DEF k, v, s
  <2>3. /\ Writes(Append(s, Opt(k, v)), addOptionIP(o4, k, v))
        /\ Len(addOptionIP(o4, k, v)) = Len(o4) + 6
    BY <2>1, AddsIP
  <2>4. o5 = addOptionIP(o4, k, v) /\ e = Opt(k, v)
    BY DEF k, v, e
  <2> HIDE DEF o5
  <2> QED
    BY <2>2, <2>3, <2>4
<1> HIDE DEF o5
<1>10. Writes(<<a, b, c, d, e, f>>, o6) /\ Len(o6) = Len(o5) + 6
  <2> DEFINE k == OPT.SERVERID
             v == ServerAddr
             s == <<a, b, c, d, e>>
  <2>1. k \in 1 .. 254 /\ v \in Address /\ Writes(s, o5)
    BY <1>1, Addresses, <1>9
  <2>2. Append(s, f) = <<a, b, c, d, e, f>>
    BY <1>5
  <2> HIDE DEF k, v, s
  <2>3. /\ Writes(Append(s, Opt(k, v)), addOptionIP(o5, k, v))
        /\ Len(addOptionIP(o5, k, v)) = Len(o5) + 6
    BY <2>1, AddsIP
  <2>4. o6 = addOptionIP(o5, k, v) /\ f = Opt(k, v)
    BY DEF k, v, f
  <2> HIDE DEF o6
  <2> QED
    BY <2>2, <2>3, <2>4
<1> HIDE DEF o6
<1>11. Len(o6) <= 33
  BY <1>3, <1>6, <1>7, <1>8, <1>9, <1>10
<1> QED
  <2>1. Ack = Reply(<<a, b, c, d, e, f>>) /\ Ack \in [1 .. OptionsLen -> Byte]
    BY <1>4, <1>10, <1>11, FinishIs DEF Reply
  <2> QED
    BY <2>1 DEF a, b, c, d, e, f

-----------------------------------------------------------------------------
(* The invariant.                                                            *)

\* The walk over a well-formed message is at the beginning of one of its
\* options, or at its end mark, and has what the options before ask for.
AtItem ==
  phase = "walk" /\ WellFormed =>
    \E off : /\ Laid(sent, ended, Options, off)
             /\ \E k \in 1 .. Len(sent) + 1 :
                  optionPtr = off[k] /\ PairsBefore(k) /\ AskedBefore(k)

OptInv ==
  /\ OptTypeOK
  /\ phase # "answered" => yiaddr = ZeroAddr /\ resp = <<>>
  /\ phase = "received" => optionPtr = 1 /\ reqAddr = ZeroAddr
  /\ TypeFirst /\ phase = "walk" => Kind = DHCP.REQUEST
  /\ AtItem
  /\ WalkStaysInside
  /\ AnswerMatches

\* The fixed place holds the kind when its option is the first one.
LEMMA KindIsRead ==
  ASSUME sent \in Seq(Items), ended \in BOOLEAN, TypeFirst
  PROVE  MessageType = Kind
<1>1. PICK off : Laid(sent, ended, Options, off)
  BY OptionsIs
<1>2. 1 \in DOMAIN sent /\ sent[1].code = 53 /\ Len(sent[1].data) = 1
  BY Codes DEF TypeFirst
<1>3. sent[1] # Pad
  <2>1. Pad.code = 0
    BY Codes DEF Pad
  <2> QED
    BY <1>2, <2>1
<1>4. off[1] = 1 /\ ItemAt(Options, sent[1], off[1], off[2])
  BY <1>1, <1>2, 1 + 1 = 2 DEF Laid
<1>5. Options[1 + 1 + 1] = sent[1].data[1]
  BY <1>2, <1>3, <1>4 DEF ItemAt
<1>6. 1 + 1 + 1 = 3
  OBVIOUS
<1> QED
  BY <1>5, <1>6 DEF MessageType, Kind

\* At the end mark, the walk has what the message asks for.
LEMMA AskedAll ==
  ASSUME sent \in Seq(Items), AskedBefore(Len(sent) + 1)
  PROVE  reqAddr = Wanted
<1> DEFINE n == Len(sent)
<1>1. AddrBefore(n + 1) = AddrOptions
  BY DEF AddrBefore, AddrOptions
<1>2. CASE AddrOptions = {} /\ reqAddr = ZeroAddr
  BY <1>2 DEF Wanted
<1>3. CASE \E i \in AddrOptions : /\ \A j \in AddrOptions : j <= i
                                  /\ reqAddr = sent[i].data
  <2>1. PICK i \in AddrOptions : /\ \A j \in AddrOptions : j <= i
                                 /\ reqAddr = sent[i].data
    BY <1>3
  <2>2. \A j \in AddrOptions : j \in Nat
    BY DEF AddrOptions
  <2> DEFINE top == Max(AddrOptions)
  <2>3. top \in AddrOptions /\ \A j \in AddrOptions : top >= j
    BY <2>1, <2>2 DEF Max
  <2> HIDE DEF top
  <2>4. top = i
    BY <2>1, <2>2, <2>3
  <2> QED
    BY <2>1, <2>4 DEF Wanted, top
<1> QED
  BY <1>1, <1>2, <1>3 DEF AskedBefore

\* Behind an option with a length.
LEMMA BehindItem ==
  ASSUME sent \in Seq(Items), NEW k \in DOMAIN sent, sent[k] # Pad
  PROVE  /\ PairsBefore(k + 1)
         /\ k \in AddrOptions => AddrBefore(k + 1) = AddrBefore(k) \cup {k}
         /\ k \notin AddrOptions => AddrBefore(k + 1) = AddrBefore(k)
<1>1. k \in Nat \ {0} /\ \A i \in AddrOptions : i \in Nat
  BY DEF AddrOptions
<1>2. PairsBefore(k + 1)
  <2>1. /\ k + 1 \in 1 .. k + 1 /\ k + 1 .. (k + 1) - 1 = {}
        /\ (k + 1) - 1 = k /\ (k + 1) - (k + 1) = 0 /\ 0 % 2 = 0
    BY <1>1
  <2> QED
    BY <2>1 DEF PairsBefore
<1>3. \A i \in Nat : i < k + 1 <=> i < k \/ i = k
  BY <1>1
<1> QED
  BY <1>1, <1>2, <1>3 DEF AddrBefore

\* Behind two pads.
LEMMA BehindPads ==
  ASSUME sent \in Seq(Items), NEW k \in DOMAIN sent, PairsBefore(k),
         sent[k] = Pad, k + 1 \in DOMAIN sent, sent[k + 1] = Pad
  PROVE  PairsBefore(k + 2) /\ AddrBefore(k + 2) = AddrBefore(k)
<1>1. k \in Nat \ {0} /\ \A i \in AddrOptions : i \in Nat
  BY DEF AddrOptions
<1>2. PairsBefore(k + 2)
  <2>1. PICK i \in 1 .. k : /\ \A m \in i .. k - 1 : sent[m] = Pad
                            /\ i = 1 \/ sent[i - 1] # Pad
                            /\ (k - i) % 2 = 0
    BY DEF PairsBefore
  <2>2. i \in 1 .. k + 2
    BY <1>1
  <2>3. \A m \in i .. (k + 2) - 1 : m \in i .. k - 1 \/ m = k \/ m = k + 1
    BY <1>1
  <2>4. ((k + 2) - i) % 2 = 0
    <3> DEFINE d == k - i
    <3>1. d \in Nat /\ d % 2 = 0
      BY <1>1, <2>1
    <3>2. (k + 2) - i = d + 2
      BY <1>1
    <3> HIDE DEF d
    <3>3. (d + 2) % 2 = 0
      BY <3>1
    <3> QED
      BY <3>2, <3>3
  <2> QED
    BY <2>1, <2>2, <2>3, <2>4 DEF PairsBefore
<1>3. k \notin AddrOptions /\ k + 1 \notin AddrOptions
  BY Codes DEF AddrOptions, Pad
<1>4. \A i \in Nat : i < k + 2 <=> i < k \/ i = k \/ i = k + 1
  BY <1>1
<1> QED
  BY <1>1, <1>2, <1>3, <1>4 DEF AddrBefore

-----------------------------------------------------------------------------
(* It holds at the beginning and is kept.                                    *)

\* The walk has not begun.
LEMMA OptInit == Init => OptInv
<1> SUFFICES ASSUME Init PROVE OptInv
  OBVIOUS
<1>1. /\ sent \in BoundedSeq(Items, MaxItems) /\ ended \in BOOLEAN
      /\ phase = "received" /\ optionPtr = 1 /\ reqAddr = ZeroAddr
      /\ yiaddr = ZeroAddr /\ resp = <<>>
  BY DEF Init
<1>2. sent \in Seq(Items)
  <2>1. PICK m \in 0 .. MaxItems : sent \in [1 .. m -> Items]
    BY <1>1 DEF BoundedSeq, SeqOf
  <2>2. m \in Nat
    BY OptionsAssumption
  <2> QED
    BY <2>1, <2>2
<1>3. OptTypeOK
  BY <1>1, <1>2, Addresses DEF OptTypeOK
<1>4. phase # "walk" /\ phase # "answered" /\ phase # "outside"
  BY <1>1
<1> QED
  BY <1>1, <1>3, <1>4 DEF OptInv, AtItem, WalkStaysInside, AnswerMatches

\* The message stays as it is.
LEMMA MessageStays ==
  ASSUME sent' = sent, ended' = ended
  PROVE  /\ WellFormed' <=> WellFormed
         /\ TypeFirst' <=> TypeFirst
         /\ Kind' = Kind /\ Options' = Options /\ Wanted' = Wanted /\ Expected' = Expected
         /\ AddrOptions' = AddrOptions
         /\ \A k : (PairsBefore(k)' <=> PairsBefore(k)) /\ AddrBefore(k)' = AddrBefore(k)
         /\ \A off : Laid(sent, ended, Options, off)' <=> Laid(sent, ended, Options, off)
<1>1. WellFormed' <=> WellFormed
  BY DEF WellFormed, RunOfPads
<1>2. TypeFirst' <=> TypeFirst
  BY DEF TypeFirst
<1>3. Kind' = Kind /\ Options' = Options /\ AddrOptions' = AddrOptions
  BY DEF Kind, Options, AddrOptions
<1>4. Wanted' = Wanted
  BY <1>3 DEF Wanted
<1>5. Expected' = Expected
  BY <1>3, <1>4 DEF Expected
<1>6. \A k : (PairsBefore(k)' <=> PairsBefore(k)) /\ AddrBefore(k)' = AddrBefore(k)
  BY <1>3 DEF PairsBefore, AddrBefore
<1>7. \A off : Laid(sent, ended, Options, off)' <=> Laid(sent, ended, Options, off)
  BY <1>3 DEF Laid
<1> QED
  BY <1>1, <1>2, <1>3, <1>4, <1>5, <1>6, <1>7

\* A reply keeps the types.
LEMMA Replies ==
  /\ Offer \in [1 .. OptionsLen -> Byte] /\ Ack \in [1 .. OptionsLen -> Byte]
  /\ Nak \in [1 .. OptionsLen -> Byte]
BY OfferIs, AckIs, NakIs

\* A message arrives.
LEMMA RecvKeeps == OptInv /\ dhcpRecv => OptInv'
<1> SUFFICES ASSUME OptInv, dhcpRecv PROVE OptInv'
  OBVIOUS
<1>1. /\ OptTypeOK /\ phase = "received" /\ optionPtr = 1 /\ reqAddr = ZeroAddr
      /\ yiaddr = ZeroAddr /\ resp = <<>>
  BY DEF OptInv, dhcpRecv
<1>2. /\ sent' = sent /\ ended' = ended /\ optionPtr' = optionPtr /\ reqAddr' = reqAddr
      /\ sent \in Seq(Items) /\ ended \in BOOLEAN
  BY <1>1 DEF dhcpRecv, OptTypeOK
<1>3. TypeFirst => MessageType = Kind
  BY <1>2, KindIsRead
<1>4. DHCP.DISCOVER # DHCP.REQUEST
  BY Codes
<1>5. CASE MessageType = DHCP.DISCOVER /\ phase' = "answered" /\ yiaddr' = NewAddr /\ resp' = Offer
  <2>1. OptTypeOK'
    BY <1>1, <1>2, <1>5, Addresses, Replies DEF OptTypeOK
  <2>2. TypeFirst => Kind = DHCP.DISCOVER /\ resp' = Field(Expected, TRUE)
    BY <1>3, <1>5, OfferIs DEF Expected, Reply
  <2>3. AnswerMatches'
    BY <1>2, <1>5, <2>2, MessageStays DEF AnswerMatches
  <2> QED
    BY <1>5, <2>1, <2>3 DEF OptInv, AtItem, WalkStaysInside
<1>6. CASE MessageType = DHCP.REQUEST /\ phase' = "walk" /\ UNCHANGED <<yiaddr, resp>>
  <2>1. OptTypeOK'
    BY <1>1, <1>2, <1>6 DEF OptTypeOK
  <2>2. TypeFirst' => Kind' = DHCP.REQUEST
    BY <1>2, <1>3, <1>6, MessageStays
  <2>3. PICK off : Laid(sent, ended, Options, off)
    BY <1>2, OptionsIs
  <2>4. optionPtr' = off[1] /\ 1 \in 1 .. Len(sent) + 1
    BY <1>1, <1>2, <2>3 DEF Laid
  <2>5. PairsBefore(1)
    <3>1. 1 \in 1 .. 1 /\ 1 .. 1 - 1 = {} /\ (1 - 1) % 2 = 0
      OBVIOUS
    <3> QED
      BY <3>1 DEF PairsBefore
  <2>6. AddrBefore(1) = {}
    <3>1. \A i \in AddrOptions : i \in Nat /\ ~(i < 1)
      BY <1>2 DEF AddrOptions
    <3> QED
      BY <3>1 DEF AddrBefore
  <2>7. AskedBefore(1)'
    <3>1. AddrBefore(1)' = {}
      BY <1>2, <2>6, MessageStays
    <3> QED
      BY <1>1, <1>2, <3>1 DEF AskedBefore
  <2>8. AtItem'
    <3>1. Laid(sent, ended, Options, off)' /\ PairsBefore(1)'
      BY <1>2, <2>3, <2>5, MessageStays
    <3>2. 1 \in 1 .. Len(sent') + 1 /\ optionPtr' = off[1]
      BY <1>2, <2>4
    <3> QED
      BY <2>7, <3>1, <3>2 DEF AtItem
  <2> QED
    BY <1>1, <1>6, <2>1, <2>2, <2>8 DEF OptInv, WalkStaysInside, AnswerMatches
<1>7. CASE /\ MessageType \notin {DHCP.DISCOVER, DHCP.REQUEST} /\ phase' = "answered"
           /\ UNCHANGED <<yiaddr, resp>>
  <2>1. OptTypeOK'
    BY <1>1, <1>2, <1>7 DEF OptTypeOK
  <2>2. AnswerMatches'
    BY <1>1, <1>2, <1>3, <1>7, MessageStays DEF AnswerMatches
  <2> QED
    BY <1>7, <2>1, <2>2 DEF OptInv, AtItem, WalkStaysInside
<1> QED
  BY <1>5, <1>6, <1>7 DEF dhcpRecv

\* A step of the walk.
LEMMA WalkKeeps == OptInv /\ Walk => OptInv'
<1> SUFFICES ASSUME OptInv, Walk PROVE OptInv'
  OBVIOUS
<1>1. /\ OptTypeOK /\ phase = "walk" /\ Inside /\ getOption # OPT.END
      /\ yiaddr = ZeroAddr /\ resp = <<>>
      /\ TypeFirst => Kind = DHCP.REQUEST
      /\ AtItem
  BY DEF OptInv, Walk
<1>2. /\ sent' = sent /\ ended' = ended /\ phase' = phase /\ yiaddr' = yiaddr /\ resp' = resp
      /\ optionPtr' = nextOption
      /\ reqAddr' = IF TakesAddr THEN getOptionData ELSE reqAddr
      /\ sent \in Seq(Items) /\ ended \in BOOLEAN
  BY <1>1 DEF Walk, OptTypeOK
<1>3. OptTypeOK'
  <2>1. /\ optionPtr \in Nat \ {0} /\ reqAddr \in Address
        /\ optionPtr \in DOMAIN Options /\ optionPtr + 1 \in DOMAIN Options
        /\ TakesAddr => optionPtr + 5 \in DOMAIN Options
    BY <1>1 DEF OptTypeOK, Inside
  <2>2. Options \in Seq(Byte) /\ Len(Options) \in Nat /\ DOMAIN Options = 1 .. Len(Options)
    BY <1>2, OptionsIs
  <2>3. getOptionLen \in Nat
    <3>1. Options[optionPtr + 1] \in Byte
      BY <2>1, <2>2, ElementOfSeq
    <3> QED
      BY <3>1 DEF getOptionLen, Byte
  <2>4. nextOption \in Nat \ {0}
    BY <2>1, <2>3 DEF nextOption
  <2>5. ASSUME TakesAddr
        PROVE  getOptionData \in Address
    <3> DEFINE m == optionPtr + 2
               e == optionPtr + 5
    <3>1. m \in Int /\ e \in Int /\ m <= e /\ e - m + 1 = 4
      BY <2>1
    <3>2. \A j \in m .. e : Options[j] \in Byte
      <4>1. \A j \in m .. e : j \in 1 .. Len(Options)
        BY <2>1, <2>2, <2>5
      <4> QED
        BY <2>2, <4>1, ElementOfSeq
    <3> HIDE DEF m, e
    <3>3. SubSeq(Options, m, e) \in Seq(Byte) /\ Len(SubSeq(Options, m, e)) = 4
      BY <3>1, <3>2, SubSeqProperties
    <3> DEFINE b == SubSeq(Options, m, e)
    <3> HIDE DEF b
    <3>4. b \in [1 .. 4 -> Byte]
      BY <3>3, LenProperties DEF b
    <3> QED
      BY <3>4 DEF Address, getOptionData, b, m, e
  <2>6. reqAddr' \in Address
    BY <1>2, <2>1, <2>5
  <2> QED
    BY <1>1, <1>2, <2>4, <2>6 DEF OptTypeOK
<1>4. AtItem'
  <2> SUFFICES ASSUME WellFormed'
               PROVE  \E off : /\ Laid(sent, ended, Options, off)'
                               /\ \E k \in 1 .. Len(sent') + 1 :
                                    /\ optionPtr' = off[k]
                                    /\ PairsBefore(k)' /\ AskedBefore(k)'
    BY DEF AtItem
  <2>1. WellFormed
    BY <1>2, MessageStays
  <2>0. PICK off : /\ Laid(sent, ended, Options, off)
                   /\ \E k \in 1 .. Len(sent) + 1 :
                        optionPtr = off[k] /\ PairsBefore(k) /\ AskedBefore(k)
    BY <1>1, <2>1 DEF AtItem
  <2>2. PICK k \in 1 .. Len(sent) + 1 :
          /\ Laid(sent, ended, Options, off)
          /\ optionPtr = off[k] /\ PairsBefore(k) /\ AskedBefore(k)
    BY <2>0
  <2>3. /\ k = Len(sent) + 1 => getOption = OPT.END
        /\ k \in DOMAIN sent /\ sent[k] = Pad =>
             /\ k + 1 \in DOMAIN sent /\ sent[k + 1] = Pad
             /\ getOption # OPT.END /\ ~TakesAddr
             /\ nextOption = off[k + 2]
        /\ k \in DOMAIN sent /\ sent[k] # Pad =>
             /\ getOption # OPT.END
             /\ nextOption = off[k + 1]
             /\ TakesAddr <=> k \in AddrOptions
             /\ TakesAddr => getOptionData = sent[k].data
    BY <1>2, <2>1, <2>2, ReadsItem
  <2>4. k \in DOMAIN sent
    <3>1. Len(sent) \in Nat /\ DOMAIN sent = 1 .. Len(sent)
      BY <1>2
    <3> QED
      BY <1>1, <2>3, <3>1
  <2>5. Laid(sent, ended, Options, off)'
    BY <1>2, <2>2, MessageStays
  <2>6. CASE sent[k] = Pad
    <3>1. PairsBefore(k + 2) /\ AddrBefore(k + 2) = AddrBefore(k)
      BY <1>2, <2>2, <2>3, <2>4, <2>6, BehindPads
    <3>2. reqAddr' = reqAddr /\ optionPtr' = off[k + 2]
      BY <1>2, <2>3, <2>4, <2>6
    <3>3. AskedBefore(k + 2)'
      <4>1. AddrBefore(k + 2)' = AddrBefore(k)
        BY <1>2, <3>1, MessageStays
      <4> QED
        BY <1>2, <2>2, <3>2, <4>1 DEF AskedBefore
    <3>4. PairsBefore(k + 2)'
      BY <1>2, <3>1, MessageStays
    <3>5. k + 2 \in 1 .. Len(sent') + 1
      BY <1>2, <2>3, <2>4, <2>6
    <3> QED
      BY <2>5, <3>2, <3>3, <3>4, <3>5
  <2>7. CASE sent[k] # Pad
    <3>1. /\ PairsBefore(k + 1)
          /\ k \in AddrOptions => AddrBefore(k + 1) = AddrBefore(k) \cup {k}
          /\ k \notin AddrOptions => AddrBefore(k + 1) = AddrBefore(k)
      BY <1>2, <2>4, <2>7, BehindItem
    <3>2. /\ k \in AddrOptions => reqAddr' = sent[k].data
          /\ k \notin AddrOptions => reqAddr' = reqAddr
          /\ optionPtr' = off[k + 1]
      BY <1>2, <2>3, <2>4, <2>7
    <3>3. AskedBefore(k + 1)'
      <4>1. AddrBefore(k + 1)' = AddrBefore(k + 1)
        BY <1>2, MessageStays
      <4>2. CASE k \notin AddrOptions
        BY <1>2, <2>2, <3>1, <3>2, <4>1, <4>2 DEF AskedBefore
      <4>3. CASE k \in AddrOptions
        <5>1. \A j \in AddrBefore(k) : j \in Nat /\ j < k
          BY DEF AddrBefore, AddrOptions
        <5>2. k \in AddrBefore(k + 1) /\ \A j \in AddrBefore(k + 1) : j <= k
          BY <2>2, <3>1, <4>3, <5>1
        <5> QED
          BY <1>2, <3>2, <4>1, <4>3, <5>2 DEF AskedBefore
      <4> QED
        BY <4>2, <4>3
    <3>4. PairsBefore(k + 1)'
      BY <1>2, <3>1, MessageStays
    <3>5. k + 1 \in 1 .. Len(sent') + 1
      BY <1>2, <2>4
    <3> QED
      BY <2>5, <3>2, <3>3, <3>4, <3>5
  <2> QED
    BY <2>6, <2>7
<1>5. TypeFirst' => Kind' = DHCP.REQUEST
  BY <1>1, <1>2, MessageStays
<1> QED
  BY <1>1, <1>2, <1>3, <1>4, <1>5 DEF OptInv, WalkStaysInside, AnswerMatches

\* The walk leaves the field over a message that is not well-formed only.
LEMMA InsideWhenWellFormed ==
  ASSUME OptInv, phase = "walk", WellFormed
  PROVE  Inside /\ (getOption = OPT.END => reqAddr = Wanted)
<1>1. sent \in Seq(Items) /\ ended \in BOOLEAN /\ AtItem
  BY DEF OptInv, OptTypeOK
<1>0. PICK off : /\ Laid(sent, ended, Options, off)
                 /\ \E k \in 1 .. Len(sent) + 1 :
                      optionPtr = off[k] /\ PairsBefore(k) /\ AskedBefore(k)
  BY <1>1 DEF AtItem
<1>2. PICK k \in 1 .. Len(sent) + 1 :
        /\ Laid(sent, ended, Options, off)
        /\ optionPtr = off[k] /\ PairsBefore(k) /\ AskedBefore(k)
  BY <1>0
<1>3. /\ Inside
      /\ k \in DOMAIN sent => getOption # OPT.END
  BY <1>1, <1>2, ReadsItem
<1>4. k \in DOMAIN sent \/ k = Len(sent) + 1
  <2>1. Len(sent) \in Nat /\ DOMAIN sent = 1 .. Len(sent)
    BY <1>1
  <2> QED
    BY <2>1
<1>5. k = Len(sent) + 1 => reqAddr = Wanted
  BY <1>1, <1>2, AskedAll
<1> QED
  BY <1>3, <1>4, <1>5

\* The walk leaves the field only for messages that are excepted.
LEMMA OutsideKeeps == OptInv /\ WalkOutside => OptInv'
<1> SUFFICES ASSUME OptInv, WalkOutside PROVE OptInv'
  OBVIOUS
<1>1. OptTypeOK /\ phase = "walk" /\ ~Inside /\ yiaddr = ZeroAddr /\ resp = <<>>
  BY DEF OptInv, WalkOutside
<1>2. /\ sent' = sent /\ ended' = ended /\ phase' = "outside" /\ yiaddr' = yiaddr
      /\ resp' = resp /\ optionPtr' = optionPtr /\ reqAddr' \in Addrs \cup {reqAddr}
  BY DEF WalkOutside
<1>3. ~WellFormed'
  BY <1>1, <1>2, InsideWhenWellFormed, MessageStays
<1>4. OptTypeOK'
  BY <1>1, <1>2, Addresses DEF OptTypeOK
<1> QED
  BY <1>1, <1>2, <1>3, <1>4 DEF OptInv, AtItem, WalkStaysInside, AnswerMatches

\* The walk has ended, and the reply is made.
LEMMA RequestKeeps == OptInv /\ handleRequest => OptInv'
<1> SUFFICES ASSUME OptInv, handleRequest PROVE OptInv'
  OBVIOUS
<1>1. /\ OptTypeOK /\ yiaddr = ZeroAddr /\ resp = <<>> /\ WalkStaysInside
      /\ TypeFirst /\ phase = "walk" => Kind = DHCP.REQUEST
      /\ \/ phase = "walk" /\ getOption = OPT.END
         \/ phase = "outside"
  BY DEF OptInv, handleRequest
<1>2. /\ sent' = sent /\ ended' = ended /\ phase' = "answered" /\ optionPtr' = optionPtr
      /\ reqAddr' = reqAddr /\ Answer
  BY DEF handleRequest
<1>3. \/ reqAddr = NewAddr /\ yiaddr' = NewAddr /\ resp' = Ack
      \/ reqAddr # NewAddr /\ yiaddr' = ZeroAddr /\ resp' = Nak
  BY <1>1, <1>2 DEF Answer
<1>4. OptTypeOK'
  BY <1>1, <1>2, <1>3, Addresses, Replies DEF OptTypeOK
<1>5. AnswerMatches'
  <2> SUFFICES ASSUME WellFormed, TypeFirst
               PROVE  /\ Kind = DHCP.REQUEST
                      /\ resp' = Field(Expected, TRUE)
                      /\ yiaddr' = IF Wanted = NewAddr THEN NewAddr ELSE ZeroAddr
    <3>1. DHCP.DISCOVER # DHCP.REQUEST
      BY Codes
    <3> QED
      BY <1>2, <3>1, MessageStays DEF AnswerMatches
  <2>1. phase = "walk" /\ getOption = OPT.END
    BY <1>1 DEF WalkStaysInside
  <2>2. reqAddr = Wanted
    BY <2>1, InsideWhenWellFormed
  <2>3. Kind = DHCP.REQUEST /\ Kind # DHCP.DISCOVER
    BY <1>1, <2>1, Codes
  <2>4. CASE reqAddr = NewAddr
    <3>1. resp' = Ack /\ yiaddr' = NewAddr
      BY <1>3, <2>4
    <3>2. Ack = Field(Expected, TRUE)
      BY <2>2, <2>3, <2>4, AckIs DEF Expected, Reply
    <3> QED
      BY <2>2, <2>3, <2>4, <3>1, <3>2
  <2>5. CASE reqAddr # NewAddr
    <3>1. resp' = Nak /\ yiaddr' = ZeroAddr
      BY <1>3, <2>5
    <3>2. Nak = Field(Expected, TRUE)
      BY <2>2, <2>3, <2>5, NakIs DEF Expected, Reply
    <3> QED
      BY <2>2, <2>3, <2>5, <3>1, <3>2
  <2> QED
    BY <2>4, <2>5
<1> QED
  BY <1>2, <1>4, <1>5 DEF OptInv, AtItem, WalkStaysInside

\* Nothing happens.
LEMMA StutterKeeps == OptInv /\ UNCHANGED vars => OptInv'
<1> SUFFICES ASSUME OptInv, UNCHANGED vars PROVE OptInv'
  OBVIOUS
<1>1. /\ sent' = sent /\ ended' = ended /\ phase' = phase /\ optionPtr' = optionPtr
      /\ reqAddr' = reqAddr /\ yiaddr' = yiaddr /\ resp' = resp
  BY DEF vars
<1>2. OptTypeOK' /\ AtItem' /\ WalkStaysInside' /\ AnswerMatches'
  <2>1. AtItem'
    <3>1. \A k : AskedBefore(k)' <=> AskedBefore(k)
      BY <1>1, MessageStays DEF AskedBefore
    <3> QED
      BY <1>1, <3>1, MessageStays DEF OptInv, AtItem
  <2>2. WalkStaysInside'
    BY <1>1, MessageStays DEF OptInv, WalkStaysInside
  <2>3. AnswerMatches'
    BY <1>1, MessageStays DEF OptInv, AnswerMatches
  <2>4. OptTypeOK'
    BY <1>1 DEF OptInv, OptTypeOK
  <2> QED
    BY <2>1, <2>2, <2>3, <2>4
<1> QED
  BY <1>1, <1>2, MessageStays DEF OptInv

\* The inductive invariant of the walk and the replies
\* (dhcps.c:115-178, 213-335).
THEOREM OptionsInvariant == Spec => []OptInv
<1>1. OptInv /\ [Next]_vars => OptInv'
  BY RecvKeeps, WalkKeeps, OutsideKeeps, RequestKeeps, StutterKeeps DEF Next, Handle
<1> QED
  BY OptInit, <1>1, PTL DEF Spec

\* Places, addresses and replies keep their types; the options of every reply, which
\* are written without a bound, take no more than 34 bytes with their end mark, so
\* that none is written behind the field (dhcps.c:138-178, 229-234, 291-299, 321-325).
THEOREM OptTypeCorrect == Spec => []OptTypeOK
<1>1. OptInv => OptTypeOK
  BY DEF OptInv
<1> QED
  BY OptionsInvariant, <1>1, PTL

\* The unbounded walk ends at the end mark of every message that has one and
\* whose padding is paired, whatever its options hold (dhcps.c:271-286).
THEOREM WalkIsInside == Spec => []WalkStaysInside
<1>1. OptInv => WalkStaysInside
  BY DEF OptInv
<1> QED
  BY OptionsInvariant, <1>1, PTL

\* Every such message gets the reply that its kind and the last address in it ask
\* for, option for option (dhcps.c:178, 222-234, 269-325, 344).
THEOREM AnswersMatch == Spec => []AnswerMatches
<1>1. OptInv => AnswerMatches
  BY DEF OptInv
<1> QED
  BY OptionsInvariant, <1>1, PTL
=============================================================================
