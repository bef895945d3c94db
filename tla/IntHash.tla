------------------------------- MODULE IntHash -------------------------------
(***************************************************************************)
(* ht_hash of src/src/map/hashtable_int.c on 32-bit integers, as four      *)
(* bytes each, the least significant first.  The products overflow; as on  *)
(* the machines the library is built for, they wrap.                       *)
(***************************************************************************)
EXTENDS Integers, Bitwise

Words == [1..4 -> 0..255]

Int32(x) == [i \in 1..4 |-> (x \div (256 ^ (i - 1))) % 256]

Signed[w \in Words] ==
  ((IF w[4] >= 128 THEN w[4] - 256 ELSE w[4]) * 256 ^ 3)
    + w[3] * 256 ^ 2 + w[2] * 256 + w[1]

(* w ^ (w >> 16); the shift copies the sign. *)
Mixed[w \in Words] ==
  LET sign == IF w[4] >= 128 THEN 255 ELSE 0
      high == << w[3], w[4], sign, sign >>
  IN  [i \in 1..4 |-> w[i] ^^ high[i]]

Multiplier == << 59, 159, 93, 4 >>  \* 0x45d9f3b

Product[w \in Words] ==
  LET column(i) == LET term[j \in 0..i] ==
                         IF j = 0 THEN 0
                         ELSE term[j - 1] + w[j] * Multiplier[i + 1 - j]
                   IN  term[i]
      sum[i \in 0..4] == IF i = 0 THEN 0 ELSE column(i) + (sum[i - 1] \div 256)
  IN  [i \in 1..4 |-> sum[i] % 256]

(* The remainder of C has the sign of the dividend. *)
Remainder(x, n) == IF x >= 0 THEN x % n ELSE -((-x) % n)

IntHashOf(size, key) ==
  Remainder(Signed[Mixed[Product[Mixed[Product[Mixed[Int32(key)]]]]]], size)
================================================================================
