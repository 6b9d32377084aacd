-------------------------------- MODULE Skb ---------------------------------
(***************************************************************************)
(* A socket buffer as far as the driver moves in it: the size of its       *)
(* memory, the offset of the data in it and the length of the data. The    *)
(* kernel's functions on it, as the driver uses them (linux/skbuff.h is    *)
(* not in this repository).                                                *)
(***************************************************************************)
EXTENDS Integers

SkBuffs == [size : Int, data : Int, len : Int]

SkBuff(size, data, len) == [size |-> size, data |-> data, len |-> len]

alloc_skb(size) == SkBuff(size, 0, 0)
skb_reserve(skb, n) == SkBuff(skb.size, skb.data + n, skb.len)

\* These two stop the kernel when they leave the buffer (see Fits).
skb_put(skb, n) == SkBuff(skb.size, skb.data, skb.len + n)
skb_push(skb, n) == SkBuff(skb.size, skb.data - n, skb.len + n)

\* These two do nothing when the data is too short. The length given to
\* skb_trim is unsigned: a negative one is a very large one.
skb_pull(skb, n) ==
  IF n > skb.len THEN skb ELSE SkBuff(skb.size, skb.data + n, skb.len - n)
skb_trim(skb, n) ==
  IF n \in 0..skb.len THEN SkBuff(skb.size, skb.data, n) ELSE skb

\* The data is inside the memory: otherwise skb_over_panic, skb_under_panic.
Fits(skb) == 0 <= skb.data /\ 0 <= skb.len /\ skb.data + skb.len <= skb.size
=============================================================================
