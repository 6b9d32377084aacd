----------------------------- MODULE LinkProofs -----------------------------
(***************************************************************************)
(* The two paths and the air between them, proved for any radios, frames,  *)
(* lengths and sizes of the MKx headers. First what one frame's buffer     *)
(* goes through on either side, as arithmetic on offsets and lengths; then *)
(* an invariant that ties everything in the air, and every buffer, to the  *)
(* frame it came from.                                                     *)
(***************************************************************************)
EXTENDS Link, TLAPS

\* What the sender's memory holds of frame g when it goes on air.
OnAir(g) ==
  [len |-> g.len, addr3 |-> IF adaptBSSID[g.radio] THEN 255 ELSE g.addr3]

\* Radio r receives, at the rate with the number MCS, the frame that was handed
\* over as f.
Origin(f, r, MCS, frame) ==
  /\ txat[f] = "aired" /\ given[f].radio # r
  /\ frame = OnAir(given[f])
  /\ MCS = hw_value(given[f].rate)

AirInv ==
  \A t \in air : \E f \in Frames :
    /\ txat[f] = "aired" /\ given[f].radio = t.from
    /\ t.frame = OnAir(given[f])
    /\ t.MCS = hw_value(given[f].rate)

FrameOf(pkt) == [len |-> pkt.mem.len, addr3 |-> pkt.mem.addr3]

\* What the LLC left in the buffer of reception b.
PacketInv(b) ==
  rxat[b] \in {"filled", "delivered"} =>
    /\ pRxPkt[b] \in RxPackets
    /\ pRxPkt[b].Len = sizeofRxPacket + pRxPkt[b].mem.len + FCS
    /\ pRxPkt[b].mem.at = TST_FRAME_RESERVE + sizeofRxPacket
    /\ \E f \in Frames : Origin(f, pRxPkt[b].RadioID, pRxPkt[b].MCS,
                                FrameOf(pRxPkt[b]))

\* The buffer before and after WCH11P_RxInd, and what was reported.
BufferInv(b) ==
  /\ rxat[b] \in {"none", "refused"} => pSkb[b] = alloc_skb(0)
  /\ rxat[b] = "filled" =>
       /\ pSkb[b].data = TST_FRAME_RESERVE
       /\ pSkb[b].size = TST_FRAME_RESERVE + pSkb[b].len
       /\ pRxPkt[b].Len <= pSkb[b].len
       /\ ~retuned[b] => freq[pRxPkt[b].RadioID] = pRxPkt[b].freq
  /\ rxat[b] = "delivered" =>
       /\ pSkb[b].data = pRxPkt[b].mem.at
       /\ pSkb[b].len = pRxPkt[b].mem.len
       /\ pSkb[b].data + pSkb[b].len <= pSkb[b].size
       /\ status[b].dev = pRxPkt[b].RadioID
       /\ status[b].rate_idx = rate_idx(pRxPkt[b])
       /\ ~retuned[b] => status[b].freq = pRxPkt[b].freq

LinkInv ==
  /\ LinkTypeOK
  /\ AirInv
  /\ \A b \in Receptions : PacketInv(b) /\ BufferInv(b)

-----------------------------------------------------------------------------
(***************************************************************************)
(* One frame.                                                              *)
(***************************************************************************)
\* The number of a modulation is a byte, and so is what is reported for it.
LEMMA RateNumber ==
  ASSUME NEW rate \in 0..7
  PROVE  hw_value(rate) \in Byte
BY OBUMCSAssumption

LEMMA RateIndex ==
  ASSUME NEW n \in Byte
  PROVE  (n - 10) % 256 \in Byte
BY DEF Byte

\* The header fits the headroom, and behind it is the frame and nothing else.
LEMMA PushedFrame ==
  ASSUME NEW g \in Given
  PROVE  /\ Pushed(g) = SkBuff(sizeofTxPacket + g.len, 0,
                               g.len + sizeofTxPacket)
         /\ Fits(Pushed(g))
         /\ TxFrameLength(g) = g.len
<1>1. g.len \in Nat /\ sizeofTxPacket \in Nat
  BY LinkConstants DEF Given
<1>2. Pushed(g) = SkBuff(sizeofTxPacket + g.len, 0, g.len + sizeofTxPacket)
  BY <1>1 DEF SkBuff, Pushed, Handed, extra_tx_headroom, skb_push
<1>3. QED
  BY <1>1, <1>2 DEF SkBuff, Fits, TxFrameLength

\* So what is sent is what was handed over, its byte changed by adaptBSSID.
LEMMA TransmittedFrame ==
  ASSUME NEW g \in Given, NEW c \in Freqs
  PROVE  /\ Transmission(g, c) = [from |-> g.radio, freq |-> c,
                                  MCS |-> hw_value(g.rate),
                                  frame |-> OnAir(g)]
         /\ OnAir(g) \in FramesSeen
         /\ hw_value(g.rate) \in Byte
<1>1. /\ g.len \in Nat /\ sizeofTxPacket \in Nat
      /\ g.radio \in Radios /\ g.len \in Lens /\ g.addr3 \in Bytes
      /\ g.rate \in 0..7
  BY LinkConstants DEF Given
<1>2. TxMem(g) = [at |-> sizeofTxPacket, len |-> g.len,
                  addr3 |-> OnAir(g).addr3]
  BY <1>1 DEF SkBuff, TxMem, AdaptBSSID, Handed, HandedMem, OnAir,
              extra_tx_headroom
<1>3. Reads(TxMem(g), Pushed(g).data + sizeofTxPacket, TxFrameLength(g))
        = OnAir(g)
  <2>1. Pushed(g).data + sizeofTxPacket = sizeofTxPacket
    BY <1>1, PushedFrame DEF SkBuff
  <2>2. TxFrameLength(g) = g.len
    BY PushedFrame
  <2>3. QED
    BY <1>2, <2>1, <2>2 DEF Reads, OnAir
<1>4. OnAir(g) \in FramesSeen
  BY <1>1 DEF OnAir, FramesSeen
<1>5. QED
  BY <1>1, <1>3, <1>4, RateNumber DEF Transmission

\* A buffer for n bytes is all data, behind the reserve.
LEMMA BufferOf ==
  ASSUME NEW n \in Nat
  PROVE  RxBuffer(n) = SkBuff(TST_FRAME_RESERVE + n, TST_FRAME_RESERVE, n)
BY DEF RxBuffer, SkBuff, alloc_skb, skb_reserve, skb_put, TST_FRAME_RESERVE

\* Trimmed and pulled, a buffer that holds header, frame and check sum holds
\* the frame.
LEMMA Stripped ==
  ASSUME NEW skb \in SkBuffs, NEW n \in Nat,
         sizeofRxPacket + n + FCS <= skb.len
  PROVE  Strip(skb, sizeofRxPacket + n + FCS)
           = SkBuff(skb.size, skb.data + sizeofRxPacket, n)
<1>1. sizeofRxPacket \in Nat /\ FCS = 4
  BY LinkConstants DEF FCS
<1>2. skb.len \in Int /\ skb.data \in Int /\ skb.size \in Int
  BY DEF SkBuffs
<1>3. skb_trim(skb, sizeofRxPacket + n)
        = SkBuff(skb.size, skb.data, sizeofRxPacket + n)
  BY <1>1, <1>2 DEF skb_trim
<1>4. skb_pull(SkBuff(skb.size, skb.data, sizeofRxPacket + n), sizeofRxPacket)
        = SkBuff(skb.size, skb.data + sizeofRxPacket, n)
  BY <1>1, <1>2 DEF skb_pull, SkBuff
<1>5. (sizeofRxPacket + n + FCS) - FCS = sizeofRxPacket + n
  BY <1>1
<1>6. QED
  BY <1>3, <1>4, <1>5, Zenon DEF Strip

-----------------------------------------------------------------------------
(***************************************************************************)
(* The invariant.                                                          *)
(***************************************************************************)
LEMMA LinkInit_LinkInv ==
  LinkInit => LinkInv
<1>. SUFFICES ASSUME LinkInit PROVE LinkInv
  OBVIOUS
<1>1. alloc_skb(0) \in SkBuffs
  BY DEF alloc_skb, SkBuff, SkBuffs
<1>2. LinkTypeOK
  BY <1>1 DEF LinkInit, LinkTypeOK
<1>3. AirInv
  BY DEF LinkInit, AirInv
<1>4. \A b \in Receptions : PacketInv(b) /\ BufferInv(b)
  BY DEF LinkInit, PacketInv, BufferInv
<1>. QED
  BY <1>2, <1>3, <1>4 DEF LinkInv

\* What is in the air, and what a reception received, keeps its origin: a frame
\* that was sent stays sent, and what was handed over does not change.
LEMMA AirStays ==
  ASSUME given' = given, air' = air, AirInv,
         \A f \in Frames : txat[f] = "aired" => txat'[f] = "aired"
  PROVE  AirInv'
BY DEF AirInv, OnAir, hw_value, bitrates

LEMMA PacketStays ==
  ASSUME given' = given,
         \A f \in Frames : txat[f] = "aired" => txat'[f] = "aired",
         NEW b \in Receptions, PacketInv(b), pRxPkt'[b] = pRxPkt[b],
         rxat'[b] = rxat[b] \/ rxat[b] = "filled"
  PROVE  PacketInv(b)'
<1>. SUFFICES ASSUME rxat[b] \in {"filled", "delivered"}
              PROVE  \E f \in Frames :
                       Origin(f, pRxPkt[b].RadioID, pRxPkt[b].MCS,
                              FrameOf(pRxPkt[b]))'
  BY DEF PacketInv, RxPackets, Memories, FramesSeen
<1>1. PICK f \in Frames : Origin(f, pRxPkt[b].RadioID, pRxPkt[b].MCS,
                                 FrameOf(pRxPkt[b]))
  BY DEF PacketInv
<1>2. QED
  BY <1>1 DEF Origin, FrameOf, OnAir, hw_value, bitrates

\* A buffer that nobody touches keeps its invariant, unless the radio is retuned
\* without a note.
LEMMA BufferStays ==
  ASSUME NEW b \in Receptions, BufferInv(b),
         rxat'[b] = rxat[b], pRxPkt'[b] = pRxPkt[b], pSkb'[b] = pSkb[b],
         status'[b] = status[b],
         \/ retuned'[b] = retuned[b] /\ freq' = freq
         \/ /\ retuned[b] => retuned'[b]
            /\ rxat[b] = "filled" /\ ~retuned'[b] =>
                 freq'[pRxPkt[b].RadioID] = freq[pRxPkt[b].RadioID]
  PROVE  BufferInv(b)'
BY DEF BufferInv, alloc_skb, SkBuff, TST_FRAME_RESERVE, rate_idx

-----------------------------------------------------------------------------
(***************************************************************************)
(* One lemma per action.                                                   *)
(***************************************************************************)
LEMMA TxWork_LinkInv ==
  ASSUME LinkInv, NEW f \in Frames, WCH11P_TxWorkCallback(f)
  PROVE  LinkInv'
<1>. USE DEF LinkInv, WCH11P_TxWorkCallback
<1>1. LinkTypeOK'
  BY DEF LinkTypeOK
<1>2. \A g \in Frames : txat[g] = "aired" => txat'[g] = "aired"
  BY DEF LinkTypeOK
<1>3. AirInv'
  BY <1>2, AirStays
<1>4. \A b \in Receptions : PacketInv(b)' /\ BufferInv(b)'
  BY <1>2, PacketStays, BufferStays
<1>. QED
  BY <1>1, <1>3, <1>4

LEMMA Transmit_LinkInv ==
  ASSUME LinkInv, NEW f \in Frames, Transmit(f)
  PROVE  LinkInv'
<1>. DEFINE t == Transmission(given[f], freq[given[f].radio])
<1>. USE DEF LinkInv
<1>1. /\ given[f] \in Given /\ given[f].radio \in Radios
      /\ freq[given[f].radio] \in Freqs
  BY DEF LinkTypeOK, Given
<1>2. /\ t = [from |-> given[f].radio, freq |-> freq[given[f].radio],
             MCS |-> hw_value(given[f].rate), frame |-> OnAir(given[f])]
      /\ OnAir(given[f]) \in FramesSeen
      /\ hw_value(given[f].rate) \in Byte
  BY <1>1, TransmittedFrame
<1>3. LinkTypeOK'
  BY <1>1, <1>2 DEF LinkTypeOK, Transmit
<1>4. /\ \A g \in Frames : txat[g] = "aired" => txat'[g] = "aired"
      /\ txat'[f] = "aired"
  BY DEF LinkTypeOK, Transmit
<1>5. AirInv'
  <2>. SUFFICES ASSUME NEW u \in air'
                PROVE  \E g \in Frames :
                         /\ txat'[g] = "aired" /\ given[g].radio = u.from
                         /\ u.frame = OnAir(given[g])
                         /\ u.MCS = hw_value(given[g].rate)
    BY DEF AirInv, Transmit, OnAir, hw_value, bitrates
  <2>1. CASE u \in air
    BY <2>1, <1>4 DEF AirInv
  <2>2. CASE u = t
    BY <2>2, <1>2, <1>4
  <2>. QED
    BY <2>1, <2>2 DEF Transmit
<1>6. \A b \in Receptions : PacketInv(b)' /\ BufferInv(b)'
  BY <1>4, PacketStays, BufferStays DEF Transmit
<1>. QED
  BY <1>3, <1>5, <1>6

LEMMA Config_LinkInv ==
  ASSUME LinkInv, NEW r \in Radios, NEW c \in Freqs, WCH11P_config(r, c)
  PROVE  LinkInv'
<1>. USE DEF LinkInv, WCH11P_config
<1>1. LinkTypeOK'
  BY DEF LinkTypeOK
<1>2. AirInv'
  BY AirStays
<1>3. \A b \in Receptions : PacketInv(b)'
  BY PacketStays
<1>4. \A b \in Receptions : BufferInv(b)'
  <2>. TAKE b \in Receptions
  <2>1. retuned'[b] = (retuned[b] \/ (rxat[b] = "filled"
                                      /\ pRxPkt[b].RadioID = r))
    OBVIOUS
  <2>2. rxat[b] = "filled" => pRxPkt[b].RadioID \in Radios
    BY DEF PacketInv, RxPackets
  <2>3. rxat[b] = "filled" /\ ~retuned'[b] =>
          freq'[pRxPkt[b].RadioID] = freq[pRxPkt[b].RadioID]
    BY <2>1, <2>2 DEF LinkTypeOK
  <2>4. BufferInv(b)
    OBVIOUS
  <2>. QED
    BY <2>1, <2>3, <2>4, BufferStays
<1>. QED
  BY <1>1, <1>2, <1>3, <1>4

LEMMA RxAlloc_LinkInv ==
  ASSUME LinkInv, NEW b \in Receptions, NEW r \in Radios, NEW t \in air,
         NEW n \in Spare, WCH11P_RxAlloc(b, r, t, n)
  PROVE  LinkInv'
<1>. DEFINE size == sizeofRxPacket + t.frame.len + FCS + n
            skb == RxBuffer(size)
            pkt == Heard(r, t, skb)
<1>. USE DEF LinkInv
<1>1. /\ sizeofRxPacket \in Nat /\ n \in Nat /\ FCS = 4
      /\ TST_FRAME_RESERVE = 24
  BY LinkConstants DEF FCS, TST_FRAME_RESERVE
<1>2. /\ t.MCS \in Byte /\ t.freq \in Freqs /\ t.frame \in FramesSeen
      /\ t.frame.len \in Lens /\ t.frame.len \in Nat
      /\ t.frame.addr3 \in Bytes \union {255}
  <2>1. t \in [from : Radios, freq : Freqs, MCS : Byte, frame : FramesSeen]
    BY DEF LinkTypeOK
  <2>2. t.frame \in [len : Lens, addr3 : Bytes \union {255}]
    BY <2>1 DEF FramesSeen
  <2>. QED
    BY <2>1, <2>2, LinkConstants
<1>3. skb = SkBuff(TST_FRAME_RESERVE + size, TST_FRAME_RESERVE, size)
  BY <1>1, <1>2, BufferOf
<1>4. /\ skb \in SkBuffs /\ skb.data = TST_FRAME_RESERVE
      /\ skb.len = size /\ skb.size = TST_FRAME_RESERVE + size
  BY <1>1, <1>2, <1>3 DEF SkBuff, SkBuffs
<1>5. /\ pkt.RadioID = r /\ pkt.MCS = t.MCS /\ pkt.freq = t.freq
      /\ pkt.mem.at = TST_FRAME_RESERVE + sizeofRxPacket
      /\ pkt.mem.len = t.frame.len /\ pkt.mem.addr3 = t.frame.addr3
      /\ pkt.Len = sizeofRxPacket + t.frame.len + FCS
      /\ FrameOf(pkt) = t.frame
      /\ pkt \in RxPackets
  <2>1. pkt = [RadioID |-> r, MCS |-> t.MCS, freq |-> t.freq,
               Len |-> sizeofRxPacket + t.frame.len + FCS,
               mem |-> [at |-> skb.data + sizeofRxPacket,
                        len |-> t.frame.len, addr3 |-> t.frame.addr3]]
    BY DEF Heard
  <2>2. t.frame = [len |-> t.frame.len, addr3 |-> t.frame.addr3]
    BY <1>2 DEF FramesSeen
  <2>. HIDE DEF pkt, skb, size
  <2>. QED
    BY <1>1, <1>2, <1>4, <2>1, <2>2 DEF FrameOf, RxPackets, Memories
<1>. HIDE DEF pkt, skb, size
<1>6. /\ freq' = freq /\ given' = given /\ txat' = txat /\ air' = air
      /\ status' = status /\ retuned' = retuned
  BY DEF WCH11P_RxAlloc
<1>7. \A c \in Receptions \ {b} :
        /\ rxat'[c] = rxat[c] /\ pRxPkt'[c] = pRxPkt[c] /\ pSkb'[c] = pSkb[c]
        /\ status'[c] = status[c] /\ retuned'[c] = retuned[c]
  BY DEF WCH11P_RxAlloc, LinkTypeOK
<1>8. AirInv'
  BY <1>6, AirStays
<1>9. \A c \in Receptions \ {b} : PacketInv(c)' /\ BufferInv(c)'
  BY <1>6, <1>7, PacketStays, BufferStays
<1>10. CASE rxat' = [rxat EXCEPT ![b] = "refused"]
            /\ pSkb' = pSkb /\ pRxPkt' = pRxPkt
  <2>1. LinkTypeOK'
    BY <1>6, <1>10 DEF LinkTypeOK
  <2>2. rxat[b] = "none" /\ rxat'[b] = "refused"
    BY <1>10 DEF WCH11P_RxAlloc, LinkTypeOK
  <2>3. PacketInv(b)'
    BY <2>2 DEF PacketInv
  <2>4. BufferInv(b)'
    BY <1>10, <2>2 DEF BufferInv, alloc_skb, SkBuff
  <2>. QED
    BY <1>8, <1>9, <2>1, <2>3, <2>4
<1>11. CASE /\ rxat' = [rxat EXCEPT ![b] = "filled"]
            /\ pSkb' = [pSkb EXCEPT ![b] = skb]
            /\ pRxPkt' = [pRxPkt EXCEPT ![b] = pkt]
  <2>1. /\ rxat'[b] = "filled" /\ pSkb'[b] = skb /\ pRxPkt'[b] = pkt
        /\ t.from # r /\ t.freq = freq[r]
    BY <1>11 DEF WCH11P_RxAlloc, LinkTypeOK
  <2>2. LinkTypeOK'
    BY <1>4, <1>5, <1>6, <1>11 DEF LinkTypeOK
  <2>3. PacketInv(b)'
    <3>1. PICK f \in Frames : Origin(f, r, t.MCS, t.frame)
      BY <2>1 DEF AirInv, Origin
    <3>2. Origin(f, pRxPkt[b].RadioID, pRxPkt[b].MCS, FrameOf(pRxPkt[b]))'
      BY <3>1, <2>1, <1>5, <1>6
         DEF Origin, FrameOf, OnAir, hw_value, bitrates
    <3>3. /\ pRxPkt'[b] \in RxPackets
          /\ pRxPkt'[b].Len = sizeofRxPacket + pRxPkt'[b].mem.len + FCS
          /\ pRxPkt'[b].mem.at = TST_FRAME_RESERVE + sizeofRxPacket
      BY <2>1, <1>5
    <3>. QED
      BY <3>2, <3>3 DEF PacketInv, RxPackets, Memories, FramesSeen, FCS,
                        TST_FRAME_RESERVE
  <2>4. BufferInv(b)'
    <3>1. pkt.Len <= skb.len
      BY <1>1, <1>2, <1>4, <1>5 DEF size
    <3>2. pSkb'[b].size = TST_FRAME_RESERVE + pSkb'[b].len
      BY <2>1, <1>4
    <3>. QED
      BY <2>1, <1>4, <1>5, <1>6, <3>1, <3>2 DEF BufferInv, TST_FRAME_RESERVE
  <2>. QED
    BY <1>8, <1>9, <2>2, <2>3, <2>4
<1>12. \/ rxat' = [rxat EXCEPT ![b] = "refused"] /\ pSkb' = pSkb
          /\ pRxPkt' = pRxPkt
       \/ /\ rxat' = [rxat EXCEPT ![b] = "filled"]
          /\ pSkb' = [pSkb EXCEPT ![b] = skb]
          /\ pRxPkt' = [pRxPkt EXCEPT ![b] = Heard(r, t, pSkb'[b])]
  BY DEF WCH11P_RxAlloc, skb, size
<1>13. ASSUME pSkb' = [pSkb EXCEPT ![b] = skb] PROVE Heard(r, t, pSkb'[b]) = pkt
  BY <1>13 DEF pkt, LinkTypeOK
<1>. QED
  BY <1>10, <1>11, <1>12, <1>13

\* Header, frame and check sum go in order: what is left is the frame.
LEMMA RxInd_LinkInv ==
  ASSUME LinkInv, NEW b \in Receptions, WCH11P_RxInd(b)
  PROVE  LinkInv'
<1>. DEFINE pkt == pRxPkt[b]
            skb == Strip(pSkb[b], pkt.Len)
<1>. USE DEF LinkInv
<1>1. /\ sizeofRxPacket \in Nat /\ FCS = 4 /\ TST_FRAME_RESERVE = 24
  BY LinkConstants DEF FCS, TST_FRAME_RESERVE
<1>2. /\ rxat[b] = "filled" /\ rxat'[b] = "delivered"
      /\ pSkb'[b] = skb /\ pRxPkt' = pRxPkt /\ retuned' = retuned
      /\ status'[b] = [dev |-> pkt.RadioID, freq |-> RxFreq(pkt),
                       rate_idx |-> rate_idx(pkt)]
      /\ freq' = freq /\ given' = given /\ txat' = txat /\ air' = air
  BY DEF WCH11P_RxInd, LinkTypeOK
<1>3. \A c \in Receptions \ {b} :
        /\ rxat'[c] = rxat[c] /\ pRxPkt'[c] = pRxPkt[c] /\ pSkb'[c] = pSkb[c]
        /\ status'[c] = status[c] /\ retuned'[c] = retuned[c]
  BY DEF WCH11P_RxInd, LinkTypeOK
<1>4. /\ pkt.RadioID \in Radios /\ pkt.MCS \in Byte /\ pkt.freq \in Freqs
      /\ pkt.mem.len \in Nat
      /\ pkt.Len = sizeofRxPacket + pkt.mem.len + FCS
      /\ pkt.mem.at = TST_FRAME_RESERVE + sizeofRxPacket
  <2>1. pkt \in RxPackets
    BY <1>2 DEF PacketInv
  <2>2. pkt.mem \in [at : Int, len : Lens, addr3 : Bytes \union {255}]
    BY <2>1 DEF RxPackets, Memories
  <2>. QED
    BY <1>2, <2>1, <2>2, LinkConstants DEF PacketInv, RxPackets
<1>5. /\ pSkb[b] \in SkBuffs /\ pSkb[b].data = TST_FRAME_RESERVE
      /\ pSkb[b].size = TST_FRAME_RESERVE + pSkb[b].len
      /\ pSkb[b].size \in Int /\ pSkb[b].len \in Int
      /\ pkt.Len <= pSkb[b].len
      /\ ~retuned[b] => freq[pkt.RadioID] = pkt.freq
  BY <1>2 DEF BufferInv, LinkTypeOK, SkBuffs
<1>6. skb = SkBuff(pSkb[b].size, pSkb[b].data + sizeofRxPacket, pkt.mem.len)
  BY <1>4, <1>5, Stripped
<1>7. /\ skb \in SkBuffs
      /\ skb.data = pkt.mem.at /\ skb.len = pkt.mem.len
      /\ skb.data + skb.len <= skb.size
  BY <1>1, <1>4, <1>5, <1>6 DEF SkBuff, SkBuffs
<1>8. AirInv'
  BY <1>2, AirStays
<1>9. \A c \in Receptions : PacketInv(c)'
  BY <1>2, <1>3, PacketStays
<1>10. \A c \in Receptions \ {b} : BufferInv(c)'
  BY <1>2, <1>3, BufferStays
<1>11. BufferInv(b)'
  BY <1>2, <1>5, <1>7 DEF BufferInv, RxFreq, rate_idx
<1>12. LinkTypeOK'
  <2>1. status'[b] \in [dev : Radios, freq : Freqs, rate_idx : Byte]
    BY <1>2, <1>4, RateIndex DEF RxFreq, rate_idx, LinkTypeOK
  <2>2. /\ status' = [status EXCEPT ![b] = status'[b]]
        /\ pSkb' = [pSkb EXCEPT ![b] = skb]
        /\ rxat' = [rxat EXCEPT ![b] = "delivered"]
    BY <1>2 DEF WCH11P_RxInd, LinkTypeOK
  <2>. HIDE DEF skb, pkt
  <2>. QED
    BY <1>2, <1>7, <2>1, <2>2 DEF LinkTypeOK
<1>. QED
  BY <1>8, <1>9, <1>10, <1>11, <1>12

THEOREM LinkInvariant ==
  LinkSpec => []LinkInv
<1>1. LinkInv /\ [LinkNext]_linkVars => LinkInv'
  <2>. SUFFICES ASSUME LinkInv, [LinkNext]_linkVars PROVE LinkInv'
    OBVIOUS
  <2>1. CASE UNCHANGED linkVars
    <3>1. LinkTypeOK'
      BY <2>1 DEF LinkInv, LinkTypeOK, linkVars
    <3>2. AirInv'
      BY <2>1, AirStays DEF LinkInv, linkVars
    <3>3. \A b \in Receptions : PacketInv(b)' /\ BufferInv(b)'
      BY <2>1, PacketStays, BufferStays DEF LinkInv, linkVars
    <3>. QED
      BY <3>1, <3>2, <3>3 DEF LinkInv
  <2>. QED
    BY <2>1, TxWork_LinkInv, Transmit_LinkInv, Config_LinkInv,
       RxAlloc_LinkInv, RxInd_LinkInv DEF LinkNext
<1>. QED
  BY LinkInit_LinkInv, <1>1, PTL DEF LinkSpec

-----------------------------------------------------------------------------
(***************************************************************************)
(* What follows from the invariant.                                        *)
(***************************************************************************)
\* The types, for any frames and any numbers of the modulations.
THEOREM LinkTypeCorrect ==
  LinkSpec => []LinkTypeOK
<1>1. LinkInv => LinkTypeOK
  BY DEF LinkInv
<1>. QED
  BY <1>1, LinkInvariant, PTL

\* Neither the push of mac80211-ops.c:56 nor anything done to a receive buffer
\* leaves the buffer, for any sizes of frame and headers.
THEOREM LinkBuffersFit ==
  LinkSpec => []BuffersFit
<1>1. LinkInv => BuffersFit
  <2>. SUFFICES ASSUME LinkInv PROVE BuffersFit
    OBVIOUS
  <2>1. \A f \in Frames : Fits(Pushed(given[f]))
    BY PushedFrame DEF LinkInv, LinkTypeOK
  <2>2. ASSUME NEW b \in Receptions
        PROVE  /\ Fits(pSkb[b])
               /\ rxat[b] = "filled" =>
                    pRxPkt[b].mem.at - sizeofRxPacket + pRxPkt[b].Len
                      <= pSkb[b].size
    <3>1. /\ PacketInv(b) /\ BufferInv(b)
          /\ rxat[b] \in {"none", "refused", "filled", "delivered"}
          /\ pSkb[b] \in SkBuffs
      BY DEF LinkInv, LinkTypeOK
    <3>2. sizeofRxPacket \in Nat /\ TST_FRAME_RESERVE = 24
      BY LinkConstants DEF TST_FRAME_RESERVE
    <3>3. CASE rxat[b] \in {"none", "refused"}
      BY <3>1, <3>3 DEF BufferInv, alloc_skb, SkBuff, Fits
    <3>4. rxat[b] \in {"filled", "delivered"} =>
            /\ pRxPkt[b].Len \in Nat
            /\ pRxPkt[b].mem.at = TST_FRAME_RESERVE + sizeofRxPacket
            /\ pRxPkt[b].mem.len \in Nat
      <4>. SUFFICES ASSUME rxat[b] \in {"filled", "delivered"}
                    PROVE  pRxPkt[b].Len \in Nat /\ pRxPkt[b].mem.len \in Nat
        BY <3>1 DEF PacketInv
      <4>1. pRxPkt[b] \in RxPackets
        BY <3>1 DEF PacketInv
      <4>2. pRxPkt[b].mem \in [at : Int, len : Lens, addr3 : Bytes \union {255}]
        BY <4>1 DEF RxPackets, Memories
      <4>3. pRxPkt[b].mem.len \in Lens
        BY <4>2
      <4>4. pRxPkt[b].Len \in Nat
        BY <4>1 DEF RxPackets
      <4>. QED
        BY <4>3, <4>4, LinkConstants
    <3>5. CASE rxat[b] = "filled"
      BY <3>1, <3>2, <3>4, <3>5 DEF BufferInv, SkBuffs, Fits
    <3>6. CASE rxat[b] = "delivered"
      BY <3>1, <3>2, <3>4, <3>6 DEF BufferInv, SkBuffs, Fits
    <3>. QED
      BY <3>1, <3>3, <3>5, <3>6
  <2>. QED
    BY <2>1, <2>2 DEF BuffersFit
<1>. QED
  BY <1>1, LinkInvariant, PTL

\* What a radio's device gets is what another radio's device was given, from the
\* first byte to the last but for the one adaptBSSID overwrites, reported with
\* the index that follows from the modulation chosen for it
\* (mac80211-ops.c:49-75, wch11p-ops.c:54-67): for any numbers the LLC gives the
\* modulations.
THEOREM LinkDeliveredAsSent ==
  LinkSpec => []DeliveredAsSent
<1>1. LinkInv => DeliveredAsSent
  <2>. SUFFICES ASSUME LinkInv, NEW b \in Receptions, rxat[b] = "delivered"
                PROVE  \E f \in Frames :
                         /\ txat[f] = "aired" /\ given[f].radio # status[b].dev
                         /\ SameFrame(Delivered(b), given[f])
                         /\ status[b].rate_idx
                              = (hw_value(given[f].rate) - 10) % 256
    BY DEF DeliveredAsSent
  <2>1. PacketInv(b) /\ BufferInv(b) /\ given \in [Frames -> Given]
    BY DEF LinkInv, LinkTypeOK
  <2>2. /\ pSkb[b].data = pRxPkt[b].mem.at /\ pSkb[b].len = pRxPkt[b].mem.len
        /\ status[b].dev = pRxPkt[b].RadioID
        /\ status[b].rate_idx = (pRxPkt[b].MCS - 10) % 256
    BY <2>1 DEF BufferInv, PacketInv, rate_idx, RxPackets
  <2>3. PICK f \in Frames : Origin(f, pRxPkt[b].RadioID, pRxPkt[b].MCS,
                                   FrameOf(pRxPkt[b]))
    BY <2>1 DEF PacketInv
  <2>4. Delivered(b) = OnAir(given[f])
    BY <2>2, <2>3 DEF Delivered, Reads, Origin, FrameOf
  <2>5. given[f].addr3 \in 0..255
    BY <2>1, LinkConstants DEF Given
  <2>6. SameFrame(Delivered(b), given[f])
    BY <2>4, <2>5 DEF SameFrame, OnAir, Garbage
  <2>. QED
    BY <2>2, <2>3, <2>6 DEF Origin
<1>. QED
  BY <1>1, LinkInvariant, PTL

\* With a numbering the code takes for granted, the index reported is the index
\* mac80211 chose.
COROLLARY RateAsChosen ==
  ASSUME \A rate \in 0..7 : hw_value(rate) = 10 + rate,
         NEW g \in Given
  PROVE  (hw_value(g.rate) - 10) % 256 = g.rate
<1>1. g.rate \in 0..7
  BY LinkConstants DEF Given
<1>. QED
  BY <1>1

\* The frequency reported is the one heard on, unless the radio was retuned
\* between (wch11p-ops.c:53).
THEOREM LinkFreqAsHeard ==
  LinkSpec => []FreqAsHeard
<1>1. LinkInv => FreqAsHeard
  BY DEF LinkInv, BufferInv, FreqAsHeard
<1>. QED
  BY <1>1, LinkInvariant, PTL

=============================================================================
