-------------------------------- MODULE Link --------------------------------
(***************************************************************************)
(* What becomes of a frame's contents between the mac80211 of one radio    *)
(* and that of another: WCH11P_TxWorkCallback puts the MKx header before   *)
(* it, the radio sends it, perhaps several times, another radio's LLC gets *)
(* a buffer from WCH11P_RxAlloc and fills it, and WCH11P_RxInd cuts header *)
(* and check sum off and reports frequency and rate. Meanwhile mac80211    *)
(* changes channels. Whose duty it is to free a frame is TxPath's subject. *)
(*                                                                         *)
(* Of a frame's bytes only the first of its third address is told apart:   *)
(* it is the one adaptBSSID overwrites. Memory is known by the offset at   *)
(* which somebody put a frame into it.                                     *)
(*                                                                         *)
(* An operator X_Mistake before X is X with a plausible mistake; no action *)
(* uses it. README.md names the property that notices it.                  *)
(***************************************************************************)
EXTENDS Skb

CONSTANTS
  Radios,           \* radios within reach of each other, all with this driver
  Frames,           \* frames handed to WCH11P_tx
  Receptions,       \* calls of WCH11P_RxAlloc
  Freqs,            \* channels, in MHz
  Lens, Bytes,      \* lengths of frames, first bytes of their third address
  Rates,            \* indices into the bit rates of the 5 GHz band
  Spare,            \* what an LLC may ask WCH11P_RxAlloc for beyond its need
  sizeofTxPacket,   \* sizeof(tMKxTxPacket)
  sizeofRxPacket,   \* sizeof(tMKxRxPacket)
  OBUMCS,           \* OBUMCS[m]: the LLC's number for the modulation m
  adaptBSSID        \* adaptBSSID[r]: the module parameter, where r is

\* mac80211 sends frames with three addresses, 24 bytes, at least.
ASSUME LinkConstants ==
  /\ Lens \subseteq Nat /\ \A n \in Lens : n >= 24
  /\ Bytes \subseteq 0..255
  /\ Rates \subseteq 0..7
  /\ Spare \subseteq Nat
  /\ sizeofTxPacket \in Nat /\ sizeofRxPacket \in Nat
  /\ adaptBSSID \in [Radios -> BOOLEAN]

\* HW.bands[IEEE80211_BAND_5GHZ].bitrates: the hw_value of each.
bitrates ==
  <<"R12BPSK", "R34BPSK", "R12QPSK", "R34QPSK",
    "R12QAM16", "R34QAM16", "R23QAM64", "R34QAM64">>

hw_value(rate) == OBUMCS[bitrates[rate + 1]]

\* The header that numbers the modulations is not in this repository. They fit
\* the byte MCS, and no more is known of them.
Byte == 0..255

ASSUME OBUMCSAssumption == \A rate \in 0..7 : hw_value(rate) \in Byte

FCS == 4                   \* bytes of the check sum
TST_FRAME_RESERVE == 24

VARIABLES
  freq,     \* freq[r]: PHY.ChannelFreq in the LLC's configuration of r
  given,    \* given[f]: what mac80211 hands over as frame f
  txat,     \* txat[f]: where frame f is
  air,      \* what was ever sent; it may be heard late, again or never
  rxat,     \* rxat[b]: how far the reception b has come
  pRxPkt,   \* pRxPkt[b]: the header the LLC fills in, and what it received
  pSkb,     \* pSkb[b]: the buffer
  status,   \* status[b]: rx_status, and the device it is reported to
  retuned   \* retuned[b]: was the radio retuned before WCH11P_RxInd?

linkVars == <<freq, given, txat, air, rxat, pRxPkt, pSkb, status, retuned>>

Given == [radio : Radios, len : Lens, addr3 : Bytes, rate : Rates]

NoPacket == [RadioID |-> "none"]
NoStatus == [dev |-> "none"]

LinkInit ==
  /\ freq \in [Radios -> Freqs]
  /\ given \in [Frames -> Given]
  /\ txat = [f \in Frames |-> "stack"]
  /\ air = {}
  /\ rxat = [b \in Receptions |-> "none"]
  /\ pRxPkt = [b \in Receptions |-> NoPacket]
  /\ pSkb = [b \in Receptions |-> alloc_skb(0)]
  /\ status = [b \in Receptions |-> NoStatus]
  /\ retuned = [b \in Receptions |-> FALSE]

\* A frame in memory: where it begins, how long it is, its byte. Whoever reads
\* from another place, or another length, finds something else.
Garbage == -1
Reads(mem, at, len) ==
  [len |-> len,
   addr3 |-> IF at = mem.at /\ len = mem.len THEN mem.addr3 ELSE Garbage]

-----------------------------------------------------------------------------
(***************************************************************************)
(* Sending.                                                                *)
(***************************************************************************)
\* The headroom WCH11P_init asks mac80211 for.
extra_tx_headroom == sizeofTxPacket

\* The buffer mac80211 hands over, with no more room than it was asked for,
\* and its memory.
Handed(g) ==
  SkBuff(extra_tx_headroom + g.len, extra_tx_headroom, g.len)
HandedMem(g) == [at |-> extra_tx_headroom, len |-> g.len, addr3 |-> g.addr3]

\* memset(&pSkb->data[16], 0xFF, 1): the first byte of the third address, as
\* long as the data begins with the frame.
AdaptBSSID(adapt, skb, mem) ==
  IF adapt /\ skb.data = mem.at THEN [mem EXCEPT !.addr3 = 255] ELSE mem

\* What TxReq gets: the pushed buffer, the memory, and the header's fields.
Pushed(g) == skb_push(Handed(g), sizeofTxPacket)
TxMem(g) == AdaptBSSID(adaptBSSID[g.radio], Handed(g), HandedMem(g))

TxFrameLength(g) == Pushed(g).len - sizeofTxPacket

\* WCH11P_TxWorkCallback, with a TxReq that accepts the frame. A frame that is
\* dropped before goes nowhere.
WCH11P_TxWorkCallback(f) ==
  /\ txat[f] = "stack"
  /\ txat' = [txat EXCEPT ![f] = "llc"]
  /\ UNCHANGED <<freq, given, air, rxat, pRxPkt, pSkb, status, retuned>>

\* The LLC sends TxFrameLength bytes from behind the header, on the channel the
\* radio has by then.
Transmission(g, channel) ==
  [from |-> g.radio, freq |-> channel, MCS |-> hw_value(g.rate),
   frame |-> Reads(TxMem(g), Pushed(g).data + sizeofTxPacket,
                   TxFrameLength(g))]

Transmit(f) ==
  /\ txat[f] = "llc"
  /\ txat' = [txat EXCEPT ![f] = "aired"]
  /\ air' = air \union {Transmission(given[f], freq[given[f].radio])}
  /\ UNCHANGED <<freq, given, rxat, pRxPkt, pSkb, status, retuned>>

-----------------------------------------------------------------------------
(***************************************************************************)
(* Receiving.                                                              *)
(***************************************************************************)
RxBuffer_NoReserve(BufLen) ==
  skb_put(skb_reserve(alloc_skb(BufLen), TST_FRAME_RESERVE), BufLen)
RxBuffer(BufLen) ==
  skb_put(skb_reserve(alloc_skb(TST_FRAME_RESERVE + BufLen),
                      TST_FRAME_RESERVE), BufLen)

\* The LLC writes its header, the frame and the check sum to *ppBuf, the
\* buffer's data.
Heard(r, t, skb) ==
  [RadioID |-> r, MCS |-> t.MCS, freq |-> t.freq,
   Len |-> sizeofRxPacket + t.frame.len + FCS,
   mem |-> [at |-> skb.data + sizeofRxPacket, len |-> t.frame.len,
            addr3 |-> t.frame.addr3]]

\* Radio r hears t and asks for a buffer. Without memory the frame is lost.
WCH11P_RxAlloc(b, r, t, spare) ==
  /\ rxat[b] = "none"
  /\ t.from # r /\ t.freq = freq[r]
  /\ \/ /\ rxat' = [rxat EXCEPT ![b] = "refused"]
        /\ UNCHANGED <<pSkb, pRxPkt>>
     \/ /\ rxat' = [rxat EXCEPT ![b] = "filled"]
        /\ pSkb' = [pSkb EXCEPT ![b] =
                      RxBuffer(sizeofRxPacket + t.frame.len + FCS + spare)]
        /\ pRxPkt' = [pRxPkt EXCEPT ![b] = Heard(r, t, pSkb'[b])]
  /\ UNCHANGED <<freq, given, txat, air, status, retuned>>

\* The length of the whole, header and check sum included, is trimmed before
\* the header is pulled.
Strip_PullFirst(skb, Len) == skb_trim(skb_pull(skb, sizeofRxPacket), Len - FCS)
Strip(skb, Len) == skb_pull(skb_trim(skb, Len - FCS), sizeofRxPacket)

\* What rx_status says of a packet: its rate, ten below the number of its
\* modulation in an unsigned byte, and the frequency its radio is configured to
\* now. An index that is none of the table is left to mac80211.
rate_idx(pkt) == (pkt.MCS - 10) % 256

RxFreq_Unset(pkt) == 0
RxFreq_AnyRadio(pkt) == freq[CHOOSE r \in Radios : TRUE]
RxFreq(pkt) == freq[pkt.RadioID]

WCH11P_RxInd(b) ==
  /\ rxat[b] = "filled"
  /\ rxat' = [rxat EXCEPT ![b] = "delivered"]
  /\ pSkb' = [pSkb EXCEPT ![b] = Strip(@, pRxPkt[b].Len)]
  /\ status' = [status EXCEPT ![b] =
                  [dev |-> pRxPkt[b].RadioID, freq |-> RxFreq(pRxPkt[b]),
                   rate_idx |-> rate_idx(pRxPkt[b])]]
  /\ UNCHANGED <<freq, given, txat, air, pRxPkt, retuned>>

\* WCH11P_config changes the channel of r. Frames the LLC has already, in
\* either direction, are not waited for.
WCH11P_config(r, center_freq) ==
  /\ freq' = [freq EXCEPT ![r] = center_freq]
  /\ retuned' = [b \in Receptions |->
                   retuned[b] \/ (rxat[b] = "filled" /\ pRxPkt[b].RadioID = r)]
  /\ UNCHANGED <<given, txat, air, rxat, pRxPkt, pSkb, status>>

LinkNext ==
  \/ \E f \in Frames : WCH11P_TxWorkCallback(f) \/ Transmit(f)
  \/ \E b \in Receptions :
       \/ \E r \in Radios, t \in air, n \in Spare : WCH11P_RxAlloc(b, r, t, n)
       \/ WCH11P_RxInd(b)
  \/ \E r \in Radios, c \in Freqs : WCH11P_config(r, c)

LinkSpec == LinkInit /\ [][LinkNext]_linkVars

-----------------------------------------------------------------------------
(***************************************************************************)
(* Properties.                                                             *)
(***************************************************************************)
FramesSeen == [len : Lens, addr3 : Bytes \union {255}]
Memories == [at : Int, len : Lens, addr3 : Bytes \union {255}]
RxPackets ==
  [RadioID : Radios, MCS : Byte, freq : Freqs, Len : Nat, mem : Memories]

LinkTypeOK ==
  /\ freq \in [Radios -> Freqs]
  /\ given \in [Frames -> Given]
  /\ txat \in [Frames -> {"stack", "llc", "aired"}]
  /\ air \subseteq [from : Radios, freq : Freqs, MCS : Byte,
                    frame : FramesSeen]
  /\ rxat \in [Receptions -> {"none", "refused", "filled", "delivered"}]
  /\ pRxPkt \in [Receptions -> RxPackets \union {NoPacket}]
  /\ pSkb \in [Receptions -> SkBuffs]
  /\ status \in [Receptions -> [dev : Radios, freq : Freqs, rate_idx : Byte]
                               \union {NoStatus}]
  /\ retuned \in [Receptions -> BOOLEAN]

\* No skb function of the driver leaves its buffer, where the kernel would
\* stop: the headroom asked for at netdriver.c:193 and 208 is enough for the
\* push of mac80211-ops.c:56, the allocation of wch11p-ops.c:22 for reserve and
\* put, and what the LLC writes in between stays inside what it was given.
BuffersFit ==
  /\ \A f \in Frames : txat[f] # "stack" => Fits(Pushed(given[f]))
  /\ \A b \in Receptions :
       /\ Fits(pSkb[b])
       /\ rxat[b] = "filled" =>
            pRxPkt[b].mem.at - sizeofRxPacket + pRxPkt[b].Len <= pSkb[b].size

\* The frame mac80211 finds in the buffer of a reception.
Delivered(b) == Reads(pRxPkt[b].mem, pSkb[b].data, pSkb[b].len)

\* What frame g of a radio may have become when it arrives: all of it and nothing
\* else, only that nothing is claimed of the byte a sender with adaptBSSID
\* overwrites. The parameter's description has it translated "between 0xF2 and
\* 0xFF and back" (netdriver.c:36); the code puts 0xFF for whatever byte is
\* there, and the way back is commented out (wch11p-ops.c:65).
SameFrame(frame, g) ==
  /\ frame.len = g.len /\ frame.addr3 # Garbage
  /\ adaptBSSID[g.radio] \/ frame.addr3 = g.addr3

\* Every frame a device gets is one that another radio was given to send, from
\* its first byte to its last, and the rate reported with it is worked out from
\* the modulation mac80211 chose for that very frame: sender and receiver agree
\* on the order of header, frame and check sum and on what each length counts,
\* and no reception takes another's header, however they overlap
\* (mac80211-ops.c:55-75 against wch11p-ops.c:55, 63-64). That the index
\* reported is the index chosen holds if the LLC numbers the modulations from
\* 10 in the order of the table, which no file here says.
DeliveredAsSent ==
  \A b \in Receptions : rxat[b] = "delivered" =>
    \E f \in Frames :
      /\ txat[f] = "aired" /\ given[f].radio # status[b].dev
      /\ SameFrame(Delivered(b), given[f])
      /\ status[b].rate_idx = (hw_value(given[f].rate) - 10) % 256

\* The frequency reported with a frame is the one it was received on, unless
\* the very radio that received it was retuned before WCH11P_RxInd, which reads
\* the configuration only then (wch11p-ops.c:53).
FreqAsHeard ==
  \A b \in Receptions :
    rxat[b] = "delivered" /\ ~retuned[b] => status[b].freq = pRxPkt[b].freq

=============================================================================
