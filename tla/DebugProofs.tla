---------------------------- MODULE DebugProofs ----------------------------
(***************************************************************************)
(* The strings of the callbacks, proved. What they fit is shown function   *)
(* by function: each has a bound, Longest, which its own text and the      *)
(* bounds of its parts do not exceed, and a buffer to compare it with;     *)
(* FramesInv carries this along the stack to every callback. HeapInv says  *)
(* of the heap that every string on the stack is an allocation of its own, *)
(* for the function that asked for it, and that nothing else is allocated  *)
(* but what a station was displayed with.                                  *)
(***************************************************************************)
EXTENDS DebugStrings, SequenceTheorems, TLAPS

\* The most characters each display function prints.
Longest ==
  [mac |-> 51, stypes |-> 65, channel |-> 483, chan_def |-> 624,
   chanctx_conf |-> 1414, iftype_names |-> 111, iftype |-> 134,
   rate_temp |-> 424, sta_rates |-> 507, sta |-> 1009, tx_control |-> 1045,
   vif |-> 1840, tx_info |-> 2085, conf |-> 978, combinations |-> 0,
   wiphy |-> 1039, hw |-> 2828]

\* Together the first n of some parts print at most UpTo(parts, n). None has
\* more than seven.
Share(parts, n, j) == IF j <= n THEN Longest[parts[j].display] ELSE 0
UpTo(parts, n) ==
  Share(parts, n, 1) + Share(parts, n, 2) + Share(parts, n, 3)
    + Share(parts, n, 4) + Share(parts, n, 5) + Share(parts, n, 6)
    + Share(parts, n, 7)

PartsOK(parts) ==
  /\ Len(parts) \in 0..7
  /\ \A j \in 1..Len(parts) :
       /\ parts[j].display \in DOMAIN Longest
       /\ parts[j].null => NullText <= Longest[parts[j].display]

\* What is required of the display function d of that name.
Row(name, d, longest) ==
  /\ PartsOK(d.parts)
  /\ d.text \in Nat /\ d.size \in Nat /\ d.shrinks \in BOOLEAN
  /\ name # "sta" => \A j \in 1..Len(d.parts) : d.parts[j].name \in d.frees
  /\ d.text + UpTo(d.parts, Len(d.parts)) <= longest
  /\ longest < d.size + Overrun(name)

USE DEF Hex, Ptr, U32, U16, U8, S32, S8, Bool, Unknown, NullText

LEMMA Names == DOMAIN Displays = DOMAIN Longest
BY DEF Displays, Longest

LEMMA LongestNat == \A d \in DOMAIN Longest : Longest[d] \in Nat
BY DEF Longest

\* Every display function of the driver meets its bound.
LEMMA Rows == \A d \in DOMAIN Displays : Row(d, Displays[d], Longest[d])
<1>1. Row("mac", display_struct_mac_address, Longest.mac)
  BY DEF Row, PartsOK, UpTo, Share, Longest, Overrun,
         display_struct_mac_address, Buffer
<1>2. Row("stypes", display_struct_ieee80211_txrx_stypes, Longest.stypes)
  BY DEF Row, PartsOK, UpTo, Share, Longest, Overrun,
         display_struct_ieee80211_txrx_stypes, Buffer
<1>3. Row("channel", display_struct_ieee80211_channel, Longest.channel)
  BY DEF Row, PartsOK, UpTo, Share, Longest, Overrun,
         display_struct_ieee80211_channel, Display
<1>4. Row("chan_def", display_struct_cfg80211_chan_def, Longest.chan_def)
  BY DEF Row, PartsOK, UpTo, Share, Longest, Overrun,
         display_struct_cfg80211_chan_def, Display, OrNull
<1>5. Row("chanctx_conf", display_struct_ieee80211_chanctx_conf,
          Longest.chanctx_conf)
  BY DEF Row, PartsOK, UpTo, Share, Longest, Overrun,
         display_struct_ieee80211_chanctx_conf, Display, Part
<1>6. Row("iftype_names", iftype_names, Longest.iftype_names)
  BY DEF Row, PartsOK, UpTo, Share, Longest, Overrun, iftype_names, Buffer
<1>7. Row("iftype", display_nl80211_iftype, Longest.iftype)
  BY DEF Row, PartsOK, UpTo, Share, Longest, Overrun, display_nl80211_iftype,
         Display, Part
<1>8. Row("rate_temp", rate_temp, Longest.rate_temp)
  BY DEF Row, PartsOK, UpTo, Share, Longest, Overrun, rate_temp, Buffer
<1>9. Row("sta_rates", display_struct_ieee80211_sta_rates, Longest.sta_rates)
  BY DEF Row, PartsOK, UpTo, Share, Longest, Overrun,
         display_struct_ieee80211_sta_rates, Display, Part
<1>10. Row("sta", display_struct_ieee80211_sta, Longest.sta)
  BY DEF Row, PartsOK, UpTo, Share, Longest, Overrun,
         display_struct_ieee80211_sta, Display, Part, OrNull
<1>11. Row("tx_control", display_struct_ieee80211_tx_control,
           Longest.tx_control)
  BY DEF Row, PartsOK, UpTo, Share, Longest, Overrun,
         display_struct_ieee80211_tx_control, Display, OrNull
<1>12. Row("vif", display_struct_ieee80211_vif, Longest.vif)
  BY DEF Row, PartsOK, UpTo, Share, Longest, Overrun,
         display_struct_ieee80211_vif, Display, Part, OrNull
<1>13. Row("tx_info", display_struct_ieee80211_tx_info, Longest.tx_info)
  BY DEF Row, PartsOK, UpTo, Share, Longest, Overrun,
         display_struct_ieee80211_tx_info, Display, OrNull
<1>14. Row("conf", display_struct_ieee80211_conf, Longest.conf)
  BY DEF Row, PartsOK, UpTo, Share, Longest, Overrun,
         display_struct_ieee80211_conf, Display, Part
<1>15. Row("combinations", iface_combinations, Longest.combinations)
  BY DEF Row, PartsOK, UpTo, Share, Longest, Overrun, iface_combinations,
         Buffer
<1>16. Row("wiphy", display_struct_wiphy, Longest.wiphy)
  BY DEF Row, PartsOK, UpTo, Share, Longest, Overrun, display_struct_wiphy,
         Wiphy, Display, Part, OrNull
<1>17. Row("hw", display_struct_ieee80211_hw, Longest.hw)
  BY DEF Row, PartsOK, UpTo, Share, Longest, Overrun,
         display_struct_ieee80211_hw, Display, Part
<1>18. /\ Displays.mac = display_struct_mac_address
       /\ Displays.stypes = display_struct_ieee80211_txrx_stypes
       /\ Displays.channel = display_struct_ieee80211_channel
       /\ Displays.chan_def = display_struct_cfg80211_chan_def
       /\ Displays.chanctx_conf = display_struct_ieee80211_chanctx_conf
       /\ Displays.iftype_names = iftype_names
       /\ Displays.iftype = display_nl80211_iftype
       /\ Displays.rate_temp = rate_temp
       /\ Displays.sta_rates = display_struct_ieee80211_sta_rates
       /\ Displays.sta = display_struct_ieee80211_sta
       /\ Displays.tx_control = display_struct_ieee80211_tx_control
       /\ Displays.vif = display_struct_ieee80211_vif
       /\ Displays.tx_info = display_struct_ieee80211_tx_info
       /\ Displays.conf = display_struct_ieee80211_conf
       /\ Displays.combinations = iface_combinations
       /\ Displays.wiphy = display_struct_wiphy
       /\ Displays.hw = display_struct_ieee80211_hw
  BY DEF Displays
<1>19. DOMAIN Displays =
         {"mac", "stypes", "channel", "chan_def", "chanctx_conf",
          "iftype_names", "iftype", "rate_temp", "sta_rates", "sta",
          "tx_control", "vif", "tx_info", "conf", "combinations", "wiphy",
          "hw"}
  BY DEF Displays
<1>20. QED
  BY <1>1, <1>2, <1>3, <1>4, <1>5, <1>6, <1>7, <1>8, <1>9, <1>10, <1>11,
     <1>12, <1>13, <1>14, <1>15, <1>16, <1>17, <1>18, <1>19

LEMMA CallbackParts == \A cb \in DOMAIN Callbacks : PartsOK(Callbacks[cb])
<1>1. PartsOK(HwOnly)
  BY DEF HwOnly, Part, PartsOK, Longest
<1>2. PartsOK(HwAndVif)
  BY DEF HwAndVif, Part, PartsOK, Longest
<1>3. PartsOK(TxArguments)
  BY DEF TxArguments, Part, PartsOK, Longest
<1>4. QED
  BY <1>1, <1>2, <1>3 DEF Callbacks

\* One part more.
LEMMA UpToNext ==
  ASSUME NEW parts, PartsOK(parts), NEW k \in 0..6
  PROVE  k < Len(parts) =>
           /\ UpTo(parts, k) \in Nat
           /\ UpTo(parts, k + 1)
                = UpTo(parts, k) + Longest[parts[k+1].display]
<1>0. SUFFICES ASSUME k < Len(parts)
               PROVE  /\ UpTo(parts, k) \in Nat
                      /\ UpTo(parts, k + 1)
                           = UpTo(parts, k) + Longest[parts[k+1].display]
  OBVIOUS
<1>1. \A j \in 1..k+1 : Longest[parts[j].display] \in Nat
  BY <1>0, LongestNat DEF PartsOK
<1>2. \A j \in 1..7 : Share(parts, k, j) \in Nat
  BY <1>1 DEF Share
<1>3. \A j \in 1..7 :
        Share(parts, k + 1, j)
          = IF j = k + 1 THEN Longest[parts[k+1].display]
                         ELSE Share(parts, k, j)
  BY DEF Share
<1>4. \A j \in 1..7 : j = k + 1 => Share(parts, k, j) = 0
  BY DEF Share
<1> DEFINE S(j) == Share(parts, k, j)
           T(j) == Share(parts, k + 1, j)
           l == Longest[parts[k+1].display]
<1>5. l \in Nat
  <2>1. k + 1 \in 1..k+1
    OBVIOUS
  <2>2. QED
    BY <1>1, <2>1
<1>6. /\ \A j \in 1..7 : S(j) \in Nat
      /\ \A j \in 1..7 : T(j) = IF j = k + 1 THEN l ELSE S(j)
      /\ \A j \in 1..7 : j = k + 1 => S(j) = 0
  BY <1>2, <1>3, <1>4
<1>7. /\ UpTo(parts, k) = S(1) + S(2) + S(3) + S(4) + S(5) + S(6) + S(7)
      /\ UpTo(parts, k+1) = T(1) + T(2) + T(3) + T(4) + T(5) + T(6) + T(7)
  BY DEF UpTo
<1> HIDE DEF S, T, l
<1>8. /\ S(1) + S(2) + S(3) + S(4) + S(5) + S(6) + S(7) \in Nat
      /\ T(1) + T(2) + T(3) + T(4) + T(5) + T(6) + T(7)
           = S(1) + S(2) + S(3) + S(4) + S(5) + S(6) + S(7) + l
  BY <1>5, <1>6
<1>9. QED
  BY <1>7, <1>8 DEF l

LEMMA UpToNat ==
  ASSUME NEW parts, PartsOK(parts), NEW k \in 0..7
  PROVE  /\ UpTo(parts, 0) = 0
         /\ k <= Len(parts) => UpTo(parts, k) \in Nat
<1>1. ASSUME k <= Len(parts)
      PROVE  UpTo(parts, k) \in Nat
  <2>1. \A j \in 1..k : Longest[parts[j].display] \in Nat
    BY <1>1, LongestNat DEF PartsOK
  <2> DEFINE S(j) == Share(parts, k, j)
  <2>2. \A j \in 1..7 : S(j) \in Nat
    BY <2>1 DEF Share
  <2>3. UpTo(parts, k) = S(1) + S(2) + S(3) + S(4) + S(5) + S(6) + S(7)
    BY DEF UpTo
  <2> HIDE DEF S
  <2>4. S(1) + S(2) + S(3) + S(4) + S(5) + S(6) + S(7) \in Nat
    BY <2>2
  <2>5. QED
    BY <2>3, <2>4
<1>2. UpTo(parts, 0) = 0
  BY DEF UpTo, Share
<1>3. QED
  BY <1>1, <1>2

-----------------------------------------------------------------------------
(***************************************************************************)
(* The stack.                                                              *)
(***************************************************************************)
Frames == [display : Askers, held : Seq(Strings), text : Nat,
           info : Strings]

\* A callback prints nothing itself. A display function has at most the text of
\* the parts it holds and its own; it prints when it has all, and until then
\* what is above it displays its next part.
FrameInv(i) ==
  /\ i = 1 => stack[i].info = NoString
  /\ i > 1 =>
       /\ stack[i].display \in DOMAIN Displays
       /\ stack[i].text <= Displays[stack[i].display].text
                             + UpTo(PartsAt(i), Len(stack[i].held))
  /\ Len(stack[i].held) <= Len(PartsAt(i))
  /\ stack[i].info # NoString =>
       /\ Len(stack[i].held) = Len(PartsAt(i))
       /\ stack[i].info.size = Displays[stack[i].display].size
       /\ stack[i].info.len = stack[i].text
  /\ i < Len(stack) =>
       /\ Len(stack[i].held) < Len(PartsAt(i))
       /\ stack[i+1].display = PartsAt(i)[Len(stack[i].held) + 1].display

FramesInv ==
  /\ DebugTypeOK
  /\ \A i \in 1..Len(stack) : FrameInv(i)

LEMMA StringTypes ==
  /\ NoString \in Strings
  /\ \A f \in Frames : /\ f.held \in Seq(Strings) /\ Len(f.held) \in Nat
                       /\ f.text \in Nat /\ f.info \in Strings
BY LenProperties DEF NoString, NULL, Pointers, Strings, Frames

LEMMA StackTypes ==
  ASSUME DebugTypeOK
  PROVE  /\ stack \in Seq(Frames) /\ Len(stack) \in Nat
         /\ \A i \in 1..Len(stack) : stack[i] \in Frames
         /\ stack # <<>> <=> Len(stack) > 0
         /\ stack # <<>> => callback \in DOMAIN Callbacks
<1>1. stack \in Seq(Frames)
  BY DEF DebugTypeOK, Frames
<1>2. Len(stack) \in Nat /\ \A i \in 1..Len(stack) : stack[i] \in Frames
  BY <1>1, LenProperties, ElementOfSeq
<1>3. stack # <<>> <=> Len(stack) > 0
  BY <1>1, EmptySeq
<1>4. QED
  BY <1>1, <1>2, <1>3 DEF DebugTypeOK

LEMMA PointerType ==
  ASSUME DebugTypeOK, NEW i \in 1..Len(stack)
  PROVE  /\ Pointer(i) \in Pointers
         /\ Pointer(i).nr = kmallocs + 1 /\ Pointer(i).for = stack[i].display
<1>1. kmallocs + 1 \in Nat /\ stack[i].display \in Askers
  BY StackTypes DEF DebugTypeOK, Frames
<1>2. QED
  BY <1>1 DEF Pointer, Pointers

LEMMA PartsAtOK ==
  ASSUME FramesInv, NEW i \in 1..Len(stack)
  PROVE  PartsOK(PartsAt(i))
<1>1. stack # <<>> /\ i \in Nat /\ i >= 1
  BY StackTypes DEF FramesInv
<1>2. CASE i = 1
  BY <1>1, <1>2, StackTypes, CallbackParts DEF FramesInv, PartsAt
<1>3. CASE i > 1
  <2>1. stack[i].display \in DOMAIN Displays
    BY <1>3 DEF FramesInv, FrameInv
  <2>2. QED
    BY <1>3, <2>1, Rows DEF PartsAt, Row
<1>4. QED
  BY <1>1, <1>2, <1>3

\* A function that gets a string.
LEMMA HeldFrame ==
  ASSUME NEW f \in Frames, NEW str \in Strings
  PROVE  /\ Held(f, str) \in Frames
         /\ Held(f, str).display = f.display
         /\ Held(f, str).info = f.info
         /\ Held(f, str).text = f.text + str.len
         /\ Len(Held(f, str).held) = Len(f.held) + 1
         /\ \A k \in 1..Len(f.held) : Held(f, str).held[k] = f.held[k]
         /\ Held(f, str).held[Len(f.held) + 1] = str
<1>1. /\ Append(f.held, str) \in Seq(Strings)
      /\ Len(Append(f.held, str)) = Len(f.held) + 1
      /\ \A k \in 1..Len(f.held) : Append(f.held, str)[k] = f.held[k]
      /\ Append(f.held, str)[Len(f.held) + 1] = str
  BY StringTypes, AppendProperties
<1>2. str.len \in Nat
  BY DEF Strings
<1> DEFINE h == Append(f.held, str)
           t == f.text + str.len
<1>3. Held(f, str) = [f EXCEPT !.held = h, !.text = t]
  BY DEF Held
<1>4. h \in Seq(Strings) /\ t \in Nat
  BY <1>1, <1>2, StringTypes
<1> HIDE DEF h, t
<1>5. LET g == [f EXCEPT !.held = h, !.text = t]
      IN  /\ g \in Frames
          /\ g.display = f.display /\ g.held = h /\ g.text = t
          /\ g.info = f.info
  BY <1>4 DEF Frames
<1>6. QED
  BY <1>1, <1>3, <1>5 DEF h, t

\* The function at place n gets its next part, and is on top then.
LEMMA Holding ==
  ASSUME FramesInv, NEW n \in 1..Len(stack), NEW str \in Strings,
         Len(stack[n].held) < Len(PartsAt(n)),
         str.len <= Longest[PartsAt(n)[Len(stack[n].held) + 1].display],
         Len(stack') = n,
         \A i \in 1..n :
           stack'[i] = IF i = n THEN Held(stack[n], str) ELSE stack[i],
         callback' = callback
  PROVE  \A i \in 1..Len(stack') : FrameInv(i)'
<1> SUFFICES ASSUME NEW i \in 1..n PROVE FrameInv(i)'
  OBVIOUS
<1>1. /\ n \in Nat /\ i \in Nat /\ i <= n /\ i >= 1
      /\ Len(stack) \in Nat /\ n <= Len(stack)
      /\ stack[n] \in Frames
      /\ FrameInv(n) /\ FrameInv(i)
  BY StackTypes DEF FramesInv
<1>2. /\ stack'[n].display = stack[n].display
      /\ stack'[n].info = stack[n].info
      /\ stack'[n].text = stack[n].text + str.len
      /\ Len(stack'[n].held) = Len(stack[n].held) + 1
  <2>1. stack'[n] = Held(stack[n], str)
    BY <1>1
  <2>2. Len(stack[n].held) \in Nat
    BY <1>1, StringTypes
  <2>3. Len(stack'[n].held) = Len(stack[n].held) + 1
    BY <1>1, <2>1, HeldFrame
  <2>4. QED
    BY <1>1, <2>1, <2>3, HeldFrame
<1>3. stack'[i].display = stack[i].display /\ PartsAt(i)' = PartsAt(i)
  BY <1>1, <1>2 DEF PartsAt
<1>4. CASE i < n
  <2>1. stack'[i] = stack[i] /\ stack'[i+1].display = stack[i+1].display
    BY <1>1, <1>2, <1>4
  <2>2. i < Len(stack')
    BY <1>4
  <2>3. i < Len(stack)
    BY <1>1, <1>4
  <2>4. QED
    BY <1>1, <1>3, <2>1, <2>2, <2>3 DEF FrameInv
<1>5. CASE i = n
  <2>1. PartsOK(PartsAt(n)) /\ Len(PartsAt(n)) \in 0..7
    BY PartsAtOK DEF PartsOK
  <2>2. Len(stack[n].held) \in 0..6
    <3>1. Len(stack[n].held) \in Nat
      BY <1>1, StringTypes
    <3>2. ASSUME NEW a \in Nat, NEW b \in 0..7, a < b
          PROVE  a \in 0..6
      BY <3>2
    <3>3. QED
      BY <2>1, <3>1, <3>2
  <2>3. stack[n].info = NoString
    BY <1>1, <2>1, <2>2 DEF FrameInv
  <2>4. ASSUME n > 1
        PROVE  stack'[n].text <= Displays[stack'[n].display].text
                                   + UpTo(PartsAt(n)', Len(stack'[n].held))
    <3> DEFINE k == Len(stack[n].held)
               d == Displays[stack[n].display]
               l == Longest[PartsAt(n)[k + 1].display]
    <3>1. /\ UpTo(PartsAt(n), k) \in Nat
          /\ UpTo(PartsAt(n), k + 1) = UpTo(PartsAt(n), k) + l
      BY <2>1, <2>2, UpToNext
    <3>2. stack[n].text <= d.text + UpTo(PartsAt(n), k)
      BY <1>1, <2>4 DEF FrameInv
    <3>3. d.text \in Nat
      BY <1>1, <2>4, Rows DEF Row, FrameInv
    <3>4. stack[n].text \in Nat /\ str.len \in Nat
      BY <1>1 DEF Frames, Strings
    <3>5. l \in Nat /\ str.len <= l
      BY <2>1, <2>2, LongestNat DEF PartsOK
    <3>6. Displays[stack'[n].display] = d /\ Len(stack'[n].held) = k + 1
      BY <1>2
    <3>7. PartsAt(n)' = PartsAt(n) /\ stack'[n].text = stack[n].text + str.len
      BY <1>2, <1>3, <1>5
    <3> HIDE DEF k, d, l
    <3>8. stack[n].text + str.len <= d.text + UpTo(PartsAt(n), k + 1)
      <4>1. ASSUME NEW a \in Nat, NEW s \in Nat, NEW b \in Nat, NEW u \in Nat,
                   NEW x \in Nat, a <= b + u, s <= x
            PROVE  a + s <= b + (u + x)
        BY <4>1
      <4>2. stack[n].text + str.len <= d.text + (UpTo(PartsAt(n), k) + l)
        BY <3>1, <3>2, <3>3, <3>4, <3>5, <4>1
      <4>3. QED
        BY <3>1, <4>2
    <3>9. QED
      BY <3>6, <3>7, <3>8
  <2>5. /\ stack'[n].info = NoString
        /\ n > 1 => stack'[n].display \in DOMAIN Displays
        /\ Len(stack'[n].held) <= Len(PartsAt(n)')
    BY <1>1, <1>2, <1>3, <1>5, <2>1, <2>2, <2>3 DEF FrameInv
  <2>6. QED
    BY <1>1, <1>2, <1>5, <2>4, <2>5 DEF FrameInv
<1>6. QED
  BY <1>1, <1>4, <1>5

-----------------------------------------------------------------------------
(***************************************************************************)
(* Each action.                                                            *)
(***************************************************************************)
\* What the actions say of the top, said of its place.
LEMMA TopPlace ==
  ASSUME FramesInv, stack # <<>>
  PROVE  LET n == Len(stack) IN
         /\ n \in Nat /\ n \in 1..n
         /\ Top = stack[n] /\ Top \in Frames
         /\ PartsOK(PartsAt(n))
         /\ Len(stack[n].held) \in Nat
         /\ HasNext(n) <=> Len(stack[n].held) < Len(PartsAt(n))
<1> DEFINE n == Len(stack)
<1>1. n \in Nat /\ n \in 1..n
  BY StackTypes DEF FramesInv
<1>2. Top = stack[n] /\ Top \in Frames
  BY <1>1, StackTypes DEF FramesInv, Top
<1>3. PartsOK(PartsAt(n)) /\ Len(stack[n].held) \in Nat
  BY <1>1, <1>2, PartsAtOK, StringTypes
<1>4. QED
  BY <1>1, <1>2, <1>3 DEF HasNext

LEMMA CallInv ==
  ASSUME FramesInv, NEW cb \in DOMAIN Callbacks, Call(cb)
  PROVE  FramesInv'
<1> DEFINE f == Frame(cb, 0)
<1>1. f \in Frames /\ f.info = NoString /\ f.held = <<>>
  BY StringTypes, EmptySeq DEF Frame, Frames, Askers
<1>2. /\ stack' = <<f>> /\ callback' = cb /\ heap' = {} /\ kmallocs' = 0
      /\ gfp' = "none"
  BY DEF Call
<1> HIDE DEF f
<1>3. stack' \in Seq(Frames) /\ Len(stack') = 1 /\ stack'[1] = f
  BY <1>1, <1>2
<1>4. DebugTypeOK'
  <2>1. stack' # <<>> /\ cb # "none"
    BY <1>3, EmptySeq DEF Callbacks
  <2>2. QED
    BY <1>2, <1>3, <2>1 DEF FramesInv, DebugTypeOK, Frames
<1>5. FrameInv(1)'
  <2>1. Len(Callbacks[cb]) \in 0..7
    BY CallbackParts DEF PartsOK
  <2>2. PartsAt(1)' = Callbacks[cb]
    BY <1>2 DEF PartsAt
  <2>3. Len(f.held) = 0
    BY <1>1, EmptySeq
  <2>4. 0 <= Len(PartsAt(1)')
    BY <2>1, <2>2
  <2>5. QED
    BY <1>1, <1>3, <2>3, <2>4 DEF FrameInv
<1>6. QED
  BY <1>2, <1>3, <1>4, <1>5 DEF FramesInv

LEMMA DescendInv ==
  ASSUME FramesInv, Descend
  PROVE  FramesInv'
<1>0. PICK n : n = Len(stack)
  OBVIOUS
<1>d. PICK d : d = NextPart(n).display
  OBVIOUS
<1>f. PICK f : f = Frame(d, Displays[d].text)
  OBVIOUS
<1>1. /\ stack # <<>> /\ HasNext(n) /\ stack' = Append(stack, f)
      /\ callback' = callback /\ heap' = heap /\ kmallocs' = kmallocs
      /\ gfp' = gfp
  BY <1>0, <1>d, <1>f DEF Descend
<1>2. /\ n \in Nat /\ n \in 1..n /\ Top = stack[n]
      /\ Len(stack[n].held) < Len(PartsAt(n))
      /\ d = PartsAt(n)[Len(stack[n].held) + 1].display
  BY <1>0, <1>d, <1>1, TopPlace DEF NextPart
<1>3. d \in DOMAIN Displays
  <2>1. Len(stack[n].held) + 1 \in 1..Len(PartsAt(n))
    BY <1>0, <1>1, <1>2, TopPlace DEF PartsOK
  <2>2. QED
    BY <1>0, <1>1, <1>2, <2>1, TopPlace, Names DEF PartsOK
<1>4. Displays[d].text \in Nat /\ PartsOK(Displays[d].parts)
  BY <1>3, Rows DEF Row
<1>5. /\ f \in Frames /\ f.info = NoString /\ f.held = <<>>
      /\ f.display = d /\ f.text = Displays[d].text
  BY <1>f, <1>3, <1>4, StringTypes, EmptySeq DEF Frame, Frames, Askers
<1>6. /\ stack' \in Seq(Frames) /\ stack' # <<>> /\ Len(stack') = n + 1
      /\ \A i \in 1..n : stack'[i] = stack[i]
      /\ stack'[n + 1] = f
  BY <1>0, <1>1, <1>5, StackTypes, AppendProperties DEF FramesInv
<1>7. DebugTypeOK'
  BY <1>1, <1>6 DEF FramesInv, DebugTypeOK, Frames
<1>8. ASSUME NEW i \in 1..n
      PROVE  FrameInv(i)'
  <2>1. FrameInv(i) /\ stack'[i] = stack[i] /\ PartsAt(i)' = PartsAt(i)
    BY <1>0, <1>1, <1>6 DEF FramesInv, PartsAt
  <2>2. CASE i < n
    <3>1. stack'[i+1] = stack[i+1] /\ i < Len(stack) /\ i < Len(stack')
      BY <1>0, <1>2, <1>6, <2>2
    <3>2. QED
      BY <2>1, <3>1 DEF FrameInv
  <2>3. CASE i = n
    BY <1>0, <1>2, <1>5, <1>6, <2>1, <2>3 DEF FrameInv
  <2>4. QED
    BY <1>2, <2>2, <2>3
<1>9. FrameInv(n + 1)'
  <2>1. PartsAt(n + 1)' = Displays[d].parts
    <3>1. n + 1 # 1
      BY <1>2
    <3>2. stack'[n + 1].display = d
      BY <1>5, <1>6
    <3>3. QED
      BY <3>1, <3>2 DEF PartsAt
  <2>2. /\ UpTo(Displays[d].parts, 0) = 0
        /\ 0 <= Len(Displays[d].parts)
    <3>1. 0 \in 0..7 /\ Len(Displays[d].parts) \in 0..7
      BY <1>4 DEF PartsOK
    <3>2. QED
      BY <1>4, <3>1, UpToNat
  <2>3. Len(f.held) = 0
    BY <1>5, EmptySeq
  <2>4. f.text <= Displays[d].text + UpTo(Displays[d].parts, Len(f.held))
    BY <1>4, <1>5, <2>2, <2>3
  <2>5. ~(n + 1 < Len(stack')) /\ n + 1 # 1
    BY <1>2, <1>6
  <2>6. QED
    BY <1>3, <1>5, <1>6, <2>1, <2>2, <2>3, <2>4, <2>5 DEF FrameInv
<1>10. \A i \in 1..Len(stack') : FrameInv(i)'
  <2>1. \A i \in 1..Len(stack') : i \in 1..n \/ i = n + 1
    BY <1>2, <1>6
  <2>2. QED
    BY <1>8, <1>9, <2>1
<1>11. QED
  BY <1>1, <1>7, <1>10 DEF FramesInv

LEMMA DisplayNullInv ==
  ASSUME FramesInv, DisplayNull
  PROVE  FramesInv'
<1>0. PICK n : n = Len(stack)
  OBVIOUS
<1> DEFINE at == Pointer(n)
           str == [size |-> NullText + 1, len |-> NullText, at |-> at]
<1>1. /\ stack # <<>> /\ HasNext(n) /\ NextPart(n).null
      /\ stack' = [stack EXCEPT ![n] = Held(stack[n], str)]
      /\ heap' = heap \union {at} /\ kmallocs' = kmallocs + 1
      /\ callback' = callback /\ gfp' = "GFP_KERNEL"
  BY <1>0, TopPlace DEF DisplayNull, kmalloc
<1>a. at \in Pointers
  BY <1>0, <1>1, TopPlace, PointerType DEF FramesInv
<1>2. str \in Strings /\ str.len = NullText
  BY <1>a DEF Strings
<1> HIDE DEF at
<1> HIDE DEF str
<1>3. /\ n \in Nat /\ n \in 1..n /\ stack[n] \in Frames
      /\ Len(stack[n].held) < Len(PartsAt(n))
      /\ PartsAt(n)[Len(stack[n].held) + 1].null
  BY <1>0, <1>1, TopPlace DEF NextPart
<1>4. str.len <= Longest[PartsAt(n)[Len(stack[n].held) + 1].display]
  <2>1. Len(stack[n].held) + 1 \in 1..Len(PartsAt(n))
    BY <1>0, <1>1, <1>3, TopPlace DEF PartsOK
  <2>2. QED
    BY <1>0, <1>1, <1>2, <1>3, <2>1, TopPlace DEF PartsOK
<1>5. /\ stack' \in Seq(Frames) /\ Len(stack') = n
      /\ \A i \in 1..n :
           stack'[i] = IF i = n THEN Held(stack[n], str) ELSE stack[i]
  BY <1>0, <1>1, <1>2, <1>3, HeldFrame, StackTypes, ExceptSeq DEF FramesInv
<1>6. \A i \in 1..Len(stack') : FrameInv(i)'
  BY <1>0, <1>1, <1>2, <1>3, <1>4, <1>5, Holding
<1>7. DebugTypeOK'
  <2>1. stack' # <<>>
    BY <1>3, <1>5, EmptySeq
  <2>2. QED
    BY <1>1, <1>a, <1>5, <2>1 DEF FramesInv, DebugTypeOK, Frames
<1>8. QED
  BY <1>1, <1>6, <1>7 DEF FramesInv

LEMMA SprintfInv ==
  ASSUME FramesInv, sprintf
  PROVE  FramesInv'
<1>0. PICK n : n = Len(stack)
  OBVIOUS
<1>a. PICK at : at = Pointer(n - 1)
  OBVIOUS
<1>s. PICK str : str = [size |-> Displays[stack[n].display].size,
                        len |-> stack[n].text, at |-> at]
  OBVIOUS
<1>1. /\ n > 1 /\ stack # <<>> /\ n \in Nat /\ n \in 1..n
      /\ stack[n] \in Frames
      /\ Len(stack[n].held) = Len(PartsAt(n))
      /\ FrameInv(n)
  <2>1. n > 1 /\ n \in Nat /\ stack # <<>> /\ ~HasNext(n)
    BY <1>0, StackTypes DEF sprintf, FramesInv
  <2>2. FrameInv(n)
    BY <1>0, <2>1 DEF FramesInv
  <2>3. /\ stack[n] \in Frames /\ Len(stack[n].held) \in Nat
        /\ ~(Len(stack[n].held) < Len(PartsAt(n)))
        /\ Len(PartsAt(n)) \in 0..7
    BY <1>0, <2>1, TopPlace DEF PartsOK
  <2>4. Len(stack[n].held) <= Len(PartsAt(n))
    BY <2>2 DEF FrameInv
  <2>5. QED
    BY <2>1, <2>2, <2>3, <2>4
<1>p1. n - 1 \in 1..n
  BY <1>1
<1>p. at \in Pointers
  BY <1>0, <1>1, <1>a, <1>p1, PointerType DEF FramesInv
<1>2. str \in Strings
  <2>1. Displays[stack[n].display].size \in Nat
    BY <1>1, Rows DEF Row, FrameInv
  <2>2. QED
    BY <1>1, <1>p, <1>s, <2>1 DEF Strings, Frames
<1>3. /\ stack' = [stack EXCEPT ![n].info = str]
      /\ heap' = heap \union {at} /\ kmallocs' = kmallocs + 1
      /\ callback' = callback /\ gfp' = "GFP_KERNEL"
  BY <1>0, <1>1, <1>a, <1>s, TopPlace DEF sprintf, kmalloc
<1>4. LET g == [stack[n] EXCEPT !.info = str]
      IN  /\ g \in Frames
          /\ g.display = stack[n].display /\ g.held = stack[n].held
          /\ g.text = stack[n].text /\ g.info = str
  BY <1>1, <1>2 DEF Frames
<1>5. PICK g \in Frames :
        /\ g = [stack[n] EXCEPT !.info = str]
        /\ g.display = stack[n].display /\ g.held = stack[n].held
        /\ g.text = stack[n].text /\ g.info = str
  BY <1>4
<1>g. /\ g.display = stack[n].display /\ g.held = stack[n].held
      /\ g.text = stack[n].text /\ g.info = str
  BY <1>5
<1>6. /\ stack' \in Seq(Frames) /\ Len(stack') = n
      /\ \A i \in 1..n : stack'[i] = IF i = n THEN g ELSE stack[i]
  <2>1. stack' = [stack EXCEPT ![n] = g]
    BY <1>3, <1>5
  <2>2. QED
    BY <1>0, <1>1, <2>1, StackTypes, ExceptSeq DEF FramesInv
<1>7. DebugTypeOK'
  <2>1. stack' # <<>>
    BY <1>1, <1>6, EmptySeq
  <2>2. QED
    BY <1>1, <1>p, <1>3, <1>6, <2>1 DEF FramesInv, DebugTypeOK, Frames
<1>8. ASSUME NEW i \in 1..n
      PROVE  FrameInv(i)'
  <2>1. /\ FrameInv(i) /\ stack'[i].display = stack[i].display
        /\ stack'[i].held = stack[i].held /\ stack'[i].text = stack[i].text
        /\ PartsAt(i)' = PartsAt(i)
    BY <1>0, <1>3, <1>g, <1>6 DEF FramesInv, PartsAt
  <2>2. CASE i < n
    <3>1. i + 1 \in 1..n /\ i < Len(stack) /\ i < Len(stack')
      BY <1>0, <1>1, <1>6, <2>2
    <3>2. stack'[i+1].display = stack[i+1].display /\ stack'[i] = stack[i]
      BY <1>g, <1>6, <2>2, <3>1
    <3>3. QED
      BY <2>1, <3>1, <3>2 DEF FrameInv
  <2>3. CASE i = n
    <3>1. ~(i < Len(stack')) /\ i # 1
      BY <1>1, <1>6, <2>3
    <3>2. stack'[i].info = str
      BY <1>g, <1>6, <2>3
    <3>3. QED
      BY <1>1, <1>s, <2>1, <2>3, <3>1, <3>2 DEF FrameInv
  <2>4. QED
    BY <1>1, <2>2, <2>3
<1>9. QED
  BY <1>3, <1>6, <1>7, <1>8 DEF FramesInv

\* A display function that has printed kept to its bound.
LEMMA Printed ==
  ASSUME FramesInv, NEW i \in 1..Len(stack), stack[i].info # NoString
  PROVE  /\ i > 1 /\ stack[i].display \in DOMAIN Displays
         /\ stack[i].info \in Strings
         /\ stack[i].info.size = Displays[stack[i].display].size
         /\ stack[i].info.len <= Longest[stack[i].display]
         /\ Longest[stack[i].display]
              < stack[i].info.size + Overrun(stack[i].display)
<1>1. FrameInv(i) /\ i \in Nat /\ i >= 1 /\ stack[i] \in Frames
  BY StackTypes DEF FramesInv
<1>2. i > 1
  BY <1>1 DEF FrameInv
<1>3. stack[i].display \in DOMAIN Displays
  BY <1>1, <1>2 DEF FrameInv
<1> DEFINE d == Displays[stack[i].display]
           u == UpTo(d.parts, Len(d.parts))
           l == Longest[stack[i].display]
           o == Overrun(stack[i].display)
<1>4. d.text \in Nat /\ d.text + u <= l /\ l < d.size + o /\ PartsOK(d.parts)
  BY <1>3, Rows DEF Row
<1>5. u \in Nat
  <2>1. ASSUME NEW parts, PartsOK(parts)
        PROVE  UpTo(parts, Len(parts)) \in Nat
    <3>1. Len(parts) \in 0..7 /\ Len(parts) <= Len(parts)
      BY <2>1 DEF PartsOK
    <3>2. QED
      BY <2>1, <3>1, UpToNat
  <2>2. PartsOK(d.parts)
    BY <1>4
  <2> HIDE DEF d
  <2>3. QED
    BY <2>1, <2>2
<1>6. stack[i].text <= d.text + u
  <2>1. PartsAt(i) = d.parts
    BY <1>2 DEF PartsAt
  <2>2. QED
    BY <1>1, <1>2, <2>1 DEF FrameInv
<1>7. l \in Nat /\ stack[i].text \in Nat
  BY <1>1, <1>3, Names, LongestNat DEF Frames
<1>8. /\ stack[i].info.size = d.size /\ stack[i].info.len = stack[i].text
      /\ stack[i].info \in Strings
  BY <1>1 DEF FrameInv, Frames
<1> HIDE DEF d, u, l, o
<1>9. stack[i].text <= l
  BY <1>4, <1>5, <1>6, <1>7
<1>10. QED
  BY <1>2, <1>3, <1>4, <1>8, <1>9 DEF d, l, o

\* What shrink returns.
LEMMA ShrinkResult ==
  ASSUME NEW info \in Strings, NEW at \in Pointers, NEW s \in shrink(info, at)
  PROVE  /\ s.str \in Strings /\ s.str.len = info.len
         /\ \/ /\ s.new = {at} /\ s.kfree = {info.at} /\ s.str.at = at
            \/ /\ s.new = {} /\ s.kfree = {} /\ s.str.at = info.at
BY DEF shrink, Shrunk, Unshrunk, Strings

\* What Return does, said of the two places at the top.
LEMMA ReturnStep ==
  ASSUME FramesInv, Return
  PROVE  LET n == Len(stack)
             m == n - 1
             d == Displays[stack[n].display]
         IN  /\ n > 1 /\ n \in Nat /\ n \in 1..n /\ m \in 1..n
             /\ stack[n].info # NoString /\ callback' = callback
             /\ stack[n].info \in Strings
             /\ stack[n].display \in DOMAIN Displays
             /\ stack[n].info.len <= Longest[stack[n].display]
             /\ kmallocs' \in {kmallocs, kmallocs + 1}
             /\ gfp' \in {gfp, "GFP_KERNEL"}
             /\ \E str \in Strings, new \in SUBSET Pointers,
                   old \in SUBSET Pointers :
                  /\ str.len = stack[n].info.len
                  /\ stack' = [SubSeq(stack, 1, m) EXCEPT ![m] = Held(@, str)]
                  /\ heap' = (((heap \ Freed(stack[n], d)) \union new) \ old)
                  /\ \/ /\ new = {Pointer(m)} /\ old = {stack[n].info.at}
                        /\ str.at = Pointer(m) /\ kmallocs' = kmallocs + 1
                     \/ /\ new = {} /\ old = {} /\ str.at = stack[n].info.at
<1> DEFINE n == Len(stack)
           m == n - 1
           d == Displays[stack[n].display]
<1>1. n > 1 /\ stack # <<>> /\ n \in Nat /\ n \in 1..n /\ m \in 1..n
  BY StackTypes DEF Return, FramesInv
<1>2. Top = stack[n] /\ stack[n].info # NoString /\ callback' = callback
  BY <1>1, TopPlace DEF Return
<1>3. /\ stack[n].display \in DOMAIN Displays
      /\ stack[n].info \in Strings
      /\ stack[n].info.len <= Longest[stack[n].display]
  BY <1>1, <1>2, Printed
<1>4. PICK s \in IF d.shrinks THEN shrink(stack[n].info, Pointer(m))
                                ELSE {Unshrunk(stack[n].info)} :
        /\ stack' = [SubSeq(stack, 1, m) EXCEPT ![m] = Held(@, s.str)]
        /\ heap' = (((heap \ Freed(stack[n], d)) \union s.new) \ s.kfree)
  BY DEF Return, Top
<1>5. IF d.shrinks THEN kmallocs' = kmallocs + 1 /\ gfp' = "GFP_KERNEL"
                   ELSE kmallocs' = kmallocs /\ gfp' = gfp
  BY <1>2 DEF Return, kmalloc
<1>6. Pointer(m) \in Pointers /\ stack[n].info.at \in Pointers
  BY <1>1, <1>3, PointerType DEF FramesInv, Strings
<1>7. /\ s.str \in Strings /\ s.str.len = stack[n].info.len
      /\ \/ /\ s.new = {Pointer(m)} /\ s.kfree = {stack[n].info.at}
            /\ s.str.at = Pointer(m) /\ kmallocs' = kmallocs + 1
         \/ /\ s.new = {} /\ s.kfree = {} /\ s.str.at = stack[n].info.at
  <2>1. CASE d.shrinks
    BY <1>3, <1>4, <1>5, <1>6, <2>1, ShrinkResult
  <2>2. CASE ~d.shrinks
    BY <1>3, <1>4, <2>2 DEF Unshrunk
  <2>3. QED
    BY <2>1, <2>2
<1>8. s.new \in SUBSET Pointers /\ s.kfree \in SUBSET Pointers
  BY <1>6, <1>7
<1>9. /\ kmallocs' \in {kmallocs, kmallocs + 1}
      /\ gfp' \in {gfp, "GFP_KERNEL"}
  BY <1>5
<1> HIDE DEF d
<1>10. \E str \in Strings, new \in SUBSET Pointers, old \in SUBSET Pointers :
         /\ str.len = stack[n].info.len
         /\ stack' = [SubSeq(stack, 1, m) EXCEPT ![m] = Held(@, str)]
         /\ heap' = (((heap \ Freed(stack[n], d)) \union new) \ old)
         /\ \/ /\ new = {Pointer(m)} /\ old = {stack[n].info.at}
               /\ str.at = Pointer(m) /\ kmallocs' = kmallocs + 1
            \/ /\ new = {} /\ old = {} /\ str.at = stack[n].info.at
  BY <1>4, <1>7, <1>8
<1>11. QED
  BY <1>1, <1>2, <1>3, <1>9, <1>10 DEF d

\* The stack after a Return.
LEMMA ReturnStack ==
  ASSUME FramesInv, Return, NEW str \in Strings, NEW m, m = Len(stack) - 1,
         stack' = [SubSeq(stack, 1, m) EXCEPT ![m] = Held(@, str)]
  PROVE  /\ stack' \in Seq(Frames) /\ Len(stack') = m
         /\ m \in Nat /\ m \in 1..Len(stack) /\ stack[m] \in Frames
         /\ FrameInv(m)
         /\ \A i \in 1..m :
              stack'[i] = IF i = m THEN Held(stack[m], str) ELSE stack[i]
<1>1. /\ m \in Nat /\ m \in 1..Len(stack) /\ m < Len(stack)
      /\ Len(stack) \in Nat
  BY ReturnStep
<1>2. FrameInv(m) /\ stack[m] \in Frames
  BY <1>1, StackTypes DEF FramesInv
<1> DEFINE below == SubSeq(stack, 1, m)
<1>3. \A i \in 1..m : stack[i] \in Frames
  BY <1>1, StackTypes DEF FramesInv
<1>4. /\ below \in Seq(Frames) /\ Len(below) = m
      /\ \A i \in 1..m : below[i] = stack[i]
  BY <1>1, <1>3, SubSeqProperties
<1>5. m \in 1..m /\ Held(stack[m], str) \in Frames
  BY <1>1, <1>2, HeldFrame
<1>6. stack' = [below EXCEPT ![m] = Held(stack[m], str)]
  BY <1>4, <1>5
<1> DEFINE f == Held(stack[m], str)
<1>7. /\ [below EXCEPT ![m] = f] \in Seq(Frames)
      /\ Len([below EXCEPT ![m] = f]) = m
      /\ \A i \in 1..m : [below EXCEPT ![m] = f][i]
                          = IF i = m THEN f ELSE below[i]
  <2> SUFFICES ASSUME NEW b \in Seq(Frames), Len(b) = m, NEW g \in Frames
               PROVE  /\ [b EXCEPT ![m] = g] \in Seq(Frames)
                      /\ Len([b EXCEPT ![m] = g]) = m
                      /\ \A i \in 1..m : [b EXCEPT ![m] = g][i]
                                          = IF i = m THEN g ELSE b[i]
    BY <1>4, <1>5
  <2>1. QED
    BY <1>5, ExceptSeq
<1> HIDE DEF below, f
<1>8. stack' \in Seq(Frames) /\ Len(stack') = m
  BY <1>6, <1>7 DEF f
<1>9. \A i \in 1..m : stack'[i] = IF i = m THEN f ELSE stack[i]
  BY <1>4, <1>6, <1>7 DEF f
<1>10. QED
  BY <1>1, <1>2, <1>8, <1>9 DEF f

LEMMA ReturnInv ==
  ASSUME FramesInv, Return
  PROVE  FramesInv'
<1>0. PICK n : n = Len(stack)
  OBVIOUS
<1>m. PICK m : m = n - 1
  OBVIOUS
<1>d. PICK d : d = Displays[stack[n].display]
  OBVIOUS
<1>1. /\ n > 1 /\ n \in Nat /\ n \in 1..n /\ m \in 1..n
      /\ stack[n].info # NoString /\ callback' = callback
      /\ stack[n].info.len <= Longest[stack[n].display]
      /\ kmallocs' \in {kmallocs, kmallocs + 1}
      /\ gfp' \in {gfp, "GFP_KERNEL"}
  BY <1>0, <1>m, ReturnStep
<1>2. PICK str \in Strings, new \in SUBSET Pointers, old \in SUBSET Pointers :
        /\ str.len = stack[n].info.len
        /\ stack' = [SubSeq(stack, 1, m) EXCEPT ![m] = Held(@, str)]
        /\ heap' = (((heap \ Freed(stack[n], d)) \union new) \ old)
  BY <1>0, <1>m, <1>d, ReturnStep
<1>3. /\ stack' \in Seq(Frames) /\ Len(stack') = m
      /\ m \in Nat /\ m \in 1..Len(stack) /\ stack[m] \in Frames /\ FrameInv(m)
      /\ \A i \in 1..m :
           stack'[i] = IF i = m THEN Held(stack[m], str) ELSE stack[i]
  BY <1>0, <1>m, <1>2, ReturnStack
<1>4. /\ Len(stack[m].held) < Len(PartsAt(m))
      /\ stack[n].display = PartsAt(m)[Len(stack[m].held) + 1].display
  <2>1. m < Len(stack) /\ m + 1 = n
    BY <1>0, <1>m, <1>1
  <2>2. QED
    BY <1>3, <2>1 DEF FrameInv
<1>5. \A i \in 1..Len(stack') : FrameInv(i)'
  BY <1>1, <1>2, <1>3, <1>4, Holding
<1>6. DebugTypeOK'
  <2>1. stack' # <<>>
    BY <1>3, EmptySeq
  <2>2. heap' \subseteq Pointers
    BY <1>2 DEF FramesInv, DebugTypeOK
  <2>3. kmallocs' \in Nat /\ gfp' \in {"none", "GFP_KERNEL"}
    BY <1>1 DEF FramesInv, DebugTypeOK
  <2>4. callback' \in DOMAIN Callbacks
    <3>1. stack # <<>>
      BY StackTypes DEF Return, FramesInv
    <3>2. QED
      BY <1>1, <3>1, StackTypes DEF FramesInv
  <2>5. callback' # "none"
    BY <2>4 DEF Callbacks
  <2>6. QED
    BY <1>3, <2>1, <2>2, <2>3, <2>4, <2>5 DEF DebugTypeOK, Frames
<1>7. QED
  BY <1>5, <1>6 DEF FramesInv

LEMMA DestroyInv ==
  ASSUME FramesInv, Destroy
  PROVE  FramesInv'
<1>1. /\ stack' = <<>> /\ callback' = "none" /\ gfp' = "none"
      /\ kmallocs' = kmallocs /\ heap' \subseteq heap
  BY DEF Destroy
<1>2. stack' \in Seq(Frames) /\ Len(stack') = 0
  BY <1>1, EmptySeq
<1>3. QED
  BY <1>1, <1>2 DEF FramesInv, DebugTypeOK, Frames

LEMMA StutterInv ==
  ASSUME FramesInv, UNCHANGED debugVars
  PROVE  FramesInv'
BY DEF debugVars, FramesInv, DebugTypeOK, FrameInv, PartsAt

-----------------------------------------------------------------------------
(***************************************************************************)
(* The heap.                                                               *)
(***************************************************************************)
\* The function that asked for the string at a slot.
Asker(i, k) == IF k = 0 THEN i - 1 ELSE i

\* kmalloc has returned all that is allocated, and a string is for the function
\* that asked for it.
HeapInv ==
  /\ \A p \in heap : p.nr <= kmallocs
  /\ \A i \in 1..Len(stack) : \A k \in Slots(i) :
       At(i, k).for = stack[Asker(i, k)].display
  /\ StringsLive
  /\ OnlyStationLeaks

LEMMA Reaching ==
  /\ \A p : p \in Reached <=>
       \E i \in 1..Len(stack) : \E k \in Slots(i) : p = At(i, k)
  /\ \A p : p \in Reached' <=>
       \E i \in 1..Len(stack') : \E k \in Slots(i)' : p = At(i, k)'
<1>1. \A p : p \in Reached <=>
        \E i \in 1..Len(stack) : \E k \in Slots(i) : p = At(i, k)
  BY DEF Reached
<1>2. \A p : p \in Reached' <=>
        \E i \in 1..Len(stack') : \E k \in Slots(i)' : p = At(i, k)'
  BY DEF Reached
<1>3. QED
  BY <1>1, <1>2

\* A new string, that the function at n gets.
LEMMA NewString ==
  ASSUME DebugTypeOK, HeapInv, NEW n \in 1..Len(stack), NEW new,
         NEW at \in Pointers,
         at.nr = kmallocs + 1, at.for = stack[Asker(n, new)].display,
         kmallocs' = kmallocs + 1, heap' = heap \union {at},
         Len(stack') = Len(stack),
         \A i \in 1..Len(stack) : stack'[i].display = stack[i].display,
         Asker(n, new) \in 1..Len(stack),
         \A i \in 1..Len(stack) : \A k \in Slots(i) :
           Asker(i, k) \in 1..Len(stack),
         new \notin Slots(n), new \in Nat,
         \A i \in 1..Len(stack) :
           /\ Slots(i)' = IF i = n THEN Slots(i) \union {new} ELSE Slots(i)
           /\ \A k \in Slots(i) : At(i, k)' = At(i, k),
         At(n, new)' = at
  PROVE  HeapInv'
<1> DEFINE Place == 1..Len(stack)
<1>0. /\ Len(stack) \in Nat /\ kmallocs \in Nat
      /\ \A p \in heap : p.nr \in Nat /\ p.nr <= kmallocs
      /\ 1..Len(stack') = Place
  BY StackTypes DEF DebugTypeOK, Pointers, HeapInv
<1>1. at \notin heap
  BY <1>0
<1>2. \A p \in heap' : p.nr <= kmallocs'
  BY <1>0
<1>3. \A i \in Place : \A k \in Slots(i)' :
        \/ k \in Slots(i) /\ At(i, k)' = At(i, k)
        \/ i = n /\ k = new /\ At(i, k)' = at
  OBVIOUS
<1>4. \A i \in Place : \A k \in Slots(i) :
        /\ At(i, k) \in heap
        /\ \A j \in Place : \A l \in Slots(j) :
             At(i, k) = At(j, l) => i = j /\ k = l
  BY DEF HeapInv, StringsLive
<1> HIDE DEF Place
<1>5. StringsLive'
  <2>1. ASSUME NEW i \in Place, NEW k \in Slots(i)'
        PROVE  /\ At(i, k)' \in heap'
               /\ \A j \in Place : \A l \in Slots(j)' :
                    At(i, k)' = At(j, l)' => i = j /\ k = l
    BY <1>1, <1>3, <1>4
  <2>2. QED
    BY <1>0, <2>1 DEF StringsLive
<1>6. ASSUME NEW i \in Place, NEW k \in Slots(i)'
      PROVE  At(i, k)'.for = stack'[Asker(i, k)].display
  <2>1. Asker(i, k) \in 1..Len(stack)
    BY <1>3 DEF Place
  <2>2. CASE k \in Slots(i) /\ At(i, k)' = At(i, k)
    BY <2>1, <2>2 DEF HeapInv, Place
  <2>3. CASE i = n /\ k = new /\ At(i, k)' = at
    BY <2>1, <2>3
  <2>4. QED
    BY <1>3, <2>2, <2>3
<1>7. OnlyStationLeaks'
  <2> SUFFICES ASSUME NEW p \in heap', p \notin Reached'
               PROVE  p.for = "sta"
    BY DEF OnlyStationLeaks
  <2>1. \A i \in Place : \A k \in Slots(i)' : p # At(i, k)'
    BY <1>0, Reaching
  <2>2. \A i \in Place : \A k \in Slots(i) : p # At(i, k)
    BY <2>1 DEF Place
  <2>3. p # at
    BY <2>1 DEF Place
  <2>4. p \in heap \ Reached
    BY <2>2, <2>3, Reaching DEF Place
  <2>5. QED
    BY <2>4 DEF HeapInv, OnlyStationLeaks
<1>8. QED
  BY <1>0, <1>2, <1>5, <1>6, <1>7 DEF HeapInv

\* Whoever asked for a string is on the stack.
LEMMA AskerOnStack ==
  ASSUME FramesInv, NEW i \in 1..Len(stack), NEW k \in Slots(i)
  PROVE  k \in Nat /\ Asker(i, k) \in 1..Len(stack) /\ (i = 1 => k # 0)
<1>1. /\ Len(stack) \in Nat /\ Len(stack[i].held) \in Nat
      /\ i = 1 => stack[i].info = NoString
  BY StackTypes, StringTypes DEF FramesInv, FrameInv
<1>2. k \in 0..Len(stack[i].held) /\ (k = 0 => stack[i].info # NoString)
  BY DEF Slots
<1>3. QED
  BY <1>1, <1>2 DEF Asker

\* The function at n gets a string, and nothing else changes hands.
GetsSlot(n, new, at) ==
  /\ new \notin Slots(n)
  /\ \A i \in 1..n : stack'[i].display = stack[i].display
  /\ \A i \in 1..n :
       /\ Slots(i)' = IF i = n THEN Slots(i) \union {new} ELSE Slots(i)
       /\ \A k \in Slots(i) : At(i, k)' = At(i, k)
  /\ At(n, new)' = at

LEMMA HoldingSlot ==
  ASSUME FramesInv, NEW n \in 1..Len(stack), NEW str \in Strings,
         NEW new, new = Len(stack[n].held) + 1,
         \A i \in 1..n :
           stack'[i] = IF i = n THEN Held(stack[n], str) ELSE stack[i]
  PROVE  GetsSlot(n, new, str.at)
<1>1. /\ n \in Nat /\ n \in 1..n /\ stack[n] \in Frames
      /\ Len(stack[n].held) \in Nat
  BY StackTypes, StringTypes DEF FramesInv
<1>2. /\ stack'[n].display = stack[n].display
      /\ stack'[n].info = stack[n].info
      /\ Len(stack'[n].held) = Len(stack[n].held) + 1
      /\ \A k \in 1..Len(stack[n].held) :
           stack'[n].held[k] = stack[n].held[k]
      /\ stack'[n].held[Len(stack[n].held) + 1] = str
  <2>1. stack'[n] = Held(stack[n], str)
    BY <1>1
  <2>2. QED
    BY <1>1, <2>1, HeldFrame
<1>3. \A i \in 1..n : i # n => stack'[i] = stack[i]
  OBVIOUS
<1>4. \A i \in 1..n : stack'[i].display = stack[i].display
  BY <1>2, <1>3
<1>5. ASSUME NEW i \in 1..n, i # n
      PROVE  Slots(i)' = Slots(i) /\ \A k \in Slots(i) : At(i, k)' = At(i, k)
  BY <1>3, <1>5 DEF Slots, At
<1>6. Slots(n)' = Slots(n) \union {new}
  BY <1>1, <1>2 DEF Slots
<1>7. \A k \in Slots(n) : At(n, k)' = At(n, k)
  BY <1>1, <1>2 DEF Slots, At
<1>8. At(n, new)' = str.at /\ new \notin Slots(n)
  <2>1. new # 0 /\ new \notin 0..Len(stack[n].held)
    BY <1>1
  <2>2. stack'[n].held[new] = str
    BY <1>2
  <2>3. At(n, new)' = str.at
    BY <2>1, <2>2 DEF At
  <2>4. QED
    BY <2>1, <2>3 DEF Slots
<1>9. QED
  BY <1>4, <1>5, <1>6, <1>7, <1>8 DEF GetsSlot

LEMMA InfoPrinted ==
  ASSUME NEW s \in Seq(Frames), NEW n \in 1..Len(s), NEW str
  PROVE  LET t == [s EXCEPT ![n].info = str]
         IN  /\ Len(t) = Len(s)
             /\ \A i \in 1..Len(s) : i # n => t[i] = s[i]
             /\ t[n] = [s[n] EXCEPT !.info = str]
OBVIOUS

LEMMA AppendStack ==
  ASSUME NEW s \in Seq(Frames), NEW f
  PROVE  /\ Len(Append(s, f)) = Len(s) + 1
         /\ \A i \in 1..Len(s) : Append(s, f)[i] = s[i]
         /\ Append(s, f)[Len(s) + 1] = f
OBVIOUS

LEMMA CallHeap ==
  ASSUME FramesInv, NEW cb \in DOMAIN Callbacks, Call(cb)
  PROVE  HeapInv'
<1> DEFINE f == Frame(cb, 0)
<1>1. f.info = NoString /\ Len(f.held) = 0
  BY EmptySeq DEF Frame
<1>2. stack' = <<f>> /\ heap' = {}
  BY DEF Call
<1> HIDE DEF f
<1>3. Len(stack') = 1 /\ stack'[1] = f
  BY <1>2
<1>4. \A i \in 1..Len(stack') : Slots(i)' = {}
  BY <1>1, <1>3 DEF Slots
<1>5. QED
  BY <1>2, <1>4 DEF HeapInv, StringsLive, OnlyStationLeaks

\* A function that has nothing yet changes nothing of the heap.
LEMMA DescendHeap ==
  ASSUME FramesInv, HeapInv, Descend
  PROVE  HeapInv'
<1> DEFINE f == Frame(NextPart(Len(stack)).display,
                      Displays[NextPart(Len(stack)).display].text)
<1>1. f.info = NoString /\ Len(f.held) = 0
  BY EmptySeq DEF Frame
<1>2. stack' = Append(stack, f) /\ heap' = heap /\ kmallocs' = kmallocs
  BY DEF Descend
<1> HIDE DEF f
<1>n. PICK n : n = Len(stack)
  OBVIOUS
<1>3. /\ n \in Nat /\ Len(stack') = n + 1
      /\ \A i \in 1..n : stack'[i] = stack[i]
      /\ stack'[n + 1] = f
  <2>1. stack \in Seq(Frames) /\ n \in Nat
    BY <1>n, StackTypes DEF FramesInv
  <2>2. QED
    BY <1>n, <1>2, <2>1, AppendStack
<1>4. /\ \A i \in 1..n : Slots(i)' = Slots(i)
      /\ \A i \in 1..n : \A k : At(i, k)' = At(i, k)
      /\ Slots(n + 1)' = {}
  BY <1>1, <1>3 DEF Slots, At
<1>5. \A i \in 1..n : \A k \in Slots(i) :
        Asker(i, k) \in 1..n
          /\ stack'[Asker(i, k)].display = stack[Asker(i, k)].display
  BY <1>n, <1>3, AskerOnStack
<1>6. \A i \in 1..Len(stack') : i \in 1..n \/ i = n + 1
  BY <1>3
<1>7. 1..n \subseteq 1..Len(stack')
  BY <1>3
<1>8. StringsLive'
  BY <1>n, <1>2, <1>4, <1>6, <1>7 DEF HeapInv, StringsLive
<1>9. \A i \in 1..Len(stack') : \A k \in Slots(i)' :
        At(i, k)'.for = stack'[Asker(i, k)].display
  BY <1>n, <1>4, <1>5, <1>6 DEF HeapInv
<1>10. OnlyStationLeaks'
  <2> SUFFICES ASSUME NEW p \in heap', p \notin Reached'
               PROVE  p.for = "sta"
    BY DEF OnlyStationLeaks
  <2>1. \A i \in 1..n : \A k \in Slots(i) : p # At(i, k)
    BY <1>4, <1>7, Reaching
  <2>2. p \in heap \ Reached
    BY <1>n, <1>2, <2>1, Reaching
  <2>3. QED
    BY <2>2 DEF HeapInv, OnlyStationLeaks
<1>11. QED
  BY <1>2, <1>8, <1>9, <1>10 DEF HeapInv

LEMMA DisplayNullHeap ==
  ASSUME FramesInv, HeapInv, DisplayNull
  PROVE  HeapInv'
<1>n. PICK n : n = Len(stack)
  OBVIOUS
<1>a. PICK at : at = Pointer(n)
  OBVIOUS
<1>s. PICK str : str = [size |-> NullText + 1, len |-> NullText, at |-> at]
  OBVIOUS
<1>1. /\ stack # <<>>
      /\ stack' = [stack EXCEPT ![n] = Held(stack[n], str)]
      /\ heap' = heap \union {at} /\ kmallocs' = kmallocs + 1
  BY <1>n, <1>a, <1>s, TopPlace DEF DisplayNull, kmalloc
<1>2. /\ n \in Nat /\ n \in 1..n /\ n \in 1..Len(stack) /\ stack[n] \in Frames
      /\ Len(stack[n].held) \in Nat
  BY <1>n, <1>1, TopPlace
<1>3. at \in Pointers /\ at.nr = kmallocs + 1 /\ at.for = stack[n].display
  BY <1>a, <1>2, PointerType DEF FramesInv
<1>4. str \in Strings /\ str.at = at
  BY <1>3, <1>s DEF Strings
<1>5. /\ Len(stack') = n
      /\ \A i \in 1..n :
           stack'[i] = IF i = n THEN Held(stack[n], str) ELSE stack[i]
  BY <1>n, <1>1, <1>2, <1>4, HeldFrame, StackTypes, ExceptSeq DEF FramesInv
<1>6. PICK new : new = Len(stack[n].held) + 1
  OBVIOUS
<1>7. GetsSlot(n, new, at)
  BY <1>n, <1>2, <1>4, <1>5, <1>6, HoldingSlot
<1>8. Asker(n, new) = n /\ new \in Nat
  BY <1>2, <1>6 DEF Asker
<1>9. QED
  BY <1>n, <1>1, <1>2, <1>3, <1>5, <1>7, <1>8, AskerOnStack, NewString
     DEF FramesInv, GetsSlot

LEMMA SprintfHeap ==
  ASSUME FramesInv, HeapInv, sprintf
  PROVE  HeapInv'
<1>n. PICK n : n = Len(stack)
  OBVIOUS
<1>a. PICK at : at = Pointer(n - 1)
  OBVIOUS
<1>s. PICK str : str = [size |-> Displays[stack[n].display].size,
                        len |-> stack[n].text, at |-> at]
  OBVIOUS
<1>1. /\ n > 1 /\ n \in Nat /\ n \in 1..n /\ n - 1 \in 1..n
      /\ n \in 1..Len(stack) /\ stack[n] \in Frames
      /\ stack[n].info = NoString
  <2>1. n > 1 /\ n \in Nat /\ Top.info = NoString
    BY <1>n, StackTypes DEF sprintf, FramesInv
  <2>2. Top = stack[n] /\ stack[n] \in Frames
    BY <1>n, <2>1, StackTypes DEF Top, FramesInv
  <2>3. QED
    BY <1>n, <2>1, <2>2
<1>2. /\ stack' = [stack EXCEPT ![n].info = str]
      /\ heap' = heap \union {at} /\ kmallocs' = kmallocs + 1
  BY <1>n, <1>a, <1>s DEF sprintf, kmalloc, Top
<1>3. at \in Pointers /\ at.nr = kmallocs + 1 /\ at.for = stack[n - 1].display
  BY <1>n, <1>a, <1>1, PointerType DEF FramesInv
<1>4. str.at = at
  BY <1>s
<1>5. /\ Len(stack') = n
      /\ \A i \in 1..n : i # n => stack'[i] = stack[i]
      /\ stack'[n].display = stack[n].display
      /\ stack'[n].held = stack[n].held
      /\ stack'[n].info = str
  <2>1. stack \in Seq(Frames)
    BY StackTypes DEF FramesInv
  <2>2. /\ Len(stack') = n
        /\ \A i \in 1..n : i # n => stack'[i] = stack[i]
        /\ stack'[n] = [stack[n] EXCEPT !.info = str]
    BY <1>n, <1>1, <1>2, <2>1, InfoPrinted
  <2>3. QED
    BY <1>1, <2>2 DEF Frames
<1>6. str # NoString
  <2>1. at.nr # NULL.nr
    BY <1>3 DEF NULL, FramesInv, DebugTypeOK
  <2>2. str.at # NoString.at
    BY <1>4, <2>1 DEF NoString
  <2>3. QED
    BY <2>2
<1>7. \A i \in 1..n : /\ stack'[i].display = stack[i].display
                      /\ stack'[i].held = stack[i].held
                      /\ i # n => stack'[i].info = stack[i].info
  BY <1>5
<1>8. GetsSlot(n, 0, at)
  <2>1. ASSUME NEW i \in 1..n, i # n
        PROVE  /\ Slots(i)' = Slots(i)
               /\ \A k \in Slots(i) : At(i, k)' = At(i, k)
    BY <1>7, <2>1 DEF Slots, At
  <2>2. 0 \notin Slots(n) /\ Len(stack[n].held) \in Nat
    BY <1>1, StringTypes DEF Slots
  <2>3. Slots(n)' = Slots(n) \union {0}
    BY <1>1, <1>5, <1>6, <1>7, <2>2 DEF Slots
  <2>4. \A k \in Slots(n) : At(n, k)' = At(n, k)
    BY <1>1, <1>7, <2>2 DEF At
  <2>5. At(n, 0)' = at
    BY <1>4, <1>5 DEF At
  <2>6. QED
    BY <1>7, <2>1, <2>2, <2>3, <2>4, <2>5 DEF GetsSlot
<1>9. Asker(n, 0) = n - 1
  BY DEF Asker
<1>10. QED
  BY <1>n, <1>1, <1>2, <1>3, <1>5, <1>8, <1>9, AskerOnStack, NewString
     DEF FramesInv, GetsSlot

\* A function other than that of a station frees all parts it held.
LEMMA AllFreed ==
  ASSUME FramesInv, NEW n \in 1..Len(stack), n > 1,
         stack[n].info # NoString, stack[n].display # "sta",
         NEW k \in 1..Len(stack[n].held)
  PROVE  stack[n].held[k].at \in Freed(stack[n], Displays[stack[n].display])
<1>1. FrameInv(n)
  BY DEF FramesInv
<1>2. stack[n].display \in DOMAIN Displays
  BY <1>1 DEF FrameInv
<1> DEFINE d == Displays[stack[n].display]
<1>3. Len(stack[n].held) = Len(d.parts)
  BY <1>1, n > 1 DEF FrameInv, PartsAt
<1>4. d.parts[k].name \in d.frees
  BY <1>2, <1>3, Rows DEF Row
<1> HIDE DEF d
<1>5. stack[n].held[k].at \in Freed(stack[n], d)
  BY <1>4 DEF Freed
<1>6. QED
  BY <1>5 DEF d

LEMMA ReturnHeap ==
  ASSUME FramesInv, HeapInv, Return
  PROVE  HeapInv'
<1>n. PICK n : n = Len(stack)
  OBVIOUS
<1>m. PICK m : m = n - 1
  OBVIOUS
<1>d. PICK d : d = Displays[stack[n].display]
  OBVIOUS
<1>q. PICK own : own = stack[n].info.at
  OBVIOUS
<1>1. /\ n > 1 /\ n \in Nat /\ m \in Nat /\ n \in 1..n /\ m \in 1..n /\ m # n
      /\ stack[n].info # NoString
      /\ kmallocs' \in {kmallocs, kmallocs + 1}
  BY <1>n, <1>m, ReturnStep
<1>2. PICK str \in Strings, new \in SUBSET Pointers, old \in SUBSET Pointers :
        /\ stack' = [SubSeq(stack, 1, m) EXCEPT ![m] = Held(@, str)]
        /\ heap' = (((heap \ Freed(stack[n], d)) \union new) \ old)
        /\ \/ /\ new = {Pointer(m)} /\ old = {own}
              /\ str.at = Pointer(m) /\ kmallocs' = kmallocs + 1
           \/ /\ new = {} /\ old = {} /\ str.at = own
  BY <1>n, <1>m, <1>d, <1>q, ReturnStep
<1>3. /\ Len(stack') = m /\ m \in 1..Len(stack)
      /\ \A i \in 1..m :
           stack'[i] = IF i = m THEN Held(stack[m], str) ELSE stack[i]
  BY <1>n, <1>m, <1>2, ReturnStack
<1>4. PICK slot : slot = Len(stack[m].held) + 1
  OBVIOUS
<1>5. GetsSlot(m, slot, str.at)
  BY <1>3, <1>4, HoldingSlot
<1>6. slot \in Nat /\ Asker(m, slot) = m
  <2>1. Len(stack[m].held) \in Nat
    BY <1>3, StackTypes, StringTypes DEF FramesInv
  <2>2. QED
    BY <2>1, <1>4 DEF Asker
<1>7. /\ Pointer(m).nr = kmallocs + 1
      /\ Pointer(m).for = stack[m].display
      /\ kmallocs \in Nat /\ \A p \in heap : p.nr \in Nat /\ p.nr <= kmallocs
  BY <1>3, PointerType DEF FramesInv, DebugTypeOK, HeapInv, Pointers
<1>8. Pointer(m) \notin heap
  BY <1>7
<1>9. /\ 0 \in Slots(n) /\ At(n, 0) = own /\ n \in 1..Len(stack)
      /\ \A k \in 1..Len(stack[n].held) :
           k \in Slots(n) /\ At(n, k) = stack[n].held[k].at /\ k # 0
  <2>1. n \in 1..Len(stack) /\ Len(stack[n].held) \in Nat
    BY <1>n, <1>1, StackTypes, StringTypes DEF FramesInv
  <2>2. QED
    BY <1>1, <1>q, <2>1 DEF Slots, At
<1>10. \A p \in Freed(stack[n], d) :
         \E k \in Slots(n) : k # 0 /\ p = At(n, k)
  BY <1>9 DEF Freed
<1>11. \A i \in 1..n : \A k \in Slots(i) :
         /\ At(i, k) \in heap
         /\ \A j \in 1..n : \A l \in Slots(j) :
              At(i, k) = At(j, l) => i = j /\ k = l
  BY <1>n DEF HeapInv, StringsLive
<1>12. \A i \in 1..m : i \in 1..n /\ i # n
  BY <1>m, <1>1
<1>13. \A i \in 1..m : \A k \in Slots(i)' :
         \/ k \in Slots(i) /\ At(i, k)' = At(i, k)
         \/ i = m /\ k = slot /\ At(i, k)' = str.at
  BY <1>5 DEF GetsSlot
\* The strings of the others are what they were, and not those of function n.
<1>14. \A i \in 1..m : \A k \in Slots(i) :
         /\ At(i, k) \in heap' /\ At(i, k) # str.at
  <2> SUFFICES ASSUME NEW i \in 1..m, NEW k \in Slots(i)
               PROVE  At(i, k) \in heap' /\ At(i, k) # str.at
    OBVIOUS
  <2>1. At(i, k) \in heap /\ At(i, k) # own /\ At(i, k) # Pointer(m)
    BY <1>1, <1>8, <1>9, <1>11, <1>12
  <2>2. At(i, k) \notin Freed(stack[n], d)
    BY <1>1, <1>10, <1>11, <1>12
  <2>3. QED
    BY <1>2, <2>1, <2>2
<1>15. str.at \in heap'
  <2>1. own \in heap /\ own \notin Freed(stack[n], d)
    BY <1>1, <1>9, <1>10, <1>11
  <2>2. Pointer(m) # own
    BY <1>8, <2>1
  <2>3. QED
    BY <1>2, <2>1, <2>2
<1>16. StringsLive'
  <2>1. ASSUME NEW i \in 1..m, NEW k \in Slots(i)'
        PROVE  /\ At(i, k)' \in heap'
               /\ \A j \in 1..m : \A l \in Slots(j)' :
                    At(i, k)' = At(j, l)' => i = j /\ k = l
    BY <1>11, <1>12, <1>13, <1>14, <1>15
  <2>2. QED
    BY <1>3, <2>1 DEF StringsLive
<1>17. \A p \in heap' : p.nr <= kmallocs'
  <2>1. \A p \in heap' : p \in heap \/ (p = Pointer(m)
                                          /\ kmallocs' = kmallocs + 1)
    BY <1>2
  <2>2. QED
    BY <1>1, <1>7, <2>1
<1>18. str.at.for = stack[m].display
  <2>1. own.for = stack[Asker(n, 0)].display
    BY <1>9 DEF HeapInv
  <2>2. Asker(n, 0) = m
    BY <1>m DEF Asker
  <2>3. QED
    BY <1>2, <1>7, <2>1, <2>2
<1>19. ASSUME NEW i \in 1..Len(stack'), NEW k \in Slots(i)'
       PROVE  At(i, k)'.for = stack'[Asker(i, k)].display
  <2>1. i \in 1..m /\ i \in 1..Len(stack) /\ m \in 1..m
    BY <1>n, <1>1, <1>3, <1>12
  <2>2. CASE k \in Slots(i) /\ At(i, k)' = At(i, k)
    <3>1. At(i, k).for = stack[Asker(i, k)].display
      BY <2>1, <2>2 DEF HeapInv
    <3>2. Asker(i, k) \in 1..m
      <4>1. Asker(i, k) \in 1..Len(stack)
        BY <2>1, <2>2, AskerOnStack
      <4>2. QED
        BY <1>1, <2>1, <4>1 DEF Asker
    <3>3. QED
      BY <1>5, <2>2, <3>1, <3>2 DEF GetsSlot
  <2>3. CASE i = m /\ k = slot /\ At(i, k)' = str.at
    BY <1>5, <1>6, <1>18, <2>1, <2>3 DEF GetsSlot
  <2>4. QED
    BY <1>13, <2>1, <2>2, <2>3
\* What can be reached no more is freed, but the parts of a station.
<1>20. OnlyStationLeaks'
  <2> SUFFICES ASSUME NEW p \in heap', p \notin Reached'
               PROVE  p.for = "sta"
    BY DEF OnlyStationLeaks
  <2>1. p # str.at /\ \A i \in 1..m : \A k \in Slots(i) : p # At(i, k)
    <3>1. \A i \in 1..m : \A k \in Slots(i)' : p # At(i, k)'
      BY <1>3, Reaching
    <3>2. m \in 1..m
      BY <1>1
    <3>3. QED
      BY <1>5, <3>1, <3>2 DEF GetsSlot
  <2>2. p \in heap /\ p \notin Freed(stack[n], d) /\ p # own
    BY <1>2, <2>1
  <2>3. CASE p \in Reached
    <3>0. PICK i \in 1..n : \E k \in Slots(i) : p = At(i, k)
      BY <1>n, <2>3, Reaching
    <3>1. PICK k \in Slots(i) : p = At(i, k)
      BY <3>0
    <3>2. i = n
      <4>1. i \in 1..m \/ i = n
        BY <1>m, <1>1
      <4>2. QED
        BY <2>1, <3>1, <4>1
    <3>3. k \in 1..Len(stack[n].held)
      <4>1. k # 0 /\ k \in 0..Len(stack[n].held) /\ Len(stack[n].held) \in Nat
        BY <1>9, <2>2, <3>1, <3>2, StackTypes, StringTypes
           DEF FramesInv, Slots
      <4>2. QED
        BY <4>1
    <3>4. stack[n].display = "sta"
      BY <1>d, <1>1, <1>9, <2>2, <3>1, <3>2, <3>3, AllFreed
    <3>5. p.for = stack[Asker(n, k)].display /\ Asker(n, k) = n
      BY <1>9, <3>1, <3>2, <3>3 DEF HeapInv, Asker
    <3>6. QED
      BY <3>4, <3>5
  <2>4. CASE p \notin Reached
    BY <2>2, <2>4 DEF HeapInv, OnlyStationLeaks
  <2>5. QED
    BY <2>3, <2>4
<1>21. QED
  BY <1>16, <1>17, <1>19, <1>20 DEF HeapInv

\* The callback frees all that it holds.
LEMMA DestroyHeap ==
  ASSUME FramesInv, HeapInv, Destroy
  PROVE  HeapInv'
<1>1. /\ Len(stack) = 1 /\ stack' = <<>> /\ kmallocs' = kmallocs
      /\ heap' = heap \ {stack[1].held[k].at : k \in 1..Len(stack[1].held)}
  BY DEF Destroy, Top
<1>2. Len(stack') = 0
  BY <1>1, EmptySeq
<1>3. ASSUME NEW p \in heap'
      PROVE  p \in heap \ Reached
  <2>1. \A k \in Slots(1) : /\ k \in 1..Len(stack[1].held)
                            /\ At(1, k) = stack[1].held[k].at
    <3>1. stack[1].info = NoString /\ Len(stack[1].held) \in Nat
      BY <1>1, StackTypes, StringTypes DEF FramesInv, FrameInv
    <3>2. QED
      BY <3>1 DEF Slots, At
  <2>2. \A k \in Slots(1) : p # At(1, k)
    BY <1>1, <1>3, <2>1
  <2>3. \A i \in 1..Len(stack) : i = 1
    BY <1>1
  <2>4. QED
    BY <1>1, <1>3, <2>2, <2>3, Reaching
<1>4. QED
  BY <1>1, <1>2, <1>3 DEF HeapInv, StringsLive, OnlyStationLeaks

LEMMA StutterHeap ==
  ASSUME HeapInv, UNCHANGED debugVars
  PROVE  HeapInv'
<1>1. stack' = stack /\ heap' = heap /\ kmallocs' = kmallocs
  BY DEF debugVars
<1>2. /\ \A i : Slots(i)' = Slots(i)
      /\ \A i, k : At(i, k)' = At(i, k)
  BY <1>1 DEF Slots, At
<1>3. \A p : p \in Reached' <=> p \in Reached
  BY <1>1, <1>2, Reaching
<1>4. StringsLive' /\ OnlyStationLeaks'
  BY <1>1, <1>2, <1>3 DEF HeapInv, StringsLive, OnlyStationLeaks
<1>5. QED
  BY <1>1, <1>2, <1>4 DEF HeapInv

-----------------------------------------------------------------------------
(***************************************************************************)
(* The theorems.                                                           *)
(***************************************************************************)
DebugInv == FramesInv /\ HeapInv

LEMMA DebugInitInv == DebugInit => DebugInv
<1> SUFFICES ASSUME DebugInit PROVE DebugInv
  OBVIOUS
<1>1. stack = <<>> /\ Len(stack) = 0 /\ heap = {}
  BY EmptySeq DEF DebugInit
<1>2. FramesInv
  BY <1>1, EmptySeq DEF DebugInit, FramesInv, DebugTypeOK
<1>3. HeapInv
  BY <1>1 DEF HeapInv, StringsLive, OnlyStationLeaks
<1>4. QED
  BY <1>2, <1>3 DEF DebugInv

\* At every place of the stack the function has what it asked for and no more,
\* its text is within its bound, and its strings are its own.
THEOREM DebugInvariant == DebugSpec => []DebugInv
<1>1. FramesInv /\ [DebugNext]_debugVars => FramesInv'
  BY CallInv, DescendInv, DisplayNullInv, SprintfInv, ReturnInv, DestroyInv,
     StutterInv DEF DebugNext
<1>2. FramesInv /\ HeapInv /\ [DebugNext]_debugVars => HeapInv'
  BY CallHeap, DescendHeap, DisplayNullHeap, SprintfHeap, ReturnHeap,
     DestroyHeap, StutterHeap DEF DebugNext
<1>3. DebugInv /\ [DebugNext]_debugVars => DebugInv'
  BY <1>1, <1>2 DEF DebugInv
<1>4. QED
  BY DebugInitInv, <1>3, PTL DEF DebugSpec

\* The state of the callbacks' strings has its types.
THEOREM DebugTypeCorrect == DebugSpec => []DebugTypeOK
<1>1. DebugInv => DebugTypeOK
  BY DEF DebugInv, FramesInv
<1>2. QED
  BY DebugInvariant, <1>1, PTL

\* Nothing is printed past its buffer but the text of a tx_info, by 38 bytes at
\* most: Longest[d] is less than the buffer of every display function d, and
\* than that of display_struct_ieee80211_tx_info_1_1 with 38 bytes more.
THEOREM DebugTextFits == DebugSpec => []TextFits
<1>1. DebugInv => TextFits
  <2> SUFFICES ASSUME DebugInv, NEW i \in 1..Len(stack),
                      stack[i].info # NoString
               PROVE  stack[i].info.len
                        < stack[i].info.size + Overrun(stack[i].display)
    BY DEF TextFits
  <2>1. /\ stack[i].display \in DOMAIN Longest
        /\ stack[i].info.len \in Nat /\ stack[i].info.size \in Nat
        /\ stack[i].info.len <= Longest[stack[i].display]
        /\ Longest[stack[i].display]
             < stack[i].info.size + Overrun(stack[i].display)
    BY Printed, Names DEF DebugInv, Strings
  <2>2. Overrun(stack[i].display) \in Nat
    BY DEF Overrun
  <2>3. QED
    BY <2>1, <2>2, LongestNat
<1>2. QED
  BY DebugInvariant, <1>1, PTL

\* What a function is to print or to free is allocated, and its alone.
THEOREM DebugStringsLive == DebugSpec => []StringsLive
<1>1. DebugInv => StringsLive
  BY DEF DebugInv, HeapInv
<1>2. QED
  BY DebugInvariant, <1>1, PTL

\* Nothing is allocated and out of reach but what a station was displayed with.
THEOREM DebugOnlyStationLeaks == DebugSpec => []OnlyStationLeaks
<1>1. DebugInv => OnlyStationLeaks
  BY DEF DebugInv, HeapInv
<1>2. QED
  BY DebugInvariant, <1>1, PTL
=============================================================================
