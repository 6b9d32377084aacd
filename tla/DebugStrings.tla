---------------------------- MODULE DebugStrings ----------------------------
(***************************************************************************)
(* The strings the driver builds of its arguments on every callback, in a  *)
(* build with DEBUG: a tree of display functions, each of which obtains    *)
(* the strings of its parts from other display functions, prints them and  *)
(* its own text into a buffer of fixed size with sprintf, frees the parts, *)
(* and returns the buffer, usually after shrink() has moved the string to  *)
(* an allocation of its own length. Whoever asked for a string frees it.   *)
(*                                                                         *)
(* A string is its length, the size of its allocation and a pointer to it; *)
(* heap has the pointers that are allocated. Lengths are the largest the   *)
(* conversions allow. A callback shares nothing with others. Where kmalloc *)
(* fails outside shrink() the next sprintf writes to NULL, and nothing is  *)
(* claimed of a kernel after that.                                         *)
(*                                                                         *)
(* An operator X_Mistake before X is X with a plausible mistake; no action *)
(* uses it. README.md names the property that notices it.                  *)
(***************************************************************************)
EXTENDS Naturals, Sequences

\* Characters a conversion prints at most: %08X, %p, %u of an unsigned int, of
\* a u16 and a u8, %d of an int and an s8, and a bool.
Hex == 8
Ptr == 16
U32 == 10
U16 == 5
U8 == 3
S32 == 11
S8 == 4
Bool == 1
Unknown == 2    \* "??"
NullText == 40  \* "(struct ...){null}", at most

-----------------------------------------------------------------------------
(***************************************************************************)
(* The display functions. The number in each text is the length of the     *)
(* layout without its conversions; parts are what other functions display. *)
(***************************************************************************)
Part(name, display) == [name |-> name, display |-> display, null |-> FALSE]
OrNull(name, display) == [name |-> name, display |-> display, null |-> TRUE]

\* Printed into 2048 bytes, every part freed, then shrunk.
Display(parts, text) ==
  [parts |-> parts, text |-> text, size |-> 2048, shrinks |-> TRUE,
   frees |-> {parts[k].name : k \in DOMAIN parts}]
\* A buffer that is not shrunk.
Buffer(size, text) ==
  [parts |-> <<>>, text |-> text, size |-> size, shrinks |-> FALSE,
   frees |-> {}]

display_struct_mac_address_Short == Buffer(63 - 12 * 6 + 1, 39 + 6 * 2)
display_struct_mac_address == Buffer(63 - 12 + 1, 39 + 6 * 2)
display_struct_ieee80211_txrx_stypes == Buffer(59 + 2 * 5 + 1, 55 + 2 * U16)

display_struct_ieee80211_channel ==
  Display(<<>>, 363 + 3 * Hex + 2 * U16 + 3 * U32 + 5 * S32 + Bool)

display_struct_cfg80211_chan_def_Keeps ==
  [Display(<<OrNull("chan", "channel")>>, 113 + Hex + 2 * U32)
     EXCEPT !.frees = {}]
display_struct_cfg80211_chan_def ==
  Display(<<OrNull("chan", "channel")>>, 113 + Hex + 2 * U32)

display_struct_ieee80211_chanctx_conf ==
  Display(<<Part("def", "chan_def"), Part("min_def", "chan_def")>>,
          143 + 2 * U8 + Bool + Ptr)

\* The types are looked up in the bits of their address, not of their value. An
\* address is aligned, which leaves out UNSPECIFIED and ADHOC: the names of the
\* others, each between two blanks.
iftype_names == Buffer(2048, 22 + 17 + 22 + 18 + 22 + 5 * 2)
display_nl80211_iftype == Display(<<Part("temp", "iftype_names")>>, 23)

rate_temp == Buffer(2048, 4 * (88 + 1 + S8 + 3 * U8 + 4))
display_struct_ieee80211_sta_rates ==
  Display(<<Part("rate_temp", "rate_temp")>>, 67 + Ptr)

\* Neither of its two parts is freed.
display_struct_ieee80211_sta ==
  [Display(<<Part("addr", "mac"), OrNull("rates", "sta_rates")>>,
           373 + 3 * Hex + U16 + 4 * U8 + Bool + 2 * U32 + Ptr)
     EXCEPT !.frees = {}]

display_struct_ieee80211_tx_control == Display(<<OrNull("sta", "sta")>>, 36)

display_struct_ieee80211_vif ==
  Display(<<Part("type", "iftype"), Part("addr", "mac"),
            OrNull("ctx", "chanctx_conf")>>,
          198 + Unknown + 2 * Bool + 5 * U8 + Hex + Ptr)

display_struct_ieee80211_tx_info ==
  Display(<<OrNull("vif", "vif")>>,
          174 + 2 * Hex + 2 * U8 + U16 + U32 + 2 * Ptr + Unknown)

display_struct_ieee80211_conf ==
  Display(<<Part("chandef", "chan_def")>>,
          301 + 2 * Hex + 2 * S32 + U16 + 3 * U8 + Bool)

\* The driver announces no interface combinations: their buffer stays empty.
iface_combinations == Buffer(2048, 0)
Wiphy(size) ==
  [Display(<<Part("perm_addr", "mac"), Part("addr_mask", "mac"),
             OrNull("addresses", "mac"), Part("mgmt_stypes", "stypes"),
             Part("iface_combinations", "combinations"),
             Part("software_iftypes", "iftype"),
             Part("interface_modes", "iftype")>>,
           445 + S32 + U16 + 3 * Hex + 3 * U32 + 2 * Ptr + 3 * Unknown)
     EXCEPT !.size = size]
display_struct_wiphy_Half == Wiphy(1024)
display_struct_wiphy == Wiphy(2048)

display_struct_ieee80211_hw ==
  [Display(<<Part("conf", "conf"), Part("wiphy", "wiphy")>>,
           665 + 2 * Ptr + Hex + 2 * U32 + 3 * S32 + 3 * U16 + S8 + 10 * U8
               + 2 * Unknown)
     EXCEPT !.size = 4096]

Displays ==
  [mac |-> display_struct_mac_address,
   stypes |-> display_struct_ieee80211_txrx_stypes,
   channel |-> display_struct_ieee80211_channel,
   chan_def |-> display_struct_cfg80211_chan_def,
   chanctx_conf |-> display_struct_ieee80211_chanctx_conf,
   iftype_names |-> iftype_names, iftype |-> display_nl80211_iftype,
   rate_temp |-> rate_temp, sta_rates |-> display_struct_ieee80211_sta_rates,
   sta |-> display_struct_ieee80211_sta,
   tx_control |-> display_struct_ieee80211_tx_control,
   vif |-> display_struct_ieee80211_vif,
   tx_info |-> display_struct_ieee80211_tx_info,
   conf |-> display_struct_ieee80211_conf,
   combinations |-> iface_combinations, wiphy |-> display_struct_wiphy,
   hw |-> display_struct_ieee80211_hw]

\* The arguments each callback displays. WCH11P_start stands for stop, config
\* and configure_filter too, and WCH11P_add_interface for remove_interface.
HwOnly == <<Part("hw", "hw")>>
HwAndVif == <<Part("hw", "hw"), Part("vif", "vif")>>
TxArguments == <<Part("hw", "hw"), Part("control", "tx_control"),
                 Part("txi", "tx_info")>>
Callbacks == [WCH11P_start |-> HwOnly, WCH11P_add_interface |-> HwAndVif,
              WCH11P_tx |-> TxArguments]

-----------------------------------------------------------------------------
VARIABLES
  callback, \* the callback in progress, or "none"
  stack,    \* the functions in progress: the callback, and displays below it
  heap,     \* what is allocated of the strings of this callback, or the last
  kmallocs, \* how often the callback has called kmalloc
  gfp       \* the flags of its last kmalloc

debugVars == <<callback, stack, heap, kmallocs, gfp>>

\* A pointer: the kmalloc that returned it, and the function it is for.
NULL == [nr |-> 0, for |-> "none"]
NoString == [size |-> 0, len |-> 0, at |-> NULL]

\* A function in progress: the strings of the parts it has so far, the length
\* of what it will print, and its own string once printed.
Frame(display, text) ==
  [display |-> display, held |-> <<>>, text |-> text, info |-> NoString]

DebugInit ==
  /\ callback = "none"
  /\ stack = <<>>
  /\ heap = {}
  /\ kmallocs = 0
  /\ gfp = "none"

Top == stack[Len(stack)]
PartsAt(i) ==
  IF i = 1 THEN Callbacks[callback] ELSE Displays[stack[i].display].parts
HasNext(i) == Len(stack[i].held) < Len(PartsAt(i))
NextPart(i) == PartsAt(i)[Len(stack[i].held) + 1]

\* What the next kmalloc returns, for a part of the function at i.
Pointer(i) == [nr |-> kmallocs + 1, for |-> stack[i].display]
kmalloc ==
  /\ kmallocs' = kmallocs + 1
  /\ gfp' = "GFP_KERNEL"

\* The function gets the string of its next part.
Held(f, string) ==
  [f EXCEPT !.held = Append(@, string), !.text = @ + string.len]

\* mac80211 calls the driver, which begins to display its arguments. What an
\* earlier callback left in the heap is followed no further.
Call(cb) ==
  /\ callback = "none"
  /\ callback' = cb
  /\ stack' = <<Frame(cb, 0)>>
  /\ heap' = {}
  /\ kmallocs' = 0
  /\ gfp' = "none"

\* A display function is called for the next part.
Descend ==
  /\ stack # <<>> /\ HasNext(Len(stack))
  /\ LET d == NextPart(Len(stack)).display
     IN  stack' = Append(stack, Frame(d, Displays[d].text))
  /\ UNCHANGED <<callback, heap, kmallocs, gfp>>

\* Its argument is NULL: it returns a string of exactly the length it needs.
DisplayNull ==
  /\ stack # <<>> /\ HasNext(Len(stack)) /\ NextPart(Len(stack)).null
  /\ LET at == Pointer(Len(stack))
         str == [size |-> NullText + 1, len |-> NullText, at |-> at]
     IN  /\ stack' = [stack EXCEPT ![Len(stack)] = Held(@, str)]
         /\ heap' = heap \union {at}
  /\ kmalloc
  /\ UNCHANGED callback

\* All parts are there: kmalloc of the buffer, and sprintf.
sprintf ==
  /\ Len(stack) > 1 /\ ~HasNext(Len(stack)) /\ Top.info = NoString
  /\ LET at == Pointer(Len(stack) - 1)
         str == [size |-> Displays[Top.display].size, len |-> Top.text,
                 at |-> at]
     IN  /\ stack' = [stack EXCEPT ![Len(stack)].info = str]
         /\ heap' = heap \union {at}
  /\ kmalloc
  /\ UNCHANGED callback

\* shrink: the string in an allocation of strlen bytes, which has no room for
\* the terminator, and the old one freed; or str itself when kmalloc fails.
\* What it allocates, what it frees and what it returns.
Shrunk(str, at) ==
  [new |-> {at}, kfree |-> {str.at},
   str |-> [size |-> str.len, len |-> str.len, at |-> at]]
Unshrunk(str) == [new |-> {}, kfree |-> {}, str |-> str]
shrink_FreesBoth(str, at) ==
  {Shrunk(str, at), [Unshrunk(str) EXCEPT !.kfree = {str.at}]}
shrink(str, at) == {Shrunk(str, at), Unshrunk(str)}

\* A display function frees its parts and returns its string.
Freed(f, d) ==
  {f.held[k].at : k \in {j \in 1..Len(f.held) : d.parts[j].name \in d.frees}}
Return ==
  /\ Len(stack) > 1 /\ Top.info # NoString
  /\ LET n == Len(stack)
         d == Displays[Top.display]
     IN  /\ \E s \in IF d.shrinks THEN shrink(Top.info, Pointer(n - 1))
                                  ELSE {Unshrunk(Top.info)} :
              /\ stack' = [SubSeq(stack, 1, n - 1)
                             EXCEPT ![n - 1] = Held(@, s.str)]
              /\ heap' = (((heap \ Freed(Top, d)) \union s.new) \ s.kfree)
         /\ IF d.shrinks THEN kmalloc ELSE UNCHANGED <<kmallocs, gfp>>
  /\ UNCHANGED callback

\* d_dump and d_destroy: the callback prints its strings, frees them and goes
\* on with its work.
Destroy ==
  /\ Len(stack) = 1 /\ ~HasNext(1)
  /\ callback' = "none"
  /\ stack' = <<>>
  /\ heap' = heap \ {Top.held[k].at : k \in 1..Len(Top.held)}
  /\ gfp' = "none"
  /\ UNCHANGED kmallocs

DebugNext ==
  \/ \E cb \in DOMAIN Callbacks : Call(cb)
  \/ Descend \/ DisplayNull \/ sprintf \/ Return \/ Destroy

DebugSpec == DebugInit /\ [][DebugNext]_debugVars

-----------------------------------------------------------------------------
(***************************************************************************)
(* Properties.                                                             *)
(***************************************************************************)
Askers == DOMAIN Displays \union DOMAIN Callbacks
Pointers == [nr : Nat, for : Askers \union {"none"}]
Strings == [size : Nat, len : Nat, at : Pointers]

DebugTypeOK ==
  /\ callback \in DOMAIN Callbacks \union {"none"}
  /\ stack \in Seq([display : Askers, held : Seq(Strings), text : Nat,
                    info : Strings])
  /\ stack = <<>> <=> callback = "none"
  /\ heap \subseteq Pointers
  /\ kmallocs \in Nat
  /\ gfp \in {"none", "GFP_KERNEL"}

\* For any values of the fields and any of the pointers NULL: every text fits
\* the buffer it is printed to with its terminator, but that of
\* display_struct_ieee80211_tx_info_1_1, which is up to 38 bytes longer than the
\* 2048 (debug_ieee80211.c:211-212) and never more. Texts of up to six levels
\* are printed there unmeasured.
Overrun(display) == IF display = "tx_info" THEN 38 ELSE 0
TextFits ==
  \A i \in 1..Len(stack) :
    stack[i].info # NoString =>
      stack[i].info.len < stack[i].info.size + Overrun(stack[i].display)

\* The strings a function has: slot 0 is its own, slot k that of part k.
Slots(i) == {k \in 0..Len(stack[i].held) : k = 0 => stack[i].info # NoString}
At(i, k) == IF k = 0 THEN stack[i].info.at ELSE stack[i].held[k].at

\* What a function has yet to print or to free is allocated, and nobody else
\* has it: it is not freed before or twice, though shrink frees one of two
\* strings and returns the other (debug.c:9-15), and no two functions free the
\* same.
StringsLive ==
  \A i \in 1..Len(stack) : \A k \in Slots(i) :
    /\ At(i, k) \in heap
    /\ \A j \in 1..Len(stack) : \A l \in Slots(j) :
         At(i, k) = At(j, l) => i = j /\ k = l

\* Nothing is allocated that no function can reach any more, but what a station
\* was displayed with (debug_ieee80211.c:404-410), lost on a WCH11P_tx to one:
\* every other function frees all that it obtained, and shrink what it replaced.
Reached == UNION {{At(i, k) : k \in Slots(i)} : i \in 1..Len(stack)}
OnlyStationLeaks == \A p \in heap \ Reached : p.for = "sta"

(***************************************************************************)
(* What the source says and the code does not do.                          *)
(***************************************************************************)
\* mac80211-ops.c:130 "We are on interrupt context and TxReq might sleep, so we
\* do the rest in the kernel thread": nothing before it may sleep either.
TxNeverSleeps == callback = "WCH11P_tx" => gfp # "GFP_KERNEL"
=============================================================================
