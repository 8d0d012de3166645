------------------------------- MODULE Bitmap -------------------------------
(***************************************************************************)
(* StaticBitmap, Bitmap and AtomicBitmap: bit i of an array of words.  The *)
(* operators of a word are those of StaticBitmap<64>, which keeps the      *)
(* sharers of a page.  AtomicBitmap is changed with fetch_or and fetch_and *)
(* while another thread runs applyForAll, which loads one word at a time.  *)
(***************************************************************************)
EXTENDS Integers, Sequences, FiniteSets, Bitwise

CONSTANTS
  W,          \* bits of a word, 64 in the code
  Size,       \* words
  MaxBusy     \* bound: changes during one scan

Bits == 0..(W * Size - 1)
Full == 2 ^ W - 1

VARIABLES
  words,      \* [0..Size-1 -> word]
  bits,       \* the set that the bitmap stands for
  scan,       \* applyForAll: next word, rest of the loaded word, bits handed to func
  stable,     \* bits that were set all through the scan
  seen        \* bits that were set at some time during the scan

vars == <<words, bits, scan, stable, seen>>

-----------------------------------------------------------------------------
(* A word *)

Lowest(w) == CHOOSE r \in 0..(W - 1) : w % 2 ^ r = 0 /\ (w \div 2 ^ r) % 2 = 1     \* __builtin_ctzll

Complement(w) == Full - w                          \* ~w
Negate(w) == (Complement(w) + 1) % 2 ^ W           \* -w

\* the loop step bitset ^= bitset & -bitset
DropLowest(w) == w ^^ (w & Negate(w))

SetW(w, i) == w | 2 ^ i
ResetW(w, i) == w & Complement(2 ^ i)
TestW(w, i) == (w & 2 ^ i) # 0
NoneW(w) == w = 0

\* bits in the order in which the loop of applyForAll and bitmap_decode_ctz meets them
RECURSIVE DecodeW(_)
DecodeW(w) == IF w = 0 THEN <<>> ELSE <<Lowest(w)>> \o DecodeW(DropLowest(w))

RECURSIVE CountW(_)
CountW(w) == IF w = 0 THEN 0 ELSE (w % 2) + CountW(w \div 2)       \* __builtin_popcountll

\* bits that applyToOneRnd may take: getRandU64(0, cnt - 1) excludes its upper bound
PickW(w) == LET cnt == CountW(w) IN
            IF cnt = 1 THEN {Lowest(w)} ELSE {DecodeW(w)[pick + 1] : pick \in {p \in 0..cnt : p < cnt - 1}}

FreeSlotW(w) == IF w # Full THEN Lowest(Complement(w)) ELSE -1   \* -1: nullopt

-----------------------------------------------------------------------------
(* An array of words *)

Pos(i) == i \div W
Bit(i) == i % W
SetBit(ws, i) == [ws EXCEPT ![Pos(i)] = SetW(@, Bit(i))]
ResetBit(ws, i) == [ws EXCEPT ![Pos(i)] = ResetW(@, Bit(i))]
TestBit(ws, i) == TestW(ws[Pos(i)], Bit(i))
AllClear == [k \in 0..(Size - 1) |-> 0]

OfWord(k, s) == [j \in 1..Len(s) |-> k * W + s[j]]

RECURSIVE DecodeFrom(_, _)
DecodeFrom(ws, k) == IF k = Size THEN <<>> ELSE OfWord(k, DecodeW(ws[k])) \o DecodeFrom(ws, k + 1)
Decode(ws) == DecodeFrom(ws, 0)

NoneSet(ws) == \A k \in 0..(Size - 1) : NoneW(ws[k])

RECURSIVE CountFrom(_, _)
CountFrom(ws, k) == IF k = Size THEN 0 ELSE CountW(ws[k]) + CountFrom(ws, k + 1)
Count(ws) == CountFrom(ws, 0)

\* the first free slot of the first word that has one
FreeSlot(ws) ==
  IF \E k \in 0..(Size - 1) : ws[k] # Full
  THEN LET k == CHOOSE k \in 0..(Size - 1) : ws[k] # Full /\ \A l \in 0..(k - 1) : ws[l] = Full
       IN k * W + FreeSlotW(ws[k])
  ELSE -1

\* the last bit that the loop over all bits assigns
Highest(ws) == LET d == Decode(ws) IN d[Len(d)]

\* AtomicBitmap::applyToOneRnd: the first bit at or behind pick in pick's word, or another try
PickAtomic(ws) == {r \in Bits : \E pick \in 0..(W * Size - 2) :
                     /\ Pos(r) = Pos(pick) /\ r >= pick /\ TestBit(ws, r)
                     /\ \A q \in pick..(r - 1) : ~ TestBit(ws, q)}

-----------------------------------------------------------------------------
Idle == [k |-> Size, rest |-> 0, out |-> <<>>, busy |-> 0]

Init == words = AllClear /\ bits = {} /\ scan = Idle /\ stable = {} /\ seen = {}

Scanning == scan.k < Size \/ scan.rest # 0

\* a change by another thread; those during a scan are bounded
Busy == /\ Scanning => scan.busy < MaxBusy
        /\ scan' = IF Scanning THEN [scan EXCEPT !.busy = @ + 1] ELSE Idle

SetAt(i) ==
  /\ Busy
  /\ words' = SetBit(words, i) /\ bits' = bits \cup {i}
  /\ seen' = IF Scanning THEN seen \cup {i} ELSE {}
  /\ stable' = IF Scanning THEN stable ELSE {}

ResetAt(i) ==
  /\ Busy
  /\ words' = ResetBit(words, i) /\ bits' = bits \ {i}
  /\ stable' = IF Scanning THEN stable \ {i} ELSE {}
  /\ seen' = IF Scanning THEN seen ELSE {}

Clear ==
  /\ ~ Scanning
  /\ words' = AllClear /\ bits' = {}
  /\ UNCHANGED <<scan, stable, seen>>

ScanBegin ==
  /\ ~ Scanning
  /\ scan' = [Idle EXCEPT !.k = 0]
  /\ stable' = bits /\ seen' = bits
  /\ UNCHANGED <<words, bits>>

\* Mutant: the word is loaded again for every bit
ScanReload ==
  /\ scan.k < Size /\ scan.rest = 0
  /\ scan' = [scan EXCEPT !.rest = words[scan.k], !.k = IF words[scan.k] = 0 THEN @ + 1 ELSE @]
  /\ UNCHANGED <<words, bits, stable, seen>>

\* bitset = bitmap[k].load
ScanLoad ==
  /\ scan.k < Size /\ scan.rest = 0
  /\ scan' = [scan EXCEPT !.rest = words[scan.k], !.k = @ + 1]
  /\ UNCHANGED <<words, bits, stable, seen>>

\* func(k * 64 + r); bitset ^= t
ScanBit ==
  /\ scan.rest # 0
  /\ scan' = [scan EXCEPT !.out = Append(@, (scan.k - 1) * W + Lowest(scan.rest)), !.rest = DropLowest(@)]
  /\ UNCHANGED <<words, bits, stable, seen>>

Next == \/ \E i \in Bits : SetAt(i) \/ ResetAt(i)
        \/ Clear \/ ScanBegin \/ ScanLoad \/ ScanBit

Spec == Init /\ [][Next]_vars

-----------------------------------------------------------------------------
(* Properties *)

Sorted(s) == \A i, j \in 1..Len(s) : i < j => s[i] < s[j]

(***************************************************************************)
(* Every operation answers as the set would: test, count, none, the order  *)
(* of applyForAll and bitmap_decode_ctz, the highest bit; applyToOneRnd    *)
(* finds a bit and takes only bits that are set, the atomic one any of     *)
(* them but the last of the bitmap.                                        *)
(***************************************************************************)
AnswersLikeASet ==
  /\ \A i \in Bits : TestBit(words, i) <=> i \in bits
  /\ Count(words) = Cardinality(bits)
  /\ NoneSet(words) <=> bits = {}
  /\ LET d == Decode(words) IN
     /\ Sorted(d) /\ {d[i] : i \in 1..Len(d)} = bits
     /\ bits # {} => \A i \in bits : i <= Highest(words)
  /\ bits \ {W * Size - 1} \subseteq PickAtomic(words) /\ PickAtomic(words) \subseteq bits
  /\ \A k \in 0..(Size - 1) : words[k] # 0 =>
        /\ PickW(words[k]) # {}
        /\ \A i \in PickW(words[k]) : k * W + i \in bits

\* getFreeSlot returns the first bit that is not set, and nullopt only when all are set.
FreeSlotIsFirst ==
  IF bits = Bits THEN FreeSlot(words) = -1
  ELSE FreeSlot(words) \in Bits \ bits /\ \A i \in Bits \ bits : FreeSlot(words) <= i

\* applyForAll meets, once and in order, every bit that stays set during the scan, and none that was
\* never set during it, although other threads set and reset bits.
ScanSeesStableBits ==
  /\ Sorted(scan.out)
  /\ {scan.out[i] : i \in 1..Len(scan.out)} \subseteq seen
  /\ ~ Scanning => \A i \in stable : (\E j \in 1..Len(scan.out) : scan.out[j] = i) \/ scan = Idle
=============================================================================
