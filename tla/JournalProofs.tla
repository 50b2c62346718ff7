---------------------------- MODULE JournalProofs ----------------------------
(***************************************************************************)
(* Proofs about Journal for any processes, any number of records and any    *)
(* number of kills, outages and full disks, as long as no resume is started *)
(* while another process has the journal: the type invariant, that a torn   *)
(* tail is always recoverable and a cut tail always kept, and that the      *)
(* journal implements AppendLog.                                            *)
(*                                                                         *)
(* The reader finds a chain in the file by trying; the proofs say which one *)
(* it finds.  A file reads as a chain if it begins with the cells of its    *)
(* records, slot after slot: whatever reads off a file is a prefix of what  *)
(* read_and_verify_chain returns.                                           *)
(***************************************************************************)
EXTENDS Journal, SequenceTheorems, WellFoundedInduction, TLAPS

(* Where the slot behind n records begins. *)
Off(n) == n * Width

(* The file begins with the records of chain c. *)
Reads(f, c) ==
  /\ Off(Len(c)) <= Len(f)
  /\ \A n \in 1 .. Len(c) : \A k \in 1 .. Width :
       f[Off(n - 1) + k] = Cell(k, c[n], SubSeq(c, 1, n - 1))

(* The writes of an append: three, four with a signature, the body second. *)
LEMMA Widths ==
  /\ Width \in {3, 4}
  /\ \A k \in 1 .. Width : Parts[k] \in {"len", "body", "hash", "sig"}
  /\ Parts[2] = "body"
<1>1. CASE Sealed
  <2>1. Parts = <<"len", "body", "hash", "sig">>  BY <1>1 DEF Parts
  <2>2. Width = 4  BY <2>1 DEF Width
  <2> QED BY <2>1, <2>2
<1>2. CASE ~Sealed
  <2>1. Parts = <<"len", "body", "hash">>  BY <1>2 DEF Parts
  <2>2. Width = 3  BY <2>1 DEF Width
  <2> QED BY <2>1, <2>2
<1> QED BY <1>1, <1>2

(* Slots follow each other: the arithmetic of three and four cells a        *)
(* record.                                                                  *)
LEMMA Offsets ==
  /\ Off(0) = 0
  /\ \A n \in Nat : Off(n) \in Nat /\ Off(n + 1) = Off(n) + Width
  /\ \A n, m \in Nat : /\ n <= m <=> Off(n) <= Off(m)
                       /\ n < m => Off(n) + Width <= Off(m)
<1>1. CASE Width = 3  BY <1>1 DEF Off
<1>2. CASE Width = 4  BY <1>2 DEF Off
<1> QED BY <1>1, <1>2, Widths

LEMMA OffNat == ASSUME NEW n \in Nat PROVE Off(n) \in Nat /\ Off(n + 1) = Off(n) + Width
BY Offsets

LEMMA OffBelow ==
  ASSUME NEW n \in Nat, NEW m \in Nat, n < m
  PROVE  Off(n) + Width <= Off(m) /\ Off(n) \in Nat /\ Off(m) \in Nat
BY Offsets

LEMMA OffBack ==
  ASSUME NEW n \in Nat, NEW m \in Nat, Off(n) < Off(m)
  PROVE  n < m
<1>1. n >= m <=> Off(n) >= Off(m)  BY Offsets
<1>2. Off(n) \in Nat /\ Off(m) \in Nat  BY OffNat
<1> QED BY <1>1, <1>2

(* Every cell lies in one slot, and SlotOf: the one that division finds. *)
LEMMA Slots ==
  ASSUME NEW i \in Nat \ {0}
  PROVE  \E n \in Nat : \E k \in 1 .. Width : i = Off(n) + k
<1>1. CASE Width = 3
  <2>1. (i - 1) \div 3 \in Nat /\ ((i - 1) % 3) + 1 \in 1 .. 3
        /\ i = ((i - 1) \div 3) * 3 + (((i - 1) % 3) + 1)
    OBVIOUS
  <2> QED BY <2>1, <1>1 DEF Off
<1>2. CASE Width = 4
  <2>1. (i - 1) \div 4 \in Nat /\ ((i - 1) % 4) + 1 \in 1 .. 4
        /\ i = ((i - 1) \div 4) * 4 + (((i - 1) % 4) + 1)
    OBVIOUS
  <2> QED BY <2>1, <1>2 DEF Off
<1> QED BY <1>1, <1>2, Widths

LEMMA SlotOf ==
  ASSUME NEW n \in Nat, NEW k \in 1 .. Width, NEW i, i = Off(n) + k
  PROVE  (i - 1) \div Width = n /\ (i - 1) % Width = k - 1
<1>1. CASE Width = 3
  <2>1. (n * 3 + k - 1) \div 3 = n /\ (n * 3 + k - 1) % 3 = k - 1  BY <1>1
  <2> QED BY <2>1, <1>1 DEF Off
<1>2. CASE Width = 4
  <2>1. (n * 4 + k - 1) \div 4 = n /\ (n * 4 + k - 1) % 4 = k - 1  BY <1>2
  <2> QED BY <2>1, <1>2 DEF Off
<1> QED BY <1>1, <1>2, Widths

(* Spell, slot by slot. *)
LEMMA SpeltInSlots ==
  ASSUME NEW c \in Chain, NEW n \in 1 .. Len(c), NEW k \in 1 .. Width
  PROVE  /\ Off(n - 1) + k \in 1 .. Off(Len(c))
         /\ Spell(c)[Off(n - 1) + k] = Cell(k, c[n], SubSeq(c, 1, n - 1))
<1>1. n - 1 \in Nat /\ Len(c) \in Nat /\ n - 1 < Len(c) /\ Width \in Nat  BY Widths DEF Chain
<1>2. Off(n - 1) + k \in 1 .. Off(Len(c))
  <2>1. Off(n - 1) + Width <= Off(Len(c)) /\ Off(n - 1) \in Nat /\ Off(Len(c)) \in Nat
    BY <1>1, OffBelow
  <2> QED BY <2>1, <1>1
<1>3. Off(n - 1) + k \in 1 .. Len(c) * Width  BY <1>2 DEF Off
<1>3a. PICK i \in 1 .. Len(c) * Width : i = Off(n - 1) + k  BY <1>3
<1>4. (i - 1) \div Width = n - 1 /\ (i - 1) % Width = k - 1  BY <1>1, <1>3a, SlotOf
<1>5. (n - 1) + 1 = n /\ (k - 1) + 1 = k  BY <1>1
<1>6. Spell(c)[i] = Cell((k - 1) + 1, c[(n - 1) + 1], SubSeq(c, 1, n - 1))
  <2>1. Spell(c) = [j \in 1 .. Len(c) * Width |->
          Cell(((j - 1) % Width) + 1, c[((j - 1) \div Width) + 1], SubSeq(c, 1, (j - 1) \div Width))]
    BY DEF Spell
  <2>2. Spell(c)[i] = Cell(((i - 1) % Width) + 1, c[((i - 1) \div Width) + 1], SubSeq(c, 1, (i - 1) \div Width))
    BY <2>1, Zenon
  <2> QED BY <2>2, <1>4
<1> QED BY <1>2, <1>3a, <1>5, <1>6

(* A file reads as a chain exactly when the cells of the chain are its      *)
(* first ones.                                                              *)
LEMMA ReadsIsSpelt ==
  ASSUME NEW f \in Seq(CellSet), NEW c \in Chain, Off(Len(c)) <= Len(f)
  PROVE  SubSeq(f, 1, Off(Len(c))) = Spell(c) <=> Reads(f, c)
<1>0. Len(c) \in Nat /\ Len(f) \in Nat  BY DEF Chain
<1>1. Off(Len(c)) \in Nat /\ Len(f) \in Nat /\ Len(c) \in Nat  BY <1>0, OffNat
<1>2. SubSeq(f, 1, Off(Len(c))) = [i \in 1 .. Off(Len(c)) |-> f[i]]
  <2> DEFINE s == SubSeq(f, 1, Off(Len(c)))
  <2>1. s \in Seq(CellSet) /\ Len(s) = Off(Len(c)) /\ \A i \in 1 .. Off(Len(c)) : s[i] = f[i]
    BY <1>1
  <2>2. s = [i \in 1 .. Len(s) |-> s[i]]  BY <2>1
  <2> QED BY <2>1, <2>2
<1>3. ASSUME SubSeq(f, 1, Off(Len(c))) = Spell(c) PROVE Reads(f, c)
  <2>1. ASSUME NEW n \in 1 .. Len(c), NEW k \in 1 .. Width
        PROVE  f[Off(n - 1) + k] = Cell(k, c[n], SubSeq(c, 1, n - 1))
    <3>1. Off(n - 1) + k \in 1 .. Off(Len(c)) /\ Spell(c)[Off(n - 1) + k] = Cell(k, c[n], SubSeq(c, 1, n - 1))
      BY SpeltInSlots
    <3> HIDE DEF Cell
    <3> QED BY <3>1, <1>2, <1>3
  <2> QED BY <2>1 DEF Reads
<1>4. ASSUME Reads(f, c) PROVE SubSeq(f, 1, Off(Len(c))) = Spell(c)
  <2>1. ASSUME NEW i \in 1 .. Off(Len(c)) PROVE f[i] = Spell(c)[i]
    <3>1. PICK n \in Nat, k \in 1 .. Width : i = Off(n) + k
      <4>1. i \in Nat \ {0}  BY <1>1
      <4> QED BY <4>1, Slots
    <3>2. n < Len(c)
      <4>0. Off(n) \in Nat  BY OffNat
      <4>1. Off(n) < Off(Len(c))  BY <3>1, <1>1, <4>0, Widths
      <4> QED BY <4>1, <1>1, OffBack
    <3>3. n + 1 \in 1 .. Len(c) /\ (n + 1) - 1 = n  BY <3>2, <1>1
    <3>4. f[i] = Cell(k, c[n + 1], SubSeq(c, 1, n))  BY <3>1, <3>3, <1>4 DEF Reads
    <3>5. Spell(c)[i] = Cell(k, c[n + 1], SubSeq(c, 1, n))  BY <3>1, <3>3, SpeltInSlots
    <3> QED BY <3>4, <3>5
  <2>2. Spell(c) = [i \in 1 .. Off(Len(c)) |-> Spell(c)[i]]  BY DEF Spell, Off
  <2> QED BY <1>2, <2>1, <2>2
<1> QED BY <1>3, <1>4

(* Slots that fit into a file. *)
LEMMA Room ==
  ASSUME NEW f \in Seq(CellSet), NEW n \in Nat
  PROVE  n \in 0 .. Len(f) \div Width <=> Off(n) <= Len(f)
<1>1. CASE Width = 3
  <2>1. n <= Len(f) \div 3 <=> n * 3 <= Len(f)  OBVIOUS
  <2>2. Len(f) \div 3 \in Nat  OBVIOUS
  <2> QED BY <2>1, <2>2, <1>1 DEF Off
<1>2. CASE Width = 4
  <2>1. n <= Len(f) \div 4 <=> n * 4 <= Len(f)  OBVIOUS
  <2>2. Len(f) \div 4 \in Nat  OBVIOUS
  <2> QED BY <2>1, <2>2, <1>2 DEF Off
<1> QED BY <1>1, <1>2, Widths

(* The records that the first n bodies claim. *)
Word(f, n) == [i \in 1 .. n |-> Claimed(f, i)[1]]

(* The body of a slot names its record. *)
LEMMA BodyTells ==
  ASSUME NEW f \in Seq(CellSet), NEW c \in Chain, Reads(f, c), NEW n \in 1 .. Len(c)
  PROVE  Claimed(f, n) = <<c[n]>> /\ c[n] \in Entry
<1>1. n \in Nat /\ n - 1 \in Nat /\ 2 \in 1 .. Width /\ c[n] \in Entry  BY Widths DEF Chain
<1>2. f[Off(n - 1) + 2] = Cell(2, c[n], SubSeq(c, 1, n - 1))  BY <1>1 DEF Reads
<1>3. Claimed(f, n) = f[Off(n - 1) + 2].rec  BY DEF Claimed, Off
<1> QED BY <1>1, <1>2, <1>3 DEF Cell

(* What reads off a file is what the reader tries, and (ChainsRead) what it *)
(* accepts reads off the file.                                              *)
LEMMA ReadsChains ==
  ASSUME NEW f \in Seq(CellSet), NEW c \in Chain, Reads(f, c)
  PROVE  Chains(f, Len(c)) /\ c = Word(f, Len(c))
<1>1. Len(c) \in Nat /\ Off(Len(c)) <= Len(f)  BY DEF Chain, Reads
<1>2. \A i \in 1 .. Len(c) : Claimed(f, i) = <<c[i]>>  BY BodyTells
<1>3. c = Word(f, Len(c))
  <2>1. c = [i \in 1 .. Len(c) |-> c[i]]  BY DEF Chain
  <2>2. \A i \in 1 .. Len(c) : c[i] = Claimed(f, i)[1]  BY <1>2
  <2> QED BY <2>1, <2>2 DEF Word
<1>4. SubSeq(f, 1, Len(c) * Width) = Spell(c)
  <2>1. SubSeq(f, 1, Off(Len(c))) = Spell(c)  BY <1>1, ReadsIsSpelt
  <2> QED BY <2>1 DEF Off
<1>5. Len(c) * Width <= Len(f)  BY <1>1 DEF Off
<1>6. \A i \in 1 .. Len(c) : Claimed(f, i) # <<>>  BY <1>2
<1> QED BY <1>3, <1>4, <1>5, <1>6 DEF Chains, Word

LEMMA ChainsRead ==
  ASSUME NEW f \in Seq(CellSet), NEW n \in Nat, Chains(f, n)
  PROVE  Word(f, n) \in Chain /\ Len(Word(f, n)) = n /\ Reads(f, Word(f, n))
<1>1. Off(n) \in Nat /\ Off(n) <= Len(f)  BY OffNat DEF Chains, Off
<1>2. ASSUME NEW i \in 1 .. n PROVE Claimed(f, i)[1] \in Entry
  <2>1. i - 1 \in Nat /\ i - 1 < n /\ 2 \in 1 .. Width  BY Widths
  <2>2. Off(i - 1) + Width <= Off(n) /\ Off(i - 1) \in Nat  BY <2>1, OffBelow
  <2>3. Off(i - 1) + 2 \in 1 .. Len(f)  BY <1>1, <2>1, <2>2, Widths
  <2>4. f[Off(i - 1) + 2] \in CellSet  BY <2>3
  <2>4a. f[Off(i - 1) + 2].rec \in Seq(Entry)  BY <2>4 DEF CellSet
  <2>4b. Claimed(f, i) \in Seq(Entry)  BY <2>4a DEF Claimed, Off
  <2>5. Claimed(f, i) # <<>>  BY DEF Chains
  <2> QED BY <2>4b, <2>5
<1>3. Word(f, n) \in Chain /\ Len(Word(f, n)) = n  BY <1>2, IsASeq DEF Word, Chain
<1>4. SubSeq(f, 1, Off(n)) = Spell(Word(f, n))  BY DEF Chains, Word, Off
<1>5. Reads(f, Word(f, n))  BY <1>1, <1>3, <1>4, ReadsIsSpelt
<1> QED BY <1>3, <1>5

LEMMA NothingReads ==
  ASSUME NEW f \in Seq(CellSet)
  PROVE  <<>> \in Chain /\ Reads(f, <<>>)
<1>1. Len(<<>>) = 0 /\ Off(0) = 0 /\ Len(f) \in Nat  BY Offsets
<1> QED BY <1>1 DEF Chain, Reads

(* A nonempty set of numbers below a bound has a largest one. *)
LEMMA Largest ==
  ASSUME NEW S, S \subseteq Nat, S # {}, NEW b \in Nat, \A n \in S : n <= b
  PROVE  \E n \in S : \A m \in S : m <= n
<1> DEFINE T == {b - n : n \in S}
<1>1. T \subseteq Nat /\ T # {}
  <2>1. \A n \in S : b - n \in Nat  OBVIOUS
  <2>2. PICK n \in S : TRUE  OBVIOUS
  <2>3. b - n \in T  OBVIOUS
  <2> QED BY <2>1, <2>3
<1>2. PICK x \in T : \A y \in T : ~ (<<y, x>> \in OpToRel(<, Nat))
  <2> HIDE DEF T
  <2> QED BY <1>1, NatLessThanWellFounded, WFMin
<1>3. \A y \in T : ~ (y < x)  BY <1>1, <1>2 DEF OpToRel
<1>4. PICK n \in S : x = b - n  OBVIOUS
<1>5. \A m \in S : m <= n
  <2> SUFFICES ASSUME NEW m \in S PROVE m <= n  OBVIOUS
  <2>1. b - m \in T  OBVIOUS
  <2>2. ~ (b - m < b - n)  BY <1>3, <1>4, <2>1
  <2> QED BY <2>2
<1> QED BY <1>5

(* The reader goes as far as the chain goes. *)
LEMMA CountIsLargest ==
  ASSUME NEW f \in Seq(CellSet)
  PROVE  /\ VerifiedCount(f) \in Nat
         /\ Chains(f, VerifiedCount(f))
         /\ \A m \in Nat : Chains(f, m) => m <= VerifiedCount(f)
<1> DEFINE S == {n \in Nat : Chains(f, n)}
           top == Len(f) \div Width
<1>0. Len(f) \in Nat /\ top \in Nat
  <2>1. CASE Width = 3  BY <2>1
  <2>2. CASE Width = 4  BY <2>2
  <2> QED BY <2>1, <2>2, Widths
<1>1. \A n \in Nat : Chains(f, n) => n \in 0 .. top
  <2> SUFFICES ASSUME NEW n \in Nat, Chains(f, n) PROVE n \in 0 .. top  OBVIOUS
  <2>1. Off(n) <= Len(f)  BY DEF Chains, Off
  <2> QED BY <2>1, Room
<1>2. 0 \in S
  <2>1. Chains(f, Len(<<>>))  BY NothingReads, ReadsChains
  <2> QED BY <2>1
<1>3. PICK n \in S : \A m \in S : m <= n
  <2>1. S \subseteq Nat /\ S # {} /\ \A m \in S : m <= top  BY <1>0, <1>1, <1>2
  <2> HIDE DEF S, top
  <2> QED BY <1>0, <2>1, Largest
<1>4. n \in 0 .. top /\ Chains(f, n) /\ \A m \in n + 1 .. top : ~Chains(f, m)
  BY <1>0, <1>1, <1>3
<1>5. VerifiedCount(f) \in 0 .. top /\ Chains(f, VerifiedCount(f))
      /\ \A m \in VerifiedCount(f) + 1 .. top : ~Chains(f, m)
  BY <1>4 DEF VerifiedCount
<1> QED BY <1>0, <1>1, <1>5

(* What read_and_verify_chain returns reads off the file, and nothing       *)
(* longer does.                                                             *)
LEMMA VerifiedReads ==
  ASSUME NEW f \in Seq(CellSet)
  PROVE  /\ Verified(f) \in Chain /\ Reads(f, Verified(f))
         /\ Len(Verified(f)) = VerifiedCount(f)
         /\ \A c \in Chain : Reads(f, c) => Len(c) <= Len(Verified(f))
<1>1. Verified(f) = Word(f, VerifiedCount(f))  BY DEF Verified, Word
<1>2. \A c \in Chain : Reads(f, c) => Len(c) \in Nat /\ Chains(f, Len(c))  BY ReadsChains DEF Chain
<1> QED BY <1>1, <1>2, CountIsLargest, ChainsRead

(* Two chains that read off one file agree as far as both go. *)
LEMMA OneReading ==
  ASSUME NEW f \in Seq(CellSet), NEW c \in Chain, NEW d \in Chain,
         Reads(f, c), Reads(f, d), Len(c) <= Len(d)
  PROVE  c = SubSeq(d, 1, Len(c))
<1>0. Len(c) \in Nat /\ Len(d) \in Nat  BY DEF Chain
<1>1. ASSUME NEW n \in 1 .. Len(c) PROVE c[n] = d[n]
  <2>1. n \in 1 .. Len(d)  BY <1>0
  <2>2. Claimed(f, n) = <<c[n]>>  BY BodyTells
  <2>3. Claimed(f, n) = <<d[n]>>  BY <2>1, BodyTells
  <2> QED BY <2>2, <2>3
<1>2. c \in Seq(Entry) /\ d \in Seq(Entry)  BY DEF Chain
<1>3. SubSeq(d, 1, Len(c)) \in Seq(Entry) /\ Len(SubSeq(d, 1, Len(c))) = Len(c)
      /\ \A n \in 1 .. Len(c) : SubSeq(d, 1, Len(c))[n] = d[n]
  BY <1>0, <1>2
<1> QED BY <1>1, <1>2, <1>3, SeqEqual

(* A prefix of what reads off a file reads off it as well. *)
LEMMA PrefixReads ==
  ASSUME NEW f \in Seq(CellSet), NEW c \in Chain, Reads(f, c), NEW m \in 0 .. Len(c)
  PROVE  SubSeq(c, 1, m) \in Chain /\ Len(SubSeq(c, 1, m)) = m /\ Reads(f, SubSeq(c, 1, m))
<1> DEFINE d == SubSeq(c, 1, m)
<1>1. c \in Seq(Entry) /\ Len(c) \in Nat /\ m \in Nat /\ m <= Len(c)  BY DEF Chain
<1>2. d \in Seq(Entry) /\ Len(d) = m /\ \A n \in 1 .. m : d[n] = c[n]  BY <1>1
<1>3. Off(m) <= Len(f)
  <2>1. Off(m) <= Off(Len(c)) /\ Off(m) \in Nat /\ Off(Len(c)) \in Nat  BY <1>1, Offsets
  <2> QED BY <2>1 DEF Reads
<1>4. ASSUME NEW n \in 1 .. m PROVE SubSeq(d, 1, n - 1) = SubSeq(c, 1, n - 1)
  <2>1. n - 1 \in Nat /\ n - 1 <= m  OBVIOUS
  <2> HIDE DEF d
  <2>2. SubSeq(d, 1, n - 1) \in Seq(Entry) /\ Len(SubSeq(d, 1, n - 1)) = n - 1
        /\ \A j \in 1 .. n - 1 : SubSeq(d, 1, n - 1)[j] = d[j]
    BY <2>1, <1>2
  <2>3. SubSeq(c, 1, n - 1) \in Seq(Entry) /\ Len(SubSeq(c, 1, n - 1)) = n - 1
        /\ \A j \in 1 .. n - 1 : SubSeq(c, 1, n - 1)[j] = c[j]
    BY <2>1, <1>1
  <2> QED BY <2>1, <2>2, <2>3, <1>2, SeqEqual
<1>5. ASSUME NEW n \in 1 .. m, NEW k \in 1 .. Width
      PROVE  f[Off(n - 1) + k] = Cell(k, d[n], SubSeq(d, 1, n - 1))
  <2> HIDE DEF d
  <2>1. n \in 1 .. Len(c)  BY <1>1
  <2>2. f[Off(n - 1) + k] = Cell(k, c[n], SubSeq(c, 1, n - 1))  BY <2>1 DEF Reads
  <2> QED BY <2>2, <1>2, <1>4
<1> HIDE DEF d
<1>6. Reads(f, d)  BY <1>2, <1>3, <1>5 DEF Reads
<1> QED BY <1>2, <1>6 DEF d, Chain

(* What reads off a file and leaves no room for another record is verified. *)
LEMMA VerifiedIs ==
  ASSUME NEW f \in Seq(CellSet), NEW c \in Chain, Reads(f, c),
         \A d \in Chain : Reads(f, d) => Len(d) <= Len(c)
  PROVE  Verified(f) = c
<1> DEFINE v == Verified(f)
<1>1. v \in Chain /\ Reads(f, v) /\ Len(c) <= Len(v)  BY VerifiedReads
<1>2. Len(v) \in Nat /\ Len(c) \in Nat /\ v \in Seq(Entry)  BY <1>1 DEF Chain
<1> HIDE DEF v
<1>3. Len(v) = Len(c)  BY <1>1, <1>2
<1>4. c = SubSeq(v, 1, Len(v))  BY <1>1, <1>2, <1>3, OneReading
<1>5. SubSeq(v, 1, Len(v)) = v  BY <1>2, SubSeqFull
<1> QED BY <1>4, <1>5 DEF v

(* Whatever reads off a file is a prefix of what is verified. *)
LEMMA VerifiedPrefix ==
  ASSUME NEW f \in Seq(CellSet), NEW c \in Chain, Reads(f, c)
  PROVE  Len(c) <= Len(Verified(f)) /\ c = SubSeq(Verified(f), 1, Len(c))
BY VerifiedReads, OneReading

(* A cell is never taken for a hole or a piece. *)
LEMMA Cells ==
  /\ Zero \in CellSet /\ Piece \in CellSet
  /\ \A k \in 1 .. Width : \A e \in Entry : \A c \in Chain :
       /\ Cell(k, e, c) \in CellSet /\ Cell(k, e, c) # Zero /\ Cell(k, e, c) # Piece
<1>1. <<>> \in Seq(Entry)  OBVIOUS
<1>2. \A e \in Entry : <<e>> \in Seq(Entry)  OBVIOUS
<1> QED BY <1>1, <1>2, Widths DEF Cell, Zero, Piece, CellSet, Chain

(* A file that repeats the records of another holds them too. *)
LEMMA SameStart ==
  ASSUME NEW f \in Seq(CellSet), NEW g \in Seq(CellSet), NEW c \in Chain, Reads(f, c),
         Off(Len(c)) <= Len(g), \A i \in 1 .. Off(Len(c)) : g[i] = f[i]
  PROVE  Reads(g, c)
<1>1. ASSUME NEW n \in 1 .. Len(c), NEW k \in 1 .. Width
      PROVE  g[Off(n - 1) + k] = Cell(k, c[n], SubSeq(c, 1, n - 1))
  <2>1. Off(n - 1) + k \in 1 .. Off(Len(c))  BY SpeltInSlots
  <2>2. f[Off(n - 1) + k] = Cell(k, c[n], SubSeq(c, 1, n - 1))  BY DEF Reads
  <2> QED BY <2>1, <2>2
<1> QED BY <1>1 DEF Reads

(* No hole and no piece lies in what reads off a file. *)
LEMMA CellOf ==
  ASSUME NEW f \in Seq(CellSet), NEW c \in Chain, Reads(f, c), NEW i \in 1 .. Off(Len(c))
  PROVE  f[i] # Zero /\ f[i] # Piece
<1>0. Len(c) \in Nat /\ c \in Seq(Entry)  BY DEF Chain
<1>1. Off(Len(c)) \in Nat  BY <1>0, OffNat
<1>2. PICK n \in Nat : \E k \in 1 .. Width : i = Off(n) + k
  <2>1. i \in Nat \ {0}  BY <1>1
  <2> QED BY <2>1, Slots
<1>3. PICK k \in 1 .. Width : i = Off(n) + k  BY <1>2
<1>4. n < Len(c)
  <2>1. Off(n) \in Nat  BY OffNat
  <2>2. Off(n) < Off(Len(c))  BY <1>1, <1>3, <2>1, Widths
  <2> QED BY <2>2, <1>0, OffBack
<1>5. n + 1 \in 1 .. Len(c) /\ (n + 1) - 1 = n  BY <1>0, <1>4
<1>6. f[i] = Cell(k, c[n + 1], SubSeq(c, 1, n))  BY <1>3, <1>5 DEF Reads
<1>7. SubSeq(c, 1, n) \in Chain
  <2>1. n \in 0 .. Len(c)  BY <1>0, <1>4
  <2> QED BY <2>1, PrefixReads
<1>8. c[n + 1] \in Entry  BY <1>0, <1>5
<1> QED BY <1>6, <1>7, <1>8, Cells

(* Where a file ends decides which chain is verified. *)
LEMMA LongerNeedsRoom ==
  ASSUME NEW f \in Seq(CellSet), NEW c \in Chain, NEW d \in Chain, Reads(f, d), Len(c) < Len(d)
  PROVE  /\ Off(Len(c)) + Width <= Off(Len(d)) /\ Off(Len(d)) <= Len(f)
         /\ Off(Len(c)) \in Nat /\ Off(Len(d)) \in Nat
<1>1. Len(c) \in Nat /\ Len(d) \in Nat  BY DEF Chain
<1> QED BY <1>1, OffBelow DEF Reads

LEMMA VerifiedWhenShort ==
  ASSUME NEW f \in Seq(CellSet), NEW c \in Chain, Reads(f, c), Len(f) < Off(Len(c)) + Width
  PROVE  Verified(f) = c
<1>0. Len(c) \in Nat /\ Len(f) \in Nat /\ Width \in Nat  BY Widths DEF Chain
<1>1. ASSUME NEW d \in Chain, Reads(f, d) PROVE Len(d) <= Len(c)
  <2>0. Len(d) \in Nat  BY DEF Chain
  <2>1. CASE Len(c) < Len(d)
    <3>1. Off(Len(c)) + Width <= Off(Len(d)) /\ Off(Len(d)) <= Len(f)
          /\ Off(Len(c)) \in Nat /\ Off(Len(d)) \in Nat
      BY <1>1, <2>1, LongerNeedsRoom
    <3> QED BY <3>1, <1>0
  <2> QED BY <2>0, <2>1, <1>0
<1> QED BY <1>1, VerifiedIs

LEMMA VerifiedWhenTorn ==
  ASSUME NEW f \in Seq(CellSet), NEW c \in Chain, Reads(f, c), Len(f) > 0,
         Len(f) <= Off(Len(c)) + Width, f[Len(f)] = Piece
  PROVE  Verified(f) = c
<1>0. Len(c) \in Nat /\ Len(f) \in Nat /\ Width \in Nat  BY Widths DEF Chain
<1>1. ASSUME NEW d \in Chain, Reads(f, d) PROVE Len(d) <= Len(c)
  <2>0. Len(d) \in Nat  BY DEF Chain
  <2>1. CASE Len(c) < Len(d)
    <3>1. Off(Len(c)) + Width <= Off(Len(d)) /\ Off(Len(d)) <= Len(f)
          /\ Off(Len(c)) \in Nat /\ Off(Len(d)) \in Nat
      BY <1>1, <2>1, LongerNeedsRoom
    <3>2. Off(Len(d)) = Len(f)  BY <3>1, <1>0
    <3>3. Len(f) \in 1 .. Off(Len(d))  BY <3>1, <3>2, <1>0
    <3>4. f[Len(f)] # Piece  BY <3>3, <1>1, CellOf
    <3> QED BY <3>4
  <2> QED BY <2>0, <2>1, <1>0
<1> QED BY <1>1, VerifiedIs

LEMMA VerifiedWhenWhole ==
  ASSUME NEW f \in Seq(CellSet), NEW c \in Chain, NEW e \in Entry, Reads(f, c),
         Len(f) = Off(Len(c)) + Width,
         \A k \in 1 .. Width : f[Off(Len(c)) + k] = Cell(k, e, c)
  PROVE  Append(c, e) \in Chain /\ Reads(f, Append(c, e)) /\ Verified(f) = Append(c, e)
<1> DEFINE a == Append(c, e)
<1>0. Len(c) \in Nat /\ Len(f) \in Nat /\ Width \in Nat \ {0} /\ c \in Seq(Entry)  BY Widths DEF Chain
<1>1. a \in Seq(Entry) /\ Len(a) = Len(c) + 1 /\ a[Len(c) + 1] = e /\ \A i \in 1 .. Len(c) : a[i] = c[i]
  BY <1>0
<1> HIDE DEF a
<1>2. Off(Len(a)) = Len(f) /\ Off(Len(c)) \in Nat  BY <1>0, <1>1, OffNat
<1>3. ASSUME NEW n \in 1 .. Len(c) + 1 PROVE SubSeq(a, 1, n - 1) = SubSeq(c, 1, n - 1)
  <2>1. n - 1 \in Nat /\ n - 1 <= Len(c)  BY <1>0
  <2>2. SubSeq(a, 1, n - 1) \in Seq(Entry) /\ Len(SubSeq(a, 1, n - 1)) = n - 1
        /\ \A j \in 1 .. n - 1 : SubSeq(a, 1, n - 1)[j] = a[j]
    BY <2>1, <1>1
  <2>3. SubSeq(c, 1, n - 1) \in Seq(Entry) /\ Len(SubSeq(c, 1, n - 1)) = n - 1
        /\ \A j \in 1 .. n - 1 : SubSeq(c, 1, n - 1)[j] = c[j]
    BY <2>1, <1>0
  <2> QED BY <2>1, <2>2, <2>3, <1>0, <1>1, SeqEqual
<1>4. SubSeq(c, 1, Len(c)) = c  BY <1>0, SubSeqFull
<1>5. ASSUME NEW n \in 1 .. Len(a), NEW k \in 1 .. Width
      PROVE  f[Off(n - 1) + k] = Cell(k, a[n], SubSeq(a, 1, n - 1))
  <2>1. CASE n \in 1 .. Len(c)
    <3>1. f[Off(n - 1) + k] = Cell(k, c[n], SubSeq(c, 1, n - 1))  BY <2>1 DEF Reads
    <3> QED BY <3>1, <2>1, <1>0, <1>1, <1>3
  <2>2. CASE n = Len(c) + 1
    <3>1. n - 1 = Len(c)  BY <2>2, <1>0
    <3>2. SubSeq(a, 1, n - 1) = c  BY <3>1, <2>2, <1>0, <1>3, <1>4
    <3> QED BY <3>1, <3>2, <2>2, <1>1
  <2> QED BY <2>1, <2>2, <1>0, <1>1
<1>6. a \in Chain /\ Reads(f, a)  BY <1>0, <1>1, <1>2, <1>5 DEF Reads, Chain
<1>7. Len(f) < Off(Len(a)) + Width  BY <1>0, <1>2
<1>8. Verified(f) = a  BY <1>6, <1>7, VerifiedWhenShort
<1> QED BY <1>6, <1>8 DEF a

(* A cell written behind a chain takes nothing from it. *)
LEMMA AppendReads ==
  ASSUME NEW f \in Seq(CellSet), NEW x \in CellSet, NEW c \in Chain, Reads(f, c)
  PROVE  Append(f, x) \in Seq(CellSet) /\ Reads(Append(f, x), c)
<1> DEFINE g == Append(f, x)
<1>1. g \in Seq(CellSet) /\ Len(g) = Len(f) + 1 /\ \A i \in 1 .. Len(f) : g[i] = f[i]  OBVIOUS
<1>2. Off(Len(c)) \in Nat /\ Off(Len(c)) <= Len(f) /\ Len(f) \in Nat
  <2>1. Len(c) \in Nat  BY DEF Chain
  <2> QED BY <2>1, OffNat DEF Reads
<1> HIDE DEF g
<1>3. Off(Len(c)) <= Len(g) /\ \A i \in 1 .. Off(Len(c)) : g[i] = f[i]  BY <1>1, <1>2
<1>4. Reads(g, c)  BY <1>1, <1>3, SameStart
<1> QED BY <1>1, <1>4 DEF g

(* The cut leaves exactly the verified records. *)
LEMMA CutReads ==
  ASSUME NEW f \in Seq(CellSet), NEW v \in Chain, v = Verified(f),
         NEW g \in Seq(CellSet), g = SubSeq(f, 1, Off(Len(v)))
  PROVE  /\ Len(g) = Off(Len(v))
         /\ Verified(g) = v /\ Reads(g, v)
<1>1. Reads(f, v)  BY VerifiedReads
<1>2. Len(v) \in Nat  BY DEF Chain
<1>3. PICK o \in Nat : o = Off(Len(v))  BY <1>2, OffNat
<1>4. o <= Len(f)  BY <1>1, <1>3 DEF Reads
<1>5. SubSeq(f, 1, o) \in Seq(CellSet) /\ Len(SubSeq(f, 1, o)) = o
      /\ \A i \in 1 .. o : SubSeq(f, 1, o)[i] = f[i]
  BY <1>4
<1>6. g \in Seq(CellSet) /\ Len(g) = Off(Len(v)) /\ \A i \in 1 .. Off(Len(v)) : g[i] = f[i]
  BY <1>3, <1>5
<1>7. Off(Len(v)) <= Len(g)  BY <1>3, <1>6
<1>8. Reads(g, v)  BY <1>1, <1>6, <1>7, SameStart
<1>9. Verified(g) = v
  <2>1. Len(g) < Off(Len(v)) + Width  BY <1>3, <1>6, Widths
  <2> QED BY <1>6, <1>8, <2>1, VerifiedWhenShort
<1> QED BY <1>6, <1>8, <1>9

(* The cut takes nothing from what reads off the file. *)
LEMMA CutKeeps ==
  ASSUME NEW f \in Seq(CellSet), NEW v \in Chain, v = Verified(f),
         NEW g \in Seq(CellSet), Reads(g, v), NEW c \in Chain, Reads(f, c)
  PROVE  Reads(g, c)
<1>1. Len(v) \in Nat /\ Len(c) \in Nat /\ Len(c) <= Len(v) /\ c = SubSeq(v, 1, Len(c))
  BY VerifiedPrefix DEF Chain
<1>2. Len(c) \in 0 .. Len(v)  BY <1>1
<1>3. Reads(g, SubSeq(v, 1, Len(c)))  BY <1>2, PrefixReads
<1> QED BY <1>1, <1>3

(* The tail behind the verified records, cell by cell. *)
LEMMA RestIs ==
  ASSUME NEW f \in Seq(CellSet)
  PROVE  /\ Len(Rest(f)) = Len(f) - Off(Len(Verified(f))) /\ Rest(f) \in Seq(CellSet)
         /\ Off(Len(Verified(f))) \in Nat /\ Off(Len(Verified(f))) <= Len(f)
         /\ \A i \in 1 .. Len(Rest(f)) : Rest(f)[i] = f[Off(Len(Verified(f))) + i]
<1>1. Verified(f) \in Chain /\ Reads(f, Verified(f)) /\ Len(Verified(f)) = VerifiedCount(f)
  BY VerifiedReads
<1>2. Len(Verified(f)) \in Nat  BY <1>1 DEF Chain
<1>3. Off(Len(Verified(f))) \in Nat /\ Off(Len(Verified(f))) <= Len(f)  BY <1>1, <1>2, OffNat DEF Reads
<1>4. PICK o \in Nat : o = Off(Len(Verified(f)))  BY <1>3
<1>5. Rest(f) = SubSeq(f, o + 1, Len(f))  BY <1>1, <1>4 DEF Rest, Off
<1>6. o <= Len(f) /\ Len(f) \in Nat  BY <1>3, <1>4
<1>7. \A i \in o + 1 .. Len(f) : f[i] \in CellSet  BY <1>6
<1>8. /\ SubSeq(f, o + 1, Len(f)) \in Seq(CellSet)
      /\ Len(SubSeq(f, o + 1, Len(f))) = IF o + 1 <= Len(f) THEN Len(f) - (o + 1) + 1 ELSE 0
      /\ \A i \in 1 .. Len(f) - (o + 1) + 1 : SubSeq(f, o + 1, Len(f))[i] = f[(o + 1) + i - 1]
  <2>1. o + 1 \in Int /\ Len(f) \in Int  BY <1>6
  <2> QED BY <2>1, <1>7, SubSeqProperties
<1>9. Len(Rest(f)) = Len(f) - o  BY <1>5, <1>6, <1>8
<1>10. \A i \in 1 .. Len(Rest(f)) : Rest(f)[i] = f[o + i]
  <2> SUFFICES ASSUME NEW i \in 1 .. Len(Rest(f)) PROVE Rest(f)[i] = f[o + i]  OBVIOUS
  <2>1. i \in 1 .. Len(f) - (o + 1) + 1 /\ (o + 1) + i - 1 = o + i  BY <1>6, <1>9
  <2>2. Rest(f)[i] = f[(o + 1) + i - 1]  BY <2>1, <1>5, <1>8
  <2> QED BY <2>1, <2>2
<1> QED BY <1>3, <1>4, <1>5, <1>8, <1>9, <1>10

Typed ==
  /\ exists \in {"none", "bare", "ok"}
  /\ file \in Seq(CellSet) /\ durable \in Seq(CellSet) /\ saved \subseteq Seq(CellSet)
  /\ acked \in Chain /\ head \in Chain /\ cur \in Chain
  /\ holder \in Process \cup {Nobody}
  /\ phase \in [Process -> {"out", "create", "read", "locked", "cut", "open"}]
  /\ seen \in [Process -> [chain : Chain, tail : Nat]]
  /\ part \in 0 .. Width + 1
  /\ budget \in [EventKind -> Nat] /\ budget["power"] <= MaxEvents["power"]

(* Processes that hold the device, and what the writer is before it opens. *)
Inside == {"create", "locked", "cut", "open"}

OneAtATime == \A p, q \in Process : phase[p] # "out" /\ phase[q] # "out" => p = q

Holding ==
  /\ \A p \in Process : phase[p] \in Inside => holder = p
  /\ holder = Nobody => head = <<>> /\ part = 0
  /\ \A p \in Process : phase[p] = "create" => head = <<>>
  /\ \A p \in Process : phase[p] \in {"create", "locked", "cut"} => part = 0

Fresh ==
  /\ exists # "ok" => /\ file = <<>> /\ durable = <<>> /\ acked = <<>>
                      /\ \A p \in Process : phase[p] \in {"out", "create"}
  /\ exists = "none" => \A p \in Process : phase[p] = "out"
  /\ \A p \in Process : phase[p] = "create" => exists = "bare"

Control == OneAtATime /\ Holding /\ Fresh

(* An open file is the writer's chain and the writes of its append so far. *)
Sofar == IF part = 0 THEN 0 ELSE part - 1

WriterAtEnd ==
  \A p \in Process : phase[p] = "open" =>
    /\ Reads(file, head) /\ Len(file) = Off(Len(head)) + Sofar
    /\ part > 0 => /\ Len(cur) = 1
                   /\ \A k \in 1 .. part - 1 : file[Off(Len(head)) + k] = Cell(k, cur[1], head)

SeenIsSo ==
  \A p \in Process : phase[p] \in {"read", "locked", "cut"} =>
    /\ seen[p].chain = Verified(file)
    /\ seen[p].tail = Len(file) - Off(Len(Verified(file)))

CutKept == \A p \in Process : phase[p] = "cut" => CutOff(p) \subseteq saved

AckedReads == Reads(file, acked) /\ Reads(durable, acked)

DurableBehind == Reads(file, Verified(durable))

(* Short of an outage, what follows the verified records is at most one     *)
(* record, begun and not finished.                                          *)
TailFits ==
  NoOutage =>
    LET o == Off(Len(Verified(file))) IN
      /\ Len(file) <= o + Width
      /\ Len(file) > o => file[o + 1] # Zero
      /\ Len(file) = o + Width => file[Len(file)] = Piece

Data == WriterAtEnd /\ SeenIsSo /\ CutKept /\ AckedReads /\ DurableBehind /\ TailFits

IInv == Typed /\ Control /\ Data

(* One process at a time: who holds the device, and what was written before *)
(* there was a journal.                                                     *)
LEMMA ControlKept == Typed /\ Control /\ Overlap = FALSE /\ Next => Control'
<1> SUFFICES ASSUME Typed, Control, Overlap = FALSE, Next PROVE Control'
  OBVIOUS
<1>t. phase \in [Process -> {"out", "create", "read", "locked", "cut", "open"}] /\ Nobody \notin Process
  BY JournalAssumption DEF Typed
<1>1. CASE PowerLoss
  <2>1. OneAtATime' /\ Holding'  BY <1>1 DEF PowerLoss, OneAtATime, Holding, Inside
  <2>2. ASSUME exists # "ok" PROVE file' = <<>>
    <3>1. file = <<>> /\ durable = <<>>  BY <2>2 DEF Control, Fresh
    <3>2. Common \in 0 .. 0 /\ Len(file) = 0
      <4>1. Len(file) = 0  BY <3>1
      <4>2. \E n \in 0 .. Len(file) :
              /\ n <= Len(durable) /\ SubSeq(file, 1, n) = SubSeq(durable, 1, n)
              /\ n + 1 <= Len(file) /\ n + 1 <= Len(durable) => file[n + 1] # durable[n + 1]
        BY <3>1
      <4> QED BY <4>1, <4>2 DEF Common
    <3>3. \A n \in Common .. Len(file) : n = 0  BY <3>2
    <3>4. \A g \in Survivors : g = <<>>
      BY <3>1, <3>3 DEF Survivors
    <3> QED BY <3>4, <1>1 DEF PowerLoss
  <2>3. Fresh'  BY <1>1, <2>2 DEF PowerLoss, Control, Fresh
  <2> QED BY <2>1, <2>3 DEF Control
<1>2. ASSUME NEW p \in Process, CreateNew(p) PROVE Control'
  BY <1>t, <1>2 DEF CreateNew, Control, OneAtATime, Holding, Fresh, Inside
<1>3. ASSUME NEW p \in Process, WriteMagic(p) PROVE Control'
  BY <1>t, <1>3 DEF WriteMagic, Control, OneAtATime, Holding, Fresh, Inside
<1>4. ASSUME NEW p \in Process, BeginAppend(p) PROVE Control'
  BY <1>t, <1>4 DEF BeginAppend, Control, OneAtATime, Holding, Fresh, Inside
<1>5. ASSUME NEW p \in Process, WriteCell(p) PROVE Control'
  BY <1>t, <1>5 DEF WriteCell, Control, OneAtATime, Holding, Fresh, Inside
<1>6. ASSUME NEW p \in Process, SyncAppend(p) PROVE Control'
  BY <1>t, <1>6 DEF SyncAppend, Control, OneAtATime, Holding, Fresh, Inside
<1>7. ASSUME NEW p \in Process, AppendFails(p) PROVE Control'
  BY <1>t, <1>7 DEF AppendFails, Leave, Control, OneAtATime, Holding, Fresh, Inside
<1>8. ASSUME NEW p \in Process, Exit(p) PROVE Control'
  BY <1>t, <1>8 DEF Exit, Leave, Control, OneAtATime, Holding, Fresh, Inside
<1>9. ASSUME NEW p \in Process, ReadChain(p) PROVE Control'
  BY <1>t, <1>9 DEF ReadChain, Alone, Control, OneAtATime, Holding, Fresh, Inside
<1>10. ASSUME NEW p \in Process, TakeLock(p) PROVE Control'
  BY <1>t, <1>10 DEF TakeLock, Control, OneAtATime, Holding, Fresh, Inside
<1>11. ASSUME NEW p \in Process, Refused(p) PROVE Control'
  BY <1>t, <1>11 DEF Refused, Leave, Control, OneAtATime, Holding, Fresh, Inside
<1>12. ASSUME NEW p \in Process, SaveTail(p) PROVE Control'
  BY <1>t, <1>12 DEF SaveTail, Control, OneAtATime, Holding, Fresh, Inside
<1>13. ASSUME NEW p \in Process, CutTail(p) PROVE Control'
  BY <1>t, <1>13 DEF CutTail, Control, OneAtATime, Holding, Fresh, Inside
<1>14. ASSUME NEW p \in Process, Kill(p) PROVE Control'
  BY <1>t, <1>14 DEF Kill, Leave, Control, OneAtATime, Holding, Fresh, Inside
<1> QED
  BY <1>1, <1>2, <1>3, <1>4, <1>5, <1>6, <1>7, <1>8, <1>9, <1>10, <1>11, <1>12, <1>13, <1>14
  DEF Next, Write, Resume

(* The length the file and what is durable of it have in common. *)
LEMMA CommonIs ==
  ASSUME file \in Seq(CellSet), durable \in Seq(CellSet)
  PROVE  /\ Common \in Nat /\ Common <= Len(file)
         /\ \A c \in Chain : Reads(file, c) /\ Reads(durable, c) => Off(Len(c)) <= Common
<1> DEFINE Same(n) == /\ n <= Len(durable) /\ SubSeq(file, 1, n) = SubSeq(durable, 1, n)
           Stops(n) == n + 1 <= Len(file) /\ n + 1 <= Len(durable) => file[n + 1] # durable[n + 1]
           S == {n \in 0 .. Len(file) : Same(n)}
<1>0. Len(file) \in Nat /\ Len(durable) \in Nat  OBVIOUS
<1>a. \A n \in 0 .. Len(file) : n <= Len(durable) =>
        (SubSeq(file, 1, n) = SubSeq(durable, 1, n) <=> \A i \in 1 .. n : file[i] = durable[i])
  <2> SUFFICES ASSUME NEW n \in 0 .. Len(file), n <= Len(durable)
               PROVE  SubSeq(file, 1, n) = SubSeq(durable, 1, n) <=> \A i \in 1 .. n : file[i] = durable[i]
    OBVIOUS
  <2>1. SubSeq(file, 1, n) \in Seq(CellSet) /\ Len(SubSeq(file, 1, n)) = n
        /\ \A i \in 1 .. n : SubSeq(file, 1, n)[i] = file[i]
    BY <1>0
  <2>2. SubSeq(durable, 1, n) \in Seq(CellSet) /\ Len(SubSeq(durable, 1, n)) = n
        /\ \A i \in 1 .. n : SubSeq(durable, 1, n)[i] = durable[i]
    BY <1>0
  <2>3. ASSUME \A i \in 1 .. n : file[i] = durable[i] PROVE SubSeq(file, 1, n) = SubSeq(durable, 1, n)
    BY <2>1, <2>2, <2>3, SeqEqual
  <2>4. ASSUME SubSeq(file, 1, n) = SubSeq(durable, 1, n), NEW i \in 1 .. n PROVE file[i] = durable[i]
    BY <2>1, <2>2, <2>4
  <2> QED BY <2>3, <2>4
<1>1. 0 \in S
  <2>1. 0 \in 0 .. Len(file) /\ 0 <= Len(durable)  BY <1>0
  <2>2. SubSeq(file, 1, 0) = SubSeq(durable, 1, 0)  BY <2>1, <1>a
  <2> QED BY <2>1, <2>2
<1>2. PICK n \in S : \A m \in S : m <= n
  <2>1. S \subseteq Nat /\ S # {} /\ \A m \in S : m <= Len(file)  BY <1>0, <1>1
  <2> HIDE DEF S
  <2> QED BY <1>0, <2>1, Largest
<1>3. Same(n) /\ Stops(n) /\ n \in 0 .. Len(file)
  <2>1. n \in 0 .. Len(file) /\ Same(n)  OBVIOUS
  <2>2. ASSUME n + 1 <= Len(file), n + 1 <= Len(durable), file[n + 1] = durable[n + 1] PROVE FALSE
    <3>1. \A i \in 1 .. n : file[i] = durable[i]  BY <2>1, <1>a
    <3>2. \A i \in 1 .. n + 1 : file[i] = durable[i]  BY <2>1, <2>2, <3>1
    <3>3. n + 1 \in 0 .. Len(file)  BY <2>1, <2>2
    <3>4. n + 1 \in S  BY <2>2, <3>2, <3>3, <1>a
    <3>5. n + 1 <= n  BY <3>4, <1>2
    <3> QED BY <2>1, <3>5
  <2> QED BY <2>1, <2>2
<1> HIDE DEF S
<1>4. Common \in 0 .. Len(file) /\ Same(Common) /\ Stops(Common)  BY <1>3 DEF Common
<1>5. ASSUME NEW c \in Chain, Reads(file, c), Reads(durable, c) PROVE Off(Len(c)) <= Common
  <2>0. Len(c) \in Nat  BY DEF Chain
  <2>1. Off(Len(c)) \in Nat /\ Off(Len(c)) <= Len(file) /\ Off(Len(c)) <= Len(durable)
    BY <1>5, <2>0, OffNat DEF Reads
  <2>2. CASE Common < Off(Len(c))
    <3>1. Common \in Nat /\ Common + 1 <= Len(file) /\ Common + 1 <= Len(durable)
      BY <1>0, <1>4, <2>1, <2>2
    <3>2. file[Common + 1] # durable[Common + 1]  BY <1>4, <3>1
    <3>3. SubSeq(file, 1, Off(Len(c))) = Spell(c) /\ SubSeq(durable, 1, Off(Len(c))) = Spell(c)
      BY <1>5, <2>1, ReadsIsSpelt
    <3>4. Off(Len(c)) \in 0 .. Len(file)  BY <2>1, <1>0
    <3>5. \A i \in 1 .. Off(Len(c)) : file[i] = durable[i]  BY <3>3, <3>4, <2>1, <1>a
    <3>6. Common + 1 \in 1 .. Off(Len(c))  BY <3>1, <2>1, <2>2
    <3> QED BY <3>2, <3>5, <3>6
  <2> QED BY <1>0, <1>4, <2>1, <2>2
<1> QED BY <1>0, <1>4, <1>5

(* What an outage leaves keeps the chains that were durable, and verifies   *)
(* nothing that was not written.                                            *)
LEMMA SurvivorsRead ==
  ASSUME file \in Seq(CellSet), durable \in Seq(CellSet), NEW g \in Survivors
  PROVE  /\ g \in Seq(CellSet)
         /\ \A c \in Chain : Reads(file, c) /\ Reads(durable, c) => Reads(g, c)
         /\ Reads(file, Verified(durable)) => Reads(file, Verified(g))
<1>0. Common \in Nat /\ Common <= Len(file) /\ Len(file) \in Nat  BY CommonIs
<1>1. CASE g = durable  BY <1>1
<1>2. CASE g # durable
  <2>1. PICK n \in Common .. Len(file) :
          g \in { [i \in 1 .. n |-> IF i \in hollow THEN Zero ELSE file[i]] : hollow \in SUBSET (Common + 1 .. n) }
    BY <1>2 DEF Survivors
  <2>2. PICK hollow \in SUBSET (Common + 1 .. n) : g = [i \in 1 .. n |-> IF i \in hollow THEN Zero ELSE file[i]]
    BY <2>1
  <2>3. n \in Nat /\ n <= Len(file) /\ Common <= n  BY <1>0
  <2>4. \A i \in 1 .. n : g[i] = (IF i \in hollow THEN Zero ELSE file[i]) /\ g[i] \in CellSet
    BY <2>2, <2>3, Cells
  <2>5. g \in Seq(CellSet) /\ Len(g) = n
    <3>1. \A i \in 1 .. n : (IF i \in hollow THEN Zero ELSE file[i]) \in CellSet  BY <2>4
    <3> QED BY <2>2, <2>3, <3>1, IsASeq
  <2>6. ASSUME NEW c \in Chain, Reads(file, c), Reads(durable, c) PROVE Reads(g, c)
    <3>1. Off(Len(c)) <= Common /\ Off(Len(c)) \in Nat
      <4>1. Len(c) \in Nat  BY DEF Chain
      <4> QED BY <4>1, <2>6, CommonIs, OffNat
    <3>2. \A i \in 1 .. Off(Len(c)) : i \notin hollow /\ i \in 1 .. n  BY <3>1, <1>0, <2>3
    <3>3. \A i \in 1 .. Off(Len(c)) : g[i] = file[i]  BY <3>2, <2>4
    <3>4. Off(Len(c)) <= Len(g)  BY <3>1, <2>3, <2>5, <1>0
    <3> QED BY <2>5, <2>6, <3>3, <3>4, SameStart
  <2>7. Reads(file, Verified(g))
    <3>1. PICK v \in Chain : v = Verified(g) /\ Reads(g, v)  BY <2>5, VerifiedReads
    <3>2. Off(Len(v)) \in Nat /\ Off(Len(v)) <= n
      <4>1. Len(v) \in Nat  BY DEF Chain
      <4> QED BY <4>1, <3>1, <2>5, OffNat DEF Reads
    <3>3. ASSUME NEW i \in 1 .. Off(Len(v)) PROVE file[i] = g[i]
      <4>1. g[i] # Zero  BY <3>1, <2>5, CellOf
      <4>2. i \in 1 .. n  BY <3>2, <2>3
      <4> QED BY <4>1, <4>2, <2>4
    <3>4. Off(Len(v)) <= Len(file)  BY <3>2, <2>3, <1>0
    <3>5. Reads(file, v)  BY <3>1, <3>3, <3>4, <2>5, SameStart
    <3> QED BY <3>1, <3>5
  <2> QED BY <2>5, <2>6, <2>7
<1> QED BY <1>1, <1>2

(* What the actions do to the file, and to what a reader makes of it. *)
LEMMA OpenFile ==
  ASSUME Typed, Data, NEW p \in Process, phase[p] = "open", part \in 0 .. Width
  PROVE  /\ Reads(file, head) /\ Len(head) \in Nat /\ Off(Len(head)) \in Nat
         /\ Len(file) = Off(Len(head)) + Sofar /\ Verified(file) = head
         /\ part > 0 => cur[1] \in Entry /\ Sofar = part - 1 /\ cur = <<cur[1]>>
<1>1. Reads(file, head) /\ Len(file) = Off(Len(head)) + Sofar /\ (part > 0 => Len(cur) = 1)
  BY DEF Data, WriterAtEnd
<1>2. Len(head) \in Nat /\ Off(Len(head)) \in Nat
  <2>1. Len(head) \in Nat  BY DEF Typed, Chain
  <2> QED BY <2>1, OffNat
<1>3. Width \in Nat /\ Width > 0  BY Widths
<1>4. Sofar \in Nat /\ Sofar < Width  BY <1>3 DEF Sofar
<1>5. Len(file) < Off(Len(head)) + Width  BY <1>1, <1>2, <1>3, <1>4
<1>6. Verified(file) = head  BY <1>1, <1>5, VerifiedWhenShort DEF Typed
<1>7. part > 0 => cur[1] \in Entry /\ cur = <<cur[1]>>
  <2> SUFFICES ASSUME part > 0 PROVE cur[1] \in Entry /\ cur = <<cur[1]>>  OBVIOUS
  <2>1. cur \in Seq(Entry) /\ Len(cur) = 1  BY <1>1 DEF Typed, Chain
  <2>2. cur[1] \in Entry  BY <2>1
  <2>3. <<cur[1]>> \in Seq(Entry) /\ Len(<<cur[1]>>) = 1 /\ <<cur[1]>>[1] = cur[1]  BY <2>2
  <2>4. \A i \in 1 .. Len(cur) : cur[i] = <<cur[1]>>[i]  BY <2>1, <2>3
  <2>5. cur = <<cur[1]>>  BY <2>1, <2>3, <2>4, SeqEqual
  <2> QED BY <2>2, <2>5
<1> QED BY <1>1, <1>2, <1>6, <1>7 DEF Sofar

(* A whole write. The record becomes readable with its last cell, not       *)
(* before.                                                                  *)
LEMMA WriteCellDoes ==
  ASSUME Typed, Data, NEW p \in Process, WriteCell(p)
  PROVE  /\ file' \in Seq(CellSet) /\ Len(file') = Off(Len(head)) + part
         /\ \A k \in 1 .. part : file'[Off(Len(head)) + k] = Cell(k, cur[1], head)
         /\ \A c \in Chain : Reads(file, c) => Reads(file', c)
         /\ Verified(file) = head
         /\ part < Width => Verified(file') = head
         /\ part = Width => /\ Append(head, cur[1]) \in Chain
                            /\ Reads(file', Append(head, cur[1]))
                            /\ Verified(file') = Append(head, cur[1])
<1>0. phase[p] = "open" /\ part \in 1 .. Width /\ part \in 0 .. Width /\ part > 0
  BY Widths DEF WriteCell
<1>1. /\ Reads(file, head) /\ Len(head) \in Nat /\ Off(Len(head)) \in Nat
      /\ Len(file) = Off(Len(head)) + (part - 1) /\ Verified(file) = head
      /\ cur[1] \in Entry
  BY <1>0, OpenFile
<1>2. \A k \in 1 .. part - 1 : file[Off(Len(head)) + k] = Cell(k, cur[1], head)
  BY <1>0 DEF Data, WriterAtEnd
<1>3. head \in Chain /\ file \in Seq(CellSet) /\ Width \in Nat  BY Widths DEF Typed
<1>4. PICK x \in CellSet : x = Cell(part, cur[1], head)  BY <1>0, <1>1, <1>3, Cells
<1>5. file' = Append(file, x)  BY <1>4 DEF WriteCell
<1>6. /\ file' \in Seq(CellSet) /\ Len(file') = Len(file) + 1
      /\ \A i \in 1 .. Len(file) : file'[i] = file[i]
      /\ file'[Len(file) + 1] = x
  BY <1>3, <1>5, AppendProperties
<1>7. Len(file') = Off(Len(head)) + part  BY <1>0, <1>1, <1>6
<1>8. \A k \in 1 .. part : file'[Off(Len(head)) + k] = Cell(k, cur[1], head)
  <2> SUFFICES ASSUME NEW k \in 1 .. part PROVE file'[Off(Len(head)) + k] = Cell(k, cur[1], head)
    OBVIOUS
  <2>1. CASE k = part
    <3>1. Off(Len(head)) + k = Len(file) + 1  BY <2>1, <1>0, <1>1
    <3> QED BY <3>1, <2>1, <1>4, <1>6
  <2>2. CASE k # part
    <3>1. k \in 1 .. part - 1  BY <2>2, <1>0
    <3>2. Off(Len(head)) + k \in 1 .. Len(file)  BY <3>1, <1>0, <1>1
    <3> QED BY <3>1, <3>2, <1>2, <1>6
  <2> QED BY <2>1, <2>2
<1>9. \A c \in Chain : Reads(file, c) => Reads(file', c)
  BY <1>3, <1>5, AppendReads
<1>10. Reads(file', head)  BY <1>1, <1>3, <1>9
<1>11. part < Width => Verified(file') = head
  <2>1. part < Width => Len(file') < Off(Len(head)) + Width  BY <1>0, <1>1, <1>3, <1>7
  <2> QED BY <2>1, <1>3, <1>6, <1>10, VerifiedWhenShort
<1>12. part = Width => /\ Append(head, cur[1]) \in Chain
                       /\ Reads(file', Append(head, cur[1]))
                       /\ Verified(file') = Append(head, cur[1])
  <2> SUFFICES ASSUME part = Width PROVE /\ Append(head, cur[1]) \in Chain
                                         /\ Reads(file', Append(head, cur[1]))
                                         /\ Verified(file') = Append(head, cur[1])
    OBVIOUS
  <2>1. Len(file') = Off(Len(head)) + Width  BY <1>7
  <2>2. \A k \in 1 .. Width : file'[Off(Len(head)) + k] = Cell(k, cur[1], head)  BY <1>8
  <2> QED BY <2>1, <2>2, <1>1, <1>3, <1>6, <1>10, VerifiedWhenWhole
<1> QED BY <1>1, <1>6, <1>7, <1>8, <1>9, <1>11, <1>12

(* A write that stops half way, for want of room or because the process is  *)
(* killed.                                                                  *)
LEMMA TornWriteDoes ==
  ASSUME Typed, Data, NEW p \in Process, phase[p] = "open", part \in 1 .. Width,
         file' \in {file, Append(file, Piece)}
  PROVE  /\ file' \in Seq(CellSet) /\ Verified(file') = Verified(file)
         /\ \A c \in Chain : Reads(file, c) => Reads(file', c)
         /\ Len(file') <= Off(Len(Verified(file))) + Width
         /\ Len(file') > Off(Len(Verified(file))) => file'[Off(Len(Verified(file))) + 1] # Zero
         /\ Len(file') = Off(Len(Verified(file))) + Width => file'[Len(file')] = Piece
<1>0. part \in 0 .. Width /\ part > 0 /\ Width \in Nat \ {0}  BY Widths
<1>1. /\ Reads(file, head) /\ Len(head) \in Nat /\ Off(Len(head)) \in Nat
      /\ Len(file) = Off(Len(head)) + (part - 1) /\ Verified(file) = head
      /\ cur[1] \in Entry
  BY <1>0, OpenFile
<1>2. \A k \in 1 .. part - 1 : file[Off(Len(head)) + k] = Cell(k, cur[1], head)
  BY <1>0 DEF Data, WriterAtEnd
<1>3. head \in Chain /\ file \in Seq(CellSet) /\ Zero # Piece  BY DEF Typed, Zero, Piece
<1>4. Len(file) > Off(Len(head)) => file[Off(Len(head)) + 1] # Zero
  <2> SUFFICES ASSUME Len(file) > Off(Len(head)) PROVE file[Off(Len(head)) + 1] # Zero  OBVIOUS
  <2>1. 1 \in 1 .. part - 1 /\ 1 \in 1 .. Width  BY <1>0, <1>1
  <2>2. file[Off(Len(head)) + 1] = Cell(1, cur[1], head)  BY <2>1, <1>2
  <2> QED BY <2>1, <2>2, <1>1, <1>3, Cells
<1>5. CASE file' = file
  BY <1>5, <1>0, <1>1, <1>3, <1>4
<1>6. CASE file' = Append(file, Piece)
  <2>1. /\ file' \in Seq(CellSet) /\ Len(file') = Len(file) + 1
        /\ \A i \in 1 .. Len(file) : file'[i] = file[i]
        /\ file'[Len(file) + 1] = Piece
    BY <1>3, <1>6, Cells, AppendProperties
  <2>2. \A c \in Chain : Reads(file, c) => Reads(file', c)
    BY <1>3, <1>6, Cells, AppendReads
  <2>3. Reads(file', head)  BY <2>2, <1>1, <1>3
  <2>4. Len(file') > 0 /\ Len(file') <= Off(Len(head)) + Width /\ file'[Len(file')] = Piece
    BY <2>1, <1>0, <1>1
  <2>5. Verified(file') = head  BY <2>1, <2>3, <2>4, <1>3, VerifiedWhenTorn
  <2>6. Len(file') > Off(Len(head)) => file'[Off(Len(head)) + 1] # Zero
    <3>1. CASE Len(file) > Off(Len(head))
      <4>1. Off(Len(head)) + 1 \in 1 .. Len(file)  BY <3>1, <1>0, <1>1
      <4> QED BY <3>1, <4>1, <2>1, <1>4
    <3>2. CASE ~ (Len(file) > Off(Len(head)))
      <4>1. Off(Len(head)) + 1 = Len(file) + 1  BY <3>2, <1>0, <1>1
      <4> QED BY <4>1, <2>1, <1>3
    <3> QED BY <3>1, <3>2
  <2> QED BY <2>1, <2>2, <2>4, <2>5, <2>6, <1>1
<1> QED BY <1>5, <1>6

(* The cut of a resume lands exactly behind the verified records. *)
LEMMA CutTailDoes ==
  ASSUME Typed, Data, NEW p \in Process, CutTail(p)
  PROVE  /\ file' \in Seq(CellSet) /\ Verified(file') = Verified(file) /\ head' = Verified(file)
         /\ Len(file') = CutTo(p) /\ CutTo(p) \in Nat
         /\ Len(file') = Off(Len(head')) /\ Reads(file', head')
         /\ \A c \in Chain : Reads(file, c) => Reads(file', c)
<1>1. phase[p] = "cut" /\ file' = SubSeq(file, 1, CutTo(p)) /\ head' = seen[p].chain  BY DEF CutTail
<1>2. file \in Seq(CellSet) /\ seen[p].chain = Verified(file)
      /\ seen[p].tail = Len(file) - Off(Len(Verified(file)))
  BY <1>1 DEF Typed, Data, SeenIsSo
<1>3. PICK v \in Chain : v = Verified(file)  BY <1>2, VerifiedReads
<1>4. Len(v) \in Nat /\ Off(Len(v)) \in Nat
  <2>1. Len(v) \in Nat  BY DEF Chain
  <2> QED BY <2>1, OffNat
<1>5. CutTo(p) = Off(Len(v))
  <2>1. Len(file) \in Nat  BY <1>2
  <2> QED BY <2>1, <1>2, <1>3, <1>4 DEF CutTo
<1>6. file' = SubSeq(file, 1, Off(Len(v)))  BY <1>1, <1>5
<1>7. /\ file' \in Seq(CellSet) /\ Len(file') = Off(Len(v))
      /\ Verified(file') = v /\ Reads(file', v)
      /\ \A c \in Chain : Reads(file, c) => Reads(file', c)
  <2>1. PICK f \in Seq(CellSet) : f = file  BY <1>2
  <2>2. v = Verified(f)  BY <1>3, <2>1
  <2>3. PICK g \in Seq(CellSet) : g = SubSeq(f, 1, Off(Len(v)))
    <3>1. Off(Len(v)) <= Len(f)  BY <2>2, VerifiedReads DEF Reads
    <3>2. PICK o \in Nat : o = Off(Len(v))  BY <1>4
    <3>3. SubSeq(f, 1, o) \in Seq(CellSet)  BY <3>1, <3>2
    <3> QED BY <3>2, <3>3
  <2>4a. Len(g) = Off(Len(v)) BY <2>2, <2>3, CutReads
  <2>4b. Verified(g) = v  BY <2>2, <2>3, CutReads
  <2>4c. Reads(g, v) BY <2>2, <2>3, CutReads
  <2>4d. ASSUME NEW c \in Chain, Reads(f, c) PROVE Reads(g, c)  BY <2>2, <2>3, <2>4c, <2>4d, CutKeeps
  <2>4. /\ Len(g) = Off(Len(v))
        /\ Verified(g) = v /\ Reads(g, v)
        /\ \A c \in Chain : Reads(f, c) => Reads(g, c)
    BY <2>4a, <2>4b, <2>4c, <2>4d
  <2>5. g = file'  BY <1>6, <2>1, <2>3
  <2> QED BY <2>1, <2>4, <2>5
<1> QED BY <1>1, <1>2, <1>3, <1>4, <1>5, <1>7

(* When all cells are written, the file ends with the new record. *)
LEMMA WrittenRecord ==
  ASSUME Typed, Data, NEW p \in Process, phase[p] = "open", part = Width + 1
  PROVE  /\ head \o cur \in Chain /\ Verified(file) = head \o cur /\ Reads(file, head \o cur)
         /\ Len(file) = Off(Len(head \o cur))
<1>0. Width \in Nat \ {0} /\ part > 0 /\ Sofar = Width /\ part - 1 = Width  BY Widths DEF Sofar
<1>1. /\ Reads(file, head) /\ Len(file) = Off(Len(head)) + Width /\ Len(cur) = 1
      /\ \A k \in 1 .. Width : file[Off(Len(head)) + k] = Cell(k, cur[1], head)
  BY <1>0 DEF Data, WriterAtEnd
<1>2. cur \in Seq(Entry) /\ head \in Seq(Entry) /\ head \in Chain /\ file \in Seq(CellSet)
  BY DEF Typed, Chain
<1>3. cur[1] \in Entry /\ cur = <<cur[1]>>
  <2>0. cur \in Seq(Entry) /\ Len(cur) = 1  BY <1>1, <1>2
  <2>1. cur[1] \in Entry
    <3>1. 1 \in 1 .. Len(cur)  BY <2>0
    <3> QED BY <2>0, <3>1, ElementOfSeq
  <2>2. <<cur[1]>> \in Seq(Entry) /\ Len(<<cur[1]>>) = 1 /\ <<cur[1]>>[1] = cur[1]  BY <2>1
  <2>3. \A i \in 1 .. Len(cur) : cur[i] = <<cur[1]>>[i]  BY <1>1, <2>2
  <2>4. cur = <<cur[1]>>  BY <1>1, <1>2, <2>2, <2>3, SeqEqual
  <2> QED BY <2>1, <2>4
<1>4. head \o cur = Append(head, cur[1])  BY <1>2, <1>3, AppendIsConcat
<1>5. Append(head, cur[1]) \in Chain /\ Reads(file, Append(head, cur[1])) /\ Verified(file) = Append(head, cur[1])
  BY <1>1, <1>2, <1>3, VerifiedWhenWhole
<1>6. Len(file) = Off(Len(Append(head, cur[1])))
  <2>1. Len(Append(head, cur[1])) = Len(head) + 1 /\ Len(head) \in Nat  BY <1>2, <1>3
  <2> QED BY <2>1, <1>1, OffNat
<1> QED BY <1>4, <1>5, <1>6

(* An outside event is counted; an outage is an outage. *)
LEMMA Spent ==
  ASSUME Typed, NEW e \in EventKind, Spend(e)
  PROVE  /\ budget' \in [EventKind -> Nat] /\ budget'["power"] <= MaxEvents["power"]
         /\ budget' # budget
         /\ NoOutage' => NoOutage
         /\ e = "power" => ~NoOutage'
<1>1. /\ budget \in [EventKind -> Nat] /\ budget["power"] <= MaxEvents["power"]
      /\ "power" \in EventKind /\ MaxEvents["power"] \in Nat
  BY JournalAssumption DEF Typed, EventKind
<1>2. budget' = [budget EXCEPT ![e] = @ - 1] /\ budget[e] \in Nat /\ budget[e] > 0
  BY <1>1 DEF Spend
<1>3. budget'[e] = budget[e] - 1 /\ budget' \in [EventKind -> Nat]  BY <1>1, <1>2
<1>4. budget'["power"] <= budget["power"] /\ (e = "power" => budget'["power"] = budget["power"] - 1)
  BY <1>1, <1>2
<1>5. budget' # budget  BY <1>2, <1>3
<1>6. budget'["power"] \in Nat /\ budget["power"] \in Nat  BY <1>1, <1>3
<1> QED BY <1>1, <1>3, <1>4, <1>5, <1>6 DEF NoOutage

LEMMA LeaveTyped ==
  ASSUME Typed, NEW p \in Process, Leave(p)
  PROVE  /\ phase' \in [Process -> {"out", "create", "read", "locked", "cut", "open"}]
         /\ seen' \in [Process -> [chain : Chain, tail : Nat]]
         /\ head' \in Chain /\ cur' \in Chain /\ part' \in 0 .. Width + 1
         /\ holder' \in Process \cup {Nobody}
<1>1. <<>> \in Chain /\ 0 \in 0 .. Width + 1  BY Widths DEF Chain
<1> QED BY <1>1 DEF Typed, Leave

(* Every action keeps the types. *)
LEMMA TypedKept == Typed /\ Control /\ Data /\ Next => Typed'
<1> SUFFICES ASSUME Typed, Control, Data, Next PROVE Typed'
  OBVIOUS
<1>w. Width \in Nat \ {0} /\ <<>> \in Chain /\ 0 \in 0 .. Width + 1  BY Widths DEF Chain
<1>e. {"kill", "power", "full", "resume"} = EventKind  BY DEF EventKind
<1>1. CASE PowerLoss
  <2>1. budget' \in [EventKind -> Nat] /\ budget'["power"] <= MaxEvents["power"]
    BY <1>1, <1>e, Spent DEF PowerLoss
  <2>2. file' \in Seq(CellSet) /\ durable' = file'
    BY <1>1, SurvivorsRead DEF PowerLoss, Typed
  <2> QED BY <2>1, <2>2, <1>1, <1>w DEF PowerLoss, Typed
<1>2. ASSUME NEW p \in Process, CreateNew(p) PROVE Typed'
  BY <1>2 DEF CreateNew, Typed
<1>3. ASSUME NEW p \in Process, WriteMagic(p) PROVE Typed'
  BY <1>3 DEF WriteMagic, Typed
<1>4. ASSUME NEW p \in Process, BeginAppend(p) PROVE Typed'
  <2>1. PICK t \in {"Header", "Event", "Completed"} : cur' = <<[type |-> t, by |-> p]>>
    BY <1>4 DEF BeginAppend
  <2>2. [type |-> t, by |-> p] \in Entry  BY DEF Entry
  <2>3. cur' \in Chain  BY <2>1, <2>2 DEF Chain
  <2>4. part' \in 0 .. Width + 1  BY <1>4, <1>w DEF BeginAppend
  <2> QED BY <2>3, <2>4, <1>4 DEF BeginAppend, Typed
<1>5. ASSUME NEW p \in Process, WriteCell(p) PROVE Typed'
  <2>1. file' \in Seq(CellSet)  BY <1>5, WriteCellDoes
  <2>2. part' \in 0 .. Width + 1  BY <1>5, <1>w DEF WriteCell
  <2> QED BY <2>1, <2>2, <1>5 DEF WriteCell, Typed
<1>6. ASSUME NEW p \in Process, SyncAppend(p) PROVE Typed'
  <2>1. head \o cur \in Chain  BY <1>6, WrittenRecord DEF SyncAppend
  <2>2. durable' \in Seq(CellSet)  BY <1>6 DEF SyncAppend, Synced, Typed
  <2> QED BY <2>1, <2>2, <1>6, <1>w DEF SyncAppend, Typed
<1>7. ASSUME NEW p \in Process, AppendFails(p) PROVE Typed'
  <2>1. budget' \in [EventKind -> Nat] /\ budget'["power"] <= MaxEvents["power"]
    BY <1>7, <1>e, Spent DEF AppendFails
  <2>2. file' \in Seq(CellSet)  BY <1>7, TornWriteDoes DEF AppendFails
  <2>3. Leave(p) /\ UNCHANGED <<exists, durable, saved, acked>>  BY <1>7 DEF AppendFails
  <2> QED BY <2>1, <2>2, <2>3, LeaveTyped DEF Typed
<1>8. ASSUME NEW p \in Process, Exit(p) PROVE Typed'
  <2>1. Leave(p) /\ UNCHANGED <<exists, file, durable, saved, acked, budget>>  BY <1>8 DEF Exit
  <2> QED BY <2>1, LeaveTyped DEF Typed
<1>9. ASSUME NEW p \in Process, ReadChain(p) PROVE Typed'
  <2>1. budget' \in [EventKind -> Nat] /\ budget'["power"] <= MaxEvents["power"]
    BY <1>9, <1>e, Spent DEF ReadChain
  <2>2. Verified(file) \in Chain /\ Len(Rest(file)) \in Nat  BY VerifiedReads, RestIs DEF Typed
  <2>3. seen' \in [Process -> [chain : Chain, tail : Nat]]  BY <1>9, <2>2 DEF ReadChain, Typed
  <2> QED BY <2>1, <2>3, <1>9 DEF ReadChain, Typed
<1>10. ASSUME NEW p \in Process, TakeLock(p) PROVE Typed'
  BY <1>10 DEF TakeLock, Typed
<1>11. ASSUME NEW p \in Process, Refused(p) PROVE Typed'
  <2>1. Leave(p) /\ UNCHANGED <<exists, file, durable, saved, acked, budget>>  BY <1>11 DEF Refused
  <2> QED BY <2>1, LeaveTyped DEF Typed
<1>12. ASSUME NEW p \in Process, SaveTail(p) PROVE Typed'
  <2>1. CutOff(p) \subseteq Seq(CellSet)
    <3>1. phase[p] = "locked"  BY <1>12 DEF SaveTail
    <3>2. file \in Seq(CellSet) /\ seen[p].tail = Len(file) - Off(Len(Verified(file)))
      BY <3>1 DEF Typed, Data, SeenIsSo
    <3>3. Off(Len(Verified(file))) \in Nat /\ Off(Len(Verified(file))) <= Len(file)
      BY <3>2, RestIs
    <3>4. PICK n \in Nat : n = CutTo(p) /\ n <= Len(file)  BY <3>2, <3>3 DEF CutTo
    <3>5. \A i \in n + 1 .. Len(file) : file[i] \in CellSet  BY <3>2, <3>4
    <3>6. SubSeq(file, n + 1, Len(file)) \in Seq(CellSet)
      <4>1. n + 1 \in Int /\ Len(file) \in Int  BY <3>2, <3>4
      <4> QED BY <4>1, <3>5, SubSeqProperties
    <3> QED BY <3>4, <3>6 DEF CutOff
  <2>2. saved' \subseteq Seq(CellSet)  BY <2>1, <1>12 DEF SaveTail, Typed
  <2> QED BY <2>2, <1>12 DEF SaveTail, Typed
<1>13. ASSUME NEW p \in Process, CutTail(p) PROVE Typed'
  <2>1. file' \in Seq(CellSet) /\ head' \in Chain
    BY <1>13, CutTailDoes, VerifiedReads DEF Typed
  <2> QED BY <2>1, <1>13 DEF CutTail, Typed
<1>14. ASSUME NEW p \in Process, Kill(p) PROVE Typed'
  <2>1. budget' \in [EventKind -> Nat] /\ budget'["power"] <= MaxEvents["power"]
    BY <1>14, <1>e, Spent DEF Kill
  <2>2. file' \in Seq(CellSet)
    <3>1. CASE phase[p] = "open" /\ part \in 1 .. Width  BY <3>1, <1>14, TornWriteDoes DEF Kill
    <3>2. CASE ~(phase[p] = "open" /\ part \in 1 .. Width)  BY <3>2, <1>14 DEF Kill, Typed
    <3> QED BY <3>1, <3>2
  <2>3. Leave(p) /\ UNCHANGED <<exists, durable, saved, acked>>  BY <1>14 DEF Kill
  <2> QED BY <2>1, <2>2, <2>3, LeaveTyped DEF Typed
<1> QED
  BY <1>1, <1>2, <1>3, <1>4, <1>5, <1>6, <1>7, <1>8, <1>9, <1>10, <1>11, <1>12, <1>13, <1>14
  DEF Next, Write, Resume

(* An action that leaves the file alone leaves what reads off it. *)
LEMMA FileAlone ==
  ASSUME Data, UNCHANGED <<file, durable, acked>>, NoOutage' => NoOutage
  PROVE  AckedReads' /\ DurableBehind' /\ TailFits'
<1>1. AckedReads' /\ DurableBehind'  BY DEF Data, AckedReads, DurableBehind
<1>2. TailFits'  BY DEF Data, TailFits
<1> QED BY <1>1, <1>2

(* What is only written to keeps what reads off it. *)
LEMMA FileGrows ==
  ASSUME Typed, Data, UNCHANGED <<durable, acked>>, file' \in Seq(CellSet),
         \A c \in Chain : Reads(file, c) => Reads(file', c)
  PROVE  AckedReads' /\ DurableBehind'
<1>1. acked \in Chain /\ Verified(durable) \in Chain  BY VerifiedReads DEF Typed
<1>2. Reads(file, acked) /\ Reads(durable, acked) /\ Reads(file, Verified(durable))
  BY DEF Data, AckedReads, DurableBehind
<1>3. Reads(file', acked) /\ Reads(file', Verified(durable))  BY <1>1, <1>2
<1> QED BY <1>2, <1>3 DEF AckedReads, DurableBehind

(* The process that acts is the only one that is not out. *)
LEMMA OthersOut ==
  ASSUME Typed, Control, NEW p \in Process, phase[p] # "out", NEW q \in Process, q # p
  PROVE  phase[q] = "out"
BY DEF Control, OneAtATime

(* Once the one process that runs has left, nobody is left to promise anything. *)
LEMMA LeftAlone ==
  ASSUME Typed, Control, NEW p \in Process, phase[p] # "out", Leave(p)
  PROVE  WriterAtEnd' /\ SeenIsSo' /\ CutKept'
<1>1. \A q \in Process : phase'[q] = "out"  BY OthersOut DEF Leave, Typed
<1> QED BY <1>1 DEF WriterAtEnd, SeenIsSo, CutKept

(* Every action keeps the file in step with what the writer, the reader and *)
(* the caller believe of it.                                                *)
LEMMA DataKept == Typed /\ Control /\ Data /\ Overlap = FALSE /\ Next => Data'
<1> SUFFICES ASSUME Typed, Control, Data, Overlap = FALSE, Next PROVE Data'
  OBVIOUS
<1>w. Width \in Nat \ {0} /\ <<>> \in Chain /\ 0 \in 0 .. Width + 1  BY Widths DEF Chain
<1>e. {"kill", "power", "full", "resume"} = EventKind  BY DEF EventKind
<1>t. phase \in [Process -> {"out", "create", "read", "locked", "cut", "open"}]
      /\ file \in Seq(CellSet) /\ durable \in Seq(CellSet) /\ head \in Chain
  BY DEF Typed
<1>b. budget' = budget => (NoOutage' => NoOutage)  BY DEF NoOutage
<1>1. CASE PowerLoss
  <2>1. WriterAtEnd' /\ SeenIsSo' /\ CutKept'  BY <1>1 DEF PowerLoss, WriterAtEnd, SeenIsSo, CutKept
  <2>2. PICK g \in Survivors : g = file' /\ g = durable' /\ acked' = acked  BY <1>1 DEF PowerLoss
  <2>3. g \in Seq(CellSet) /\ Reads(g, acked)
    <3>1. acked \in Chain /\ Reads(file, acked) /\ Reads(durable, acked)  BY DEF Typed, Data, AckedReads
    <3> QED BY <3>1, <1>t, SurvivorsRead
  <2>4. Reads(g, Verified(g))  BY <2>3, VerifiedReads
  <2>5. AckedReads' /\ DurableBehind'  BY <2>2, <2>3, <2>4 DEF AckedReads, DurableBehind
  <2>6. TailFits'  BY <1>1, <1>e, Spent DEF PowerLoss, TailFits
  <2> QED BY <2>1, <2>5, <2>6 DEF Data
<1>2. ASSUME NEW p \in Process, CreateNew(p) PROVE Data'
  <2>1. AckedReads' /\ DurableBehind' /\ TailFits'  BY <1>2, <1>b, FileAlone DEF CreateNew
  <2>2. \A q \in Process : phase'[q] \in {"out", "create"}
    BY <1>2, <1>t DEF CreateNew, Control, Fresh
  <2>3. WriterAtEnd' /\ SeenIsSo' /\ CutKept'  BY <2>2 DEF WriterAtEnd, SeenIsSo, CutKept
  <2> QED BY <2>1, <2>3 DEF Data
<1>3. ASSUME NEW p \in Process, WriteMagic(p) PROVE Data'
  <2>1. AckedReads' /\ DurableBehind' /\ TailFits'  BY <1>3, <1>b, FileAlone DEF WriteMagic
  <2>2. \A q \in Process : q # p => phase'[q] = "out"
    BY <1>3, <1>t, OthersOut DEF WriteMagic
  <2>3. phase'[p] = "open"  BY <1>3, <1>t DEF WriteMagic
  <2>4. SeenIsSo' /\ CutKept'  BY <2>2, <2>3 DEF SeenIsSo, CutKept
  <2>5. file = <<>> /\ head = <<>> /\ part = 0
    BY <1>3 DEF WriteMagic, Control, Holding, Fresh
  <2>6. Reads(file, head) /\ Len(file) = Off(Len(head)) + 0
    <3>1. Reads(file, <<>>)  BY <1>t, NothingReads
    <3>2. Len(<<>>) = 0 /\ Off(0) = 0  BY Offsets
    <3> QED BY <2>5, <3>1, <3>2
  <2>7. WriterAtEnd'  BY <2>2, <2>5, <2>6, <1>3 DEF WriterAtEnd, WriteMagic, Sofar
  <2> QED BY <2>1, <2>4, <2>7 DEF Data
<1>4. ASSUME NEW p \in Process, BeginAppend(p) PROVE Data'
  <2>1. AckedReads' /\ DurableBehind' /\ TailFits'  BY <1>4, <1>b, FileAlone DEF BeginAppend
  <2>2. phase' = phase /\ phase[p] = "open" /\ \A q \in Process : q # p => phase'[q] = "out"
    BY <1>4, <1>t, OthersOut DEF BeginAppend
  <2>4. SeenIsSo' /\ CutKept'  BY <2>2 DEF SeenIsSo, CutKept
  <2>5. Reads(file, head) /\ Len(file) = Off(Len(head)) + 0
    BY <1>4, <2>2 DEF BeginAppend, Data, WriterAtEnd, Sofar
  <2>6. part' = 1 /\ Len(cur') = 1 /\ Sofar' = 0 /\ \A k \in 1 .. part' - 1 : FALSE
    BY <1>4 DEF BeginAppend, Sofar
  <2>7. WriterAtEnd'  BY <2>2, <2>5, <2>6, <1>4 DEF WriterAtEnd, BeginAppend
  <2> QED BY <2>1, <2>4, <2>7 DEF Data
<1>5. ASSUME NEW p \in Process, WriteCell(p) PROVE Data'
  <2>0. phase' = phase /\ phase[p] = "open" /\ \A q \in Process : q # p => phase'[q] = "out"
    BY <1>5, <1>t, OthersOut DEF WriteCell
  <2>1. /\ file' \in Seq(CellSet) /\ Len(file') = Off(Len(head)) + part
        /\ \A k \in 1 .. part : file'[Off(Len(head)) + k] = Cell(k, cur[1], head)
        /\ \A c \in Chain : Reads(file, c) => Reads(file', c)
        /\ part < Width => Verified(file') = head
        /\ part = Width => Verified(file') = Append(head, cur[1])
    BY <1>5, WriteCellDoes
  <2>2. AckedReads' /\ DurableBehind'  BY <1>5, <2>1, FileGrows DEF WriteCell
  <2>3. SeenIsSo' /\ CutKept'  BY <2>0 DEF SeenIsSo, CutKept
  <2>4. /\ part \in 1 .. Width /\ part' = part + 1 /\ head' = head /\ cur' = cur
        /\ Sofar' = part /\ part' - 1 = part /\ part \in 0 .. Width
    BY <1>5, <1>w DEF WriteCell, Sofar
  <2>5. Reads(file, head) /\ Len(cur) = 1 /\ Len(head) \in Nat /\ Off(Len(head)) \in Nat /\ cur[1] \in Entry
    BY <2>0, <2>4, OpenFile DEF Data, WriterAtEnd
  <2>6. Reads(file', head)  BY <2>1, <2>5, <1>t
  <2>7. WriterAtEnd'  BY <2>0, <2>1, <2>4, <2>5, <2>6 DEF WriterAtEnd
  <2>8. TailFits'
    <3>1. CASE part < Width
      <4>1. Verified(file') = head  BY <2>1, <3>1
      <4>2. file'[Off(Len(head)) + 1] = Cell(1, cur[1], head) /\ 1 \in 1 .. Width
        BY <2>1, <2>4, <1>w
      <4>3. file'[Off(Len(head)) + 1] # Zero  BY <4>2, <2>5, <1>t, Cells
      <4>4. Len(file') < Off(Len(head)) + Width  BY <2>1, <2>4, <2>5, <3>1, <1>w
      <4> QED BY <4>1, <4>3, <4>4, <2>1, <2>5, <1>w DEF TailFits
    <3>2. CASE part = Width
      <4>1. Verified(file') = Append(head, cur[1])  BY <2>1, <3>2
      <4>2. Len(Append(head, cur[1])) = Len(head) + 1
        BY <2>5, <1>t DEF Chain
      <4>3. Len(file') = Off(Len(Verified(file')))
        BY <4>1, <4>2, <2>1, <2>5, <3>2, OffNat
      <4> QED BY <4>3, <2>1, <1>w DEF TailFits
    <3> QED BY <3>1, <3>2, <2>4, <1>w
  <2> QED BY <2>2, <2>3, <2>7, <2>8 DEF Data
<1>6. ASSUME NEW p \in Process, SyncAppend(p) PROVE Data'
  <2>0. phase' = phase /\ phase[p] = "open" /\ \A q \in Process : q # p => phase'[q] = "out"
    BY <1>6, <1>t, OthersOut DEF SyncAppend
  <2>1. /\ head \o cur \in Chain /\ Verified(file) = head \o cur /\ Reads(file, head \o cur)
        /\ Len(file) = Off(Len(head \o cur))
    BY <1>6, WrittenRecord DEF SyncAppend
  <2>2. /\ file' = file /\ durable' = file /\ acked' = head \o cur /\ head' = head \o cur
        /\ part' = 0 /\ budget' = budget
    BY <1>6 DEF SyncAppend, Synced
  <2>3. AckedReads' /\ DurableBehind'  BY <2>1, <2>2 DEF AckedReads, DurableBehind
  <2>4. SeenIsSo' /\ CutKept'  BY <2>0 DEF SeenIsSo, CutKept
  <2>5. TailFits'  BY <2>2, <1>b DEF Data, TailFits
  <2>6. Sofar' = 0 /\ Len(file) = Off(Len(head \o cur)) + 0
    <3>1. Len(file) \in Nat  BY <1>t
    <3> QED BY <3>1, <2>1, <2>2 DEF Sofar
  <2>7. WriterAtEnd'  BY <2>0, <2>1, <2>2, <2>6 DEF WriterAtEnd
  <2> QED BY <2>3, <2>4, <2>5, <2>7 DEF Data
<1>7. ASSUME NEW p \in Process, AppendFails(p) PROVE Data'
  <2>0. phase[p] = "open" /\ part \in 1 .. Width /\ Leave(p) /\ UNCHANGED <<durable, acked>>
        /\ file' \in {file, Append(file, Piece)} /\ Spend("full")
    BY <1>7 DEF AppendFails
  <2>1. WriterAtEnd' /\ SeenIsSo' /\ CutKept'  BY <2>0, LeftAlone
  <2>2. /\ file' \in Seq(CellSet) /\ Verified(file') = Verified(file)
        /\ \A c \in Chain : Reads(file, c) => Reads(file', c)
        /\ Len(file') <= Off(Len(Verified(file))) + Width
        /\ Len(file') > Off(Len(Verified(file))) => file'[Off(Len(Verified(file))) + 1] # Zero
        /\ Len(file') = Off(Len(Verified(file))) + Width => file'[Len(file')] = Piece
    BY <2>0, TornWriteDoes
  <2>3. AckedReads' /\ DurableBehind'  BY <2>0, <2>2, FileGrows
  <2>4. TailFits'  BY <2>2 DEF TailFits
  <2> QED BY <2>1, <2>3, <2>4 DEF Data
<1>8. ASSUME NEW p \in Process, Exit(p) PROVE Data'
  <2>1. phase[p] # "out" /\ Leave(p) /\ UNCHANGED <<file, durable, acked, budget>>  BY <1>8 DEF Exit
  <2>2. WriterAtEnd' /\ SeenIsSo' /\ CutKept'  BY <2>1, LeftAlone
  <2>3. AckedReads' /\ DurableBehind' /\ TailFits'  BY <2>1, <1>b, FileAlone
  <2> QED BY <2>2, <2>3 DEF Data
<1>9. ASSUME NEW p \in Process, ReadChain(p) PROVE Data'
  <2>1. NoOutage' => NoOutage  BY <1>9, <1>e, Spent DEF ReadChain
  <2>2. AckedReads' /\ DurableBehind' /\ TailFits'  BY <1>9, <2>1, FileAlone DEF ReadChain
  <2>3. phase'[p] = "read" /\ \A q \in Process : q # p => phase'[q] = "out"
    BY <1>9, <1>t DEF ReadChain, Alone
  <2>4. seen'[p] = [chain |-> Verified(file), tail |-> Len(Rest(file))] /\ file' = file
    BY <1>9 DEF ReadChain, Typed
  <2>5. Len(Rest(file)) = Len(file) - Off(Len(Verified(file)))  BY <1>t, RestIs
  <2>6. WriterAtEnd' /\ CutKept'  BY <2>3 DEF WriterAtEnd, CutKept
  <2>7. SeenIsSo'  BY <2>3, <2>4, <2>5 DEF SeenIsSo
  <2> QED BY <2>2, <2>6, <2>7 DEF Data
<1>10. ASSUME NEW p \in Process, TakeLock(p) PROVE Data'
  <2>1. AckedReads' /\ DurableBehind' /\ TailFits'  BY <1>10, <1>b, FileAlone DEF TakeLock
  <2>2. phase[p] = "read" /\ phase'[p] = "locked" /\ \A q \in Process : q # p => phase'[q] = "out"
    BY <1>10, <1>t, OthersOut DEF TakeLock
  <2>3. WriterAtEnd' /\ CutKept'  BY <2>2 DEF WriterAtEnd, CutKept
  <2>4. SeenIsSo'  BY <1>10, <2>2 DEF TakeLock, Data, SeenIsSo
  <2> QED BY <2>1, <2>3, <2>4 DEF Data
<1>11. ASSUME NEW p \in Process, Refused(p) PROVE Data'
  <2>1. phase[p] # "out" /\ Leave(p) /\ UNCHANGED <<file, durable, acked, budget>>  BY <1>11 DEF Refused
  <2>2. WriterAtEnd' /\ SeenIsSo' /\ CutKept'  BY <2>1, LeftAlone
  <2>3. AckedReads' /\ DurableBehind' /\ TailFits'  BY <2>1, <1>b, FileAlone
  <2> QED BY <2>2, <2>3 DEF Data
<1>12. ASSUME NEW p \in Process, SaveTail(p) PROVE Data'
  <2>1. AckedReads' /\ DurableBehind' /\ TailFits'  BY <1>12, <1>b, FileAlone DEF SaveTail
  <2>2. phase[p] = "locked" /\ phase'[p] = "cut" /\ \A q \in Process : q # p => phase'[q] = "out"
    BY <1>12, <1>t, OthersOut DEF SaveTail
  <2>3. WriterAtEnd'  BY <2>2 DEF WriterAtEnd
  <2>4. SeenIsSo'  BY <1>12, <2>2 DEF SaveTail, Data, SeenIsSo
  <2>5. CutOff(p)' = CutOff(p)  BY <1>12 DEF SaveTail, CutOff, CutTo
  <2>6. CutKept'
    <3>1. CutOff(p) \subseteq saved'  BY <1>12 DEF SaveTail
    <3> QED BY <2>2, <2>5, <3>1 DEF CutKept
  <2> QED BY <2>1, <2>3, <2>4, <2>6 DEF Data
<1>13. ASSUME NEW p \in Process, CutTail(p) PROVE Data'
  <2>0. phase[p] = "cut" /\ phase'[p] = "open" /\ \A q \in Process : q # p => phase'[q] = "out"
    BY <1>13, <1>t, OthersOut DEF CutTail
  <2>1. /\ file' \in Seq(CellSet) /\ Verified(file') = Verified(file) /\ head' = Verified(file)
        /\ Len(file') = Off(Len(head')) /\ Reads(file', head')
        /\ \A c \in Chain : Reads(file, c) => Reads(file', c)
    BY <1>13, CutTailDoes
  <2>2. AckedReads' /\ DurableBehind'  BY <1>13, <2>1, FileGrows DEF CutTail
  <2>3. SeenIsSo' /\ CutKept'  BY <2>0 DEF SeenIsSo, CutKept
  <2>4. part' = 0  BY <1>13, <2>0 DEF CutTail, Control, Holding
  <2>5. Len(file') \in Nat /\ Len(file') = Len(file') + 0  BY <2>1
  <2>6. WriterAtEnd'  BY <2>0, <2>1, <2>4, <2>5 DEF WriterAtEnd, Sofar
  <2>7. TailFits'  BY <2>1, <2>5, <1>w DEF TailFits
  <2> QED BY <2>2, <2>3, <2>6, <2>7 DEF Data
<1>14. ASSUME NEW p \in Process, Kill(p) PROVE Data'
  <2>0. phase[p] # "out" /\ Leave(p) /\ UNCHANGED <<durable, acked>> /\ Spend("kill")  BY <1>14 DEF Kill
  <2>1. WriterAtEnd' /\ SeenIsSo' /\ CutKept'  BY <2>0, LeftAlone
  <2>2. NoOutage' => NoOutage  BY <2>0, <1>e, Spent
  <2>3. CASE phase[p] = "open" /\ part \in 1 .. Width
    <3>1. file' \in {file, Append(file, Piece)}  BY <1>14, <2>3 DEF Kill
    <3>2. /\ file' \in Seq(CellSet) /\ Verified(file') = Verified(file)
          /\ \A c \in Chain : Reads(file, c) => Reads(file', c)
          /\ Len(file') <= Off(Len(Verified(file))) + Width
          /\ Len(file') > Off(Len(Verified(file))) => file'[Off(Len(Verified(file))) + 1] # Zero
          /\ Len(file') = Off(Len(Verified(file))) + Width => file'[Len(file')] = Piece
      BY <2>3, <3>1, TornWriteDoes
    <3>3. AckedReads' /\ DurableBehind'  BY <2>0, <3>2, FileGrows
    <3>4. TailFits'  BY <3>2 DEF TailFits
    <3> QED BY <2>1, <3>3, <3>4 DEF Data
  <2>4. CASE ~(phase[p] = "open" /\ part \in 1 .. Width)
    <3>1. file' = file  BY <1>14, <2>4 DEF Kill
    <3>2. AckedReads' /\ DurableBehind' /\ TailFits'  BY <2>0, <2>2, <3>1, FileAlone
    <3> QED BY <2>1, <3>2 DEF Data
  <2> QED BY <2>3, <2>4
<1> QED
  BY <1>1, <1>2, <1>3, <1>4, <1>5, <1>6, <1>7, <1>8, <1>9, <1>10, <1>11, <1>12, <1>13, <1>14
  DEF Next, Write, Resume

(* Nothing reads off an empty file, and nothing is verified. *)
LEMMA EmptyFile ==
  /\ <<>> \in Seq(CellSet) /\ <<>> \in Chain /\ Reads(<<>>, <<>>) /\ Verified(<<>>) = <<>>
  /\ Len(<<>>) = 0 /\ Off(0) = 0
<1>0. <<>> \in Seq(CellSet) /\ <<>> \in Seq(Entry)  OBVIOUS
<1>1. PICK f \in Seq(CellSet) : f = <<>>  BY <1>0, Zenon
<1>2. PICK c \in Chain : c = <<>>  BY <1>0, Zenon DEF Chain
<1>3. Reads(f, c)  BY <1>2, NothingReads
<1>4. Len(f) = 0 /\ Len(c) = 0 /\ Off(0) = 0  BY <1>1, <1>2, Offsets
<1>5. Len(f) < Off(Len(c)) + Width  BY <1>4, Widths
<1>6. Verified(f) = c  BY <1>3, <1>5, VerifiedWhenShort
<1> QED BY <1>1, <1>2, <1>3, <1>4, <1>6

(* There is no journal yet. *)
LEMMA InitInOrder == Init => IInv
<1> SUFFICES ASSUME Init PROVE IInv
  OBVIOUS
<1>0. Width \in Nat \ {0} /\ <<>> \in Chain /\ <<>> \in Seq(CellSet) /\ 0 \in 0 .. Width + 1
  BY Widths DEF Chain
<1>1. MaxEvents \in [EventKind -> Nat] /\ MaxEvents["power"] \in Nat  BY JournalAssumption DEF EventKind
<1>2. Typed  BY <1>0, <1>1 DEF Init, Typed
<1>3. Control  BY JournalAssumption DEF Init, Control, OneAtATime, Holding, Fresh, Inside
<1>4. Reads(<<>>, <<>>) /\ Len(<<>>) = 0 /\ Off(0) = 0  BY EmptyFile
<1>5. Verified(<<>>) = <<>>  BY EmptyFile
<1>6. AckedReads /\ DurableBehind  BY <1>4, <1>5 DEF Init, AckedReads, DurableBehind
<1>7. TailFits  BY <1>0, <1>4, <1>5 DEF Init, TailFits
<1>8. WriterAtEnd /\ SeenIsSo /\ CutKept  BY DEF Init, WriterAtEnd, SeenIsSo, CutKept
<1> QED BY <1>2, <1>3, <1>6, <1>7, <1>8 DEF IInv, Data

(* Every step keeps the whole invariant. *)
LEMMA StepInOrder == IInv /\ Overlap = FALSE /\ [Next]_vars => IInv'
<1> SUFFICES ASSUME IInv, Overlap = FALSE, [Next]_vars PROVE IInv'
  OBVIOUS
<1>1. CASE Next  BY <1>1, TypedKept, ControlKept, DataKept DEF IInv
<1>2. CASE UNCHANGED vars
  <2>1. Typed'  BY <1>2 DEF vars, IInv, Typed
  <2>2. Control'  BY <1>2 DEF vars, IInv, Control, OneAtATime, Holding, Fresh
  <2>3. AckedReads' /\ DurableBehind' /\ TailFits'
    BY <1>2, FileAlone DEF vars, IInv, NoOutage
  <2>4. WriterAtEnd' /\ SeenIsSo'
    BY <1>2 DEF vars, IInv, Data, WriterAtEnd, SeenIsSo, Sofar
  <2>5. CutKept'  BY <1>2 DEF vars, IInv, Data, CutKept, CutOff, CutTo
  <2> QED BY <2>1, <2>2, <2>3, <2>4, <2>5 DEF IInv, Data
<1> QED BY <1>1, <1>2

(* The inductive invariant. An open file is the chain of its writer and the *)
(* writes of one append; what a resume has seen of the file is still so     *)
(* when it cuts; the tail it cuts is in .tailsave; what append has          *)
(* acknowledged reads off the file and off what an outage leaves; and,      *)
(* short of an outage, behind the verified records stands at most one       *)
(* record, begun and not finished. For any processes and any number of      *)
(* records, kills, outages, full disks and resumes, provided that none is   *)
(* started while another process has the journal.                           *)
THEOREM JournalInOrder == ASSUME Overlap = FALSE PROVE Spec => []IInv
<1>1. Init => IInv  BY InitInOrder
<1>2. IInv /\ [Next]_vars => IInv'  BY StepInOrder
<1> QED BY <1>1, <1>2, PTL DEF Spec

(* The length a resume cuts the file to is never negative. *)
LEMMA TypesFollow == IInv => TypeOK
<1> SUFFICES ASSUME IInv PROVE TypeOK
  OBVIOUS
<1>1. ASSUME NEW p \in Process, phase[p] \in {"locked", "cut"} PROVE CutTo(p) >= 0
  <2>1. file \in Seq(CellSet) /\ seen[p].tail = Len(file) - Off(Len(Verified(file)))
    BY <1>1 DEF IInv, Typed, Data, SeenIsSo
  <2>2. Off(Len(Verified(file))) \in Nat /\ Len(file) \in Nat  BY <2>1, RestIs
  <2> QED BY <2>1, <2>2 DEF CutTo
<1> QED BY <1>1 DEF IInv, Typed, TypeOK

(* The fields of JournalWriter and of the reader's summary keep their       *)
(* types, and the subtraction in cmd_resume never wraps.                    *)
THEOREM TypeCorrect == ASSUME Overlap = FALSE PROVE Spec => []TypeOK
<1>1. IInv => TypeOK  BY TypesFollow
<1>2. Spec => []IInv  BY JournalInOrder
<1> QED BY <1>1, <1>2, PTL

(* A record begun and not finished is what the reader calls torn. *)
LEMMA ReadableFollows == IInv => TornTailRecoverable
<1> SUFFICES ASSUME IInv, NoOutage, Verified(file) # <<>> PROVE Readable(file)
  BY DEF TornTailRecoverable
<1>0. Width \in Nat \ {0} /\ file \in Seq(CellSet)  BY Widths DEF IInv, Typed
<1>1. PICK o \in Nat : o = Off(Len(Verified(file)))  BY <1>0, RestIs
<1>2. PICK t \in Seq(CellSet) : t = Rest(file)  BY <1>0, RestIs
<1>3. Len(t) = Len(file) - o /\ \A i \in 1 .. Len(t) : t[i] = file[o + i]
  BY <1>0, <1>1, <1>2, RestIs
<1>4. /\ Len(file) <= o + Width
      /\ Len(file) > o => file[o + 1] # Zero
      /\ Len(file) = o + Width => file[Len(file)] = Piece
  BY <1>1 DEF IInv, Data, TailFits
<1>5. Wanted(file) = Width
  <2>1. VerifiedCount(file) # 0
    <3>1. Verified(file) \in Chain /\ Len(Verified(file)) = VerifiedCount(file)  BY <1>0, VerifiedReads
    <3> QED BY <3>1 DEF Chain
  <2> QED BY <2>1 DEF Wanted
<1>6. CASE t = <<>>
  BY <1>2, <1>6 DEF Readable, Verdict
<1>7. CASE t # <<>>
  <2>1. Len(t) \in Nat /\ Len(t) > 0 /\ Len(file) \in Nat /\ Len(t) <= Width
    BY <1>0, <1>3, <1>4, <1>7
  <2>2. t[1] # Zero  BY <2>1, <1>3, <1>4
  <2>3. Len(t) = Width => t[Len(t)] = Piece  BY <2>1, <1>3, <1>4
  <2>4. IsTorn(file)  BY <2>1, <2>3, <1>0, <1>2, <1>5 DEF IsTorn
  <2>5. ~ (\A i \in 1 .. Len(t) : t[i] = Zero)  BY <2>1, <2>2
  <2>6. Verdict(file) = "torn"  BY <2>2, <2>4, <2>5, <1>2, <1>7 DEF Verdict
  <2> QED BY <2>6 DEF Readable
<1> QED BY <1>6, <1>7

(* Torn tails are recoverable: wherever a kill or a full disk strikes, a    *)
(* journal whose Header is complete can be read and resumed.                *)
THEOREM TornTails == ASSUME Overlap = FALSE PROVE Spec => []TornTailRecoverable
<1>1. IInv => TornTailRecoverable  BY ReadableFollows
<1>2. Spec => []IInv  BY JournalInOrder
<1> QED BY <1>1, <1>2, PTL

(* What the JournalReader's documentation says of resuming is so as long as *)
(* no resume is started while the run it resumes is still ending.           *)
THEOREM ResumeKeeps == ASSUME Overlap = FALSE PROVE Spec => []ResumeKeepsChain
<1>1. IInv /\ TornTailRecoverable => ResumeKeepsChain
  <2> SUFFICES ASSUME IInv, TornTailRecoverable, NoOutage, acked # <<>> PROVE Readable(file)
    BY DEF ResumeKeepsChain
  <2>1. acked \in Chain /\ file \in Seq(CellSet) /\ Reads(file, acked)
    BY DEF IInv, Typed, Data, AckedReads
  <2>2. Len(acked) \in Nat /\ Len(acked) > 0  BY <2>1 DEF Chain
  <2>3. Len(acked) <= Len(Verified(file)) /\ Verified(file) \in Chain
    BY <2>1, VerifiedPrefix, VerifiedReads
  <2>4. Verified(file) # <<>>  BY <2>2, <2>3 DEF Chain
  <2> QED BY <2>4 DEF TornTailRecoverable
<1>2. Spec => []IInv  BY JournalInOrder
<1>3. Spec => []TornTailRecoverable  BY TornTails
<1> QED BY <1>1, <1>2, <1>3, PTL

(* Only the cut of open_for_resume shortens the file, short of an outage. *)
LEMMA OnlyCutsShorten ==
  ASSUME IInv, Overlap = FALSE, [Next]_vars, Len(file') < Len(file), budget' = budget
  PROVE  SubSeq(file, Len(file') + 1, Len(file)) \in saved
<1>e. {"kill", "power", "full", "resume"} = EventKind  BY DEF EventKind
<1>t. Typed /\ Data /\ file \in Seq(CellSet) /\ Len(file) \in Nat  BY DEF IInv, Typed
<1>1. CASE PowerLoss  BY <1>1, <1>e, <1>t, Spent DEF PowerLoss
<1>2. ASSUME NEW p \in Process, CutTail(p)
      PROVE  SubSeq(file, Len(file') + 1, Len(file)) \in saved
  <2>1. Len(file') = CutTo(p)  BY <1>2, <1>t, CutTailDoes
  <2>2. CutOff(p) \subseteq saved  BY <1>2, <1>t DEF CutTail, Data, CutKept
  <2>3. CutOff(p) = {SubSeq(file, CutTo(p) + 1, Len(file))}  BY <2>1 DEF CutOff
  <2> QED BY <2>1, <2>2, <2>3
<1>3. ASSUME NEW p \in Process, WriteCell(p) PROVE FALSE
  <2>1. Len(file') = Len(file) + 1
    <3>1. file' = Append(file, Cell(part, cur[1], head))  BY <1>3 DEF WriteCell
    <3> QED BY <3>1, <1>t
  <2> QED BY <2>1, <1>t
<1>4. ASSUME NEW p \in Process, AppendFails(p) \/ Kill(p) PROVE FALSE
  <2>1. \E e \in EventKind : Spend(e)  BY <1>4, <1>e DEF AppendFails, Kill
  <2> QED BY <2>1, <1>t, Spent
<1>5. CASE file' = file  BY <1>5, <1>t
<1>6. PowerLoss \/ file' = file
      \/ \E p \in Process : CutTail(p) \/ WriteCell(p) \/ AppendFails(p) \/ Kill(p)
  BY DEF Next, vars, Write, Resume, CreateNew, WriteMagic, BeginAppend, SyncAppend, Exit,
         ReadChain, TakeLock, Refused, SaveTail
<1> QED BY <1>1, <1>2, <1>3, <1>4, <1>5, <1>6

(* open_for_resume never takes a byte off the journal that .tailsave does   *)
(* not already keep.                                                        *)
THEOREM TailsSaved == ASSUME Overlap = FALSE PROVE Spec => CutIsSaved
<1>1. IInv /\ [Next]_vars =>
        [Len(file') < Len(file) /\ budget' = budget =>
           SubSeq(file, Len(file') + 1, Len(file)) \in saved]_vars
  BY OnlyCutsShorten
<1>2. Spec => []IInv  BY JournalInOrder
<1> QED BY <1>1, <1>2, PTL DEF Spec, CutIsSaved

(* An empty journal is an empty log. *)
LEMMA InitImplements == Init => Log!Init
<1> SUFFICES ASSUME Init PROVE Log!Init
  OBVIOUS
<1> QED BY EmptyFile DEF Init, Log!Init

(* The last write of an append publishes the record, sync_data acknowledges *)
(* what can be read, an outage loses nothing acknowledged, and every other  *)
(* step, the cut of a resume included, leaves the log as it was.            *)
LEMMA StepImplements ==
  ASSUME IInv, Overlap = FALSE, [Next]_vars
  PROVE  [Log!Next]_<<Verified(file), acked>>
<1>t. Typed /\ Data /\ file \in Seq(CellSet) /\ durable \in Seq(CellSet) /\ acked \in Chain
  BY DEF IInv, Typed
<1>1. CASE PowerLoss
  <2>1. PICK g \in Survivors : g = file' /\ acked' = acked  BY <1>1 DEF PowerLoss
  <2>2. /\ g \in Seq(CellSet) /\ Reads(g, acked) /\ Reads(file, Verified(g))
    BY <1>t, SurvivorsRead DEF Data, AckedReads, DurableBehind
  <2>3. PICK v \in Chain : v = Verified(g)  BY <2>2, VerifiedReads
  <2>4. Len(v) \in Nat /\ Len(acked) \in Nat /\ Len(Verified(file)) \in Nat
    BY <1>t, VerifiedReads DEF Chain
  <2>5. Len(v) <= Len(Verified(file)) /\ v = SubSeq(Verified(file), 1, Len(v))
    BY <1>t, <2>2, <2>3, VerifiedPrefix
  <2>6. Len(acked) <= Len(v)  BY <1>t, <2>2, <2>3, VerifiedPrefix
  <2>7. Len(v) \in Len(acked) .. Len(Verified(file))  BY <2>4, <2>5, <2>6
  <2>8. Verified(file)' = SubSeq(Verified(file), 1, Len(v))  BY <2>1, <2>3, <2>5
  <2> QED BY <2>1, <2>7, <2>8 DEF Log!Next, Log!Lose
<1>2. ASSUME NEW p \in Process, WriteCell(p) PROVE [Log!Next]_<<Verified(file), acked>>
  <2>0. part \in 1 .. Width /\ acked' = acked /\ phase[p] = "open"  BY <1>2 DEF WriteCell
  <2>1. /\ Verified(file) = head
        /\ part < Width => Verified(file') = head
        /\ part = Width => Verified(file') = Append(head, cur[1])
    BY <1>2, <1>t, WriteCellDoes
  <2>2. CASE part < Width  BY <2>0, <2>1, <2>2
  <2>3. CASE part = Width
    <3>1. cur[1] \in Entry  BY <2>0, <1>t, OpenFile, Widths
    <3>2. Verified(file)' = Append(Verified(file), cur[1])  BY <2>1, <2>3
    <3> QED BY <2>0, <3>1, <3>2 DEF Log!Next, Log!Publish
  <2> QED BY <2>0, <2>2, <2>3, Widths
<1>3. ASSUME NEW p \in Process, SyncAppend(p) PROVE [Log!Next]_<<Verified(file), acked>>
  <2>1. Verified(file) = head \o cur  BY <1>3, <1>t, WrittenRecord DEF SyncAppend
  <2>2. acked' = Verified(file) /\ Verified(file)' = Verified(file)  BY <1>3, <2>1 DEF SyncAppend
  <2> QED BY <2>2 DEF Log!Next, Log!Acknowledge
<1>4. ASSUME NEW p \in Process, AppendFails(p) \/ Kill(p) PROVE [Log!Next]_<<Verified(file), acked>>
  <2>1. acked' = acked  BY <1>4 DEF AppendFails, Kill
  <2>2. \/ file' = file
        \/ phase[p] = "open" /\ part \in 1 .. Width /\ file' \in {file, Append(file, Piece)}
    BY <1>4 DEF AppendFails, Kill
  <2>3. Verified(file') = Verified(file)  BY <2>2, <1>t, TornWriteDoes
  <2> QED BY <2>1, <2>3
<1>5. ASSUME NEW p \in Process, CutTail(p) PROVE [Log!Next]_<<Verified(file), acked>>
  <2>1. Verified(file') = Verified(file)  BY <1>5, <1>t, CutTailDoes
  <2>2. acked' = acked  BY <1>5 DEF CutTail
  <2> QED BY <2>1, <2>2
<1>6. CASE UNCHANGED <<file, acked>>
  BY <1>6
<1>7. PowerLoss \/ UNCHANGED <<file, acked>>
      \/ \E p \in Process : WriteCell(p) \/ SyncAppend(p) \/ AppendFails(p) \/ Kill(p) \/ CutTail(p)
  BY DEF Next, vars, Write, Resume, CreateNew, WriteMagic, BeginAppend, Exit,
         ReadChain, TakeLock, Refused, SaveTail
<1> QED BY <1>1, <1>2, <1>3, <1>4, <1>5, <1>6, <1>7

(* The journal implements AppendLog: whatever kills, outages and full disks *)
(* strike, and however often the run is resumed, a record whose append      *)
(* returned stays readable in front of everything else.                     *)
THEOREM KeepsTheLog == ASSUME Overlap = FALSE PROVE Spec => ImplementsLog
<1>1. Init => Log!Init  BY InitImplements
<1>2. IInv /\ [Next]_vars => [Log!Next]_<<Verified(file), acked>>  BY StepImplements
<1>3. Spec => []IInv  BY JournalInOrder
<1> QED BY <1>1, <1>2, <1>3, PTL DEF Spec, ImplementsLog, Log!Spec

=============================================================================
