--------------------------- MODULE PemSplitProofs ---------------------------
(***************************************************************************)
(* splitPEM's result is exact for every file: IInv is inductive and gives  *)
(* the three properties of PemSplit.                                       *)
(***************************************************************************)
EXTENDS PemSplit, SequenceTheorems, TLAPS

LEMMA InitIInv == Init => IInv
  <1>1. SUFFICES ASSUME Init PROVE IInv
    OBVIOUS
  <1>2. raw \in Seq(Item) /\ Len(raw) \in Nat /\ DOMAIN raw = 1..Len(raw)
    BY <1>1, FilesAssumption DEF Init
  <1>3. blocks \in Seq(DOMAIN raw) /\ DOMAIN blocks = {}
    BY <1>1 DEF Init
  <1>4. Scanned = {}
    BY <1>1 DEF Init, Scanned
  <1>5. interBlock \in BOOLEAN /\ returned \in BOOLEAN /\ ~interBlock /\ ~returned
    BY <1>1, Zenon DEF Init
  <1>6. TypeOK
    BY <1>1, <1>2, <1>3, <1>5 DEF Init, TypeOK
  <1>7. BlocksInOrder
    BY <1>3 DEF BlocksInOrder
  <1> QED
    BY <1>3, <1>4, <1>5, <1>6, <1>7, Zenon DEF IInv

\* Decode consumes raw up to j, where raw[j] is the block it returns, and marks
\* everything else it has stepped over.
LEMMA AppendBlock ==
  ASSUME IInv, ~returned,
         NEW j \in DOMAIN raw, j >= pos, raw[j] = "block",
         blocks' = Append(blocks, j), pos' = j + 1,
         raw' = raw, returned' = returned,
         interBlock' \in BOOLEAN,
         interBlock => interBlock',
         interBlock' => \E i \in DOMAIN raw : Stray(i),
         ~interBlock' => \A k \in pos..(j - 1) : raw[k] = "white"
  PROVE  IInv'
  <1>1. /\ raw \in Seq(Item) /\ Len(raw) \in Nat /\ DOMAIN raw = 1..Len(raw)
        /\ pos \in 1..(Len(raw) + 1) /\ j \in Int
    BY FilesAssumption DEF IInv, TypeOK
  <1>2. /\ blocks \in Seq(DOMAIN raw) /\ Len(blocks) \in Nat
        /\ DOMAIN blocks = 1..Len(blocks)
    BY DEF IInv, TypeOK
  <1>3. /\ blocks' \in Seq(DOMAIN raw)
        /\ Len(blocks') = Len(blocks) + 1
        /\ DOMAIN blocks' = 1..(Len(blocks) + 1)
        /\ \A n \in DOMAIN blocks : blocks'[n] = blocks[n]
        /\ blocks'[Len(blocks) + 1] = j
    BY <1>2
  <1>4. TypeOK'
    BY <1>1, <1>3 DEF IInv, TypeOK
  <1>5. \A n \in DOMAIN blocks : blocks[n] \in Int /\ blocks[n] < j
    BY <1>1, <1>2 DEF IInv, Scanned
  <1>6. BlocksInOrder'
    <2>1. \A n \in DOMAIN blocks' : raw'[blocks'[n]] = "block"
      BY <1>2, <1>3 DEF IInv, BlocksInOrder
    <2>2. ASSUME NEW m \in DOMAIN blocks', NEW n \in DOMAIN blocks', m < n
          PROVE  blocks'[m] < blocks'[n]
      <3>1. m \in DOMAIN blocks
        BY <1>2, <1>3, <2>2
      <3>2. CASE n \in DOMAIN blocks
        BY <1>3, <2>2, <3>1, <3>2 DEF IInv, BlocksInOrder
      <3>3. CASE n = Len(blocks) + 1
        BY <1>3, <1>5, <3>1, <3>3
      <3> QED
        BY <1>2, <1>3, <3>2, <3>3
    <2> QED
      BY <2>1, <2>2 DEF BlocksInOrder
  <1>7. \A n \in DOMAIN blocks' : blocks'[n] \in Scanned'
    <2>1. Scanned' = 1..j
      BY <1>1 DEF Scanned
    <2>2. \A n \in DOMAIN blocks : blocks[n] \in 1..j
      BY <1>1, <1>2, <1>5
    <2> QED
      BY <1>1, <1>2, <1>3, <2>1, <2>2
  <1>8. interBlock' => \E i \in DOMAIN raw' : Stray(i)'
    BY DEF Stray
  <1>9. ASSUME ~interBlock', NEW i \in Scanned'
        PROVE  /\ ~Stray(i)'
               /\ raw'[i] = "block" => \E n \in DOMAIN blocks' : blocks'[n] = i
    <2>1. i \in 1..j /\ ~interBlock
      BY <1>1, <1>9 DEF Scanned
    <2>2. CASE i \in Scanned
      <3>1. /\ ~Stray(i)
            /\ raw[i] = "block" => \E n \in DOMAIN blocks : blocks[n] = i
        BY <2>1, <2>2 DEF IInv
      <3> QED
        BY <1>2, <1>3, <3>1 DEF Stray
    <2>3. CASE i \in pos..(j - 1)
      <3>1. raw[i] = "white"
        BY <1>9, <2>3
      <3> QED
        BY <3>1 DEF Stray
    <2>4. CASE i = j
      BY <1>2, <1>3, <2>4 DEF Stray
    <2> QED
      BY <1>1, <2>1, <2>2, <2>3, <2>4 DEF Scanned
  <1> QED
    BY <1>4, <1>6, <1>7, <1>8, <1>9 DEF IInv

LEMMA NextIInv == IInv /\ [Next]_vars => IInv'
  <1> SUFFICES ASSUME IInv, [Next]_vars PROVE IInv'
    OBVIOUS
  <1>0. /\ raw \in Seq(Item) /\ Len(raw) \in Nat /\ DOMAIN raw = 1..Len(raw)
        /\ pos \in 1..(Len(raw) + 1)
        /\ \A i \in DOMAIN raw : raw[i] \in Item
    BY FilesAssumption DEF IInv, TypeOK
  <1>1. CASE ReturnAtEnd
    <2>0. interBlock' <=> interBlock \/ HasText(pos, Len(raw))
      BY <1>1, Zenon DEF ReturnAtEnd
    <2>1. TypeOK' /\ BlocksInOrder' /\ Scanned' = Scanned
      BY <1>1 DEF ReturnAtEnd, IInv, TypeOK, BlocksInOrder, Scanned
    <2>2. interBlock' => \E i \in DOMAIN raw : Stray(i)
      <3>1. interBlock => \E i \in DOMAIN raw : Stray(i)
        BY DEF IInv
      <3>2. HasText(pos, Len(raw)) => \E i \in DOMAIN raw : Stray(i)
        BY <1>0 DEF HasText, Stray
      <3> QED
        BY <2>0, <3>1, <3>2, Zenon
    <2>3. ~interBlock' => \A i \in pos..Len(raw) : raw[i] = "white"
      <3>1. ~HasText(pos, Len(raw)) => \A i \in pos..Len(raw) : raw[i] = "white"
        BY <1>0, <1>1 DEF ReturnAtEnd, HasText, HasBegin, Item
      <3> QED
        BY <2>0, <3>1, Zenon
    <2> QED
      BY <1>1, <2>1, <2>2, <2>3 DEF ReturnAtEnd, IInv, Stray
  <1>2. ASSUME NEW i \in DOMAIN raw, DecodeBlock(i) PROVE IInv'
    <2>0. interBlock' <=> interBlock \/ HasText(pos, i - 1)
      BY <1>2, Zenon DEF DecodeBlock
    <2>1. i >= pos
      BY <1>0, <1>2 DEF DecodeBlock, FirstBegin
    <2>2. interBlock' => \E k \in DOMAIN raw : Stray(k)
      <3>1. interBlock => \E k \in DOMAIN raw : Stray(k)
        BY DEF IInv
      <3>2. HasText(pos, i - 1) => \E k \in DOMAIN raw : Stray(k)
        BY <1>0 DEF HasText, Stray
      <3> QED
        BY <2>0, <3>1, <3>2, Zenon
    <2>3. ~interBlock' => \A k \in pos..(i - 1) : raw[k] = "white"
      <3>1. ~HasText(pos, i - 1) => \A k \in pos..(i - 1) : raw[k] = "white"
        BY <1>0, <1>2 DEF DecodeBlock, FirstBegin, HasText, HasBegin, Item
      <3> QED
        BY <2>0, <3>1, Zenon
    <2>4. interBlock' \in BOOLEAN
      BY <1>2, Zenon DEF DecodeBlock
    <2> QED
      BY <1>2, <2>0, <2>1, <2>2, <2>3, <2>4, AppendBlock, Zenon DEF DecodeBlock
  <1>3. ASSUME NEW i \in DOMAIN raw, DecodeFails(i) PROVE IInv'
    BY <1>3 DEF DecodeFails, IInv, TypeOK, BlocksInOrder, Scanned, Stray
  <1>4. ASSUME NEW i \in DOMAIN raw, NEW j \in DOMAIN raw, DecodeSkips(i, j)
        PROVE  IInv'
    <2>1. j >= pos /\ \E k \in DOMAIN raw : Stray(k)
      BY <1>0, <1>4 DEF DecodeSkips, FirstBegin, Stray
    <2> QED
      BY <1>4, <2>1, AppendBlock DEF DecodeSkips
  <1>5. CASE UNCHANGED vars
    BY <1>5 DEF vars, IInv, TypeOK, BlocksInOrder, Scanned, Stray
  <1> QED
    BY <1>1, <1>2, <1>3, <1>4, <1>5 DEF Next, Terminated

LEMMA IInvImplies == IInv => InterBlockIsExact /\ NothingLost
  <1> SUFFICES ASSUME IInv, returned PROVE InterBlockIsExact /\ NothingLost
    BY DEF InterBlockIsExact, NothingLost
  <1>1. /\ Len(raw) \in Nat /\ DOMAIN raw = 1..Len(raw)
        /\ pos \in 1..(Len(raw) + 1)
    BY FilesAssumption DEF IInv, TypeOK
  <1>2. ASSUME NEW i \in DOMAIN raw PROVE i \in Scanned \/ i \in pos..Len(raw)
    BY <1>1 DEF Scanned
  <1>3. ASSUME ~interBlock, NEW i \in DOMAIN raw
        PROVE  /\ ~Stray(i)
               /\ raw[i] = "block" => \E n \in DOMAIN blocks : blocks[n] = i
    BY <1>2, <1>3 DEF IInv, Stray
  <1> QED
    BY <1>3 DEF IInv, InterBlockIsExact, NothingLost

LEMMA Invariance == Spec => []IInv
  BY InitIInv, NextIInv, PTL DEF Spec

\* The types of splitPEM's state hold for every file.
THEOREM TypeCorrect == Spec => []TypeOK
  <1>1. IInv => TypeOK
    BY DEF IInv
  <1> QED
    BY <1>1, Invariance, PTL

\* interBlock is exact for every file and every way pem.Decode steps over
\* malformed blocks.
THEOREM InterBlockTheorem == Spec => []InterBlockIsExact
  BY IInvImplies, Invariance, PTL

\* No block of a clean file is lost.
THEOREM NothingLostTheorem == Spec => []NothingLost
  BY IInvImplies, Invariance, PTL

\* The result lists blocks of the file, each once and in file order.
THEOREM OrderTheorem == Spec => []BlocksInOrder
  <1>1. IInv => BlocksInOrder
    BY DEF IInv
  <1> QED
    BY <1>1, Invariance, PTL
=============================================================================
