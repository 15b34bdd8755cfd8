------------------------------ MODULE PemSplit ------------------------------
(***************************************************************************)
(* credentialfolder.splitPEM: collect every PEM block of a file and say    *)
(* whether anything but white space sits outside them.  encoding/pem skips *)
(* stray text and malformed blocks silently, so the loop looks for the     *)
(* next BEGIN itself and measures what each pem.Decode has stepped over.   *)
(*                                                                         *)
(* A file is a sequence of items: "white" space, "text" (any other bytes), *)
(* a "block" pem.Decode can decode and a "broken" one that only looks like *)
(* one: its BEGIN is there but its END, its base64 or its header is not.   *)
(* pem.Decode is external: on a good block it returns that block; on a     *)
(* broken one it returns some later good block, not always the next, or    *)
(* nil.                                                                    *)
(***************************************************************************)
EXTENDS Integers, Sequences

CONSTANT Files       \* the files considered

Item == {"white", "text", "block", "broken"}

ASSUME FilesAssumption == Files \subseteq Seq(Item)

VARIABLES
    raw,          \* the file
    pos,          \* the first item of `rest`
    blocks,       \* the blocks collected, each by its position in raw
    interBlock,   \* data found outside them
    returned      \* the function has returned <<blocks, interBlock>>

vars == <<raw, pos, blocks, interBlock, returned>>

Init ==
    /\ raw \in Files
    /\ pos = 1
    /\ blocks = << >>
    /\ interBlock = FALSE
    /\ returned = FALSE

HasBegin(i) == raw[i] \in {"block", "broken"}

\* i is what bytes.Index(rest, pemBegin) finds.
FirstBegin(i) ==
    /\ i \in pos..Len(raw)
    /\ HasBegin(i)
    /\ \A k \in pos..(i - 1) : ~HasBegin(k)

\* len(bytes.TrimSpace(...)) > 0 for the items from..to.
HasText(from, to) == \E k \in from..to : raw[k] = "text"

\* No BEGIN left: what remains is judged as one gap.
ReturnAtEnd ==
    /\ ~returned
    /\ \A k \in pos..Len(raw) : ~HasBegin(k)
    /\ interBlock' = (interBlock \/ HasText(pos, Len(raw)))
    /\ returned' = TRUE
    /\ UNCHANGED <<raw, pos, blocks>>

\* Mutant: the loop goes on behind the item after the block.
DecodeBlockTooFar(i) ==
    /\ ~returned
    /\ FirstBegin(i) /\ raw[i] = "block"
    /\ interBlock' = (interBlock \/ HasText(pos, i - 1))
    /\ blocks' = Append(blocks, i)
    /\ pos' = i + 2
    /\ UNCHANGED <<raw, returned>>

\* Mutant: the block is put in front.
DecodeBlockInFront(i) ==
    /\ ~returned
    /\ FirstBegin(i) /\ raw[i] = "block"
    /\ interBlock' = (interBlock \/ HasText(pos, i - 1))
    /\ blocks' = <<i>> \o blocks
    /\ pos' = i + 1
    /\ UNCHANGED <<raw, returned>>

\* pem.Decode returns the block that starts at i.
DecodeBlock(i) ==
    /\ ~returned
    /\ FirstBegin(i) /\ raw[i] = "block"
    /\ interBlock' = (interBlock \/ HasText(pos, i - 1))
    /\ blocks' = Append(blocks, i)
    /\ pos' = i + 1
    /\ UNCHANGED <<raw, returned>>

\* Mutant: the BEGINs in what was consumed are not counted.
DecodeSkipsUncounted(i, j) ==
    /\ ~returned
    /\ FirstBegin(i) /\ raw[i] = "broken"
    /\ j \in (i + 1)..Len(raw) /\ raw[j] = "block"
    /\ interBlock' = (interBlock \/ HasText(pos, i - 1))
    /\ blocks' = Append(blocks, j)
    /\ pos' = j + 1
    /\ UNCHANGED <<raw, returned>>

\* pem.Decode steps over the broken block at i and returns the one at j: more
\* than one BEGIN has been consumed.
DecodeSkips(i, j) ==
    /\ ~returned
    /\ FirstBegin(i) /\ raw[i] = "broken"
    /\ j \in (i + 1)..Len(raw) /\ raw[j] = "block"
    /\ interBlock' = TRUE
    /\ blocks' = Append(blocks, j)
    /\ pos' = j + 1
    /\ UNCHANGED <<raw, returned>>

\* Mutant: nil is taken for the end of the file.
DecodeFailsQuietly(i) ==
    /\ ~returned
    /\ FirstBegin(i) /\ raw[i] = "broken"
    /\ returned' = TRUE
    /\ UNCHANGED <<raw, pos, blocks, interBlock>>

\* Mutant: nil is skipped, and the next Index finds the same BEGIN again.
DecodeFailsContinues(i) ==
    /\ ~returned
    /\ FirstBegin(i) /\ raw[i] = "broken"
    /\ interBlock' = TRUE
    /\ UNCHANGED <<raw, pos, blocks, returned>>

\* pem.Decode returns nil: there is a BEGIN, but nothing more to decode.
DecodeFails(i) ==
    /\ ~returned
    /\ FirstBegin(i) /\ raw[i] = "broken"
    /\ interBlock' = TRUE
    /\ returned' = TRUE
    /\ UNCHANGED <<raw, pos, blocks>>

Terminated == returned /\ UNCHANGED vars

Next ==
    \/ ReturnAtEnd
    \/ \E i \in DOMAIN raw : DecodeBlock(i) \/ DecodeFails(i)
    \/ \E i, j \in DOMAIN raw : DecodeSkips(i, j)
    \/ Terminated

Spec == Init /\ [][Next]_vars

\* The loop is one thread that runs until it returns.
FairSpec == Spec /\ WF_vars(Next)

---------------------------------------------------------------------------

\* pos stays in rest, and the blocks collected are items of the file.
TypeOK ==
    /\ raw \in Files
    /\ pos \in 1..(Len(raw) + 1)
    /\ blocks \in Seq(DOMAIN raw)
    /\ interBlock \in BOOLEAN
    /\ returned \in BOOLEAN

Stray(i) == raw[i] \in {"text", "broken"}

\* What checkFileShape relies on: interBlock is set exactly when the file has
\* text or a malformed block anywhere, however pem.Decode steps over it.
InterBlockIsExact ==
    returned => (interBlock <=> \E i \in DOMAIN raw : Stray(i))

\* What the checks of a clean file rely on: unless interBlock says so, every
\* block of the file is in the result.
NothingLost ==
    returned /\ ~interBlock
        => \A i \in DOMAIN raw :
               raw[i] = "block" => \E n \in DOMAIN blocks : blocks[n] = i

\* In any case the result is blocks of the file, each once, in file order:
\* "block 1" of a report is before "block 2".
BlocksInOrder ==
    /\ \A n \in DOMAIN blocks : raw[blocks[n]] = "block"
    /\ \A m, n \in DOMAIN blocks : m < n => blocks[m] < blocks[n]

\* A file never holds the loop for ever: each Decode consumes its BEGIN.
Returns == <>returned

\* What splitPEM has stepped over.
Scanned == 1..(pos - 1)

\* The strengthening that is inductive: at every turn of splitPEM's loop the
\* two verdicts are exact for what has been stepped over.
IInv ==
    /\ TypeOK
    /\ BlocksInOrder
    /\ \A n \in DOMAIN blocks : blocks[n] \in Scanned
    /\ interBlock => \E i \in DOMAIN raw : Stray(i)
    /\ ~interBlock =>
         \A i \in Scanned :
             /\ ~Stray(i)
             /\ raw[i] = "block" => \E n \in DOMAIN blocks : blocks[n] = i
    /\ returned /\ ~interBlock => \A i \in pos..Len(raw) : raw[i] = "white"
=============================================================================
