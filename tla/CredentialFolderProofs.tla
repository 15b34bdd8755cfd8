----------------------- MODULE CredentialFolderProofs -----------------------
(***************************************************************************)
(* For every timeline of folders, every content of their files and every   *)
(* interleaving with the provisioner: the scan of CredentialFolder judges  *)
(* each file as one version of it, and hangs only on the FIFO race; the    *)
(* report has one line per check and file, the exit code is the verdict on *)
(* what was read, and the whole run implements FolderAudit.                *)
(*                                                                         *)
(* The first part is about the checks alone: which lines each writes for   *)
(* every content of the files, and that together they fail exactly when a  *)
(* MUST of §2 is violated, whatever order, early return and fallback they  *)
(* take.  The second part, from the invariant on, is about the run.        *)
(***************************************************************************)
EXTENDS CredentialFolder, ReportProofs, FiniteSetTheorems

---------------------------------------------------------------------------
(* The checks append assertions, whatever they find.                       *)

LEMMA ClauseNames == FilesystemClauses \cup SpiffeIdClauses \subseteq Clause
  BY DEF Clause

LEMMA TagNames ==
  /\ "" \in Tags
  /\ CredentialBundleName \in Tags
  /\ TrustBundleName \subseteq Tags
  BY FolderAssumption, TagAssumption DEF SpecName

LEMMA PresenceType ==
  ASSUME NEW c, NEW t
  PROVE  CheckPresence(c, t) \in Seq(Assertion)
  <1>1. /\ "FSDCredentialBundlePresent" \in Clause
        /\ "FSDTrustBundlePresent" \in Clause
    BY ClauseNames DEF FilesystemClauses
  <1> QED
    <2>1. /\ Judge("FSDCredentialBundlePresent", c # None /\ ~c.problem,
                   CredentialBundleName) \in Seq(Assertion)
          /\ Judge("FSDTrustBundlePresent", t # << >>, "") \in Seq(Assertion)
      BY <1>1, AssertionType, TagNames DEF Judge
    <2> QED
      BY <2>1, Concatenation DEF CheckPresence

LEMMA FileShapeType ==
  ASSUME NEW tag \in Tags, NEW content, NEW allowed
  PROVE  CheckFileShape(tag, content, allowed) \in Seq(Assertion)
  <1>1. /\ "FSDNoOtherBlockTypes" \in Clause
        /\ "FSDNoInterBlockData" \in Clause
        /\ "FSDNoPEMHeaders" \in Clause
    BY ClauseNames DEF FilesystemClauses
  <1> QED
    BY <1>1, AssertionType DEF Judge, CheckFileShape

LEMMA ChainType ==
  ASSUME NEW ch, NEW key, NEW anchors
  PROVE  CheckChain(ch, key, anchors) \in Seq(Assertion)
  <1>1. /\ "FSDCredentialBundleChainOrder" \in Clause
        /\ "FSDCredentialBundleLeafKey" \in Clause
        /\ "FSDCredentialBundleLeafSVID" \in Clause
        /\ "FSDCredentialBundleNoTrustAnchor" \in Clause
    BY ClauseNames DEF FilesystemClauses
  <1>2. /\ CheckChainOrder(ch) \in Seq(Assertion)
        /\ CheckLeafKey(ch[1], key) \in Seq(Assertion)
        /\ CheckLeafSVID(ch[1]) \in Seq(Assertion)
        /\ CheckNoTrustAnchor(ch, anchors) \in Seq(Assertion)
    BY <1>1, AssertionType, TagNames
       DEF Judge, CheckChainOrder, CheckLeafKey, CheckLeafSVID, CheckNoTrustAnchor
  <1> QED
    BY <1>2 DEF CheckChain

LEMMA CredentialBundleType ==
  ASSUME NEW raw, NEW anchors
  PROVE  CheckCredentialBundle(raw, anchors) \in Seq(Assertion)
  <1>1. /\ "FSDCredentialBundleBlocks" \in Clause
        /\ "FSDCredentialBundlePrivateKey" \in Clause
        /\ "FSDCredentialBundleCertificates" \in Clause
    BY ClauseNames DEF FilesystemClauses
  <1>2. /\ Judge("FSDCredentialBundleBlocks", Len(raw.blocks) >= 2,
                 CredentialBundleName) \in Seq(Assertion)
        /\ CheckPrivateKey(raw.blocks[1]) \in Seq(Assertion)
        /\ CheckChainBlocks(ChainBlocks(raw.blocks)) \in Seq(Assertion)
    BY <1>1, AssertionType, TagNames DEF Judge, CheckPrivateKey, CheckChainBlocks
  <1>3. CheckFileShape(CredentialBundleName, raw, {"PRIVATE KEY", "CERTIFICATE"})
            \in Seq(Assertion)
    BY FileShapeType, TagNames
  <1>4. CheckChain(ChainOf(raw.blocks), PublicKey(raw.blocks[1]), anchors)
            \in Seq(Assertion)
    BY ChainType
  <1> QED
    BY <1>2, <1>3, <1>4, Concatenation, Zenon DEF CheckCredentialBundle

LEMMA TrustBundleType ==
  ASSUME NEW tb, tb.name \in TrustBundleName
  PROVE  CheckTrustBundle(tb) \in Seq(Assertion)
  <1>1. "FSDTrustBundleName" \in Clause /\ "FSDTrustBundleCertificates" \in Clause
    BY ClauseNames DEF FilesystemClauses
  <1>2. tb.name \in Tags
    BY TagNames
  <1>3. CheckTrustBundleName(tb.name) \in Seq(Assertion)
    <2>1. Judge("FSDTrustBundleName", TrustDomainOf[tb.name] # "", tb.name)
              \in Seq(Assertion)
      BY <1>1, <1>2, AssertionType DEF Judge
    <2>2. CheckTrustDomain(tb.name, TrustDomainOf[tb.name]) \in Seq(Assertion)
      BY <1>2, TrustDomainType
    <2> QED
      BY <2>1, <2>2, Concatenation DEF CheckTrustBundleName
  <1>4. CheckTrustBundleContent(tb.name, tb.raw) \in Seq(Assertion)
    BY <1>1, <1>2, AssertionType, FileShapeType DEF Judge, CheckTrustBundleContent
  <1>5. /\ Fail("FSDTrustBundleCertificates", tb.name) \in Seq(Assertion)
        /\ Pass("FSDTrustBundleCertificates", tb.name) \in Seq(Assertion)
    BY <1>1, <1>2, AssertionType DEF Judge
  <1> QED
    BY <1>3, <1>4, <1>5 DEF CheckTrustBundle

LEMMA OwnTrustBundleType ==
  ASSUME NEW ch, NEW tbs
  PROVE  CheckOwnTrustBundle(ch, tbs) \in Seq(Assertion)
  <1>1. /\ "FSDOwnTrustBundle" \in Clause
        /\ "FSDCredentialBundleChainComplete" \in Clause
    BY ClauseNames DEF FilesystemClauses
  <1>2. ASSUME NEW anchors
        PROVE  CheckChainComplete(ch, anchors) \in Seq(Assertion)
    <2>1. Judge("FSDCredentialBundleChainComplete",
                \E a \in anchors : IssuedBy(Last(ch), a), CredentialBundleName)
              \in Seq(Assertion)
      BY <1>1, AssertionType, TagNames DEF Judge
    <2> QED
      BY <2>1, Concatenation, Zenon DEF CheckChainComplete
  <1>3. Judge("FSDOwnTrustBundle", OwnBundle(ch[1], tbs) # {}, "") \in Seq(Assertion)
    BY <1>1, AssertionType, TagNames DEF Judge
  <1> QED
    BY <1>2, <1>3, Concatenation, Zenon DEF CheckOwnTrustBundle

\* The chain checkCredentialBundle returns is made of certificates.
LEMMA ChainOfType ==
  ASSUME NEW blocks \in Seq(Block)
  PROVE  ChainOf(blocks) \in Seq(DOMAIN Cert)
  <1>1. CASE blocks = << >> \/ ~ \A b \in ToSet(ChainBlocks(blocks)) : IsCert(b)
    <2>1. ChainOf(blocks) = << >>
      BY <1>1, Zenon DEF ChainOf
    <2> QED
      BY <2>1
  <1>2. CASE blocks # << >> /\ \A b \in ToSet(ChainBlocks(blocks)) : IsCert(b)
    <2> DEFINE s == ChainBlocks(blocks)
    <2>1. s \in Seq(Block)
      BY <1>2 DEF ChainBlocks
    <2>2. \A i \in DOMAIN s : s[i].body \in DOMAIN Cert
      BY <1>2 DEF ToSet, IsCert
    <2>3. DOMAIN s = 1..Len(s) /\ Len(s) \in Nat
      BY <2>1
    <2>4. ChainOf(blocks) = [i \in 1..Len(s) |-> s[i].body]
      BY <1>2, <2>3 DEF ChainOf
    <2> HIDE DEF s
    <2> QED
      BY <2>2, <2>3, <2>4
  <1> QED
    BY <1>1, <1>2

---------------------------------------------------------------------------
(* The clauses the checks write about.                                     *)

ShapeClauses == {"FSDNoOtherBlockTypes", "FSDNoInterBlockData", "FSDNoPEMHeaders"}

KeyClauses ==
    {"FSDCredentialBundleBlocks", "FSDCredentialBundlePrivateKey",
     "FSDCredentialBundleCertificates"}

ChainClauses ==
    {"FSDCredentialBundleChainOrder", "FSDCredentialBundleLeafKey",
     "FSDCredentialBundleLeafSVID", "FSDCredentialBundleNoTrustAnchor"}

NameClauses == {"FSDTrustBundleName"} \cup TrustDomainRules

OwnClauses == {"FSDOwnTrustBundle", "FSDCredentialBundleChainComplete"}

---------------------------------------------------------------------------
(* Which lines the checks write.                                           *)

LEMMA FolderClauses ==
  /\ ShapeClauses \subseteq Clause /\ KeyClauses \subseteq Clause
  /\ ChainClauses \subseteq Clause /\ NameClauses \subseteq Clause
  /\ OwnClauses \subseteq Clause
  /\ "FSDTrustBundleCertificates" \in Clause
  <1>1. ShapeClauses \subseteq FilesystemClauses /\ KeyClauses \subseteq FilesystemClauses
    BY DEF ShapeClauses, KeyClauses, FilesystemClauses
  <1>2. ChainClauses \subseteq FilesystemClauses /\ OwnClauses \subseteq FilesystemClauses
    BY DEF ChainClauses, OwnClauses, FilesystemClauses
  <1>3. NameClauses \subseteq FilesystemClauses \cup SpiffeIdClauses
    BY DEF NameClauses, TrustDomainRules, FilesystemClauses, SpiffeIdClauses
  <1>4. "FSDTrustBundleCertificates" \in FilesystemClauses
    BY DEF FilesystemClauses
  <1> QED
    BY <1>1, <1>2, <1>3, <1>4, ClauseNames

LEMMA FileShapeLines ==
  ASSUME NEW tag \in Tags, NEW content, NEW allowed
  PROVE  Writes(CheckFileShape(tag, content, allowed), ShapeClauses, tag)
  <1> DEFINE blocks == ToSet(content.blocks)
             j1 == Judge("FSDNoOtherBlockTypes", \A b \in blocks : b.type \in allowed, tag)
             j2 == Judge("FSDNoInterBlockData", ~content.stray, tag)
             j3 == Judge("FSDNoPEMHeaders", \A b \in blocks : ~b.headers, tag)
  <1>1. /\ "FSDNoOtherBlockTypes" \in Clause
        /\ "FSDNoInterBlockData" \in Clause
        /\ "FSDNoPEMHeaders" \in Clause
    BY FolderClauses DEF ShapeClauses
  <1>2. /\ Writes(j1, {"FSDNoOtherBlockTypes"}, tag)
        /\ Writes(j2, {"FSDNoInterBlockData"}, tag)
        /\ Writes(j3, {"FSDNoPEMHeaders"}, tag)
    BY <1>1, WritesOne, Zenon
  <1>3. CheckFileShape(tag, content, allowed) = j1 \o j2 \o j3
    BY DEF CheckFileShape
  <1> HIDE DEF j1, j2, j3
  <1>4. Writes(j1 \o j2, {"FSDNoOtherBlockTypes"} \cup {"FSDNoInterBlockData"}, tag)
    BY <1>2, WritesBoth
  <1>5. Writes(j1 \o j2 \o j3,
               {"FSDNoOtherBlockTypes"} \cup {"FSDNoInterBlockData"} \cup {"FSDNoPEMHeaders"}, tag)
    BY <1>2, <1>4, WritesBoth
  <1>6. {"FSDNoOtherBlockTypes"} \cup {"FSDNoInterBlockData"} \cup {"FSDNoPEMHeaders"}
          = ShapeClauses
    BY DEF ShapeClauses
  <1> QED
    BY <1>3, <1>5, <1>6

LEMMA BundleNameLines ==
  ASSUME NEW name \in TrustBundleName
  PROVE  Writes(CheckTrustBundleName(name), NameClauses, name)
  <1> DEFINE j1 == Judge("FSDTrustBundleName", TrustDomainOf[name] # "", name)
             j2 == CheckTrustDomain(name, TrustDomainOf[name])
  <1>1. "FSDTrustBundleName" \in Clause /\ name \in Tags
    BY FolderClauses, TagNames DEF NameClauses
  <1>2. Writes(j1, {"FSDTrustBundleName"}, name)
    BY <1>1, WritesOne, Zenon
  <1>3. Writes(j2, TrustDomainRules, name)
    BY <1>1, TrustDomainLines
  <1>4. CheckTrustBundleName(name) = j1 \o j2
    BY DEF CheckTrustBundleName
  <1> HIDE DEF j1, j2
  <1>5. {"FSDTrustBundleName"} \cap TrustDomainRules = {}
    BY DEF TrustDomainRules
  <1>6. Writes(j1 \o j2, {"FSDTrustBundleName"} \cup TrustDomainRules, name)
    BY <1>2, <1>3, <1>5, WritesBoth
  <1> QED
    BY <1>4, <1>6 DEF NameClauses

\* The last line of a trust bundle, and whatever led to it.
LEMMA BundleContentLines ==
  ASSUME NEW name \in TrustBundleName, NEW raw
  PROVE  /\ Writes(CheckTrustBundleContent(name, raw),
                   ShapeClauses \cup {"FSDTrustBundleCertificates"}, name)
         /\ Topic("FSDTrustBundleCertificates", name)
              \in Topics(CheckTrustBundleContent(name, raw))
  <1> DEFINE certs == {b \in ToSet(raw.blocks) : b.type = "CERTIFICATE"}
             j1 == CheckFileShape(name, raw, {"CERTIFICATE"})
             j2 == Judge("FSDTrustBundleCertificates",
                         certs # {} /\ \A b \in certs : IsCert(b), name)
  <1>1. name \in Tags /\ "FSDTrustBundleCertificates" \in Clause
    BY FolderClauses, TagNames
  <1>2. Writes(j1, ShapeClauses, name)
    BY <1>1, FileShapeLines
  <1>3. Writes(j2, {"FSDTrustBundleCertificates"}, name)
    BY <1>1, WritesOne, Zenon
  <1>4. Topic("FSDTrustBundleCertificates", name) \in Topics(j2)
    BY TopicOfOne, Zenon
  <1>5. CheckTrustBundleContent(name, raw) = j1 \o j2
    BY DEF CheckTrustBundleContent
  <1> HIDE DEF j1, j2
  <1>6. ShapeClauses \cap {"FSDTrustBundleCertificates"} = {}
    BY DEF ShapeClauses
  <1>7. Writes(j1 \o j2, ShapeClauses \cup {"FSDTrustBundleCertificates"}, name)
    BY <1>2, <1>3, <1>6, WritesBoth
  <1>8. Topic("FSDTrustBundleCertificates", name) \in Topics(j1 \o j2)
    BY <1>2, <1>3, <1>4, LineOfPart DEF Writes
  <1> QED
    BY <1>5, <1>7, <1>8

TrustBundleClauses == NameClauses \cup (ShapeClauses \cup {"FSDTrustBundleCertificates"})

LEMMA TrustBundleLines ==
  ASSUME NEW tb, tb.name \in TrustBundleName
  PROVE  /\ Writes(CheckTrustBundle(tb), TrustBundleClauses, tb.name)
         /\ Topic("FSDTrustBundleCertificates", tb.name) \in Topics(CheckTrustBundle(tb))
  <1> DEFINE j1 == CheckTrustBundleName(tb.name)
  <1>1. PICK j2 : j2 = CASE tb.problem -> Fail("FSDTrustBundleCertificates", tb.name)
                         [] ~tb.problem /\ tb.raw.empty ->
                              Pass("FSDTrustBundleCertificates", tb.name)
                         [] OTHER -> CheckTrustBundleContent(tb.name, tb.raw)
    OBVIOUS
  <1>2. tb.name \in Tags /\ "FSDTrustBundleCertificates" \in Clause
    BY FolderClauses, TagNames
  <1>3. Writes(j1, NameClauses, tb.name)
    BY BundleNameLines
  <1>4. /\ Writes(j2, ShapeClauses \cup {"FSDTrustBundleCertificates"}, tb.name)
        /\ Topic("FSDTrustBundleCertificates", tb.name) \in Topics(j2)
    <2>1. {"FSDTrustBundleCertificates"} \subseteq ShapeClauses \cup {"FSDTrustBundleCertificates"}
      OBVIOUS
    <2>2. /\ Writes(Pass("FSDTrustBundleCertificates", tb.name),
                    {"FSDTrustBundleCertificates"}, tb.name)
          /\ Writes(Fail("FSDTrustBundleCertificates", tb.name),
                    {"FSDTrustBundleCertificates"}, tb.name)
      BY <1>2, WritesOne
    <2>3. /\ Writes(Pass("FSDTrustBundleCertificates", tb.name),
                    ShapeClauses \cup {"FSDTrustBundleCertificates"}, tb.name)
          /\ Writes(Fail("FSDTrustBundleCertificates", tb.name),
                    ShapeClauses \cup {"FSDTrustBundleCertificates"}, tb.name)
      BY <2>1, <2>2, WritesMore, Zenon
    <2> QED
      BY <1>1, <2>3, BundleContentLines, TopicOfOne, Zenon
  <1>5. CheckTrustBundle(tb) = j1 \o j2
    BY <1>1 DEF CheckTrustBundle
  <1> HIDE DEF j1
  <1>6. NameClauses \cap (ShapeClauses \cup {"FSDTrustBundleCertificates"}) = {}
    BY DEF NameClauses, TrustDomainRules, ShapeClauses
  <1>7. Writes(j1 \o j2, TrustBundleClauses, tb.name)
    BY <1>3, <1>4, <1>6, WritesBoth DEF TrustBundleClauses
  <1>8. Topic("FSDTrustBundleCertificates", tb.name) \in Topics(j1 \o j2)
    BY <1>3, <1>4, LineOfPart DEF Writes
  <1> QED
    BY <1>5, <1>7, <1>8
CredentialClauses == ShapeClauses \cup KeyClauses \cup ChainClauses

LEMMA ChainLines ==
  ASSUME NEW ch, NEW key, NEW anchors
  PROVE  Writes(CheckChain(ch, key, anchors), ChainClauses, CredentialBundleName)
  <1> DEFINE tag == CredentialBundleName
             j1 == CheckChainOrder(ch)
             j2 == IF key # None THEN CheckLeafKey(ch[1], key) ELSE << >>
             j3 == CheckLeafSVID(ch[1])
             j4 == CheckNoTrustAnchor(ch, anchors)
  <1>1. /\ "FSDCredentialBundleChainOrder" \in Clause /\ "FSDCredentialBundleLeafKey" \in Clause
        /\ "FSDCredentialBundleLeafSVID" \in Clause
        /\ "FSDCredentialBundleNoTrustAnchor" \in Clause
        /\ tag \in Tags
    BY FolderClauses, TagNames DEF ChainClauses
  <1>2. Writes(j1, {"FSDCredentialBundleChainOrder"}, tag)
    BY <1>1, WritesOne, Zenon DEF CheckChainOrder
  <1>3. Writes(j2, {"FSDCredentialBundleLeafKey"}, tag)
    BY <1>1, WritesOne, WritesNone, Zenon DEF CheckLeafKey
  <1>4. Writes(j3, {"FSDCredentialBundleLeafSVID"}, tag)
    BY <1>1, WritesOne, Zenon DEF CheckLeafSVID
  <1>5. Writes(j4, {"FSDCredentialBundleNoTrustAnchor"}, tag)
    BY <1>1, WritesOne, Zenon DEF CheckNoTrustAnchor
  <1>6. CheckChain(ch, key, anchors) = j1 \o j2 \o j3 \o j4
    BY DEF CheckChain
  <1> HIDE DEF j1, j2, j3, j4
  <1>7. Writes(j1 \o j2, {"FSDCredentialBundleChainOrder"} \cup {"FSDCredentialBundleLeafKey"}, tag)
    BY <1>2, <1>3, WritesBoth
  <1>8. Writes(j1 \o j2 \o j3,
               {"FSDCredentialBundleChainOrder"} \cup {"FSDCredentialBundleLeafKey"}
               \cup {"FSDCredentialBundleLeafSVID"}, tag)
    BY <1>4, <1>7, WritesBoth
  <1>9. Writes(j1 \o j2 \o j3 \o j4,
               {"FSDCredentialBundleChainOrder"} \cup {"FSDCredentialBundleLeafKey"}
               \cup {"FSDCredentialBundleLeafSVID"} \cup {"FSDCredentialBundleNoTrustAnchor"}, tag)
    BY <1>5, <1>8, WritesBoth
  <1>10. {"FSDCredentialBundleChainOrder"} \cup {"FSDCredentialBundleLeafKey"}
         \cup {"FSDCredentialBundleLeafSVID"} \cup {"FSDCredentialBundleNoTrustAnchor"}
           \subseteq ChainClauses
    BY DEF ChainClauses
  <1> QED
    BY <1>6, <1>9, <1>10, WritesMore

LEMMA CredentialBundleLines ==
  ASSUME NEW raw, NEW anchors
  PROVE  Writes(CheckCredentialBundle(raw, anchors), CredentialClauses, CredentialBundleName)
  <1> DEFINE tag == CredentialBundleName
             blocks == raw.blocks
             ch == ChainOf(blocks)
             j1 == Judge("FSDCredentialBundleBlocks", Len(blocks) >= 2, CredentialBundleName)
             j2 == CheckFileShape(CredentialBundleName, raw, {"PRIVATE KEY", "CERTIFICATE"})
             j3 == IF blocks = << >> THEN << >> ELSE CheckPrivateKey(blocks[1])
             j4 == IF blocks = << >> \/ ChainBlocks(blocks) = << >> THEN << >>
                   ELSE CheckChainBlocks(ChainBlocks(blocks))
             j5 == IF ch = << >> THEN << >> ELSE CheckChain(ch, PublicKey(blocks[1]), anchors)
  <1>1. /\ "FSDCredentialBundleBlocks" \in Clause
        /\ "FSDCredentialBundlePrivateKey" \in Clause
        /\ "FSDCredentialBundleCertificates" \in Clause
        /\ tag \in Tags
    BY FolderClauses, TagNames DEF KeyClauses
  <1>2. Writes(j1, {"FSDCredentialBundleBlocks"}, tag)
    BY <1>1, WritesOne, Zenon
  <1>3. Writes(j2, ShapeClauses, tag)
    BY <1>1, FileShapeLines
  <1>4. Writes(j3, {"FSDCredentialBundlePrivateKey"}, tag)
    BY <1>1, WritesOne, WritesNone, Zenon DEF CheckPrivateKey
  <1>5. Writes(j4, {"FSDCredentialBundleCertificates"}, tag)
    BY <1>1, WritesOne, WritesNone, Zenon DEF CheckChainBlocks
  <1>6. Writes(j5, ChainClauses, tag)
    BY ChainLines, WritesNone, Zenon
  <1>7. CheckCredentialBundle(raw, anchors) = j1 \o j2 \o j3 \o j4 \o j5
    BY DEF CheckCredentialBundle
  <1> HIDE DEF j1, j2, j3, j4, j5
  <1>8. /\ {"FSDCredentialBundleBlocks"} \cap ShapeClauses = {}
        /\ ({"FSDCredentialBundleBlocks"} \cup ShapeClauses)
             \cap {"FSDCredentialBundlePrivateKey"} = {}
        /\ ({"FSDCredentialBundleBlocks"} \cup ShapeClauses
            \cup {"FSDCredentialBundlePrivateKey"})
             \cap {"FSDCredentialBundleCertificates"} = {}
    BY DEF ShapeClauses
  <1>9. ({"FSDCredentialBundleBlocks"} \cup ShapeClauses
         \cup {"FSDCredentialBundlePrivateKey"} \cup {"FSDCredentialBundleCertificates"})
           \cap ChainClauses = {}
    BY DEF ShapeClauses, ChainClauses
  <1>10. Writes(j1 \o j2, {"FSDCredentialBundleBlocks"} \cup ShapeClauses, tag)
    BY <1>2, <1>3, <1>8, WritesBoth
  <1>11. Writes(j1 \o j2 \o j3, {"FSDCredentialBundleBlocks"} \cup ShapeClauses
                               \cup {"FSDCredentialBundlePrivateKey"}, tag)
    BY <1>4, <1>8, <1>10, WritesBoth
  <1>12. Writes(j1 \o j2 \o j3 \o j4,
                {"FSDCredentialBundleBlocks"} \cup ShapeClauses
                \cup {"FSDCredentialBundlePrivateKey"} \cup {"FSDCredentialBundleCertificates"}, tag)
    BY <1>5, <1>8, <1>11, WritesBoth
  <1>13. Writes(j1 \o j2 \o j3 \o j4 \o j5,
                {"FSDCredentialBundleBlocks"} \cup ShapeClauses
                \cup {"FSDCredentialBundlePrivateKey"} \cup {"FSDCredentialBundleCertificates"}
                \cup ChainClauses, tag)
    BY <1>6, <1>9, <1>12, WritesBoth
  <1>14. {"FSDCredentialBundleBlocks"} \cup ShapeClauses
         \cup {"FSDCredentialBundlePrivateKey"} \cup {"FSDCredentialBundleCertificates"}
         \cup ChainClauses \subseteq CredentialClauses
    BY DEF CredentialClauses, KeyClauses
  <1> QED
    BY <1>7, <1>13, <1>14, WritesMore

\* Presence and the last checks write about a file and about the folder.
PresenceTopics ==
    {Topic("FSDCredentialBundlePresent", CredentialBundleName),
     Topic("FSDTrustBundlePresent", "")}

OwnTopics ==
    {Topic("FSDOwnTrustBundle", ""),
     Topic("FSDCredentialBundleChainComplete", CredentialBundleName)}

LEMMA TwoLines ==
  ASSUME NEW s, NEW t, NEW c, NEW d, NEW a, NEW b, c # d,
         Writes(s, {c}, a), Writes(t, {d}, b)
  PROVE  /\ s \o t \in Seq(Assertion)
         /\ NoneTwice(s \o t)
         /\ Topics(s \o t) \subseteq {Topic(c, a), Topic(d, b)}
  <1>1. /\ s \in Seq(Assertion) /\ t \in Seq(Assertion)
        /\ NoneTwice(s) /\ NoneTwice(t)
        /\ Topics(s) \subseteq On({c}, a) /\ Topics(t) \subseteq On({d}, b)
    BY DEF Writes
  <1>2. /\ On({c}, a) = {Topic(c, a)} /\ On({d}, b) = {Topic(d, b)}
    BY DEF On
  <1>3. On({c}, a) \cap On({d}, b) = {}
    BY TopicInjective, <1>2
  <1>4. Topics(s) \cap Topics(t) = {}
    BY <1>1, <1>3
  <1>5. NoneTwice(s \o t)
    BY <1>1, <1>4, NoneTwiceInBoth
  <1>6. Topics(s \o t) = Topics(s) \cup Topics(t)
    BY <1>1, TopicsOfBoth
  <1>7. s \o t \in Seq(Assertion)
    BY <1>1, Concatenation, Zenon
  <1> QED
    BY <1>1, <1>2, <1>5, <1>6, <1>7

LEMMA PresenceLines ==
  ASSUME NEW c, NEW t
  PROVE  NoneTwice(CheckPresence(c, t)) /\ Topics(CheckPresence(c, t)) \subseteq PresenceTopics
  <1> DEFINE j1 == Judge("FSDCredentialBundlePresent", c # None /\ ~c.problem,
                         CredentialBundleName)
             j2 == Judge("FSDTrustBundlePresent", t # << >>, NoTag)
  <1>1. "FSDCredentialBundlePresent" \in Clause /\ "FSDTrustBundlePresent" \in Clause
    BY ClauseNames DEF FilesystemClauses
  <1>2. NoTag \in Tags
    BY TagNames DEF NoTag
  <1>3. Writes(j1, {"FSDCredentialBundlePresent"}, CredentialBundleName)
    BY <1>1, TagNames, WritesOne, Zenon
  <1>4. Writes(j2, {"FSDTrustBundlePresent"}, NoTag)
    BY <1>1, <1>2, WritesOne, Zenon
  <1>5. CheckPresence(c, t) = j1 \o j2
    BY DEF CheckPresence, NoTag
  <1> HIDE DEF j1, j2
  <1>6. /\ NoneTwice(j1 \o j2)
        /\ Topics(j1 \o j2)
             \subseteq {Topic("FSDCredentialBundlePresent", CredentialBundleName),
                        Topic("FSDTrustBundlePresent", NoTag)}
    BY <1>3, <1>4, TwoLines
  <1> QED
    BY <1>5, <1>6 DEF PresenceTopics, NoTag

LEMMA OwnTrustBundleLines ==
  ASSUME NEW ch, NEW tbs
  PROVE  /\ NoneTwice(CheckOwnTrustBundle(ch, tbs))
         /\ Topics(CheckOwnTrustBundle(ch, tbs)) \subseteq OwnTopics
  <1> DEFINE j1 == Judge("FSDOwnTrustBundle", OwnBundle(ch[1], tbs) # {}, NoTag)
  <1>1. "FSDOwnTrustBundle" \in Clause /\ "FSDCredentialBundleChainComplete" \in Clause
    BY FolderClauses DEF OwnClauses
  <1>2. NoTag \in Tags
    BY TagNames DEF NoTag
  <1>3. Writes(j1, {"FSDOwnTrustBundle"}, NoTag)
    BY <1>1, <1>2, WritesOne, Zenon
  <1>4. ASSUME NEW anchors
        PROVE  Writes(CheckChainComplete(ch, anchors), {"FSDCredentialBundleChainComplete"},
                      CredentialBundleName)
    BY <1>1, TagNames, WritesOne, WritesNone, Zenon DEF CheckChainComplete
  <1>5. PICK j2, j3 :
          /\ CheckOwnTrustBundle(ch, tbs) = IF ~IdentifiesBundle(ch[1]) THEN j2 ELSE j1 \o j3
          /\ Writes(j2, {"FSDCredentialBundleChainComplete"}, CredentialBundleName)
          /\ Writes(j3, {"FSDCredentialBundleChainComplete"}, CredentialBundleName)
    BY <1>4, Zenon DEF CheckOwnTrustBundle, NoTag
  <1> HIDE DEF j1
  <1>6. /\ NoneTwice(j1 \o j3)
        /\ Topics(j1 \o j3)
             \subseteq {Topic("FSDOwnTrustBundle", NoTag),
                        Topic("FSDCredentialBundleChainComplete", CredentialBundleName)}
    BY <1>3, <1>5, TwoLines
  <1>7. /\ NoneTwice(j2)
        /\ Topics(j2) \subseteq {Topic("FSDCredentialBundleChainComplete", CredentialBundleName)}
    BY <1>5 DEF Writes, On
  <1>8. /\ NoneTwice(CheckOwnTrustBundle(ch, tbs))
        /\ Topics(CheckOwnTrustBundle(ch, tbs))
             \subseteq {Topic("FSDOwnTrustBundle", NoTag),
                        Topic("FSDCredentialBundleChainComplete", CredentialBundleName)}
    BY <1>5, <1>6, <1>7
  <1> QED
    BY <1>8 DEF OwnTopics, NoTag
---------------------------------------------------------------------------
(* What makes the checks fail.                                             *)

LEMMA MustClauses ==
  /\ ShapeClauses \cap ShouldClauses = {}
  /\ KeyClauses \cap ShouldClauses = {}
  /\ NameClauses \cap ShouldClauses = {}
  /\ OwnClauses \cap ShouldClauses = {}
  /\ ChainClauses \cap ShouldClauses = {"FSDCredentialBundleLeafSVID"}
  /\ {"FSDTrustBundleCertificates", "FSDCredentialBundlePresent",
      "FSDTrustBundlePresent"} \cap ShouldClauses = {}
  <1>1. ShapeClauses \cap ShouldClauses = {} /\ KeyClauses \cap ShouldClauses = {}
    BY DEF ShapeClauses, KeyClauses, ShouldClauses
  <1>2. NameClauses \cap ShouldClauses = {} /\ OwnClauses \cap ShouldClauses = {}
    BY DEF NameClauses, TrustDomainRules, OwnClauses, ShouldClauses
  <1>3. ChainClauses \cap ShouldClauses = {"FSDCredentialBundleLeafSVID"}
    BY DEF ChainClauses, ShouldClauses
  <1>4. {"FSDTrustBundleCertificates", "FSDCredentialBundlePresent",
         "FSDTrustBundlePresent"} \cap ShouldClauses = {}
    BY DEF ShouldClauses
  <1> QED
    BY <1>1, <1>2, <1>3, <1>4

LEMMA PresenceFails ==
  ASSUME NEW c, NEW t
  PROVE  Failed(CheckPresence(c, t)) <=> ~(c # None /\ ~c.problem /\ t # << >>)
  <1> DEFINE j1 == Judge("FSDCredentialBundlePresent", c # None /\ ~c.problem,
                         CredentialBundleName)
             j2 == Judge("FSDTrustBundlePresent", t # << >>, NoTag)
  <1>1. /\ "FSDCredentialBundlePresent" \in Clause \ ShouldClauses
        /\ "FSDTrustBundlePresent" \in Clause \ ShouldClauses
    BY ClauseNames, MustClauses DEF FilesystemClauses
  <1>2. NoTag \in Tags
    BY TagNames DEF NoTag
  <1>3. j1 \in Seq(Assertion) /\ j2 \in Seq(Assertion)
    BY <1>1, <1>2, TagNames, AssertionType
  <1>4. Failed(j1) <=> ~(c # None /\ ~c.problem)
    BY <1>1, JudgeFails, Zenon
  <1>5. Failed(j2) <=> ~(t # << >>)
    BY <1>1, JudgeFails, Zenon
  <1>6. CheckPresence(c, t) = j1 \o j2
    BY DEF CheckPresence, NoTag
  <1> HIDE DEF j1, j2
  <1>7. Failed(j1 \o j2) <=> Failed(j1) \/ Failed(j2)
    BY <1>3, EitherFails
  <1> QED
    BY <1>4, <1>5, <1>6, <1>7, Zenon

\* The shape §2 asks of a file.
ShapeOK(content, allowed) ==
    /\ \A b \in ToSet(content.blocks) : b.type \in allowed
    /\ ~content.stray
    /\ \A b \in ToSet(content.blocks) : ~b.headers

LEMMA FileShapeFails ==
  ASSUME NEW tag \in Tags, NEW content, NEW allowed
  PROVE  Failed(CheckFileShape(tag, content, allowed)) <=> ~ShapeOK(content, allowed)
  <1> DEFINE blocks == ToSet(content.blocks)
             j1 == Judge("FSDNoOtherBlockTypes", \A b \in blocks : b.type \in allowed, tag)
             j2 == Judge("FSDNoInterBlockData", ~content.stray, tag)
             j3 == Judge("FSDNoPEMHeaders", \A b \in blocks : ~b.headers, tag)
  <1>1. /\ "FSDNoOtherBlockTypes" \in Clause \ ShouldClauses
        /\ "FSDNoInterBlockData" \in Clause \ ShouldClauses
        /\ "FSDNoPEMHeaders" \in Clause \ ShouldClauses
    BY FolderClauses, MustClauses DEF ShapeClauses
  <1>2. j1 \in Seq(Assertion) /\ j2 \in Seq(Assertion) /\ j3 \in Seq(Assertion)
    BY <1>1, AssertionType
  <1>3. /\ Failed(j1) <=> ~ (\A b \in blocks : b.type \in allowed)
        /\ Failed(j2) <=> ~ ~content.stray
        /\ Failed(j3) <=> ~ (\A b \in blocks : ~b.headers)
    BY <1>1, JudgeFails, Zenon
  <1>4. CheckFileShape(tag, content, allowed) = j1 \o j2 \o j3
    BY DEF CheckFileShape
  <1> HIDE DEF j1, j2, j3
  <1>5. Failed(j1 \o j2 \o j3) <=> Failed(j1) \/ Failed(j2) \/ Failed(j3)
    BY <1>2, EitherFails
  <1> QED
    BY <1>3, <1>4, <1>5, Zenon DEF ShapeOK

LEMMA BundleNameFails ==
  ASSUME NEW name \in TrustBundleName
  PROVE  Failed(CheckTrustBundleName(name)) <=> ~GoodTrustDomain(TrustDomainOf[name])
  <1> DEFINE j1 == Judge("FSDTrustBundleName", TrustDomainOf[name] # "", name)
             j2 == CheckTrustDomain(name, TrustDomainOf[name])
  <1>1. "FSDTrustBundleName" \in Clause \ ShouldClauses /\ name \in Tags
    BY FolderClauses, MustClauses, TagNames DEF NameClauses
  <1>2. j1 \in Seq(Assertion) /\ j2 \in Seq(Assertion)
    BY <1>1, AssertionType, TrustDomainType
  <1>3. Failed(j1) <=> ~(TrustDomainOf[name] # "")
    BY <1>1, JudgeFails, Zenon
  <1>4. Failed(j2) <=> ~GoodTrustDomain(TrustDomainOf[name])
    BY <1>1, TrustDomainFails
  <1>5. CheckTrustBundleName(name) = j1 \o j2
    BY DEF CheckTrustBundleName
  <1> HIDE DEF j1, j2
  <1>6. Failed(j1 \o j2) <=> Failed(j1) \/ Failed(j2)
    BY <1>2, EitherFails
  <1>7. GoodTrustDomain(TrustDomainOf[name]) => TrustDomainOf[name] # ""
    BY DEF GoodTrustDomain
  <1> QED
    BY <1>3, <1>4, <1>5, <1>6, <1>7, Zenon

LEMMA BundleContentFails ==
  ASSUME NEW name \in TrustBundleName, NEW raw, raw.blocks \in Seq(Block)
  PROVE  Failed(CheckTrustBundleContent(name, raw))
           <=> ~(/\ raw.blocks # << >> /\ ~raw.stray
                 /\ \A i \in DOMAIN raw.blocks :
                        IsCert(raw.blocks[i]) /\ ~raw.blocks[i].headers)
  <1> DEFINE certs == {b \in ToSet(raw.blocks) : b.type = "CERTIFICATE"}
             j1 == CheckFileShape(name, raw, {"CERTIFICATE"})
             j2 == Judge("FSDTrustBundleCertificates",
                         certs # {} /\ \A b \in certs : IsCert(b), name)
  <1>1. name \in Tags /\ "FSDTrustBundleCertificates" \in Clause \ ShouldClauses
    BY FolderClauses, MustClauses, TagNames
  <1>2. j1 \in Seq(Assertion) /\ j2 \in Seq(Assertion)
    BY <1>1, AssertionType, FileShapeType
  <1>3. Failed(j1) <=> ~ShapeOK(raw, {"CERTIFICATE"})
    BY <1>1, FileShapeFails
  <1>4. Failed(j2) <=> ~(certs # {} /\ \A b \in certs : IsCert(b))
    BY <1>1, JudgeFails, Zenon
  <1>5. CheckTrustBundleContent(name, raw) = j1 \o j2
    BY DEF CheckTrustBundleContent
  <1>6. ShapeOK(raw, {"CERTIFICATE"}) /\ certs # {} /\ (\A b \in certs : IsCert(b))
          <=> /\ raw.blocks # << >> /\ ~raw.stray
              /\ \A i \in DOMAIN raw.blocks :
                     IsCert(raw.blocks[i]) /\ ~raw.blocks[i].headers
    <2>1. PICK s : s = raw.blocks
      OBVIOUS
    <2>2. s \in Seq(Block) /\ ToSet(s) = {s[i] : i \in DOMAIN s} /\ DOMAIN s = 1..Len(s)
      BY <2>1 DEF ToSet
    <2>3. s # << >> <=> ToSet(s) # {}
      BY <2>2
    <2>4. \A b : IsCert(b) => b.type = "CERTIFICATE"
      BY DEF IsCert
    <2> QED
      BY <2>1, <2>2, <2>3, <2>4 DEF ShapeOK
  <1> HIDE DEF j1, j2, certs
  <1>7. Failed(j1 \o j2) <=> Failed(j1) \/ Failed(j2)
    BY <1>2, EitherFails
  <1> QED
    BY <1>3, <1>4, <1>5, <1>6, <1>7, Zenon

\* checkTrustBundle passes a bundle exactly when its name holds a trust domain
\* and its content is what §2.2 asks for.
LEMMA TrustBundleFails ==
  ASSUME NEW tb, tb.name \in TrustBundleName, tb.raw.blocks \in Seq(Block)
  PROVE  Failed(CheckTrustBundle(tb))
           <=> ~(GoodTrustDomain(TrustDomainOf[tb.name]) /\ GoodTrustBundle(tb))
  <1> DEFINE j1 == CheckTrustBundleName(tb.name)
  <1>1. PICK j2 : j2 = CASE tb.problem -> Fail("FSDTrustBundleCertificates", tb.name)
                         [] ~tb.problem /\ tb.raw.empty ->
                              Pass("FSDTrustBundleCertificates", tb.name)
                         [] OTHER -> CheckTrustBundleContent(tb.name, tb.raw)
    OBVIOUS
  <1>2. tb.name \in Tags /\ "FSDTrustBundleCertificates" \in Clause \ ShouldClauses
    BY FolderClauses, MustClauses, TagNames
  <1>3. Writes(j1, NameClauses, tb.name)
    BY BundleNameLines
  <1>4. j2 \in Seq(Assertion)
    <2>1. /\ Fail("FSDTrustBundleCertificates", tb.name) \in Seq(Assertion)
          /\ Pass("FSDTrustBundleCertificates", tb.name) \in Seq(Assertion)
      BY <1>2, AssertionType
    <2>2. CheckTrustBundleContent(tb.name, tb.raw) \in Seq(Assertion)
      BY BundleContentLines DEF Writes
    <2> QED
      BY <1>1, <2>1, <2>2, Zenon
  <1>5. Failed(j1) <=> ~GoodTrustDomain(TrustDomainOf[tb.name])
    BY BundleNameFails
  <1>6. Failed(j2) <=> ~GoodTrustBundle(tb)
    <2>1. /\ Failed(Fail("FSDTrustBundleCertificates", tb.name))
          /\ ~Failed(Pass("FSDTrustBundleCertificates", tb.name))
      BY <1>2, JudgeFails
    <2>2. CASE tb.problem
      BY <1>1, <2>1, <2>2, Zenon DEF GoodTrustBundle
    <2>3. CASE ~tb.problem /\ tb.raw.empty
      BY <1>1, <2>1, <2>3, Zenon DEF GoodTrustBundle
    <2>4. CASE ~tb.problem /\ ~tb.raw.empty
      <3>1. j2 = CheckTrustBundleContent(tb.name, tb.raw)
        BY <1>1, <2>4, Zenon
      <3> QED
        BY <2>4, <3>1, BundleContentFails, Zenon DEF GoodTrustBundle
    <2> QED
      BY <2>2, <2>3, <2>4
  <1>7. CheckTrustBundle(tb) = j1 \o j2
    BY <1>1 DEF CheckTrustBundle
  <1> HIDE DEF j1
  <1>8. Failed(j1 \o j2) <=> Failed(j1) \/ Failed(j2)
    BY <1>3, <1>4, EitherFails DEF Writes
  <1> QED
    BY <1>5, <1>6, <1>7, <1>8, Zenon
\* What the chain is asked for, once the key and all its certificates parse.
ChainOK(ch, key, anchors) ==
    /\ \A i \in 1..(Len(ch) - 1) : IssuedBy(ch[i], ch[i + 1])
    /\ key # None => Cert[ch[1]].pub = key
    /\ \A c \in ToSet(ch) : ~IsSelfSigned(c) /\ c \notin anchors

LEMMA ChainFails ==
  ASSUME NEW ch, NEW key, NEW anchors
  PROVE  Failed(CheckChain(ch, key, anchors)) <=> ~ChainOK(ch, key, anchors)
  <1> DEFINE tag == CredentialBundleName
             j1 == CheckChainOrder(ch)
             j2 == IF key # None THEN CheckLeafKey(ch[1], key) ELSE << >>
             j3 == CheckLeafSVID(ch[1])
             j4 == CheckNoTrustAnchor(ch, anchors)
  <1>1. /\ "FSDCredentialBundleChainOrder" \in Clause \ ShouldClauses
        /\ "FSDCredentialBundleLeafKey" \in Clause \ ShouldClauses
        /\ "FSDCredentialBundleNoTrustAnchor" \in Clause \ ShouldClauses
        /\ "FSDCredentialBundleLeafSVID" \in Clause \cap ShouldClauses
    BY FolderClauses, MustClauses DEF ChainClauses
  <1>2. /\ j1 \in Seq(Assertion) /\ j3 \in Seq(Assertion) /\ j4 \in Seq(Assertion)
        /\ CheckLeafKey(ch[1], key) \in Seq(Assertion)
    BY <1>1, AssertionType, TagNames
       DEF Judge, CheckChainOrder, CheckLeafKey, CheckLeafSVID, CheckNoTrustAnchor
  <1>3. j2 \in Seq(Assertion)
    BY <1>2, Concatenation, Zenon
  <1>4. Failed(j1) <=> ~ \A i \in 1..(Len(ch) - 1) : IssuedBy(ch[i], ch[i + 1])
    BY <1>1, JudgeFails, Zenon DEF CheckChainOrder
  <1>5. Failed(j2) <=> ~(key # None => Cert[ch[1]].pub = key)
    <2>1. Failed(CheckLeafKey(ch[1], key)) <=> ~(Cert[ch[1]].pub = key)
      BY <1>1, JudgeFails, Zenon DEF CheckLeafKey
    <2> QED
      BY <2>1, NoLine, Zenon
  <1>6. ~Failed(j3)
    BY <1>1, ShouldNeverFails, Zenon DEF CheckLeafSVID
  <1>7. Failed(j4) <=> ~ \A c \in ToSet(ch) : ~IsSelfSigned(c) /\ c \notin anchors
    BY <1>1, JudgeFails, Zenon DEF CheckNoTrustAnchor
  <1>8. CheckChain(ch, key, anchors) = j1 \o j2 \o j3 \o j4
    BY DEF CheckChain
  <1> HIDE DEF j1, j2, j3, j4
  <1>9. Failed(j1 \o j2 \o j3 \o j4)
          <=> Failed(j1) \/ Failed(j2) \/ Failed(j3) \/ Failed(j4)
    BY <1>2, <1>3, AnyOfFourFails
  <1> QED
    BY <1>4, <1>5, <1>6, <1>7, <1>8, <1>9, Zenon DEF ChainOK

\* What checkCredentialBundle asks for.
CredentialOK(raw, anchors) ==
    LET blocks == raw.blocks
    IN  /\ Len(blocks) >= 2
        /\ ShapeOK(raw, {"PRIVATE KEY", "CERTIFICATE"})
        /\ blocks # << >> => PublicKey(blocks[1]) # None
        /\ blocks # << >> /\ ChainBlocks(blocks) # << >> =>
               \A b \in ToSet(ChainBlocks(blocks)) : IsCert(b)
        /\ ChainOf(blocks) # << >> => ChainOK(ChainOf(blocks), PublicKey(blocks[1]), anchors)

LEMMA CredentialBundleFails ==
  ASSUME NEW raw, NEW anchors
  PROVE  Failed(CheckCredentialBundle(raw, anchors)) <=> ~CredentialOK(raw, anchors)
  <1> DEFINE tag == CredentialBundleName
             blocks == raw.blocks
             ch == ChainOf(blocks)
             j1 == Judge("FSDCredentialBundleBlocks", Len(blocks) >= 2, CredentialBundleName)
             j2 == CheckFileShape(CredentialBundleName, raw, {"PRIVATE KEY", "CERTIFICATE"})
             j3 == IF blocks = << >> THEN << >> ELSE CheckPrivateKey(blocks[1])
             j4 == IF blocks = << >> \/ ChainBlocks(blocks) = << >> THEN << >>
                   ELSE CheckChainBlocks(ChainBlocks(blocks))
             j5 == IF ch = << >> THEN << >> ELSE CheckChain(ch, PublicKey(blocks[1]), anchors)
  <1>1. /\ "FSDCredentialBundleBlocks" \in Clause \ ShouldClauses
        /\ "FSDCredentialBundlePrivateKey" \in Clause \ ShouldClauses
        /\ "FSDCredentialBundleCertificates" \in Clause \ ShouldClauses
        /\ tag \in Tags
    BY FolderClauses, MustClauses, TagNames DEF KeyClauses
  <1>2. /\ j1 \in Seq(Assertion) /\ j2 \in Seq(Assertion)
        /\ CheckPrivateKey(blocks[1]) \in Seq(Assertion)
        /\ CheckChainBlocks(ChainBlocks(blocks)) \in Seq(Assertion)
        /\ CheckChain(ch, PublicKey(blocks[1]), anchors) \in Seq(Assertion)
    BY <1>1, AssertionType, FileShapeType, ChainType DEF Judge, CheckPrivateKey, CheckChainBlocks
  <1>3. j3 \in Seq(Assertion) /\ j4 \in Seq(Assertion) /\ j5 \in Seq(Assertion)
    BY <1>2, Concatenation, Zenon
  <1>4. Failed(j1) <=> ~(Len(blocks) >= 2)
    BY <1>1, JudgeFails, Zenon
  <1>5. Failed(j2) <=> ~ShapeOK(raw, {"PRIVATE KEY", "CERTIFICATE"})
    BY <1>1, FileShapeFails
  <1>6. Failed(j3) <=> ~(blocks # << >> => PublicKey(blocks[1]) # None)
    <2>1. Failed(CheckPrivateKey(blocks[1])) <=> ~(PublicKey(blocks[1]) # None)
      BY <1>1, JudgeFails, Zenon DEF CheckPrivateKey
    <2> QED
      BY <2>1, NoLine, Zenon
  <1>7. Failed(j4) <=> ~(blocks # << >> /\ ChainBlocks(blocks) # << >> =>
                            \A b \in ToSet(ChainBlocks(blocks)) : IsCert(b))
    <2>1. Failed(CheckChainBlocks(ChainBlocks(blocks)))
            <=> ~ \A b \in ToSet(ChainBlocks(blocks)) : IsCert(b)
      BY <1>1, JudgeFails, Zenon DEF CheckChainBlocks
    <2> QED
      BY <2>1, NoLine, Zenon
  <1>8. Failed(j5) <=> ~(ch # << >> => ChainOK(ch, PublicKey(blocks[1]), anchors))
    BY ChainFails, NoLine, Zenon
  <1>9. CheckCredentialBundle(raw, anchors) = j1 \o j2 \o j3 \o j4 \o j5
    BY DEF CheckCredentialBundle
  <1>10. CredentialOK(raw, anchors) <=>
           /\ Len(blocks) >= 2
           /\ ShapeOK(raw, {"PRIVATE KEY", "CERTIFICATE"})
           /\ blocks # << >> => PublicKey(blocks[1]) # None
           /\ blocks # << >> /\ ChainBlocks(blocks) # << >> =>
                  \A b \in ToSet(ChainBlocks(blocks)) : IsCert(b)
           /\ ch # << >> => ChainOK(ch, PublicKey(blocks[1]), anchors)
    BY Zenon DEF CredentialOK
  <1> HIDE DEF j1, j2, j3, j4, j5
  <1>11. Failed(j1 \o j2 \o j3 \o j4 \o j5)
           <=> Failed(j1) \/ Failed(j2) \/ Failed(j3) \/ Failed(j4) \/ Failed(j5)
    <2>1. /\ j1 \o j2 \o j3 \o j4 \in Seq(Assertion)
          /\ Failed(j1 \o j2 \o j3 \o j4)
               <=> Failed(j1) \/ Failed(j2) \/ Failed(j3) \/ Failed(j4)
      BY <1>2, <1>3, AnyOfFourFails
    <2>2. Failed(j1 \o j2 \o j3 \o j4 \o j5) <=> Failed(j1 \o j2 \o j3 \o j4) \/ Failed(j5)
      BY <1>3, <2>1, EitherFails
    <2> QED
      BY <2>1, <2>2
  <1> QED
    BY <1>4, <1>5, <1>6, <1>7, <1>8, <1>9, <1>10, <1>11, Zenon

\* A chain that ends below an anchor, or has none to be matched against.
CompleteOK(ch, anchors) ==
    \/ anchors = {}
    \/ IsSelfSigned(Last(ch))
    \/ \E a \in anchors : IssuedBy(Last(ch), a)

\* What checkOwnTrustBundle asks for.
OwnOK(ch, tbs) ==
    LET all == Anchors(RawOf(ToSet(tbs)))
        own == Anchors(RawOf(OwnBundle(ch[1], tbs)))
    IN  IF IdentifiesBundle(ch[1])
        THEN OwnBundle(ch[1], tbs) # {} /\ CompleteOK(ch, IF own = {} THEN all ELSE own)
        ELSE CompleteOK(ch, all)

LEMMA OwnTrustBundleFails ==
  ASSUME NEW ch, NEW tbs
  PROVE  Failed(CheckOwnTrustBundle(ch, tbs)) <=> ~OwnOK(ch, tbs)
  <1> DEFINE all == Anchors(RawOf(ToSet(tbs)))
             own == Anchors(RawOf(OwnBundle(ch[1], tbs)))
             some == IF own = {} THEN all ELSE own
             j1 == Judge("FSDOwnTrustBundle", OwnBundle(ch[1], tbs) # {}, NoTag)
             j2 == CheckChainComplete(ch, all)
             j3 == CheckChainComplete(ch, some)
  <1>1. /\ "FSDOwnTrustBundle" \in Clause \ ShouldClauses
        /\ "FSDCredentialBundleChainComplete" \in Clause \ ShouldClauses
    BY FolderClauses, MustClauses DEF OwnClauses
  <1>2. NoTag \in Tags
    BY TagNames DEF NoTag
  <1>3. ASSUME NEW anchors
        PROVE  /\ CheckChainComplete(ch, anchors) \in Seq(Assertion)
               /\ Failed(CheckChainComplete(ch, anchors)) <=> ~CompleteOK(ch, anchors)
    <2> DEFINE j == Judge("FSDCredentialBundleChainComplete",
                          \E a \in anchors : IssuedBy(Last(ch), a), CredentialBundleName)
    <2>1. CheckChainComplete(ch, anchors) =
            IF anchors = {} \/ IsSelfSigned(Last(ch)) THEN << >> ELSE j
      BY DEF CheckChainComplete
    <2>2. j \in Seq(Assertion)
      BY <1>1, AssertionType, TagNames
    <2>3. Failed(j) <=> ~ \E a \in anchors : IssuedBy(Last(ch), a)
      BY <1>1, JudgeFails, Zenon
    <2> HIDE DEF j
    <2> QED
      BY <2>1, <2>2, <2>3, NoLine, Concatenation, Zenon DEF CompleteOK
  <1>4. j1 \in Seq(Assertion) /\ j2 \in Seq(Assertion) /\ j3 \in Seq(Assertion)
    BY <1>1, <1>2, <1>3, AssertionType
  <1>5. Failed(j1) <=> ~(OwnBundle(ch[1], tbs) # {})
    BY <1>1, JudgeFails, Zenon
  <1>6. CheckOwnTrustBundle(ch, tbs) = IF ~IdentifiesBundle(ch[1]) THEN j2 ELSE j1 \o j3
    BY DEF CheckOwnTrustBundle, NoTag
  <1>7. OwnOK(ch, tbs) <=> IF IdentifiesBundle(ch[1])
                           THEN OwnBundle(ch[1], tbs) # {} /\ CompleteOK(ch, some)
                           ELSE CompleteOK(ch, all)
    BY Zenon DEF OwnOK
  <1>8. (Failed(j2) <=> ~CompleteOK(ch, all)) /\ (Failed(j3) <=> ~CompleteOK(ch, some))
    BY <1>3, Zenon
  <1> HIDE DEF j1, j2, j3, all, some
  <1>9. Failed(j1 \o j3) <=> Failed(j1) \/ Failed(j3)
    BY <1>4, EitherFails
  <1> QED
    BY <1>5, <1>6, <1>7, <1>8, <1>9, Zenon
---------------------------------------------------------------------------
(* What the checks ask for is what §2 demands.                             *)

\* The view holds the trust bundles as they were read.
Shows(view, tbs) ==
    /\ DOMAIN view \cap TrustBundleName = {tb.name : tb \in ToSet(tbs)}
    /\ \A tb \in ToSet(tbs) :
           view[tb.name].raw = tb.raw /\ view[tb.name].problem = tb.problem

LEMMA AnchorsFacts ==
  /\ Anchors({}) = {}
  /\ \A S, T : S \subseteq T => Anchors(S) \subseteq Anchors(T)
  BY DEF Anchors

LEMMA OwnIsShown ==
  ASSUME NEW view, NEW tbs, Shows(view, tbs), NEW leaf
  PROVE  /\ {view[n].raw : n \in {m \in DOMAIN view \cap TrustBundleName :
                                     TrustDomainOf[m] = Cert[leaf].uris[1].td}}
              = RawOf(OwnBundle(leaf, tbs))
         /\ {view[n].raw : n \in DOMAIN view \cap TrustBundleName} = RawOf(ToSet(tbs))
         /\ OwnBundle(leaf, tbs) # {} <=>
              \E n \in DOMAIN view \cap TrustBundleName :
                 TrustDomainOf[n] = Cert[leaf].uris[1].td
         /\ OwnBundle(leaf, tbs) \subseteq ToSet(tbs)
  <1> DEFINE B == DOMAIN view \cap TrustBundleName
             T == ToSet(tbs)
             td == Cert[leaf].uris[1].td
  <1>1. /\ B = {tb.name : tb \in T}
        /\ \A tb \in T : view[tb.name].raw = tb.raw
    BY DEF Shows
  <1>2. OwnBundle(leaf, tbs) = {tb \in T : TrustDomainOf[tb.name] = td}
    BY DEF OwnBundle
  <1> HIDE DEF B, T, td
  <1>3. {view[n].raw : n \in {m \in B : TrustDomainOf[m] = td}}
          = {tb.raw : tb \in {x \in T : TrustDomainOf[x.name] = td}}
    BY <1>1
  <1>4. {view[n].raw : n \in B} = {tb.raw : tb \in T}
    BY <1>1
  <1>5. {tb \in T : TrustDomainOf[tb.name] = td} # {} <=> \E n \in B : TrustDomainOf[n] = td
    BY <1>1
  <1> QED
    BY <1>2, <1>3, <1>4, <1>5 DEF B, T, td, RawOf

LEMMA ChainAnchorsAre ==
  ASSUME NEW view, NEW tbs, Shows(view, tbs), NEW leaf,
         NEW all, all = Anchors(RawOf(ToSet(tbs))),
         NEW own, own = Anchors(RawOf(OwnBundle(leaf, tbs)))
  PROVE  /\ IdentifiesBundle(leaf) /\ own # {} => ChainAnchors(leaf, view) = own
         /\ ~(IdentifiesBundle(leaf) /\ own # {}) => ChainAnchors(leaf, view) = all
         /\ own \subseteq all
  <1> DEFINE bundles == DOMAIN view \cap TrustBundleName
             mine == {n \in bundles : IdentifiesBundle(leaf)
                                      /\ TrustDomainOf[n] = Cert[leaf].uris[1].td}
             ofMine == Anchors({view[n].raw : n \in mine})
             ofAll == Anchors({view[n].raw : n \in bundles})
  <1>1. own \subseteq all
    <2>1. RawOf(OwnBundle(leaf, tbs)) \subseteq RawOf(ToSet(tbs))
      BY DEF OwnBundle, RawOf
    <2> QED
      BY <2>1, AnchorsFacts
  <1>2. ChainAnchors(leaf, view) = IF ofMine = {} THEN ofAll ELSE ofMine
    BY DEF ChainAnchors
  <1>3. ofAll = all
    BY OwnIsShown
  <1>4. CASE IdentifiesBundle(leaf)
    <2>1. mine = {n \in bundles : TrustDomainOf[n] = Cert[leaf].uris[1].td}
      BY <1>4
    <2>2. ofMine = own
      BY <2>1, OwnIsShown
    <2> HIDE DEF ofMine, ofAll
    <2> QED
      BY <1>1, <1>2, <1>3, <1>4, <2>2, Zenon
  <1>5. CASE ~IdentifiesBundle(leaf)
    <2>1. {view[n].raw : n \in mine} = {}
      BY <1>5
    <2>2. ofMine = {}
      BY <2>1, AnchorsFacts
    <2> HIDE DEF ofMine, ofAll
    <2> QED
      BY <1>1, <1>2, <1>3, <1>5, <2>2, Zenon
  <1> QED
    BY <1>1, <1>4, <1>5

LEMMA TailFacts ==
  ASSUME NEW S, NEW s \in Seq(S), NEW k \in Nat, Len(s) = k, k >= 2
  PROVE  /\ s # << >>
         /\ Tail(s) \in Seq(S) /\ Len(Tail(s)) = k - 1 /\ Tail(s) # << >>
         /\ DOMAIN Tail(s) = 1..(k - 1)
         /\ \A i \in 1..(k - 1) : Tail(s)[i] = s[i + 1]
  <1>1. s # << >>
    <2>1. Len(<< >>) = 0
      OBVIOUS
    <2>2. Len(s) # 0
      OBVIOUS
    <2> QED
      BY <2>1, <2>2, Zenon
  <1>2. Tail(s) \in Seq(S) /\ Len(Tail(s)) = k - 1 /\ k - 1 # 0
    BY <1>1
  <1>3. DOMAIN Tail(s) = 1..(k - 1) /\ \A i \in 1..(k - 1) : Tail(s)[i] = s[i + 1]
    BY <1>1
  <1>4. Tail(s) # << >>
    <2>1. Len(<< >>) = 0
      OBVIOUS
    <2> QED
      BY <1>2, <2>1, Zenon
  <1> QED
    BY <1>1, <1>2, <1>3, <1>4, Zenon

LEMMA Shift ==
  ASSUME NEW k \in Nat
  PROVE  /\ \A i \in 1..(k - 1) : i + 1 \in 2..k
         /\ \A i \in 2..k : i - 1 \in 1..(k - 1) /\ (i - 1) + 1 = i
  OBVIOUS

LEMMA Inside ==
  ASSUME NEW k \in Nat, k >= 2
  PROVE  /\ 1 \in 1..(k - 1) /\ k - 1 \in 1..(k - 1) /\ 1 + 1 = 2 /\ (k - 1) + 1 = k
         /\ \A i \in 1..(k - 2) :
              i \in 1..(k - 1) /\ i + 1 \in 1..(k - 1) /\ i + 1 \in 2..(k - 1)
         /\ \A i \in 2..(k - 1) : i - 1 \in 1..(k - 2) /\ (i - 1) + 1 = i
         /\ (k - 1) - 1 = k - 2
         /\ k \in 2..k
  OBVIOUS

\* A bundle of a key and more: what checkCredentialBundle takes for the chain.
LEMMA KeyedChain ==
  ASSUME NEW b \in Seq(Block), NEW k \in Nat, Len(b) = k, k >= 2,
         b[1].type = "PRIVATE KEY"
  PROVE  /\ ChainBlocks(b) = Tail(b)
         /\ (\A d \in ToSet(ChainBlocks(b)) : IsCert(d)) <=> \A i \in 2..k : IsCert(b[i])
         /\ (\A i \in 2..k : IsCert(b[i])) =>
              ChainOf(b) = [i \in 1..(k - 1) |-> b[i + 1].body]
  <1>1. ChainBlocks(b) = Tail(b)
    BY DEF ChainBlocks
  <1>2. ToSet(ChainBlocks(b)) = {b[i + 1] : i \in 1..(k - 1)}
    <2>1. PICK t : t = Tail(b)
      OBVIOUS
    <2>2. DOMAIN t = 1..(k - 1) /\ \A i \in 1..(k - 1) : t[i] = b[i + 1]
      BY <2>1, TailFacts
    <2>3. ToSet(t) = {b[i + 1] : i \in 1..(k - 1)}
      BY <2>2 DEF ToSet
    <2> QED
      BY <1>1, <2>1, <2>3
  <1>3. (\A d \in ToSet(ChainBlocks(b)) : IsCert(d)) <=> \A i \in 1..(k - 1) : IsCert(b[i + 1])
    BY <1>2
  <1>4. (\A i \in 1..(k - 1) : IsCert(b[i + 1])) <=> \A i \in 2..k : IsCert(b[i])
    BY Shift, Zenon
  <1>5. ASSUME \A d \in ToSet(ChainBlocks(b)) : IsCert(d)
        PROVE  ChainOf(b) = [i \in 1..(k - 1) |-> b[i + 1].body]
    <2>1. b # << >>
      BY TailFacts
    <2>2. ChainOf(b) = [i \in DOMAIN ChainBlocks(b) |-> ChainBlocks(b)[i].body]
      BY <1>5, <2>1, Zenon DEF ChainOf
    <2>3. PICK t : t = Tail(b)
      OBVIOUS
    <2>4. DOMAIN t = 1..(k - 1) /\ \A i \in 1..(k - 1) : t[i] = b[i + 1]
      BY <2>3, TailFacts
    <2>5. ChainOf(b) = [i \in DOMAIN t |-> t[i].body]
      BY <1>1, <2>2, <2>3, Zenon
    <2> QED
      BY <2>4, <2>5
  <1> QED
    BY <1>1, <1>3, <1>4, <1>5, Zenon

LEMMA ShapeIs ==
  ASSUME NEW raw, raw.blocks \in Seq(Block), NEW k \in Nat, Len(raw.blocks) = k,
         NEW allowed
  PROVE  ShapeOK(raw, allowed) <=> /\ ~raw.stray
                                   /\ \A i \in 1..k : raw.blocks[i].type \in allowed
                                   /\ \A i \in 1..k : ~raw.blocks[i].headers
  <1>1. ToSet(raw.blocks) = {raw.blocks[i] : i \in 1..k}
    BY DEF ToSet
  <1> QED
    BY <1>1 DEF ShapeOK
\* A bundle that §2.1 lets by has a key, then certificates, and nothing else.
Keyed(raw, k) ==
    /\ k >= 2
    /\ raw.blocks[1].type = "PRIVATE KEY"
    /\ PublicKey(raw.blocks[1]) # None
    /\ \A i \in 2..k : IsCert(raw.blocks[i])
    /\ ~raw.stray
    /\ \A i \in 1..k : ~raw.blocks[i].headers

LEMMA HasKey ==
  ASSUME NEW b, PublicKey(b) # None
  PROVE  b.type = "PRIVATE KEY"
  BY Zenon DEF PublicKey

LEMMA CheckedIsKeyed ==
  ASSUME NEW raw, raw.blocks \in Seq(Block), NEW k \in Nat, Len(raw.blocks) = k,
         NEW anchors, CredentialOK(raw, anchors)
  PROVE  Keyed(raw, k)
  <1>1. /\ k >= 2
        /\ ShapeOK(raw, {"PRIVATE KEY", "CERTIFICATE"})
        /\ raw.blocks # << >> => PublicKey(raw.blocks[1]) # None
        /\ raw.blocks # << >> /\ ChainBlocks(raw.blocks) # << >> =>
               \A b \in ToSet(ChainBlocks(raw.blocks)) : IsCert(b)
    BY Zenon DEF CredentialOK
  <1>2. raw.blocks # << >> /\ Tail(raw.blocks) # << >>
    BY <1>1, TailFacts
  <1>3. PublicKey(raw.blocks[1]) # None /\ raw.blocks[1].type = "PRIVATE KEY"
    BY <1>1, <1>2, HasKey, Zenon
  <1>4. ChainBlocks(raw.blocks) = Tail(raw.blocks)
    BY <1>1, <1>3, KeyedChain
  <1>5. \A i \in 2..k : IsCert(raw.blocks[i])
    <2>1. \A b \in ToSet(ChainBlocks(raw.blocks)) : IsCert(b)
      BY <1>1, <1>2, <1>4, Zenon
    <2> QED
      BY <1>1, <1>3, <2>1, KeyedChain
  <1>6. ~raw.stray /\ \A i \in 1..k : ~raw.blocks[i].headers
    BY <1>1, ShapeIs
  <1> QED
    BY <1>1, <1>3, <1>5, <1>6 DEF Keyed

LEMMA GoodIsKeyed ==
  ASSUME NEW raw, raw.blocks \in Seq(Block), NEW k \in Nat, Len(raw.blocks) = k,
         NEW view, GoodCredential(raw, view)
  PROVE  Keyed(raw, k)
  <1>1. /\ k >= 2 /\ ~raw.stray /\ \A i \in DOMAIN raw.blocks : ~raw.blocks[i].headers
        /\ PublicKey(raw.blocks[1]) # None
        /\ \A i \in 2..k : IsCert(raw.blocks[i])
    BY Zenon DEF GoodCredential
  <1>2. DOMAIN raw.blocks = 1..k
    OBVIOUS
  <1> QED
    BY <1>1, <1>2, HasKey DEF Keyed

\* What §2.1 demands of the certificates of a keyed bundle.
GoodChain(b, k, anchors) ==
    /\ \A i \in 2..(k - 1) : IssuedBy(b[i].body, b[i + 1].body)
    /\ Cert[b[2].body].pub = PublicKey(b[1])
    /\ \A i \in 2..k : ~IsSelfSigned(b[i].body) /\ b[i].body \notin anchors

\* The chain of a keyed bundle, and what checkChain asks of it.
LEMMA KeyedChainOK ==
  ASSUME NEW raw, raw.blocks \in Seq(Block), NEW k \in Nat, Len(raw.blocks) = k,
         Keyed(raw, k), NEW b, b = raw.blocks, NEW anchors, NEW ch, ch = ChainOf(b)
  PROVE  /\ ch # << >> /\ ch[1] = b[2].body /\ Last(ch) = b[k].body
         /\ ChainOK(ch, PublicKey(b[1]), anchors) <=> GoodChain(b, k, anchors)
  <1>1. k >= 2 /\ PublicKey(b[1]) # None /\ b[1].type = "PRIVATE KEY"
        /\ \A i \in 2..k : IsCert(b[i])
    BY Zenon DEF Keyed
  <1>2. ch = [i \in 1..(k - 1) |-> b[i + 1].body]
    BY <1>1, KeyedChain
  <1>3. Len(ch) = k - 1 /\ DOMAIN ch = 1..(k - 1)
    <2>1. ch \in Seq(DOMAIN Cert)
      BY ChainOfType
    <2>2. DOMAIN ch = 1..(k - 1)
      BY <1>2
    <2>3. k >= 2
      BY <1>1
    <2> QED
      BY <2>1, <2>2, <2>3
  <1>4. \A i \in 1..(k - 1) : ch[i] = b[i + 1].body
    BY <1>2
  <1>5. 1 \in 1..(k - 1) /\ k - 1 \in 1..(k - 1) /\ 1 + 1 = 2 /\ (k - 1) + 1 = k
    BY <1>1, Inside, Zenon
  <1>6. ch # << >>
    <2>1. DOMAIN << >> = {}
      OBVIOUS
    <2> QED
      BY <1>3, <1>5, <2>1, Zenon
  <1>7. ch[1] = b[2].body /\ ch[k - 1] = b[k].body
    BY <1>4, <1>5
  <1>8. Last(ch) = b[k].body
    BY <1>3, <1>7, Zenon DEF Last
  <1>9. (\A i \in 1..(Len(ch) - 1) : IssuedBy(ch[i], ch[i + 1]))
          <=> \A i \in 2..(k - 1) : IssuedBy(b[i].body, b[i + 1].body)
    <2>1. /\ \A i \in 1..(k - 2) : /\ i \in 1..(k - 1) /\ i + 1 \in 1..(k - 1)
                                   /\ i + 1 \in 2..(k - 1)
          /\ \A i \in 2..(k - 1) : i - 1 \in 1..(k - 2) /\ (i - 1) + 1 = i
          /\ (k - 1) - 1 = k - 2
      BY <1>1, Inside, Zenon
    <2>2. \A i \in 1..(k - 2) : ch[i] = b[i + 1].body /\ ch[i + 1] = b[(i + 1) + 1].body
      BY <1>4, <2>1
    <2>3. (\A i \in 1..(k - 2) : IssuedBy(ch[i], ch[i + 1]))
            <=> \A i \in 1..(k - 2) : IssuedBy(b[i + 1].body, b[(i + 1) + 1].body)
      BY <2>2, Zenon
    <2>4. (\A i \in 1..(k - 2) : IssuedBy(b[i + 1].body, b[(i + 1) + 1].body))
            <=> \A i \in 2..(k - 1) : IssuedBy(b[i].body, b[i + 1].body)
      BY <2>1, Zenon
    <2> QED
      BY <1>3, <2>1, <2>3, <2>4, Zenon
  <1>10. (\A c \in ToSet(ch) : ~IsSelfSigned(c) /\ c \notin anchors)
           <=> \A i \in 2..k : ~IsSelfSigned(b[i].body) /\ b[i].body \notin anchors
    <2>1. \A i \in 2..k : i - 1 \in DOMAIN ch /\ ch[i - 1] = b[i].body
      BY <1>3, <1>4, Shift
    <2>2. \A i \in DOMAIN ch : i + 1 \in 2..k /\ ch[i] = b[i + 1].body
      BY <1>3, <1>4, Shift
    <2>3. \A i \in DOMAIN ch : ch[i] \in ToSet(ch)
      BY DEF ToSet
    <2>4. ASSUME NEW c \in ToSet(ch)
          PROVE  \E i \in 2..k : c = b[i].body
      <3>1. PICK i \in DOMAIN ch : c = ch[i]
        BY DEF ToSet
      <3> QED
        BY <2>2, <3>1
    <2>5. ASSUME NEW i \in 2..k
          PROVE  b[i].body \in ToSet(ch)
      BY <2>1, <2>3
    <2> QED
      BY <2>4, <2>5
  <1> QED
    BY <1>1, <1>6, <1>7, <1>8, <1>9, <1>10, Zenon DEF ChainOK, GoodChain

\* checkCredentialBundle and checkOwnTrustBundle between them let a bundle by
\* exactly when it is what §2.1 demands of it among these trust bundles.
LEMMA CredentialMeaning ==
  ASSUME NEW raw, raw.blocks \in Seq(Block), NEW view, NEW tbs, Shows(view, tbs)
  PROVE  GoodCredential(raw, view) <=>
           /\ CredentialOK(raw, Anchors(RawOf(ToSet(tbs))))
           /\ ChainOf(raw.blocks) # << >> => OwnOK(ChainOf(raw.blocks), tbs)
  <1>1. PICK b : b = raw.blocks
    OBVIOUS
  <1>2. PICK k \in Nat : Len(raw.blocks) = k
    OBVIOUS
  <1>3. PICK all : all = Anchors(RawOf(ToSet(tbs)))
    OBVIOUS
  <1>4. ~Keyed(raw, k) => /\ ~GoodCredential(raw, view)
                          /\ ~CredentialOK(raw, all)
    BY <1>2, CheckedIsKeyed, GoodIsKeyed
  <1>5. ASSUME Keyed(raw, k)
        PROVE  GoodCredential(raw, view) <=>
                 /\ CredentialOK(raw, all)
                 /\ ChainOf(b) # << >> => OwnOK(ChainOf(b), tbs)
    <2>1. PICK ch : ch = ChainOf(b)
      OBVIOUS
    <2>2. /\ k >= 2 /\ PublicKey(b[1]) # None /\ b[1].type = "PRIVATE KEY"
          /\ \A i \in 2..k : IsCert(b[i])
          /\ ~raw.stray /\ \A i \in 1..k : ~b[i].headers
      BY <1>1, <1>5, Zenon DEF Keyed
    <2>3. /\ ch # << >> /\ ch[1] = b[2].body /\ Last(ch) = b[k].body
          /\ ChainOK(ch, PublicKey(b[1]), all) <=> GoodChain(b, k, all)
      BY <1>1, <1>2, <1>5, <2>1, KeyedChainOK
    <2>4. CredentialOK(raw, all) <=> ChainOK(ch, PublicKey(b[1]), all)
      <3>1. ShapeOK(raw, {"PRIVATE KEY", "CERTIFICATE"})
        <4>1. \A i \in 1..k : b[i].type \in {"PRIVATE KEY", "CERTIFICATE"}
          <5>1. \A i \in 1..k : i = 1 \/ i \in 2..k
            BY <1>2
          <5> QED
            BY <2>2, <5>1 DEF IsCert
        <4> QED
          BY <1>1, <1>2, <2>2, <4>1, ShapeIs
      <3>2. \A d \in ToSet(ChainBlocks(b)) : IsCert(d)
        BY <1>1, <1>2, <2>2, KeyedChain
      <3> QED
        BY <1>1, <1>2, <2>1, <2>2, <2>3, <3>1, <3>2, Zenon DEF CredentialOK
    <2>5. GoodCredential(raw, view) <=>
            /\ ChainOK(ch, PublicKey(b[1]), all)
            /\ IdentifiesBundle(b[2].body) =>
                 \E n \in DOMAIN view \cap TrustBundleName :
                    TrustDomainOf[n] = Cert[b[2].body].uris[1].td
            /\ \/ all = {}
               \/ \E a \in ChainAnchors(b[2].body, view) : IssuedBy(b[k].body, a)
      <3>1. Anchors({view[n].raw : n \in DOMAIN view \cap TrustBundleName}) = all
        BY <1>3, OwnIsShown
      <3>2. DOMAIN b = 1..k
        BY <1>1, <1>2
      <3> QED
        BY <1>1, <1>2, <2>2, <2>3, <3>1, <3>2, Zenon DEF GoodCredential, GoodChain
    <2>6. k \in 2..k
      BY <2>2, Inside, Zenon
    <2>7. ASSUME ChainOK(ch, PublicKey(b[1]), all)
          PROVE  OwnOK(ch, tbs) <=>
                   /\ IdentifiesBundle(b[2].body) =>
                        \E n \in DOMAIN view \cap TrustBundleName :
                           TrustDomainOf[n] = Cert[b[2].body].uris[1].td
                   /\ \/ all = {}
                      \/ \E a \in ChainAnchors(b[2].body, view) : IssuedBy(b[k].body, a)
      <3>1. PICK own : own = Anchors(RawOf(OwnBundle(b[2].body, tbs)))
        OBVIOUS
      <3>2. /\ IdentifiesBundle(b[2].body) /\ own # {} => ChainAnchors(b[2].body, view) = own
            /\ ~(IdentifiesBundle(b[2].body) /\ own # {})
                 => ChainAnchors(b[2].body, view) = all
            /\ own \subseteq all
        BY <1>3, <3>1, ChainAnchorsAre
      <3>3. OwnBundle(b[2].body, tbs) # {} <=>
              \E n \in DOMAIN view \cap TrustBundleName :
                 TrustDomainOf[n] = Cert[b[2].body].uris[1].td
        BY OwnIsShown
      <3>4. ~IsSelfSigned(b[k].body)
        BY <2>3, <2>6, <2>7, Zenon DEF GoodChain
      <3>5. \A A : CompleteOK(ch, A) <=> A = {} \/ \E a \in A : IssuedBy(b[k].body, a)
        BY <2>3, <3>4, Zenon DEF CompleteOK
      <3>6. OwnOK(ch, tbs) <=>
              IF IdentifiesBundle(b[2].body)
              THEN OwnBundle(b[2].body, tbs) # {} /\ CompleteOK(ch, IF own = {} THEN all ELSE own)
              ELSE CompleteOK(ch, all)
        BY <1>3, <2>3, <3>1, Zenon DEF OwnOK
      <3>7. own # {} => all # {}
        BY <3>2
      <3>8. CASE IdentifiesBundle(b[2].body) /\ own # {}
        BY <3>2, <3>3, <3>5, <3>6, <3>7, <3>8, Zenon
      <3>9. CASE IdentifiesBundle(b[2].body) /\ own = {}
        BY <3>2, <3>3, <3>5, <3>6, <3>9, Zenon
      <3>10. CASE ~IdentifiesBundle(b[2].body)
        BY <3>2, <3>5, <3>6, <3>10, Zenon
      <3> QED
        BY <3>8, <3>9, <3>10
    <2> QED
      BY <2>1, <2>3, <2>4, <2>5, <2>7, Zenon
  <1> QED
    BY <1>1, <1>3, <1>4, <1>5, Zenon

---------------------------------------------------------------------------
(* The invariant.                                                          *)

LEMMA InitIInv == Init => IInv
  <1> SUFFICES ASSUME Init PROVE IInv
    OBVIOUS
  <1>1. IsTimeline(timeline) /\ now = 1 /\ 1 \in 1..Len(timeline)
    BY TimelineAssumption DEF Init, IsTimeline
  <1>2. TypeOK
    BY <1>1 DEF Init, TypeOK
  <1>3. Captures = {}
    BY DEF Init, Captures, ToSet
  <1>4. CapturesAreVersions /\ TrustReadInOrder
    BY <1>3 DEF Init, CapturesAreVersions, TrustReadInOrder
  <1> QED
    BY <1>2, <1>4 DEF Init, IInv, VisitInv, HangsOnlyOnRace

\* A step that files nothing and takes no time back keeps what was filed.
LEMMA FiledKept ==
  ASSUME IInv,
         timeline' = timeline, cred' = cred, trust' = trust,
         now' \in Int, now' >= now,
         listedAt' = listedAt \/ Captures = {}
  PROVE  CapturesAreVersions' /\ TrustReadInOrder'
  <1>1. now \in Int /\ listedAt \in Int
    BY DEF IInv, TypeOK
  <1>2. Captures' = Captures
    BY DEF Captures
  <1>3. CapturesAreVersions'
    <2>1. ASSUME NEW c \in Captures
          PROVE  /\ c.at \in listedAt'..now'
                 /\ FindingIn(c) = Look(timeline[c.at], c.name)
      BY <1>1, <2>1 DEF IInv, CapturesAreVersions
    <2> QED
      BY <1>2, <2>1 DEF CapturesAreVersions, FindingIn
  <1> QED
    BY <1>3 DEF IInv, TrustReadInOrder

LEMMA AppendFacts ==
  ASSUME NEW S, NEW s \in Seq(S), NEW e \in S
  PROVE  LET t == Append(s, e)
         IN  /\ t \in Seq(S)
             /\ Len(t) = Len(s) + 1
             /\ DOMAIN t = 1..Len(t)
             /\ \A i \in DOMAIN s : t[i] = s[i]
             /\ \A i \in DOMAIN t :
                  i \notin DOMAIN s => i = Len(s) + 1 /\ t[i] = e
  OBVIOUS

LEMMA IndexFacts ==
  ASSUME NEW m \in Nat, NEW n, n = m \/ n = m + 1
  PROVE  /\ 1..(m + 1) \subseteq 1..(n + 1)
         /\ \A i, j \in 1..n : i < j => i \in 1..m
  OBVIOUS

\* readSpecFile's result is filed: the loop goes on, and what it filed is the
\* one version of the file that it looked at.
LEMMA FileReturned ==
  ASSUME IInv, pc \in {"scan", "open", "read"},
         NEW file, file.at \in listedAt..now,
         FindingIn(file) = Look(timeline[file.at], file.name),
         \A i \in DOMAIN trust : trust[i].at <= file.at,
         \/ /\ file \in Capture({CredentialBundleName})
            /\ cred' = file /\ trust' = trust
         \/ /\ file \in Capture(TrustBundleName)
            /\ trust' = Append(trust, file) /\ cred' = cred,
         todo' = todo \ {Visiting}, handle' = None, pc' = "scan",
         UNCHANGED <<timeline, now, listedAt, checkVars>>
  PROVE  IInv'
  <1>1. /\ trust \in Seq(Capture(TrustBundleName)) /\ Len(trust) \in Nat
        /\ DOMAIN trust = 1..Len(trust)
    BY DEF IInv, TypeOK
  <1>2. /\ trust' \in Seq(Capture(TrustBundleName))
        /\ Len(trust') = Len(trust) \/ Len(trust') = Len(trust) + 1
        /\ DOMAIN trust' = 1..Len(trust')
        /\ \A i \in DOMAIN trust : trust'[i] = trust[i]
        /\ \A i \in DOMAIN trust' :
             i \notin DOMAIN trust => i = Len(trust) + 1 /\ trust'[i] = file
    <2>1. CASE trust' = trust
      BY <1>1, <2>1, Zenon
    <2>2. CASE file \in Capture(TrustBundleName) /\ trust' = Append(trust, file)
      BY <1>1, <2>2, AppendFacts, Zenon
    <2> QED
      BY <2>1, <2>2, Zenon
  <1>3. TypeOK'
    <2>1. next' \in 1..(Len(trust') + 1)
      <3>1. next' = next /\ next \in 1..(Len(trust) + 1)
        BY DEF IInv, TypeOK, checkVars
      <3> QED
        BY <1>1, <1>2, <3>1, IndexFacts, Zenon
    <2>2. cred' \in Capture({CredentialBundleName}) \cup {None} /\ todo' \subseteq Name
      BY DEF IInv, TypeOK
    <2> QED
      BY <1>2, <2>1, <2>2 DEF IInv, TypeOK, checkVars
  <1>4. CapturesAreVersions'
    <2>1. Captures' \subseteq Captures \cup {file}
      <3>1. ToSet(trust') \subseteq ToSet(trust) \cup {file}
        BY <1>1, <1>2 DEF ToSet
      <3> QED
        BY <3>1 DEF Captures
    <2>2. ASSUME NEW c \in Captures \cup {file}
          PROVE  /\ c.at \in listedAt..now
                 /\ FindingIn(c) = Look(timeline[c.at], c.name)
      BY <2>2 DEF IInv, CapturesAreVersions
    <2> QED
      BY <2>1, <2>2 DEF CapturesAreVersions, FindingIn
  <1>5. TrustReadInOrder'
    <2>1. ASSUME NEW i \in DOMAIN trust', NEW j \in DOMAIN trust', i < j
          PROVE  trust'[i].at <= trust'[j].at
      <3>1. i \in DOMAIN trust
        BY <1>1, <1>2, <2>1, IndexFacts, Zenon
      <3>2. CASE j \in DOMAIN trust
        BY <1>2, <2>1, <3>1, <3>2 DEF IInv, TrustReadInOrder
      <3>3. CASE j \notin DOMAIN trust
        BY <1>2, <3>1, <3>3
      <3> QED
        BY <3>2, <3>3
    <2> QED
      BY <2>1 DEF TrustReadInOrder
  <1> QED
    BY <1>3, <1>4, <1>5 DEF IInv, VisitInv, HangsOnlyOnRace

---------------------------------------------------------------------------
(* The provisioner and the scan.                                           *)

LEMMA PublishIInv == IInv /\ Publish => IInv'
  <1> SUFFICES ASSUME IInv, Publish PROVE IInv'
    OBVIOUS
  <1>1. /\ now \in Int /\ now' \in Int /\ now' >= now /\ listedAt \in Int
        /\ 1 <= listedAt /\ listedAt <= now
        /\ Len(timeline) \in Nat
    BY DEF Publish, IInv, TypeOK, IsTimeline
  <1>2. TypeOK'
    BY <1>1 DEF Publish, IInv, TypeOK, scanVars, checkVars
  <1>3. CapturesAreVersions' /\ TrustReadInOrder'
    BY <1>1, FiledKept DEF Publish, scanVars
  <1>4. Visiting' = Visiting
    BY DEF Publish, scanVars, Visiting
  <1>5. VisitInv'
    BY <1>1, <1>4 DEF Publish, scanVars, IInv, VisitInv
  <1>6. HangsOnlyOnRace'
    BY <1>1, <1>4 DEF Publish, scanVars, IInv, HangsOnlyOnRace
  <1> QED
    BY <1>2, <1>3, <1>5, <1>6 DEF Publish, scanVars, IInv

LEMMA ListFolderIInv == IInv /\ ListFolder => IInv'
  <1> SUFFICES ASSUME IInv, ListFolder PROVE IInv'
    OBVIOUS
  <1>1. Captures = {}
    BY DEF ListFolder, IInv, Captures, ToSet
  <1>2. now \in 1..Len(timeline) /\ Len(timeline) \in Nat
    BY DEF IInv, TypeOK, IsTimeline
  <1>3. DOMAIN Here.node \subseteq Name
    BY <1>2 DEF IInv, TypeOK, IsTimeline, IsFolder, Here
  <1>4. TypeOK'
    BY <1>2, <1>3 DEF ListFolder, IInv, TypeOK, checkVars
  <1>5. CapturesAreVersions' /\ TrustReadInOrder'
    BY <1>1, <1>2, FiledKept DEF ListFolder
  <1> QED
    BY <1>4, <1>5 DEF ListFolder, IInv, VisitInv, HangsOnlyOnRace

LEMMA ListFailsIInv == IInv /\ ListFails => IInv'
  <1> SUFFICES ASSUME IInv, ListFails PROVE IInv'
    OBVIOUS
  <1>1. TypeOK'
    BY DEF ListFails, IInv, TypeOK, scanVars
  <1>2. CapturesAreVersions' /\ TrustReadInOrder'
    BY FiledKept DEF ListFails, scanVars, IInv, TypeOK
  <1> QED
    BY <1>1, <1>2 DEF ListFails, IInv, VisitInv, HangsOnlyOnRace

LEMMA SkipOtherIInv == IInv /\ SkipOther => IInv'
  <1> SUFFICES ASSUME IInv, SkipOther PROVE IInv'
    OBVIOUS
  <1>1. TypeOK'
    BY DEF SkipOther, IInv, TypeOK, checkVars
  <1>2. CapturesAreVersions' /\ TrustReadInOrder'
    BY FiledKept DEF SkipOther, IInv, TypeOK
  <1> QED
    BY <1>1, <1>2 DEF SkipOther, IInv, VisitInv, HangsOnlyOnRace

LEMMA StatRegularIInv == IInv /\ StatRegular => IInv'
  <1> SUFFICES ASSUME IInv, StatRegular PROVE IInv'
    OBVIOUS
  <1>1. TypeOK'
    BY DEF StatRegular, IInv, TypeOK, scanVars, checkVars
  <1>2. CapturesAreVersions' /\ TrustReadInOrder'
    BY FiledKept DEF StatRegular, scanVars, IInv, TypeOK
  <1>3. Visiting' = Visiting
    BY DEF StatRegular, scanVars, Visiting
  <1>4. now \in listedAt..now
    BY DEF IInv, TypeOK
  <1>5. VisitInv'
    BY <1>3, <1>4 DEF StatRegular, scanVars, VisitInv, Found, Here
  <1> QED
    BY <1>1, <1>2, <1>5 DEF StatRegular, IInv, HangsOnlyOnRace

\* What a failed look makes of a name is what Look makes of it.
LEMMA ReturnProblem ==
  ASSUME IInv, pc \in {"scan", "open", "read"}, Visiting \in SpecName,
         NEW at \in listedAt..now,
         Visiting \in DOMAIN timeline[at].node
             => timeline[at].node[Visiting].kind # "file",
         \A i \in DOMAIN trust : trust[i].at <= at,
         Return(TRUE, NoContent, at)
  PROVE  IInv'
  <1> DEFINE file == [name |-> Visiting, problem |-> TRUE, raw |-> NoContent, at |-> at]
  <1>1. NoContent \in Content
    BY DEF NoContent, Content
  <1>2. at \in Nat
    BY DEF IInv, TypeOK
  <1>3. /\ \A names : Visiting \in names => file \in Capture(names)
        /\ file.at = at /\ file.name = Visiting
    BY <1>1, <1>2 DEF Capture
  <1>4. FindingIn(file) = Look(timeline[file.at], file.name)
    BY <1>3 DEF FindingIn, Look, FindingOf, Unreadable
  <1>5. /\ \/ /\ file \in Capture({CredentialBundleName})
              /\ cred' = file /\ trust' = trust
           \/ /\ file \in Capture(TrustBundleName)
              /\ trust' = Append(trust, file) /\ cred' = cred
        /\ todo' = todo \ {Visiting} /\ handle' = None /\ pc' = "scan"
        /\ UNCHANGED <<timeline, now, listedAt, checkVars>>
    BY <1>3 DEF Return, SpecName
  <1> HIDE DEF file
  <1> QED
    BY <1>3, <1>4, <1>5, FileReturned

\* What is filed at any time is no older than what is filed now.
LEMMA FiledBeforeNow ==
  ASSUME IInv PROVE \A i \in DOMAIN trust : trust[i].at <= now
  <1>1. \A i \in DOMAIN trust : trust[i] \in Captures
    BY DEF Captures, ToSet
  <1> QED
    BY <1>1 DEF IInv, CapturesAreVersions, TypeOK

LEMMA StatRejectsIInv == IInv /\ StatRejects => IInv'
  <1> SUFFICES ASSUME IInv, StatRejects PROVE IInv'
    OBVIOUS
  <1>1. now \in listedAt..now
    BY DEF IInv, TypeOK
  <1>2. Visiting \in DOMAIN timeline[now].node
            => timeline[now].node[Visiting].kind # "file"
    BY DEF StatRejects, Found, Here, IsRegular
  <1> QED
    BY <1>1, <1>2, FiledBeforeNow, ReturnProblem DEF StatRejects

LEMMA OpenIInv == IInv /\ Open => IInv'
  <1> SUFFICES ASSUME IInv, Open PROVE IInv'
    OBVIOUS
  <1>1. now \in Nat /\ now \in 1..Len(timeline) /\ now \in listedAt..now
    BY DEF IInv, TypeOK, IsTimeline
  <1>2. Here.node[Visiting] \in Node
    BY <1>1 DEF Open, Found, Here, IInv, TypeOK, IsTimeline, IsFolder
  <1>3. handle' \in OpenFile
    BY <1>1, <1>2 DEF Open, OpenFile
  <1>4. TypeOK'
    BY <1>3 DEF Open, IInv, TypeOK, checkVars
  <1>5. CapturesAreVersions' /\ TrustReadInOrder'
    BY FiledKept DEF Open, IInv, TypeOK
  <1>6. Visiting' = Visiting
    BY DEF Open, Visiting
  <1>7. VisitInv'
    BY <1>1, <1>3, <1>6, FiledBeforeNow DEF Open, Found, Here, IInv, VisitInv
  <1> QED
    BY <1>4, <1>5, <1>7 DEF Open, IInv, HangsOnlyOnRace

LEMMA OpenFailsIInv == IInv /\ OpenFails => IInv'
  <1> SUFFICES ASSUME IInv, OpenFails PROVE IInv'
    OBVIOUS
  <1>1. now \in listedAt..now /\ Visiting \in SpecName
    BY DEF IInv, TypeOK, VisitInv, OpenFails
  <1>2. Visiting \in DOMAIN timeline[now].node
            => timeline[now].node[Visiting].kind # "file"
    BY DEF OpenFails, Found, Here
  <1> QED
    BY <1>1, <1>2, FiledBeforeNow, ReturnProblem DEF OpenFails

LEMMA OpenHangsIInv == IInv /\ OpenHangs => IInv'
  <1> SUFFICES ASSUME IInv, OpenHangs PROVE IInv'
    OBVIOUS
  <1>1. TypeOK'
    BY DEF OpenHangs, IInv, TypeOK, scanVars, checkVars
  <1>2. CapturesAreVersions' /\ TrustReadInOrder'
    BY FiledKept DEF OpenHangs, scanVars, IInv, TypeOK
  <1>3. Visiting' = Visiting
    BY DEF OpenHangs, scanVars, Visiting
  <1>4. PICK v \in listedAt..now : /\ Visiting \in DOMAIN timeline[v].node
                                  /\ IsRegular(timeline[v].node[Visiting])
    BY DEF OpenHangs, IInv, VisitInv
  <1>5. v # now /\ v \in listedAt..(now - 1)
    BY <1>4 DEF OpenHangs, Here, IsRegular, IInv, TypeOK
  <1>6. HangsOnlyOnRace'
    BY <1>3, <1>4, <1>5 DEF OpenHangs, scanVars, HangsOnlyOnRace
  <1> QED
    BY <1>1, <1>2, <1>6 DEF OpenHangs, IInv, VisitInv

LEMMA ReadIInv == IInv /\ Read => IInv'
  <1> SUFFICES ASSUME IInv, Read PROVE IInv'
    OBVIOUS
  <1>1. /\ handle \in OpenFile /\ handle.at \in listedAt..now
        /\ Visiting \in SpecName
        /\ Visiting \in DOMAIN timeline[handle.at].node
        /\ handle.node = timeline[handle.at].node[Visiting]
        /\ \A i \in DOMAIN trust : trust[i].at <= handle.at
    BY DEF Read, IInv, VisitInv
  <1> DEFINE file == [name |-> Visiting, problem |-> FALSE,
                      raw |-> handle.node.content, at |-> handle.at]
  <1>2. /\ \A names : Visiting \in names => file \in Capture(names)
        /\ file.at = handle.at /\ file.name = Visiting
    BY <1>1 DEF Capture, OpenFile, Node
  <1>3. FindingIn(file) = Look(timeline[file.at], file.name)
    BY <1>1, <1>2 DEF Read, FindingIn, Look, FindingOf
  <1>4. /\ \/ /\ file \in Capture({CredentialBundleName})
              /\ cred' = file /\ trust' = trust
           \/ /\ file \in Capture(TrustBundleName)
              /\ trust' = Append(trust, file) /\ cred' = cred
        /\ todo' = todo \ {Visiting} /\ handle' = None /\ pc' = "scan"
        /\ UNCHANGED <<timeline, now, listedAt, checkVars>>
    BY <1>1, <1>2 DEF Read, Return, SpecName
  <1> HIDE DEF file
  <1> QED
    BY <1>1, <1>2, <1>3, <1>4, FileReturned DEF Read

LEMMA ReadFailsIInv == IInv /\ ReadFails => IInv'
  <1> SUFFICES ASSUME IInv, ReadFails PROVE IInv'
    OBVIOUS
  <1>1. /\ handle.at \in listedAt..now
        /\ Visiting \in SpecName
        /\ handle.node = timeline[handle.at].node[Visiting]
        /\ \A i \in DOMAIN trust : trust[i].at <= handle.at
    BY DEF ReadFails, IInv, VisitInv
  <1> QED
    BY <1>1, ReturnProblem DEF ReadFails

---------------------------------------------------------------------------
(* The checks.                                                             *)

\* A check that appends assertions and leaves what was read alone.
LEMMA Recorded ==
  ASSUME IInv, pc \notin {"list", "open", "read", "hung"},
         UNCHANGED <<timeline, now, scanVars>>,
         chain' \in Seq(DOMAIN Cert), next' \in 1..(Len(trust) + 1),
         report' \in Seq(Assertion), exit' \in {-1, 0, 1, 2},
         pc' \in {"credential", "trust", "emit", "done"}
  PROVE  IInv'
  <1>1. TypeOK'
    BY DEF IInv, TypeOK, scanVars
  <1>2. CapturesAreVersions' /\ TrustReadInOrder'
    BY FiledKept DEF scanVars, IInv, TypeOK
  <1> QED
    BY <1>1, <1>2 DEF IInv, VisitInv, HangsOnlyOnRace

LEMMA JudgingIInv == IInv /\ Judging => IInv'
  <1> SUFFICES ASSUME IInv, Judging PROVE IInv'
    OBVIOUS
  <1>1. /\ report \in Seq(Assertion) /\ chain \in Seq(DOMAIN Cert)
        /\ next \in 1..(Len(trust) + 1) /\ exit \in {-1, 0, 1, 2}
    BY DEF IInv, TypeOK
  <1>2. CASE Presence
    <2>1. report' \in Seq(Assertion)
      BY <1>1, <1>2, PresenceType, Concatenation DEF Presence, Record
    <2> QED
      BY <1>1, <1>2, <2>1, Recorded DEF Presence
  <1>3. CASE CredentialBundle
    <2>1. report' \in Seq(Assertion)
      BY <1>1, <1>3, CredentialBundleType, Concatenation DEF CredentialBundle, Record
    <2>2. cred.raw.blocks \in Seq(Block)
      BY <1>3 DEF CredentialBundle, ToCheck, IInv, TypeOK, Capture, Content
    <2>3. chain' \in Seq(DOMAIN Cert)
      BY <1>3, <2>2, ChainOfType DEF CredentialBundle
    <2> QED
      BY <1>1, <1>3, <2>1, <2>3, Recorded DEF CredentialBundle
  <1>4. CASE NoCredentialBundle
    BY <1>1, <1>4, Recorded DEF NoCredentialBundle, checkVars
  <1>5. CASE TrustBundle
    <2>1. trust \in Seq(Capture(TrustBundleName)) /\ next \in 1..Len(trust)
      BY <1>1, <1>5 DEF TrustBundle, IInv, TypeOK
    <2>2. next + 1 \in 1..(Len(trust) + 1)
      BY <2>1
    <2>3. trust[next].name \in TrustBundleName
      <3>1. trust[next] \in Capture(TrustBundleName)
        BY <2>1
      <3> QED
        BY <3>1 DEF Capture
    <2>4. report' \in Seq(Assertion)
      BY <1>1, <1>5, <2>3, TrustBundleType, Concatenation DEF TrustBundle, Record
    <2> QED
      BY <1>1, <1>5, <2>2, <2>4, Recorded DEF TrustBundle
  <1>6. CASE OwnTrustBundle
    <2>1. report' \in Seq(Assertion)
      BY <1>1, <1>6, OwnTrustBundleType, Concatenation DEF OwnTrustBundle, Record
    <2> QED
      BY <1>1, <1>6, <2>1, Recorded DEF OwnTrustBundle
  <1>7. CASE Emit
    BY <1>1, <1>7, Recorded DEF Emit, ExitOf
  <1> QED
    BY <1>2, <1>3, <1>4, <1>5, <1>6, <1>7 DEF Judging

---------------------------------------------------------------------------

LEMMA NextIInv == IInv /\ [Next]_vars => IInv'
  <1> SUFFICES ASSUME IInv, [Next]_vars PROVE IInv'
    OBVIOUS
  <1>1. CASE Publish
    BY <1>1, PublishIInv
  <1>2. CASE Scan
    BY <1>2, ListFolderIInv, ListFailsIInv, SkipOtherIInv, StatRegularIInv,
       StatRejectsIInv, OpenIInv, OpenFailsIInv, OpenHangsIInv, ReadIInv,
       ReadFailsIInv DEF Scan
  <1>3. CASE Judging
    BY <1>3, JudgingIInv
  <1>4. CASE UNCHANGED vars
    <2>1. TypeOK'
      BY <1>4 DEF IInv, TypeOK, vars, scanVars, checkVars
    <2>2. CapturesAreVersions' /\ TrustReadInOrder'
      BY <1>4, FiledKept DEF vars, scanVars, IInv, TypeOK
    <2>3. Visiting' = Visiting
      BY <1>4 DEF vars, scanVars, Visiting
    <2> QED
      BY <1>4, <2>1, <2>2, <2>3
         DEF IInv, VisitInv, HangsOnlyOnRace, vars, scanVars
  <1> QED
    BY <1>1, <1>2, <1>3, <1>4 DEF Next, Stopped

LEMMA Invariance == Spec => []IInv
  BY InitIInv, NextIInv, PTL DEF Spec

\* The state of credentialfolder.Check has its types, whatever the folder holds:
\* every check appends assertions of known clauses and tags only, and the chain
\* handed to checkOwnTrustBundle is made of parsed certificates.
THEOREM TypeCorrect == Spec => []TypeOK
  <1>1. IInv => TypeOK
    BY DEF IInv
  <1> QED
    BY <1>1, Invariance, PTL

\* Every file is judged by what it was in one folder in place since the listing,
\* however many times the provisioner publishes between stat, open and read.
THEOREM CapturesTheorem == Spec => []CapturesAreVersions
  <1>1. IInv => CapturesAreVersions
    BY DEF IInv
  <1> QED
    BY <1>1, Invariance, PTL

\* The versions the trust bundles are read from never go back in time.
THEOREM ReadOrderTheorem == Spec => []TrustReadInOrder
  <1>1. IInv => TrustReadInOrder
    BY DEF IInv
  <1> QED
    BY <1>1, Invariance, PTL

\* Only a FIFO put in place of a regular file during the scan can hang it.
THEOREM HangTheorem == Spec => []HangsOnlyOnRace
  <1>1. IInv => HangsOnlyOnRace
    BY DEF IInv
  <1> QED
    BY <1>1, Invariance, PTL

---------------------------------------------------------------------------
(* The invariant: CredentialFolder's own, and what it leaves out, namely   *)
(* which files have been filed, and what the report says of them so far.   *)

Filed == {c.name : c \in Captures}

\* The folder has been listed.
HasListed == pc # "list" /\ exit # 2

FiledInv ==
    /\ HasListed => Filed \cup (todo \cap SpecName) = Listed /\ Filed \cap todo = {}
    /\ \A i, j \in DOMAIN trust : trust[i].name = trust[j].name => i = j
    /\ pc \in {"open", "read"} => todo # {}
    /\ pc \in {"credential", "trust", "emit"} => todo = {}
    /\ pc = "done" => exit = 2 \/ todo = {}
    /\ exit = 2 => Filed = {} /\ report = << >>
    /\ pc # "done" => exit = -1

CredentialTopics == On(CredentialClauses, CredentialBundleName)

BundleTopics(tag) == On(TrustBundleClauses, tag)

\* The first n trust bundles.
TrustTopics(n) == UNION {BundleTopics(trust[i].name) : i \in 1..n}

\* The line every trust bundle gets.
HasVerdict(i) == Topic("FSDTrustBundleCertificates", trust[i].name) \in Topics(report)

Scanning == {"list", "scan", "open", "read", "hung"}

LinesInv ==
    /\ pc \in Scanning => report = << >> /\ next = 1
    /\ pc = "credential" => Topics(report) \subseteq PresenceTopics /\ next = 1
    /\ pc = "trust" =>
         /\ Topics(report) \subseteq PresenceTopics \cup CredentialTopics \cup TrustTopics(next - 1)
         /\ \A i \in 1..(next - 1) : HasVerdict(i)
    /\ pc \in {"emit", "done"} /\ exit # 2 => \A i \in DOMAIN trust : HasVerdict(i)
    /\ NoneTwice(report)

\* Whether the checks of each kind pass.
PresencePasses == ~Failed(CheckPresence(cred, trust))

CredentialPasses ==
    ToCheck => ~Failed(CheckCredentialBundle(cred.raw, Anchors(RawOf(ToSet(trust)))))

BundlePasses(i) == ~Failed(CheckTrustBundle(trust[i]))

TheChain == IF ToCheck THEN ChainOf(cred.raw.blocks) ELSE << >>

OwnPasses == TheChain # << >> => ~Failed(CheckOwnTrustBundle(TheChain, trust))

FailuresInv ==
    /\ pc = "credential" => (Failed(report) <=> ~PresencePasses)
    /\ pc = "trust" =>
         (Failed(report) <=>
            \/ ~PresencePasses
            \/ ~CredentialPasses
            \/ \E i \in 1..(next - 1) : ~BundlePasses(i))
    /\ pc \in {"emit", "done"} /\ exit # 2 =>
         (Failed(report) <=>
            \/ ~PresencePasses
            \/ ~CredentialPasses
            \/ \E i \in DOMAIN trust : ~BundlePasses(i)
            \/ ~OwnPasses)
    /\ pc \in Scanning \cup {"credential"} => chain = << >>
    /\ pc = "trust" => chain = TheChain
    /\ pc = "done" /\ exit # 2 => exit = ExitOf(report)

FInv == IInv /\ FiledInv /\ LinesInv /\ FailuresInv

---------------------------------------------------------------------------
(* The entry the loop is at is one that is left to do.                     *)

LEMMA FirstOfIsOne ==
  ASSUME NEW names, names \subseteq Name, names # {}
  PROVE  FirstOf(names) \in names
  <1> DEFINE T == {i \in DOMAIN NameOrder : NameOrder[i] \in names}
             First(i) == /\ NameOrder[i] \in names
                         /\ \A k \in 1..(i - 1) : NameOrder[k] \notin names
  <1>1. DOMAIN NameOrder = 1..Len(NameOrder) /\ Len(NameOrder) \in Nat
    BY TimelineAssumption
  <1>2. T \subseteq Nat /\ T # {}
    <2>1. PICK n \in names : TRUE
      OBVIOUS
    <2>2. PICK i \in DOMAIN NameOrder : NameOrder[i] = n
      BY DEF Name, ToSet
    <2> QED
      BY <1>1, <2>2
  <1>3. PICK i \in T : \A y \in T : i <= y
    BY <1>2, LeastNat
  <1>4. i \in DOMAIN NameOrder /\ First(i)
    <2>1. \A k \in 1..(i - 1) : k \in DOMAIN NameOrder /\ ~(i <= k)
      BY <1>1, <1>3
    <2> QED
      BY <1>3, <2>1
  <1>5. FirstOf(names) = NameOrder[CHOOSE k \in DOMAIN NameOrder : First(k)]
    BY DEF FirstOf
  <1> HIDE DEF First
  <1>6. First(CHOOSE k \in DOMAIN NameOrder : First(k))
    BY <1>4
  <1> QED
    BY <1>5, <1>6 DEF First

LEMMA VisitingIsLeft ==
  ASSUME IInv, todo # {}
  PROVE  Visiting \in todo
  BY FirstOfIsOne DEF IInv, TypeOK, Visiting

---------------------------------------------------------------------------
(* Which files have been filed.                                            *)

LEMMA InitFInv == Init => FInv
  <1> SUFFICES ASSUME Init PROVE FInv
    OBVIOUS
  <1>1. Captures = {} /\ Filed = {}
    BY DEF Init, Captures, Filed, ToSet
  <1>2. FiledInv
    BY <1>1 DEF Init, FiledInv, HasListed
  <1>3. LinesInv
    BY NoLine DEF Init, LinesInv, Scanning
  <1>4. FailuresInv
    BY DEF Init, FailuresInv
  <1> QED
    BY <1>2, <1>3, <1>4, InitIInv DEF FInv

\* A step of the scan writes nothing.
LEMMA ScanWritesNothing ==
  ASSUME FInv, pc \in Scanning, pc' \in Scanning, UNCHANGED <<chain, next, report>>
  PROVE  LinesInv' /\ FailuresInv'
  BY DEF FInv, LinesInv, FailuresInv, Scanning

\* A step that leaves the files alone.
LEMMA FiledUnchanged ==
  ASSUME UNCHANGED <<timeline, listedAt, cred, trust>>
  PROVE  Filed' = Filed /\ Listed' = Listed
  BY DEF Filed, Captures, Listed

LEMMA AppendIsMember ==
  ASSUME NEW S, NEW s \in Seq(S), NEW e \in S
  PROVE  ToSet(Append(s, e)) = ToSet(s) \cup {e}
  <1>1. PICK t : t = Append(s, e)
    OBVIOUS
  <1>2. PICK n \in Nat : n = Len(s)
    OBVIOUS
  <1>3. /\ DOMAIN s = 1..n /\ DOMAIN t = 1..(n + 1)
        /\ \A i \in 1..n : t[i] = s[i]
        /\ t[n + 1] = e
    BY <1>1, <1>2
  <1>4. \A i : i \in 1..(n + 1) <=> i \in 1..n \/ i = n + 1
    BY <1>2
  <1>5. ToSet(t) = {t[i] : i \in DOMAIN t} /\ ToSet(s) = {s[i] : i \in DOMAIN s}
    BY DEF ToSet
  <1>6. ToSet(t) \subseteq ToSet(s) \cup {e}
    BY <1>3, <1>4, <1>5
  <1>7. ToSet(s) \subseteq ToSet(t)
    BY <1>3, <1>4, <1>5
  <1>8. e \in ToSet(t)
    BY <1>3, <1>4, <1>5
  <1> QED
    BY <1>1, <1>6, <1>7, <1>8

LEMMA NewCapture ==
  ASSUME IInv, NEW file, NEW problem \in BOOLEAN, NEW raw \in Content, NEW at \in Nat,
         file = [name |-> Visiting, problem |-> problem, raw |-> raw, at |-> at],
         Visiting \in SpecName, Visiting \notin Filed,
         \/ Visiting = CredentialBundleName /\ cred' = file /\ trust' = trust
         \/ Visiting # CredentialBundleName /\ trust' = Append(trust, file) /\ cred' = cred
  PROVE  Captures' = Captures \cup {file}
  <1>1. CASE Visiting = CredentialBundleName /\ cred' = file /\ trust' = trust
    <2>1. cred = None
      <3>1. cred # None => cred.name = CredentialBundleName /\ cred \in Captures
        BY DEF IInv, TypeOK, Capture, Captures
      <3> QED
        BY <1>1, <3>1 DEF Filed
    <2>2. file \in Capture({CredentialBundleName})
      BY <1>1 DEF Capture
    <2>3. file # None
      BY <2>2, AbsenceAssumption
    <2> QED
      BY <1>1, <2>1, <2>3 DEF Captures
  <1>2. CASE Visiting # CredentialBundleName /\ trust' = Append(trust, file) /\ cred' = cred
    <2>1. trust \in Seq(Capture(TrustBundleName))
      BY DEF IInv, TypeOK
    <2>2. ToSet(Append(trust, file)) = ToSet(trust) \cup {file}
      <3>1. file \in Capture(TrustBundleName)
        BY <1>2 DEF Capture, SpecName
      <3> QED
        BY <2>1, <3>1, AppendIsMember
    <2> QED
      BY <1>2, <2>2 DEF Captures
  <1> QED
    BY <1>1, <1>2

\* readSpecFile's result is filed under a name that was not filed before.
LEMMA ReturnFiles ==
  ASSUME FInv, pc \in {"scan", "open", "read"}, todo # {}, Visiting \in SpecName,
         NEW problem \in BOOLEAN, NEW raw \in Content, NEW at \in Nat,
         Return(problem, raw, at)
  PROVE  FiledInv' /\ LinesInv' /\ FailuresInv'
  <1> DEFINE file == [name |-> Visiting, problem |-> problem, raw |-> raw, at |-> at]
  <1>1. /\ \/ Visiting = CredentialBundleName /\ cred' = file /\ trust' = trust
           \/ Visiting # CredentialBundleName /\ trust' = Append(trust, file) /\ cred' = cred
        /\ todo' = todo \ {Visiting} /\ pc' = "scan"
        /\ UNCHANGED <<timeline, listedAt, chain, next, report, exit>>
    BY DEF Return, checkVars
  <1>2. file.name = Visiting
    OBVIOUS
  <1>3. IInv /\ FiledInv /\ HasListed
    BY DEF FInv, FiledInv, HasListed
  <1>4. Visiting \in todo /\ Visiting \notin Filed
    BY <1>3, VisitingIsLeft DEF FiledInv
  <1>5. Captures' = Captures \cup {file}
    BY <1>1, <1>3, <1>4, NewCapture
  <1> HIDE DEF file
  <1>6. Filed' = Filed \cup {Visiting}
    BY <1>2, <1>5 DEF Filed
  <1>7. Listed' = Listed
    BY <1>1 DEF Listed
  <1>8. \A i, j \in DOMAIN trust' : trust'[i].name = trust'[j].name => i = j
    <2>1. CASE trust' = trust
      BY <1>3, <2>1 DEF FiledInv
    <2>2. CASE trust' = Append(trust, file)
      <3>1. trust \in Seq(Capture(TrustBundleName)) /\ DOMAIN trust = 1..Len(trust)
            /\ Len(trust) \in Nat
        BY <1>3 DEF IInv, TypeOK
      <3>2. \A i \in DOMAIN trust : trust[i].name \in Filed
        BY DEF Filed, Captures, ToSet
      <3>3. /\ DOMAIN trust' = 1..(Len(trust) + 1)
            /\ \A i \in DOMAIN trust : trust'[i] = trust[i]
            /\ trust'[Len(trust) + 1] = file
        BY <2>2, <3>1
      <3>4. \A i \in DOMAIN trust' : i \in DOMAIN trust \/ i = Len(trust) + 1
        BY <3>1, <3>3
      <3> QED
        BY <1>2, <1>3, <1>4, <3>2, <3>3, <3>4 DEF FiledInv
    <2> QED
      BY <1>1, <2>1, <2>2
  <1>9. FiledInv'
    <2>1. /\ Filed \cup (todo \cap SpecName) = Listed /\ Filed \cap todo = {}
          /\ exit = -1 /\ exit # 2
      BY <1>3 DEF FiledInv, HasListed
    <2>2. /\ Filed' \cup (todo' \cap SpecName) = Listed'
          /\ Filed' \cap todo' = {}
      BY <1>1, <1>4, <1>6, <1>7, <2>1
    <2> QED
      BY <1>1, <1>8, <2>1, <2>2 DEF FiledInv
  <1>10. LinesInv' /\ FailuresInv'
    BY <1>1, ScanWritesNothing DEF Scanning
  <1> QED
    BY <1>9, <1>10

LEMMA ScanFInv == FInv /\ Scan => FiledInv' /\ LinesInv' /\ FailuresInv'
  <1> SUFFICES ASSUME FInv, Scan PROVE FiledInv' /\ LinesInv' /\ FailuresInv'
    OBVIOUS
  <1>1. IInv /\ FiledInv
    BY DEF FInv
  <1>2. NoContent \in Content /\ now \in Nat
    BY <1>1 DEF NoContent, Content, IInv, TypeOK, IsTimeline
  <1>3. CASE ListFolder
    <2>1. Filed' = {}
      BY <1>1, <1>3 DEF ListFolder, IInv, Filed, Captures, ToSet
    <2>2. trust' = << >> /\ exit' = -1 /\ pc' = "scan" /\ UNCHANGED <<chain, next, report>>
          /\ todo' = DOMAIN Here.node /\ listedAt' = now /\ timeline' = timeline /\ pc = "list"
      BY <1>1, <1>3 DEF ListFolder, IInv, FiledInv, checkVars
    <2>3. Listed' = todo' \cap SpecName
      BY <2>2 DEF Listed, Here
    <2>4. FiledInv'
      BY <2>1, <2>2, <2>3 DEF FiledInv
    <2> QED
      BY <2>2, <2>4, ScanWritesNothing DEF Scanning
  <1>4. CASE ListFails
    <2>1. Filed' = {} /\ trust' = << >>
      BY <1>1, <1>4 DEF ListFails, scanVars, IInv, Filed, Captures, ToSet
    <2>2. exit' = 2 /\ pc' = "done" /\ report' = report /\ report = << >>
      BY <1>4 DEF ListFails, FInv, LinesInv, Scanning
    <2>3. FiledInv'
      BY <2>1, <2>2 DEF FiledInv, HasListed
    <2>4. LinesInv' /\ FailuresInv'
      BY <2>2 DEF FInv, LinesInv, FailuresInv, Scanning
    <2> QED
      BY <2>3, <2>4
  <1>5. CASE SkipOther
    <2>1. UNCHANGED <<timeline, listedAt, cred, trust, chain, next, report, exit, pc>>
          /\ pc = "scan" /\ todo' = todo \ {Visiting} /\ Visiting \notin SpecName
      BY <1>5 DEF SkipOther, checkVars
    <2>2. Filed' = Filed /\ Listed' = Listed
      BY <2>1, FiledUnchanged
    <2>3. FiledInv'
      BY <1>1, <2>1, <2>2 DEF FiledInv, HasListed
    <2> QED
      BY <2>1, <2>3, ScanWritesNothing DEF Scanning
  <1>6. CASE StatRegular
    <2>1. UNCHANGED <<timeline, listedAt, todo, cred, trust, chain, next, report, exit>>
          /\ pc = "scan" /\ pc' = "open" /\ todo # {}
      BY <1>6 DEF StatRegular, scanVars, checkVars
    <2>2. Filed' = Filed /\ Listed' = Listed
      BY <2>1, FiledUnchanged
    <2>3. FiledInv'
      BY <1>1, <2>1, <2>2 DEF FiledInv, HasListed
    <2> QED
      BY <2>1, <2>3, ScanWritesNothing DEF Scanning
  <1>7. CASE StatRejects
    BY <1>2, <1>7, ReturnFiles DEF StatRejects
  <1>8. CASE Open
    <2>1. UNCHANGED <<timeline, listedAt, todo, cred, trust, chain, next, report, exit>>
          /\ pc = "open" /\ pc' = "read"
      BY <1>8 DEF Open, checkVars
    <2>2. Filed' = Filed /\ Listed' = Listed
      BY <2>1, FiledUnchanged
    <2>3. FiledInv'
      BY <1>1, <2>1, <2>2 DEF FiledInv, HasListed
    <2> QED
      BY <2>1, <2>3, ScanWritesNothing DEF Scanning
  <1>9. CASE OpenFails
    <2>1. pc = "open" /\ Visiting \in SpecName /\ todo # {}
      BY <1>1, <1>9 DEF OpenFails, IInv, VisitInv, FiledInv
    <2> QED
      BY <1>2, <1>9, <2>1, ReturnFiles DEF OpenFails
  <1>10. CASE OpenHangs
    <2>1. UNCHANGED <<timeline, listedAt, todo, cred, trust, chain, next, report, exit>>
          /\ pc = "open" /\ pc' = "hung"
      BY <1>10 DEF OpenHangs, scanVars, checkVars
    <2>2. Filed' = Filed /\ Listed' = Listed
      BY <2>1, FiledUnchanged
    <2>3. FiledInv'
      BY <1>1, <2>1, <2>2 DEF FiledInv, HasListed
    <2> QED
      BY <2>1, <2>3, ScanWritesNothing DEF Scanning
  <1>11. ASSUME pc = "read"
         PROVE  /\ Visiting \in SpecName /\ todo # {}
                /\ handle.at \in Nat /\ handle.node.content \in Content
    BY <1>1, <1>11 DEF IInv, VisitInv, FiledInv, OpenFile, Node
  <1>12. CASE Read
    BY <1>11, <1>12, ReturnFiles DEF Read
  <1>13. CASE ReadFails
    BY <1>2, <1>11, <1>13, ReturnFiles DEF ReadFails
  <1> QED
    BY <1>3, <1>4, <1>5, <1>6, <1>7, <1>8, <1>9, <1>10, <1>12, <1>13 DEF Scan
---------------------------------------------------------------------------
(* What the checks add to the report.                                      *)

LEMMA OnClauses ==
  ASSUME NEW clauses, NEW tag
  PROVE  \A k \in On(clauses, tag) : k.clause \in clauses
  BY TopicParts DEF On

LEMMA ClausesApart ==
  ASSUME NEW S, NEW T, NEW C, NEW D, C \cap D = {},
         \A k \in S : k.clause \in C, \A k \in T : k.clause \in D
  PROVE  S \cap T = {}
  OBVIOUS

LEMMA PresenceClauses ==
  \A k \in PresenceTopics :
     k.clause \in {"FSDCredentialBundlePresent", "FSDTrustBundlePresent"}
  <1>1. /\ Topic("FSDCredentialBundlePresent", CredentialBundleName).clause
              = "FSDCredentialBundlePresent"
        /\ Topic("FSDTrustBundlePresent", NoTag).clause = "FSDTrustBundlePresent"
    BY TopicParts
  <1> QED
    BY <1>1 DEF PresenceTopics, NoTag

LEMMA OwnTopicClauses ==
  \A k \in OwnTopics : k.clause \in OwnClauses
  <1>1. /\ Topic("FSDOwnTrustBundle", NoTag).clause = "FSDOwnTrustBundle"
        /\ Topic("FSDCredentialBundleChainComplete", CredentialBundleName).clause
              = "FSDCredentialBundleChainComplete"
    BY TopicParts
  <1> QED
    BY <1>1 DEF OwnTopics, OwnClauses, NoTag

LEMMA PresenceApart ==
  /\ PresenceTopics \cap CredentialTopics = {}
  /\ \A n : PresenceTopics \cap BundleTopics(n) = {}
  /\ PresenceTopics \cap OwnTopics = {}
  <1> DEFINE P == {"FSDCredentialBundlePresent", "FSDTrustBundlePresent"}
  <1>1. P \cap CredentialClauses = {} /\ P \cap TrustBundleClauses = {} /\ P \cap OwnClauses = {}
    BY DEF CredentialClauses, TrustBundleClauses, ShapeClauses, KeyClauses, ChainClauses,
           NameClauses, TrustDomainRules, OwnClauses
  <1>2. \A k \in PresenceTopics : k.clause \in P
    BY PresenceClauses
  <1> HIDE DEF P
  <1>3. PresenceTopics \cap CredentialTopics = {}
    BY <1>1, <1>2, OnClauses, ClausesApart DEF CredentialTopics
  <1>4. ASSUME NEW n
        PROVE  PresenceTopics \cap BundleTopics(n) = {}
    BY <1>1, <1>2, OnClauses, ClausesApart DEF BundleTopics
  <1>5. PresenceTopics \cap OwnTopics = {}
    BY <1>1, <1>2, OwnTopicClauses, ClausesApart
  <1> QED
    BY <1>3, <1>4, <1>5

LEMMA OwnApart ==
  /\ OwnTopics \cap CredentialTopics = {}
  /\ \A n : OwnTopics \cap BundleTopics(n) = {}
  <1>1. OwnClauses \cap CredentialClauses = {} /\ OwnClauses \cap TrustBundleClauses = {}
    BY DEF CredentialClauses, TrustBundleClauses, ShapeClauses, KeyClauses, ChainClauses,
           NameClauses, TrustDomainRules, OwnClauses
  <1>2. OwnTopics \cap CredentialTopics = {}
    BY <1>1, OwnTopicClauses, OnClauses, ClausesApart DEF CredentialTopics
  <1>3. ASSUME NEW n
        PROVE  OwnTopics \cap BundleTopics(n) = {}
    BY <1>1, OwnTopicClauses, OnClauses, ClausesApart DEF BundleTopics
  <1> QED
    BY <1>2, <1>3

LEMMA BundlesApart ==
  ASSUME NEW m, NEW n, m # n
  PROVE  BundleTopics(m) \cap BundleTopics(n) = {}
  BY OnDisjoint DEF BundleTopics

LEMMA CredentialApart ==
  ASSUME NEW n \in TrustBundleName
  PROVE  CredentialTopics \cap BundleTopics(n) = {}
  <1>1. CredentialBundleName # n
    BY FolderAssumption
  <1> QED
    BY <1>1, OnDisjoint DEF CredentialTopics, BundleTopics

\* A check whose lines are about something new.
LEMMA Added ==
  ASSUME NEW added \in Seq(Assertion), report \in Seq(Assertion),
         report' = report \o added, NoneTwice(report), NoneTwice(added),
         Topics(report) \cap Topics(added) = {}
  PROVE  /\ NoneTwice(report')
         /\ Topics(report') = Topics(report) \cup Topics(added)
         /\ Failed(report') <=> Failed(report) \/ Failed(added)
  <1>1. NoneTwice(report \o added)
    BY NoneTwiceInBoth
  <1>2. Topics(report \o added) = Topics(report) \cup Topics(added)
    BY TopicsOfBoth
  <1>3. Failed(report \o added) <=> Failed(report) \/ Failed(added)
    BY FailedOfBoth
  <1> QED
    BY <1>1, <1>2, <1>3

LEMMA TrustNames ==
  ASSUME IInv
  PROVE  /\ DOMAIN trust = 1..Len(trust) /\ Len(trust) \in Nat /\ next \in Nat /\ next >= 1
         /\ next - 1 <= Len(trust)
         /\ \A i \in DOMAIN trust : /\ trust[i].name \in TrustBundleName
                                    /\ trust[i].raw.blocks \in Seq(Block)
  <1>1. /\ trust \in Seq(Capture(TrustBundleName)) /\ next \in 1..(Len(trust) + 1)
    BY DEF IInv, TypeOK
  <1>2. \A i \in DOMAIN trust : trust[i] \in Capture(TrustBundleName)
    BY <1>1
  <1>3. \A i \in DOMAIN trust : /\ trust[i].name \in TrustBundleName
                               /\ trust[i].raw.blocks \in Seq(Block)
    BY <1>2 DEF Capture, Content
  <1>4. /\ DOMAIN trust = 1..Len(trust) /\ Len(trust) \in Nat /\ next \in Nat /\ next >= 1
        /\ next - 1 <= Len(trust)
    BY <1>1
  <1> QED
    BY <1>3, <1>4

LEMMA CheckTypes ==
  ASSUME IInv
  PROVE  /\ report \in Seq(Assertion)
         /\ CheckPresence(cred, trust) \in Seq(Assertion)
         /\ CheckCredentialBundle(cred.raw, Anchors(RawOf(ToSet(trust)))) \in Seq(Assertion)
         /\ \A i \in DOMAIN trust : CheckTrustBundle(trust[i]) \in Seq(Assertion)
         /\ CheckOwnTrustBundle(chain, trust) \in Seq(Assertion)
  BY PresenceType, CredentialBundleType, TrustBundleType, OwnTrustBundleType, TrustNames
     DEF IInv, TypeOK

\* The checks read the files only, and those no longer change.
LEMMA SamePasses ==
  ASSUME cred' = cred, trust' = trust
  PROVE  /\ PresencePasses' <=> PresencePasses
         /\ CredentialPasses' <=> CredentialPasses
         /\ \A i : BundlePasses(i)' <=> BundlePasses(i)
         /\ TheChain' = TheChain
         /\ OwnPasses' <=> OwnPasses
         /\ \A n : TrustTopics(n)' = TrustTopics(n)
  <1>1. TheChain' = TheChain
    BY DEF TheChain, ToCheck
  <1>2. PresencePasses' <=> PresencePasses
    BY DEF PresencePasses
  <1>3. CredentialPasses' <=> CredentialPasses
    BY DEF CredentialPasses, ToCheck
  <1>4. \A i : BundlePasses(i)' <=> BundlePasses(i)
    BY DEF BundlePasses
  <1>5. OwnPasses' <=> OwnPasses
    BY <1>1 DEF OwnPasses
  <1>6. \A n : TrustTopics(n)' = TrustTopics(n)
    BY DEF TrustTopics, BundleTopics
  <1> QED
    BY <1>1, <1>2, <1>3, <1>4, <1>5, <1>6

\* A check leaves the files as they were filed.
LEMMA CheckKeepsFiled ==
  ASSUME FiledInv, UNCHANGED <<timeline, scanVars>>, pc # "list", pc' # "list",
         exit' # 2, pc' \in {"credential", "trust", "emit", "done"}, todo = {},
         exit # 2, pc' # "done" => exit' = -1
  PROVE  FiledInv'
  <1>1. UNCHANGED <<timeline, listedAt, todo, cred, trust>>
    BY DEF scanVars
  <1>2. Filed' = Filed /\ Listed' = Listed
    BY <1>1, FiledUnchanged
  <1> QED
    BY <1>1, <1>2 DEF FiledInv, HasListed

LEMMA PresenceFInv == FInv /\ Presence => FiledInv' /\ LinesInv' /\ FailuresInv'
  <1> SUFFICES ASSUME FInv, Presence PROVE FiledInv' /\ LinesInv' /\ FailuresInv'
    OBVIOUS
  <1>1. /\ pc = "scan" /\ todo = {} /\ pc' = "credential"
        /\ report' = report \o CheckPresence(cred, trust)
        /\ UNCHANGED <<timeline, now, scanVars, chain, next, exit>>
        /\ cred' = cred /\ trust' = trust
    BY DEF Presence, Record, scanVars
  <1>2. /\ IInv /\ FiledInv /\ report = << >> /\ next = 1 /\ exit = -1
        /\ chain' = << >>
    BY <1>1 DEF FInv, LinesInv, FailuresInv, Scanning, FiledInv
  <1>3. FiledInv'
    BY <1>1, <1>2, CheckKeepsFiled
  <1>4. /\ NoneTwice(report')
        /\ Topics(report') = Topics(report) \cup Topics(CheckPresence(cred, trust))
        /\ Failed(report') <=> Failed(report) \/ Failed(CheckPresence(cred, trust))
    BY <1>1, <1>2, NoLine, PresenceLines, CheckTypes, Added
  <1>5. LinesInv'
    BY <1>1, <1>2, <1>4, NoLine, PresenceLines DEF LinesInv, Scanning
  <1>6. FailuresInv'
    <2>1. Failed(report') <=> ~PresencePasses
      BY <1>2, <1>4, NoLine, Zenon DEF PresencePasses
    <2> QED
      BY <1>1, <1>2, <2>1, SamePasses, Zenon DEF FailuresInv
  <1> QED
    BY <1>3, <1>5, <1>6

LEMMA CredentialBundleFInv == FInv /\ CredentialBundle => FiledInv' /\ LinesInv' /\ FailuresInv'
  <1> SUFFICES ASSUME FInv, CredentialBundle PROVE FiledInv' /\ LinesInv' /\ FailuresInv'
    OBVIOUS
  <1>1. PICK added : added = CheckCredentialBundle(cred.raw, Anchors(RawOf(ToSet(trust))))
    OBVIOUS
  <1>2. /\ pc = "credential" /\ ToCheck /\ pc' = "trust"
        /\ report' = report \o added
        /\ chain' = ChainOf(cred.raw.blocks)
        /\ UNCHANGED <<timeline, now, scanVars, next, exit>>
        /\ cred' = cred /\ trust' = trust
    BY <1>1 DEF CredentialBundle, Record, scanVars
  <1>3. IInv /\ FiledInv /\ LinesInv /\ next = 1 /\ exit = -1 /\ todo = {}
    BY <1>2 DEF FInv, LinesInv, FiledInv
  <1>4. FiledInv'
    BY <1>2, <1>3, CheckKeepsFiled
  <1>5. /\ added \in Seq(Assertion) /\ report \in Seq(Assertion)
        /\ NoneTwice(added) /\ Topics(added) \subseteq CredentialTopics
    BY <1>1, <1>3, CheckTypes, CredentialBundleLines DEF Writes, CredentialTopics
  <1>6. NoneTwice(report) /\ Topics(report) \subseteq PresenceTopics
    BY <1>2, <1>3 DEF LinesInv
  <1>7. Topics(report) \cap Topics(added) = {}
    BY <1>5, <1>6, PresenceApart
  <1>8. /\ NoneTwice(report')
        /\ Topics(report') = Topics(report) \cup Topics(added)
        /\ Failed(report') <=> Failed(report) \/ Failed(added)
    BY <1>2, <1>5, <1>6, <1>7, Added
  <1>9. \A i : i \notin 1..(next' - 1)
    BY <1>2, <1>3
  <1>10. LinesInv'
    BY <1>2, <1>5, <1>6, <1>8, <1>9 DEF LinesInv, Scanning
  <1>11. FailuresInv'
    <2>1. Failed(report') <=> ~PresencePasses \/ ~CredentialPasses
      BY <1>1, <1>2, <1>8, Zenon DEF FInv, FailuresInv, CredentialPasses
    <2>2. chain' = TheChain
      BY <1>2 DEF TheChain
    <2>3. ~(\E i \in 1..(next' - 1) : ~BundlePasses(i)')
      BY <1>9, Zenon
    <2> QED
      BY <1>2, <2>1, <2>2, <2>3, SamePasses DEF FailuresInv, Scanning
  <1> QED
    BY <1>4, <1>10, <1>11

LEMMA NoCredentialBundleFInv ==
  FInv /\ NoCredentialBundle => FiledInv' /\ LinesInv' /\ FailuresInv'
  <1> SUFFICES ASSUME FInv, NoCredentialBundle PROVE FiledInv' /\ LinesInv' /\ FailuresInv'
    OBVIOUS
  <1>1. /\ pc = "credential" /\ ~ToCheck /\ pc' = "trust" /\ report' = report /\ chain' = chain
        /\ UNCHANGED <<timeline, now, scanVars, next, exit>>
        /\ cred' = cred /\ trust' = trust
    BY DEF NoCredentialBundle, checkVars, scanVars
  <1>2. IInv /\ FiledInv /\ LinesInv /\ next = 1 /\ exit = -1 /\ todo = {}
    BY <1>1 DEF FInv, LinesInv, FiledInv
  <1>3. FiledInv'
    BY <1>1, <1>2, CheckKeepsFiled
  <1>4. \A i : i \notin 1..(next' - 1)
    BY <1>1, <1>2
  <1>5. LinesInv'
    BY <1>1, <1>2, <1>4 DEF LinesInv, Scanning
  <1>6. FailuresInv'
    <2>1. Failed(report') <=> ~PresencePasses \/ ~CredentialPasses
      BY <1>1, Zenon DEF FInv, FailuresInv, CredentialPasses
    <2>2. chain' = TheChain
      <3>1. chain = << >>
        BY <1>1 DEF FInv, FailuresInv
      <3> QED
        BY <1>1, <3>1, SamePasses DEF TheChain
    <2>3. ~(\E i \in 1..(next' - 1) : ~BundlePasses(i)')
      BY <1>4, Zenon
    <2> QED
      BY <1>1, <2>1, <2>2, <2>3, SamePasses DEF FailuresInv, Scanning
  <1> QED
    BY <1>3, <1>5, <1>6

\* The first n indices, one more at a time.
LEMMA OneMore ==
  ASSUME NEW n \in Nat, n >= 1
  PROVE  /\ (n + 1) - 1 = n /\ n \in 1..n
         /\ \A i : i \in 1..n <=> i \in 1..(n - 1) \/ i = n
  OBVIOUS

LEMMA TrustTopicsGrow ==
  ASSUME NEW n \in Nat, n >= 1
  PROVE  TrustTopics(n) = TrustTopics(n - 1) \cup BundleTopics(trust[n].name)
  <1>1. \A k : k \in TrustTopics(n) <=> \E i \in 1..n : k \in BundleTopics(trust[i].name)
    BY Zenon DEF TrustTopics
  <1>2. \A k : k \in TrustTopics(n - 1)
                 <=> \E i \in 1..(n - 1) : k \in BundleTopics(trust[i].name)
    BY Zenon DEF TrustTopics
  <1> QED
    BY <1>1, <1>2, OneMore, Zenon

\* The next trust bundle's lines are about none of those before it.
LEMMA NextApart ==
  ASSUME IInv, FiledInv, next \in DOMAIN trust
  PROVE  (PresenceTopics \cup CredentialTopics \cup TrustTopics(next - 1))
            \cap BundleTopics(trust[next].name) = {}
  <1>1. trust[next].name \in TrustBundleName
    BY TrustNames
  <1>2. ASSUME NEW i \in 1..(next - 1)
        PROVE  BundleTopics(trust[i].name) \cap BundleTopics(trust[next].name) = {}
    <2>1. i \in DOMAIN trust /\ i # next
      BY <1>2, TrustNames
    <2>2. trust[i].name # trust[next].name
      BY <2>1 DEF FiledInv
    <2> QED
      BY <2>2, BundlesApart
  <1>3. TrustTopics(next - 1) \cap BundleTopics(trust[next].name) = {}
    BY <1>2 DEF TrustTopics
  <1> QED
    BY <1>1, <1>3, PresenceApart, CredentialApart

LEMMA TrustBundleFInv == FInv /\ TrustBundle => FiledInv' /\ LinesInv' /\ FailuresInv'
  <1> SUFFICES ASSUME FInv, TrustBundle PROVE FiledInv' /\ LinesInv' /\ FailuresInv'
    OBVIOUS
  <1>1. PICK added : added = CheckTrustBundle(trust[next])
    OBVIOUS
  <1>2. /\ pc = "trust" /\ pc' = "trust" /\ next <= Len(trust)
        /\ report' = report \o added /\ next' = next + 1
        /\ UNCHANGED <<timeline, now, scanVars, chain, exit>>
        /\ cred' = cred /\ trust' = trust
    BY <1>1 DEF TrustBundle, Record, scanVars
  <1>3. IInv /\ FiledInv /\ LinesInv /\ exit = -1 /\ todo = {}
    BY <1>2 DEF FInv, FiledInv
  <1>4. FiledInv'
    BY <1>2, <1>3, CheckKeepsFiled
  <1>5. next \in Nat /\ next >= 1 /\ next \in DOMAIN trust
    BY <1>2, <1>3, TrustNames
  <1>6. trust[next].name \in TrustBundleName
    BY <1>3, <1>5, TrustNames
  <1>7. /\ added \in Seq(Assertion) /\ report \in Seq(Assertion)
        /\ NoneTwice(added) /\ Topics(added) \subseteq BundleTopics(trust[next].name)
        /\ Topic("FSDTrustBundleCertificates", trust[next].name) \in Topics(added)
    BY <1>1, <1>3, <1>6, CheckTypes, TrustBundleLines DEF Writes, BundleTopics
  <1>8. /\ NoneTwice(report) /\ \A i \in 1..(next - 1) : HasVerdict(i)
        /\ Topics(report) \subseteq PresenceTopics \cup CredentialTopics \cup TrustTopics(next - 1)
    BY <1>2, <1>3 DEF LinesInv
  <1>9. Topics(report) \cap Topics(added) = {}
    BY <1>3, <1>5, <1>7, <1>8, NextApart
  <1>10. /\ NoneTwice(report')
         /\ Topics(report') = Topics(report) \cup Topics(added)
         /\ Failed(report') <=> Failed(report) \/ Failed(added)
    BY <1>2, <1>7, <1>8, <1>9, Added
  <1>11. next' - 1 = next /\ \A i : i \in 1..next <=> i \in 1..(next - 1) \/ i = next
    BY <1>2, <1>5, OneMore
  <1>12. LinesInv'
    <2>1. TrustTopics(next) = TrustTopics(next - 1) \cup BundleTopics(trust[next].name)
      BY <1>5, TrustTopicsGrow
    <2>2. Topics(report') \subseteq PresenceTopics \cup CredentialTopics \cup TrustTopics(next)
      BY <1>7, <1>8, <1>10, <2>1
    <2>3. TrustTopics(next - 1)' = TrustTopics(next)
      BY <1>2, <1>11, Zenon DEF TrustTopics, BundleTopics
    <2>4. \A i \in 1..next : HasVerdict(i)'
      BY <1>2, <1>7, <1>8, <1>10, <1>11 DEF HasVerdict
    <2> QED
      BY <1>2, <1>10, <1>11, <2>2, <2>3, <2>4 DEF LinesInv, Scanning
  <1>13. FailuresInv'
    <2>1. Failed(added) <=> ~BundlePasses(next)
      BY <1>1, Zenon DEF BundlePasses
    <2>2. Failed(report) <=>
            \/ ~PresencePasses
            \/ ~CredentialPasses
            \/ \E i \in 1..(next - 1) : ~BundlePasses(i)
      BY <1>2 DEF FInv, FailuresInv
    <2>3. Failed(report') <=>
            \/ ~PresencePasses
            \/ ~CredentialPasses
            \/ \E i \in 1..next : ~BundlePasses(i)
      BY <1>10, <1>11, <2>1, <2>2, Zenon
    <2>4. (\E i \in 1..next : ~BundlePasses(i))
             <=> \E i \in 1..(next' - 1) : ~BundlePasses(i)'
      BY <1>2, <1>11, SamePasses, Zenon
    <2>5. chain' = TheChain'
      BY <1>2, SamePasses DEF FInv, FailuresInv
    <2> QED
      BY <1>2, <2>3, <2>4, <2>5, SamePasses DEF FailuresInv, Scanning
  <1> QED
    BY <1>4, <1>12, <1>13

LEMMA AllJudged ==
  ASSUME IInv, next > Len(trust)
  PROVE  DOMAIN trust = 1..(next - 1)
  <1>1. /\ trust \in Seq(Capture(TrustBundleName)) /\ next \in 1..(Len(trust) + 1)
    BY DEF IInv, TypeOK
  <1>2. next - 1 = Len(trust)
    BY <1>1
  <1> QED
    BY <1>1, <1>2

LEMMA OwnTrustBundleFInv == FInv /\ OwnTrustBundle => FiledInv' /\ LinesInv' /\ FailuresInv'
  <1> SUFFICES ASSUME FInv, OwnTrustBundle PROVE FiledInv' /\ LinesInv' /\ FailuresInv'
    OBVIOUS
  <1>1. PICK added : added = CheckOwnTrustBundle(chain, trust)
    OBVIOUS
  <1>2. /\ pc = "trust" /\ pc' = "emit" /\ next > Len(trust)
        /\ IF chain # << >> THEN report' = report \o added ELSE report' = report
        /\ UNCHANGED <<timeline, now, scanVars, chain, next, exit>>
        /\ cred' = cred /\ trust' = trust
    BY <1>1 DEF OwnTrustBundle, Record, scanVars
  <1>3. IInv /\ FiledInv /\ LinesInv /\ exit = -1 /\ todo = {}
    BY <1>2 DEF FInv, FiledInv
  <1>4. FiledInv'
    BY <1>2, <1>3, CheckKeepsFiled
  <1>5. DOMAIN trust = 1..(next - 1)
    BY <1>2, <1>3, AllJudged
  <1>6. /\ added \in Seq(Assertion) /\ report \in Seq(Assertion)
        /\ NoneTwice(added) /\ Topics(added) \subseteq OwnTopics
    BY <1>1, <1>3, CheckTypes, OwnTrustBundleLines
  <1>7. /\ NoneTwice(report) /\ \A i \in DOMAIN trust : HasVerdict(i)
        /\ Topics(report) \subseteq PresenceTopics \cup CredentialTopics \cup TrustTopics(next - 1)
    BY <1>2, <1>3, <1>5 DEF LinesInv
  <1>8. Topics(report) \cap Topics(added) = {}
    <2>1. OwnTopics \cap TrustTopics(next - 1) = {}
      BY OwnApart DEF TrustTopics
    <2> QED
      BY <1>6, <1>7, <2>1, OwnApart, PresenceApart
  <1>9. report' = report \o added =>
          /\ NoneTwice(report')
          /\ Topics(report') = Topics(report) \cup Topics(added)
          /\ Failed(report') <=> Failed(report) \/ Failed(added)
    BY <1>6, <1>7, <1>8, Added
  <1>10. LinesInv'
    <2>1. NoneTwice(report') /\ Topics(report) \subseteq Topics(report')
      BY <1>2, <1>7, <1>9
    <2>2. \A i \in DOMAIN trust' : HasVerdict(i)'
      BY <1>2, <1>7, <2>1 DEF HasVerdict
    <2> QED
      BY <1>2, <2>1, <2>2 DEF LinesInv, Scanning
  <1>11. FailuresInv'
    <2>1. chain = TheChain
      BY <1>2 DEF FInv, FailuresInv
    <2>2. Failed(added) <=> ~(~Failed(CheckOwnTrustBundle(TheChain, trust)))
      BY <1>1, <2>1, Zenon
    <2>3. Failed(report) <=>
            \/ ~PresencePasses
            \/ ~CredentialPasses
            \/ \E i \in DOMAIN trust : ~BundlePasses(i)
      BY <1>2, <1>5 DEF FInv, FailuresInv
    <2>4. Failed(report') <=> Failed(report) \/ ~OwnPasses
      BY <1>2, <1>9, <2>1, <2>2, Zenon DEF OwnPasses
    <2>5. (\E i \in DOMAIN trust : ~BundlePasses(i))
             <=> \E i \in DOMAIN trust' : ~BundlePasses(i)'
      BY <1>2, SamePasses, Zenon
    <2>6. Failed(report') <=>
            \/ ~PresencePasses'
            \/ ~CredentialPasses'
            \/ \E i \in DOMAIN trust' : ~BundlePasses(i)'
            \/ ~OwnPasses'
      BY <1>2, <2>3, <2>4, <2>5, SamePasses, Zenon
    <2> QED
      BY <1>2, <2>6 DEF FailuresInv, Scanning
  <1> QED
    BY <1>4, <1>10, <1>11

\* A step that neither files nor writes anything.
LEMMA NothingNew ==
  ASSUME FInv, UNCHANGED <<timeline, listedAt, todo, cred, trust, chain, next, report>>,
         \/ pc' = pc /\ exit' = exit
         \/ pc = "emit" /\ pc' = "done" /\ exit' = ExitOf(report) /\ exit' # 2
  PROVE  FiledInv' /\ LinesInv' /\ FailuresInv'
  <1>1. FiledInv /\ LinesInv /\ FailuresInv /\ (pc = "emit" => exit # 2 /\ todo = {})
    BY DEF FInv, FiledInv
  <1>2. FiledInv'
    <2>1. Filed' = Filed /\ Listed' = Listed
      BY FiledUnchanged
    <2> QED
      BY <1>1, <2>1 DEF FiledInv, HasListed
  <1>3. LinesInv'
    <2>1. \A n : TrustTopics(n)' = TrustTopics(n)
      BY SamePasses
    <2>2. TrustTopics(next - 1)' = TrustTopics(next - 1)
      BY Zenon DEF TrustTopics, BundleTopics
    <2> QED
      BY <1>1, <2>2 DEF LinesInv, HasVerdict, Scanning
  <1>4. FailuresInv'
    <2>1. (\E i \in DOMAIN trust : ~BundlePasses(i))
             <=> \E i \in DOMAIN trust' : ~BundlePasses(i)'
      BY SamePasses, Zenon
    <2>2. (\E i \in 1..(next - 1) : ~BundlePasses(i))
             <=> \E i \in 1..(next' - 1) : ~BundlePasses(i)'
      BY SamePasses, Zenon
    <2> QED
      BY <1>1, <2>1, <2>2, SamePasses DEF FailuresInv, Scanning
  <1> QED
    BY <1>2, <1>3, <1>4

LEMMA EmitFInv == FInv /\ Emit => FiledInv' /\ LinesInv' /\ FailuresInv'
  <1> SUFFICES ASSUME FInv, Emit PROVE FiledInv' /\ LinesInv' /\ FailuresInv'
    OBVIOUS
  <1>1. /\ UNCHANGED <<timeline, listedAt, todo, cred, trust, chain, next, report>>
        /\ pc = "emit" /\ pc' = "done" /\ exit' = ExitOf(report)
    BY DEF Emit, scanVars
  <1>2. ExitOf(report) # 2
    BY DEF ExitOf
  <1> QED
    BY <1>1, <1>2, NothingNew

LEMMA NextFInv == FInv /\ [Next]_vars => FInv'
  <1> SUFFICES ASSUME FInv, [Next]_vars PROVE FInv'
    OBVIOUS
  <1>1. IInv'
    BY NextIInv DEF FInv
  <1>2. CASE Publish \/ UNCHANGED vars
    <2>1. /\ UNCHANGED <<timeline, listedAt, todo, cred, trust, chain, next, report>>
          /\ pc' = pc /\ exit' = exit
      BY <1>2 DEF Publish, vars, scanVars, checkVars
    <2> QED
      BY <1>1, <2>1, NothingNew DEF FInv
  <1>3. CASE Scan
    BY <1>1, <1>3, ScanFInv DEF FInv
  <1>4. CASE Judging
    <2>1. FiledInv' /\ LinesInv' /\ FailuresInv'
      BY <1>4, PresenceFInv, CredentialBundleFInv, NoCredentialBundleFInv,
         TrustBundleFInv, OwnTrustBundleFInv, EmitFInv DEF Judging
    <2> QED
      BY <1>1, <2>1 DEF FInv
  <1> QED
    BY <1>2, <1>3, <1>4 DEF Next, Stopped

LEMMA FileInvariance == Spec => []FInv
  BY InitFInv, NextFInv, PTL DEF Spec

---------------------------------------------------------------------------
(* What the report says of the files.                                      *)

\* A topic has one line at most, and those of a report have one.
LEMMA LineOfTopic ==
  ASSUME NEW r, NoneTwice(r), NEW c, NEW about, Topic(c, about) \in Topics(r)
  PROVE  \E k \in DOMAIN r :
           {i \in DOMAIN r : r[i].clause = c /\ r[i].about = about} = {k}
  <1>1. PICK k \in DOMAIN r : TopicOf(r[k]) = Topic(c, about)
    BY DEF Topics
  <1>2. r[k].clause = c /\ r[k].about = about
    BY <1>1, TopicInjective DEF TopicOf
  <1>3. ASSUME NEW i \in DOMAIN r, r[i].clause = c, r[i].about = about
        PROVE  i = k
    BY <1>1, <1>3 DEF TopicOf, NoneTwice
  <1> QED
    BY <1>2, <1>3

\* A file that was filed is the credential bundle or one of the trust bundles.
LEMMA FiledAre ==
  ASSUME IInv
  PROVE  /\ \A c \in Captures : (c = cred /\ cred # None) \/ \E i \in DOMAIN trust : c = trust[i]
         /\ \A i \in DOMAIN trust : trust[i] \in Captures
         /\ cred # None => cred \in Captures /\ cred.name = CredentialBundleName
  BY DEF Captures, ToSet, IInv, TypeOK, Capture

\* One line per checked clause and file.
THEOREM OneLineEach == Spec => []OneLinePerFile
  <1>1. FInv => OneLinePerFile
    BY DEF FInv, LinesInv, NoneTwice, TopicOf, OneLinePerFile
  <1> QED
    BY <1>1, FileInvariance, PTL

\* Every listed trust bundle gets its verdict once.
THEOREM BundlesJudged == Spec => []EveryBundleJudged
  <1>1. ASSUME FInv, pc \in {"emit", "done"}, exit # 2,
               NEW n \in Listed \cap TrustBundleName
        PROVE  Cardinality({ i \in DOMAIN report :
                   report[i].clause = "FSDTrustBundleCertificates"
                   /\ report[i].about = n }) = 1
    <2>1. todo = {} /\ Filed \cup (todo \cap SpecName) = Listed
      BY <1>1 DEF FInv, FiledInv, HasListed
    <2>2. n # CredentialBundleName
      BY FolderAssumption
    <2>3. PICK c \in Captures : c.name = n
      BY <2>1 DEF Filed
    <2>4. PICK i \in DOMAIN trust : trust[i].name = n
      BY <1>1, <2>2, <2>3, FiledAre DEF FInv
    <2>5. NoneTwice(report) /\ HasVerdict(i)
      BY <1>1 DEF FInv, LinesInv
    <2>6. PICK k \in DOMAIN report :
            { j \in DOMAIN report : report[j].clause = "FSDTrustBundleCertificates"
                                    /\ report[j].about = n } = {k}
      BY <2>4, <2>5, LineOfTopic DEF HasVerdict
    <2> QED
      BY <2>6, FS_Singleton
  <1>2. FInv => EveryBundleJudged
    BY <1>1 DEF EveryBundleJudged
  <1> QED
    BY <1>2, FileInvariance, PTL

---------------------------------------------------------------------------
(* The exit code is the verdict on what was filed.                         *)

\* The view holds the files as they were filed.
Viewed(view) ==
    /\ CredentialBundleName \in DOMAIN view <=> cred # None
    /\ cred # None => /\ view[CredentialBundleName].problem = cred.problem
                      /\ view[CredentialBundleName].raw = cred.raw
    /\ Shows(view, trust)

LEMMA BundlesViewed ==
  ASSUME IInv, NEW view, Shows(view, trust)
  PROVE  /\ trust # << >> <=> DOMAIN view \cap TrustBundleName # {}
         /\ (\A i \in DOMAIN trust : BundlePasses(i))
              <=> \A n \in DOMAIN view \cap TrustBundleName :
                     GoodTrustDomain(TrustDomainOf[n]) /\ GoodTrustBundle(view[n])
  <1>1. /\ DOMAIN trust = 1..Len(trust) /\ Len(trust) \in Nat
        /\ \A i \in DOMAIN trust : /\ trust[i].name \in TrustBundleName
                                   /\ trust[i].raw.blocks \in Seq(Block)
    BY TrustNames
  <1>2. ToSet(trust) = {trust[i] : i \in DOMAIN trust}
    BY DEF ToSet
  <1>3. \A n : n \in DOMAIN view \cap TrustBundleName
                 <=> \E i \in DOMAIN trust : n = trust[i].name
    BY <1>2 DEF Shows
  <1>4. ASSUME NEW i \in DOMAIN trust
        PROVE  BundlePasses(i) <=> /\ GoodTrustDomain(TrustDomainOf[trust[i].name])
                                   /\ GoodTrustBundle(view[trust[i].name])
    <2>1. /\ view[trust[i].name].raw = trust[i].raw
          /\ view[trust[i].name].problem = trust[i].problem
      BY <1>2 DEF Shows
    <2>2. GoodTrustBundle(trust[i]) <=> GoodTrustBundle(view[trust[i].name])
      BY <2>1, Zenon DEF GoodTrustBundle
    <2> QED
      BY <1>1, <2>2, TrustBundleFails DEF BundlePasses
  <1>5. trust # << >> <=> \E i : i \in DOMAIN trust
    <2>1. trust \in Seq(Capture(TrustBundleName))
      BY DEF IInv, TypeOK
    <2>2. trust = << >> <=> Len(trust) = 0
      BY <2>1, EmptySeq
    <2>3. Len(trust) = 0 <=> ~(\E i : i \in DOMAIN trust)
      <3>1. Len(trust) # 0 => 1 \in 1..Len(trust)
        BY <1>1
      <3> QED
        BY <1>1, <3>1
    <2> QED
      BY <2>2, <2>3
  <1>6. trust # << >> <=> DOMAIN view \cap TrustBundleName # {}
    BY <1>3, <1>5
  <1> QED
    BY <1>3, <1>4, <1>6, Zenon

LEMMA CredentialViewed ==
  ASSUME IInv, NEW view, Viewed(view), cred # None, ~cred.problem
  PROVE  CredentialPasses /\ OwnPasses
           <=> \/ view[CredentialBundleName].raw.empty
               \/ GoodCredential(view[CredentialBundleName].raw, view)
  <1>1. PICK raw : raw = cred.raw /\ raw = view[CredentialBundleName].raw
    BY DEF Viewed
  <1>2. raw.blocks \in Seq(Block)
    BY <1>1 DEF IInv, TypeOK, Capture, Content
  <1>3. PICK anchors : anchors = Anchors(RawOf(ToSet(trust)))
    OBVIOUS
  <1>4. PICK ch : ch = ChainOf(raw.blocks)
    OBVIOUS
  <1>5. Shows(view, trust)
    BY DEF Viewed
  <1>6. GoodCredential(raw, view) <=>
           /\ CredentialOK(raw, anchors)
           /\ ch # << >> => OwnOK(ch, trust)
    BY <1>2, <1>3, <1>4, <1>5, CredentialMeaning
  <1>7. CredentialPasses <=> (~raw.empty => CredentialOK(raw, anchors))
    <2>1. ToCheck <=> ~raw.empty
      BY <1>1 DEF ToCheck
    <2>2. Failed(CheckCredentialBundle(raw, anchors)) <=> ~CredentialOK(raw, anchors)
      BY CredentialBundleFails
    <2> QED
      BY <1>1, <1>3, <2>1, <2>2, Zenon DEF CredentialPasses
  <1>8. OwnPasses <=> (~raw.empty => (ch # << >> => OwnOK(ch, trust)))
    <2>1. ToCheck <=> ~raw.empty
      BY <1>1 DEF ToCheck
    <2>2. Failed(CheckOwnTrustBundle(TheChain, trust)) <=> ~OwnOK(TheChain, trust)
      BY OwnTrustBundleFails
    <2>3. CASE raw.empty
      BY <2>1, <2>3, Zenon DEF OwnPasses, TheChain
    <2>4. CASE ~raw.empty
      <3>1. TheChain = ch
        BY <1>1, <1>4, <2>1, <2>4, Zenon DEF TheChain
      <3> QED
        BY <2>2, <2>4, <3>1, Zenon DEF OwnPasses
    <2> QED
      BY <2>3, <2>4
  <1> QED
    BY <1>1, <1>6, <1>7, <1>8, Zenon

\* The checks pass together exactly when §2 holds of what was filed.
LEMMA PassesAreCompliance ==
  ASSUME IInv, NEW view, Viewed(view)
  PROVE  Compliant(view) <=>
           /\ PresencePasses
           /\ CredentialPasses
           /\ \A i \in DOMAIN trust : BundlePasses(i)
           /\ OwnPasses
  <1>1. PresencePasses <=> cred # None /\ ~cred.problem /\ trust # << >>
    BY PresenceFails, Zenon DEF PresencePasses
  <1>2. Shows(view, trust) /\ (CredentialBundleName \in DOMAIN view <=> cred # None)
        /\ (cred # None => view[CredentialBundleName].problem = cred.problem)
    BY DEF Viewed
  <1>3. /\ trust # << >> <=> DOMAIN view \cap TrustBundleName # {}
        /\ (\A i \in DOMAIN trust : BundlePasses(i))
              <=> \A n \in DOMAIN view \cap TrustBundleName :
                     GoodTrustDomain(TrustDomainOf[n]) /\ GoodTrustBundle(view[n])
    BY <1>2, BundlesViewed
  <1>4. CASE cred # None /\ ~cred.problem
    <2>1. CredentialPasses /\ OwnPasses
           <=> \/ view[CredentialBundleName].raw.empty
               \/ GoodCredential(view[CredentialBundleName].raw, view)
      BY <1>4, CredentialViewed
    <2> QED
      BY <1>1, <1>2, <1>3, <1>4, <2>1, Zenon DEF Compliant
  <1>5. CASE ~(cred # None /\ ~cred.problem)
    BY <1>1, <1>2, <1>5, Zenon DEF Compliant
  <1> QED
    BY <1>4, <1>5

LEMMA ExitIsVerdictOnFiled ==
  ASSUME FInv, pc \in {"emit", "done"}, exit # 2, NEW view, Viewed(view)
  PROVE  ExitOf(report) = VerdictOf(view)
  <1>1. Failed(report) <=>
            \/ ~PresencePasses
            \/ ~CredentialPasses
            \/ \E i \in DOMAIN trust : ~BundlePasses(i)
            \/ ~OwnPasses
    BY DEF FInv, FailuresInv
  <1>2. Failed(report) <=> ~Compliant(view)
    BY <1>1, PassesAreCompliance, Zenon DEF FInv
  <1> QED
    BY <1>2, Zenon DEF ExitOf, VerdictOf

\* A function that finds each filed file as it was filed is such a view.
LEMMA FindingsAreViewed ==
  ASSUME FInv, NEW view, DOMAIN view = Filed, \A c \in Captures : view[c.name] = FindingIn(c)
  PROVE  Viewed(view)
  <1>1. IInv
    BY DEF FInv
  <1>2. \A c \in Captures : view[c.name].problem = c.problem /\ view[c.name].raw = c.raw
    <2>1. \A c : FindingIn(c).problem = c.problem /\ FindingIn(c).raw = c.raw
      BY DEF FindingIn
    <2> QED
      BY <2>1
  <1>3. \A i \in DOMAIN trust : trust[i].name \in TrustBundleName
    BY <1>1, TrustNames
  <1>4. CredentialBundleName \in DOMAIN view <=> cred # None
    <2>1. CredentialBundleName \notin TrustBundleName
      BY FolderAssumption
    <2> QED
      BY <1>1, <1>3, <2>1, FiledAre DEF Filed
  <1>5. cred # None => /\ view[CredentialBundleName].problem = cred.problem
                       /\ view[CredentialBundleName].raw = cred.raw
    BY <1>1, <1>2, FiledAre
  <1>6. Shows(view, trust)
    <2>1. \A tb : tb \in ToSet(trust) <=> \E i \in DOMAIN trust : tb = trust[i]
      BY DEF ToSet
    <2>2. \A tb \in ToSet(trust) : tb \in Captures /\ tb.name \in TrustBundleName
      BY <1>1, <1>3, <2>1, FiledAre
    <2>3. \A n \in DOMAIN view \cap TrustBundleName : \E tb \in ToSet(trust) : n = tb.name
      <3>1. CredentialBundleName \notin TrustBundleName
        BY FolderAssumption
      <3> QED
        BY <1>1, <2>1, <3>1, FiledAre DEF Filed
    <2>4. \A tb \in ToSet(trust) : tb.name \in DOMAIN view
      BY <2>2 DEF Filed
    <2> QED
      BY <1>2, <2>2, <2>3, <2>4 DEF Shows
  <1> QED
    BY <1>4, <1>5, <1>6 DEF Viewed

\* With no update in between, the exit code is the verdict on the folder.
THEOREM ExitOnSnapshot == Spec => []SnapshotVerdict
  <1>1. ASSUME FInv, pc = "done", exit # 2, now = listedAt
        PROVE  exit = VerdictOf(ViewOf(timeline[now]))
    <2> DEFINE view == ViewOf(timeline[now])
    <2>1. IInv /\ Filed = Listed /\ now \in Nat
      <3>1. IInv /\ FiledInv
        BY <1>1 DEF FInv
      <3>2. Filed = Listed
        BY <1>1, <3>1 DEF FiledInv, HasListed
      <3>3. now \in Nat
        BY <3>1 DEF IInv, TypeOK, IsTimeline
      <3> QED
        BY <3>1, <3>2, <3>3
    <2>2. DOMAIN view = Filed
      BY <1>1, <2>1 DEF ViewOf, Listed
    <2>3. ASSUME NEW c \in Captures
          PROVE  view[c.name] = FindingIn(c)
      <3>1. c.at = now /\ FindingIn(c) = Look(timeline[c.at], c.name)
        BY <1>1, <2>1 DEF IInv, CapturesAreVersions
      <3>2. c.name \in DOMAIN view
        BY <2>2 DEF Filed
      <3>3. view[c.name] = Look(timeline[now], c.name)
        BY <3>2 DEF ViewOf
      <3> QED
        BY <3>1, <3>3
    <2>4. Viewed(view)
      BY <1>1, <2>2, <2>3, FindingsAreViewed
    <2>5. exit = ExitOf(report)
      BY <1>1 DEF FInv, FailuresInv
    <2> QED
      BY <1>1, <2>4, <2>5, ExitIsVerdictOnFiled
  <1>2. FInv => SnapshotVerdict
    BY <1>1 DEF SnapshotVerdict
  <1> QED
    BY <1>2, FileInvariance, PTL

---------------------------------------------------------------------------
(* The checker implements FolderAudit, step by step.                       *)

OneEach(C) == \A c, d \in C : c.name = d.name => c = d

SeenOf(C) == [n \in {c.name : c \in C} |-> FindingIn(CHOOSE c \in C : c.name = n)]

LEMMA SeenFinds ==
  ASSUME NEW C, OneEach(C)
  PROVE  /\ DOMAIN SeenOf(C) = {c.name : c \in C}
         /\ \A c \in C : SeenOf(C)[c.name] = FindingIn(c)
  <1>1. ASSUME NEW c \in C
        PROVE  (CHOOSE d \in C : d.name = c.name) = c
    BY DEF OneEach
  <1> QED
    BY <1>1 DEF SeenOf

\* Filing one more file adds its finding, and changes no other.
Grown(C, file) ==
    [n \in DOMAIN SeenOf(C) \cup {file.name} |->
        IF n = file.name THEN FindingIn(file) ELSE SeenOf(C)[n]]

LEMMA SeenGrows ==
  ASSUME NEW C, NEW file, OneEach(C), file.name \notin {c.name : c \in C}
  PROVE  SeenOf(C \cup {file}) = Grown(C, file)
  <1> DEFINE D == C \cup {file}
             f == [n \in DOMAIN SeenOf(C) \cup {file.name} |->
                     IF n = file.name THEN FindingIn(file) ELSE SeenOf(C)[n]]
  <1>1. OneEach(D)
    BY DEF OneEach
  <1>2. DOMAIN SeenOf(D) = DOMAIN f
    <2>1. DOMAIN SeenOf(D) = {d.name : d \in D}
      BY <1>1, SeenFinds, Zenon
    <2>2. DOMAIN SeenOf(C) = {c.name : c \in C}
      BY SeenFinds, Zenon
    <2>3. {d.name : d \in C \cup {file}} = {c.name : c \in C} \cup {file.name}
      OBVIOUS
    <2>4. DOMAIN f = DOMAIN SeenOf(C) \cup {file.name}
      OBVIOUS
    <2> QED
      BY <2>1, <2>2, <2>3, <2>4
  <1>3. ASSUME NEW n \in DOMAIN f
        PROVE  SeenOf(D)[n] = f[n]
    <2>1. PICK c \in D : c.name = n
      <3>1. DOMAIN f = DOMAIN SeenOf(C) \cup {file.name}
        OBVIOUS
      <3>2. n \in {c.name : c \in C} \/ n = file.name
        BY <1>3, <3>1, SeenFinds
      <3> QED
        BY <3>2
    <2>2. SeenOf(D)[n] = FindingIn(c)
      BY <1>1, <2>1, SeenFinds
    <2>3. CASE c = file
      BY <2>1, <2>2, <2>3
    <2>4. CASE c # file
      <3>1. c \in C /\ n # file.name
        BY <2>1, <2>4
      <3>2. SeenOf(C)[n] = FindingIn(c)
        BY <2>1, <3>1, SeenFinds
      <3> QED
        BY <1>3, <2>2, <3>1, <3>2
    <2> QED
      BY <2>3, <2>4
  <1>4. SeenOf(D) = [n \in DOMAIN SeenOf(D) |-> SeenOf(D)[n]]
    BY DEF SeenOf
  <1>5. Grown(C, file) = f
    BY DEF Grown
  <1> QED
    BY <1>2, <1>3, <1>4, <1>5

LEMMA SeenIs == Seen = SeenOf(Captures)
  BY DEF Seen, SeenOf

LEMMA FiledOnce ==
  ASSUME FInv
  PROVE  OneEach(Captures)
  <1>1. /\ IInv /\ \A i, j \in DOMAIN trust : trust[i].name = trust[j].name => i = j
    BY DEF FInv, FiledInv
  <1>2. \A i \in DOMAIN trust : trust[i].name # CredentialBundleName
    BY <1>1, TrustNames, FolderAssumption
  <1> QED
    BY <1>1, <1>2, FiledAre DEF OneEach

LEMMA SeenIsFiled ==
  ASSUME FInv
  PROVE  /\ DOMAIN Seen = Filed
         /\ \A c \in Captures : Seen[c.name] = FindingIn(c)
  BY FiledOnce, SeenIs, SeenFinds DEF Filed

\* The two states of the mapping, apart from a file that is open.
LEMMA AuditUnread ==
  /\ pc # "read" => AbstractView = Seen
  /\ HasListed => AbstractListing = Listed /\ AbstractListing # None
  /\ ~HasListed => AbstractListing = None
  <1>1. Listed \subseteq SpecName
    BY DEF Listed
  <1>2. Listed # None
    BY <1>1, AbsenceAssumption
  <1> QED
    BY <1>2 DEF AbstractView, AbstractListing, HasListed

LEMMA SameSeen ==
  ASSUME cred' = cred, trust' = trust
  PROVE  Seen' = Seen /\ Captures' = Captures
  BY DEF Seen, Captures

\* A step that leaves what was listed and filed alone, with no file open.
LEMMA Unseen ==
  ASSUME UNCHANGED <<timeline, now, listedAt, cred, trust, exit>>,
         pc # "read", pc' # "read", pc # "list", pc' # "list"
  PROVE  UNCHANGED Audit!auditVars
  <1>1. AbstractView' = AbstractView
    BY SameSeen DEF AbstractView
  <1>2. AbstractListing' = AbstractListing
    BY DEF AbstractListing, Listed
  <1> QED
    BY <1>1, <1>2 DEF Audit!auditVars

\* What readSpecFile returns is seen.
LEMMA ReturnSees ==
  ASSUME FInv, pc \in {"scan", "open", "read"}, todo # {}, Visiting \in SpecName,
         NEW problem \in BOOLEAN, NEW raw \in Content, NEW at \in Nat,
         Return(problem, raw, at)
  PROVE  /\ AbstractView' = [n \in DOMAIN Seen \cup {Visiting} |->
                               IF n = Visiting THEN [problem |-> problem, raw |-> raw]
                               ELSE Seen[n]]
         /\ AbstractListing' = AbstractListing
         /\ UNCHANGED <<timeline, now, exit>>
         /\ HasListed
         /\ Visiting \in Listed \ DOMAIN Seen
  <1> DEFINE file == [name |-> Visiting, problem |-> problem, raw |-> raw, at |-> at]
  <1>1. /\ \/ Visiting = CredentialBundleName /\ cred' = file /\ trust' = trust
           \/ Visiting # CredentialBundleName /\ trust' = Append(trust, file) /\ cred' = cred
        /\ todo' = todo \ {Visiting} /\ pc' = "scan"
        /\ UNCHANGED <<timeline, now, listedAt, next, report, exit>>
    BY DEF Return, checkVars
  <1>2. /\ file.name = Visiting
        /\ FindingIn(file) = [problem |-> problem, raw |-> raw]
    BY DEF FindingIn
  <1>3. IInv /\ FiledInv /\ HasListed
    BY DEF FInv, FiledInv, HasListed
  <1>4. Visiting \in todo /\ Visiting \notin Filed /\ Visiting \in Listed
    BY <1>3, VisitingIsLeft DEF FiledInv
  <1>5. Captures' = Captures \cup {file}
    BY <1>1, <1>3, <1>4, NewCapture
  <1> HIDE DEF file
  <1>6. OneEach(Captures) /\ DOMAIN Seen = Filed
    BY FiledOnce, SeenIsFiled
  <1>7. file.name \notin {c.name : c \in Captures}
    BY <1>2, <1>4 DEF Filed
  <1>8. SeenOf(Captures \cup {file}) = Grown(Captures, file)
    BY <1>6, <1>7, SeenGrows, Zenon
  <1>9. Seen' = SeenOf(Captures \cup {file})
    <2>1. Seen' = SeenOf(Captures')
      BY DEF Seen, SeenOf
    <2> QED
      BY <1>5, <2>1
  <1>10. AbstractView' = Seen'
    BY <1>1 DEF AbstractView
  <1>11. AbstractListing' = AbstractListing
    BY <1>1 DEF AbstractListing, Listed, HasListed
  <1> QED
    BY <1>1, <1>2, <1>3, <1>4, <1>6, <1>8, <1>9, <1>10, <1>11, SeenIs DEF Grown

\* With a file open, it is seen already.
LEMMA ReadingSees ==
  ASSUME pc = "read"
  PROVE  AbstractView = [n \in DOMAIN Seen \cup {Visiting} |->
                           IF n = Visiting THEN FindingOf(handle.node) ELSE Seen[n]]
  BY DEF AbstractView

\* FolderAudit reads a folder, and judges a view, as Folders does.
LEMMA AuditWords ==
  /\ Audit!SpecName = SpecName
  /\ \A folder, n : Audit!Look(folder, n) = Look(folder, n)
  /\ \A w : Audit!VerdictOf(w) = VerdictOf(w)
  <1>1. Audit!TrustBundleName = TrustBundleName /\ Audit!SpecName = SpecName
    BY DEF Audit!SpecName, SpecName, Audit!TrustBundleName, TrustBundleName
  <1>2. \A folder, n : Audit!Look(folder, n) = Look(folder, n)
    BY DEF Audit!Look, Look, Audit!FindingOf, FindingOf, Audit!Unreadable, Unreadable,
           Audit!NoContent, NoContent
  <1>3. /\ \A b : Audit!IsCert(b) <=> IsCert(b)
        /\ \A b : Audit!PublicKey(b) = PublicKey(b)
        /\ \A c : Audit!IsSelfSigned(c) <=> IsSelfSigned(c)
        /\ \A c, a : Audit!IssuedBy(c, a) <=> IssuedBy(c, a)
    BY DEF Audit!IsCert, IsCert, Audit!PublicKey, PublicKey, Audit!IsSelfSigned, IsSelfSigned,
           Audit!IssuedBy, IssuedBy, Audit!NoKeyId, NoKeyId
  <1>4. \A contents : Audit!Anchors(contents) = Anchors(contents)
    BY <1>3 DEF Audit!Anchors, Anchors, Audit!ToSet, ToSet
  <1>5. \A leaf : Audit!IdentifiesBundle(leaf) <=> IdentifiesBundle(leaf)
    BY DEF Audit!IdentifiesBundle, IdentifiesBundle, Audit!OwnTrustDomainUsable,
           OwnTrustDomainUsable
  <1>6. \A leaf, w : Audit!ChainAnchors(leaf, w) = ChainAnchors(leaf, w)
    BY <1>1, <1>4, <1>5 DEF Audit!ChainAnchors, ChainAnchors
  <1>7. \A raw, w : Audit!GoodCredential(raw, w) <=> GoodCredential(raw, w)
    <2> SUFFICES ASSUME NEW raw, NEW w
                 PROVE  Audit!GoodCredential(raw, w) <=> GoodCredential(raw, w)
      OBVIOUS
    <2>1. {w[n].raw : n \in DOMAIN w \cap Audit!TrustBundleName}
             = {w[n].raw : n \in DOMAIN w \cap TrustBundleName}
      BY <1>1
    <2>2. PICK anchors :
            /\ anchors = Anchors({w[n].raw : n \in DOMAIN w \cap TrustBundleName})
            /\ anchors = Audit!Anchors({w[n].raw : n \in DOMAIN w \cap Audit!TrustBundleName})
      BY <1>4, <2>1
    <2> QED
      BY <1>1, <1>3, <1>5, <1>6, <2>2, Zenon DEF Audit!GoodCredential, GoodCredential
  <1>8. \A f : Audit!GoodTrustBundle(f) <=> GoodTrustBundle(f)
    BY <1>3 DEF Audit!GoodTrustBundle, GoodTrustBundle
  <1>9. \A td : Audit!GoodTrustDomain(td) <=> GoodTrustDomain(td)
    BY DEF Audit!GoodTrustDomain, GoodTrustDomain
  <1>10. \A w : Audit!Compliant(w) <=> Compliant(w)
    BY <1>1, <1>7, <1>8, <1>9 DEF Audit!Compliant, Compliant
  <1>11. \A w : Audit!VerdictOf(w) = VerdictOf(w)
    BY <1>10 DEF Audit!VerdictOf, VerdictOf
  <1> QED
    BY <1>1, <1>2, <1>11

LEMMA LooksNow ==
  ASSUME FInv, pc \in {"scan", "open"}, todo # {}, Visiting \in SpecName,
         Return(TRUE, NoContent, now),
         Visiting \in DOMAIN Here.node => Here.node[Visiting].kind # "file"
  PROVE  Audit!LookAt(Visiting)
  <1>1. now \in Nat /\ NoContent \in Content
    BY DEF FInv, IInv, TypeOK, IsTimeline, NoContent, Content
  <1>2. /\ AbstractView' = [n \in DOMAIN Seen \cup {Visiting} |->
                              IF n = Visiting THEN [problem |-> TRUE, raw |-> NoContent]
                              ELSE Seen[n]]
        /\ AbstractListing' = AbstractListing
        /\ UNCHANGED <<timeline, now, exit>>
        /\ HasListed /\ Visiting \in Listed \ DOMAIN Seen
    BY <1>1, ReturnSees
  <1>3. AbstractView = Seen /\ AbstractListing = Listed /\ AbstractListing # None
    BY <1>2, AuditUnread
  <1>4. Look(timeline[now], Visiting) = [problem |-> TRUE, raw |-> NoContent]
    BY DEF Look, FindingOf, Unreadable, Here
  <1> QED
    BY <1>2, <1>3, <1>4, AuditWords DEF Audit!LookAt

LEMMA InitAudit == Init => Audit!AuditInit
  <1> SUFFICES ASSUME Init PROVE Audit!AuditInit
    OBVIOUS
  <1>1. Captures = {}
    BY DEF Init, Captures, ToSet
  <1>2. AbstractView = << >>
    <2>1. SeenOf({}) = << >>
      BY DEF SeenOf
    <2> QED
      BY <1>1, <2>1, SeenIs, AuditUnread DEF Init
  <1>3. AbstractListing = None
    BY DEF Init, AbstractListing
  <1> QED
    BY <1>2, <1>3 DEF Init, Audit!AuditInit

LEMMA ScanAudits == FInv /\ Scan => [Audit!AuditNext]_(Audit!auditVars)
  <1> SUFFICES ASSUME FInv, Scan PROVE Audit!AuditNext \/ UNCHANGED Audit!auditVars
    OBVIOUS
  <1>1. IInv /\ FiledInv
    BY DEF FInv
  <1>2. CASE ListFolder
    <2>1. /\ pc = "list" /\ pc' = "scan" /\ Here.listable /\ listedAt' = now
          /\ exit = -1 /\ UNCHANGED <<timeline, now, cred, trust, exit>>
      BY <1>1, <1>2 DEF ListFolder, checkVars, FiledInv
    <2>2. AbstractView' = AbstractView
      BY <2>1, SameSeen DEF AbstractView
    <2>3. /\ AbstractListing = None
          /\ AbstractListing' = DOMAIN timeline[now].node \cap SpecName
      BY <2>1 DEF AbstractListing, Listed
    <2>4. Audit!List
      BY <2>1, <2>2, <2>3, AuditWords DEF Audit!List, Here
    <2> QED
      BY <2>4 DEF Audit!AuditNext
  <1>3. CASE ListFails
    <2>1. /\ pc = "list" /\ pc' = "done" /\ ~Here.listable /\ exit' = 2
          /\ exit = -1 /\ UNCHANGED <<timeline, now, cred, trust>>
      BY <1>1, <1>3 DEF ListFails, scanVars, FiledInv
    <2>2. AbstractView' = AbstractView
      BY <2>1, SameSeen DEF AbstractView
    <2>3. AbstractListing = None /\ AbstractListing' = None
      BY <2>1 DEF AbstractListing
    <2>4. Audit!CannotList
      BY <2>1, <2>2, <2>3 DEF Audit!CannotList, Here
    <2> QED
      BY <2>4 DEF Audit!AuditNext
  <1>4. CASE SkipOther
    BY <1>4, Unseen DEF SkipOther, checkVars
  <1>5. CASE StatRegular
    BY <1>5, Unseen DEF StatRegular, scanVars, checkVars
  <1>6. CASE StatRejects
    <2>1. Visiting \in DOMAIN Here.node => Here.node[Visiting].kind # "file"
      BY <1>6 DEF StatRejects, Found, IsRegular
    <2>2. Audit!LookAt(Visiting) /\ Visiting \in SpecName
      BY <1>6, <2>1, LooksNow DEF StatRejects
    <2> QED
      BY <2>2, AuditWords DEF Audit!AuditNext
  <1>7. CASE Open
    <2>1. /\ pc = "open" /\ pc' = "read" /\ Found
          /\ handle' = [node |-> Here.node[Visiting], at |-> now]
          /\ UNCHANGED <<timeline, now, listedAt, todo, cred, trust, exit>>
      BY <1>7 DEF Open, checkVars
    <2>2. Visiting \in SpecName /\ Visiting \in todo /\ HasListed
      <3>1. todo # {}
        BY <1>1, <2>1 DEF FiledInv
      <3> QED
        BY <1>1, <2>1, <3>1, VisitingIsLeft DEF IInv, VisitInv, FiledInv, HasListed
    <2>3. Visiting \in Listed \ DOMAIN Seen
      BY <1>1, <2>2, SeenIsFiled DEF FiledInv
    <2>4. AbstractView = Seen /\ AbstractListing = Listed /\ AbstractListing # None
      BY <2>1, <2>2, AuditUnread
    <2>5. handle'.node = Here.node[Visiting] /\ Visiting' = Visiting
      BY <2>1 DEF Visiting
    <2>6. Look(timeline[now], Visiting) = FindingOf(handle'.node)
      BY <2>1, <2>5 DEF Look, Here, Found
    <2>7. AbstractView' = [n \in DOMAIN Seen \cup {Visiting} |->
                             IF n = Visiting THEN Look(timeline[now], Visiting) ELSE Seen[n]]
      BY <2>1, <2>5, <2>6, SameSeen DEF AbstractView
    <2>8. AbstractListing' = AbstractListing
      BY <2>1 DEF AbstractListing, Listed
    <2>9. Audit!LookAt(Visiting)
      BY <2>1, <2>3, <2>4, <2>7, <2>8, AuditWords DEF Audit!LookAt
    <2> QED
      BY <2>2, <2>9, AuditWords DEF Audit!AuditNext
  <1>8. CASE OpenFails
    <2>1. pc = "open" /\ Visiting \in SpecName /\ todo # {}
      BY <1>1, <1>8 DEF OpenFails, IInv, VisitInv, FiledInv
    <2>2. Visiting \in DOMAIN Here.node => Here.node[Visiting].kind # "file"
      BY <1>8 DEF OpenFails, Found
    <2>3. Audit!LookAt(Visiting)
      BY <1>8, <2>1, <2>2, LooksNow DEF OpenFails
    <2> QED
      BY <2>1, <2>3, AuditWords DEF Audit!AuditNext
  <1>9. CASE OpenHangs
    BY <1>9, Unseen DEF OpenHangs, scanVars, checkVars
  <1>10. ASSUME pc = "read"
         PROVE  /\ Visiting \in SpecName /\ todo # {}
                /\ handle.at \in Nat /\ handle.node.content \in Content
    BY <1>1, <1>10 DEF IInv, VisitInv, FiledInv, OpenFile, Node
  <1>11. ASSUME pc = "read", NEW problem \in BOOLEAN, NEW raw \in Content,
                Return(problem, raw, handle.at),
                FindingOf(handle.node) = [problem |-> problem, raw |-> raw]
         PROVE  UNCHANGED Audit!auditVars
    <2>1. /\ AbstractView' = [n \in DOMAIN Seen \cup {Visiting} |->
                                IF n = Visiting THEN [problem |-> problem, raw |-> raw]
                                ELSE Seen[n]]
          /\ AbstractListing' = AbstractListing
          /\ UNCHANGED <<timeline, now, exit>>
      BY <1>10, <1>11, ReturnSees
    <2>2. AbstractView' = AbstractView
      BY <1>11, <2>1, ReadingSees
    <2> QED
      BY <2>1, <2>2 DEF Audit!auditVars
  <1>12. CASE Read
    <2>1. FindingOf(handle.node) = [problem |-> FALSE, raw |-> handle.node.content]
      BY <1>12 DEF Read, FindingOf
    <2> QED
      BY <1>10, <1>11, <1>12, <2>1 DEF Read
  <1>13. CASE ReadFails
    <2>1. FindingOf(handle.node) = [problem |-> TRUE, raw |-> NoContent]
      BY <1>13 DEF ReadFails, FindingOf, Unreadable
    <2>2. NoContent \in Content
      BY DEF NoContent, Content
    <2> QED
      BY <1>11, <1>13, <2>1, <2>2 DEF ReadFails
  <1> QED
    BY <1>2, <1>3, <1>4, <1>5, <1>6, <1>7, <1>8, <1>9, <1>12, <1>13 DEF Scan

LEMMA EmitConcludes == FInv /\ Emit => Audit!Conclude
  <1> SUFFICES ASSUME FInv, Emit PROVE Audit!Conclude
    OBVIOUS
  <1>1. /\ pc = "emit" /\ pc' = "done" /\ exit' = ExitOf(report)
        /\ UNCHANGED <<timeline, now, listedAt, cred, trust>>
    BY DEF Emit, scanVars
  <1>2. /\ exit = -1 /\ HasListed /\ Filed = Listed
    BY <1>1 DEF FInv, FiledInv, HasListed
  <1>3. AbstractView = Seen /\ AbstractListing = Listed /\ AbstractListing # None
    BY <1>1, <1>2, AuditUnread
  <1>4. DOMAIN Seen = Filed /\ \A c \in Captures : Seen[c.name] = FindingIn(c)
    BY SeenIsFiled
  <1>5. exit' = VerdictOf(Seen)
    <2>1. Viewed(Seen)
      BY <1>4, FindingsAreViewed
    <2> QED
      BY <1>1, <1>2, <2>1, ExitIsVerdictOnFiled
  <1>6. AbstractView' = AbstractView
    BY <1>1, SameSeen DEF AbstractView
  <1>7. AbstractListing' = AbstractListing
    <2>1. exit' # 2
      BY <1>1 DEF ExitOf
    <2> QED
      BY <1>1, <1>2, <2>1 DEF AbstractListing, Listed
  <1> QED
    BY <1>1, <1>2, <1>3, <1>4, <1>5, <1>6, <1>7, AuditWords DEF Audit!Conclude

LEMMA StepAudits == FInv /\ [Next]_vars => [Audit!AuditNext]_(Audit!auditVars)
  <1> SUFFICES ASSUME FInv, [Next]_vars
               PROVE  Audit!AuditNext \/ UNCHANGED Audit!auditVars
    OBVIOUS
  <1>1. CASE Publish
    <2>1. /\ now < Len(timeline) /\ now' = now + 1
          /\ UNCHANGED <<timeline, listedAt, todo, handle, cred, trust, exit, pc>>
      BY <1>1 DEF Publish, scanVars, checkVars
    <2>2. AbstractView' = AbstractView
      <3>1. Visiting' = Visiting
        BY <2>1 DEF Visiting
      <3> QED
        BY <2>1, <3>1, SameSeen DEF AbstractView
    <2>3. AbstractListing' = AbstractListing
      BY <2>1 DEF AbstractListing, Listed
    <2>4. Audit!Provision
      BY <2>1, <2>2, <2>3 DEF Audit!Provision
    <2> QED
      BY <2>4 DEF Audit!AuditNext
  <1>2. CASE Scan
    BY <1>2, ScanAudits
  <1>3. CASE Emit
    BY <1>3, EmitConcludes DEF Audit!AuditNext
  <1>4. CASE Presence \/ CredentialBundle \/ NoCredentialBundle \/ TrustBundle \/ OwnTrustBundle
    <2>1. /\ UNCHANGED <<timeline, now, listedAt, cred, trust, exit>>
          /\ pc # "read" /\ pc' # "read" /\ pc # "list" /\ pc' # "list"
      BY <1>4 DEF Presence, CredentialBundle, NoCredentialBundle, TrustBundle, OwnTrustBundle,
                  scanVars, checkVars
    <2> QED
      BY <2>1, Unseen
  <1>5. CASE UNCHANGED vars
    <2>1. UNCHANGED <<timeline, now, listedAt, todo, handle, cred, trust, exit, pc>>
      BY <1>5 DEF vars, scanVars, checkVars
    <2>2. AbstractView' = AbstractView
      <3>1. Visiting' = Visiting
        BY <2>1 DEF Visiting
      <3> QED
        BY <2>1, <3>1, SameSeen DEF AbstractView
    <2>3. AbstractListing' = AbstractListing
      BY <2>1 DEF AbstractListing, Listed
    <2> QED
      BY <2>1, <2>2, <2>3 DEF Audit!auditVars
  <1> QED
    BY <1>1, <1>2, <1>3, <1>4, <1>5 DEF Next, Judging, Stopped

\* Check lists the folder once, looks at each listed file once and at one moment,
\* and exits with the verdict on exactly what it saw: it implements FolderAudit,
\* whatever the folders hold and whenever the provisioner publishes.
THEOREM Refinement == Spec => Implements
  BY InitAudit, StepAudits, FileInvariance, PTL DEF Spec, Implements, Audit!AuditSpec
=============================================================================
