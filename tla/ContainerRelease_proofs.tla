----------------------- MODULE ContainerRelease_proofs -----------------------
(***************************************************************************)
(* Proofs about ContainerRelease, for any number of builds, faults, jobs   *)
(* that are started again, polls and changes by other people.              *)
(***************************************************************************)
EXTENDS ContainerRelease, SequenceTheorems, TLAPS

USE EvidenceAssumption, ReleaseAssumption

-----------------------------------------------------------------------------
(* The names and the outputs. *)

OutputSet == {"evidence", "markdown", "container"}

LEMMA OutputsFacts ==
    /\ Len(Outputs) = 3 /\ DOMAIN Outputs = 1 .. 3
    /\ \A i \in 1 .. 3 : Outputs[i] \in OutputSet
    /\ \A i, j \in 1 .. 3 : Outputs[i] = Outputs[j] => i = j
    /\ \A f \in OutputSet : \E i \in 1 .. 3 : f = Outputs[i]
    /\ OutputSet \subseteq Files
BY DEF Outputs, OutputSet, Files, Base

LEMMA NamesFacts ==
    ASSUME security \in BOOLEAN
    PROVE  /\ Len(Names) \in Nat /\ Len(Names) >= 3
           /\ DOMAIN Names = 1 .. Len(Names)
           /\ \A i \in 1 .. Len(Names) : Names[i] \in Expected
           /\ \A n \in Expected : \E i \in 1 .. Len(Names) : n = Names[i]
           /\ Expected \subseteq AllNames
<1>1. CASE security
  <2>1. /\ Len(Names) = 10 /\ DOMAIN Names = 1 .. 10
        /\ \A i \in 1 .. 10 : Names[i] \in AllNames
    BY <1>1 DEF Names, AllNames, Files, Base
  <2>. QED  BY <2>1 DEF Expected
<1>2. CASE ~security
  <2>1. /\ Len(Names) = 8 /\ DOMAIN Names = 1 .. 8
        /\ \A i \in 1 .. 8 : Names[i] \in AllNames
    BY <1>2 DEF Names, AllNames, Files, Base
  <2>. QED  BY <2>1 DEF Expected
<1>. QED  BY <1>1, <1>2

LEMMA NamesDiffer ==
    ASSUME security \in BOOLEAN, NEW i \in 1 .. Len(Names), NEW j \in 1 .. Len(Names),
           Names[i] = Names[j]
    PROVE  i = j
<1>1. CASE security
  <2>1. Len(Names) = 10  BY <1>1 DEF Names
  <2>2. i \in 1 .. 10 /\ j \in 1 .. 10  BY <2>1
  <2>. QED  BY <1>1, <2>2 DEF Names
<1>2. CASE ~security
  <2>1. Len(Names) = 8  BY <1>2 DEF Names
  <2>2. i \in 1 .. 8 /\ j \in 1 .. 8  BY <2>1
  <2>. QED  BY <1>2, <2>2 DEF Names
<1>. QED  BY <1>1, <1>2

\* What is expected in a release, as a set.
LEMMA ExpectedIs ==
    ASSUME security \in BOOLEAN
    PROVE  Expected = {"SHA256SUMS", "SHA256SUMS.sigstore", "assurance", "evidence", "images",
                       "installed", "markdown", "provenance"}
                      \cup IF security THEN {"container", "container.sigstore"} ELSE {}
<1>1. CASE security
  <2>1. Names = <<"SHA256SUMS", "SHA256SUMS.sigstore", "assurance", "container",
                  "container.sigstore", "evidence", "images", "installed", "markdown",
                  "provenance">>  BY <1>1 DEF Names
  <2>2. DOMAIN Names = 1 .. 10  BY <2>1
  <2>3. Expected = {Names[i] : i \in 1 .. 10}  BY <2>2 DEF Expected
  <2>4. ASSUME NEW n PROVE n \in Expected <=>
          n \in {"SHA256SUMS", "SHA256SUMS.sigstore", "assurance", "evidence", "images",
                 "installed", "markdown", "provenance"} \cup {"container", "container.sigstore"}
    BY <2>1, <2>3
  <2>. QED  BY <1>1, <2>4
<1>2. CASE ~security
  <2>1. Names = <<"SHA256SUMS", "SHA256SUMS.sigstore", "assurance", "evidence", "images",
                  "installed", "markdown", "provenance">>  BY <1>2 DEF Names
  <2>2. DOMAIN Names = 1 .. 8  BY <2>1
  <2>3. Expected = {Names[i] : i \in 1 .. 8}  BY <2>2 DEF Expected
  <2>4. ASSUME NEW n PROVE n \in Expected <=>
          n \in {"SHA256SUMS", "SHA256SUMS.sigstore", "assurance", "evidence", "images",
                 "installed", "markdown", "provenance"}
    BY <2>1, <2>3
  <2>. QED  BY <1>2, <2>4
<1>. QED  BY <1>1, <1>2

LEMMA Content ==
    ASSUME NEW b \in 0 .. MaxBuilds, NEW k \in Nat
    PROVE  /\ [build |-> b, mark |-> k] \in Contents
           /\ [build |-> b, mark |-> k].build = b /\ [build |-> b, mark |-> k].mark = k
           /\ [build |-> b, mark |-> k] \notin {Missing, Starter, Foreign}
BY DEF Contents

LEMMA Generates ==
    ASSUME NEW b \in Builds
    PROVE  /\ Generated(b) \in [Files -> File]
           /\ \A f \in Files \ {"container", "installed"} :
                Generated(b)[f] = [build |-> b, mark |-> 0]
           /\ Generated(b)["installed"] = [build |-> 0, mark |-> 0]
           /\ Generated(b)["container"] = Missing
<1>1. b \in 0 .. MaxBuilds /\ 0 \in 0 .. MaxBuilds  BY DEF Builds
<1>2. ASSUME NEW f \in Files
      PROVE  (IF f = "container" THEN Missing
              ELSE [build |-> IF f = "installed" THEN 0 ELSE b, mark |-> 0]) \in File
  BY <1>1, Content DEF File
<1>3. Generated(b) \in [Files -> File]  BY <1>2 DEF Generated
<1>4. {"container", "installed"} \subseteq Files  BY DEF Files, Base
<1>. QED  BY <1>3, <1>4 DEF Generated

-----------------------------------------------------------------------------
(* The evidence and its transaction. *)

EvidenceType ==
    /\ security \in BOOLEAN /\ pc \in {"idle", "sign"} \cup Enriching \cup Attaching
    /\ build \in 0 .. MaxBuilds
    /\ dist \in [Files -> File] /\ original \in [Files -> File]
    /\ before \in [Files -> File] /\ signed \in [Builds -> [Files -> File]]
    /\ staged \subseteq Files /\ committed \in Seq(Files)
    /\ cursor \in 1 .. Len(Names) /\ broken \in BOOLEAN /\ result \in Results
    /\ faults \in 0 .. MaxFaults

Making == Enriching \cup {"sign"}

\* The working files are those of the build, the outputs perhaps enriched.
Produced(d) ==
    \A f \in Files :
        \/ d[f] = Generated(build)[f]
        \/ security /\ f \in OutputSet /\ d[f] = [build |-> build, mark |-> 1]

New(d) == \A i \in 1 .. 3 : d[Outputs[i]] = [build |-> build, mark |-> 1]
Old(d) == \A i \in 1 .. 3 : d[Outputs[i]] = before[Outputs[i]]

FilesInv ==
    /\ build = 0 => pc \notin Making /\ result = "none"
    /\ build # 0 => Produced(dist)
    /\ pc \in Enriching => cursor \in 1 .. 3
    /\ pc \in Enriching \ {"stage", "replace"} => cursor = 1

Begun == {"stage", "replace", "sync", "rollback", "cleanup"}

TransactionInv ==
    /\ pc \in Begun \cup {"originals"} => security
    /\ pc = "originals" => dist = before
    /\ pc \in Begun => original = before /\ Produced(original)
    /\ pc = "stage" => dist = original /\ committed = <<>> /\ ~broken
    /\ pc = "replace" => Len(committed) = cursor - 1
    /\ pc = "sync" => Len(committed) = 3
    /\ pc \in {"replace", "sync", "rollback"} =>
         /\ Len(committed) <= 3
         /\ \A i \in 1 .. Len(committed) : committed[i] = Outputs[i]
    /\ pc \in {"replace", "sync"} =>
         /\ ~broken
         /\ \A i \in 1 .. 3 :
              dist[Outputs[i]] = IF i <= Len(committed) THEN [build |-> build, mark |-> 1]
                                 ELSE original[Outputs[i]]
    /\ pc = "rollback" /\ ~broken =>
         \A i \in 1 .. 3 : i > Len(committed) => dist[Outputs[i]] = original[Outputs[i]]
    /\ pc = "cleanup" =>
         /\ result \in {"enriched", "restored", "incomplete"}
         /\ result = "enriched" => New(dist)
         /\ result = "restored" => Old(dist)
         /\ result = "incomplete" => broken

\* The states in which a run is past the enrichment.
ResultInv ==
    pc \notin Enriching =>
        /\ result = "enriched" => New(dist) /\ staged = {}
        /\ result = "restored" => Old(dist) /\ staged = {}
        /\ result = "error" => New(dist) \/ Old(dist) \/ broken
        /\ pc = "sign" => /\ result \in {"unchanged", "enriched"}
                          /\ result = "enriched" <=> security

EvidenceInv == EvidenceType /\ FilesInv /\ TransactionInv /\ ResultInv

LEMMA ResultTells ==
    ASSUME ResultInv
    PROVE  AllOrNothing
BY OutputsFacts DEF ResultInv, AllOrNothing, New, Old

\* Making a record of an output.
LEMMA EnrichedIs ==
    ASSUME build \in Builds, security, NEW i \in 1 .. 3, NEW d, Produced(d)
    PROVE  Enriched(Outputs[i], d[Outputs[i]]) = [build |-> build, mark |-> 1]
<1>1. Outputs[i] \in OutputSet /\ Outputs[i] \in Files  BY OutputsFacts
<1>2. CASE Outputs[i] = "container"  BY <1>2 DEF Enriched
<1>3. CASE Outputs[i] # "container"
  <2>1. Outputs[i] \in Files \ {"container", "installed"}  BY <1>1, <1>3 DEF OutputSet
  <2>2. Generated(build)[Outputs[i]] = [build |-> build, mark |-> 0]  BY <2>1, Generates
  <2>3. d[Outputs[i]] \in {[build |-> build, mark |-> 0], [build |-> build, mark |-> 1]}
    BY <1>1, <2>2 DEF Produced
  <2>4. d[Outputs[i]].build = build  BY <2>3
  <2>. QED  BY <1>3, <2>4 DEF Enriched
<1>. QED  BY <1>2, <1>3

LEMMA PutIn ==
    ASSUME NEW S, NEW T, NEW f \in [S -> T], NEW x, NEW y \in T
    PROVE  [f EXCEPT ![x] = y] \in [S -> T]
OBVIOUS

LEMMA InstallCursor ==
    ASSUME EvidenceType, NEW k \in 1 .. 3
    PROVE  k \in 1 .. Len(Names)
BY NamesFacts DEF EvidenceType

LEMMA ReadKeeps ==
    ASSUME EvidenceInv, EnrichRead
    PROVE  EvidenceInv'
<1>. USE DEF EvidenceInv
<1>0. /\ UNCHANGED <<security, build, dist, original, staged, committed, broken, signed, faults>>
      /\ pc = "read" /\ before' = dist
  BY DEF EnrichRead
<1>a. \/ /\ security /\ pc' = "originals" /\ result' = "running" /\ cursor' = cursor
      \/ /\ security /\ pc' = "idle" /\ result' = "error" /\ cursor' = 1
      \/ /\ ~security /\ pc' = "sign" /\ result' = "unchanged" /\ cursor' = 1
  BY DEF EnrichRead, Exit, EvidenceInv, EvidenceType
<1>1. EvidenceType'
  <2>1. Names' = Names  BY <1>0 DEF Names
  <2>2. cursor' \in 1 .. Len(Names)  BY <1>a, InstallCursor DEF EvidenceType
  <2>. QED  BY <1>0, <1>a, <2>1, <2>2 DEF EvidenceType, Enriching, Results
<1>2. FilesInv'
  BY <1>0, <1>a DEF FilesInv, Making, Enriching, Produced, Generated
<1>3. TransactionInv'
  BY <1>0, <1>a DEF TransactionInv, Begun
<1>4. ResultInv'
  BY <1>0, <1>a DEF ResultInv, Enriching, Old, New
<1>. QED  BY <1>1, <1>2, <1>3, <1>4

LEMMA OriginalsKeeps ==
    ASSUME EvidenceInv, Originals
    PROVE  EvidenceInv'
<1>. USE DEF EvidenceInv
<1>1. EvidenceType'
  <2>1. Names' = Names  BY DEF Names, Originals
  <2>2. committed' \in Seq(Files)  BY DEF Originals
  <2>. QED  BY <2>1, <2>2 DEF EvidenceType, Originals, Enriching
<1>2. FilesInv'
  BY DEF FilesInv, Originals, Making, Enriching, Produced, Generated
<1>3. TransactionInv'
  <2>1. original' = before' /\ dist' = original' /\ committed' = <<>> /\ ~broken'
    BY DEF TransactionInv, Originals
  <2>. QED  BY <2>1, <1>2 DEF TransactionInv, FilesInv, Originals, Begun, Enriching, Making
<1>4. ResultInv'
  BY DEF ResultInv, Originals, Enriching
<1>. QED  BY <1>1, <1>2, <1>3, <1>4

LEMMA StageKeeps ==
    ASSUME EvidenceInv, Stage
    PROVE  EvidenceInv'
<1>. USE DEF EvidenceInv
<1>0. /\ UNCHANGED <<security, build, dist, original, committed, broken, result, signed,
                     before, faults>>
      /\ pc = "stage" /\ staged' = staged \cup {Outputs[cursor]}
  BY DEF Stage, Output
<1>a. cursor \in 1 .. 3  BY <1>0 DEF FilesInv, Enriching
<1>b. \/ cursor \in 1 .. 2 /\ cursor' = cursor + 1 /\ pc' = "stage"
      \/ cursor' = 1 /\ pc' = "replace"
  BY <1>a, OutputsFacts DEF Stage, NextOutput
<1>1. EvidenceType'
  <2>1. Names' = Names  BY <1>0 DEF Names
  <2>2. cursor' \in 1 .. 3  BY <1>b
  <2>3. staged' \subseteq Files  BY <1>0, <1>a, OutputsFacts DEF EvidenceType
  <2>. QED  BY <1>0, <1>b, <2>1, <2>2, <2>3, InstallCursor DEF EvidenceType, Enriching
<1>2. FilesInv'
  BY <1>0, <1>b DEF FilesInv, Making, Enriching, Produced, Generated
<1>3. TransactionInv'
  <2>1. dist = original /\ committed = <<>> /\ security /\ original = before
        /\ Produced(original) /\ ~broken
    BY <1>0 DEF TransactionInv, Begun
  <2>2. Produced(original)'  BY <2>1, <1>0 DEF Produced, Generated
  <2>3. Len(committed') = 0  BY <2>1, <1>0
  <2>. QED  BY <1>0, <1>b, <2>1, <2>2, <2>3 DEF TransactionInv, Begun
<1>4. ResultInv'
  BY <1>0, <1>b DEF ResultInv, Enriching
<1>. QED  BY <1>1, <1>2, <1>3, <1>4

LEMMA ReplaceKeeps ==
    ASSUME EvidenceInv, Replace
    PROVE  EvidenceInv'
<1>. USE DEF EvidenceInv
<1>0. /\ UNCHANGED <<security, build, original, broken, result, signed, before, faults>>
      /\ pc = "replace" /\ staged' = staged \ {Outputs[cursor]}
      /\ committed' = Append(committed, Outputs[cursor])
  BY DEF Replace, Output
<1>a. cursor \in 1 .. 3  BY <1>0 DEF FilesInv, Enriching
<1>b. \/ cursor \in 1 .. 2 /\ cursor' = cursor + 1 /\ pc' = "replace"
      \/ cursor = 3 /\ cursor' = 1 /\ pc' = "sync"
  BY <1>a, OutputsFacts DEF Replace, NextOutput
<1>c. build \in Builds  BY <1>0 DEF FilesInv, Making, Enriching, EvidenceType, Builds
<1>d. /\ security /\ original = before /\ Produced(original) /\ ~broken
      /\ Len(committed) = cursor - 1
      /\ \A i \in 1 .. Len(committed) : committed[i] = Outputs[i]
      /\ \A i \in 1 .. 3 :
           dist[Outputs[i]] = IF i <= Len(committed) THEN [build |-> build, mark |-> 1]
                              ELSE original[Outputs[i]]
  BY <1>0 DEF TransactionInv, Begun
<1>e. Produced(dist)  BY <1>c DEF FilesInv, Builds
<1>f. dist' = [dist EXCEPT ![Outputs[cursor]] = [build |-> build, mark |-> 1]]
  BY <1>a, <1>c, <1>d, <1>e, EnrichedIs DEF Replace, Output
<1>g. Outputs[cursor] \in OutputSet /\ Outputs[cursor] \in Files  BY <1>a, OutputsFacts
<1>h. committed' \in Seq(Files) /\ Len(committed') = cursor
      /\ \A i \in 1 .. cursor : committed'[i] = Outputs[i]
  BY <1>0, <1>a, <1>d, <1>g DEF EvidenceType
<1>1. EvidenceType'
  <2>1. Names' = Names  BY <1>0 DEF Names
  <2>2. cursor' \in 1 .. 3  BY <1>b
  <2>3. [build |-> build, mark |-> 1] \in File  BY Content DEF EvidenceType, File
  <2>4. dist' \in [Files -> File]  BY <1>f, <2>3, PutIn DEF EvidenceType
  <2>. QED  BY <1>0, <1>b, <1>h, <2>1, <2>2, <2>4, InstallCursor DEF EvidenceType, Enriching
<1>2. FilesInv'
  <2>1. Produced(dist)'
    BY <1>0, <1>d, <1>e, <1>f, <1>g DEF Produced, Generated, EvidenceType
  <2>. QED  BY <1>0, <1>b, <2>1 DEF FilesInv, Making, Enriching
<1>3. TransactionInv'
  <2>1. Produced(original)'  BY <1>d, <1>0 DEF Produced, Generated
  <2>2. ASSUME NEW i \in 1 .. 3
        PROVE  dist'[Outputs[i]] = IF i <= cursor THEN [build |-> build, mark |-> 1]
                                   ELSE original[Outputs[i]]
    <3>1. Outputs[i] \in Files /\ (Outputs[i] = Outputs[cursor] <=> i = cursor)
      BY <1>a, OutputsFacts
    <3>2. CASE i = cursor  BY <1>f, <1>g, <3>2 DEF EvidenceType
    <3>3. CASE i # cursor
      <4>1. dist'[Outputs[i]] = dist[Outputs[i]]  BY <1>f, <3>1, <3>3 DEF EvidenceType
      <4>2. i <= cursor <=> i <= Len(committed)  BY <1>a, <1>d, <3>3
      <4>. QED  BY <4>1, <4>2, <1>d
    <3>. QED  BY <3>2, <3>3
  <2>. QED  BY <1>0, <1>a, <1>b, <1>d, <1>h, <2>1, <2>2 DEF TransactionInv, Begun
<1>4. ResultInv'
  BY <1>0, <1>b DEF ResultInv, Enriching
<1>. QED  BY <1>1, <1>2, <1>3, <1>4

LEMMA SyncKeeps ==
    ASSUME EvidenceInv, Sync
    PROVE  EvidenceInv'
<1>. USE DEF EvidenceInv
<1>0. /\ UNCHANGED <<security, build, dist, original, staged, committed, cursor, broken,
                     signed, before, faults>>
      /\ pc = "sync" /\ pc' = "cleanup" /\ result' = "enriched"
  BY DEF Sync
<1>1. EvidenceType'
  <2>1. Names' = Names  BY <1>0 DEF Names
  <2>. QED  BY <1>0, <2>1 DEF EvidenceType, Enriching, Results
<1>2. FilesInv'
  BY <1>0 DEF FilesInv, Making, Enriching, Produced, Generated
<1>3. TransactionInv'
  <2>1. security /\ original = before /\ Produced(original) /\ Len(committed) = 3
        /\ \A i \in 1 .. 3 :
             dist[Outputs[i]] = IF i <= Len(committed) THEN [build |-> build, mark |-> 1]
                                ELSE original[Outputs[i]]
    BY <1>0 DEF TransactionInv, Begun
  <2>2. Produced(original)'  BY <2>1, <1>0 DEF Produced, Generated
  <2>3. New(dist)'  BY <2>1, <1>0 DEF New
  <2>. QED  BY <1>0, <2>1, <2>2, <2>3 DEF TransactionInv, Begun
<1>4. ResultInv'
  BY <1>0 DEF ResultInv, Enriching
<1>. QED  BY <1>1, <1>2, <1>3, <1>4

LEMMA Shorter ==
    ASSUME NEW S, NEW s \in Seq(S), s # <<>>
    PROVE  /\ Len(s) \in Nat \ {0} /\ SubSeq(s, 1, Len(s) - 1) \in Seq(S)
           /\ Len(SubSeq(s, 1, Len(s) - 1)) = Len(s) - 1
           /\ \A i \in 1 .. Len(s) - 1 : SubSeq(s, 1, Len(s) - 1)[i] = s[i]
<1>1. Len(s) \in Nat \ {0}  BY EmptySeq
<1>2. PICK k \in Int : k = Len(s) - 1  BY <1>1
<1>3. k >= 0 /\ \A i \in 1 .. k : i \in 1 .. Len(s)  BY <1>1, <1>2
<1>4. \A i \in 1 .. k : s[i] \in S  BY <1>3, LenProperties
<1>5. /\ SubSeq(s, 1, k) \in Seq(S)
      /\ Len(SubSeq(s, 1, k)) = IF 1 <= k THEN k - 1 + 1 ELSE 0
      /\ \A i \in 1 .. k - 1 + 1 : SubSeq(s, 1, k)[i] = s[1 + i - 1]
  BY <1>4, SubSeqProperties
<1>6. Len(SubSeq(s, 1, k)) = k  BY <1>3, <1>5
<1>7. ASSUME NEW i \in 1 .. k PROVE SubSeq(s, 1, k)[i] = s[i]
  <2>1. i \in 1 .. k - 1 + 1 /\ 1 + i - 1 = i  OBVIOUS
  <2>. QED  BY <1>5, <2>1
<1>. QED  BY <1>1, <1>2, <1>5, <1>6, <1>7

LEMMA RollbackKeeps ==
    ASSUME EvidenceInv, Rollback
    PROVE  EvidenceInv'
<1>. USE DEF EvidenceInv
<1> DEFINE n == Len(committed)
<1>0. /\ UNCHANGED <<security, build, pc, original, staged, cursor, result, signed, before>>
      /\ pc = "rollback" /\ committed # <<>>
      /\ committed' = SubSeq(committed, 1, n - 1)
      /\ \/ /\ dist' = RolledBack(committed[n])
            /\ UNCHANGED <<broken, faults>>
         \/ /\ faults < MaxFaults /\ faults' = faults + 1 /\ broken' = TRUE
            /\ dist' \in {dist, RolledBack(committed[n])}
  BY DEF Rollback
<1>c. build \in Builds /\ build # 0  BY <1>0 DEF FilesInv, Making, Enriching, EvidenceType, Builds
<1>d. /\ security /\ original = before /\ Produced(original)
      /\ n <= 3 /\ \A i \in 1 .. n : committed[i] = Outputs[i]
      /\ ~broken => \A i \in 1 .. 3 : i > n => dist[Outputs[i]] = original[Outputs[i]]
  BY <1>0 DEF TransactionInv, Begun
<1>i. /\ n \in Nat \ {0} /\ SubSeq(committed, 1, n - 1) \in Seq(Files)
      /\ Len(SubSeq(committed, 1, n - 1)) = n - 1
      /\ \A i \in 1 .. n - 1 : SubSeq(committed, 1, n - 1)[i] = committed[i]
  BY <1>0, Shorter DEF EvidenceType
<1>e. n \in 1 .. 3 /\ committed[n] = Outputs[n]
  <2>1. n \in 1 .. n  BY <1>i
  <2>. HIDE DEF n
  <2>. QED  BY <1>i, <2>1, <1>d
<1>g. Outputs[n] \in OutputSet /\ Outputs[n] \in Files  BY <1>e, OutputsFacts
<1>f. RolledBack(committed[n]) = [dist EXCEPT ![Outputs[n]] = original[Outputs[n]]]
  BY <1>e DEF RolledBack
<1>h. committed' \in Seq(Files) /\ Len(committed') = n - 1
      /\ \A i \in 1 .. n - 1 : committed'[i] = Outputs[i]
  <2>1. ASSUME NEW i \in 1 .. n - 1 PROVE i \in 1 .. n  BY <1>i
  <2>. QED  BY <1>0, <1>d, <1>i, <2>1
<1>1. EvidenceType'
  <2>1. Names' = Names  BY <1>0 DEF Names
  <2>2. RolledBack(committed[n]) \in [Files -> File]
    <3>1. original[Outputs[n]] \in File  BY <1>g DEF EvidenceType
    <3>. QED  BY <1>f, <3>1, PutIn DEF EvidenceType
  <2>3. dist' \in [Files -> File]  BY <1>0, <2>2 DEF EvidenceType
  <2>4. broken' \in BOOLEAN  BY <1>0 DEF EvidenceType
  <2>5. faults' \in 0 .. MaxFaults  BY <1>0 DEF EvidenceType
  <2>. QED  BY <1>0, <1>h, <2>1, <2>3, <2>4, <2>5 DEF EvidenceType
<1>2. FilesInv'
  <2>1. Produced(dist)  BY <1>c DEF FilesInv
  <2>2. ASSUME NEW f \in Files
        PROVE  RolledBack(committed[n])[f] \in {dist[f], original[f]}
    BY <1>f DEF EvidenceType
  <2>3. Produced(dist)'
    <3>1. ASSUME NEW f \in Files PROVE dist'[f] \in {dist[f], original[f]}
      BY <1>0, <2>2
    <3>. QED  BY <1>0, <1>d, <2>1, <3>1 DEF Produced, Generated
  <2>. QED  BY <1>0, <2>3 DEF FilesInv, Making, Enriching
<1>3. TransactionInv'
  <2>1. Produced(original)'  BY <1>d, <1>0 DEF Produced, Generated
  <2>2. ASSUME ~broken', NEW i \in 1 .. 3, i > n - 1
        PROVE  dist'[Outputs[i]] = original[Outputs[i]]
    <3>0. ~broken /\ dist' = [dist EXCEPT ![Outputs[n]] = original[Outputs[n]]]
      BY <1>0, <1>f, <2>2
    <3>1. Outputs[i] \in Files /\ (Outputs[i] = Outputs[n] <=> i = n)
      BY <1>e, OutputsFacts
    <3>2. CASE i = n  BY <3>0, <1>g, <3>2 DEF EvidenceType
    <3>3. CASE i # n
      <4>1. dist'[Outputs[i]] = dist[Outputs[i]]  BY <3>0, <3>1, <3>3 DEF EvidenceType
      <4>2. i > n  BY <1>e, <2>2, <3>3
      <4>. QED  BY <4>1, <4>2, <3>0, <1>d
    <3>. QED  BY <3>2, <3>3
  <2>3. Len(committed') <= 3  BY <1>e, <1>h
  <2>4. \A i \in 1 .. 3 : ~broken' /\ i > Len(committed') => dist'[Outputs[i]] = original'[Outputs[i]]
    BY <1>0, <1>h, <2>2
  <2>. QED  BY <1>0, <1>d, <1>h, <2>1, <2>3, <2>4 DEF TransactionInv, Begun
<1>4. ResultInv'
  BY <1>0 DEF ResultInv, Enriching
<1>. QED  BY <1>1, <1>2, <1>3, <1>4

LEMMA RollbackSyncKeeps ==
    ASSUME EvidenceInv, RollbackSync
    PROVE  EvidenceInv'
<1>. USE DEF EvidenceInv
<1>0. /\ UNCHANGED <<security, build, dist, original, staged, committed, cursor, signed, before>>
      /\ pc = "rollback" /\ committed = <<>> /\ pc' = "cleanup"
      /\ result' = IF broken' THEN "incomplete" ELSE "restored"
      /\ \/ UNCHANGED <<broken, faults>>
         \/ faults < MaxFaults /\ faults' = faults + 1 /\ broken' = TRUE
  BY DEF RollbackSync
<1>1. EvidenceType'
  <2>1. Names' = Names  BY <1>0 DEF Names
  <2>2. broken' \in BOOLEAN  BY <1>0 DEF EvidenceType
  <2>3. faults' \in 0 .. MaxFaults  BY <1>0 DEF EvidenceType
  <2>4. result' \in Results  BY <1>0 DEF Results
  <2>. QED  BY <1>0, <2>1, <2>2, <2>3, <2>4 DEF EvidenceType, Enriching
<1>2. FilesInv'
  BY <1>0 DEF FilesInv, Making, Enriching, Produced, Generated
<1>3. TransactionInv'
  <2>1. /\ security /\ original = before /\ Produced(original) /\ Len(committed) = 0
        /\ ~broken => \A i \in 1 .. 3 : i > Len(committed) =>
                        dist[Outputs[i]] = original[Outputs[i]]
    BY <1>0 DEF TransactionInv, Begun
  <2>2. Produced(original)'  BY <2>1, <1>0 DEF Produced, Generated
  <2>3. ~broken' => Old(dist)'
    <3>1. ~broken => \A i \in 1 .. 3 : dist[Outputs[i]] = before[Outputs[i]]  BY <2>1
    <3>2. ~broken' => ~broken  BY <1>0
    <3>. QED  BY <3>1, <3>2, <1>0 DEF Old
  <2>. QED  BY <1>0, <2>1, <2>2, <2>3 DEF TransactionInv, Begun
<1>4. ResultInv'
  BY <1>0 DEF ResultInv, Enriching
<1>. QED  BY <1>1, <1>2, <1>3, <1>4

LEMMA CleanupKeeps ==
    ASSUME EvidenceInv, Cleanup
    PROVE  EvidenceInv'
<1>. USE DEF EvidenceInv
<1>0. /\ UNCHANGED <<security, build, dist, original, committed, broken, signed, before, faults,
                     result>>
      /\ pc = "cleanup" /\ staged' = {} /\ cursor' = 1
      /\ pc' = IF result = "enriched" THEN "sign" ELSE "idle"
  BY DEF Cleanup, Exit, TransactionInv
<1>a. /\ security /\ result \in {"enriched", "restored", "incomplete"}
      /\ result = "enriched" => New(dist)
      /\ result = "restored" => Old(dist)
  BY <1>0 DEF TransactionInv, Begun
<1>1. EvidenceType'
  <2>1. Names' = Names  BY <1>0 DEF Names
  <2>. QED  BY <1>0, <2>1, InstallCursor DEF EvidenceType, Enriching
<1>2. FilesInv'
  BY <1>0 DEF FilesInv, Making, Enriching, Produced, Generated
<1>3. TransactionInv'
  BY <1>0 DEF TransactionInv, Begun
<1>4. ResultInv'
  BY <1>0, <1>a DEF ResultInv, Enriching, New, Old
<1>. QED  BY <1>1, <1>2, <1>3, <1>4

LEMMA RaiseKeeps ==
    ASSUME EvidenceInv, EnrichRaises
    PROVE  EvidenceInv'
<1>. USE DEF EvidenceInv
<1>0. /\ UNCHANGED <<security, build, dist, original, staged, committed, broken, signed>>
      /\ faults < MaxFaults /\ faults' = faults + 1
      /\ pc \in Enriching \ {"rollback"} /\ cursor' = 1
      /\ \/ /\ pc \in {"read", "originals"} /\ pc' = "idle" /\ result' = "error"
            /\ before' = dist
         \/ /\ pc \in {"stage", "replace", "sync"} /\ pc' = "rollback"
            /\ UNCHANGED <<result, before>>
         \/ pc = "cleanup" /\ pc' = "idle" /\ result' = "error" /\ UNCHANGED before
  BY DEF EnrichRaises, Exit
<1>1. EvidenceType'
  <2>1. Names' = Names  BY <1>0 DEF Names
  <2>2. faults' \in 0 .. MaxFaults  BY <1>0 DEF EvidenceType
  <2>. QED  BY <1>0, <2>1, <2>2, InstallCursor DEF EvidenceType, Enriching, Results
<1>2. FilesInv'
  BY <1>0 DEF FilesInv, Making, Enriching, Produced, Generated
<1>3. TransactionInv'
  <2>1. CASE pc' = "idle"  BY <2>1 DEF TransactionInv, Begun
  <2>2. CASE pc' = "rollback"
    <3>1. /\ security /\ original = before /\ Produced(original)
          /\ pc \in {"stage", "replace", "sync"}
      BY <1>0, <2>2 DEF TransactionInv, Begun
    <3>2. Produced(original)'  BY <3>1, <1>0 DEF Produced, Generated
    <3>3. Len(committed) <= 3 /\ \A i \in 1 .. Len(committed) : committed[i] = Outputs[i]
      BY <3>1 DEF TransactionInv
    <3>4. \A i \in 1 .. 3 : i > Len(committed) => dist[Outputs[i]] = original[Outputs[i]]
      BY <3>1 DEF TransactionInv, EvidenceType
    <3>. QED  BY <1>0, <2>2, <3>1, <3>2, <3>3, <3>4 DEF TransactionInv, Begun
  <2>. QED  BY <1>0, <2>1, <2>2
<1>4. ResultInv'
  <2>1. CASE pc \in {"read", "originals"}
    <3>1. Old(dist)'  BY <1>0, <2>1 DEF Old
    <3>. QED  BY <1>0, <2>1, <3>1 DEF ResultInv, Enriching
  <2>2. CASE pc = "cleanup"
    <3>1. New(dist) \/ Old(dist) \/ broken  BY <2>2 DEF TransactionInv
    <3>2. New(dist)' \/ Old(dist)' \/ broken'  BY <3>1, <1>0, <2>2 DEF New, Old
    <3>3. pc' = "idle" /\ result' = "error"  BY <1>0, <2>2
    <3>. QED  BY <3>2, <3>3 DEF ResultInv
  <2>3. CASE pc \in {"stage", "replace", "sync"}
    BY <1>0, <2>3 DEF ResultInv, Enriching
  <2>. QED  BY <1>0, <2>1, <2>2, <2>3 DEF Enriching
<1>. QED  BY <1>1, <1>2, <1>3, <1>4

LEMMA SignKeeps ==
    ASSUME EvidenceInv, SignAssets("attach")
    PROVE  EvidenceInv'
<1>. USE DEF EvidenceInv
<1>0. /\ UNCHANGED <<security, build, dist, original, staged, committed, cursor, broken,
                     result, before, faults>>
      /\ pc = "sign" /\ pc' \in {"attach", "idle"}
      /\ signed' \in {signed, [signed EXCEPT ![build] = dist]}
  BY DEF SignAssets
<1>1. EvidenceType'
  <2>1. Names' = Names  BY <1>0 DEF Names
  <2>2. signed' \in [Builds -> [Files -> File]]  BY <1>0, PutIn DEF EvidenceType
  <2>. QED  BY <1>0, <2>1, <2>2 DEF EvidenceType, Attaching
<1>2. FilesInv'
  BY <1>0 DEF FilesInv, Making, Enriching, Produced, Generated
<1>3. TransactionInv'
  BY <1>0 DEF TransactionInv, Begun
<1>4. ResultInv'
  BY <1>0 DEF ResultInv, Enriching, New, Old
<1>. QED  BY <1>1, <1>2, <1>3, <1>4

\* The job ends, or another step of the release is made.
LEMMA QuietKeeps ==
    ASSUME EvidenceInv, UNCHANGED evidenceVars, faults' \in 0 .. MaxFaults,
           pc \notin Enriching, pc' \in {"idle"} \cup Attaching, cursor' \in 1 .. Len(Names)
    PROVE  EvidenceInv'
<1>. USE DEF EvidenceInv, evidenceVars
<1>0. pc' \notin Making  BY DEF Attaching, Making, Enriching
<1>1. EvidenceType'
  <2>1. Names' = Names  BY DEF Names
  <2>. QED  BY <2>1 DEF EvidenceType
<1>2. FilesInv'
  BY <1>0 DEF FilesInv, Making, Enriching, Produced, Generated
<1>3. TransactionInv'
  BY <1>0 DEF TransactionInv, Begun, Making, Enriching
<1>4. ResultInv'
  BY <1>0 DEF ResultInv, Making, New, Old
<1>. QED  BY <1>1, <1>2, <1>3, <1>4

\* The world changes while the build job goes on.
LEMMA StutterKeeps ==
    ASSUME EvidenceInv, UNCHANGED <<evidenceVars, pc, cursor, faults>>
    PROVE  EvidenceInv'
<1>. USE DEF EvidenceInv, evidenceVars
<1>1. EvidenceType'
  <2>1. Names' = Names  BY DEF Names
  <2>. QED  BY <2>1 DEF EvidenceType
<1>2. FilesInv'
  BY DEF FilesInv, Produced, Generated
<1>3. TransactionInv'
  BY DEF TransactionInv, Produced, Generated, New, Old
<1>4. ResultInv'
  BY DEF ResultInv, New, Old
<1>. QED  BY <1>1, <1>2, <1>3, <1>4

LEMMA KilledKeeps ==
    ASSUME EvidenceInv, BuildKilled
    PROVE  EvidenceInv'
<1>. USE DEF EvidenceInv
<1>0. /\ UNCHANGED <<security, build, dist, original, staged, committed, broken, signed, before>>
      /\ faults' \in 0 .. MaxFaults /\ pc \in Enriching
      /\ pc' = "idle" /\ result' = "killed" /\ cursor' = 1
  BY DEF BuildKilled, EvidenceType
<1>1. EvidenceType'
  <2>1. Names' = Names  BY <1>0 DEF Names
  <2>. QED  BY <1>0, <2>1, InstallCursor DEF EvidenceType, Results
<1>2. FilesInv'
  BY <1>0 DEF FilesInv, Making, Enriching, Produced, Generated
<1>3. TransactionInv'
  BY <1>0 DEF TransactionInv, Begun
<1>4. ResultInv'
  BY <1>0 DEF ResultInv
<1>. QED  BY <1>1, <1>2, <1>3, <1>4

LEMMA StartKeeps ==
    ASSUME EvidenceInv, StartBuild
    PROVE  EvidenceInv'
<1>. USE DEF EvidenceInv
<1>0. /\ UNCHANGED <<security, original, staged, committed, broken, signed, faults>>
      /\ build < MaxBuilds /\ build' = build + 1
      /\ dist' = Generated(build') /\ before' = Generated(build')
      /\ pc' = "read" /\ result' = "none" /\ cursor' = 1
  BY DEF StartBuild
<1>a. build' \in Builds /\ build' \in 0 .. MaxBuilds /\ build' # 0
  BY <1>0 DEF EvidenceType, Builds
<1>1. EvidenceType'
  <2>1. Names' = Names  BY <1>0 DEF Names
  <2>2. dist' \in [Files -> File] /\ before' \in [Files -> File]
    BY <1>0, <1>a, Generates
  <2>. QED  BY <1>0, <1>a, <2>1, <2>2, InstallCursor DEF EvidenceType, Enriching, Results
<1>2. FilesInv'
  BY <1>0, <1>a DEF FilesInv, Produced, Generated
<1>3. TransactionInv'
  BY <1>0 DEF TransactionInv, Begun
<1>4. ResultInv'
  BY <1>0 DEF ResultInv, Enriching
<1>. QED  BY <1>1, <1>2, <1>3, <1>4

LEMMA AgainKeeps ==
    ASSUME EvidenceInv, EnrichAgain
    PROVE  EvidenceInv'
<1>. USE DEF EvidenceInv
<1>0. /\ UNCHANGED <<security, build, dist, original, staged, committed, broken, result, signed,
                     before, faults>>
      /\ result # "none" /\ pc' = "read" /\ cursor' = 1
  BY DEF EnrichAgain, evidenceVars
<1>1. EvidenceType'
  <2>1. Names' = Names  BY <1>0 DEF Names
  <2>. QED  BY <1>0, <2>1, InstallCursor DEF EvidenceType, Enriching
<1>2. FilesInv'
  BY <1>0 DEF FilesInv, Produced, Generated
<1>3. TransactionInv'
  BY <1>0 DEF TransactionInv, Begun
<1>4. ResultInv'
  BY <1>0 DEF ResultInv, Enriching
<1>. QED  BY <1>1, <1>2, <1>3, <1>4

LEMMA EvidenceStarts ==
    ASSUME Init
    PROVE  EvidenceInv
<1>. USE DEF Init, EvidenceInit
<1>1. EvidenceType
  <2>1. Len(Names) >= 3 /\ Len(Names) \in Nat  BY NamesFacts
  <2>2. committed \in Seq(Files)  OBVIOUS
  <2>3. [f \in Files |-> Missing] \in [Files -> File]  BY DEF File
  <2>4. /\ dist \in [Files -> File] /\ original \in [Files -> File] /\ before \in [Files -> File]
        /\ signed \in [Builds -> [Files -> File]]
    BY <2>3
  <2>5. 1 \in 1 .. Len(Names)  BY <2>1
  <2>6. 0 \in 0 .. MaxBuilds /\ 0 \in 0 .. MaxFaults  OBVIOUS
  <2>7. security \in BOOLEAN /\ broken \in BOOLEAN  OBVIOUS
  <2>8. /\ pc \in {"idle", "sign"} \cup Enriching \cup Attaching
        /\ build \in 0 .. MaxBuilds /\ faults \in 0 .. MaxFaults
        /\ staged \subseteq Files /\ cursor \in 1 .. Len(Names) /\ result \in Results
    BY <2>5, <2>6 DEF Results
  <2>. QED  BY <2>2, <2>4, <2>7, <2>8 DEF EvidenceType
<1>. QED  BY <1>1 DEF EvidenceInv, FilesInv, TransactionInv, ResultInv, Making, Enriching, Begun

-----------------------------------------------------------------------------
(* What is signed. *)

\* The signed files of build b are complete and were checked.
Whole(b) ==
    /\ SemanticsHold(signed[b], b, security)
    /\ \A f \in Files : signed[b][f] \in Contents \/ (f = "container" /\ ~security)

\* The files of a signed build stay what they are: it is not enriched again.
SignedInv ==
    \A b \in Builds : IsSigned(b) =>
        /\ Whole(b) /\ b <= build
        /\ b = build => pc \notin Making /\ result \in {"unchanged", "enriched"}

LEMMA SignedSame ==
    ASSUME UNCHANGED <<signed, security>>
    PROVE  /\ Expected' = Expected
           /\ \A b : (IsSigned(b)' <=> IsSigned(b)) /\ Artifact(b)' = Artifact(b)
                     /\ (Whole(b)' <=> Whole(b))
<1>1. Names' = Names  BY DEF Names
<1>2. Expected' = Expected  BY <1>1 DEF Expected
<1>3. ASSUME NEW b
      PROVE  (IsSigned(b)' <=> IsSigned(b)) /\ Artifact(b)' = Artifact(b)
  BY <1>2 DEF IsSigned, Artifact
<1>4. ASSUME NEW b PROVE Whole(b)' <=> Whole(b)
  BY DEF Whole, SemanticsHold, ImagesFit, InstalledFits, AssuranceFits, ProvenanceFits,
         EvidenceFits, MarkdownFits, ContainerFits
<1>. QED  BY <1>2, <1>3, <1>4

LEMMA ArtifactTypes ==
    ASSUME EvidenceType, NEW b \in Builds, Whole(b)
    PROVE  /\ \A n \in Expected : Artifact(b)[n] \in Contents /\ Artifact(b)[n] # Missing
           /\ \A n \in AllNames \ Expected : Artifact(b)[n] = Missing
           /\ Artifact(b) \in [AllNames -> Asset]
           /\ Expected \subseteq AllNames
<1>0. security \in BOOLEAN  BY DEF EvidenceType
<1>1. Expected \subseteq AllNames  BY <1>0, NamesFacts
<1>2. ASSUME NEW n \in Expected PROVE Artifact(b)[n] \in Contents /\ Artifact(b)[n] # Missing
  <2>1. CASE n \in Files
    <3>1. ~security => n # "container"  BY <1>0, ExpectedIs
    <3>2. Artifact(b)[n] = signed[b][n]  BY <1>1, <2>1 DEF Artifact
    <3>3. signed[b][n] \in Contents  BY <2>1, <3>1 DEF Whole
    <3>. QED  BY <3>2, <3>3
  <2>2. CASE n \notin Files
    <3>1. Artifact(b)[n] = [build |-> b, mark |-> 0]  BY <1>1, <2>2 DEF Artifact
    <3>2. b \in 0 .. MaxBuilds  BY DEF Builds
    <3>. QED  BY <3>1, <3>2, Content
  <2>. QED  BY <2>1, <2>2
<1>3. \A n \in AllNames \ Expected : Artifact(b)[n] = Missing  BY DEF Artifact
<1>4. DOMAIN Artifact(b) = AllNames /\ Artifact(b) = [n \in AllNames |-> Artifact(b)[n]]
  BY DEF Artifact
<1>5. ASSUME NEW n \in AllNames PROVE Artifact(b)[n] \in Asset
  BY <1>2, <1>3 DEF Asset, File
<1>6. Artifact(b) \in [AllNames -> Asset]  BY <1>4, <1>5
<1>. QED  BY <1>1, <1>2, <1>3, <1>6

\* A complete signed set verifies.
LEMMA ArtifactVerifies ==
    ASSUME EvidenceType, NEW b \in Builds, Whole(b), IsSigned(b)
    PROVE  VerifySigned(Artifact(b))
<1> DEFINE set == Artifact(b)
<1>0. security \in BOOLEAN /\ b \in 0 .. MaxBuilds  BY DEF EvidenceType, Builds
<1>1. /\ \A n \in Expected : set[n] \in Contents /\ set[n] # Missing
      /\ \A n \in AllNames \ Expected : set[n] = Missing
      /\ Expected \subseteq AllNames
  BY ArtifactTypes
<1>2. \A n \in Expected : n \in Files => set[n] = signed[b][n]  BY <1>1 DEF Artifact
<1>3. \A n \in Expected : n \notin Files => set[n] = [build |-> b, mark |-> 0]
  BY <1>1 DEF Artifact
<1>4. {"SHA256SUMS", "SHA256SUMS.sigstore"} \subseteq Expected \ Files
  BY <1>0, ExpectedIs DEF Files, Base
<1>5. set["SHA256SUMS"].build = b /\ set["SHA256SUMS.sigstore"].build = b
  BY <1>0, <1>3, <1>4, Content
<1>6. Base \subseteq Expected /\ Base \subseteq Files
  BY <1>0, ExpectedIs DEF Base, Files
<1>7. \A f \in Base : set[f] = signed[b][f]  BY <1>2, <1>6
<1>8. /\ signed[b]["evidence"] = [build |-> b, mark |-> IF security THEN 1 ELSE 0]
      /\ signed[b]["container"] = IF security THEN [build |-> b, mark |-> 1] ELSE Missing
  BY DEF Whole, SemanticsHold, EvidenceFits, ContainerFits
<1>9. set["container"] = signed[b]["container"]
  <2>1. CASE security
    <3>1. "container" \in Expected /\ "container" \in Files  BY <1>0, <2>1, ExpectedIs DEF Files
    <3>. QED  BY <3>1, <1>2
  <2>2. CASE ~security
    <3>1. "container" \in AllNames \ Expected  BY <1>0, <2>2, ExpectedIs DEF AllNames, Files
    <3>. QED  BY <3>1, <1>1, <1>8, <2>2
  <2>. QED  BY <2>1, <2>2
<1>10. security => /\ "container.sigstore" \in Expected \ Files
                   /\ set["container"].build = b /\ set["container.sigstore"].build = b
  <2>. SUFFICES ASSUME security
                PROVE  /\ "container.sigstore" \in Expected \ Files
                       /\ set["container"].build = b /\ set["container.sigstore"].build = b
    OBVIOUS
  <2>1. "container.sigstore" \in Expected \ Files  BY <1>0, ExpectedIs DEF Files, Base
  <2>2. set["container"] = [build |-> b, mark |-> 1]  BY <1>8, <1>9
  <2>3. set["container.sigstore"] = [build |-> b, mark |-> 0]  BY <1>3, <2>1
  <2>4. set["container"].build = b  BY <2>2
  <2>5. set["container.sigstore"].build = b  BY <2>3
  <2>. QED  BY <2>1, <2>4, <2>5
<1>11. set["evidence"].build = b
  <2>1. set["evidence"] = [build |-> b, mark |-> IF security THEN 1 ELSE 0]
    BY <1>7, <1>8 DEF Base
  <2>. QED  BY <2>1
<1>12. ImagesNamed(set) = b  BY <1>10, <1>11 DEF ImagesNamed
<1>13. SemanticsHold(set, b, security)
  <2>1. /\ set["images"] = signed[b]["images"] /\ set["installed"] = signed[b]["installed"]
        /\ set["assurance"] = signed[b]["assurance"]
        /\ set["provenance"] = signed[b]["provenance"]
        /\ set["evidence"] = signed[b]["evidence"] /\ set["markdown"] = signed[b]["markdown"]
    BY <1>7 DEF Base
  <2>. HIDE DEF set
  <2>. QED  BY <2>1, <1>9 DEF Whole, SemanticsHold, ImagesFit, InstalledFits, AssuranceFits,
                ProvenanceFits, EvidenceFits, MarkdownFits, ContainerFits
<1>14. ChecksumsFit(set)
  BY <1>5, <1>1 DEF ChecksumsFit
<1>15. {n \in AllNames : set[n] # Missing} = Expected  BY <1>1
<1>. HIDE DEF set
<1>16. VerifySigned(set)
  BY <1>1, <1>5, <1>10, <1>12, <1>13, <1>14, <1>15 DEF VerifySigned
<1>. QED  BY <1>16 DEF set

\* Signing another build does not change a signed one.
LEMMA SigningSame ==
    ASSUME EvidenceInv, SignedInv, pc = "sign", UNCHANGED security,
           signed' = [signed EXCEPT ![build] = dist],
           NEW b \in Builds, IsSigned(b)
    PROVE  b # build /\ IsSigned(b)' /\ Artifact(b)' = Artifact(b) /\ (Whole(b)' <=> Whole(b))
<1>1. b # build  BY DEF SignedInv, Making
<1>2. signed'[b] = signed[b]  BY <1>1 DEF EvidenceInv, EvidenceType
<1>3. Names' = Names  BY DEF Names
<1>4. Expected' = Expected  BY <1>3 DEF Expected
<1>5. IsSigned(b)'  BY <1>2 DEF IsSigned
<1>6. Artifact(b)' = Artifact(b)  BY <1>2, <1>4 DEF Artifact
<1>7. Whole(b)' <=> Whole(b)
  BY <1>2 DEF Whole, SemanticsHold, ImagesFit, InstalledFits, AssuranceFits, ProvenanceFits,
         EvidenceFits, MarkdownFits, ContainerFits
<1>. QED  BY <1>1, <1>5, <1>6, <1>7

\* What is signed was checked.
LEMMA SigningWhole ==
    ASSUME EvidenceInv, pc = "sign", UNCHANGED <<security, build>>,
           SemanticsHold(dist, build, security),
           signed' = [signed EXCEPT ![build] = dist]
    PROVE  build \in Builds /\ IsSigned(build)' /\ Whole(build)'
<1>1. build \in Builds /\ build # 0
  BY DEF EvidenceInv, EvidenceType, FilesInv, Making, Builds
<1>2. signed'[build] = dist  BY <1>1 DEF EvidenceInv, EvidenceType
<1>3. build \in 0 .. MaxBuilds /\ 0 \in 0 .. MaxBuilds  BY <1>1 DEF Builds
<1>4. Produced(dist)  BY <1>1 DEF EvidenceInv, FilesInv
<1>5. ASSUME NEW f \in Files \ {"container"} PROVE dist[f] \in Contents
  <2>1. \/ dist[f] = Generated(build)[f]
        \/ dist[f] = [build |-> build, mark |-> 1]
    BY <1>4 DEF Produced
  <2>2. Generated(build)[f] \in {[build |-> build, mark |-> 0], [build |-> 0, mark |-> 0]}
    BY <1>1, Generates
  <2>3. /\ [build |-> build, mark |-> 1] \in Contents /\ [build |-> build, mark |-> 0] \in Contents
        /\ [build |-> 0, mark |-> 0] \in Contents
    BY <1>3, Content
  <2>. QED  BY <2>1, <2>2, <2>3
<1>6. security => dist["container"] \in Contents
  BY <1>3, Content DEF SemanticsHold, ContainerFits
<1>7. "images" \in Files \ {"container"}  BY DEF Files, Base
<1>8. dist["images"] # Missing  BY <1>5, <1>7
<1>9. IsSigned(build)'
  BY <1>1, <1>2, <1>8 DEF IsSigned
<1>. QED  BY <1>1, <1>2, <1>5, <1>6, <1>9 DEF Whole, SemanticsHold, ImagesFit,
             InstalledFits, AssuranceFits, ProvenanceFits, EvidenceFits, MarkdownFits,
             ContainerFits

\* A step that signs nothing: it begins another build, works at the files of one that
\* is not signed, or leaves them alone.
LEMMA UnsignedKeeps ==
    ASSUME EvidenceInv, SignedInv, UNCHANGED <<signed, security>>,
           \/ build' = build + 1
           \/ build' = build /\ (pc \in Making \/ result \notin {"unchanged", "enriched"})
           \/ build' = build /\ result' = result /\ pc' \notin Making
    PROVE  SignedInv'
<1>. SUFFICES ASSUME NEW b \in Builds, IsSigned(b)'
              PROVE  /\ Whole(b)' /\ b <= build'
                     /\ b = build' => pc' \notin Making /\ result' \in {"unchanged", "enriched"}
  BY DEF SignedInv
<1>1. IsSigned(b) /\ (Whole(b)' <=> Whole(b))  BY SignedSame
<1>2. /\ Whole(b) /\ b <= build
      /\ b = build => pc \notin Making /\ result \in {"unchanged", "enriched"}
  BY <1>1 DEF SignedInv
<1>3. b \in Nat /\ build \in Nat  BY DEF Builds, EvidenceInv, EvidenceType
<1>. QED  BY <1>1, <1>2, <1>3

LEMMA SigningKeeps ==
    ASSUME EvidenceInv, SignedInv, SignAssets("attach")
    PROVE  SignedInv'
<1>1. /\ UNCHANGED <<security, build, result>> /\ pc = "sign"
      /\ \/ /\ SemanticsHold(dist, build, security) /\ pc' = "attach"
            /\ signed' = [signed EXCEPT ![build] = dist]
         \/ pc' = "idle" /\ signed' = signed
  BY DEF SignAssets
<1>2. CASE signed' = signed
  BY <1>1, <1>2, UnsignedKeeps DEF Making
<1>3. CASE /\ SemanticsHold(dist, build, security) /\ pc' = "attach"
           /\ signed' = [signed EXCEPT ![build] = dist]
  <2>. SUFFICES ASSUME NEW b \in Builds, IsSigned(b)'
                PROVE  /\ Whole(b)' /\ b <= build'
                       /\ b = build' => pc' \notin Making /\ result' \in {"unchanged", "enriched"}
    BY DEF SignedInv
  <2>1. pc' \notin Making  BY <1>3 DEF Making, Enriching
  <2>2. CASE b = build
    <3>1. Whole(b)'
      <4>1. Whole(build)'  BY <1>1, <1>3, SigningWhole
      <4>2. signed'[b] = dist  BY <1>3, <2>2 DEF EvidenceInv, EvidenceType
      <4>3. signed'[build] = dist /\ build' = build  BY <1>1, <4>2, <2>2
      <4>. QED  BY <4>1, <4>2, <4>3, <1>1, <2>2 DEF Whole
    <3>2. result' \in {"unchanged", "enriched"}
      <4>1. pc \notin Enriching  BY <1>1 DEF Enriching
      <4>. QED  BY <1>1, <4>1 DEF EvidenceInv, ResultInv
    <3>3. build \in Nat  BY DEF EvidenceInv, EvidenceType
    <3>. QED  BY <1>1, <2>1, <2>2, <3>1, <3>2, <3>3
  <2>3. CASE b # build
    <3>1. IsSigned(b)
      <4>1. signed'[b] = signed[b]  BY <1>3, <2>3 DEF EvidenceInv, EvidenceType
      <4>. QED  BY <4>1 DEF IsSigned
    <3>2. Whole(b)'  BY <1>1, <1>3, <3>1, SigningSame DEF SignedInv
    <3>3. b <= build  BY <3>1 DEF SignedInv
    <3>. QED  BY <1>1, <2>3, <3>2, <3>3
  <2>. QED  BY <2>2, <2>3
<1>. QED  BY <1>1, <1>2, <1>3

-----------------------------------------------------------------------------
(* The release. *)

AttachType ==
    /\ artifact \in 0 .. MaxBuilds
    /\ release \in {"draft", "published", "immutable"}
    /\ mode \in {"draft", "published"}
    /\ assets \in [AllNames -> Asset] /\ seen \in [AllNames -> Asset]
    /\ inventory \in [AllNames -> Asset]
    /\ revoked \in BOOLEAN /\ final \in BOOLEAN /\ delivered \in BOOLEAN
    /\ disturbed \in BOOLEAN /\ raced \in BOOLEAN
    /\ polls \in 1 .. MaxPolls
    /\ outcome \in {"none", "running", "failed", "success"}
    /\ runs \in 0 .. MaxRuns /\ foreign \in 0 .. MaxForeign

\* The release holds the complete signed set of one build.
HoldsSet == \E b \in Builds : IsSigned(b) /\ assets = Artifact(b)

AfterPublication == {"poll", "compare", "confirm", "deliver"}
AfterInventory == {"check", "state", "recheck", "patch"} \cup AfterPublication

\* What the attach job relies on.
JobInv ==
    /\ pc \in Attaching => IsSigned(artifact)
    /\ pc \in Attaching \ (AfterPublication \cup {"attach"}) =>
         release = IF mode = "draft" THEN "draft" ELSE "immutable"
    /\ pc \in {"delete", "emptied", "recheck", "patch"} => mode = "draft"
    /\ pc \in AfterInventory => inventory = Artifact(artifact)
    /\ pc \in AfterPublication => release # "draft"
    /\ pc = "patch" /\ ~raced => assets = inventory
    /\ pc \in {"confirm", "deliver"} => final /\ assets = inventory
    /\ final => release = "immutable"

\* What is promised of the release.
SetInv ==
    /\ release # "draft" /\ ~raced => HoldsSet
    /\ delivered => release = "immutable" /\ HoldsSet

Inv == EvidenceInv /\ SignedInv /\ AttachType /\ JobInv /\ SetInv

LEMMA HoldsSetVerifies ==
    ASSUME EvidenceInv, SignedInv, HoldsSet
    PROVE  VerifySigned(assets)
<1>1. PICK b \in Builds : IsSigned(b) /\ assets = Artifact(b)  BY DEF HoldsSet
<1>2. Whole(b)  BY <1>1 DEF SignedInv
<1>. QED  BY <1>1, <1>2, ArtifactVerifies DEF EvidenceInv

LEMMA InvTells ==
    ASSUME Inv
    PROVE  TypeOK /\ AllOrNothing /\ PublishedIsWhole /\ DeliveredIsWhole
<1>1. TypeOK  BY DEF Inv, EvidenceInv, EvidenceType, AttachType, TypeOK
<1>2. AllOrNothing  BY ResultTells DEF Inv, EvidenceInv
<1>3. HoldsSet => VerifySigned(assets)  BY HoldsSetVerifies DEF Inv
<1>. QED  BY <1>1, <1>2, <1>3 DEF Inv, SetInv, PublishedIsWhole, DeliveredIsWhole

LEMMA HoldsSetSame ==
    ASSUME UNCHANGED <<signed, security, assets>>
    PROVE  HoldsSet' <=> HoldsSet
BY SignedSame DEF HoldsSet

\* What a step of the attach job leaves alone.
LEMMA AttachMoves ==
    ASSUME Inv, AttachStep
    PROVE  /\ UNCHANGED <<evidenceVars, faults, revoked, artifact, delivered, disturbed,
                          runs, foreign>>
           /\ UNCHANGED <<signed, security>>
           /\ pc \in Attaching /\ pc' \in {"idle"} \cup Attaching
           /\ cursor' \in 1 .. Len(Names)
           /\ outcome' \in {outcome, "failed"}
<1>1. cursor \in 1 .. Len(Names) /\ security \in BOOLEAN
  BY DEF Inv, EvidenceInv, EvidenceType
<1>2. Len(Names) \in Nat /\ 1 \in 1 .. Len(Names)  BY <1>1, NamesFacts
<1>. USE <1>1, <1>2 DEF unchangedByAttach, Continue, Refuse, NextAsset, Attaching, evidenceVars
<1>3. CASE ReadMode  BY <1>3 DEF ReadMode
<1>4. CASE ListAssets  BY <1>4 DEF ListAssets
<1>5. CASE Probe  BY <1>5 DEF Probe
<1>6. CASE Delete  BY <1>6 DEF Delete
<1>7. CASE Emptied  BY <1>7 DEF Emptied
<1>8. CASE Upload  BY <1>8 DEF Upload
<1>9. CASE FinalListing  BY <1>9 DEF FinalListing
<1>10. CASE Check  BY <1>10 DEF Check
<1>11. CASE State  BY <1>11 DEF State
<1>12. CASE Recheck  BY <1>12 DEF Recheck
<1>13. CASE Patch  BY <1>13 DEF Patch
<1>14. CASE Poll  BY <1>14 DEF Poll
<1>15. CASE Compare  BY <1>15 DEF Compare
<1>16. CASE Confirm  BY <1>16 DEF Confirm
<1>. QED  BY <1>3, <1>4, <1>5, <1>6, <1>7, <1>8, <1>9, <1>10, <1>11, <1>12, <1>13, <1>14,
             <1>15, <1>16 DEF AttachStep

\* The steps that only read the assets of the release.
Reading == ReadMode \/ ListAssets \/ Probe \/ Emptied \/ FinalListing \/ Check \/ State
           \/ Recheck \/ Poll \/ Compare \/ Confirm

LEMMA ReadingTypes ==
    ASSUME Inv, Reading
    PROVE  AttachType'
<1>0. AttachStep  BY DEF Reading, AttachStep
<1>1. AttachType /\ UNCHANGED <<revoked, artifact, delivered, disturbed, runs, foreign>>
      /\ outcome' \in {outcome, "failed"}
  BY <1>0, AttachMoves DEF Inv
<1>2. UNCHANGED <<release, assets>>
  BY DEF Reading, ReadMode, ListAssets, Probe, Emptied, FinalListing, Check, State, Recheck,
         Poll, Compare, Confirm, publishing
<1>3. mode' \in {mode, "draft", "published"} /\ raced' \in {raced, FALSE}
  BY DEF Reading, ReadMode, ListAssets, Probe, Emptied, FinalListing, Check, State, Recheck,
         Poll, Compare, Confirm, publishing
<1>4. seen' \in {seen, assets} /\ inventory' \in {inventory, assets}
  BY DEF Reading, ReadMode, ListAssets, Probe, Emptied, FinalListing, Check, State, Recheck,
         Poll, Compare, Confirm, publishing
<1>5. final' \in {final, TRUE, FALSE}
  BY DEF Reading, ReadMode, ListAssets, Probe, Emptied, FinalListing, Check, State, Recheck,
         Poll, Compare, Confirm, publishing
<1>6. polls' \in {polls, 1} \/ (polls < MaxPolls /\ polls' = polls + 1)
  BY DEF Reading, ReadMode, ListAssets, Probe, Emptied, FinalListing, Check, State, Recheck,
         Poll, Compare, Confirm, publishing
<1>7. polls' \in 1 .. MaxPolls
  <2>1. polls \in 1 .. MaxPolls  BY <1>1 DEF AttachType
  <2>. QED  BY <1>6, <2>1
<1>8. /\ final' \in BOOLEAN /\ raced' \in BOOLEAN /\ mode' \in {"draft", "published"}
      /\ outcome' \in {"none", "running", "failed", "success"}
  BY <1>1, <1>3, <1>5 DEF AttachType
<1>9. /\ seen' \in [AllNames -> Asset] /\ inventory' \in [AllNames -> Asset]
      /\ assets' \in [AllNames -> Asset]
  BY <1>1, <1>2, <1>4 DEF AttachType
<1>. QED  BY <1>1, <1>2, <1>7, <1>8, <1>9 DEF AttachType

LEMMA ReadingKeepsSet ==
    ASSUME Inv, Reading
    PROVE  SetInv'
<1>0. AttachStep  BY DEF Reading, AttachStep
<1>1. UNCHANGED <<signed, security, delivered>>  BY <1>0, AttachMoves
<1>2. UNCHANGED <<release, assets>> /\ (raced' = raced \/ release = "draft")
  BY DEF Reading, ReadMode, ListAssets, Probe, Emptied, FinalListing, Check, State, Recheck,
         Poll, Compare, Confirm, publishing
<1>3. HoldsSet' <=> HoldsSet  BY <1>1, <1>2, HoldsSetSame
<1>. QED  BY <1>1, <1>2, <1>3 DEF Inv, SetInv

LEMMA ReadingKeepsJob ==
    ASSUME Inv, Reading
    PROVE  JobInv'
<1>0. AttachStep  BY DEF Reading, AttachStep
<1>1. UNCHANGED <<signed, security, artifact>>  BY <1>0, AttachMoves
<1>2. (IsSigned(artifact)' <=> IsSigned(artifact)) /\ Artifact(artifact)' = Artifact(artifact)
  BY <1>1, SignedSame
<1>3. JobInv /\ IsSigned(artifact) /\ release \in {"draft", "published", "immutable"}
      /\ mode \in {"draft", "published"}
  BY <1>0, AttachMoves DEF Inv, JobInv, AttachType
<1>. USE <1>1, <1>2, <1>3 DEF JobInv, Continue, Refuse, AfterPublication, AfterInventory, Attaching,
                              publishing
<1>4. CASE ReadMode  BY <1>4 DEF ReadMode
<1>5. CASE ListAssets  BY <1>5 DEF ListAssets
<1>6. CASE Probe  BY <1>6 DEF Probe
<1>7. CASE Emptied  BY <1>7 DEF Emptied
<1>8. CASE FinalListing  BY <1>8 DEF FinalListing
<1>9. CASE Check  BY <1>9 DEF Check
<1>10. CASE State  BY <1>10 DEF State
<1>11. CASE Recheck  BY <1>11 DEF Recheck, StillListed
<1>12. CASE Poll  BY <1>12 DEF Poll
<1>13. CASE Compare  BY <1>13 DEF Compare, CandidateFits
<1>14. CASE Confirm  BY <1>14 DEF Confirm
<1>. QED  BY <1>4, <1>5, <1>6, <1>7, <1>8, <1>9, <1>10, <1>11, <1>12, <1>13, <1>14 DEF Reading

LEMMA CurrentName ==
    ASSUME Inv
    PROVE  Name \in Expected /\ Name \in AllNames
BY NamesFacts DEF Inv, EvidenceInv, EvidenceType, Name

LEMMA MissingIsAsset == Missing \in Asset /\ Starter \in Asset /\ Foreign \in Asset
BY DEF Asset, File

LEMMA WantedIsAsset ==
    ASSUME Inv, pc \in Attaching, NEW n \in AllNames
    PROVE  /\ artifact \in Builds /\ Whole(artifact)
           /\ Wanted(n) = Artifact(artifact)[n] /\ Wanted(n) \in Asset
<1>1. IsSigned(artifact)  BY DEF Inv, JobInv
<1>2. artifact \in Builds /\ Whole(artifact)  BY <1>1 DEF IsSigned, Inv, SignedInv
<1>. QED  BY <1>2, ArtifactTypes DEF Inv, EvidenceInv, Wanted

\* A deletion or an upload: the release is a draft.
LEMMA WritingKeeps ==
    ASSUME Inv, Delete \/ Upload
    PROVE  AttachType' /\ JobInv' /\ SetInv'
<1>0. AttachStep  BY DEF AttachStep
<1>1. /\ AttachType /\ UNCHANGED <<revoked, artifact, delivered, disturbed, runs, foreign>>
      /\ UNCHANGED <<signed, security>>
      /\ pc \in Attaching /\ outcome' \in {outcome, "failed"}
  BY <1>0, AttachMoves DEF Inv
<1>2. /\ pc \in {"delete", "upload"}
      /\ pc' \in {"idle", "delete", "emptied", "upload", "final"}
      /\ pc' \in {"delete", "emptied"} => pc = "delete"
      /\ UNCHANGED <<release, mode, seen, inventory, final, polls, raced>>
  BY DEF Delete, Upload, NextAsset, Refuse
<1>3. \/ assets' = assets
      \/ /\ mode = "draft"
         /\ assets' \in {[assets EXCEPT ![Name] = Missing], [assets EXCEPT ![Name] = Wanted(Name)]}
  <2>1. pc = "delete" => mode = "draft"  BY DEF Inv, JobInv
  <2>. QED  BY <2>1 DEF Delete, Upload
<1>4. /\ (IsSigned(artifact)' <=> IsSigned(artifact)) /\ Artifact(artifact)' = Artifact(artifact)
  BY <1>1, SignedSame
<1>5. JobInv /\ SetInv /\ IsSigned(artifact)
      /\ release = IF mode = "draft" THEN "draft" ELSE "immutable"
  BY <1>1, <1>2 DEF Inv, JobInv, AfterPublication
<1>6. assets' \in [AllNames -> Asset]
  <2>1. Wanted(Name) \in Asset  BY <1>1, CurrentName, WantedIsAsset
  <2>2. assets \in [AllNames -> Asset]  BY <1>1 DEF AttachType
  <2>. HIDE DEF Name, Wanted
  <2>. QED  BY <1>3, <2>1, <2>2, MissingIsAsset, PutIn
<1>7. outcome' \in {"none", "running", "failed", "success"}  BY <1>1 DEF AttachType
<1>8. AttachType'  BY <1>1, <1>2, <1>6, <1>7 DEF AttachType
<1>9. JobInv'
  BY <1>1, <1>2, <1>4, <1>5 DEF JobInv, AfterPublication, AfterInventory, Attaching
<1>10. SetInv'
  <2>1. CASE mode = "draft"  BY <1>1, <1>2, <1>5, <2>1 DEF SetInv
  <2>2. CASE assets' = assets
    <3>1. HoldsSet' <=> HoldsSet  BY <1>1, <2>2, HoldsSetSame
    <3>. QED  BY <1>1, <1>2, <1>5, <3>1 DEF SetInv
  <2>. QED  BY <1>3, <2>1, <2>2
<1>. QED  BY <1>8, <1>9, <1>10

LEMMA PatchKeeps ==
    ASSUME Inv, Patch
    PROVE  AttachType' /\ JobInv' /\ SetInv'
<1>0. AttachStep  BY DEF AttachStep
<1>1. /\ AttachType /\ UNCHANGED <<revoked, artifact, delivered, disturbed, runs, foreign>>
      /\ UNCHANGED <<signed, security>>
      /\ pc \in Attaching /\ outcome' \in {outcome, "failed"}
  BY <1>0, AttachMoves DEF Inv
<1>2. /\ pc = "patch" /\ pc' = "poll" /\ release' = "published"
      /\ UNCHANGED <<assets, mode, seen, inventory, final, polls, raced>>
  BY DEF Patch, Continue
<1>3. /\ (IsSigned(artifact)' <=> IsSigned(artifact)) /\ Artifact(artifact)' = Artifact(artifact)
  BY <1>1, SignedSame
<1>4. /\ IsSigned(artifact) /\ mode = "draft" /\ release = "draft"
      /\ inventory = Artifact(artifact)
      /\ ~raced => assets = inventory
      /\ final = FALSE
  BY <1>1, <1>2 DEF Inv, JobInv, AfterPublication, AfterInventory, AttachType
<1>5. AttachType'
  <2>1. outcome' \in {"none", "running", "failed", "success"}  BY <1>1 DEF AttachType
  <2>. QED  BY <1>1, <1>2, <2>1 DEF AttachType
<1>6. JobInv'
  BY <1>1, <1>2, <1>3, <1>4 DEF JobInv, AfterPublication, AfterInventory, Attaching
<1>7. SetInv'
  <2>1. ~raced => HoldsSet
    <3>1. artifact \in Builds  BY <1>4 DEF IsSigned
    <3>. QED  BY <1>4, <3>1 DEF HoldsSet
  <2>2. HoldsSet' <=> HoldsSet  BY <1>1, <1>2, HoldsSetSame
  <2>3. ~delivered  BY <1>4 DEF Inv, SetInv
  <2>. QED  BY <1>1, <1>2, <2>1, <2>2, <2>3 DEF SetInv
<1>. QED  BY <1>5, <1>6, <1>7

LEMMA AttachStepKeeps ==
    ASSUME Inv, AttachStep
    PROVE  Inv'
<1>1. /\ UNCHANGED <<evidenceVars, faults>> /\ UNCHANGED <<signed, security>>
      /\ pc \in Attaching /\ pc' \in {"idle"} \cup Attaching
      /\ cursor' \in 1 .. Len(Names)
  BY AttachMoves
<1>2. pc \notin Enriching /\ pc' \notin Making  BY <1>1 DEF Attaching, Enriching, Making
<1>3. faults' \in 0 .. MaxFaults  BY <1>1 DEF Inv, EvidenceInv, EvidenceType
<1>4. EvidenceInv'  BY <1>1, <1>2, <1>3, QuietKeeps DEF Inv
<1>5. SignedInv'  BY <1>1, <1>2, UnsignedKeeps DEF Inv, evidenceVars
<1>6. AttachType' /\ JobInv' /\ SetInv'
  <2>1. CASE Reading  BY <2>1, ReadingTypes, ReadingKeepsJob, ReadingKeepsSet
  <2>2. CASE Delete \/ Upload  BY <2>2, WritingKeeps
  <2>3. CASE Patch  BY <2>3, PatchKeeps
  <2>. QED  BY <2>1, <2>2, <2>3 DEF AttachStep, Reading
<1>. QED  BY <1>4, <1>5, <1>6 DEF Inv

LEMMA DeliverKeeps ==
    ASSUME Inv, Deliver
    PROVE  Inv'
<1>1. /\ UNCHANGED <<evidenceVars, cursor, faults, release, assets, revoked, artifact, mode,
                     seen, inventory, final, polls, disturbed, raced, runs, foreign>>
      /\ UNCHANGED <<signed, security>>
      /\ pc = "deliver" /\ pc' = "idle" /\ delivered' = TRUE /\ outcome' = "success"
  BY DEF Deliver, evidenceVars
<1>2. pc \notin Enriching /\ pc' \notin Making  BY <1>1 DEF Enriching, Making
<1>3. faults' \in 0 .. MaxFaults /\ cursor' \in 1 .. Len(Names)
  BY <1>1 DEF Inv, EvidenceInv, EvidenceType
<1>4. EvidenceInv'  BY <1>1, <1>2, <1>3, QuietKeeps DEF Inv
<1>5. SignedInv'  BY <1>1, <1>2, UnsignedKeeps DEF Inv, evidenceVars
<1>6. AttachType'  BY <1>1 DEF Inv, AttachType
<1>7. JobInv'  BY <1>1 DEF Inv, JobInv, AfterPublication, AfterInventory, Attaching
<1>8. SetInv'
  <2>1. IsSigned(artifact) /\ assets = Artifact(artifact) /\ release = "immutable"
    BY <1>1 DEF Inv, JobInv, AfterInventory, AfterPublication, Attaching
  <2>2. HoldsSet  BY <2>1 DEF HoldsSet, IsSigned
  <2>3. HoldsSet'  BY <1>1, <2>2, HoldsSetSame
  <2>. QED  BY <1>1, <2>1, <2>3 DEF SetInv
<1>. QED  BY <1>4, <1>5, <1>6, <1>7, <1>8 DEF Inv

LEMMA FailingKeeps ==
    ASSUME Inv, AttachFails
    PROVE  Inv'
<1>1. /\ UNCHANGED <<evidenceVars, cursor, revoked, artifact, mode, seen, inventory, final, polls,
                     raced, runs, foreign>>
      /\ UNCHANGED <<signed, security>>
      /\ faults < MaxFaults /\ faults' = faults + 1
      /\ pc \in Attaching /\ pc' = "idle" /\ outcome' = "failed" /\ disturbed' = TRUE
      /\ assets' \in AssetsAfterFailure
      /\ \/ release' = release
         \/ pc = "patch" /\ release' = "published"
      /\ \/ delivered' = delivered
         \/ pc = "deliver" /\ delivered' = TRUE
  BY DEF AttachFails, Refuse, evidenceVars
<1>2. pc \notin Enriching /\ pc' \notin Making  BY <1>1 DEF Enriching, Making, Attaching
<1>3. faults' \in 0 .. MaxFaults /\ cursor' \in 1 .. Len(Names)
  BY <1>1 DEF Inv, EvidenceInv, EvidenceType
<1>4. EvidenceInv'  BY <1>1, <1>2, <1>3, QuietKeeps DEF Inv
<1>5. SignedInv'  BY <1>1, <1>2, UnsignedKeeps DEF Inv, evidenceVars
<1>6. \/ assets' = assets
      \/ /\ pc \in {"delete", "upload"} /\ mode = "draft" /\ release = "draft"
         /\ \/ assets' = [assets EXCEPT ![Name] = Missing]
            \/ assets' = [assets EXCEPT ![Name] = Starter]
            \/ assets' = [assets EXCEPT ![Name] = Wanted(Name)]
  <2>1. pc = "delete" => mode = "draft"  BY DEF Inv, JobInv
  <2>2. pc \in {"delete", "upload"} /\ mode = "draft" => release = "draft"
    BY <1>1 DEF Inv, JobInv, AfterPublication
  <2>. QED  BY <1>1, <2>1, <2>2 DEF AssetsAfterFailure
<1>7. assets' \in [AllNames -> Asset]
  <2>1. Wanted(Name) \in Asset  BY <1>1, CurrentName, WantedIsAsset
  <2>2. assets \in [AllNames -> Asset]  BY DEF Inv, AttachType
  <2>. HIDE DEF Name, Wanted
  <2>. QED  BY <1>6, <2>1, <2>2, MissingIsAsset, PutIn
<1>8. AttachType'
  <2>1. /\ release' \in {"draft", "published", "immutable"} /\ delivered' \in BOOLEAN
        /\ outcome' \in {"none", "running", "failed", "success"} /\ disturbed' \in BOOLEAN
    BY <1>1 DEF Inv, AttachType
  <2>. QED  BY <1>1, <1>7, <2>1 DEF Inv, AttachType
<1>9. JobInv'
  <2>1. final => release' = "immutable"
    BY <1>1 DEF Inv, JobInv, AfterPublication, AttachType, Attaching
  <2>. QED  BY <1>1, <2>1 DEF JobInv, AfterPublication, AfterInventory, Attaching
<1>10. SetInv'
  <2>1. CASE assets' = assets
    <3>1. HoldsSet' <=> HoldsSet  BY <1>1, <2>1, HoldsSetSame
    <3>2. pc = "patch" \/ pc = "deliver" =>
            /\ IsSigned(artifact) /\ artifact \in Builds
            /\ pc = "patch" => release = "draft" /\ (~raced => assets = Artifact(artifact))
            /\ pc = "deliver" => release = "immutable" /\ assets = Artifact(artifact)
      BY DEF Inv, JobInv, AfterInventory, AfterPublication, Attaching, IsSigned
    <3>3. pc = "patch" /\ ~raced => HoldsSet  BY <3>2 DEF HoldsSet
    <3>4. pc = "deliver" => HoldsSet /\ release = "immutable"  BY <3>2 DEF HoldsSet
    <3>5. delivered => pc # "patch"  BY <3>2 DEF Inv, SetInv
    <3>. QED  BY <1>1, <3>1, <3>3, <3>4, <3>5 DEF Inv, SetInv
  <2>2. CASE pc \in {"delete", "upload"} /\ release = "draft"
    BY <1>1, <2>2 DEF Inv, SetInv
  <2>. QED  BY <1>6, <2>1, <2>2
<1>. QED  BY <1>4, <1>5, <1>8, <1>9, <1>10 DEF Inv

LEMMA WorldKeeps ==
    ASSUME Inv,
           \/ MakeImmutable \/ Revoke
           \/ \E n \in AllNames, value \in {Missing, Foreign} : ForeignChange(n, value)
    PROVE  Inv'
<1>1. /\ UNCHANGED unchangedByWorld
      /\ \/ MakeImmutable \/ Revoke
         \/ \E n \in AllNames, value \in {Missing, Foreign} : ForeignChange(n, value)
  BY DEF MakeImmutable, Revoke, ForeignChange
<1>2. /\ UNCHANGED <<evidenceVars, pc, cursor, faults>> /\ UNCHANGED <<signed, security>>
      /\ UNCHANGED <<build, result>>
      /\ UNCHANGED <<artifact, mode, seen, inventory, final, polls, outcome, delivered, runs>>
  BY <1>1 DEF unchangedByWorld, evidenceVars
<1>3. EvidenceInv'  BY <1>2, StutterKeeps DEF Inv
<1>4. SignedInv'
  BY <1>2, UnsignedKeeps DEF Inv
<1>5. /\ (IsSigned(artifact)' <=> IsSigned(artifact)) /\ Artifact(artifact)' = Artifact(artifact)
  BY <1>2, SignedSame
<1>6. AttachType /\ JobInv /\ SetInv  BY DEF Inv
<1>7. CASE MakeImmutable
  <2>1. /\ release = "published" /\ release' = "immutable"
        /\ UNCHANGED <<assets, revoked, disturbed, raced, foreign>>
    BY <1>7 DEF MakeImmutable, history
  <2>2. AttachType'  BY <1>2, <1>6, <2>1 DEF AttachType
  <2>3. JobInv'
    BY <1>2, <1>5, <1>6, <2>1 DEF JobInv, AfterPublication, AfterInventory, AttachType
  <2>4. HoldsSet' <=> HoldsSet  BY <1>2, <2>1, HoldsSetSame
  <2>5. SetInv'  BY <1>2, <1>6, <2>1, <2>4 DEF SetInv
  <2>. QED  BY <1>3, <1>4, <2>2, <2>3, <2>5 DEF Inv
<1>8. CASE Revoke
  <2>1. /\ revoked' = TRUE /\ disturbed' = TRUE /\ UNCHANGED <<release, assets, raced, foreign>>
    BY <1>8 DEF Revoke
  <2>2. AttachType'  BY <1>2, <1>6, <2>1 DEF AttachType
  <2>3. JobInv'
    BY <1>2, <1>5, <1>6, <2>1 DEF JobInv, AfterPublication, AfterInventory, AttachType
  <2>4. HoldsSet' <=> HoldsSet  BY <1>2, <2>1, HoldsSetSame
  <2>5. SetInv'  BY <1>2, <1>6, <2>1, <2>4 DEF SetInv
  <2>. QED  BY <1>3, <1>4, <2>2, <2>3, <2>5 DEF Inv
<1>9. ASSUME NEW n \in AllNames, NEW value \in {Missing, Foreign}, ForeignChange(n, value)
      PROVE  Inv'
  <2>1. /\ release # "immutable" /\ foreign < MaxForeign /\ foreign' = foreign + 1
        /\ assets' = [assets EXCEPT ![n] = value] /\ disturbed' = TRUE
        /\ raced' = (raced \/ pc = "patch" \/ release = "published")
        /\ UNCHANGED <<release, revoked>>
    BY <1>9 DEF ForeignChange
  <2>2. assets' \in [AllNames -> Asset]  BY <1>6, <2>1, MissingIsAsset, PutIn DEF AttachType
  <2>3. foreign' \in 0 .. MaxForeign  BY <1>6, <2>1 DEF AttachType
  <2>4. raced' \in BOOLEAN
    <3>1. raced \in BOOLEAN  BY <1>6 DEF AttachType
    <3>. QED  BY <2>1, <3>1
  <2>5. AttachType'  BY <1>2, <1>6, <2>1, <2>2, <2>3, <2>4 DEF AttachType
  <2>6. ~final /\ pc \notin {"confirm", "deliver"}  BY <1>6, <2>1 DEF JobInv
  <2>7. JobInv'
    BY <1>2, <1>5, <1>6, <2>1, <2>6 DEF JobInv, AfterPublication, AfterInventory, AttachType
  <2>8. SetInv'  BY <1>2, <1>6, <2>1 DEF SetInv, AttachType
  <2>. QED  BY <1>3, <1>4, <2>5, <2>7, <2>8 DEF Inv
<1>. QED  BY <1>1, <1>7, <1>8, <1>9

\* The build job does not touch the release.
LEMMA BuildLeaves ==
    ASSUME Inv, pc \notin Attaching, UNCHANGED security,
           UNCHANGED <<release, assets, revoked, mode, seen, inventory, final, polls, delivered,
                       raced, foreign>>,
           artifact' \in 0 .. MaxBuilds, runs' \in 0 .. MaxRuns, disturbed' \in BOOLEAN,
           outcome' \in {"none", "running", "failed", "success"},
           pc' \in Attaching => pc' = "attach" /\ IsSigned(artifact)',
           HoldsSet => HoldsSet'
    PROVE  AttachType' /\ JobInv' /\ SetInv'
<1>1. AttachType'  BY DEF Inv, AttachType
<1>2. JobInv'
  BY DEF Inv, JobInv, AfterPublication, AfterInventory, Attaching
<1>3. SetInv'  BY DEF Inv, SetInv
<1>. QED  BY <1>1, <1>2, <1>3

LEMMA OtherPc ==
    /\ Attaching \cap Making = {} /\ "idle" \notin Attaching \cup Making
    /\ "sign" \notin Enriching /\ Making = Enriching \cup {"sign"}
BY DEF Attaching, Making, Enriching

LEMMA StartingKeeps ==
    ASSUME Inv, StartBuild \/ EnrichAgain \/ BuildKilled
    PROVE  Inv'
<1>1. /\ UNCHANGED <<signed, security>>
      /\ UNCHANGED <<release, assets, revoked, artifact, mode, seen, inventory, final, polls,
                     delivered, raced, foreign>>
      /\ pc \notin Attaching /\ pc' \notin Attaching
      /\ runs' = runs \/ (runs < MaxRuns /\ runs' = runs + 1)
      /\ disturbed' \in BOOLEAN /\ outcome' \in {"running", "failed"}
  BY DEF StartBuild, EnrichAgain, BuildKilled, evidenceVars, Attaching, Enriching
<1>2. EvidenceInv'  BY StartKeeps, AgainKeeps, KilledKeeps DEF Inv
<1>3. SignedInv'
  <2>1. \/ build' = build + 1
        \/ build' = build /\ (pc \in Making \/ result \notin {"unchanged", "enriched"})
    BY DEF StartBuild, EnrichAgain, BuildKilled, evidenceVars, Making
  <2>. QED  BY <1>1, <2>1, UnsignedKeeps DEF Inv
<1>4. runs' \in 0 .. MaxRuns /\ artifact' \in 0 .. MaxBuilds  BY <1>1 DEF Inv, AttachType
<1>5. HoldsSet' <=> HoldsSet  BY <1>1, HoldsSetSame
<1>6. AttachType' /\ JobInv' /\ SetInv'  BY <1>1, <1>4, <1>5, BuildLeaves
<1>. QED  BY <1>2, <1>3, <1>6 DEF Inv

LEMMA EnrichStepMoves ==
    ASSUME EvidenceInv, EnrichStep
    PROVE  /\ UNCHANGED <<signed, security, build>>
           /\ pc \in Enriching /\ pc' \in Enriching \cup {"sign", "idle"}
<1>. USE DEF Exit, NextOutput, Enriching
<1>1. CASE EnrichRead  BY <1>1 DEF EnrichRead
<1>2. CASE Originals  BY <1>2 DEF Originals
<1>3. CASE Stage  BY <1>3 DEF Stage
<1>4. CASE Replace  BY <1>4 DEF Replace
<1>5. CASE Sync  BY <1>5 DEF Sync
<1>6. CASE Rollback  BY <1>6 DEF Rollback
<1>7. CASE RollbackSync  BY <1>7 DEF RollbackSync
<1>8. CASE Cleanup  BY <1>8 DEF Cleanup
<1>. QED  BY <1>1, <1>2, <1>3, <1>4, <1>5, <1>6, <1>7, <1>8 DEF EnrichStep

LEMMA BuildStepKeeps ==
    ASSUME Inv, BuildStep
    PROVE  Inv'
<1>1. /\ EnrichStep \/ SignAssets("attach")
      /\ UNCHANGED <<release, assets, revoked, mode, seen, inventory, final, polls, delivered,
                     raced, runs, foreign>>
      /\ artifact' = IF pc' = "attach" THEN build ELSE artifact
      /\ disturbed' = (disturbed \/ faults' # faults)
      /\ outcome' \in {"running", "failed"}
  BY DEF BuildStep, Ended
<1>2. artifact' \in 0 .. MaxBuilds /\ runs' \in 0 .. MaxRuns /\ disturbed' \in BOOLEAN
  <2>1. artifact \in 0 .. MaxBuilds /\ build \in 0 .. MaxBuilds
    BY DEF Inv, AttachType, EvidenceInv, EvidenceType
  <2>2. runs \in 0 .. MaxRuns /\ disturbed \in BOOLEAN  BY DEF Inv, AttachType
  <2>. QED  BY <1>1, <2>1, <2>2
<1>3. CASE EnrichStep
  <2>1. /\ UNCHANGED <<signed, security, build>>
        /\ pc \in Making \ Attaching /\ pc' \notin Attaching
    BY <1>3, EnrichStepMoves, OtherPc DEF Inv
  <2>2. EvidenceInv'
    BY <1>3, ReadKeeps, OriginalsKeeps, StageKeeps, ReplaceKeeps, SyncKeeps, RollbackKeeps,
       RollbackSyncKeeps, CleanupKeeps DEF EnrichStep, Inv
  <2>3. SignedInv'  BY <2>1, UnsignedKeeps DEF Inv
  <2>4. HoldsSet' <=> HoldsSet  BY <1>1, <2>1, HoldsSetSame
  <2>5. AttachType' /\ JobInv' /\ SetInv'  BY <1>1, <1>2, <2>1, <2>4, BuildLeaves
  <2>. QED  BY <2>2, <2>3, <2>5 DEF Inv
<1>4. CASE SignAssets("attach")
  <2>1. /\ UNCHANGED <<security, build>> /\ pc = "sign" /\ pc \notin Attaching
        /\ \/ /\ SemanticsHold(dist, build, security) /\ pc' = "attach"
              /\ signed' = [signed EXCEPT ![build] = dist]
           \/ pc' = "idle" /\ signed' = signed
    BY <1>4 DEF SignAssets, Attaching
  <2>2. EvidenceInv'  BY <1>4, SignKeeps DEF Inv
  <2>3. SignedInv'  BY <1>4, SigningKeeps DEF Inv
  <2>4. HoldsSet => HoldsSet'
    <3>1. CASE signed' = signed  BY <1>1, <2>1, <3>1, HoldsSetSame
    <3>2. CASE signed' = [signed EXCEPT ![build] = dist]
      <4>. SUFFICES ASSUME NEW b \in Builds, IsSigned(b), assets = Artifact(b)
                    PROVE  HoldsSet'
        BY DEF HoldsSet
      <4>1. IsSigned(b)' /\ Artifact(b)' = Artifact(b)  BY <2>1, <3>2, SigningSame DEF Inv
      <4>. QED  BY <1>1, <4>1 DEF HoldsSet
    <3>. QED  BY <2>1, <3>1, <3>2
  <2>5. pc' \in Attaching => pc' = "attach" /\ IsSigned(artifact)'
    <3>. SUFFICES ASSUME pc' \in Attaching PROVE pc' = "attach" /\ IsSigned(artifact)'
      OBVIOUS
    <3>1. /\ SemanticsHold(dist, build, security) /\ pc' = "attach"
          /\ signed' = [signed EXCEPT ![build] = dist]
      BY <2>1, OtherPc
    <3>2. artifact' = build /\ build' = build  BY <1>1, <2>1, <3>1
    <3>3. IsSigned(build)'  BY <2>1, <3>1, SigningWhole DEF Inv
    <3>. QED  BY <3>1, <3>2, <3>3 DEF IsSigned
  <2>6. AttachType' /\ JobInv' /\ SetInv'  BY <1>1, <1>2, <2>1, <2>4, <2>5, BuildLeaves
  <2>. QED  BY <2>2, <2>3, <2>6 DEF Inv
<1>. QED  BY <1>1, <1>3, <1>4

LEMMA BuildRaisesKeeps ==
    ASSUME Inv, BuildRaises
    PROVE  Inv'
<1>1. /\ UNCHANGED <<release, assets, revoked, artifact, mode, seen, inventory, final, polls,
                     delivered, raced, runs, foreign>>
      /\ UNCHANGED <<signed, security, build>>
      /\ pc \in Making \ Attaching /\ pc' \notin Attaching
      /\ disturbed' = TRUE /\ outcome' \in {"running", "failed"}
  BY DEF BuildRaises, EnrichRaises, Exit, Ended, evidenceVars, Making, Enriching, Attaching
<1>2. EvidenceInv'
  <2>1. CASE EnrichRaises  BY <2>1, RaiseKeeps DEF Inv
  <2>2. CASE /\ pc = "sign" /\ faults < MaxFaults /\ faults' = faults + 1
             /\ pc' = "idle" /\ UNCHANGED <<evidenceVars, cursor>>
    <3>1. faults' \in 0 .. MaxFaults /\ cursor' \in 1 .. Len(Names)
      BY <2>2 DEF Inv, EvidenceInv, EvidenceType
    <3>2. pc \notin Enriching  BY <2>2, OtherPc
    <3>. QED  BY <2>2, <3>1, <3>2, QuietKeeps DEF Inv
  <2>. QED  BY <2>1, <2>2 DEF BuildRaises
<1>3. SignedInv'  BY <1>1, UnsignedKeeps DEF Inv
<1>4. HoldsSet' <=> HoldsSet  BY <1>1, HoldsSetSame
<1>5. artifact' \in 0 .. MaxBuilds /\ runs' \in 0 .. MaxRuns  BY <1>1 DEF Inv, AttachType
<1>6. AttachType' /\ JobInv' /\ SetInv'  BY <1>1, <1>4, <1>5, BuildLeaves
<1>. QED  BY <1>2, <1>3, <1>6 DEF Inv

LEMMA AttachAgainKeeps ==
    ASSUME Inv, NEW b \in Builds, AttachAgain(b)
    PROVE  Inv'
<1>1. /\ UNCHANGED <<evidenceVars, faults, release, assets, revoked, mode, seen, inventory,
                     final, polls, delivered, raced, foreign>>
      /\ UNCHANGED <<signed, security, build, result>>
      /\ pc = "idle" /\ pc' = "attach" /\ IsSigned(b) /\ artifact' = b /\ cursor' = 1
      /\ runs < MaxRuns /\ runs' = runs + 1 /\ disturbed' = FALSE /\ outcome' = "running"
  BY DEF AttachAgain, evidenceVars
<1>2. /\ pc \notin Attaching \cup Enriching /\ pc' \in Attaching /\ pc' \notin Making
  BY <1>1, OtherPc DEF Attaching
<1>3. faults' \in 0 .. MaxFaults /\ cursor' \in 1 .. Len(Names)
  BY <1>1, InstallCursor DEF Inv, EvidenceInv, EvidenceType
<1>4. EvidenceInv'  BY <1>1, <1>2, <1>3, QuietKeeps DEF Inv
<1>5. SignedInv'  BY <1>1, <1>2, UnsignedKeeps DEF Inv
<1>6. HoldsSet' <=> HoldsSet  BY <1>1, HoldsSetSame
<1>7. artifact' \in 0 .. MaxBuilds /\ runs' \in 0 .. MaxRuns
  BY <1>1 DEF Inv, AttachType, Builds
<1>8. IsSigned(artifact)'
  <2>1. IsSigned(b)'  BY <1>1, SignedSame
  <2>. QED  BY <1>1, <2>1 DEF IsSigned
<1>9. AttachType' /\ JobInv' /\ SetInv'  BY <1>1, <1>2, <1>6, <1>7, <1>8, BuildLeaves
<1>. QED  BY <1>4, <1>5, <1>9 DEF Inv

LEMMA StutterKeepsInv ==
    ASSUME Inv, UNCHANGED vars
    PROVE  Inv'
<1>1. UNCHANGED <<evidenceVars, pc, cursor, faults>> /\ UNCHANGED releaseVars
      /\ UNCHANGED <<disturbed, raced, runs, foreign>> /\ UNCHANGED <<signed, security, build, result>>
      /\ UNCHANGED <<release, assets, revoked, artifact, mode, seen, inventory, final, polls,
                     outcome, delivered>>
  BY DEF vars, evidenceVars, releaseVars, history
<1>2. EvidenceInv'  BY <1>1, StutterKeeps DEF Inv
<1>3. SignedInv'  BY <1>1, UnsignedKeeps DEF Inv
<1>4. HoldsSet' <=> HoldsSet  BY <1>1, HoldsSetSame
<1>5. (IsSigned(artifact)' <=> IsSigned(artifact)) /\ Artifact(artifact)' = Artifact(artifact)
  BY <1>1, SignedSame
<1>6. AttachType'  BY <1>1 DEF Inv, AttachType
<1>7. JobInv'  BY <1>1, <1>5 DEF Inv, JobInv
<1>8. SetInv'  BY <1>1, <1>4 DEF Inv, SetInv
<1>. QED  BY <1>2, <1>3, <1>6, <1>7, <1>8 DEF Inv

LEMMA InvStarts ==
    ASSUME Init
    PROVE  Inv
<1>1. EvidenceInv  BY EvidenceStarts
<1>2. ASSUME NEW b PROVE ~IsSigned(b)
  <2>1. "images" \in Files  BY DEF Files, Base
  <2>. QED  BY <2>1 DEF IsSigned, Init, EvidenceInit
<1>3. SignedInv  BY <1>2 DEF SignedInv
<1>4. AttachType
  <2>1. [n \in AllNames |-> Missing] \in [AllNames -> Asset]  BY MissingIsAsset
  <2>2. assets \in [AllNames -> Asset] /\ seen \in [AllNames -> Asset]
        /\ inventory \in [AllNames -> Asset]
    BY <2>1 DEF Init
  <2>3. 0 \in 0 .. MaxBuilds /\ 1 \in 1 .. MaxPolls /\ 0 \in 0 .. MaxRuns /\ 0 \in 0 .. MaxForeign
    OBVIOUS
  <2>4. /\ artifact \in 0 .. MaxBuilds /\ polls \in 1 .. MaxPolls /\ runs \in 0 .. MaxRuns
        /\ foreign \in 0 .. MaxForeign
    BY <2>3 DEF Init
  <2>5. /\ revoked \in BOOLEAN /\ final \in BOOLEAN /\ delivered \in BOOLEAN
        /\ disturbed \in BOOLEAN /\ raced \in BOOLEAN
    BY DEF Init
  <2>6. /\ release \in {"draft", "published", "immutable"} /\ mode \in {"draft", "published"}
        /\ outcome \in {"none", "running", "failed", "success"}
    BY DEF Init
  <2>. QED  BY <2>2, <2>4, <2>5, <2>6 DEF AttachType
<1>5. JobInv
  BY DEF Init, EvidenceInit, JobInv, AfterPublication, AfterInventory, Attaching
<1>6. SetInv  BY DEF Init, SetInv
<1>. QED  BY <1>1, <1>3, <1>4, <1>5, <1>6 DEF Inv

LEMMA NextKeeps ==
    ASSUME Inv, [Next]_vars
    PROVE  Inv'
BY StartingKeeps, BuildStepKeeps, BuildRaisesKeeps, AttachAgainKeeps, AttachStepKeeps,
   DeliverKeeps, FailingKeeps, WorldKeeps, StutterKeepsInv DEF Next

LEMMA Invariance == Spec => []Inv
<1>1. Init => Inv  BY InvStarts
<1>2. Inv /\ [Next]_vars => Inv'  BY NextKeeps
<1>. QED  BY <1>1, <1>2, PTL DEF Spec

-----------------------------------------------------------------------------
(* Runs that nothing disturbs. *)

OthersMissing(set) == \A n \in AllNames \ Expected : set[n] = Missing

\* Where the run in progress is tells what the release holds.
RunInv ==
    /\ pc # "rollback"
    /\ pc = "cleanup" => result = "enriched"
    /\ pc = "probe" =>
         /\ seen = assets /\ Acceptable(seen)
         /\ mode = "published" => Complete(seen)
    /\ pc \in {"delete", "upload"} =>
         /\ OthersMissing(assets)
         /\ \A i \in 1 .. Len(Names) : i >= cursor => assets[Names[i]] = seen[Names[i]]
    /\ pc = "delete" => \A i \in 1 .. Len(Names) : i < cursor => assets[Names[i]] = Missing
    /\ pc = "emptied" => \A n \in AllNames : assets[n] = Missing
    /\ pc = "upload" =>
         /\ \A i \in 1 .. Len(Names) : i < cursor => assets[Names[i]] = Wanted(Names[i])
         /\ \A n \in Expected : seen[n] \in {Missing, Wanted(n)}
         /\ mode = "published" => Complete(seen)
    /\ pc = "final" => assets = Artifact(artifact)
    /\ pc \in {"check", "state", "recheck", "patch", "poll", "compare", "confirm"} =>
         assets = inventory

UndisturbedInv ==
    /\ \A n \in AllNames : assets[n] \in Contents => n \in Expected
    /\ pc \in {"sign", "attach", "list", "probe", "emptied"} => cursor = 1
    /\ ~disturbed => RunInv

Excused == outcome = "running" /\ outcome' = "failed" /\ ~disturbed' => Hindered

LEMMA SameArtifact ==
    ASSUME UNCHANGED <<signed, security, artifact>>
    PROVE  /\ Names' = Names /\ Expected' = Expected
           /\ \A n : Wanted(n)' = Wanted(n)
           /\ Artifact(artifact)' = Artifact(artifact)
<1>1. Names' = Names  BY DEF Names
<1>. QED  BY <1>1, SignedSame DEF Wanted

\* The facts about the names that the loops need.
LEMMA Loops ==
    ASSUME Inv
    PROVE  /\ Len(Names) \in Nat /\ Len(Names) >= 3 /\ cursor \in 1 .. Len(Names)
           /\ \A i \in 1 .. Len(Names) : Names[i] \in Expected /\ Names[i] \in AllNames
           /\ \A n \in Expected : \E i \in 1 .. Len(Names) : n = Names[i]
           /\ Expected \subseteq AllNames
           /\ assets \in [AllNames -> Asset] /\ seen \in [AllNames -> Asset]
BY NamesFacts DEF Inv, EvidenceInv, EvidenceType, AttachType

\* In a listing that was accepted, nothing but expected files.
LEMMA AcceptedOthers ==
    ASSUME NEW set, Acceptable(set)
    PROVE  OthersMissing(set)
BY DEF Acceptable, OthersMissing

LEMMA ReadModeRuns ==
    ASSUME Inv, UndisturbedInv, ReadMode
    PROVE  UndisturbedInv' /\ Excused
<1>1. /\ UNCHANGED <<signed, security, artifact, disturbed, assets, cursor>>
      /\ pc = "attach" /\ pc' \in {"list", "idle"}
      /\ outcome' = outcome \/ release = "published"
  BY DEF ReadMode, Continue, Refuse, unchangedByAttach, evidenceVars
<1>2. Expected' = Expected  BY <1>1, SameArtifact
<1>3. RunInv'  BY <1>1 DEF RunInv
<1>. QED  BY <1>1, <1>2, <1>3 DEF UndisturbedInv, Excused, Hindered

LEMMA ListRuns ==
    ASSUME Inv, UndisturbedInv, ListAssets
    PROVE  UndisturbedInv' /\ Excused
<1>1. /\ UNCHANGED <<signed, security, artifact, disturbed, assets, mode, cursor>>
      /\ pc = "list" /\ seen' = assets
      /\ \/ /\ Acceptable(assets) /\ (mode = "published" => Complete(assets))
            /\ pc' = "probe" /\ outcome' = outcome
         \/ /\ ~Acceptable(assets) \/ (mode = "published" /\ ~Complete(assets))
            /\ pc' = "idle"
  BY DEF ListAssets, Continue, Refuse, unchangedByAttach, evidenceVars
<1>2. Expected' = Expected  BY <1>1, SameArtifact
<1>3. RunInv'  BY <1>1, <1>2 DEF RunInv, Acceptable, Complete
<1>4. ~Acceptable(assets) => Hindered
  <2>. SUFFICES ASSUME NEW n \in AllNames, assets[n] # Missing,
                       n \notin Expected \/ assets[n] \in {Starter, Foreign}
                PROVE  Hindered
    BY DEF Acceptable
  <2>1. assets[n] \in Contents \cup {Missing, Starter, Foreign}
    BY Loops DEF Asset, File
  <2>2. assets[n] \in {Starter, Foreign}  BY <2>1 DEF UndisturbedInv
  <2>. QED  BY <2>2 DEF Hindered
<1>5. mode = "published" /\ ~Complete(assets) => Hindered
  <2>. SUFFICES ASSUME mode = "published", NEW n \in Expected, assets[n] = Missing
                PROVE  Hindered
    BY DEF Complete
  <2>1. release = "immutable" /\ IsSigned(artifact)
    BY <1>1 DEF Inv, JobInv, Attaching, AfterPublication
  <2>2. artifact \in Builds /\ Whole(artifact)  BY <2>1 DEF IsSigned, Inv, SignedInv
  <2>3. Artifact(artifact)[n] # Missing  BY <2>2, ArtifactTypes DEF Inv, EvidenceInv
  <2>. QED  BY <2>1, <2>3 DEF Hindered
<1>. QED  BY <1>1, <1>2, <1>3, <1>4, <1>5 DEF UndisturbedInv, Excused

LEMMA ProbeRuns ==
    ASSUME Inv, UndisturbedInv, Probe
    PROVE  UndisturbedInv' /\ Excused
<1> DEFINE differs == \E n \in Expected : seen[n] \notin {Missing, Wanted(n)}
           gone == \E n \in Expected : seen[n] = Wanted(n) /\ assets[n] # seen[n]
<1>1. /\ UNCHANGED <<signed, security, artifact, disturbed, assets, seen, mode, cursor>>
      /\ pc = "probe"
      /\ \/ differs /\ mode = "draft" /\ pc' = "delete" /\ outcome' = outcome
         \/ differs /\ mode = "published" /\ pc' = "idle"
         \/ ~differs /\ ~gone /\ pc' = "upload" /\ outcome' = outcome
         \/ gone /\ pc' = "idle"
  BY DEF Probe, Continue, Refuse, unchangedByAttach, evidenceVars
<1>2. Names' = Names /\ Expected' = Expected /\ \A n : Wanted(n)' = Wanted(n)
  BY <1>1, SameArtifact
<1>3. cursor = 1  BY <1>1 DEF UndisturbedInv
<1>4. ~disturbed => /\ seen = assets /\ OthersMissing(assets)
                    /\ mode = "published" => Complete(seen)
  BY <1>1, AcceptedOthers DEF UndisturbedInv, RunInv
<1>5. ~disturbed' => RunInv'
  <2>. SUFFICES ASSUME ~disturbed PROVE RunInv'  BY <1>1
  <2>1. OthersMissing(assets)'  BY <1>1, <1>2, <1>4 DEF OthersMissing
  <2>2. \A i \in 1 .. Len(Names) : ~(i < 1)  OBVIOUS
  <2>3. ~differs => \A n \in Expected : seen'[n] \in {Missing, Wanted(n)'}
    BY <1>1, <1>2
  <2>4. Complete(seen)' <=> Complete(seen)  BY <1>1, <1>2 DEF Complete
  <2>. HIDE DEF differs, gone
  <2>. QED  BY <1>1, <1>2, <1>3, <1>4, <2>1, <2>2, <2>3, <2>4 DEF RunInv
<1>6. Excused
  <2>. SUFFICES ASSUME ~disturbed, outcome' # outcome PROVE Hindered
    BY <1>1 DEF Excused
  <2>1. ~gone  BY <1>4
  <2>2. differs /\ mode = "published"  BY <1>1, <2>1
  <2>3. release = "immutable"  BY <1>1, <2>2 DEF Inv, JobInv, Attaching, AfterPublication
  <2>4. assets # Artifact(artifact)  BY <1>4, <2>2 DEF Wanted
  <2>. QED  BY <2>3, <2>4 DEF Hindered
<1>. QED  BY <1>1, <1>2, <1>3, <1>5, <1>6 DEF UndisturbedInv

LEMMA DeleteRuns ==
    ASSUME Inv, UndisturbedInv, Delete
    PROVE  UndisturbedInv' /\ Excused
<1> DEFINE L == Len(Names)
<1>1. /\ UNCHANGED <<signed, security, artifact, disturbed, seen, mode>> /\ pc = "delete"
      /\ \/ /\ \/ seen[Name] = Missing /\ assets' = assets
               \/ /\ seen[Name] # Missing /\ assets[Name] = seen[Name]
                  /\ assets' = [assets EXCEPT ![Name] = Missing]
            /\ outcome' = outcome
            /\ \/ cursor < L /\ cursor' = cursor + 1 /\ pc' = "delete"
               \/ cursor = L /\ cursor' = 1 /\ pc' = "emptied"
         \/ /\ seen[Name] # Missing /\ assets[Name] # seen[Name]
            /\ assets' = assets /\ pc' = "idle"
  BY DEF Delete, NextAsset, Refuse, unchangedByAttach, evidenceVars
<1>2. Names' = Names /\ Expected' = Expected  BY <1>1, SameArtifact
<1>3. /\ L \in Nat /\ L >= 3 /\ cursor \in 1 .. L
      /\ \A i \in 1 .. L : Names[i] \in Expected /\ Names[i] \in AllNames
      /\ \A n \in Expected : \E i \in 1 .. L : n = Names[i]
      /\ Expected \subseteq AllNames
      /\ assets \in [AllNames -> Asset] /\ seen \in [AllNames -> Asset]
  BY Loops
<1>4. Name = Names[cursor] /\ Name \in AllNames /\ Name \in Expected  BY <1>3 DEF Name
<1>5. ~disturbed =>
        /\ OthersMissing(assets)
        /\ \A i \in 1 .. L : i >= cursor => assets[Names[i]] = seen[Names[i]]
        /\ \A i \in 1 .. L : i < cursor => assets[Names[i]] = Missing
  BY <1>1 DEF UndisturbedInv, RunInv
<1>6. Excused
  <2>1. ~disturbed => assets[Name] = seen[Name]
    <3>1. cursor >= cursor  BY <1>3
    <3>. QED  BY <1>3, <1>4, <1>5, <3>1
  <2>. QED  BY <1>1, <2>1 DEF Excused
<1>7. \A n \in AllNames : assets'[n] \in {assets[n], Missing}
  BY <1>1, <1>3, <1>4
<1>8. \A n \in AllNames : assets'[n] \in Contents => n \in Expected'
  BY <1>2, <1>7 DEF UndisturbedInv
<1>9. ASSUME ~disturbed, pc' # "idle"
      PROVE  RunInv'
  <2>1. OthersMissing(assets)'  BY <1>2, <1>5, <1>7, <1>9 DEF OthersMissing
  <2>2. ASSUME NEW i \in 1 .. L
        PROVE  assets'[Names[i]] = IF i <= cursor THEN Missing ELSE assets[Names[i]]
    <3>1. Names[i] \in AllNames  BY <1>3
    <3>2. CASE i = cursor
      <4>1. assets[Name] = seen[Name]  BY <1>3, <1>4, <1>5, <1>9
      <4>2. assets'[Name] = Missing  BY <1>1, <1>3, <1>4, <1>9, <4>1
      <4>. QED  BY <1>3, <1>4, <3>2, <4>2
    <3>3. CASE i # cursor
      <4>1. Names[i] # Name
        <5>1. security \in BOOLEAN  BY DEF Inv, EvidenceInv, EvidenceType
        <5>. QED  BY <1>3, <1>4, <3>3, <5>1, NamesDiffer
      <4>2. assets'[Names[i]] = assets[Names[i]]  BY <1>1, <1>3, <3>1, <4>1
      <4>3. i < cursor => assets[Names[i]] = Missing  BY <1>5, <1>9
      <4>. QED  BY <1>3, <3>3, <4>2, <4>3
    <3>. QED  BY <3>2, <3>3
  <2>3. CASE pc' = "delete"
    <3>1. cursor' = cursor + 1  BY <1>1, <2>3
    <3>2. \A i \in 1 .. L : i < cursor' => assets'[Names[i]] = Missing
      BY <1>3, <2>2, <3>1
    <3>3. \A i \in 1 .. L : i >= cursor' => assets'[Names[i]] = seen[Names[i]]
      BY <1>3, <1>5, <1>9, <2>2, <3>1
    <3>. QED  BY <1>1, <1>2, <2>1, <2>3, <3>2, <3>3 DEF RunInv
  <2>4. CASE pc' = "emptied"
    <3>1. cursor = L  BY <1>1, <2>4
    <3>2. \A n \in Expected : assets'[n] = Missing  BY <1>3, <2>2, <3>1
    <3>3. \A n \in AllNames : assets'[n] = Missing
      BY <2>1, <3>2, <1>2 DEF OthersMissing
    <3>. QED  BY <2>4, <3>3 DEF RunInv
  <2>. QED  BY <1>1, <1>9, <2>3, <2>4
<1>10. pc' = "idle" => RunInv'  BY DEF RunInv
<1>11. pc' \in {"sign", "attach", "list", "probe", "emptied"} => cursor' = 1  BY <1>1
<1>. QED  BY <1>1, <1>6, <1>8, <1>9, <1>10, <1>11 DEF UndisturbedInv

LEMMA EmptiedRuns ==
    ASSUME Inv, UndisturbedInv, Emptied
    PROVE  UndisturbedInv' /\ Excused
<1>1. /\ UNCHANGED <<signed, security, artifact, disturbed, assets, mode, cursor>>
      /\ pc = "emptied" /\ seen' = assets
      /\ \/ /\ \A n \in AllNames : assets[n] = Missing
            /\ pc' = "upload" /\ outcome' = outcome
         \/ ~(\A n \in AllNames : assets[n] = Missing) /\ pc' = "idle"
  BY DEF Emptied, Continue, Refuse, unchangedByAttach, evidenceVars
<1>2. Names' = Names /\ Expected' = Expected  BY <1>1, SameArtifact
<1>3. cursor = 1 /\ mode = "draft"  BY <1>1 DEF UndisturbedInv, Inv, JobInv
<1>4. Expected \subseteq AllNames /\ \A i \in 1 .. Len(Names) : Names[i] \in AllNames
  BY Loops
<1>5. RunInv'
  <2>1. CASE pc' = "upload"
    <3>1. \A n \in AllNames : assets'[n] = Missing /\ seen'[n] = Missing  BY <1>1, <2>1
    <3>2. OthersMissing(assets)'  BY <3>1, <1>2 DEF OthersMissing
    <3>3. \A i \in 1 .. Len(Names) : ~(i < 1)  OBVIOUS
    <3>. QED  BY <1>1, <1>2, <1>3, <1>4, <2>1, <3>1, <3>2, <3>3 DEF RunInv
  <2>2. CASE pc' = "idle"  BY <2>2 DEF RunInv
  <2>. QED  BY <1>1, <2>1, <2>2
<1>6. Excused  BY <1>1 DEF UndisturbedInv, RunInv, Excused
<1>. QED  BY <1>1, <1>2, <1>5, <1>6 DEF UndisturbedInv

LEMMA UploadRuns ==
    ASSUME Inv, UndisturbedInv, Upload
    PROVE  UndisturbedInv' /\ Excused
<1> DEFINE L == Len(Names)
<1>1. /\ UNCHANGED <<signed, security, artifact, disturbed, seen, mode>> /\ pc = "upload"
      /\ \/ /\ \/ /\ seen[Name] = Wanted(Name) /\ assets[Name] = seen[Name] /\ assets' = assets
               \/ /\ seen[Name] = Missing /\ assets[Name] = Missing /\ mode = "draft"
                  /\ assets' = [assets EXCEPT ![Name] = Wanted(Name)]
            /\ outcome' = outcome
            /\ \/ cursor < L /\ cursor' = cursor + 1 /\ pc' = "upload"
               \/ cursor = L /\ cursor' = 1 /\ pc' = "final"
         \/ /\ IF seen[Name] = Missing THEN mode # "draft" \/ assets[Name] # Missing
               ELSE seen[Name] # Wanted(Name) \/ assets[Name] # seen[Name]
            /\ assets' = assets /\ pc' = "idle"
  BY DEF Upload, NextAsset, Refuse, unchangedByAttach, evidenceVars
<1>2. /\ Names' = Names /\ Expected' = Expected /\ \A n : Wanted(n)' = Wanted(n)
      /\ Artifact(artifact)' = Artifact(artifact)
  BY <1>1, SameArtifact
<1>3. /\ L \in Nat /\ L >= 3 /\ cursor \in 1 .. L
      /\ \A i \in 1 .. L : Names[i] \in Expected /\ Names[i] \in AllNames
      /\ \A n \in Expected : \E i \in 1 .. L : n = Names[i]
      /\ Expected \subseteq AllNames
      /\ assets \in [AllNames -> Asset] /\ seen \in [AllNames -> Asset]
  BY Loops
<1>4. Name = Names[cursor] /\ Name \in AllNames /\ Name \in Expected  BY <1>3 DEF Name
<1>5. ~disturbed =>
        /\ OthersMissing(assets)
        /\ \A i \in 1 .. L : i >= cursor => assets[Names[i]] = seen[Names[i]]
        /\ \A i \in 1 .. L : i < cursor => assets[Names[i]] = Wanted(Names[i])
        /\ \A n \in Expected : seen[n] \in {Missing, Wanted(n)}
        /\ mode = "published" => Complete(seen)
  BY <1>1 DEF UndisturbedInv, RunInv
<1>. HIDE DEF L, Name, Wanted
<1>6. Excused
  <2>. SUFFICES ASSUME ~disturbed, outcome' # outcome PROVE FALSE  BY <1>1 DEF Excused
  <2>1. cursor >= cursor  BY <1>3
  <2>2. assets[Name] = seen[Name]  BY <1>3, <1>4, <1>5, <2>1
  <2>3. seen[Name] \in {Missing, Wanted(Name)}  BY <1>4, <1>5
  <2>4. mode = "published" => seen[Name] # Missing  BY <1>4, <1>5 DEF Complete
  <2>5. mode \in {"draft", "published"}  BY DEF Inv, AttachType
  <2>. QED  BY <1>1, <2>2, <2>3, <2>4, <2>5
<1>7. \A n \in AllNames : n # Name => assets'[n] = assets[n]
  BY <1>1, <1>3, <1>4
<1>8. \A n \in AllNames : assets'[n] \in Contents => n \in Expected'
  BY <1>2, <1>4, <1>7 DEF UndisturbedInv
<1>9. ASSUME ~disturbed, pc' # "idle"
      PROVE  RunInv'
  <2>1. OthersMissing(assets)'  BY <1>2, <1>4, <1>5, <1>7, <1>9 DEF OthersMissing
  <2>2. assets'[Name] = Wanted(Name)  BY <1>1, <1>3, <1>4, <1>9
  <2>3. ASSUME NEW i \in 1 .. L, i # cursor
        PROVE  assets'[Names[i]] = assets[Names[i]]
    <3>1. security \in BOOLEAN  BY DEF Inv, EvidenceInv, EvidenceType
    <3>2. Names[i] # Name  BY <1>3, <1>4, <2>3, <3>1, NamesDiffer DEF L
    <3>. QED  BY <1>3, <1>7, <3>2
  <2>4. \A i \in 1 .. L : i <= cursor => assets'[Names[i]] = Wanted(Names[i])
    <3>. SUFFICES ASSUME NEW i \in 1 .. L, i <= cursor
                  PROVE  assets'[Names[i]] = Wanted(Names[i])
      OBVIOUS
    <3>1. CASE i = cursor  BY <1>4, <2>2, <3>1
    <3>2. CASE i # cursor
      <4>1. i < cursor  BY <1>3, <3>2
      <4>. QED  BY <1>5, <1>9, <2>3, <3>2, <4>1
    <3>. QED  BY <3>1, <3>2
  <2>5. CASE pc' = "upload"
    <3>1. cursor' = cursor + 1  BY <1>1, <2>5
    <3>2. \A i \in 1 .. L : i < cursor' => assets'[Names[i]] = Wanted(Names[i])
      BY <1>3, <2>4, <3>1
    <3>3. ASSUME NEW i \in 1 .. L, i >= cursor'
          PROVE  assets'[Names[i]] = seen[Names[i]]
      <4>1. i >= cursor /\ i # cursor  BY <1>3, <3>1, <3>3
      <4>. QED  BY <1>5, <1>9, <2>3, <4>1
    <3>4. Complete(seen)' <=> Complete(seen)  BY <1>1, <1>2 DEF Complete
    <3>. QED  BY <1>1, <1>2, <1>5, <1>9, <2>1, <2>5, <3>2, <3>3, <3>4 DEF RunInv, L
  <2>6. CASE pc' = "final"
    <3>1. cursor = L  BY <1>1, <2>6
    <3>2. \A n \in Expected : assets'[n] = Wanted(n)
      <4>. SUFFICES ASSUME NEW i \in 1 .. L PROVE assets'[Names[i]] = Wanted(Names[i])
        BY <1>3
      <4>. QED  BY <1>3, <2>4, <3>1
    <3>3. \A n \in AllNames \ Expected : assets'[n] = Missing
      BY <1>2, <2>1 DEF OthersMissing
    <3>4. /\ Artifact(artifact) \in [AllNames -> Asset]
          /\ \A n \in AllNames \ Expected : Artifact(artifact)[n] = Missing
      <4>1. pc \in Attaching  BY <1>1 DEF Attaching
      <4>2. artifact \in Builds /\ Whole(artifact)  BY <1>4, <4>1, WantedIsAsset
      <4>. QED  BY <4>2, ArtifactTypes DEF Inv, EvidenceInv
    <3>5. assets' \in [AllNames -> Asset]  BY WritingKeeps DEF AttachType
    <3>6. \A n \in AllNames : assets'[n] = Artifact(artifact)[n]
      BY <3>2, <3>3, <3>4 DEF Wanted
    <3>7. assets' = Artifact(artifact)  BY <3>4, <3>5, <3>6
    <3>. QED  BY <1>2, <2>6, <3>7 DEF RunInv
  <2>. QED  BY <1>1, <1>9, <2>5, <2>6
<1>10. pc' = "idle" => RunInv'  BY DEF RunInv
<1>11. pc' \notin {"sign", "attach", "list", "probe", "emptied"}  BY <1>1
<1>. QED  BY <1>1, <1>6, <1>8, <1>9, <1>10, <1>11 DEF UndisturbedInv

\* After the listing of the complete release nothing but the listing is compared.
LEMMA ListedRuns ==
    ASSUME Inv, UndisturbedInv,
           FinalListing \/ Check \/ State \/ Recheck \/ Patch \/ Poll \/ Compare \/ Confirm
    PROVE  UndisturbedInv' /\ Excused
<1>0. AttachStep  BY DEF AttachStep
<1>1. UNCHANGED <<signed, security, artifact, disturbed>> /\ pc \in Attaching
  BY <1>0, AttachMoves
<1>2. Names' = Names /\ Expected' = Expected /\ Artifact(artifact)' = Artifact(artifact)
  BY <1>1, SameArtifact
<1>3. /\ assets' = assets
      /\ pc' \in {"idle", "check", "state", "recheck", "patch", "poll", "compare", "confirm",
                  "deliver"}
      /\ pc = "final" /\ pc' # "idle" => inventory' = assets
      /\ pc # "final" => inventory' = inventory
      /\ pc \in {"final", "check", "state", "recheck", "patch", "poll", "compare", "confirm"}
  BY DEF FinalListing, Check, State, Recheck, Patch, Poll, Compare, Confirm, Continue, Refuse,
         publishing
<1>4. ~disturbed =>
        /\ pc = "final" => assets = Artifact(artifact)
        /\ pc # "final" => assets = inventory
  BY <1>3 DEF UndisturbedInv, RunInv
<1>5. ~disturbed => RunInv'
  <2>. SUFFICES ASSUME ~disturbed PROVE RunInv'  OBVIOUS
  <2>1. pc' # "idle" => assets' = inventory'  BY <1>3, <1>4
  <2>. QED  BY <1>3, <2>1 DEF RunInv
<1>6. Excused
  <2>. SUFFICES ASSUME ~disturbed, outcome' # outcome PROVE Hindered
    BY <1>1 DEF Excused
  <2>0. pc # "final" => assets = inventory  BY <1>4
  <2>1. CASE FinalListing  BY <1>4, <2>1 DEF FinalListing, Continue
  <2>2. CASE Check
    <3>1. pc = "check" /\ revoked  BY <2>0, <2>2 DEF Check, Continue
    <3>. QED  BY <3>1 DEF Hindered
  <2>3. CASE State
    <3>1. pc = "state" /\ mode # "published" /\ release # "draft"  BY <2>3 DEF State, Continue
    <3>. QED  BY <3>1 DEF Inv, JobInv, AttachType, Attaching, AfterPublication
  <2>4. CASE Recheck  BY <2>0, <2>4 DEF Recheck, StillListed, Continue
  <2>5. CASE Patch  BY <2>5 DEF Patch, Continue
  <2>6. CASE Poll  BY <2>6 DEF Poll, Continue
  <2>7. CASE Compare
    <3>1. pc = "compare" /\ ~final  BY <2>0, <2>7 DEF Compare, CandidateFits, Continue
    <3>. QED  BY <3>1 DEF Hindered
  <2>8. CASE Confirm  BY <2>0, <2>8 DEF Confirm, Continue
  <2>. QED  BY <2>1, <2>2, <2>3, <2>4, <2>5, <2>6, <2>7, <2>8
<1>7. pc' \notin {"sign", "attach", "list", "probe", "emptied"}  BY <1>3
<1>. QED  BY <1>1, <1>2, <1>3, <1>5, <1>6, <1>7 DEF UndisturbedInv

LEMMA AttachStepRuns ==
    ASSUME Inv, UndisturbedInv, AttachStep
    PROVE  UndisturbedInv' /\ Excused
BY ReadModeRuns, ListRuns, ProbeRuns, DeleteRuns, EmptiedRuns, UploadRuns, ListedRuns
   DEF AttachStep

\* The files that a build job signs were always checked with success.
LEMMA ChecksHold ==
    ASSUME EvidenceInv, pc \in {"read", "sign"}
    PROVE  /\ security /\ pc = "read" => Enrichable(dist)
           /\ pc = "sign" => SemanticsHold(dist, build, security)
<1>1. build \in Builds /\ build # 0 /\ security \in BOOLEAN
  BY DEF EvidenceInv, EvidenceType, FilesInv, Making, Enriching, Builds
<1>2. Produced(dist)  BY <1>1 DEF EvidenceInv, FilesInv
<1>3. /\ \A f \in Files \ {"container", "installed"} :
           Generated(build)[f] = [build |-> build, mark |-> 0]
      /\ Generated(build)["installed"] = [build |-> 0, mark |-> 0]
      /\ Generated(build)["container"] = Missing
  BY <1>1, Generates
<1>4. {"images", "assurance", "provenance", "evidence", "markdown"} \subseteq
        Files \ {"container", "installed"}
  BY DEF Files, Base
<1>5. {"images", "assurance", "provenance", "installed"} \cap OutputSet = {}  BY DEF OutputSet
<1>6. /\ dist["images"] = [build |-> build, mark |-> 0]
      /\ dist["assurance"] = [build |-> build, mark |-> 0]
      /\ dist["provenance"] = [build |-> build, mark |-> 0]
      /\ dist["installed"] = [build |-> 0, mark |-> 0]
  <2>1. "installed" \in Files  BY DEF Files, Base
  <2>. QED  BY <1>2, <1>3, <1>4, <1>5, <2>1 DEF Produced
<1>7. dist["markdown"].mark \in {0, 1}
  <2>1. dist["markdown"] \in {[build |-> build, mark |-> 0], [build |-> build, mark |-> 1]}
    BY <1>2, <1>3, <1>4 DEF Produced
  <2>. QED  BY <2>1
<1>8. /\ dist["images"].build = build /\ dist["assurance"].build = build
      /\ dist["provenance"].build = build /\ dist["installed"].build = 0
  BY <1>6
<1>9. Enrichable(dist)
  BY <1>7, <1>8 DEF Enrichable, AssuranceFits, InstalledFits
<1>10. ASSUME pc = "sign" PROVE SemanticsHold(dist, build, security)
  <2>1. /\ result = "enriched" <=> security
        /\ result = "enriched" => New(dist)
    BY <1>10 DEF EvidenceInv, ResultInv, Enriching
  <2>2. CASE security
    <3>1. \A f \in OutputSet : dist[f] = [build |-> build, mark |-> 1]
      BY <2>1, <2>2, OutputsFacts DEF New
    <3>2. /\ dist["evidence"] = [build |-> build, mark |-> 1]
          /\ dist["markdown"].mark = 1
          /\ dist["container"] = [build |-> build, mark |-> 1]
      BY <3>1 DEF OutputSet
    <3>. QED  BY <1>8, <2>2, <3>2 DEF SemanticsHold, ImagesFit, InstalledFits, AssuranceFits,
                  ProvenanceFits, EvidenceFits, MarkdownFits, ContainerFits
  <2>3. CASE ~security
    <3>1. \A f \in Files : dist[f] = Generated(build)[f]  BY <1>2, <2>3 DEF Produced
    <3>2. dist["container"] = Missing  BY <1>3, <3>1 DEF Files
    <3>3. dist["evidence"] = [build |-> build, mark |-> 0]  BY <1>3, <1>4, <3>1
    <3>4. dist["markdown"] = [build |-> build, mark |-> 0]  BY <1>3, <1>4, <3>1
    <3>5. dist["markdown"].mark = 0  BY <3>4
    <3>. QED  BY <1>8, <2>3, <3>2, <3>3, <3>5 DEF SemanticsHold, ImagesFit, InstalledFits,
                  AssuranceFits, ProvenanceFits, EvidenceFits, MarkdownFits, ContainerFits
  <2>. QED  BY <1>1, <2>2, <2>3
<1>. QED  BY <1>9, <1>10

\* How the enrichment goes on, and how it ends.
LEMMA EnrichmentEnds ==
    ASSUME EvidenceInv, EnrichStep
    PROVE  /\ pc' = "rollback" => pc = "rollback"
           /\ pc' = "cleanup" => pc = "rollback" \/ result' = "enriched"
           /\ pc' = "sign" => cursor' = 1
           /\ pc' = "idle" => \/ pc = "read" /\ security /\ ~Enrichable(dist)
                              \/ pc = "cleanup" /\ result # "enriched"
<1>. USE DEF Exit, NextOutput
<1>1. CASE EnrichRead  BY <1>1 DEF EnrichRead
<1>2. CASE Originals  BY <1>2 DEF Originals
<1>3. CASE Stage  BY <1>3 DEF Stage
<1>4. CASE Replace  BY <1>4 DEF Replace
<1>5. CASE Sync  BY <1>5 DEF Sync
<1>6. CASE Rollback  BY <1>6 DEF Rollback
<1>7. CASE RollbackSync  BY <1>7 DEF RollbackSync
<1>8. CASE Cleanup
  <2>1. pc = "cleanup" /\ result' = result /\ cursor' = 1
        /\ pc' = IF result \in {"unchanged", "enriched"} THEN "sign" ELSE "idle"
    BY <1>8 DEF Cleanup
  <2>. QED  BY <2>1
<1>. QED  BY <1>1, <1>2, <1>3, <1>4, <1>5, <1>6, <1>7, <1>8 DEF EnrichStep

LEMMA BuildStepRuns ==
    ASSUME Inv, UndisturbedInv, BuildStep
    PROVE  UndisturbedInv' /\ Excused
<1>1. /\ EnrichStep \/ SignAssets("attach")
      /\ assets' = assets /\ (~disturbed' => ~disturbed)
      /\ outcome' = IF pc' = "idle" THEN "failed" ELSE "running"
  BY DEF BuildStep, Ended
<1>2. UNCHANGED security
  BY <1>1, EnrichStepMoves DEF SignAssets, Inv
<1>3. Expected' = Expected
  <2>1. Names' = Names  BY <1>2 DEF Names
  <2>. QED  BY <2>1 DEF Expected
<1>4. CASE EnrichStep
  <2>1. pc' \in Enriching \cup {"sign", "idle"} /\ pc \in Enriching
    BY <1>4, EnrichStepMoves DEF Inv
  <2>2. /\ pc' = "rollback" => pc = "rollback"
        /\ pc' = "cleanup" => pc = "rollback" \/ result' = "enriched"
        /\ pc' = "sign" => cursor' = 1
        /\ pc' = "idle" => \/ pc = "read" /\ security /\ ~Enrichable(dist)
                           \/ pc = "cleanup" /\ result # "enriched"
    BY <1>4, EnrichmentEnds DEF Inv
  <2>3. ~disturbed => pc # "rollback" /\ (pc = "cleanup" => result = "enriched")
    BY DEF UndisturbedInv, RunInv
  <2>4. ~disturbed' => RunInv'  BY <1>1, <2>1, <2>2, <2>3 DEF RunInv, Enriching
  <2>5. Excused
    <3>1. pc = "read" => ~(security /\ ~Enrichable(dist))  BY ChecksHold DEF Inv
    <3>. QED  BY <1>1, <2>2, <2>3, <3>1 DEF Excused
  <2>6. pc' \in {"sign", "attach", "list", "probe", "emptied"} => cursor' = 1
    BY <2>1, <2>2 DEF Enriching
  <2>. QED  BY <1>1, <1>3, <2>4, <2>5, <2>6 DEF UndisturbedInv
<1>5. CASE SignAssets("attach")
  <2>1. pc = "sign" /\ cursor' = cursor /\ (SemanticsHold(dist, build, security) => pc' = "attach")
        /\ pc' \in {"attach", "idle"}
    BY <1>5 DEF SignAssets
  <2>2. pc' = "attach"  BY <2>1, ChecksHold DEF Inv
  <2>3. Excused  BY <1>1, <2>2 DEF Excused
  <2>4. RunInv'  BY <2>2 DEF RunInv
  <2>. QED  BY <1>1, <1>3, <2>1, <2>2, <2>3, <2>4 DEF UndisturbedInv
<1>. QED  BY <1>1, <1>4, <1>5

LEMMA StartingRuns ==
    ASSUME Inv, UndisturbedInv,
           \/ StartBuild \/ EnrichAgain
           \/ \E b \in Builds : AttachAgain(b)
    PROVE  UndisturbedInv' /\ Excused
<1>1. /\ UNCHANGED <<security, assets>> /\ pc' \in {"read", "attach"} /\ cursor' = 1
      /\ outcome' = "running"
  BY DEF StartBuild, EnrichAgain, AttachAgain, evidenceVars
<1>2. Expected' = Expected
  <2>1. Names' = Names  BY <1>1 DEF Names
  <2>. QED  BY <2>1 DEF Expected
<1>3. RunInv'  BY <1>1 DEF RunInv
<1>. QED  BY <1>1, <1>2, <1>3 DEF UndisturbedInv, Excused

\* A step that disturbs the run: of the release, only what the assets are is asked.
LEMMA DisturbingRuns ==
    ASSUME Inv, UndisturbedInv, BuildRaises \/ BuildKilled \/ AttachFails \/ Revoke
                                \/ \E n \in AllNames, value \in {Missing, Foreign} :
                                     ForeignChange(n, value)
    PROVE  UndisturbedInv' /\ Excused
<1>1. disturbed' = TRUE /\ UNCHANGED security
  BY DEF BuildRaises, EnrichRaises, BuildKilled, AttachFails, Revoke, ForeignChange, evidenceVars,
         unchangedByWorld
<1>2. Expected' = Expected
  <2>1. Names' = Names  BY <1>1 DEF Names
  <2>. QED  BY <2>1 DEF Expected
<1>3. Excused  BY <1>1 DEF Excused
<1>4. pc' \in {"sign", "attach", "list", "probe", "emptied"} => cursor' = 1
  <2>1. \/ UNCHANGED <<pc, cursor>>
        \/ pc' \in {"idle", "rollback"}
    BY DEF BuildRaises, EnrichRaises, BuildKilled, AttachFails, Refuse, Revoke, ForeignChange,
           unchangedByWorld, Exit
  <2>. QED  BY <2>1 DEF UndisturbedInv
<1>5. ASSUME NEW n \in AllNames, assets'[n] \in Contents PROVE n \in Expected
  <2>1. assets \in [AllNames -> Asset] /\ Name \in Expected /\ Name \in AllNames
    BY Loops, CurrentName
  <2>2. CASE assets' = assets  BY <1>5, <2>2 DEF UndisturbedInv
  <2>3. CASE AttachFails
    <3>1. \/ assets' = assets
          \/ \E v : assets' = [assets EXCEPT ![Name] = v]
      BY <2>3 DEF AttachFails, AssetsAfterFailure
    <3>2. ASSUME NEW v, assets' = [assets EXCEPT ![Name] = v] PROVE n \in Expected
      <4>1. n # Name => assets'[n] = assets[n]  BY <2>1, <3>2
      <4>. QED  BY <1>5, <2>1, <4>1 DEF UndisturbedInv
    <3>. QED  BY <2>2, <3>1, <3>2
  <2>4. ASSUME NEW k \in AllNames, NEW value \in {Missing, Foreign}, ForeignChange(k, value)
        PROVE  n \in Expected
    <3>1. assets' = [assets EXCEPT ![k] = value]  BY <2>4 DEF ForeignChange
    <3>2. value \notin Contents  OBVIOUS
    <3>3. n # k  BY <1>5, <2>1, <3>1, <3>2
    <3>4. assets'[n] = assets[n]  BY <2>1, <3>1, <3>3
    <3>. QED  BY <1>5, <3>4 DEF UndisturbedInv
  <2>. QED  BY <2>2, <2>3, <2>4 DEF BuildRaises, BuildKilled, Revoke
<1>. QED  BY <1>1, <1>2, <1>3, <1>4, <1>5 DEF UndisturbedInv

LEMMA OtherRuns ==
    ASSUME Inv, UndisturbedInv, Deliver \/ MakeImmutable \/ UNCHANGED vars
    PROVE  UndisturbedInv' /\ Excused
<1>1. CASE Deliver
  <2>1. UNCHANGED <<security, assets>> /\ pc' = "idle" /\ outcome' = "success"
    BY <1>1 DEF Deliver, evidenceVars
  <2>2. Names' = Names  BY <2>1 DEF Names
  <2>3. Expected' = Expected  BY <2>2 DEF Expected
  <2>4. RunInv'  BY <2>1 DEF RunInv
  <2>. QED  BY <2>1, <2>3, <2>4 DEF UndisturbedInv, Excused
<1>2. CASE MakeImmutable \/ UNCHANGED vars
  <2>1. /\ UNCHANGED <<signed, security, artifact>>
        /\ UNCHANGED <<pc, cursor, result, assets, seen, inventory, mode, disturbed, outcome>>
    BY <1>2 DEF MakeImmutable, unchangedByWorld, evidenceVars, history, vars, releaseVars
  <2>2. /\ Names' = Names /\ Expected' = Expected /\ \A n : Wanted(n)' = Wanted(n)
        /\ Artifact(artifact)' = Artifact(artifact)
    BY <2>1, SameArtifact
  <2>3. /\ Acceptable(seen)' <=> Acceptable(seen)
        /\ Complete(seen)' <=> Complete(seen)
        /\ OthersMissing(assets)' <=> OthersMissing(assets)
    BY <2>1, <2>2 DEF Acceptable, Complete, OthersMissing
  <2>4. RunInv' <=> RunInv  BY <2>1, <2>2, <2>3 DEF RunInv
  <2>. QED  BY <2>1, <2>2, <2>4 DEF UndisturbedInv, Excused
<1>. QED  BY <1>1, <1>2

LEMMA NextRuns ==
    ASSUME Inv, UndisturbedInv, [Next]_vars
    PROVE  UndisturbedInv' /\ Excused
BY StartingRuns, BuildStepRuns, DisturbingRuns, AttachStepRuns, OtherRuns DEF Next

LEMMA RunsStart ==
    ASSUME Init
    PROVE  UndisturbedInv
<1>1. \A n \in AllNames : assets[n] \notin Contents  BY DEF Init
<1>2. RunInv  BY DEF Init, EvidenceInit, RunInv
<1>. QED  BY <1>1, <1>2 DEF Init, EvidenceInit, UndisturbedInv

-----------------------------------------------------------------------------
(* The life cycle of the release: every step is a step of ReleaseLifecycle.  The      *)
(* builds go on signing while a release is published, so a stutter needs that a set   *)
(* which did not verify does not begin to, when the build it names is signed.         *)

\* No asset claims checksums of a build that is not signed.
SumsAreSigned ==
    assets["SHA256SUMS"] \in Contents => IsSigned(assets["SHA256SUMS"].build)

\* What is signed stays signed, whatever the step.
LEMMA SignedStays ==
    ASSUME Inv, [Next]_vars
    PROVE  /\ security' = security /\ Expected' = Expected
           /\ \A b : IsSigned(b) => IsSigned(b)' /\ Artifact(b)' = Artifact(b)
<1>1. security' = security
      /\ \/ signed' = signed
         \/ pc = "sign" /\ signed' = [signed EXCEPT ![build] = dist]
  <2>1. CASE BuildStep
    <3>1. CASE EnrichStep  BY <3>1, EnrichStepMoves DEF Inv
    <3>2. CASE SignAssets("attach")  BY <3>2 DEF SignAssets
    <3>. QED  BY <2>1, <3>1, <3>2 DEF BuildStep
  <2>2. CASE BuildRaises  BY <2>2 DEF BuildRaises, EnrichRaises, evidenceVars
  <2>3. CASE StartBuild \/ EnrichAgain \/ BuildKilled
    BY <2>3 DEF StartBuild, EnrichAgain, BuildKilled, evidenceVars
  <2>4. CASE \E b \in Builds : AttachAgain(b)  BY <2>4 DEF AttachAgain, evidenceVars
  <2>5. CASE AttachStep  BY <2>5, AttachMoves
  <2>6. CASE Deliver \/ AttachFails  BY <2>6 DEF Deliver, AttachFails, evidenceVars
  <2>7. CASE \/ MakeImmutable \/ Revoke
             \/ \E n \in AllNames, value \in {Missing, Foreign} : ForeignChange(n, value)
    BY <2>7 DEF MakeImmutable, Revoke, ForeignChange, unchangedByWorld, evidenceVars
  <2>8. CASE UNCHANGED vars  BY <2>8 DEF vars, evidenceVars
  <2>. QED  BY <2>1, <2>2, <2>3, <2>4, <2>5, <2>6, <2>7, <2>8 DEF Next
<1>2. Names' = Names  BY <1>1 DEF Names
<1>3. Expected' = Expected  BY <1>2 DEF Expected
<1>4. CASE signed' = signed  BY <1>1, <1>3, <1>4, SignedSame
<1>5. CASE pc = "sign" /\ signed' = [signed EXCEPT ![build] = dist]
  <2>. SUFFICES ASSUME NEW b, IsSigned(b)
                PROVE  IsSigned(b)' /\ Artifact(b)' = Artifact(b)
    BY <1>1, <1>3
  <2>1. b \in Builds  BY DEF IsSigned
  <2>. QED  BY <1>1, <1>5, <2>1, SigningSame DEF Inv
<1>. QED  BY <1>1, <1>3, <1>4, <1>5

LEMMA VerdictIsBoolean ==
    VerifySigned(assets) \in BOOLEAN /\ VerifySigned(assets)' \in BOOLEAN
BY DEF VerifySigned

\* A step that leaves the assets alone does not change whether they verify.
LEMMA VerdictStays ==
    ASSUME Inv, SumsAreSigned, [Next]_vars, assets' = assets
    PROVE  SumsAreSigned' /\ VerifySigned(assets)' = VerifySigned(assets)
<1>1. /\ security' = security /\ Expected' = Expected
      /\ \A b : IsSigned(b) => IsSigned(b)' /\ Artifact(b)' = Artifact(b)
  BY SignedStays
<1>2. SumsAreSigned'  BY <1>1 DEF SumsAreSigned
<1>3. CASE assets["SHA256SUMS"] \in Contents
  <2> DEFINE b == assets["SHA256SUMS"].build
  <2>1. IsSigned(b) /\ IsSigned(b)' /\ Artifact(b)' = Artifact(b)
    BY <1>1, <1>3 DEF SumsAreSigned
  <2>2. ChecksumsFit(assets)' <=> ChecksumsFit(assets)  BY <1>1, <2>1 DEF ChecksumsFit
  <2>3. ImagesNamed(assets)' = ImagesNamed(assets)  BY <1>1 DEF ImagesNamed
  <2>4. SemanticsHold(assets, ImagesNamed(assets), security)'
          <=> SemanticsHold(assets, ImagesNamed(assets), security)
    BY <1>1, <2>3 DEF SemanticsHold, ImagesFit, InstalledFits, AssuranceFits, ProvenanceFits,
                      EvidenceFits, MarkdownFits, ContainerFits
  <2>5. VerifySigned(assets)' <=> VerifySigned(assets)  BY <1>1, <2>2, <2>4 DEF VerifySigned
  <2>. QED  BY <1>2, <2>5, VerdictIsBoolean
<1>4. CASE assets["SHA256SUMS"] \notin Contents
  <2>1. "SHA256SUMS" \in Expected  BY ExpectedIs DEF Inv, EvidenceInv, EvidenceType
  <2>2. ~VerifySigned(assets) /\ ~VerifySigned(assets)'  BY <1>1, <1>4, <2>1 DEF VerifySigned
  <2>. QED  BY <1>2, <2>2, VerdictIsBoolean
<1>. QED  BY <1>3, <1>4

\* An asset is changed to something that is not signed, or to the job's own.
LEMMA ChangeKeepsSums ==
    ASSUME Inv, SumsAreSigned, [Next]_vars, NEW n \in AllNames, NEW v,
           assets' = [assets EXCEPT ![n] = v],
           \/ v \in {Missing, Starter, Foreign}
           \/ pc \in Attaching /\ v = Wanted(n)
    PROVE  SumsAreSigned'
<1>1. \A b : IsSigned(b) => IsSigned(b)'  BY SignedStays
<1>2. CASE n # "SHA256SUMS"
  <2>1. assets'["SHA256SUMS"] = assets["SHA256SUMS"]  BY <1>2 DEF Inv, AttachType
  <2>. QED  BY <1>1, <2>1 DEF SumsAreSigned
<1>3. CASE n = "SHA256SUMS"
  <2>1. assets'["SHA256SUMS"] = v  BY <1>3 DEF Inv, AttachType
  <2>2. CASE v \in {Missing, Starter, Foreign}
    BY <2>1, <2>2, ReleaseAssumption DEF SumsAreSigned, Contents
  <2>3. CASE pc \in Attaching /\ v = Wanted(n)
    <3>1. IsSigned(artifact) /\ artifact \in Builds  BY <2>3, WantedIsAsset DEF Inv, JobInv
    <3>2. "SHA256SUMS" \in Expected /\ "SHA256SUMS" \notin Files
      BY ExpectedIs DEF Inv, EvidenceInv, EvidenceType, Files, Base
    <3>3. v = [build |-> artifact, mark |-> 0]
      BY <1>3, <2>3, <3>2, WantedIsAsset DEF Artifact
    <3>. QED  BY <1>1, <2>1, <3>1, <3>3 DEF SumsAreSigned
  <2>. QED  BY <2>2, <2>3
<1>. QED  BY <1>2, <1>3

\* Steps that leave the release alone.
LEMMA Unnoticed ==
    ASSUME Inv, SumsAreSigned, [Next]_vars,
           UNCHANGED <<release, assets, foreign, raced, delivered>>
    PROVE  SumsAreSigned' /\ UNCHANGED Lifecycle!vars
BY VerdictStays DEF Lifecycle!vars

\* Steps of the attach job in a draft.
LEMMA Prepares ==
    ASSUME Inv, [Next]_vars, release = "draft", raced' => raced,
           UNCHANGED <<release, foreign, delivered>>
    PROVE  Lifecycle!Prepare
BY VerdictIsBoolean DEF Lifecycle!Prepare

\* The PATCH, also when the call fails after its effect.
LEMMA Publishes ==
    ASSUME Inv, SumsAreSigned, [Next]_vars, pc = "patch", release' = "published",
           UNCHANGED <<assets, foreign, raced, delivered>>
    PROVE  SumsAreSigned' /\ Lifecycle!Publish
<1>1. SumsAreSigned' /\ VerifySigned(assets)' = VerifySigned(assets)  BY VerdictStays
<1>2. /\ IsSigned(artifact) /\ artifact \in Builds
      /\ release = "draft" /\ (~raced => assets = Artifact(artifact))
  BY DEF Inv, JobInv, AfterInventory, AfterPublication, Attaching, IsSigned
<1>3. ~raced => HoldsSet  BY <1>2 DEF HoldsSet
<1>4. ~raced => VerifySigned(assets)  BY <1>3, HoldsSetVerifies DEF Inv
<1>. QED  BY <1>1, <1>2, <1>4 DEF Lifecycle!Publish

\* The promotion or the dispatch, also when the call fails after its effect.
LEMMA Delivers ==
    ASSUME Inv, SumsAreSigned, [Next]_vars, pc = "deliver", delivered' = TRUE,
           UNCHANGED <<release, assets, foreign, raced>>
    PROVE  SumsAreSigned' /\ Lifecycle!Deliver
<1>1. SumsAreSigned' /\ VerifySigned(assets)' = VerifySigned(assets)  BY VerdictStays
<1>2. /\ IsSigned(artifact) /\ artifact \in Builds
      /\ release = "immutable" /\ assets = Artifact(artifact)
  BY DEF Inv, JobInv, AfterInventory, AfterPublication, Attaching, IsSigned
<1>3. HoldsSet  BY <1>2 DEF HoldsSet
<1>4. VerifySigned(assets)  BY <1>3, HoldsSetVerifies DEF Inv
<1>. QED  BY <1>1, <1>2, <1>4 DEF Lifecycle!Deliver

\* A deletion or an upload, which may break off: only of a draft.
LEMMA AttachLifecycle ==
    ASSUME Inv, SumsAreSigned, AttachStep
    PROVE  SumsAreSigned' /\ [Lifecycle!Next]_(Lifecycle!vars)
<1>0. [Next]_vars /\ UNCHANGED <<foreign, delivered>> /\ pc \in Attaching
  BY AttachMoves DEF Next
<1>1. CASE ReadMode
  <2>1. /\ UNCHANGED <<release, assets>>
        /\ raced' = raced \/ (release = "draft" /\ raced' = FALSE)
    BY <1>1 DEF ReadMode
  <2>2. SumsAreSigned'  BY <1>0, <2>1, VerdictStays
  <2>3. raced \in BOOLEAN  BY DEF Inv, AttachType
  <2>. QED  BY <1>0, <2>1, <2>2, <2>3, Unnoticed, Prepares DEF Lifecycle!Next
<1>2. CASE Delete \/ Upload
  <2>1. UNCHANGED <<release, raced>>  BY <1>2 DEF Delete, Upload
  <2>2. \/ assets' = assets
        \/ /\ release = "draft"
           /\ \/ assets' = [assets EXCEPT ![Name] = Missing]
              \/ assets' = [assets EXCEPT ![Name] = Wanted(Name)]
    <3>1. pc = "delete" => release = "draft"
      BY DEF Inv, JobInv, Attaching, AfterPublication
    <3>2. pc = "upload" /\ mode = "draft" => release = "draft"
      BY DEF Inv, JobInv, Attaching, AfterPublication
    <3>. QED  BY <1>2, <3>1, <3>2 DEF Delete, Upload
  <2>3. CASE assets' = assets  BY <1>0, <2>1, <2>3, Unnoticed
  <2>4. CASE /\ release = "draft"
             /\ \/ assets' = [assets EXCEPT ![Name] = Missing]
                \/ assets' = [assets EXCEPT ![Name] = Wanted(Name)]
    <3>. HIDE DEF Name, Wanted
    <3>1. SumsAreSigned'  BY <1>0, <2>4, CurrentName, ChangeKeepsSums
    <3>2. Lifecycle!Prepare  BY <1>0, <2>1, <2>4, Prepares
    <3>. QED  BY <3>1, <3>2 DEF Lifecycle!Next
  <2>. QED  BY <2>2, <2>3, <2>4
<1>3. CASE Patch
  <2>1. /\ pc = "patch" /\ release' = "published" /\ UNCHANGED <<assets, raced>>
    BY <1>3 DEF Patch
  <2>. QED  BY <1>0, <2>1, Publishes DEF Lifecycle!Next
<1>4. CASE Reading /\ ~ReadMode
  <2>1. UNCHANGED <<release, assets, raced>>
    BY <1>4 DEF Reading, ListAssets, Probe, Emptied, FinalListing, Check, State, Recheck,
                Poll, Compare, Confirm, publishing
  <2>. QED  BY <1>0, <2>1, Unnoticed
<1>. QED  BY <1>1, <1>2, <1>3, <1>4 DEF AttachStep, Reading

LEMMA FailingLifecycle ==
    ASSUME Inv, SumsAreSigned, AttachFails
    PROVE  SumsAreSigned' /\ [Lifecycle!Next]_(Lifecycle!vars)
<1>0. [Next]_vars  BY DEF Next
<1>1. /\ UNCHANGED <<raced, foreign>> /\ pc \in Attaching
      /\ assets' \in AssetsAfterFailure
      /\ release' = release \/ (pc = "patch" /\ release' = "published")
      /\ delivered' = delivered \/ (pc = "deliver" /\ delivered' = TRUE)
  BY DEF AttachFails
<1>2. \/ assets' = assets
      \/ /\ pc \in {"delete", "upload"} /\ release = "draft"
         /\ \E v \in {Missing, Starter, Foreign, Wanted(Name)} :
               assets' = [assets EXCEPT ![Name] = v]
  <2>1. pc \in {"delete", "upload"} /\ mode = "draft" => release = "draft"
    BY <1>1 DEF Inv, JobInv, AfterPublication
  <2>2. pc = "delete" => mode = "draft"  BY DEF Inv, JobInv
  <2>. QED  BY <1>1, <2>1, <2>2 DEF AssetsAfterFailure
<1>3. CASE assets' = assets
  <2>1. CASE pc = "patch" /\ release' = "published"
    BY <1>0, <1>1, <1>3, <2>1, Publishes DEF Lifecycle!Next
  <2>2. CASE pc = "deliver" /\ delivered' = TRUE
    BY <1>0, <1>1, <1>3, <2>2, Delivers DEF Lifecycle!Next
  <2>3. CASE UNCHANGED <<release, delivered>>  BY <1>0, <1>1, <1>3, <2>3, Unnoticed
  <2>. QED  BY <1>1, <2>1, <2>2, <2>3
<1>4. CASE assets' # assets
  <2>1. /\ pc \in {"delete", "upload"} /\ release = "draft"
        /\ UNCHANGED <<release, delivered>>
    BY <1>1, <1>2, <1>4
  <2>2. PICK v \in {Missing, Starter, Foreign, Wanted(Name)} :
               assets' = [assets EXCEPT ![Name] = v]
    BY <1>2, <1>4
  <2>. HIDE DEF Name, Wanted
  <2>3. SumsAreSigned'  BY <1>0, <1>1, <2>2, CurrentName, ChangeKeepsSums
  <2>4. Lifecycle!Prepare  BY <1>0, <1>1, <2>1, Prepares
  <2>. QED  BY <2>3, <2>4 DEF Lifecycle!Next
<1>. QED  BY <1>3, <1>4

LEMMA WorldLifecycle ==
    ASSUME Inv, SumsAreSigned,
           \/ MakeImmutable \/ Revoke
           \/ \E n \in AllNames, value \in {Missing, Foreign} : ForeignChange(n, value)
    PROVE  SumsAreSigned' /\ [Lifecycle!Next]_(Lifecycle!vars)
<1>0. [Next]_vars  BY DEF Next
<1>1. CASE MakeImmutable
  <2>1. /\ release = "published" /\ release' = "immutable"
        /\ UNCHANGED <<assets, foreign, raced, delivered>>
    BY <1>1 DEF MakeImmutable, unchangedByWorld, history
  <2>2. SumsAreSigned' /\ VerifySigned(assets)' = VerifySigned(assets)
    BY <1>0, <2>1, VerdictStays
  <2>3. Lifecycle!Harden  BY <2>1, <2>2 DEF Lifecycle!Harden
  <2>. QED  BY <2>2, <2>3 DEF Lifecycle!Next
<1>2. CASE Revoke
  <2>1. UNCHANGED <<release, assets, foreign, raced, delivered>>
    BY <1>2 DEF Revoke, unchangedByWorld
  <2>. QED  BY <1>0, <2>1, Unnoticed
<1>3. ASSUME NEW n \in AllNames, NEW value \in {Missing, Foreign}, ForeignChange(n, value)
      PROVE  SumsAreSigned' /\ [Lifecycle!Next]_(Lifecycle!vars)
  <2>1. /\ release # "immutable" /\ foreign' = foreign + 1
        /\ assets[n] # value /\ assets' = [assets EXCEPT ![n] = value]
        /\ raced' = (raced \/ pc = "patch" \/ release = "published")
        /\ UNCHANGED <<release, delivered>>
    BY <1>3 DEF ForeignChange, unchangedByWorld
  <2>2. SumsAreSigned'  BY <1>0, <2>1, ChangeKeepsSums
  <2>3. assets' # assets
    <3>1. assets'[n] = value  BY <2>1 DEF Inv, AttachType
    <3>. QED  BY <2>1, <3>1
  <2>4. raced' \in BOOLEAN /\ (raced \/ release = "published" => raced')
    BY <2>1 DEF Inv, AttachType
  <2>5. Lifecycle!Edit  BY <2>1, <2>3, <2>4, VerdictIsBoolean DEF Lifecycle!Edit
  <2>. QED  BY <2>2, <2>5 DEF Lifecycle!Next
<1>. QED  BY <1>1, <1>2, <1>3

LEMMA LifecycleStep ==
    ASSUME Inv, SumsAreSigned, [Next]_vars
    PROVE  SumsAreSigned' /\ [Lifecycle!Next]_(Lifecycle!vars)
<1>1. CASE \/ StartBuild \/ EnrichAgain \/ BuildStep \/ BuildRaises \/ BuildKilled
           \/ \E b \in Builds : AttachAgain(b)
  <2>1. UNCHANGED <<release, assets, foreign, raced, delivered>>
    BY <1>1 DEF StartBuild, EnrichAgain, BuildStep, BuildRaises, BuildKilled, AttachAgain
  <2>. QED  BY <2>1, Unnoticed
<1>2. CASE Deliver
  <2>1. /\ pc = "deliver" /\ delivered' = TRUE
        /\ UNCHANGED <<release, assets, foreign, raced>>
    BY <1>2 DEF Deliver
  <2>. QED  BY <2>1, Delivers DEF Lifecycle!Next
<1>3. CASE UNCHANGED vars
  <2>1. UNCHANGED <<release, assets, foreign, raced, delivered>>
    BY <1>3 DEF vars, releaseVars, history
  <2>. QED  BY <2>1, Unnoticed
<1>. QED  BY <1>1, <1>2, <1>3, AttachLifecycle, FailingLifecycle, WorldLifecycle DEF Next

-----------------------------------------------------------------------------
(* The theorems. *)

\* Type correctness of the build job and of the attach job.
THEOREM TypeCorrect == Spec => []TypeOK
<1>1. Inv => TypeOK  BY InvTells
<1>. QED  BY <1>1, Invariance, PTL

\* atomic_write_outputs: the exit status of the enrichment tells whether the three
\* outputs are the completed ones or the ones before, whichever of its calls fail.
THEOREM EnrichmentIsAtomic == Spec => []AllOrNothing
<1>1. Inv => AllOrNothing  BY InvTells
<1>. QED  BY <1>1, Invariance, PTL

\* Publish verified draft: what the PATCH publishes is one complete signed set, unless
\* somebody changed an asset after the listing right before it.
THEOREM PublishedSetIsWhole == Spec => []PublishedIsWhole
<1>1. Inv => PublishedIsWhole  BY InvTells
<1>. QED  BY <1>1, Invariance, PTL

\* Require immutable release: promotion and final acceptance get an immutable release
\* that verifies, whatever happened to it before.
THEOREM DeliveredSetIsWhole == Spec => []DeliveredIsWhole
<1>1. Inv => DeliveredIsWhole  BY InvTells
<1>. QED  BY <1>1, Invariance, PTL

\* The reset of the draft: a run that nothing disturbs completes whatever an earlier run
\* left, or fails for a reason that somebody else has to remove.
THEOREM RunsComplete == Spec => UndisturbedRunSucceeds
<1>1. Init => Inv /\ UndisturbedInv  BY InvStarts, RunsStart
<1>2. Inv /\ UndisturbedInv /\ [Next]_vars => Inv' /\ UndisturbedInv'
  BY NextKeeps, NextRuns
<1>3. Inv /\ UndisturbedInv /\ [Next]_vars =>
        [outcome = "running" /\ outcome' = "failed" /\ ~disturbed' => Hindered]_vars
  BY NextRuns DEF Excused
<1>. QED  BY <1>1, <1>2, <1>3, PTL DEF Spec, UndisturbedRunSucceeds

\* The workflow and the release: published once and as one whole set, never touched by
\* the workflow again, immutable when it is delivered, and delivered for good.
THEOREM ReleaseImplementsLifecycle == Spec => ReleaseGoesForward
<1>1. Init => Lifecycle!Init
  <2>. SUFFICES ASSUME Init PROVE Lifecycle!Init
    OBVIOUS
  <2>1. Inv  BY InvStarts
  <2>2. "images" \in Expected /\ "images" \in AllNames
    BY <2>1, ExpectedIs DEF Inv, EvidenceInv, EvidenceType, AllNames, Files, Base
  <2>3. assets["images"] = Missing  BY <2>2 DEF Init
  <2>4. ~VerifySigned(assets)  BY <2>2, <2>3 DEF VerifySigned
  <2>. QED  BY <2>4 DEF Init, Lifecycle!Init
<1>2. Init => Inv /\ SumsAreSigned
  <2>1. "SHA256SUMS" \in AllNames  BY DEF AllNames
  <2>2. Init => assets["SHA256SUMS"] \notin Contents  BY <2>1, ReleaseAssumption DEF Init
  <2>. QED  BY <2>2, InvStarts DEF SumsAreSigned
<1>3. Inv /\ SumsAreSigned /\ [Next]_vars =>
        Inv' /\ SumsAreSigned' /\ [Lifecycle!Next]_(Lifecycle!vars)
  BY NextKeeps, LifecycleStep
<1>. QED  BY <1>1, <1>2, <1>3, PTL DEF Spec, ReleaseGoesForward, Lifecycle!Spec
=============================================================================
