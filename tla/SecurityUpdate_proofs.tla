----------------------- MODULE SecurityUpdate_proofs -----------------------
(***************************************************************************)
(* Proofs about SecurityUpdate, for any evidence, versions and files and   *)
(* any number of edits and faults.                                         *)
(***************************************************************************)
EXTENDS SecurityUpdate, TLAPS

USE SecureFilesAssumption, SecurityUpdateAssumption, ContentsAssumption

-----------------------------------------------------------------------------
(* The programs, step by step. *)
LEMMA PrepareSteps ==
    /\ Len(Prepare) = 8
    /\ Prepare[1] = Step("snapshot", "requirements")
    /\ Prepare[2] = Step("snapshot", "evidence")
    /\ Prepare[3] = Step("snapshot", "checksums")
    /\ Prepare[4] = Step("snapshot", "bundle")
    /\ Prepare[5] = Step("check", "evidence")
    /\ Prepare[6] = Step("check", "requirements")
    /\ Prepare[7] = Step("create", "receipt")
    /\ Prepare[8] = Step("replace", "requirements")
BY DEF Prepare, Authentication

LEMMA ValidateSteps ==
    /\ Len(Validate) = 8
    /\ \A i \in 1 .. 7 : \E n \in Names : Validate[i] \in {Step("snapshot", n), Step("check", n)}
    /\ Validate[8] = Step("check", "receipt")
BY DEF Validate, Authentication

LEMMA AssetsSteps ==
    /\ Len(VerifyAssets) = 13
    /\ VerifyAssets[1] = Step("snapshot", "evidence")
    /\ VerifyAssets[2] = Step("snapshot", "checksums")
    /\ VerifyAssets[3] = Step("snapshot", "bundle")
    /\ VerifyAssets[4] = Step("check", "evidence")
    /\ VerifyAssets[5] = Step("create", "collection")
    /\ VerifyAssets[6] = Step("create", "signature")
    /\ VerifyAssets[7] = Step("create", "sbom")
    /\ VerifyAssets[8] = Step("create", "provenance")
    /\ VerifyAssets[9] = Step("snapshot", "collection")
    /\ VerifyAssets[10] = Step("snapshot", "signature")
    /\ VerifyAssets[11] = Step("snapshot", "sbom")
    /\ VerifyAssets[12] = Step("snapshot", "provenance")
    /\ VerifyAssets[13] = Step("check", "collection")
BY DEF VerifyAssets, Authentication

LEMMA OtherSteps ==
    /\ Len(RequirementVersion) = 1
    /\ RequirementVersion[1] = Step("snapshot", "requirements")
    /\ Len(VerifyInstalled) = 3
    /\ VerifyInstalled[1] = Step("snapshot", "collection")
    /\ VerifyInstalled[2] = Step("snapshot", "installed")
    /\ VerifyInstalled[3] = Step("check", "installed")
BY DEF RequirementVersion, VerifyInstalled

Positions == tool \in Tools /\ pos \in 1 .. Len(Program(tool)) + 1

LEMMA ProgramOf ==
    /\ Program("prepare") = Prepare
    /\ Program("validate") = Validate
    /\ Program("assets") = VerifyAssets
    /\ Program("version") = RequirementVersion
    /\ Program("installed") = VerifyInstalled
BY DEF Program

LEMMA ProgramLength ==
    /\ tool = "prepare" => Len(Program(tool)) = 8
    /\ tool = "validate" => Len(Program(tool)) = 8
    /\ tool = "assets" => Len(Program(tool)) = 13
    /\ tool = "version" => Len(Program(tool)) = 1
    /\ tool = "installed" => Len(Program(tool)) = 3
BY ProgramOf, PrepareSteps, ValidateSteps, AssetsSteps, OtherSteps

\* What an operation says about the command and its position.
StepFacts ==
    /\ Current.entry \in Names
    /\ Current.op = "create" =>
         \/ tool = "prepare" /\ pos = 7 /\ Current.entry = "receipt"
         \/ tool = "assets" /\ pos \in 5 .. 8 /\ Current.entry \in Assets
    /\ Current.op = "replace" =>
         tool = "prepare" /\ pos = 8 /\ Current.entry = "requirements"
    /\ Current.op = "snapshot" /\ tool = "prepare" =>
         pos \in 1 .. 4 /\ (Current.entry = "requirements" <=> pos = 1)
    /\ Current.op = "snapshot" /\ tool = "assets" =>
         pos \in 1 .. 3 \/ (pos \in 9 .. 12 /\ Current.entry \in Assets)
    /\ Current.op = "check" /\ tool = "prepare" =>
         \/ pos = 5 /\ Current.entry = "evidence"
         \/ pos = 6 /\ Current.entry = "requirements"
    /\ Current.op = "check" /\ tool = "assets" =>
         \/ pos = 4 /\ Current.entry = "evidence"
         \/ pos = 13

LEMMA StepIs ==
    ASSUME Positions, Running
    PROVE  StepFacts
<1>1. CASE tool = "prepare"
  <2>1. pos \in 1 .. 8
    <3>1. Len(Program(tool)) = 8  BY <1>1, ProgramLength
    <3>. QED  BY <3>1 DEF Positions, Running
  <2>. QED  BY <1>1, <2>1, PrepareSteps, ProgramOf DEF StepFacts, Current, Step, Assets
<1>2. CASE tool = "validate"
  <2>1. pos \in 1 .. 8
    <3>1. Len(Program(tool)) = 8  BY <1>2, ProgramLength
    <3>. QED  BY <3>1 DEF Positions, Running
  <2>2. \E n \in Names : Current \in {Step("snapshot", n), Step("check", n)}
    <3>1. CASE pos \in 1 .. 7  BY <1>2, <2>1, <3>1, ValidateSteps, ProgramOf DEF Current
    <3>2. CASE pos = 8  BY <1>2, <3>2, ValidateSteps, ProgramOf DEF Current, Assets
    <3>. QED  BY <2>1, <3>1, <3>2
  <2>. QED  BY <1>2, <2>2 DEF StepFacts, Step
<1>3. CASE tool = "assets"
  <2>1. pos \in 1 .. 13
    <3>1. Len(Program(tool)) = 13  BY <1>3, ProgramLength
    <3>. QED  BY <3>1 DEF Positions, Running
  <2>. QED  BY <1>3, <2>1, AssetsSteps, ProgramOf DEF StepFacts, Current, Step, Assets
<1>4. CASE tool = "version"
  <2>1. pos \in 1 .. 1
    <3>1. Len(Program(tool)) = 1  BY <1>4, ProgramLength
    <3>. QED  BY <3>1 DEF Positions, Running
  <2>. QED  BY <1>4, <2>1, OtherSteps, ProgramOf DEF StepFacts, Current, Step, Assets
<1>5. CASE tool = "installed"
  <2>1. pos \in 1 .. 3
    <3>1. Len(Program(tool)) = 3  BY <1>5, ProgramLength
    <3>. QED  BY <3>1 DEF Positions, Running
  <2>. QED  BY <1>5, <2>1, OtherSteps, ProgramOf DEF StepFacts, Current, Step, Assets
<1>. QED  BY <1>1, <1>2, <1>3, <1>4, <1>5 DEF Positions, Tools

LEMMA LastStep ==
    ASSUME Positions, ~Running
    PROVE  /\ tool = "prepare" => pos = 9
           /\ tool = "assets" => pos = 14
<1>1. CASE tool = "prepare"
  <2>1. Len(Program(tool)) = 8  BY <1>1, ProgramLength
  <2>2. pos = 9  BY <2>1 DEF Positions, Running
  <2>. QED  BY <1>1, <2>2
<1>2. CASE tool = "assets"
  <2>1. Len(Program(tool)) = 13  BY <1>2, ProgramLength
  <2>2. pos = 14  BY <2>1 DEF Positions, Running
  <2>. QED  BY <1>2, <2>2
<1>. QED  BY <1>1, <1>2

-----------------------------------------------------------------------------
(* The inductive invariant, in parts. *)
\* What was read whole or is absent, and identities of the past only.
Types ==
    /\ TypeOK
    /\ \A n \in Names : snap[n].data \in Contents \cup {Nothing}
    /\ \A n \in Entries :
         \/ file[n] = Absent
         \/ file[n].id \in 1 .. clock /\ file[n].data \in Contents \cup {Partial}
    /\ \A n \in Entries : wrote[n] <= clock
    /\ comparedAt <= clock

\* The operation a phase belongs to, and what the process has in its hands.
Control ==
    /\ phase = "reading" =>
         /\ Running /\ Current.op = "snapshot"
         /\ held.id \in 1 .. clock /\ held.data \in Contents
         /\ file[Current.entry].id = held.id => file[Current.entry] = held
    /\ phase = "writing" => Running /\ Current.op = "create" /\ own = Current.entry
    /\ phase \in {"staged", "compared"} =>
         Running /\ Current.op = "replace" /\ own = Temp
    /\ phase = "compared" =>
         \/ file[Current.entry] = Absent
         \/ file[Current.entry].id = snap[Current.entry].id
         \/ file[Current.entry].id > comparedAt
    /\ phase = "renamed" => Running /\ Current.op = "replace"
    /\ phase \in {"next", "reading", "renamed", "passed", "failed"} => own = None
    /\ phase = "passed" => ~Running
    /\ own # None => wrote[own] # 0
    /\ \A i \in DOMAIN made : wrote[made[i]] # 0

\* A partial file is the one that is being written, or was when it failed.
Partials ==
    \A n \in Entries : file[n].data = Partial =>
        \/ phase = "writing" /\ n = own /\ file[n].id = wrote[n]
        \/ phase \in {"undo", "failed", "killed"}

\* What was decided still holds of the snapshots.
Decisions ==
    /\ tool = "prepare" => given["requirements"] \in Requirements
    /\ tool = "prepare" /\ pos >= 2 => snap["requirements"].data = given["requirements"]
    /\ tool = "prepare" /\ pos >= 6 => Authentic(snap)
    /\ tool = "prepare" /\ pos >= 7 => Updatable(snap)
    /\ tool = "assets" /\ pos >= 5 => Authentic(snap)

TheReceipt == ReceiptFor(dispatched, given["requirements"])
TheUpdate == Rendered(given["requirements"], dispatched)
TheAsset(n) == [asset |-> n, of |-> EvidenceOf(snap)]

\* Entries that are still as the process wrote them.
Outcomes ==
    /\ tool = "prepare" =>
         /\ Ours("receipt") => file["receipt"].data \in {Partial, TheReceipt}
         /\ Ours("requirements") => file["requirements"].data = TheUpdate
         /\ phase \in {"staged", "compared"} =>
              file[Temp].id = wrote[Temp] /\ file[Temp].data = TheUpdate
         /\ pos >= 8 => wrote["receipt"] # 0
         /\ pos >= 9 \/ phase = "renamed" => wrote["requirements"] # 0
    /\ tool = "assets" => \A n \in Assets :
         /\ wrote[n] # 0 => pos >= 5
         /\ Ours(n) => file[n].data \in {Partial, TheAsset(n)}

\* Entries that are still as the process wrote them will be removed.
Cleanup ==
    /\ wrote["requirements"] = 0 => \A n \in Entries : Ours(n) =>
         \/ n = own \/ n \in left \/ \E i \in DOMAIN made : n = made[i]
    /\ phase = "failed" => \A i \in DOMAIN made : made[i] \in left

\* What an entry holds is what the process put there or came later, and the
\* process removes only outputs of its command and its temporary file.
Owned ==
    /\ \A n \in Entries : file[n] = Absent \/ wrote[n] <= file[n].id
    /\ own \in Outputs \cup {Temp, None}
    /\ \A i \in DOMAIN made : made[i] \in Outputs

Inv == Types /\ Control /\ Partials /\ Decisions /\ Outcomes /\ Cleanup /\ Owned

LEMMA NamesAre ==
    /\ Assets \subseteq Names
    /\ {"requirements", "receipt", "base", "evidence", "checksums", "bundle",
        "installed"} \subseteq Names
    /\ Names \subseteq Entries
    /\ Temp \in Entries /\ Temp \notin Names
    /\ \A n \in Entries : n = Temp \/ n \in Names
BY DEF Entries

LEMMA NoneIs == None \notin Entries
OBVIOUS

LEMMA ContentsAre ==
    /\ Requirements \subseteq Contents /\ Receipts \subseteq Contents
    /\ EvidenceFiles \subseteq Contents /\ ChecksumFiles \subseteq Contents
    /\ BundleFiles \subseteq Contents /\ AssetFiles \subseteq Contents
    /\ Trees \subseteq Contents
    /\ Partial \notin Contents /\ Torn \notin Contents
    /\ Nothing \notin Contents /\ Anything \notin Contents
BY DEF Contents

LEMMA FilesForFits ==
    ASSUME NEW n \in Names
    PROVE  FilesFor(n) \subseteq Contents
<1>1. CASE n \in Assets
  <2>1. FilesFor(n) = [asset : {n}, of : Evidences]  BY <1>1 DEF FilesFor, Assets
  <2>2. [asset : {n}, of : Evidences] \subseteq AssetFiles  BY <1>1 DEF AssetFiles
  <2>. QED  BY <2>1, <2>2, ContentsAre
<1>2. CASE n \notin Assets  BY <1>2, ContentsAre DEF FilesFor, Assets
<1>. QED  BY <1>1, <1>2

\* What prepare and verify-assets write.
LEMMA OutputIs ==
    ASSUME Types, Decisions, Running
    PROVE  /\ Current.op = "create" /\ tool = "prepare" => Output(Current.entry) = TheReceipt
           /\ Current.op = "replace" => Output(Current.entry) = TheUpdate
           /\ Current.op = "create" /\ tool = "assets" =>
                Output(Current.entry) = TheAsset(Current.entry)
           /\ Current.op \in {"create", "replace"} => Output(Current.entry) \in Contents
<1>p. StepFacts  BY StepIs DEF Types, TypeOK, Positions
<1>1. CASE Current.op = "create" /\ tool = "prepare"
  <2>1. Authentic(snap) /\ Updatable(snap) /\ Current.entry = "receipt"
    BY <1>1, <1>p DEF StepFacts, Decisions
  <2>2. EvidenceOf(snap) = dispatched /\ snap["requirements"].data = given["requirements"]
    BY <1>1, <1>p, <2>1 DEF StepFacts, Decisions, Updatable
  <2>3. Output("receipt") = TheReceipt  BY <2>2 DEF Output, TheReceipt
  <2>4. TheReceipt \in Receipts
    BY <1>1 DEF Decisions, Types, TypeOK, TheReceipt, ReceiptFor, Receipts
  <2>. QED  BY <1>1, <2>1, <2>3, <2>4, ContentsAre
<1>2. CASE Current.op = "replace"
  <2>1. Authentic(snap) /\ Updatable(snap) /\ Current.entry = "requirements" /\ tool = "prepare"
    BY <1>2, <1>p DEF StepFacts, Decisions
  <2>2. EvidenceOf(snap) = dispatched /\ snap["requirements"].data = given["requirements"]
    BY <1>2, <1>p, <2>1 DEF StepFacts, Decisions, Updatable
  <2>3. Output("requirements") = TheUpdate  BY <2>2 DEF Output, TheUpdate
  <2>4. TheUpdate \in Requirements
    BY <2>1 DEF Decisions, Types, TypeOK, TheUpdate, Rendered, Requirements
  <2>. QED  BY <1>2, <2>1, <2>3, <2>4, ContentsAre
<1>3. CASE Current.op = "create" /\ tool = "assets"
  <2>1. Authentic(snap) /\ Current.entry \in Assets
    BY <1>3, <1>p DEF StepFacts, Decisions
  <2>2. Output(Current.entry) = TheAsset(Current.entry)
    BY <2>1 DEF Output, TheAsset, Assets
  <2>3. EvidenceOf(snap) \in Evidences  BY <2>1 DEF Authentic, EvidenceFiles, EvidenceOf
  <2>4. TheAsset(Current.entry) \in AssetFiles  BY <2>1, <2>3 DEF TheAsset, AssetFiles
  <2>. QED  BY <1>3, <2>2, <2>4, ContentsAre
<1>. QED  BY <1>p, <1>1, <1>2, <1>3 DEF StepFacts

-----------------------------------------------------------------------------
LEMMA UsedNames ==
    ASSUME tool \in Tools
    PROVE  Used \subseteq Names
<1>1. ASSUME NEW i \in DOMAIN Program(tool) PROVE Program(tool)[i].entry \in Names
  <2>1. CASE tool = "prepare"
    <3>1. DOMAIN Prepare = 1 .. 8  BY DEF Prepare, Authentication
    <3>2. i \in 1 .. 8  BY <1>1, <2>1, <3>1, ProgramOf
    <3>. QED  BY <2>1, <3>2, PrepareSteps, ProgramOf DEF Step, Assets
  <2>2. CASE tool = "validate"
    <3>1. DOMAIN Validate = 1 .. 8  BY DEF Validate, Authentication
    <3>2. i \in 1 .. 8  BY <1>1, <2>2, <3>1, ProgramOf
    <3>3. CASE i \in 1 .. 7  BY <2>2, <3>3, ValidateSteps, ProgramOf DEF Step
    <3>4. CASE i = 8  BY <2>2, <3>4, ValidateSteps, ProgramOf DEF Step
    <3>. QED  BY <3>2, <3>3, <3>4
  <2>3. CASE tool = "assets"
    <3>1. DOMAIN VerifyAssets = 1 .. 13  BY DEF VerifyAssets, Authentication
    <3>2. i \in 1 .. 13  BY <1>1, <2>3, <3>1, ProgramOf
    <3>. QED  BY <2>3, <3>2, AssetsSteps, ProgramOf DEF Step, Assets
  <2>4. CASE tool = "version"
    <3>1. DOMAIN RequirementVersion = 1 .. 1  BY DEF RequirementVersion
    <3>2. i \in 1 .. 1  BY <1>1, <2>4, <3>1, ProgramOf
    <3>. QED  BY <2>4, <3>2, OtherSteps, ProgramOf DEF Step, Assets
  <2>5. CASE tool = "installed"
    <3>1. DOMAIN VerifyInstalled = 1 .. 3  BY DEF VerifyInstalled
    <3>2. i \in 1 .. 3  BY <1>1, <2>5, <3>1, ProgramOf
    <3>. QED  BY <2>5, <3>2, OtherSteps, ProgramOf DEF Step, Assets
  <2>. QED  BY <2>1, <2>2, <2>3, <2>4, <2>5 DEF Tools
<1>. QED  BY <1>1 DEF Used

LEMMA Initially == Init => Inv
<1>. SUFFICES ASSUME Init PROVE Inv  OBVIOUS
<1>. USE NamesAre
<1>1. tool \in Tools /\ pos = 1 /\ dispatched \in Evidences  BY DEF Init
<1>a. PICK release \in Evidences, other \in Evidences, req \in Requirements,
           base \in Requirements, old \in Outputs \cup {None} :
      \E from \in {base, req} :
        file = [n \in Entries |->
                  IF n \notin Used \/ (n \in Outputs /\ n # old) THEN Absent
                  ELSE [id |-> 1, data |-> StartData(n, release, req, base,
                                             ReceiptFor(other, from), other)]]
  BY Zenon DEF Init
<1>b. PICK from \in {base, req} :
        file = [n \in Entries |->
                  IF n \notin Used \/ (n \in Outputs /\ n # old) THEN Absent
                  ELSE [id |-> 1, data |-> StartData(n, release, req, base,
                                             ReceiptFor(other, from), other)]]
  BY <1>a
<1>2. /\ file = [n \in Entries |->
                  IF n \notin Used \/ (n \in Outputs /\ n # old) THEN Absent
                  ELSE [id |-> 1, data |-> StartData(n, release, req, base,
                                             ReceiptFor(other, from), other)]]
      /\ from \in Requirements
  BY <1>b
<1>3. Positions
  <2>1. Len(Program(tool)) \in Nat  BY <1>1, ProgramLength DEF Tools
  <2>. QED  BY <1>1, <2>1 DEF Positions
<1>4. Used \subseteq Names  BY <1>1, UsedNames
<1>5. ASSUME NEW n \in Names
      PROVE StartData(n, release, req, base, ReceiptFor(other, from), other) \in Contents
  <2>r. ReceiptFor(other, from) \in Receipts  BY DEF ReceiptFor, Receipts
  <2>. DEFINE d == StartData(n, release, req, base, ReceiptFor(other, from), other)
  <2>1. CASE n \in Assets
    <3>1. d = [asset |-> n, of |-> release]  BY <2>1 DEF StartData, Assets
    <3>. QED  BY <2>1, <3>1, ContentsAre DEF AssetFiles
  <2>2. CASE n \notin Assets
    BY <2>2, <2>r, ContentsAre DEF StartData, EvidenceFiles, ChecksumFiles, BundleFiles, Trees
  <2>. QED  BY <2>1, <2>2
<1>6. ASSUME NEW n \in Entries
      PROVE file[n] = Absent \/ (file[n].id = 1 /\ file[n].data \in Contents)
  BY <1>2, <1>4, <1>5
<1>7. file \in [Entries -> File]  BY <1>2, <1>4, <1>5 DEF File, Absent
<1>8. given \in [Names -> Contents \cup {Anything, Nothing}]
  <2>1. given = [n \in Names |-> IF n \in Digested THEN file[n].data ELSE Anything]  BY DEF Init
  <2>2. ASSUME NEW n \in Names PROVE file[n].data \in Contents \cup {Nothing}
    BY <1>6 DEF Absent
  <2>. QED  BY <2>1, <2>2
<1>9. tool = "prepare" => given["requirements"] \in Requirements
  <2>. SUFFICES ASSUME tool = "prepare" PROVE given["requirements"] \in Requirements  OBVIOUS
  <2>1. given["requirements"] = file["requirements"].data  BY DEF Init, Digested
  <2>2. "requirements" \in Used
    <3>1. 1 \in DOMAIN Prepare  BY DEF Prepare, Authentication
    <3>. QED  BY <3>1, PrepareSteps, ProgramOf DEF Used, Step
  <2>3. "requirements" \notin Outputs
    <3>1. ASSUME NEW i \in DOMAIN Prepare, Prepare[i].op = "create"
          PROVE Prepare[i].entry # "requirements"
      <4>1. i \in 1 .. 8  BY <3>1, PrepareSteps DEF Prepare, Authentication
      <4>. QED  BY <3>1, <4>1, PrepareSteps DEF Step
    <3>. QED  BY <3>1, ProgramOf DEF Outputs
  <2>4. file["requirements"] = [id |-> 1, data |-> req]
    BY <1>2, <2>2, <2>3 DEF StartData
  <2>. QED  BY <2>1, <2>4
<1>10. /\ clock = 1 /\ phase = "next" /\ held = Absent /\ own = None /\ made = <<>>
       /\ wrote = [n \in Entries |-> 0] /\ snap = [n \in Names |-> Absent]
       /\ comparedAt = 0 /\ left = {} /\ edits = 0 /\ faults = 0
  BY DEF Init, FilesInit
<1>11. Types
  <2>1. TypeOK
    BY <1>1, <1>3, <1>7, <1>8, <1>10 DEF TypeOK, Positions, Phases, Absent, File
  <2>. QED  BY <2>1, <1>6, <1>10 DEF Types, Absent
<1>12. Control  BY <1>10 DEF Control
<1>13. Partials  BY <1>6, ContentsAre DEF Partials, Absent
<1>14. Decisions  BY <1>1, <1>9 DEF Decisions
<1>15. Outcomes  BY <1>1, <1>10 DEF Outcomes, Ours, Assets
<1>16. Cleanup  BY <1>10 DEF Cleanup, Ours
<1>17. Owned
  <2>1. \A n \in Entries : file[n] = Absent \/ wrote[n] <= file[n].id  BY <1>6, <1>10
  <2>. QED  BY <2>1, <1>10 DEF Owned
<1>. QED  BY <1>11, <1>12, <1>13, <1>14, <1>15, <1>16, <1>17 DEF Inv

-----------------------------------------------------------------------------
LEMMA MoreThanClock ==
    ASSUME Types
    PROVE  /\ clock \in Nat /\ clock + 1 \in Nat /\ clock < clock + 1
           /\ \A n \in Entries : file[n].id \in 0 .. clock /\ wrote[n] \in 0 .. clock
           /\ \A n \in Entries : file[n].id # clock + 1 /\ wrote[n] # clock + 1
BY DEF Types, TypeOK, File, Absent

\* One entry gets a new file, or none.
LEMMA PutFile ==
    ASSUME Types, NEW n \in Entries, NEW d \in Contents \cup {Partial},
           clock' = clock + 1,
           file' = [file EXCEPT ![n] = [id |-> clock + 1, data |-> d]] \/ file' = file
    PROVE  /\ file' \in [Entries -> File] /\ clock' \in Nat
           /\ \A m \in Entries : \/ file'[m] = Absent
                                 \/ /\ file'[m].id \in 1 .. clock'
                                    /\ file'[m].data \in Contents \cup {Partial}
<1>1. \A m \in Entries : file[m].id \in 1 .. clock => file[m].id \in 1 .. clock'
  BY MoreThanClock DEF Types, TypeOK
<1>2. file' \in [Entries -> File]
  <2>1. [id |-> clock + 1, data |-> d] \in File  BY MoreThanClock DEF File
  <2>2. file \in [Entries -> File]  BY DEF Types, TypeOK
  <2>. QED  BY <2>1, <2>2
<1>3. clock + 1 \in 1 .. clock'  BY MoreThanClock
<1>4. ASSUME NEW m \in Entries
      PROVE  \/ file'[m] = Absent
             \/ file'[m].id \in 1 .. clock' /\ file'[m].data \in Contents \cup {Partial}
  <2>1. CASE file'[m] = file[m]  BY <2>1, <1>1 DEF Types
  <2>2. CASE file'[m] = [id |-> clock + 1, data |-> d]  BY <2>2, <1>3
  <2>. QED  BY <2>1, <2>2 DEF Types, TypeOK
<1>. QED  BY <1>2, <1>4, MoreThanClock

LEMMA DropFile ==
    ASSUME Types, NEW n \in Entries, clock' = clock, file' = Gone(n) \/ file' = file
    PROVE  /\ file' \in [Entries -> File]
           /\ \A m \in Entries : \/ file'[m] = Absent
                                 \/ /\ file'[m].id \in 1 .. clock'
                                    /\ file'[m].data \in Contents \cup {Partial}
<1>1. file' \in [Entries -> File]
  <2>1. Absent \in File  BY DEF File, Absent
  <2>2. file \in [Entries -> File]  BY DEF Types, TypeOK
  <2>. QED  BY <2>1, <2>2 DEF Gone
<1>2. \A m \in Entries : file'[m] = file[m] \/ file'[m] = Absent
  BY DEF Types, TypeOK, Gone
<1>. QED  BY <1>1, <1>2 DEF Types

TypesRest ==
    /\ edits \in 0 .. MaxEdits /\ faults \in 0 .. MaxFaults
    /\ phase \in Phases
    /\ held \in File
    /\ own \in Entries \cup {None}
    /\ made \in Seq(Names)
    /\ left \in SUBSET Entries
    /\ tool \in Tools
    /\ pos \in 1 .. Len(Program(tool)) + 1
    /\ given \in [Names -> Contents \cup {Anything, Nothing}]
    /\ dispatched \in Evidences
TypesFile ==
    /\ file \in [Entries -> File] /\ clock \in Nat
    /\ \A n \in Entries :
         \/ file[n] = Absent
         \/ file[n].id \in 1 .. clock /\ file[n].data \in Contents \cup {Partial}
TypesSnap ==
    /\ snap \in [Names -> [id : Nat, data : Contents \cup {Nothing}]]
    /\ wrote \in [Entries -> Nat] /\ \A n \in Entries : wrote[n] <= clock
    /\ comparedAt \in Nat /\ comparedAt <= clock

LEMMA TypesParts == Types <=> TypesRest /\ TypesFile /\ TypesSnap
<1>1. ASSUME Types PROVE TypesRest /\ TypesFile /\ TypesSnap
  <2>1. TypesSnap
    <3>1. snap \in [Names -> [id : Nat, data : Contents \cup {Nothing}]]
      BY <1>1 DEF Types, TypeOK
    <3>. QED  BY <1>1, <3>1 DEF Types, TypeOK, TypesSnap
  <2>. QED  BY <1>1, <2>1 DEF Types, TypeOK, TypesRest, TypesFile
<1>2. ASSUME TypesRest /\ TypesFile /\ TypesSnap PROVE Types
  <2>1. /\ snap \in [Names -> [id : Nat, data : Contents \cup {Partial, Torn, Nothing}]]
        /\ \A n \in Names : snap[n].data \in Contents \cup {Nothing}
    BY <1>2 DEF TypesSnap
  <2>. QED  BY <1>2, <2>1 DEF Types, TypeOK, TypesRest, TypesFile, TypesSnap
<1>. QED  BY <1>1, <1>2

LEMMA PutIn ==
    ASSUME NEW S, NEW T, NEW f \in [S -> T], NEW x, NEW y \in T
    PROVE  [f EXCEPT ![x] = y] \in [S -> T]
OBVIOUS

\* At an operation: its entry, and the position after it.
LEMMA AtStep ==
    ASSUME Types, NEW op, At(op)
    PROVE  /\ Running /\ StepFacts /\ Current.op = op
           /\ Current.entry \in Names /\ Current.entry \in Entries /\ Current.entry # Temp
           /\ pos \in Nat /\ pos >= 1
           /\ Done \/ Stay => pos' \in 1 .. Len(Program(tool')) + 1
           /\ tool' = tool /\ given' = given /\ dispatched' = dispatched
<1>1. Positions /\ Running  BY DEF Types, TypeOK, Positions, At
<1>2. StepFacts  BY <1>1, StepIs
<1>3. Len(Program(tool)) \in Nat  BY ProgramLength DEF Types, TypeOK, Tools
<1>4. pos \in 1 .. Len(Program(tool))  BY <1>1, <1>3 DEF Positions, Running
<1>5. tool' = tool  BY DEF At
<1>6. Done \/ Stay => pos' \in 1 .. Len(Program(tool)) + 1  BY <1>3, <1>4 DEF Done, Stay
<1>. QED  BY <1>1, <1>2, <1>4, <1>5, <1>6, NamesAre DEF StepFacts, At

LEMMA TypesStep == Inv /\ [Next]_vars => Types'
<1>. SUFFICES ASSUME Inv, [Next]_vars PROVE Types'  OBVIOUS
<1>. USE NamesAre
<1>i. Types /\ TypesRest /\ TypesFile /\ TypesSnap  BY TypesParts DEF Inv
<1>q. SUFFICES TypesRest' /\ TypesFile' /\ TypesSnap'
  BY PTL, TypesParts
<1>1. CASE UNCHANGED vars
  BY <1>i, <1>1 DEF vars, fileVars, disk, process, TypesRest, TypesFile, TypesSnap
<1>2. CASE Open
  <2>1. At("snapshot") /\ OpenSource(Current.entry) /\ Stay  BY <1>2 DEF Open
  <2>2. Current.entry \in Entries /\ pos' \in 1 .. Len(Program(tool')) + 1
    BY <2>1, <1>i, AtStep
  <2>. QED
    BY <1>i, <2>1, <2>2 DEF OpenSource, disk, At, TypesRest, TypesFile, TypesSnap, Phases
<1>3. CASE Snapshot
  <2>1. At("snapshot") /\ TakeSnapshot(Current.entry) /\ Done  BY <1>3 DEF Snapshot
  <2>2. Current.entry \in Names /\ pos' \in 1 .. Len(Program(tool')) + 1
    BY <2>1, <1>i, AtStep
  <2>3. TypesSnap'
    <3>1. phase = "reading" /\ SourceUnchanged(Current.entry)  BY <2>1 DEF TakeSnapshot
    <3>2. held.id \in Nat /\ held.data \in Contents /\ file[Current.entry] = held
      BY <3>1, <1>i DEF Inv, Control, SourceUnchanged, TypesFile, TypesRest, File
    <3>3. ReadBack(Current.entry) = held.data  BY <3>2 DEF ReadBack
    <3>4. snap' = [snap EXCEPT ![Current.entry] = [id |-> held.id, data |-> held.data]]
      BY <2>1, <3>3 DEF TakeSnapshot
    <3>5. [id |-> held.id, data |-> held.data] \in [id : Nat, data : Contents \cup {Nothing}]
      BY <3>2
    <3>6. snap' \in [Names -> [id : Nat, data : Contents \cup {Nothing}]]
      BY <1>i, <3>4, <3>5, PutIn DEF TypesSnap
    <3>. QED  BY <1>i, <2>1, <3>6 DEF TakeSnapshot, TypesSnap, disk
  <2>. QED
    BY <1>i, <2>1, <2>2, <2>3 DEF TakeSnapshot, disk, At, TypesRest, TypesFile, Phases, Absent, File
<1>4. CASE Check
  <2>1. At("check") /\ Done /\ UNCHANGED fileVars  BY <1>4 DEF Check
  <2>2. pos' \in 1 .. Len(Program(tool')) + 1  BY <2>1, <1>i, AtStep
  <2>. QED
    BY <1>i, <2>1, <2>2 DEF fileVars, disk, process, At, TypesRest, TypesFile, TypesSnap
<1>5. CASE Create
  <2>1. At("create") /\ CreateExclusive(Current.entry) /\ Stay  BY <1>5 DEF Create
  <2>2. Current.entry \in Entries /\ pos' \in 1 .. Len(Program(tool')) + 1
    BY <2>1, <1>i, AtStep
  <2>3. TypesFile'
    BY <1>i, <2>1, <2>2, PutFile DEF CreateExclusive, TypesFile
  <2>4. TypesSnap'
    BY <1>i, <2>1, <2>2, MoreThanClock DEF CreateExclusive, TypesSnap
  <2>. QED
    BY <1>i, <2>1, <2>2, <2>3, <2>4 DEF CreateExclusive, At, TypesRest, Phases
<1>6. CASE Fill
  <2>1. At("create") /\ FillCreated(Output(Current.entry)) /\ Done  BY <1>6 DEF Fill
  <2>2. /\ Current.entry \in Names /\ pos' \in 1 .. Len(Program(tool')) + 1
        /\ Running /\ Current.op = "create"
    BY <2>1, <1>i, AtStep
  <2>3. own = Current.entry  BY <2>1 DEF Inv, Control, FillCreated
  <2>4. Output(Current.entry) \in Contents  BY <2>2, OutputIs DEF Inv
  <2>5. TypesFile'
    <3>1. \/ file' = [file EXCEPT ![own] = [id |-> clock + 1, data |-> Output(Current.entry)]]
          \/ file' = file
      BY <2>1 DEF FillCreated
    <3>. QED  BY <1>i, <2>1, <2>2, <2>3, <2>4, <3>1, PutFile DEF FillCreated, TypesFile
  <2>6. TypesSnap'
    <3>1. /\ wrote' = [wrote EXCEPT ![Current.entry] = clock + 1] \/ wrote' = wrote
          /\ clock' = clock + 1 /\ snap' = snap /\ comparedAt' = comparedAt
      BY <2>1, <2>3 DEF FillCreated
    <3>. QED  BY <1>i, <2>2, <3>1, MoreThanClock DEF TypesSnap
  <2>7. made' \in Seq(Names)  BY <1>i, <2>1, <2>2, <2>3 DEF FillCreated, TypesRest
  <2>. QED
    BY <1>i, <2>1, <2>2, <2>5, <2>6, <2>7 DEF FillCreated, At, TypesRest, Phases
<1>7. CASE Stage
  <2>1. At("replace") /\ StageReplacement(Output(Current.entry)) /\ Stay  BY <1>7 DEF Stage
  <2>2. pos' \in 1 .. Len(Program(tool')) + 1 /\ Running /\ Current.op = "replace"
    BY <2>1, <1>i, AtStep
  <2>3. Output(Current.entry) \in Contents  BY <2>2, OutputIs DEF Inv
  <2>4. TypesFile'
    BY <1>i, <2>1, <2>3, PutFile DEF StageReplacement, TypesFile
  <2>5. TypesSnap'
    BY <1>i, <2>1, MoreThanClock DEF StageReplacement, TypesSnap
  <2>. QED
    BY <1>i, <2>1, <2>2, <2>4, <2>5 DEF StageReplacement, At, TypesRest, Phases
<1>8. CASE Compare
  <2>1. At("replace") /\ CompareSource(Current.entry) /\ Stay  BY <1>8 DEF Compare
  <2>2. pos' \in 1 .. Len(Program(tool')) + 1  BY <2>1, <1>i, AtStep
  <2>. QED
    BY <1>i, <2>1, <2>2 DEF CompareSource, disk, At, TypesRest, TypesFile, TypesSnap, Phases
<1>9. CASE Rename
  <2>1. At("replace") /\ RenameOver(Current.entry) /\ Stay  BY <1>9 DEF Rename
  <2>2. Current.entry \in Entries /\ pos' \in 1 .. Len(Program(tool')) + 1
    BY <2>1, <1>i, AtStep
  <2>3. TypesFile'
    <3>1. file' = [file EXCEPT ![Current.entry] = file[Temp], ![Temp] = Absent]
      BY <2>1 DEF RenameOver
    <3>2. file[Temp] \in File /\ Absent \in File  BY <1>i DEF TypesFile, File, Absent
    <3>3. file' \in [Entries -> File]  BY <1>i, <3>1, <3>2 DEF TypesFile
    <3>4. \A n \in Entries : \E m \in Entries : file'[n] = file[m] \/ file'[n] = Absent
      BY <1>i, <2>2, <3>1 DEF TypesFile
    <3>5. clock' = clock  BY <2>1 DEF RenameOver
    <3>. QED  BY <1>i, <3>3, <3>4, <3>5 DEF TypesFile
  <2>4. TypesSnap'
    <3>1. /\ wrote' = [wrote EXCEPT ![Current.entry] = file[Temp].id, ![Temp] = 0]
          /\ UNCHANGED <<clock, snap, comparedAt>>
      BY <2>1 DEF RenameOver
    <3>2. file[Temp].id \in 0 .. clock  BY <1>i, MoreThanClock
    <3>3. wrote' \in [Entries -> Nat] /\ \A n \in Entries : wrote'[n] <= clock
      BY <1>i, <2>2, <3>1, <3>2 DEF TypesSnap, TypesFile
    <3>. QED  BY <1>i, <3>1, <3>3 DEF TypesSnap
  <2>. QED
    BY <1>i, <2>1, <2>2, <2>3, <2>4 DEF RenameOver, At, TypesRest, Phases
<1>10. CASE Confirm
  <2>1. At("replace") /\ ConfirmReplacement(Current.entry) /\ Done  BY <1>10 DEF Confirm
  <2>2. pos' \in 1 .. Len(Program(tool')) + 1  BY <2>1, <1>i, AtStep
  <2>. QED
    BY <1>i, <2>1, <2>2 DEF ConfirmReplacement, disk, At, TypesRest, TypesFile, TypesSnap, Phases
<1>11. CASE Refuse
  <2>1. /\ phase' = "undo" /\ held' = Absent
        /\ UNCHANGED <<disk, faults, snap, wrote, own, made, left, comparedAt>>
        /\ UNCHANGED <<tool, pos, given, dispatched>>
    BY <1>11 DEF Refuse, Fail, Stay, At
  <2>. QED
    BY <1>i, <2>1 DEF disk, TypesRest, TypesFile, TypesSnap, Phases, Absent, File
<1>12. CASE Finish
  <2>1. phase' = "passed" /\ UNCHANGED <<disk, faults, process, tool, pos, given, dispatched>>
    BY <1>12 DEF Finish, Pass
  <2>. QED
    BY <1>i, <2>1 DEF disk, process, TypesRest, TypesFile, TypesSnap, Phases
<1>13. CASE Interrupted
  <2>0. UNCHANGED <<tool, pos, given, dispatched>>  BY <1>13 DEF Interrupted
  <2>1. CASE Raise
    BY <1>i, <2>0, <2>1
    DEF Raise, Fail, disk, TypesRest, TypesFile, TypesSnap, Phases, Absent, File
  <2>2. CASE Kill
    BY <1>i, <2>0, <2>2 DEF Kill, disk, process, TypesRest, TypesFile, TypesSnap, Phases
  <2>3. CASE RemoveOwn
    <3>1. own \in Entries  BY <1>i, <2>3 DEF RemoveOwn, TypesRest
    <3>2. TypesFile'  BY <1>i, <2>3, <3>1, DropFile DEF RemoveOwn, TypesFile
    <3>. QED  BY <1>i, <2>0, <2>3, <3>1, <3>2 DEF RemoveOwn, TypesRest, TypesSnap, Phases
  <2>4. CASE RemoveMade
    <3>1. /\ made[Len(made)] \in Names /\ Earlier(made) \in Seq(Names)
          /\ {made[i] : i \in DOMAIN made} \subseteq Names
      BY <1>i, <2>4 DEF RemoveMade, TypesRest, Earlier
    <3>2. TypesFile'  BY <1>i, <2>4, <3>1, DropFile DEF RemoveMade, TypesFile
    <3>. QED  BY <1>i, <2>0, <2>4, <3>1, <3>2 DEF RemoveMade, TypesRest, TypesSnap, Phases
  <2>5. CASE Undone
    BY <1>i, <2>0, <2>5 DEF Undone, disk, process, TypesRest, TypesFile, TypesSnap, Phases
  <2>. QED  BY <1>13, <2>1, <2>2, <2>3, <2>4, <2>5 DEF Interrupted
<1>14. CASE OtherProcess
  <2>0. UNCHANGED <<tool, pos, given, dispatched>>  BY <1>14 DEF OtherProcess
  <2>1. PICK n \in Used : Remove(n) \/ \E d \in FilesFor(n) : Edit(n, d)
    BY <1>14 DEF OtherProcess
  <2>2. n \in Names  BY <1>i, <2>1, UsedNames DEF TypesRest
  <2>3. CASE Remove(n)
    <3>1. TypesFile'
      BY <1>i, <2>2, <2>3, DropFile DEF Remove, Gone, TypesFile
    <3>. QED  BY <1>i, <2>0, <2>3, <3>1 DEF Remove, process, TypesRest, TypesSnap
  <2>4. ASSUME NEW d \in FilesFor(n), Edit(n, d) PROVE TypesRest' /\ TypesFile' /\ TypesSnap'
    <3>1. d \in Contents  BY <2>2, FilesForFits
    <3>2. TypesFile'  BY <1>i, <2>2, <2>4, <3>1, PutFile DEF Edit, TypesFile
    <3>3. TypesSnap'
      BY <1>i, <2>4, MoreThanClock DEF Edit, process, TypesSnap
    <3>. QED  BY <1>i, <2>0, <2>4, <3>2, <3>3 DEF Edit, process, TypesRest
  <2>. QED  BY <2>1, <2>3, <2>4
<1>. QED
  BY <1>1, <1>2, <1>3, <1>4, <1>5, <1>6, <1>7, <1>8, <1>9, <1>10, <1>11, <1>12, <1>13,
     <1>14 DEF Next

-----------------------------------------------------------------------------
LEMMA MadeAreNames ==
    ASSUME Types
    PROVE  /\ made \in Seq(Names) /\ \A i \in DOMAIN made : made[i] \in Names
           /\ file \in [Entries -> File] /\ wrote \in [Entries -> Nat]
           /\ clock \in Nat /\ comparedAt \in Nat /\ comparedAt <= clock
BY DEF Types, TypeOK

\* The variables of the program do not move.
Holds == UNCHANGED <<tool, pos, given, dispatched>>

LEMMA HoldsCurrent == Holds => Running' = Running /\ Current' = Current
BY DEF Holds, Running, Current

LEMMA ControlStep == Inv /\ [Next]_vars => Control'
<1>. SUFFICES ASSUME Inv, [Next]_vars PROVE Control'  OBVIOUS
<1>. USE NamesAre
<1>i. Types /\ Control /\ Partials  BY DEF Inv
<1>m. /\ made \in Seq(Names) /\ \A i \in DOMAIN made : made[i] \in Names
      /\ file \in [Entries -> File] /\ wrote \in [Entries -> Nat]
      /\ clock \in Nat /\ comparedAt \in Nat /\ comparedAt <= clock
  BY <1>i, MadeAreNames
<1>n. None \notin Entries  OBVIOUS
<1>1. CASE UNCHANGED vars
  BY <1>i, <1>1 DEF vars, fileVars, disk, process, Control, Running, Current
<1>2. CASE Open
  <2>1. At("snapshot") /\ OpenSource(Current.entry) /\ Stay  BY <1>2 DEF Open
  <2>2. Running /\ Current.op = "snapshot" /\ Current.entry \in Names  BY <2>1, <1>i, AtStep
  <2>3. Running' /\ Current' = Current  BY <2>1, <2>2, HoldsCurrent DEF At, Stay, Holds
  <2>4. file[Current.entry].data # Partial
    BY <1>i, <2>1, <2>2 DEF Partials, OpenSource
  <2>5. held'.id \in 1 .. clock /\ held'.data \in Contents /\ held' = file[Current.entry]
    BY <1>i, <2>1, <2>2, <2>4 DEF OpenSource, Types
  <2>. QED  BY <1>i, <2>1, <2>2, <2>3, <2>5 DEF OpenSource, disk, Control
<1>3. CASE Snapshot
  BY <1>i, <1>3 DEF Snapshot, TakeSnapshot, disk, Control
<1>4. CASE Check
  BY <1>i, <1>4 DEF Check, fileVars, disk, process, Control
<1>5. CASE Create
  <2>1. At("create") /\ CreateExclusive(Current.entry) /\ Stay  BY <1>5 DEF Create
  <2>2. Running /\ Current.op = "create" /\ Current.entry \in Names  BY <2>1, <1>i, AtStep
  <2>3. Running' /\ Current' = Current  BY <2>1, <2>2, HoldsCurrent DEF At, Stay, Holds
  <2>4. wrote' = [wrote EXCEPT ![Current.entry] = clock + 1] /\ clock + 1 # 0
    BY <1>m, <2>1 DEF CreateExclusive
  <2>. QED  BY <1>i, <1>m, <2>1, <2>2, <2>3, <2>4 DEF CreateExclusive, Control
<1>6. CASE Fill
  <2>1. At("create") /\ FillCreated(Output(Current.entry)) /\ Done  BY <1>6 DEF Fill
  <2>2. own = Current.entry /\ own \in Names
    BY <1>i, <2>1, AtStep DEF Control, FillCreated
  <2>3. /\ wrote' = [wrote EXCEPT ![own] = clock + 1] \/ wrote' = wrote
        /\ clock + 1 # 0 /\ wrote[own] # 0
        /\ made' = Append(made, own) /\ own' = None /\ phase' = "next"
    BY <1>i, <1>m, <2>1, <2>2, NoneIs DEF FillCreated, Control
  <2>4. ASSUME NEW i \in DOMAIN made' PROVE wrote'[made'[i]] # 0
    <3>1. CASE i \in DOMAIN made
      <4>1. made'[i] = made[i]  BY <1>m, <2>3, <3>1
      <4>2. wrote[made[i]] # 0  BY <1>i, <3>1 DEF Control
      <4>. QED  BY <1>m, <2>2, <2>3, <3>1, <4>1, <4>2
    <3>2. CASE i \notin DOMAIN made
      <4>1. made'[i] = own  BY <1>m, <2>2, <2>3, <3>2
      <4>. QED  BY <1>m, <2>2, <2>3, <4>1
    <3>. QED  BY <3>1, <3>2
  <2>. QED  BY <2>3, <2>4 DEF Control
<1>7. CASE Stage
  <2>1. At("replace") /\ StageReplacement(Output(Current.entry)) /\ Stay  BY <1>7 DEF Stage
  <2>2. Running /\ Current.op = "replace"  BY <2>1, <1>i, AtStep
  <2>3. Running' /\ Current' = Current  BY <2>1, <2>2, HoldsCurrent DEF At, Stay, Holds
  <2>4. wrote' = [wrote EXCEPT ![Temp] = clock + 1] /\ clock + 1 # 0
    BY <1>m, <2>1 DEF StageReplacement
  <2>. QED  BY <1>i, <1>m, <2>1, <2>2, <2>3, <2>4 DEF StageReplacement, Control
<1>8. CASE Compare
  <2>1. At("replace") /\ CompareSource(Current.entry) /\ Stay  BY <1>8 DEF Compare
  <2>2. Running' = Running /\ Current' = Current  BY <2>1, HoldsCurrent DEF At, Stay, Holds
  <2>3. file[Current.entry].id = snap[Current.entry].id
    BY <2>1 DEF CompareSource, SourceIsSnapshot
  <2>. QED  BY <1>i, <2>1, <2>2, <2>3 DEF CompareSource, disk, Control
<1>9. CASE Rename
  <2>1. At("replace") /\ RenameOver(Current.entry) /\ Stay  BY <1>9 DEF Rename
  <2>2. Current.entry \in Names /\ tool = "prepare"
    BY <2>1, <1>i, AtStep DEF StepFacts
  <2>3. Running' = Running /\ Current' = Current  BY <2>1, HoldsCurrent DEF At, Stay, Holds
  <2>4. file[Temp].id # 0
    BY <2>1, <2>2 DEF Inv, Outcomes, Control, RenameOver
  <2>5. wrote' = [wrote EXCEPT ![Current.entry] = file[Temp].id, ![Temp] = 0]
    BY <2>1 DEF RenameOver
  <2>6. \A i \in DOMAIN made : wrote'[made[i]] # 0
    BY <1>i, <1>m, <2>2, <2>4, <2>5 DEF Control
  <2>. QED  BY <1>i, <2>1, <2>3, <2>6 DEF RenameOver, Control
<1>10. CASE Confirm
  BY <1>i, <1>10 DEF Confirm, ConfirmReplacement, disk, Control
<1>11. CASE Refuse
  <2>1. phase' = "undo" /\ UNCHANGED <<wrote, own, made>>
    BY <1>11 DEF Refuse, Fail, Stay, At
  <2>. QED  BY <1>i, <2>1 DEF Control
<1>12. CASE Finish
  <2>1. ~Running' /\ phase' = "passed" /\ phase = "next" /\ UNCHANGED <<wrote, own, made>>
    BY <1>12, HoldsCurrent DEF Finish, Pass, process, Holds
  <2>. QED  BY <1>i, <2>1 DEF Control
<1>13. CASE Interrupted
  <2>1. CASE Raise \/ Kill
    <3>1. phase' \in {"undo", "killed"} /\ UNCHANGED <<wrote, own, made>>
      BY <2>1 DEF Raise, Kill, Fail, process
    <3>. QED  BY <1>i, <3>1 DEF Control
  <2>2. CASE RemoveOwn
    BY <1>i, <2>2 DEF RemoveOwn, Control
  <2>3. CASE RemoveMade
    <3>1. \A i \in DOMAIN made' : wrote'[made'[i]] # 0
      <4>1. CASE made' = made  BY <1>i, <2>3, <4>1 DEF RemoveMade, Control
      <4>2. CASE made' = Earlier(made)
        <5>1. \A i \in DOMAIN made' : i \in DOMAIN made /\ made'[i] = made[i]
          BY <1>m, <4>2 DEF Earlier
        <5>. QED  BY <1>i, <2>3, <5>1 DEF RemoveMade, Control
      <4>. QED  BY <2>3, <4>1, <4>2 DEF RemoveMade
    <3>. QED  BY <1>i, <2>3, <3>1 DEF RemoveMade, Control
  <2>4. CASE Undone
    BY <1>i, <2>4 DEF Undone, process, Control
  <2>. QED  BY <1>13, <2>1, <2>2, <2>3, <2>4 DEF Interrupted
<1>14. CASE OtherProcess
  <2>1. Running' = Running /\ Current' = Current /\ UNCHANGED <<phase, held, snap, wrote, own, made, comparedAt>>
    BY <1>14, HoldsCurrent DEF OtherProcess, Holds, Edit, Remove, process
  <2>2. PICK n \in Used : Remove(n) \/ \E d \in FilesFor(n) : Edit(n, d)
    BY <1>14 DEF OtherProcess
  <2>3. n \in Names  BY <1>i, <2>2, UsedNames DEF Types, TypeOK
  <2>4. ASSUME NEW e \in Entries
        PROVE  \/ file'[e] = file[e] \/ file'[e] = Absent
               \/ file'[e].id = clock + 1
    BY <1>m, <2>2, <2>3 DEF Edit, Remove
  <2>5. clock' \in {clock, clock + 1}  BY <2>2 DEF Edit, Remove
  <2>6. phase = "reading" => /\ held.id \in 1 .. clock'
                             /\ file'[Current.entry].id = held.id => file'[Current.entry] = held
    <3>. HAVE phase = "reading"
    <3>1. Current.entry \in Entries
      BY <1>i, StepIs DEF Control, Types, TypeOK, Positions, StepFacts
    <3>2. held.id \in 1 .. clock  BY <1>i DEF Control
    <3>3. held.id # clock + 1 /\ held.id # 0 /\ held.id \in 1 .. clock'
      BY <1>m, <2>5, <3>2
    <3>. QED  BY <1>i, <2>4, <3>1, <3>3 DEF Control, Absent
  <2>7. phase = "compared" => \/ file'[Current.entry] = Absent
                              \/ file'[Current.entry].id = snap[Current.entry].id
                              \/ file'[Current.entry].id > comparedAt
    <3>. HAVE phase = "compared"
    <3>1. Current.entry \in Entries
      BY <1>i, StepIs DEF Control, Types, TypeOK, Positions, StepFacts
    <3>2. clock + 1 > comparedAt  BY <1>m
    <3>. QED  BY <1>i, <2>4, <3>1, <3>2 DEF Control
  <2>. QED  BY <1>i, <2>1, <2>6, <2>7 DEF Control
<1>. QED
  BY <1>1, <1>2, <1>3, <1>4, <1>5, <1>6, <1>7, <1>8, <1>9, <1>10, <1>11, <1>12, <1>13,
     <1>14 DEF Next

LEMMA PartialsStep == Inv /\ [Next]_vars => Partials'
<1>. SUFFICES ASSUME Inv, [Next]_vars PROVE Partials'  OBVIOUS
<1>. USE NamesAre, ContentsAre
<1>i. Types /\ Control /\ Partials  BY DEF Inv
<1>m. file \in [Entries -> File] /\ wrote \in [Entries -> Nat]
  BY <1>i, MadeAreNames
<1>a. Absent.data # Partial  BY DEF Absent
<1>1. ASSUME UNCHANGED <<file, wrote, own>>, phase = "writing" => phase' \in {"writing", "undo", "killed"},
             phase \in {"undo", "failed", "killed"} => phase' \in {"undo", "failed", "killed"}
      PROVE Partials'
  BY <1>i, <1>1 DEF Partials
<1>2. CASE UNCHANGED vars  BY <1>1, <1>2 DEF vars, fileVars, disk, process
<1>3. CASE Open \/ Snapshot \/ Check \/ Compare \/ Confirm \/ Refuse \/ Finish
  BY <1>1, <1>3
  DEF Open, Snapshot, Check, Compare, Confirm, Refuse, Finish, OpenSource, TakeSnapshot,
      CompareSource, ConfirmReplacement, Fail, Pass, fileVars, disk, process
<1>4. CASE Create
  <2>1. At("create") /\ CreateExclusive(Current.entry)  BY <1>4 DEF Create
  <2>2. Current.entry \in Names  BY <2>1, <1>i, AtStep
  <2>. QED  BY <1>i, <1>m, <2>1, <2>2 DEF CreateExclusive, Partials
<1>5. CASE Fill
  <2>1. At("create") /\ FillCreated(Output(Current.entry))  BY <1>5 DEF Fill
  <2>2. Running /\ Current.op = "create"  BY <2>1, <1>i, AtStep
  <2>3. Output(Current.entry) # Partial  BY <2>2, OutputIs DEF Inv
  <2>4. phase = "writing" /\ own \in Entries /\ phase' = "next"
    BY <1>i, <2>1, AtStep DEF FillCreated, Control
  <2>5. \A n \in Entries : file'[n].data # Partial
    BY <1>i, <1>m, <2>1, <2>3, <2>4 DEF FillCreated, Partials
  <2>. QED  BY <2>5 DEF Partials
<1>6. CASE Stage
  <2>1. At("replace") /\ StageReplacement(Output(Current.entry))  BY <1>6 DEF Stage
  <2>2. Running /\ Current.op = "replace"  BY <2>1, <1>i, AtStep
  <2>3. Output(Current.entry) # Partial  BY <2>2, OutputIs DEF Inv
  <2>. QED  BY <1>i, <1>m, <2>1, <2>3 DEF StageReplacement, Partials
<1>7. CASE Rename
  <2>1. At("replace") /\ RenameOver(Current.entry)  BY <1>7 DEF Rename
  <2>2. Current.entry \in Names  BY <2>1, <1>i, AtStep
  <2>3. \A n \in Entries : file[n].data # Partial
    BY <1>i, <2>1 DEF RenameOver, Partials
  <2>. QED  BY <1>m, <1>a, <2>1, <2>2, <2>3 DEF RenameOver, Partials
<1>8. CASE Interrupted
  <2>1. CASE Raise \/ Kill \/ Undone
    BY <1>1, <2>1 DEF Raise, Kill, Undone, Fail, disk, process
  <2>2. CASE RemoveOwn \/ RemoveMade
    BY <2>2 DEF RemoveOwn, RemoveMade, Partials
  <2>. QED  BY <1>8, <2>1, <2>2 DEF Interrupted
<1>9. CASE OtherProcess
  <2>1. UNCHANGED <<phase, wrote, own>>  BY <1>9 DEF OtherProcess, Edit, Remove, process
  <2>2. PICK n \in Used : Remove(n) \/ \E d \in FilesFor(n) : Edit(n, d)
    BY <1>9 DEF OtherProcess
  <2>3. n \in Names  BY <1>i, <2>2, UsedNames DEF Types, TypeOK
  <2>4. FilesFor(n) \subseteq Contents  BY <2>3, FilesForFits
  <2>5. ASSUME NEW e \in Entries PROVE file'[e] = file[e] \/ file'[e].data # Partial
    BY <1>m, <1>a, <2>2, <2>3, <2>4 DEF Edit, Remove
  <2>. QED  BY <1>i, <2>1, <2>5 DEF Partials
<1>. QED
  BY <1>2, <1>3, <1>4, <1>5, <1>6, <1>7, <1>8, <1>9 DEF Next

LEMMA AcceptsIs ==
    /\ Accepts("evidence", snap) => Authentic(snap)
    /\ Accepts("requirements", snap) => Updatable(snap)
BY DEF Accepts

LEMMA DecisionsStep == Inv /\ [Next]_vars => Decisions'
<1>. SUFFICES ASSUME Inv, [Next]_vars PROVE Decisions'  OBVIOUS
<1>. USE NamesAre
<1>i. Types /\ Control /\ Decisions  BY DEF Inv
<1>1. CASE UNCHANGED <<snap, tool, pos, given, dispatched>>
  BY <1>i, <1>1 DEF Decisions, Authentic, Updatable, EvidenceOf
<1>2. CASE Snapshot
  <2>1. /\ At("snapshot") /\ TakeSnapshot(Current.entry) /\ Done
        /\ Fits(Current.entry, ReadBack(Current.entry))
    BY <1>2 DEF Snapshot
  <2>2. /\ Current.entry \in Names /\ StepFacts /\ pos \in Nat /\ Current.op = "snapshot"
        /\ UNCHANGED <<tool, given, dispatched>> /\ pos' = pos + 1
    BY <2>1, <1>i, AtStep DEF At, Done
  <2>3. \A n \in Names : n # Current.entry => snap'[n] = snap[n]
    BY <1>i, <2>1, <2>2 DEF TakeSnapshot, Types, TypeOK
  <2>4. snap'[Current.entry].data = ReadBack(Current.entry)
    BY <1>i, <2>1, <2>2 DEF TakeSnapshot, Types, TypeOK
  <2>5. CASE tool = "prepare"
    <3>1. pos' <= 5  BY <2>2, <2>5 DEF StepFacts
    <3>2. CASE pos = 1
      <4>1. Current.entry = "requirements" /\ Wanted("requirements") = given["requirements"]
        BY <2>2, <2>5, <3>2 DEF StepFacts, Wanted
      <4>2. given["requirements"] # Anything  BY <1>i, <2>5, ContentsAre DEF Decisions
      <4>3. snap'["requirements"].data = given["requirements"]
        BY <2>1, <2>4, <4>1, <4>2 DEF Fits
      <4>. QED  BY <1>i, <2>2, <2>5, <3>1, <4>3 DEF Decisions
    <3>3. CASE pos # 1
      <4>1. snap'["requirements"] = snap["requirements"] /\ pos >= 2
        BY <2>2, <2>3, <2>5, <3>3 DEF StepFacts
      <4>. QED  BY <1>i, <2>2, <2>5, <3>1, <4>1 DEF Decisions
    <3>. QED  BY <3>2, <3>3
  <2>6. CASE tool = "assets"
    <3>1. CASE pos \in 1 .. 3  BY <2>2, <2>6, <3>1 DEF Decisions
    <3>2. CASE pos \in 9 .. 12 /\ Current.entry \in Assets
      <4>1. \A n \in {"evidence", "checksums", "bundle"} : snap'[n] = snap[n]
        BY <2>3, <3>2 DEF Assets
      <4>2. Authentic(snap)  BY <1>i, <2>6, <3>2 DEF Decisions
      <4>3. Authentic(snap')  BY <4>1, <4>2 DEF Authentic, EvidenceOf
      <4>. QED  BY <2>2, <2>6, <4>3 DEF Decisions
    <3>. QED  BY <2>2, <2>6, <3>1, <3>2 DEF StepFacts
  <2>7. CASE tool \notin {"prepare", "assets"}  BY <2>2, <2>7 DEF Decisions
  <2>. QED  BY <2>5, <2>6, <2>7
<1>3. CASE Check
  <2>1. At("check") /\ Done /\ Accepts(Current.entry, snap) /\ UNCHANGED fileVars
    BY <1>3 DEF Check
  <2>2. /\ StepFacts /\ pos \in Nat /\ Current.op = "check" /\ UNCHANGED snap
        /\ UNCHANGED <<tool, given, dispatched>> /\ pos' = pos + 1
    BY <2>1, <1>i, AtStep DEF At, Done, fileVars, process
  <2>a. (Authentic(snap') <=> Authentic(snap)) /\ (Updatable(snap)' <=> Updatable(snap))
    BY <2>2 DEF Authentic, Updatable, EvidenceOf
  <2>3. CASE tool = "prepare" /\ pos = 5
    <3>1. Authentic(snap)  BY <2>1, <2>2, <2>3, AcceptsIs DEF StepFacts
    <3>. QED  BY <1>i, <2>2, <2>3, <2>a, <3>1 DEF Decisions
  <2>4. CASE tool = "prepare" /\ pos = 6
    <3>1. Updatable(snap)'  BY <2>1, <2>2, <2>4, <2>a, AcceptsIs DEF StepFacts
    <3>2. Authentic(snap')  BY <1>i, <2>4, <2>a DEF Decisions
    <3>3. given["requirements"] \in Requirements /\ snap["requirements"].data = given["requirements"]
      BY <1>i, <2>4 DEF Decisions
    <3>4. tool' = "prepare" /\ given' = given /\ snap' = snap  BY <2>2, <2>4
    <3>. QED  BY <3>1, <3>2, <3>3, <3>4 DEF Decisions
  <2>5. CASE tool = "assets" /\ pos = 4
    <3>1. Authentic(snap)  BY <2>1, <2>2, <2>5, AcceptsIs DEF StepFacts
    <3>. QED  BY <1>i, <2>2, <2>5, <2>a, <3>1 DEF Decisions
  <2>6. CASE tool = "assets" /\ pos = 13
    BY <1>i, <2>2, <2>6, <2>a DEF Decisions
  <2>7. CASE tool \notin {"prepare", "assets"}  BY <2>2, <2>7 DEF Decisions
  <2>. QED  BY <2>2, <2>3, <2>4, <2>5, <2>6, <2>7 DEF StepFacts
<1>4. CASE Fill \/ Confirm
  <2>1. \/ At("create") /\ Current.op = "create"
        \/ At("replace") /\ Current.op = "replace"
    BY <1>4, <1>i, AtStep DEF Fill, Confirm
  <2>2. StepFacts /\ pos \in Nat /\ UNCHANGED <<tool, given, dispatched>>
    BY <2>1, <1>i, AtStep DEF At
  <2>3. UNCHANGED snap /\ pos' = pos + 1
    BY <1>4 DEF Fill, Confirm, FillCreated, ConfirmReplacement, Done
  <2>4. (Authentic(snap') <=> Authentic(snap)) /\ (Updatable(snap)' <=> Updatable(snap))
    BY <2>2, <2>3 DEF Authentic, Updatable, EvidenceOf
  <2>5. \/ tool = "prepare" /\ pos \in {7, 8}
        \/ tool = "assets" /\ pos \in 5 .. 8
    BY <2>1, <2>2 DEF StepFacts
  <2>6. CASE tool = "prepare" /\ pos \in {7, 8}
    <3>1. Authentic(snap') /\ Updatable(snap)'  BY <1>i, <2>4, <2>6 DEF Decisions
    <3>2. given["requirements"] \in Requirements /\ snap["requirements"].data = given["requirements"]
      BY <1>i, <2>6 DEF Decisions
    <3>3. tool' = "prepare" /\ given' = given /\ snap' = snap  BY <2>2, <2>3, <2>6
    <3>. QED  BY <3>1, <3>2, <3>3 DEF Decisions
  <2>7. CASE tool = "assets" /\ pos \in 5 .. 8
    <3>1. Authentic(snap')  BY <1>i, <2>4, <2>7 DEF Decisions
    <3>. QED  BY <2>2, <2>7, <3>1 DEF Decisions
  <2>. QED  BY <2>5, <2>6, <2>7
<1>5. CASE \/ UNCHANGED vars \/ Open \/ Create \/ Stage \/ Compare \/ Rename \/ Refuse
           \/ Finish \/ Interrupted \/ OtherProcess
  <2>1. UNCHANGED <<tool, pos, given, dispatched>>
    BY <1>5 DEF vars, Open, Create, Stage, Compare, Rename, Refuse, Finish, Interrupted,
                OtherProcess, At, Stay
  <2>2. UNCHANGED snap
    <3>1. CASE UNCHANGED vars \/ Open \/ Create \/ Stage \/ Compare \/ Rename
      BY <3>1 DEF vars, fileVars, process, Open, Create, Stage, Compare, Rename, OpenSource,
                  CreateExclusive, StageReplacement, CompareSource, RenameOver
    <3>2. CASE Refuse \/ Finish  BY <3>2 DEF Refuse, Finish, Fail, Pass, process
    <3>3. CASE Interrupted
      BY <3>3 DEF Interrupted, Raise, Kill, RemoveOwn, RemoveMade, Undone, Fail, process
    <3>4. CASE OtherProcess  BY <3>4 DEF OtherProcess, Edit, Remove, process
    <3>. QED  BY <1>5, <3>1, <3>2, <3>3, <3>4
  <2>. QED  BY <1>1, <2>1, <2>2
<1>. QED  BY <1>2, <1>3, <1>4, <1>5 DEF Next

\* An entry that keeps its file and its mark, or gets a file of somebody else.
LEMMA OthersEdit ==
    ASSUME Types, OtherProcess, NEW n \in Entries
    PROVE  /\ UNCHANGED <<phase, snap, wrote, own, made, left>>
           /\ UNCHANGED <<tool, pos, given, dispatched>>
           /\ file'[n] = file[n] \/ (file'[n].id # wrote'[n] \/ wrote'[n] = 0)
           /\ n = Temp => file'[n] = file[n]
<1>. USE NamesAre
<1>1. UNCHANGED <<phase, snap, wrote, own, made, left>>  BY DEF OtherProcess, Edit, Remove, process
<1>2. UNCHANGED <<tool, pos, given, dispatched>>  BY DEF OtherProcess
<1>3. PICK m \in Used : Remove(m) \/ \E d \in FilesFor(m) : Edit(m, d)
  BY DEF OtherProcess
<1>4. m \in Names  BY <1>3, UsedNames DEF Types, TypeOK
<1>5. \/ file'[n] = file[n]
      \/ n = m /\ (file'[n] = Absent \/ file'[n].id = clock + 1)
  BY <1>3, <1>4, MadeAreNames DEF Edit, Remove
<1>6. wrote[n] # clock + 1  BY MoreThanClock
<1>. QED  BY <1>1, <1>2, <1>4, <1>5, <1>6 DEF Absent

LEMMA OutcomesStep == Inv /\ [Next]_vars => Outcomes'
<1>. SUFFICES ASSUME Inv, [Next]_vars PROVE Outcomes'  OBVIOUS
<1>. USE NamesAre
<1>i. Types /\ Control /\ Decisions /\ Outcomes  BY DEF Inv
<1>m. file \in [Entries -> File] /\ wrote \in [Entries -> Nat] /\ clock \in Nat
  BY <1>i, MadeAreNames
\* The parts of Outcomes.
<1>. DEFINE ForPrepare ==
              /\ Ours("receipt") => file["receipt"].data \in {Partial, TheReceipt}
              /\ Ours("requirements") => file["requirements"].data = TheUpdate
              /\ phase \in {"staged", "compared"} =>
                   file[Temp].id = wrote[Temp] /\ file[Temp].data = TheUpdate
              /\ pos >= 8 => wrote["receipt"] # 0
              /\ pos >= 9 \/ phase = "renamed" => wrote["requirements"] # 0
            ForAssets == \A n \in Assets :
              /\ wrote[n] # 0 => pos >= 5
              /\ Ours(n) => file[n].data \in {Partial, TheAsset(n)}
<1>d. Outcomes' <=> (tool' = "prepare" => ForPrepare') /\ (tool' = "assets" => ForAssets')
  BY DEF Outcomes
<1>o. (tool = "prepare" => ForPrepare) /\ (tool = "assets" => ForAssets)
  BY <1>i DEF Outcomes
<1>1. ASSUME UNCHANGED <<file, wrote, snap, tool, pos, given, dispatched>>,
             phase' \in {"staged", "compared"} => phase \in {"staged", "compared"},
             phase' = "renamed" => phase = "renamed"
      PROVE Outcomes'
  BY <1>o, <1>1, <1>d DEF Ours, TheReceipt, TheUpdate, TheAsset, EvidenceOf
<1>2. CASE UNCHANGED vars  BY <1>1, <1>2 DEF vars, fileVars, disk, process
<1>3. CASE Open \/ Compare \/ Refuse \/ Finish
  BY <1>1, <1>3
  DEF Open, Compare, Refuse, Finish, OpenSource, CompareSource, Fail, Pass, disk, process,
      At, Stay
<1>4. CASE Snapshot \/ Check
  <2>1. \/ At("snapshot") /\ TakeSnapshot(Current.entry) /\ Current.op = "snapshot"
        \/ At("check") /\ Current.op = "check" /\ UNCHANGED fileVars
    BY <1>4, <1>i, AtStep DEF Snapshot, Check
  <2>2. StepFacts /\ pos \in Nat /\ UNCHANGED <<tool, given, dispatched>>
    BY <2>1, <1>i, AtStep DEF At
  <2>3. UNCHANGED <<file, wrote>> /\ phase' = "next" /\ pos' = pos + 1
    BY <1>4, <1>i DEF Snapshot, Check, TakeSnapshot, Done, fileVars, disk, process
  <2>4. CASE tool = "prepare"
    <3>1. pos' <= 7  BY <2>1, <2>2, <2>3, <2>4 DEF StepFacts
    <3>. QED
      BY <1>o, <1>d, <2>2, <2>3, <2>4, <3>1 DEF Ours, TheReceipt, TheUpdate
  <2>5. CASE tool = "assets"
    <3>1. CASE pos <= 4
      <4>1. \A n \in Assets : wrote[n] = 0  BY <1>o, <1>m, <2>2, <2>5, <3>1 DEF Assets
      <4>. QED  BY <1>d, <2>2, <2>3, <2>5, <4>1 DEF Ours
    <3>2. CASE pos > 4
      <4>1. snap'["evidence"] = snap["evidence"]
        <5>1. CASE At("snapshot") /\ TakeSnapshot(Current.entry) /\ Current.op = "snapshot"
          <6>1. Current.entry \in Assets  BY <2>2, <2>5, <3>2, <5>1 DEF StepFacts
          <6>2. Current.entry # "evidence"  BY <6>1 DEF Assets
          <6>. QED  BY <1>i, <5>1, <6>2 DEF TakeSnapshot, Types, TypeOK
        <5>2. CASE UNCHANGED fileVars  BY <5>2 DEF fileVars, process
        <5>. QED  BY <2>1, <5>1, <5>2
      <4>2. pos' >= 5  BY <2>2, <2>3, <3>2
      <4>. QED  BY <1>o, <1>d, <2>2, <2>3, <2>5, <4>1, <4>2 DEF Ours, TheAsset, EvidenceOf
    <3>. QED  BY <2>2, <3>1, <3>2
  <2>6. CASE tool \notin {"prepare", "assets"}  BY <1>d, <2>2, <2>6
  <2>. QED  BY <2>4, <2>5, <2>6
<1>5. CASE Create
  <2>1. At("create") /\ CreateExclusive(Current.entry) /\ Stay  BY <1>5 DEF Create
  <2>2. /\ StepFacts /\ Current.op = "create" /\ Current.entry \in Names
        /\ UNCHANGED <<tool, pos, given, dispatched, snap>>
    BY <2>1, <1>i, AtStep DEF At, Stay, CreateExclusive
  <2>3. /\ file' = [file EXCEPT ![Current.entry] = [id |-> clock + 1, data |-> Partial]]
        /\ wrote' = [wrote EXCEPT ![Current.entry] = clock + 1] /\ clock + 1 # 0
        /\ phase' = "writing"
    BY <1>m, <2>1 DEF CreateExclusive
  <2>4. CASE tool = "prepare"
    <3>1. Current.entry = "receipt" /\ pos = 7  BY <2>2, <2>4 DEF StepFacts
    <3>2. file'["receipt"].data = Partial /\ file'["requirements"] = file["requirements"]
          /\ wrote'["requirements"] = wrote["requirements"]
      BY <1>m, <2>3, <3>1
    <3>. QED  BY <1>o, <1>d, <2>2, <2>3, <2>4, <3>1, <3>2 DEF Ours, TheReceipt, TheUpdate
  <2>5. CASE tool = "assets"
    <3>1. Current.entry \in Assets /\ pos >= 5  BY <2>2, <2>5 DEF StepFacts
    <3>2. ASSUME NEW n \in Assets
          PROVE file'[n].data = Partial \/ (file'[n] = file[n] /\ wrote'[n] = wrote[n])
      BY <1>m, <2>3, <3>1
    <3>. QED  BY <1>o, <1>d, <2>2, <2>5, <3>1, <3>2 DEF Ours, TheAsset, EvidenceOf
  <2>. QED  BY <2>2, <2>4, <2>5 DEF StepFacts
<1>6. CASE Fill
  <2>1. At("create") /\ FillCreated(Output(Current.entry)) /\ Done  BY <1>6 DEF Fill
  <2>2. /\ StepFacts /\ Running /\ Current.op = "create" /\ Current.entry \in Names
        /\ UNCHANGED <<tool, given, dispatched, snap>> /\ pos' = pos + 1 /\ pos \in Nat
    BY <2>1, <1>i, AtStep DEF At, Done, FillCreated
  <2>3. own = Current.entry /\ phase' = "next"  BY <1>i, <2>1 DEF FillCreated, Control
  <2>4. \/ /\ wrote' = [wrote EXCEPT ![Current.entry] = clock + 1]
           /\ file' = [file EXCEPT ![Current.entry] =
                         [id |-> clock + 1, data |-> Output(Current.entry)]]
        \/ wrote' = wrote /\ file' = file /\ wrote[own] # file[own].id
    BY <1>m, <2>1, <2>3 DEF FillCreated
  <2>w. wrote[Current.entry] # 0
    BY <1>i, <2>2, <2>3, NoneIs DEF Control
  <2>5. clock + 1 # 0  BY <1>i, MoreThanClock
  <2>6. CASE tool = "prepare"
    <3>1. Current.entry = "receipt" /\ pos = 7  BY <2>2, <2>6 DEF StepFacts
    <3>2. Output("receipt") = TheReceipt  BY <1>i, <2>2, <2>6, <3>1, OutputIs
    <3>3. /\ file'["requirements"] = file["requirements"]
          /\ wrote'["requirements"] = wrote["requirements"]
          /\ wrote'["receipt"] # 0
          /\ file'["receipt"].id = wrote'["receipt"] => file'["receipt"].data = TheReceipt
      BY <1>m, <2>2, <2>3, <2>4, <2>w, <2>5, <3>1, <3>2
    <3>. QED  BY <1>o, <1>d, <2>2, <2>3, <2>4, <2>6, <3>1, <3>3 DEF Ours, TheReceipt, TheUpdate
  <2>7. CASE tool = "assets"
    <3>1. Current.entry \in Assets /\ pos >= 5  BY <2>2, <2>7 DEF StepFacts
    <3>2. Output(Current.entry) = TheAsset(Current.entry)  BY <1>i, <2>2, <2>7, OutputIs
    <3>3. ASSUME NEW n \in Assets
          PROVE \/ file'[n] = file[n] /\ wrote'[n] = wrote[n]
                \/ /\ wrote'[n] = clock + 1
                   /\ file'[n].data = TheAsset(n)
      BY <1>m, <2>2, <2>4, <2>5, <3>1, <3>2
    <3>4. pos' >= 5  BY <2>2, <3>1
    <3>. QED  BY <1>o, <1>d, <2>2, <2>7, <3>3, <3>4 DEF Ours, TheAsset, EvidenceOf
  <2>. QED  BY <2>2, <2>6, <2>7 DEF StepFacts
<1>7. CASE Stage
  <2>1. At("replace") /\ StageReplacement(Output(Current.entry)) /\ Stay  BY <1>7 DEF Stage
  <2>2. /\ StepFacts /\ Running /\ Current.op = "replace"
        /\ UNCHANGED <<tool, pos, given, dispatched, snap>>
    BY <2>1, <1>i, AtStep DEF At, Stay, StageReplacement
  <2>3. tool = "prepare" /\ Output(Current.entry) = TheUpdate
    BY <1>i, <2>2, OutputIs DEF StepFacts
  <2>4. /\ file'[Temp].id = wrote'[Temp] /\ file'[Temp].data = TheUpdate /\ phase' = "staged"
        /\ \A n \in Names : file'[n] = file[n] /\ wrote'[n] = wrote[n]
    BY <1>m, <2>1, <2>3 DEF StageReplacement
  <2>. QED  BY <1>o, <1>d, <2>2, <2>3, <2>4 DEF Ours, TheReceipt, TheUpdate
<1>8. CASE Rename
  <2>1. At("replace") /\ RenameOver(Current.entry) /\ Stay  BY <1>8 DEF Rename
  <2>2. /\ StepFacts /\ Current.op = "replace"
        /\ UNCHANGED <<tool, pos, given, dispatched, snap>>
    BY <2>1, <1>i, AtStep DEF At, Stay, RenameOver
  <2>3. tool = "prepare" /\ pos = 8 /\ Current.entry = "requirements"  BY <2>2 DEF StepFacts
  <2>4. /\ file[Temp].id = wrote[Temp] /\ file[Temp].data = TheUpdate /\ wrote[Temp] # 0
    BY <1>i, <1>o, <2>1, <2>3 DEF RenameOver, Control
  <2>5. /\ file'["requirements"] = file[Temp] /\ wrote'["requirements"] = file[Temp].id
        /\ file'["receipt"] = file["receipt"] /\ wrote'["receipt"] = wrote["receipt"]
        /\ phase' = "renamed"
    BY <1>m, <2>1, <2>3 DEF RenameOver
  <2>. QED  BY <1>o, <1>d, <2>2, <2>3, <2>4, <2>5 DEF Ours, TheReceipt, TheUpdate
<1>9. CASE Confirm
  <2>1. At("replace") /\ ConfirmReplacement(Current.entry) /\ Done  BY <1>9 DEF Confirm
  <2>2. StepFacts /\ Current.op = "replace" /\ UNCHANGED <<tool, given, dispatched>>
    BY <2>1, <1>i, AtStep DEF At
  <2>3. tool = "prepare" /\ pos = 8 /\ pos' = 9  BY <2>1, <2>2 DEF StepFacts, Done
  <2>4. UNCHANGED <<file, wrote, snap>> /\ phase = "renamed" /\ phase' = "next"
    BY <2>1 DEF ConfirmReplacement, disk
  <2>. QED  BY <1>o, <1>d, <2>2, <2>3, <2>4 DEF Ours, TheReceipt, TheUpdate
<1>10. CASE Interrupted
  <2>0. UNCHANGED <<tool, pos, given, dispatched>>  BY <1>10 DEF Interrupted
  <2>1. CASE Raise \/ Kill \/ Undone
    BY <1>1, <2>0, <2>1 DEF Raise, Kill, Undone, Fail, disk, process
  <2>2. CASE RemoveOwn \/ RemoveMade
    <3>1. /\ \A n \in Entries : file'[n] = file[n] \/ file'[n] = Absent
          /\ UNCHANGED <<wrote, snap>> /\ phase = "undo" /\ phase' \in {"undo", "failed"}
      BY <1>m, <2>2 DEF RemoveOwn, RemoveMade, Gone
    <3>2. \A n \in Entries : Ours(n)' => Ours(n) /\ file'[n] = file[n]
      BY <3>1 DEF Ours, Absent
    <3>. QED
      BY <1>o, <1>d, <2>0, <3>1, <3>2 DEF TheReceipt, TheUpdate, TheAsset, EvidenceOf
  <2>. QED  BY <1>10, <2>1, <2>2 DEF Interrupted
<1>11. CASE OtherProcess
  <2>1. \A n \in Entries : Ours(n)' => Ours(n) /\ file'[n] = file[n]
    BY <1>i, <1>11, OthersEdit DEF Ours
  <2>2. /\ UNCHANGED <<phase, snap, wrote, tool, pos, given, dispatched>>
        /\ file'[Temp] = file[Temp]
    BY <1>i, <1>11, OthersEdit
  <2>. QED  BY <1>o, <1>d, <2>1, <2>2 DEF TheReceipt, TheUpdate, TheAsset, EvidenceOf
<1>. QED
  BY <1>2, <1>3, <1>4, <1>5, <1>6, <1>7, <1>8, <1>9, <1>10, <1>11 DEF Next

LEMMA CleanupStep == Inv /\ [Next]_vars => Cleanup'
<1>. SUFFICES ASSUME Inv, [Next]_vars PROVE Cleanup'  OBVIOUS
<1>. USE NamesAre
<1>i. Types /\ Control /\ Outcomes /\ Cleanup  BY DEF Inv
<1>m. /\ made \in Seq(Names) /\ file \in [Entries -> File] /\ wrote \in [Entries -> Nat]
      /\ clock \in Nat
  BY <1>i, MadeAreNames
<1>1. ASSUME UNCHANGED <<wrote, own, made, left>>,
             \A n \in Entries : file'[n] = file[n] \/ ~Ours(n)',
             phase' = "failed" => phase = "failed"
      PROVE Cleanup'
  BY <1>i, <1>1 DEF Cleanup, Ours
<1>2. CASE UNCHANGED vars  BY <1>1, <1>2 DEF vars, fileVars, disk, process
<1>3. CASE Open \/ Snapshot \/ Check \/ Compare \/ Refuse \/ Finish
  BY <1>1, <1>3
  DEF Open, Snapshot, Check, Compare, Refuse, Finish, OpenSource, TakeSnapshot,
      CompareSource, Fail, Pass, fileVars, disk, process
<1>4. CASE Create
  <2>1. At("create") /\ CreateExclusive(Current.entry)  BY <1>4 DEF Create
  <2>2. Current.entry \in Names  BY <2>1, <1>i, AtStep
  <2>3. own = None /\ own' = Current.entry  BY <1>i, <2>1 DEF CreateExclusive, Control
  <2>4. \A n \in Entries : n # Current.entry => file'[n] = file[n] /\ wrote'[n] = wrote[n]
    BY <1>m, <2>1, <2>2 DEF CreateExclusive
  <2>5. wrote'["requirements"] = 0 => wrote["requirements"] = 0
    BY <1>m, <2>1, <2>2 DEF CreateExclusive
  <2>. QED
    BY <1>i, <2>1, <2>3, <2>4, <2>5 DEF CreateExclusive, Cleanup, Ours
<1>5. CASE Fill
  <2>1. At("create") /\ FillCreated(Output(Current.entry))  BY <1>5 DEF Fill
  <2>2. own = Current.entry /\ own \in Names /\ phase' = "next"
    BY <1>i, <2>1, AtStep DEF Control, FillCreated
  <2>3. made' = Append(made, own) /\ own' = None /\ left' = left  BY <2>1 DEF FillCreated
  <2>4. /\ \E i \in DOMAIN made' : own = made'[i]
        /\ \A i \in DOMAIN made : i \in DOMAIN made' /\ made'[i] = made[i]
    <3>1. Len(made) + 1 \in DOMAIN made' /\ made'[Len(made) + 1] = own
      BY <1>m, <2>2, <2>3
    <3>. QED  BY <1>m, <2>2, <2>3, <3>1
  <2>5. \A n \in Entries : n # own => file'[n] = file[n] /\ wrote'[n] = wrote[n]
    BY <1>m, <2>1, <2>2 DEF FillCreated
  <2>6. wrote'["requirements"] = 0 => wrote["requirements"] = 0
    BY <1>m, <2>1, <2>2 DEF FillCreated
  <2>. QED
    BY <1>i, <2>2, <2>3, <2>4, <2>5, <2>6 DEF Cleanup, Ours
<1>6. CASE Stage
  <2>1. At("replace") /\ StageReplacement(Output(Current.entry))  BY <1>6 DEF Stage
  <2>2. own = None /\ own' = Temp /\ phase' = "staged"
    BY <1>i, <2>1 DEF StageReplacement, Control
  <2>3. \A n \in Entries : n # Temp => file'[n] = file[n] /\ wrote'[n] = wrote[n]
    BY <1>m, <2>1 DEF StageReplacement
  <2>. QED  BY <1>i, <2>1, <2>2, <2>3 DEF StageReplacement, Cleanup, Ours
<1>7. CASE Rename
  <2>1. At("replace") /\ RenameOver(Current.entry) /\ Stay  BY <1>7 DEF Rename
  <2>2. tool = "prepare" /\ pos = 8 /\ Current.entry = "requirements"
    BY <2>1, <1>i, AtStep DEF StepFacts
  <2>3. file[Temp].id # 0
    BY <1>i, <2>1, <2>2 DEF Outcomes, RenameOver, Control
  <2>4. wrote'["requirements"] # 0 /\ phase' = "renamed"
    BY <1>m, <2>1, <2>2, <2>3 DEF RenameOver
  <2>. QED  BY <2>4 DEF Cleanup
<1>8. CASE Confirm
  <2>1. At("replace") /\ ConfirmReplacement(Current.entry)  BY <1>8 DEF Confirm
  <2>2. tool = "prepare"  BY <2>1, <1>i, AtStep DEF StepFacts
  <2>3. wrote["requirements"] # 0 /\ UNCHANGED wrote /\ phase' = "next"
    BY <1>i, <2>1, <2>2 DEF Outcomes, ConfirmReplacement
  <2>. QED  BY <2>3 DEF Cleanup
<1>9. CASE Interrupted
  <2>1. CASE Raise \/ Kill
    BY <1>1, <2>1 DEF Raise, Kill, Fail, disk, process
  <2>2. CASE RemoveOwn
    <3>1. /\ UNCHANGED <<wrote, made>> /\ phase' = "undo" /\ own' = None
          /\ \/ file' = Gone(own) /\ left' = left
             \/ file' = file /\ left' = left \cup {own}
      BY <2>2 DEF RemoveOwn
    <3>2. \A n \in Entries : Ours(n)' => Ours(n) /\ (n # own \/ n \in left')
      BY <1>m, <3>1 DEF Ours, Gone, Absent
    <3>3. left \subseteq left'  BY <3>1
    <3>. QED  BY <1>i, <3>1, <3>2, <3>3 DEF Cleanup
  <2>3. CASE RemoveMade
    <3>1. UNCHANGED <<wrote, own>> /\ own = None /\ phase = "undo"  BY <2>3 DEF RemoveMade
    <3>2. CASE /\ file' = Gone(made[Len(made)]) /\ made' = Earlier(made)
               /\ left' = left /\ phase' = "undo"
      <4>1. \A i \in DOMAIN made : \/ made[i] = made[Len(made)]
                                   \/ i \in DOMAIN made' /\ made'[i] = made[i]
        BY <1>m, <3>2 DEF Earlier
      <4>2. \A n \in Entries : Ours(n)' => Ours(n) /\ n # made[Len(made)]
        BY <1>m, <3>1, <3>2 DEF Ours, Gone, Absent
      <4>. QED  BY <1>i, <3>1, <3>2, <4>1, <4>2 DEF Cleanup
    <3>3. CASE /\ file' = file /\ made' = made /\ left' = left \cup {made[i] : i \in DOMAIN made}
      BY <1>i, <3>1, <3>3 DEF Cleanup, Ours
    <3>. QED  BY <2>3, <3>1, <3>2, <3>3 DEF RemoveMade
  <2>4. CASE Undone
    BY <1>i, <2>4 DEF Undone, disk, process, Cleanup, Ours
  <2>. QED  BY <1>9, <2>1, <2>2, <2>3, <2>4 DEF Interrupted
<1>10. CASE OtherProcess
  <2>1. ASSUME NEW n \in Entries PROVE file'[n] = file[n] \/ ~Ours(n)'
    BY <1>i, <1>10, OthersEdit DEF Ours
  <2>2. UNCHANGED <<phase, wrote, own, made, left>>
    BY <1>i, <1>10, OthersEdit
  <2>. QED  BY <1>1, <2>1, <2>2
<1>. QED
  BY <1>2, <1>3, <1>4, <1>5, <1>6, <1>7, <1>8, <1>9, <1>10 DEF Next

\* What a command creates is among its outputs.
LEMMA CreatesOutput ==
    ASSUME Types, At("create")
    PROVE  Current.entry \in Outputs
<1>1. Running /\ StepFacts /\ Current.op = "create"  BY AtStep
<1>2. pos \in DOMAIN Program(tool)
  <2>1. CASE tool = "prepare" /\ pos = 7  BY <2>1, ProgramOf DEF Prepare, Authentication
  <2>2. CASE tool = "assets" /\ pos \in 5 .. 8
    BY <2>2, ProgramOf DEF VerifyAssets, Authentication
  <2>. QED  BY <1>1, <2>1, <2>2 DEF StepFacts
<1>. QED  BY <1>1, <1>2 DEF Outputs, Current

LEMMA OwnedStep == Inv /\ [Next]_vars => Owned'
<1>. SUFFICES ASSUME Inv, [Next]_vars PROVE Owned'  OBVIOUS
<1>. USE NamesAre
<1>i. Types /\ Control /\ Outcomes /\ Owned  BY DEF Inv
<1>m. /\ made \in Seq(Names) /\ file \in [Entries -> File] /\ wrote \in [Entries -> Nat]
      /\ clock \in Nat /\ clock + 1 \in Nat
      /\ \A n \in Entries : wrote[n] <= clock /\ wrote[n] \in Nat /\ file[n].id \in Nat
  BY <1>i, MoreThanClock DEF Types, TypeOK, File
<1>t. Outputs' = Outputs
  <2>1. tool' = tool
    BY DEF Next, vars, fileVars, Open, Snapshot, Check, Create, Fill, Stage, Compare, Rename,
           Confirm, Refuse, Finish, Interrupted, OtherProcess, At
  <2>. QED  BY <2>1 DEF Outputs, Program
<1>1. ASSUME UNCHANGED <<wrote, own, made>>,
             \A n \in Entries : file'[n] = file[n] \/ file'[n] = Absent \/ file'[n].id = clock + 1
      PROVE Owned'
  <2>1. ASSUME NEW n \in Entries PROVE file'[n] = Absent \/ wrote'[n] <= file'[n].id
    <3>1. wrote[n] <= clock + 1 /\ wrote'[n] = wrote[n]  BY <1>m, <1>1
    <3>. QED  BY <1>i, <1>1, <3>1 DEF Owned
  <2>. QED  BY <1>i, <1>t, <1>1, <2>1 DEF Owned
<1>2. CASE UNCHANGED vars  BY <1>1, <1>2 DEF vars, fileVars, disk, process
<1>3. CASE Open \/ Snapshot \/ Check \/ Compare \/ Refuse \/ Finish
  BY <1>1, <1>3
  DEF Open, Snapshot, Check, Compare, Refuse, Finish, OpenSource, TakeSnapshot,
      CompareSource, Fail, Pass, fileVars, disk, process
<1>4. CASE Create
  <2>1. At("create") /\ CreateExclusive(Current.entry)  BY <1>4 DEF Create
  <2>2. Current.entry \in Names /\ Current.entry \in Outputs
    BY <2>1, <1>i, AtStep, CreatesOutput
  <2>3. \A n \in Entries : \/ file'[n] = file[n] /\ wrote'[n] = wrote[n]
                           \/ file'[n].id = clock + 1 /\ wrote'[n] = clock + 1
    BY <1>m, <2>1, <2>2 DEF CreateExclusive
  <2>. QED  BY <1>i, <1>m, <1>t, <2>1, <2>2, <2>3 DEF CreateExclusive, Owned
<1>5. CASE Fill
  <2>1. At("create") /\ FillCreated(Output(Current.entry))  BY <1>5 DEF Fill
  <2>2. own = Current.entry /\ own \in Names /\ own \in Outputs
    BY <1>i, <2>1, AtStep, CreatesOutput DEF Control, FillCreated
  <2>3. \A n \in Entries : \/ file'[n] = file[n] /\ wrote'[n] = wrote[n]
                           \/ file'[n].id = clock + 1 /\ wrote'[n] = clock + 1
    BY <1>m, <2>1, <2>2 DEF FillCreated
  <2>4. made' = Append(made, own) /\ own' = None  BY <2>1 DEF FillCreated
  <2>5. \A i \in DOMAIN made' : (i \in DOMAIN made /\ made'[i] = made[i]) \/ made'[i] = own
    BY <1>m, <2>2, <2>4
  <2>6. \A n \in Entries : file'[n] = Absent \/ wrote'[n] <= file'[n].id
    BY <1>i, <1>m, <2>3 DEF Owned
  <2>. QED  BY <1>i, <1>t, <2>2, <2>4, <2>5, <2>6 DEF Owned
<1>6. CASE Stage
  <2>1. At("replace") /\ StageReplacement(Output(Current.entry))  BY <1>6 DEF Stage
  <2>2. \A n \in Entries : \/ file'[n] = file[n] /\ wrote'[n] = wrote[n]
                           \/ file'[n].id = clock + 1 /\ wrote'[n] = clock + 1
    BY <1>m, <2>1 DEF StageReplacement
  <2>. QED  BY <1>i, <1>m, <1>t, <2>1, <2>2 DEF StageReplacement, Owned
<1>7. CASE Rename
  <2>1. At("replace") /\ RenameOver(Current.entry)  BY <1>7 DEF Rename
  <2>2. Current.entry \in Names  BY <2>1, <1>i, AtStep
  <2>3. \A n \in Entries : \/ file'[n] = file[n] /\ wrote'[n] = wrote[n]
                           \/ file'[n] = file[Temp] /\ wrote'[n] = file[Temp].id
                           \/ file'[n] = Absent
    <3>1. /\ file' = [file EXCEPT ![Current.entry] = file[Temp], ![Temp] = Absent]
          /\ wrote' = [wrote EXCEPT ![Current.entry] = file[Temp].id, ![Temp] = 0]
      BY <2>1 DEF RenameOver
    <3>2. file'[Temp] = Absent  BY <1>m, <3>1
    <3>3. ASSUME NEW n \in Names, n # Current.entry
          PROVE file'[n] = file[n] /\ wrote'[n] = wrote[n]
      BY <1>m, <2>2, <3>1, <3>3
    <3>4. file'[Current.entry] = file[Temp] /\ wrote'[Current.entry] = file[Temp].id
      BY <1>m, <2>2, <3>1
    <3>. QED  BY <3>2, <3>3, <3>4
  <2>4. \A n \in Entries : file'[n] = Absent \/ wrote'[n] <= file'[n].id
    <3>1. file[Temp].id <= file[Temp].id  BY <1>m
    <3>. QED  BY <1>i, <2>3, <3>1 DEF Owned
  <2>5. own' = None /\ made' = made  BY <2>1 DEF RenameOver
  <2>. QED  BY <1>i, <1>t, <2>4, <2>5 DEF Owned
<1>8. CASE Confirm
  BY <1>i, <1>t, <1>8 DEF Confirm, ConfirmReplacement, disk, Owned
<1>9. CASE Interrupted
  <2>1. CASE Raise \/ Kill \/ Undone
    BY <1>1, <2>1 DEF Raise, Kill, Undone, Fail, disk, process
  <2>2. CASE RemoveOwn
    <3>1. \A n \in Entries : file'[n] = file[n] \/ file'[n] = Absent
      BY <1>m, <2>2 DEF RemoveOwn, Gone
    <3>. QED  BY <1>i, <1>t, <2>2, <3>1 DEF RemoveOwn, Owned
  <2>3. CASE RemoveMade
    <3>1. \A n \in Entries : file'[n] = file[n] \/ file'[n] = Absent
      BY <1>m, <2>3 DEF RemoveMade, Gone
    <3>2. \A i \in DOMAIN made' : i \in DOMAIN made /\ made'[i] = made[i]
      BY <1>m, <2>3 DEF RemoveMade, Earlier
    <3>3. UNCHANGED <<wrote, own>>  BY <2>3 DEF RemoveMade
    <3>. QED  BY <1>i, <1>t, <3>1, <3>2, <3>3 DEF Owned
  <2>. QED  BY <1>9, <2>1, <2>2, <2>3 DEF Interrupted
<1>10. CASE OtherProcess
  <2>1. \A n \in Entries : file'[n] = file[n] \/ file'[n] = Absent \/ file'[n].id = clock + 1
    BY <1>i, <1>m, <1>10, UsedNames DEF OtherProcess, Edit, Remove, Types, TypeOK
  <2>2. UNCHANGED <<wrote, own, made>>  BY <1>i, <1>10, OthersEdit
  <2>. QED  BY <1>1, <2>1, <2>2
<1>. QED
  BY <1>2, <1>3, <1>4, <1>5, <1>6, <1>7, <1>8, <1>9, <1>10 DEF Next

LEMMA Invariance == Spec => []Inv
<1>1. Inv /\ [Next]_vars => Inv'
  BY TypesStep, ControlStep, PartialsStep, DecisionsStep, OutcomesStep, CleanupStep,
     OwnedStep DEF Inv
<1>. QED  BY Initially, <1>1, PTL DEF Spec

-----------------------------------------------------------------------------
(* Every variable keeps its type, whatever fails and whoever edits the files. *)
THEOREM TypeCorrect == Spec => []TypeOK
<1>1. Inv => TypeOK  BY DEF Inv, Types
<1>. QED  BY Invariance, <1>1, PTL

(* No accepted snapshot of snapshot_regular_file mixes the bytes before and   *)
(* after an edit.                                                             *)
THEOREM WholeSnapshots == Spec => []SnapshotsAreWhole
<1>1. Inv => SnapshotsAreWhole  BY ContentsAre DEF Inv, Types, SnapshotsAreWhole
<1>. QED  BY Invariance, <1>1, PTL

(* prepare leaves a receipt and requirements that validate-receipt accepts    *)
(* for the dispatched evidence, verify-assets leaves assets of one evidence,  *)
(* and a command that fails leaves neither.                                   *)
THEOREM WholeOutcome == Spec => []OutcomeIsWhole
<1>1. ASSUME Inv PROVE PassedFitsTogether
  <2>. SUFFICES ASSUME phase = "passed"
                PROVE  /\ tool = "prepare" =>
                            /\ wrote["receipt"] # 0 /\ wrote["requirements"] # 0
                            /\ Ours("receipt") /\ Ours("requirements") =>
                                 ReceiptFits(file["receipt"].data, file["requirements"].data,
                                             given["requirements"], dispatched)
                       /\ tool = "assets" => \A n \in Assets : Ours(n) =>
                                               file[n].data = TheAsset(n)
    BY DEF PassedFitsTogether, TheAsset
  <2>1. ~Running /\ Positions  BY <1>1 DEF Inv, Control, Types, TypeOK, Positions
  <2>2. \A n \in Entries : file[n].data # Partial  BY <1>1 DEF Inv, Partials
  <2>3. CASE tool = "prepare"
    <3>1. pos = 9  BY <2>1, <2>3, LastStep
    <3>2. Updatable(snap) /\ snap["requirements"].data = given["requirements"]
      BY <1>1, <2>3, <3>1 DEF Inv, Decisions
    <3>3. wrote["receipt"] # 0 /\ wrote["requirements"] # 0
      BY <1>1, <2>3, <3>1 DEF Inv, Outcomes
    <3>4. ASSUME Ours("receipt"), Ours("requirements")
          PROVE ReceiptFits(file["receipt"].data, file["requirements"].data,
                            given["requirements"], dispatched)
      <4>1. file["receipt"].data = TheReceipt /\ file["requirements"].data = TheUpdate
        BY <1>1, <2>2, <2>3, <3>4, NamesAre DEF Inv, Outcomes
      <4>2. dispatched \in Evidences  BY <1>1 DEF Inv, Types, TypeOK
      <4>3. given["requirements"] \in Requirements
            /\ given["requirements"].version = Affected[dispatched]
        BY <3>2 DEF Updatable
      <4>4. TheUpdate \in Requirements /\ TheUpdate.version = Fixed[dispatched]
        BY <4>2, <4>3 DEF TheUpdate, Rendered, Requirements
      <4>. QED  BY <4>1, <4>3, <4>4 DEF ReceiptFits, TheReceipt
    <3>. QED  BY <2>3, <3>3, <3>4
  <2>4. CASE tool = "assets"
    <3>1. ASSUME NEW n \in Assets, Ours(n) PROVE file[n].data = TheAsset(n)
      BY <1>1, <2>2, <2>4, <3>1, NamesAre DEF Inv, Outcomes
    <3>. QED  BY <2>4, <3>1
  <2>. QED  BY <2>3, <2>4
<1>2. ASSUME Inv PROVE FailureLeavesNothing
  <2>1. Control /\ Cleanup  BY <1>2 DEF Inv
  <2>. QED  BY <2>1 DEF Control, Cleanup, FailureLeavesNothing
<1>3. Inv => OutcomeIsWhole  BY <1>1, <1>2 DEF OutcomeIsWhole
<1>. QED  BY Invariance, <1>3, PTL

(* A file of somebody else goes only in the two windows of the code: between *)
(* the last comparison and the rename over it, or, when the process cleans   *)
(* up, from an output it had created itself, put there after that.           *)
THEOREM OthersFilesSurvive == Spec => KeepsOthersFiles
<1>. DEFINE Window(n) ==
              \/ Ours(n)
              \/ phase = "compared" /\ UneditedWhenCompared(n)
              \/ /\ phase = "undo" /\ file'[n] = Absent
                 /\ n \in Outputs /\ PutThereSince(n)
            Kept == \A n \in Names :
              edits' = edits /\ file'[n] # file[n] /\ file[n] # Absent => Window(n)
<1>1. ASSUME Inv, [Next]_vars PROVE Kept
  <2>. SUFFICES ASSUME NEW n \in Names, edits' = edits, file'[n] # file[n], file[n] # Absent
                PROVE  Window(n)
    OBVIOUS
  <2>. USE NamesAre
  <2>i. Types /\ Control /\ Owned  BY <1>1 DEF Inv
  <2>m. file \in [Entries -> File] /\ edits \in Nat /\ made \in Seq(Names)
        /\ wrote \in [Entries -> Nat] /\ file[n].id \in Nat /\ wrote[n] \in Nat
    <3>1. /\ file \in [Entries -> File] /\ edits \in Nat /\ made \in Seq(Names)
          /\ wrote \in [Entries -> Nat]
      BY <2>i DEF Types, TypeOK
    <3>. QED  BY <2>i, <3>1, MoreThanClock
  <2>r. ASSUME phase = "undo", file'[n] = Absent, wrote[n] # 0, n \in Outputs PROVE Window(n)
    BY <2>i, <2>m, <2>r DEF Owned, Ours, PutThereSince
  <2>1. ~(UNCHANGED file)  OBVIOUS
  <2>2. CASE Create
    <3>1. At("create") /\ CreateExclusive(Current.entry)  BY <2>2 DEF Create
    <3>. QED  BY <2>m, <3>1 DEF CreateExclusive
  <2>3. CASE Fill
    <3>1. own # None /\ own = n /\ file[own].id = wrote[own]
      BY <2>i, <2>m, <2>3, AtStep DEF Fill, FillCreated, Control
    <3>. QED  BY <2>i, <3>1 DEF Control, Ours
  <2>4. CASE Stage  BY <2>m, <2>4 DEF Stage, StageReplacement
  <2>5. CASE Rename
    <3>1. phase = "compared" /\ n = Current.entry
      BY <2>m, <2>5 DEF Rename, RenameOver
    <3>. QED  BY <2>i, <3>1 DEF Control, UneditedWhenCompared
  <2>6. CASE Interrupted
    <3>1. CASE Raise \/ Kill \/ Undone
      BY <2>1, <3>1 DEF Raise, Fail, Kill, Undone, disk
    <3>2. CASE RemoveOwn
      <4>1. own = n /\ own # None /\ phase = "undo" /\ file'[n] = Absent
        BY <2>m, <3>2 DEF RemoveOwn, Gone
      <4>2. wrote[n] # 0 /\ n \in Outputs  BY <2>i, <4>1 DEF Control, Owned
      <4>. QED  BY <2>r, <4>1, <4>2
    <3>3. CASE RemoveMade
      <4>1. /\ n = made[Len(made)] /\ Len(made) \in DOMAIN made
            /\ phase = "undo" /\ file'[n] = Absent
        BY <2>m, <3>3 DEF RemoveMade, Gone
      <4>2. wrote[n] # 0 /\ n \in Outputs  BY <2>i, <4>1 DEF Control, Owned
      <4>. QED  BY <2>r, <4>1, <4>2
    <3>. QED  BY <2>6, <3>1, <3>2, <3>3 DEF Interrupted
  <2>7. CASE OtherProcess
    BY <2>m, <2>7 DEF OtherProcess, Edit, Remove
  <2>8. CASE Open \/ Snapshot \/ Check \/ Compare \/ Confirm \/ Refuse \/ Finish
    BY <2>1, <2>8
    DEF Open, Snapshot, Check, Compare, Confirm, Refuse, Finish, OpenSource, TakeSnapshot,
        CompareSource, ConfirmReplacement, Fail, Pass, fileVars, disk
  <2>9. CASE UNCHANGED vars  BY <2>1, <2>9 DEF vars, fileVars, disk
  <2>. QED  BY <1>1, <2>2, <2>3, <2>4, <2>5, <2>6, <2>7, <2>8, <2>9 DEF Next
<1>2. Spec => [][Kept]_vars
  <2>1. Inv /\ [Next]_vars => [Kept]_vars  BY <1>1
  <2>. QED  BY Invariance, <2>1, PTL DEF Spec
<1>. QED  BY <1>2 DEF KeepsOthersFiles
=============================================================================
