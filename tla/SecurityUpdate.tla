--------------------------- MODULE SecurityUpdate ---------------------------
(***************************************************************************)
(* scripts/security-release-consumer.py: one invocation of one of its five *)
(* commands, step by step, on files that another process edits meanwhile.  *)
(* A command is the sequence of its file operations and checks (Program);  *)
(* every snapshot is checked against the digest the caller gave, and what  *)
(* is decided is decided on the snapshots only.                            *)
(*                                                                         *)
(* Signed evidence e is for the collection version Fixed[e] in place of    *)
(* Affected[e].  A checksum manifest binds one evidence file, a bundle     *)
(* signs one manifest; URLs, source SHAs and asset references are part of  *)
(* the evidence that contains them, and a base SHA is the requirements     *)
(* file of that commit.                                                    *)
(***************************************************************************)
EXTENDS SecureFiles

CONSTANTS
    Evidences,  \* signed evidence files of the producer
    Approved,   \* those that load_evidence_bytes accepts
    Assured,    \* those whose assets bear out what they say of them
    Versions,   \* collection versions
    Affected,   \* evidence -> version
    Fixed,      \* evidence -> version
    Rests,      \* what else a requirements file says
    Anything    \* no digest is expected

ASSUME SecurityUpdateAssumption ==
    /\ Approved \subseteq Evidences
    /\ Assured \subseteq Evidences
    /\ Affected \in [Evidences -> Versions]
    /\ Fixed \in [Evidences -> Versions]

Requirements == [version : Versions, rest : Rests]
Receipts == [receiptOf : Evidences, base : Requirements]
EvidenceFiles == [evidence : Evidences]
ChecksumFiles == [binds : Evidences]
BundleFiles == [signs : Evidences]
Assets == {"collection", "signature", "sbom", "provenance"}
AssetFiles == [asset : Assets, of : Evidences]
Trees == [tree : Evidences]
Contents == UNION {Requirements, Receipts, EvidenceFiles, ChecksumFiles,
                   BundleFiles, AssetFiles, Trees}

ASSUME ContentsAssumption ==
    /\ {Partial, Torn, Nothing, Anything} \cap Contents = {}
    /\ Names = Assets \cup {"requirements", "receipt", "base", "evidence",
                            "checksums", "bundle", "installed"}

VARIABLES
    tool,       \* the command of this invocation
    pos,        \* the next step of its program
    given,      \* the digests among its arguments: name -> content or Anything
    dispatched  \* the evidence that --evidence-digest and --base-sha name

vars == <<fileVars, tool, pos, given, dispatched>>

-----------------------------------------------------------------------------
(* What the commands do, operation by operation. *)
Tools == {"prepare", "validate", "assets", "version", "installed"}
Step(op, n) == [op |-> op, entry |-> n]
Steps == [op : {"snapshot", "check", "create", "replace"}, entry : Names]

Authentication == <<Step("snapshot", "evidence"), Step("snapshot", "checksums"),
                    Step("snapshot", "bundle"), Step("check", "evidence")>>

Prepare == <<Step("snapshot", "requirements")>> \o Authentication
           \o <<Step("check", "requirements"), Step("create", "receipt"),
                Step("replace", "requirements")>>

Validate == <<Step("snapshot", "receipt"), Step("snapshot", "requirements"),
              Step("snapshot", "base")>> \o Authentication
            \o <<Step("check", "receipt")>>

VerifyAssets == Authentication
                \o <<Step("create", "collection"), Step("create", "signature"),
                     Step("create", "sbom"), Step("create", "provenance"),
                     Step("snapshot", "collection"), Step("snapshot", "signature"),
                     Step("snapshot", "sbom"), Step("snapshot", "provenance"),
                     Step("check", "collection")>>

RequirementVersion == <<Step("snapshot", "requirements")>>

VerifyInstalled == <<Step("snapshot", "collection"), Step("snapshot", "installed"),
                     Step("check", "installed")>>

Program(t) == CASE t = "prepare" -> Prepare
                [] t = "validate" -> Validate
                [] t = "assets" -> VerifyAssets
                [] t = "version" -> RequirementVersion
                [] t = "installed" -> VerifyInstalled

-----------------------------------------------------------------------------
(* The decisions, on the snapshots s of the entries. *)
EvidenceOf(s) == s["evidence"].data.evidence

(* verify_evidence_signature and load_evidence_bytes *)
Authentic(s) ==
    /\ s["evidence"].data \in EvidenceFiles
    /\ s["checksums"].data = [binds |-> EvidenceOf(s)]
    /\ s["bundle"].data = [signs |-> EvidenceOf(s)]
    /\ EvidenceOf(s) \in Approved

ReceiptFor(e, base) == [receiptOf |-> e, base |-> base]
RenderedAsRelease(req, e) == [req EXCEPT !.version = e]
Rendered(req, e) == [req EXCEPT !.version = Fixed[e]]

(* prepare_security_update: the dispatched digest and the affected version *)
UpdatableByAny(s) ==
    /\ s["requirements"].data \in Requirements
    /\ s["requirements"].data.version = Affected[EvidenceOf(s)]

Updatable(s) ==
    /\ EvidenceOf(s) = dispatched
    /\ s["requirements"].data \in Requirements
    /\ s["requirements"].data.version = Affected[dispatched]

(* validate_receipt *)
ReceiptFits(receipt, req, base, e) ==
    /\ receipt = ReceiptFor(e, base)
    /\ req \in Requirements /\ req.version = Fixed[e]
    /\ base \in Requirements /\ base.version = Affected[e]

(* verify_assets: the signature of the collection, SBOM and provenance *)
Bears(s) == EvidenceOf(s) \in Assured

(* verify_installed_tree: the same regular files with the same bytes *)
SameTree(s) ==
    /\ s["collection"].data \in AssetFiles
    /\ s["installed"].data = [tree |-> s["collection"].data.of]

Accepts(n, s) ==
    CASE n = "evidence" -> Authentic(s)
      [] n = "requirements" -> Updatable(s)
      [] n = "receipt" -> ReceiptFits(s["receipt"].data, s["requirements"].data,
                                      s["base"].data, EvidenceOf(s))
      [] n = "collection" -> Bears(s)
      [] n = "installed" -> SameTree(s)

(* The digest a snapshot must have: an argument, or from the evidence. *)
Wanted(n) == IF tool = "assets" /\ n \in Assets
             THEN [asset |-> n, of |-> EvidenceOf(snap)]
             ELSE given[n]
Fits(n, d) == Wanted(n) \in {Anything, d}

(* What prepare writes, and what a download brings when its digest is right. *)
Output(n) ==
    CASE n = "receipt" -> ReceiptFor(EvidenceOf(snap), snap["requirements"].data)
      [] n = "requirements" -> Rendered(snap["requirements"].data, EvidenceOf(snap))
      [] OTHER -> [asset |-> n, of |-> EvidenceOf(snap)]

-----------------------------------------------------------------------------
Running == pos <= Len(Program(tool))
Current == Program(tool)[pos]
At(op) == Running /\ Current.op = op /\ UNCHANGED <<tool, given, dispatched>>
Done == pos' = pos + 1
Stay == UNCHANGED pos

Open == At("snapshot") /\ OpenSource(Current.entry) /\ Stay

Snapshot ==
    /\ At("snapshot")
    /\ Fits(Current.entry, ReadBack(Current.entry))
    /\ TakeSnapshot(Current.entry)
    /\ Done

Check ==
    /\ At("check")
    /\ phase = "next"
    /\ Accepts(Current.entry, snap)
    /\ Done
    /\ UNCHANGED fileVars

Create == At("create") /\ CreateExclusive(Current.entry) /\ Stay
Fill == At("create") /\ FillCreated(Output(Current.entry)) /\ Done

Stage == At("replace") /\ StageReplacement(Output(Current.entry)) /\ Stay
Compare == At("replace") /\ CompareSource(Current.entry) /\ Stay
Rename == At("replace") /\ RenameOver(Current.entry) /\ Stay
Confirm == At("replace") /\ ConfirmReplacement(Current.entry) /\ Done

(* What the code refuses: a missing or changed source, a wrong digest, a    *)
(* decision against the input, an existing output, a download with a wrong  *)
(* digest, an entry that was exchanged after the rename.                    *)
Refuse ==
    /\ \/ At("snapshot") /\ phase = "next" /\ file[Current.entry] = Absent
       \/ /\ At("snapshot") /\ phase = "reading"
          /\ ~(/\ SourceUnchanged(Current.entry)
               /\ Fits(Current.entry, ReadBack(Current.entry)))
       \/ At("check") /\ phase = "next" /\ ~Accepts(Current.entry, snap)
       \/ At("create") /\ phase = "next" /\ file[Current.entry] # Absent
       \/ At("create") /\ phase = "writing" /\ tool = "assets"
       \/ At("replace") /\ phase = "staged" /\ ~SourceIsSnapshot(Current.entry)
       \/ /\ At("replace") /\ phase = "renamed"
          /\ file[Current.entry].id # wrote[Current.entry]
    /\ UNCHANGED faults
    /\ Fail
    /\ Stay

Finish == ~Running /\ Pass /\ UNCHANGED <<tool, pos, given, dispatched>>

Interrupted ==
    /\ \/ Raise \/ Kill \/ RemoveOwn \/ RemoveMade \/ Undone
    /\ UNCHANGED <<tool, pos, given, dispatched>>

-----------------------------------------------------------------------------
(* The other process writes whole files of the kind that belongs there, and  *)
(* only what this command uses is of interest.                               *)
Used == {Program(tool)[i].entry : i \in DOMAIN Program(tool)}

FilesFor(n) ==
    CASE n \in {"requirements", "base"} -> Requirements
      [] n = "receipt" -> Receipts
      [] n = "evidence" -> EvidenceFiles
      [] n = "checksums" -> ChecksumFiles
      [] n = "bundle" -> BundleFiles
      [] n = "installed" -> Trees
      [] OTHER -> [asset : {n}, of : Evidences]

OtherProcess ==
    /\ ~Over
    /\ \E n \in Used : Remove(n) \/ \E d \in FilesFor(n) : Edit(n, d)
    /\ UNCHANGED <<tool, pos, given, dispatched>>

(* The job has taken requirements, base and receipt out of a commit and has  *)
(* passed the digests of its blobs; evidence, manifest and bundle are those  *)
(* of one release.  One of the outputs may be there from before.             *)
Outputs == {Program(tool)[i].entry :
              i \in {j \in DOMAIN Program(tool) : Program(tool)[j].op = "create"}}

Digested == CASE tool = "prepare" -> {"requirements"}
              [] tool = "validate" -> {"receipt", "requirements", "base"}
              [] tool = "installed" -> {"collection"}
              [] OTHER -> {}

StartData(n, release, req, base, receipt, other) ==
    CASE n = "requirements" -> req
      [] n = "base" -> base
      [] n = "receipt" -> receipt
      [] n = "evidence" -> [evidence |-> release]
      [] n = "checksums" -> [binds |-> release]
      [] n = "bundle" -> [signs |-> release]
      [] n = "installed" -> [tree |-> other]
      [] OTHER -> [asset |-> n, of |-> release]

Init ==
    /\ FilesInit
    /\ tool \in Tools
    /\ pos = 1
    /\ dispatched \in Evidences
    /\ \E release, other \in Evidences, req, base \in Requirements,
          old \in Outputs \cup {None} :
         \E from \in {base, req} :
           file = [n \in Entries |->
                     IF n \notin Used \/ (n \in Outputs /\ n # old)
                     THEN Absent
                     ELSE [id |-> 1, data |-> StartData(n, release, req, base,
                                                ReceiptFor(other, from), other)]]
    /\ given = [n \in Names |-> IF n \in Digested THEN file[n].data ELSE Anything]

Next == \/ Open \/ Snapshot \/ Check \/ Create \/ Fill
        \/ Stage \/ Compare \/ Rename \/ Confirm
        \/ Refuse \/ Finish \/ Interrupted \/ OtherProcess

Spec == Init /\ [][Next]_vars

-----------------------------------------------------------------------------
File == [id : Nat, data : Contents \cup {Partial, Nothing}]

(* The type of every variable. *)
TypeOK ==
    /\ file \in [Entries -> File]
    /\ clock \in Nat /\ edits \in 0 .. MaxEdits /\ faults \in 0 .. MaxFaults
    /\ phase \in Phases
    /\ held \in File
    /\ snap \in [Names -> [id : Nat, data : Contents \cup {Partial, Torn, Nothing}]]
    /\ wrote \in [Entries -> Nat]
    /\ own \in Entries \cup {None}
    /\ made \in Seq(Names)
    /\ left \in SUBSET Entries
    /\ comparedAt \in Nat
    /\ tool \in Tools
    /\ pos \in 1 .. Len(Program(tool)) + 1
    /\ given \in [Names -> Contents \cup {Anything, Nothing}]
    /\ dispatched \in Evidences

(* What a command accepts it has read whole: no accepted snapshot mixes the  *)
(* bytes before and after an edit (the metadata is compared around the read, *)
(* mlx90_secure_files.py:621).                                               *)
SnapshotsAreWhole == \A n \in Names : snap[n].data \notin {Torn, Partial}

(* A file of somebody else that the process replaces or removes falls into   *)
(* one of two windows, and into no other.  The replacement renames over the  *)
(* authenticated file, or over an edit made after the last comparison with   *)
(* it (mlx90_secure_files.py:437-442).  The clean-up after a failure unlinks *)
(* an output of the command by its name, without a look at what the entry    *)
(* holds (:319, security-release-consumer.py:725, 896, 1117): that is a file *)
(* put there after the process had created its own and had written to it.    *)
(* So an output that was there already, an edit seen by the comparison and a *)
(* new edit of the replaced requirements are never touched.                  *)
Ours(n) == wrote[n] # 0 /\ file[n].id = wrote[n]
PutThereSince(n) == wrote[n] # 0 /\ file[n].id > wrote[n]
UneditedWhenCompared(n) == file[n].id = snap[n].id \/ file[n].id > comparedAt

KeepsOthersFiles ==
    [][\A n \in Names :
         edits' = edits /\ file'[n] # file[n] /\ file[n] # Absent =>
            \/ Ours(n)
            \/ phase = "compared" /\ UneditedWhenCompared(n)
            \/ /\ phase = "undo" /\ file'[n] = Absent
               /\ n \in Outputs /\ PutThereSince(n)]_vars

(* What a command that passed has written fits together, whoever edited the  *)
(* inputs meanwhile: receipt and requirements are those that validate-receipt *)
(* accepts for the dispatched evidence, and all assets are of one evidence.   *)
PassedFitsTogether ==
    phase = "passed" =>
        /\ tool = "prepare" =>
             /\ wrote["receipt"] # 0 /\ wrote["requirements"] # 0
             /\ Ours("receipt") /\ Ours("requirements") =>
                   ReceiptFits(file["receipt"].data, file["requirements"].data,
                               given["requirements"], dispatched)
        /\ tool = "assets" =>
             \A n \in Assets : Ours(n) =>
                file[n].data = [asset |-> n, of |-> EvidenceOf(snap)]

(* A command that failed leaves nothing it created, except what it could not *)
(* remove and except after the requirements were replaced.                   *)
FailureLeavesNothing ==
    phase = "failed" /\ wrote["requirements"] = 0 =>
        \A n \in Entries \ left : ~Ours(n)

OutcomeIsWhole == PassedFitsTogether /\ FailureLeavesNothing
=============================================================================
