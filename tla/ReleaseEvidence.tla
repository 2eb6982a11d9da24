--------------------------- MODULE ReleaseEvidence ---------------------------
(***************************************************************************)
(* The evidence of one container release as the build job makes it: the    *)
(* files of the images, scripts/enrich-mlx90-release-evidence.py, which    *)
(* replaces three of them as one transaction, and                          *)
(* scripts/mlx90_sign_release_assets.py, which checks and signs the set.   *)
(*                                                                         *)
(* A file is the build it was made in and a mark: how many MLX-90 sections *)
(* the document has (evidence, markdown), or 1 for the container evidence, *)
(* which exists only enriched.  Digests and cross references compare       *)
(* builds, as every build makes other images.                              *)
(***************************************************************************)
EXTENDS Naturals, Sequences

CONSTANTS
    Missing,    \* no such file, no such asset
    MaxBuilds,  \* bound: executions of the build job
    MaxFaults   \* bound: calls that raise, jobs that are cancelled

ASSUME EvidenceAssumption ==
    /\ MaxBuilds \in Nat /\ MaxFaults \in Nat
    /\ Missing \notin [build : 0 .. MaxBuilds, mark : Nat]

Base == {"images", "installed", "assurance", "provenance", "evidence", "markdown"}
Outputs == <<"evidence", "markdown", "container">>
Files == Base \cup {"container"}
Builds == 1 .. MaxBuilds
Contents == [build : 0 .. MaxBuilds, mark : Nat]

VARIABLES
    security,   \* the release has a receipt
    pc,         \* what the run in progress does next, or "idle"
    build,      \* the builds so far; the last one made the files below
    dist,       \* the working files
    original,   \* what the transaction read before it staged anything
    staged,     \* the outputs whose new bytes are in a temporary file
    committed,  \* the outputs replaced so far, in order
    cursor,     \* the output, later the asset, the loop is at
    broken,     \* a step of the rollback failed
    result,     \* how the enrichment ended
    signed,     \* build -> the files that it signed
    before,     \* history: the outputs when the enrichment was started
    faults

evidenceVars == <<security, build, dist, original, staged, committed, broken, result,
                  signed, before>>

Results == {"none", "unchanged", "running", "enriched", "restored", "incomplete", "error",
            "killed"}
Enriching == {"read", "originals", "stage", "replace", "sync", "rollback", "cleanup"}

EvidenceInit ==
    /\ security \in BOOLEAN
    /\ pc = "idle" /\ build = 0 /\ faults = 0 /\ cursor = 1
    /\ dist = [f \in Files |-> Missing]
    /\ original = [f \in Files |-> Missing] /\ before = original
    /\ staged = {} /\ committed = <<>> /\ broken = FALSE /\ result = "none"
    /\ signed = [b \in Builds |-> dist]

-----------------------------------------------------------------------------
(* What the files say, and the checks of the two scripts.                  *)

\* The steps before: images are built and captured, evidence is written.
\* The installed collections are the same bytes in every build.
Generated(b) ==
    [f \in Files |->
        IF f = "container" THEN Missing
        ELSE [build |-> IF f = "installed" THEN 0 ELSE b, mark |-> 0]]

\* What the enrichment makes of an output.
Enriched(f, old) ==
    IF f = "container" THEN [build |-> build, mark |-> 1]
    ELSE [build |-> old.build, mark |-> 1]

\* The pinned images are asked again, and the captures have to be of them.
ImagesFit(d, b) == d["images"].build = b

\* The collection in the images is the producer's, byte by byte.
InstalledFits(d) == d["installed"].build = 0

\* The assurance records name the captures by digest.
AssuranceFits(d) == d["assurance"].build = d["images"].build

\* The provenance names every file that describes the images, by digest.
ProvenanceFits(d) == d["provenance"].build = d["assurance"].build

\* A document that was enriched before is enriched again; one that has two
\* sections is refused.
Enrichable(d) ==
    /\ AssuranceFits(d) /\ InstalledFits(d)
    /\ d["markdown"].mark <= 1

\* release-evidence.json speaks of these images, and of the producer only in a
\* security release.
EvidenceFits(d, b, s) ==
    d["evidence"] = [build |-> b, mark |-> IF s THEN 1 ELSE 0]

\* The text before the MLX-90 section of release-evidence.md is not looked at.
MarkdownFits(d, s) == d["markdown"].mark = IF s THEN 1 ELSE 0

\* The container evidence names run, attempt and time of the revocation check.
ContainerFits(d, b, s) ==
    d["container"] = IF s THEN [build |-> b, mark |-> 1] ELSE Missing

SemanticsHold(d, b, s) ==
    /\ ImagesFit(d, b)
    /\ InstalledFits(d)
    /\ AssuranceFits(d)
    /\ ProvenanceFits(d)
    /\ EvidenceFits(d, b, s)
    /\ MarkdownFits(d, s)
    /\ ContainerFits(d, b, s)

-----------------------------------------------------------------------------
(* enrich-mlx90-release-evidence.py                                        *)

Output == Outputs[cursor]

\* The process ends with r; only a success lets the job go on to sign.
Exit(r) ==
    /\ result' = r
    /\ pc' = IF r \in {"unchanged", "enriched"} THEN "sign" ELSE "idle"
    /\ cursor' = 1

\* The next output, or the step after the loop.
NextOutput(step, after) ==
    \/ /\ cursor < Len(Outputs)
       /\ cursor' = cursor + 1 /\ pc' = step
    \/ /\ cursor = Len(Outputs)
       /\ cursor' = 1 /\ pc' = after

\* main up to the transaction; without a receipt the files stay as they are.
EnrichRead ==
    /\ pc = "read"
    /\ before' = dist
    /\ IF security /\ Enrichable(dist)
       THEN pc' = "originals" /\ result' = "running" /\ UNCHANGED cursor
       ELSE Exit(IF security THEN "error" ELSE "unchanged")
    /\ UNCHANGED <<security, build, dist, original, staged, committed, broken,
                   signed, faults>>

Originals ==
    /\ pc = "originals"
    /\ original' = dist
    /\ staged' = {} /\ committed' = <<>> /\ broken' = FALSE
    /\ pc' = "stage"
    /\ UNCHANGED <<security, build, dist, cursor, result, signed, before, faults>>

Stage ==
    /\ pc = "stage"
    /\ staged' = staged \cup {Output}
    /\ NextOutput("stage", "replace")
    /\ UNCHANGED <<security, build, dist, original, committed, broken, result,
                   signed, before, faults>>

Replace ==
    /\ pc = "replace"
    /\ dist' = [dist EXCEPT ![Output] = Enriched(Output, dist[Output])]
    /\ staged' = staged \ {Output}
    /\ committed' = Append(committed, Output)
    /\ NextOutput("replace", "sync")
    /\ UNCHANGED <<security, build, original, broken, result, signed, before, faults>>

Sync ==
    /\ pc = "sync"
    /\ result' = "enriched" /\ pc' = "cleanup"
    /\ UNCHANGED <<security, build, dist, original, staged, committed, cursor, broken,
                   signed, before, faults>>

\* Mutant of RolledBack: an output that did not exist is left in place.
RolledBackIfPresent(f) ==
    IF original[f] = Missing THEN dist ELSE [dist EXCEPT ![f] = original[f]]

\* An output as the rollback puts it back, or removes it.
RolledBack(f) == [dist EXCEPT ![f] = original[f]]

\* The rollback goes from the last replaced output to the first; one that
\* fails, before or after its effect, does not stop it.
Rollback ==
    /\ pc = "rollback" /\ committed # <<>>
    /\ committed' = SubSeq(committed, 1, Len(committed) - 1)
    /\ \/ /\ dist' = RolledBack(committed[Len(committed)])
          /\ UNCHANGED <<broken, faults>>
       \/ /\ faults < MaxFaults /\ faults' = faults + 1 /\ broken' = TRUE
          /\ dist' \in {dist, RolledBack(committed[Len(committed)])}
    /\ UNCHANGED <<security, build, pc, original, staged, cursor, result, signed, before>>

RollbackSync ==
    /\ pc = "rollback" /\ committed = <<>>
    /\ \/ UNCHANGED <<broken, faults>>
       \/ faults < MaxFaults /\ faults' = faults + 1 /\ broken' = TRUE
    /\ result' = IF broken' THEN "incomplete" ELSE "restored"
    /\ pc' = "cleanup"
    /\ UNCHANGED <<security, build, dist, original, staged, committed, cursor, signed,
                   before>>

Cleanup ==
    /\ pc = "cleanup"
    /\ staged' = {}
    /\ Exit(result)
    /\ UNCHANGED <<security, build, dist, original, committed, broken, signed, before, faults>>

\* A call of the transaction raises OSError: before it the files are as they were,
\* inside it the rollback begins, after it the exit status is an error all the same.
EnrichRaises ==
    /\ pc \in Enriching \ {"rollback"}
    /\ faults < MaxFaults /\ faults' = faults + 1
    /\ \/ /\ pc \in {"read", "originals"} /\ Exit("error")
          /\ before' = dist
       \/ /\ pc \in {"stage", "replace", "sync"}
          /\ pc' = "rollback" /\ cursor' = 1 /\ UNCHANGED <<result, before>>
       \/ pc = "cleanup" /\ Exit("error") /\ UNCHANGED before
    /\ UNCHANGED <<security, build, dist, original, staged, committed, broken, signed>>

EnrichStep ==
    \/ EnrichRead \/ Originals \/ Stage \/ Replace \/ Sync
    \/ Rollback \/ RollbackSync \/ Cleanup

-----------------------------------------------------------------------------
(* mlx90_sign_release_assets.py                                            *)

\* Every file is captured once; what is checked is what is signed and written.  The
\* artifact of the run is uploaded only from a complete result.
SignAssets(next) ==
    /\ pc = "sign"
    /\ IF SemanticsHold(dist, build, security)
       THEN signed' = [signed EXCEPT ![build] = dist] /\ pc' = next
       ELSE pc' = "idle" /\ UNCHANGED signed
    /\ UNCHANGED <<security, build, dist, original, staged, committed, cursor, broken,
                   result, before, faults>>

\* The names of a signed set in the order of the shell's sort: the files, the checksums
\* of them and two signatures.  A release may hold one more asset.
Names ==
    IF security
    THEN <<"SHA256SUMS", "SHA256SUMS.sigstore", "assurance", "container",
           "container.sigstore", "evidence", "images", "installed", "markdown",
           "provenance">>
    ELSE <<"SHA256SUMS", "SHA256SUMS.sigstore", "assurance", "evidence", "images",
           "installed", "markdown", "provenance">>
Expected == {Names[i] : i \in DOMAIN Names}
AllNames == Files \cup {"SHA256SUMS", "SHA256SUMS.sigstore", "container.sigstore", "other"}

IsSigned(b) == b \in Builds /\ signed[b]["images"] # Missing

\* The set of build b as it is signed: checksums and signatures are of b.
Artifact(b) ==
    [n \in AllNames |->
        IF n \notin Expected THEN Missing
        ELSE IF n \in Files THEN signed[b][n]
        ELSE [build |-> b, mark |-> 0]]

\* What a checksum file lists: the files of its build.
ChecksumsFit(set) ==
    LET b == set["SHA256SUMS"].build
    IN  /\ IsSigned(b)
        /\ \A n \in Expected \ {"SHA256SUMS", "SHA256SUMS.sigstore"} :
              set[n] = Artifact(b)[n]

\* The images that the signed files themselves name.
ImagesNamed(set) ==
    IF security THEN set["container"].build ELSE set["evidence"].build

\* verify_signed_assets: nothing but the expected files, both signatures, the checksums,
\* and the same semantics as before signing, with the images that the files name.
VerifySigned(set) ==
    /\ {n \in AllNames : set[n] # Missing} = Expected
    /\ \A n \in Expected : set[n] \in Contents
    /\ set["SHA256SUMS.sigstore"].build = set["SHA256SUMS"].build
    /\ ChecksumsFit(set)
    /\ security => set["container.sigstore"].build = set["container"].build
    /\ SemanticsHold(set, ImagesNamed(set), security)

-----------------------------------------------------------------------------
(* The exit status tells the state of the three outputs. *)

\* A success means that all of them are the completed ones, a failure that says so
\* that all of them are as before, and any other error one of the two, unless it hides
\* that the rollback was incomplete.  (atomic_write_outputs)
AllOrNothing ==
    pc \notin Enriching =>
        LET new == \A i \in DOMAIN Outputs :
                      dist[Outputs[i]] = [build |-> build, mark |-> 1]
            old == \A i \in DOMAIN Outputs : dist[Outputs[i]] = before[Outputs[i]]
        IN  /\ result = "enriched" => new /\ staged = {}
            /\ result = "restored" => old /\ staged = {}
            /\ result = "error" => new \/ old \/ broken
=============================================================================
