----------------------------- MODULE SecureFiles -----------------------------
(***************************************************************************)
(* The file operations of scripts/mlx90_secure_files.py as one process     *)
(* runs them while another process edits the same directory entries.       *)
(*                                                                         *)
(* An entry holds an inode.  Its identity (device, inode, mode, size and   *)
(* the two times of stat) is abstracted to a number that every change of   *)
(* the file renews, its replacement and removal included, because both     *)
(* give the old inode another time of change; the bytes are a value of the *)
(* module that uses this one.  A file is read in two parts, so that an     *)
(* edit can fall between them, and a new file is Partial until its bytes   *)
(* are written.                                                            *)
(***************************************************************************)
EXTENDS Naturals, Sequences

CONSTANTS
    Names,      \* the directory entries that the tools name
    Temp,       \* the entry of a staged replacement (.mlx90-update-...)
    Partial,    \* what a new file holds before its bytes are written
    Torn,       \* the bytes of a read that an edit has split
    Nothing,    \* the data of an absent entry
    None,       \* no entry is being created
    MaxEdits,   \* bound: edits by the other process
    MaxFaults   \* bound: calls that raise, removals that fail, kills

Entries == Names \cup {Temp}

ASSUME SecureFilesAssumption ==
    /\ Temp \notin Names
    /\ None \notin Entries
    /\ Torn \notin {Partial, Nothing} /\ Partial # Nothing
    /\ MaxEdits \in Nat
    /\ MaxFaults \in Nat

VARIABLES
    file,       \* entry -> the identity and the bytes behind it, or Absent
    clock,      \* the last identity given out
    edits,      \* edits so far
    faults,     \* faults so far
    phase,      \* where the process is in its current operation
    held,       \* the file behind the open source descriptor, as first read
    snap,       \* entry -> its accepted private snapshot, or Absent
    wrote,      \* entry -> the identity this process last gave it, 0: none
    own,        \* the entry that the current operation has created
    made,       \* the entries that earlier operations have created, in order
    left,       \* the entries that the process could not remove
    comparedAt  \* the clock when the source entry was last compared

disk == <<file, clock, edits>>
process == <<held, snap, wrote, own, made, left, comparedAt>>
fileVars == <<disk, faults, phase, process>>

Absent == [id |-> 0, data |-> Nothing]
Phases == {"next", "reading", "writing", "staged", "compared", "renamed",
           "undo", "passed", "failed", "killed"}
Over == phase \in {"passed", "failed", "killed"}

FilesInit ==
    /\ clock = 1
    /\ edits = 0
    /\ faults = 0
    /\ phase = "next"
    /\ held = Absent
    /\ snap = [n \in Names |-> Absent]
    /\ wrote = [n \in Entries |-> 0]
    /\ own = None
    /\ made = <<>>
    /\ left = {}
    /\ comparedAt = 0

-----------------------------------------------------------------------------
(* The other process puts new bytes into an entry, in place or by a rename, *)
(* creates the entry, or removes it.                                        *)
Edit(n, d) ==
    /\ edits < MaxEdits
    /\ file' = [file EXCEPT ![n] = [id |-> clock + 1, data |-> d]]
    /\ clock' = clock + 1
    /\ edits' = edits + 1
    /\ UNCHANGED <<faults, phase, process>>

Remove(n) ==
    /\ edits < MaxEdits
    /\ file[n] # Absent
    /\ file' = [file EXCEPT ![n] = Absent]
    /\ edits' = edits + 1
    /\ UNCHANGED <<clock, faults, phase, process>>

-----------------------------------------------------------------------------
(* snapshot_regular_file: the metadata before, the bytes, the metadata      *)
(* after, and the comparison of the two and of the expected digest.         *)
OpenSource(n) ==
    /\ phase = "next"
    /\ file[n] # Absent
    /\ held' = file[n]
    /\ phase' = "reading"
    /\ UNCHANGED <<disk, faults, snap, wrote, own, made, left, comparedAt>>

ReadBack(n) == IF file[n].data = held.data THEN held.data ELSE Torn

SourceStillThere(n) == file[n] # Absent
SourceUnchanged(n) == file[n].id = held.id

TakeSnapshot(n) ==
    /\ phase = "reading"
    /\ SourceUnchanged(n)
    /\ snap' = [snap EXCEPT ![n] = [id |-> held.id, data |-> ReadBack(n)]]
    /\ held' = Absent
    /\ phase' = "next"
    /\ UNCHANGED <<disk, faults, wrote, own, made, left, comparedAt>>

(* write_exclusive_regular and the output of a download: the entry must not *)
(* exist, and from then on it is this process that removes it on a failure. *)
CreateExclusive(n) ==
    /\ phase = "next"
    /\ file[n] = Absent
    /\ file' = [file EXCEPT ![n] = [id |-> clock + 1, data |-> Partial]]
    /\ clock' = clock + 1
    /\ wrote' = [wrote EXCEPT ![n] = clock + 1]
    /\ own' = n
    /\ phase' = "writing"
    /\ UNCHANGED <<edits, faults, held, snap, made, left, comparedAt>>

(* The bytes go to the created inode, also when the entry no longer names it: *)
(* whatever the entry then holds has been put there after the creation.       *)
FillCreated(d) ==
    /\ phase = "writing"
    /\ \/ /\ file[own].id = wrote[own]
          /\ file' = [file EXCEPT ![own] = [id |-> clock + 1, data |-> d]]
          /\ wrote' = [wrote EXCEPT ![own] = clock + 1]
       \/ file[own].id # wrote[own] /\ UNCHANGED <<file, wrote>>
    /\ clock' = clock + 1
    /\ own' = None
    /\ made' = Append(made, own)
    /\ phase' = "next"
    /\ UNCHANGED <<edits, faults, held, snap, left, comparedAt>>

(* replace_regular_from_snapshot: the temporary file, the comparison of the *)
(* entry with the snapshot, the rename, and the look at the result.         *)
StageReplacement(d) ==
    /\ phase = "next"
    /\ file' = [file EXCEPT ![Temp] = [id |-> clock + 1, data |-> d]]
    /\ clock' = clock + 1
    /\ wrote' = [wrote EXCEPT ![Temp] = clock + 1]
    /\ own' = Temp
    /\ phase' = "staged"
    /\ UNCHANGED <<edits, faults, held, snap, made, left, comparedAt>>

SourceIsPresent(n) == file[n] # Absent
SourceIsSnapshot(n) == file[n].id = snap[n].id

CompareSource(n) ==
    /\ phase = "staged"
    /\ SourceIsSnapshot(n)
    /\ comparedAt' = clock
    /\ phase' = "compared"
    /\ UNCHANGED <<disk, faults, held, snap, wrote, own, made, left>>

RenameOver(n) ==
    /\ phase = "compared"
    /\ file' = [file EXCEPT ![n] = file[Temp], ![Temp] = Absent]
    /\ wrote' = [wrote EXCEPT ![n] = file[Temp].id, ![Temp] = 0]
    /\ own' = None
    /\ phase' = "renamed"
    /\ UNCHANGED <<clock, edits, faults, held, snap, made, left, comparedAt>>

(* An edit in place keeps the inode: the look at the result accepts it when *)
(* the size is the same, and anything else in the entry is refused.         *)
(* From here on a failure no longer removes what was made before.           *)
ConfirmReplacement(n) ==
    /\ phase = "renamed"
    /\ file[n] # Absent
    /\ made' = <<>>
    /\ phase' = "next"
    /\ UNCHANGED <<disk, faults, held, snap, wrote, own, left, comparedAt>>

-----------------------------------------------------------------------------
(* An exception: what the current operation has created is removed and a    *)
(* failure of that is ignored; then the tool removes the entries of its     *)
(* earlier operations, last first, and the first failure of that ends it.   *)
(* All of them are removed by name, whosever file the entry holds then.    *)
Fail ==
    /\ phase' = "undo"
    /\ held' = Absent
    /\ UNCHANGED <<disk, snap, wrote, own, made, left, comparedAt>>

Raise ==
    /\ phase \notin {"undo", "passed", "failed", "killed"}
    /\ faults < MaxFaults
    /\ faults' = faults + 1
    /\ Fail

Gone(n) == [file EXCEPT ![n] = Absent]
Earlier(s) == SubSeq(s, 1, Len(s) - 1)

RemoveOwn ==
    /\ phase = "undo"
    /\ own # None
    /\ \/ file' = Gone(own) /\ UNCHANGED <<faults, left>>
       \/ /\ faults < MaxFaults
          /\ faults' = faults + 1
          /\ left' = left \cup {own}
          /\ UNCHANGED file
    /\ own' = None
    /\ UNCHANGED <<clock, edits, phase, held, snap, wrote, made, comparedAt>>

RemoveMade ==
    /\ phase = "undo"
    /\ own = None
    /\ made # <<>>
    /\ \/ /\ file' = Gone(made[Len(made)])
          /\ made' = Earlier(made)
          /\ UNCHANGED <<faults, phase, left>>
       \/ /\ faults < MaxFaults
          /\ faults' = faults + 1
          /\ left' = left \cup {made[i] : i \in DOMAIN made}
          /\ phase' = "failed"
          /\ UNCHANGED <<file, made>>
    /\ UNCHANGED <<clock, edits, held, snap, wrote, own, comparedAt>>

Undone ==
    /\ phase = "undo"
    /\ own = None
    /\ made = <<>>
    /\ phase' = "failed"
    /\ UNCHANGED <<disk, faults, process>>

(* The process is killed: nothing is removed. *)
Kill ==
    /\ ~Over
    /\ faults < MaxFaults
    /\ faults' = faults + 1
    /\ phase' = "killed"
    /\ UNCHANGED <<disk, process>>

Pass ==
    /\ phase = "next"
    /\ phase' = "passed"
    /\ UNCHANGED <<disk, faults, process>>
=============================================================================
