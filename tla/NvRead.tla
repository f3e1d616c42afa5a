------------------------------- MODULE NvRead -------------------------------
(***************************************************************************)
(* read_nv_partition (nv_read.c): the modem's NV data is kept twice, in    *)
(* the partitions xxnv1 and xxnv2.  Each time the modem is loaded the      *)
(* daemon checks both copies, repairs a damaged one from the other and     *)
(* writes the data to the modem's memory.  Between two loads nvitemd saves *)
(* new versions to both.  Power may be lost at any moment.                 *)
(*                                                                         *)
(* A copy is a header (the version it describes, 0 when the magic or the   *)
(* checksum is wrong; whether its length can be allocated) and a body (the *)
(* version it holds, 0 when it holds none).  The 512 bytes of the header   *)
(* are one sector and are written at once; the body is not.  Nothing in    *)
(* nv_read.c calls fsync: what is written is in the page cache, where the  *)
(* next read finds it, and reaches the disk later, in any order.           *)
(***************************************************************************)
EXTENDS Naturals

CONSTANTS
  MaxVersion,  \* versions that nvitemd saves, for TLC
  Budget       \* how often damage, a read error and a write error may happen

Faults == {"damage", "read", "write"}

ASSUME VersionAssumption == MaxVersion \in Nat
ASSUME FaultAssumption == Budget \in [Faults -> Nat]

VARIABLES
  copy,     \* the two partitions as they are read: the page cache
  disk,     \* what of them would survive a power failure
  got,      \* header and buf of each copy, as read_nv_partition read them
  pc,       \* where read_nv_partition stands
  out,      \* the NV region of the modem's memory: a version, 0 for none
  result,   \* what the last call returned
  wr,       \* where nvitemd stands
  todo,     \* the copies that nvitemd's save has not finished
  version,  \* history: the version saved last
  durable,  \* history: the last version that reached the disk in both copies
  clean,    \* history: no read or write of this call failed
  risky,    \* history: a copy was overwritten while the other was not safe
  left      \* what is left of Budget

vars == <<copy, disk, got, pc, out, result, wr, todo, version, durable, clean, risky, left>>

Copies == {1, 2}
Copy   == [hdr: Nat, len: BOOLEAN, body: Nat]
Other(i) == 3 - i

TypeOK ==
  /\ copy \in [Copies -> Copy]
  /\ disk \in [Copies -> Copy]
  /\ got \in [Copies -> Copy]
  /\ pc \in {"idle", "org", "bak", "out", "header", "body", "torn", "deliver", "done"}
  /\ out \in Nat
  /\ result \in BOOLEAN
  /\ wr \in {"idle", "header", "body", "torn", "sync"}
  /\ todo \in SUBSET Copies
  /\ version \in Nat
  /\ durable \in Nat
  /\ clean \in BOOLEAN
  /\ risky \in BOOLEAN
  /\ left \in [Faults -> Nat]

Init ==
  /\ copy = [i \in Copies |-> [hdr |-> 1, len |-> TRUE, body |-> 1]]
  /\ disk = copy
  /\ got = copy
  /\ pc = "idle"
  /\ out = 0
  /\ result = FALSE
  /\ wr = "idle"
  /\ todo = {}
  /\ version = 1
  /\ durable = 1
  /\ clean = TRUE
  /\ risky = FALSE
  /\ left = Budget

Spend(what) == left[what] > 0 /\ left' = [left EXCEPT ![what] = @ - 1]

-----------------------------------------------------------------------------
\* a mutation: the body is not checked
ValidHeader(c) == c.hdr # 0

\* magic and checksum are right
Valid(c) == c.hdr # 0 /\ c.body = c.hdr

\* the bits of `status'
Status == {i \in Copies : Valid(got[i])}

\* copy i is valid and on the disk
Safe(i) == Valid(copy[i]) /\ disk[i] = copy[i]

nvitemd == <<wr, todo, version, durable>>

Return(r) == pc' = "done" /\ result' = r

\* modem_load_cp_nv: load_img_from_table has come to the entry with NV_FLAG
Call ==
  /\ pc \in {"idle", "done"}
  /\ wr = "idle"
  /\ pc' = "org"
  /\ out' = 0
  /\ clean' = TRUE
  /\ UNCHANGED <<copy, disk, got, result, nvitemd, risky, left>>

(***************************************************************************)
(* Read copy i, then go on to `next'.  When it cannot be opened, its       *)
(* header not read or its length not allocated the call returns 0 at once; *)
(* a body that is too short is a damaged one.                              *)
(***************************************************************************)
ReadCopy(i, next) ==
  /\ \/ /\ copy[i].len
        /\ got' = [got EXCEPT ![i] = copy[i]]
        /\ pc' = next
        /\ UNCHANGED <<result, clean, left>>
     \/ /\ ~copy[i].len
        /\ Return(FALSE)
        /\ UNCHANGED <<got, clean, left>>
     \/ /\ Spend("read")
        /\ clean' = FALSE
        /\ Return(FALSE)
        /\ UNCHANGED got
     \/ /\ copy[i].len
        /\ Spend("read")
        /\ clean' = FALSE
        /\ got' = [got EXCEPT ![i] = [copy[i] EXCEPT !.body = 0]]
        /\ pc' = next
        /\ UNCHANGED result
  /\ UNCHANGED <<copy, disk, out, nvitemd, risky>>

ReadOrg == pc = "org" /\ ReadCopy(1, "bak")
ReadBak == pc = "bak" /\ ReadCopy(2, "out")

\* a mutation: only the original is ever used
DecideNoBackup ==
  /\ pc = "out"
  /\ IF 1 \notin Status
     THEN Return(FALSE)
     ELSE /\ pc' = IF Status = Copies THEN "deliver" ELSE "header"
          /\ UNCHANGED result
  /\ UNCHANGED <<copy, disk, got, out, nvitemd, clean, risky, left>>

\* the switch on status; two damaged copies give the modem zeros
Decide ==
  /\ pc = "out"
  /\ \/ /\ Status = {}
        /\ Return(FALSE)
        /\ UNCHANGED <<clean, left>>
     \/ /\ Status # {}
        /\ pc' = IF Status = Copies THEN "deliver" ELSE "header"
        /\ UNCHANGED <<result, clean, left>>
     \/ Spend("write") /\ clean' = FALSE /\ Return(FALSE)    \* no out_handle
  /\ UNCHANGED <<copy, disk, got, out, nvitemd, risky>>

\* the copy that is delivered, and that the other one is repaired from
Source == IF 1 \in Status THEN 1 ELSE 2

\* a mutation: the repair writes the copy that is valid
DamagedNot == Source

Damaged == Other(Source)

\* a mutation: a failed repair ends in a state of its own
RepairFailsStops == Spend("write") /\ clean' = FALSE /\ pc' = "failed"

\* a repair that fails is logged; what it has not written it does not write
RepairFails == Spend("write") /\ clean' = FALSE /\ pc' = "deliver"

RepairHeader ==
  /\ pc = "header"
  /\ \/ /\ copy' = [copy EXCEPT ![Damaged] = [got[Source] EXCEPT !.body = copy[Damaged].body]]
        /\ pc' = "body"
        /\ risky' = (risky \/ ~Safe(Source))
        /\ UNCHANGED <<clean, left>>
     \/ RepairFails /\ UNCHANGED <<copy, risky>>
  /\ UNCHANGED <<disk, got, out, result, nvitemd>>

RepairBodyBegins ==
  /\ pc = "body"
  /\ copy' = [copy EXCEPT ![Damaged].body = 0]
  /\ pc' = "torn"
  /\ UNCHANGED <<disk, got, out, result, nvitemd, clean, risky, left>>

RepairBodyEnds ==
  /\ pc = "torn"
  /\ \/ /\ copy' = [copy EXCEPT ![Damaged].body = got[Source].body]
        /\ pc' = "deliver"
        /\ UNCHANGED <<clean, left>>
     \/ RepairFails /\ UNCHANGED copy
  /\ UNCHANGED <<disk, got, out, result, nvitemd, risky>>

\* the data goes to the modem's memory
Deliver ==
  /\ pc = "deliver"
  /\ \/ /\ out' = got[Source].body
        /\ Return(TRUE)
        /\ UNCHANGED <<clean, left>>
     \/ /\ Spend("write")
        /\ clean' = FALSE
        /\ Return(FALSE)
        /\ UNCHANGED out
  /\ UNCHANGED <<copy, disk, got, nvitemd, risky>>

ReadNvPartition ==
  \/ Call \/ ReadOrg \/ ReadBak \/ Decide
  \/ RepairHeader \/ RepairBodyBegins \/ RepairBodyEnds \/ Deliver

-----------------------------------------------------------------------------
(***************************************************************************)
(* nvitemd, which runs while the modem does: it saves a version to one     *)
(* copy and then to the other, in either order, and is taken to sync each  *)
(* before it goes on.  modem_connect.c stops it when the modem is in       *)
(* trouble, at any moment.                                                 *)
(***************************************************************************)
daemon == <<got, pc, out, result, clean, left>>

SaveBegins ==
  /\ pc = "done"
  /\ wr = "idle"
  /\ version < MaxVersion
  /\ version' = version + 1
  /\ wr' = "header"
  /\ todo' = Copies
  /\ risky' = (risky \/ \E i \in Copies : ~Safe(i))
  /\ UNCHANGED <<copy, disk, durable, daemon>>

SaveHeader(i) ==
  /\ wr = "header"
  /\ i \in todo
  /\ todo' = todo \ {i}
  /\ copy' = [copy EXCEPT ![i] = [hdr |-> version, len |-> TRUE, body |-> @.body]]
  /\ wr' = "body"
  /\ UNCHANGED <<disk, version, durable, risky, daemon>>

\* the copy being saved is the one whose header is new and whose body is not
Saving(i) == i \notin todo /\ copy[i].hdr = version /\ copy[i].body # version

SaveBodyBegins(i) ==
  /\ wr = "body"
  /\ Saving(i)
  /\ copy' = [copy EXCEPT ![i].body = 0]
  /\ wr' = "torn"
  /\ UNCHANGED <<disk, todo, version, durable, risky, daemon>>

SaveBodyEnds(i) ==
  /\ wr = "torn"
  /\ Saving(i)
  /\ copy' = [copy EXCEPT ![i].body = version]
  /\ wr' = "sync"
  /\ UNCHANGED <<disk, todo, version, durable, risky, daemon>>

\* fsync returns when everything has been written back
SaveSynced ==
  /\ wr = "sync"
  /\ disk = copy
  /\ wr' = IF todo = {} THEN "idle" ELSE "header"
  /\ durable' = IF todo = {} THEN version ELSE durable
  /\ UNCHANGED <<copy, disk, todo, version, risky, daemon>>

Nvitemd ==
  \/ SaveBegins \/ SaveSynced
  \/ \E i \in Copies : SaveHeader(i) \/ SaveBodyBegins(i) \/ SaveBodyEnds(i)

NvitemdStopped ==
  /\ wr # "idle"
  /\ wr' = "idle"
  /\ todo' = {}
  /\ UNCHANGED <<copy, disk, version, durable, risky, daemon>>

-----------------------------------------------------------------------------
(***************************************************************************)
(* The kernel writes back what is dirty of copy i: the header's sector or  *)
(* sectors of the body, of which the disk then holds no version or all of  *)
(* the one that is in the cache.                                           *)
(***************************************************************************)
WriteBack(i) ==
  /\ disk[i] # copy[i]
  /\ \/ disk' = [disk EXCEPT ![i] = [copy[i] EXCEPT !.body = disk[i].body]]
     \/ /\ disk[i].body # copy[i].body
        /\ \E b \in {0, copy[i].body} : disk' = [disk EXCEPT ![i].body = b]
  /\ UNCHANGED <<copy, nvitemd, risky, daemon>>

\* power is lost and comes back: what was in memory only is gone
Crash ==
  /\ copy' = disk
  /\ wr' = "idle"
  /\ todo' = {}
  /\ pc' = "idle"
  /\ out' = 0
  /\ result' = FALSE
  /\ UNCHANGED <<disk, got, version, durable, clean, risky, left>>

\* a copy goes bad while nothing runs: its body, its header, or its length
Damage(i) ==
  /\ pc = "idle"
  /\ \A j \in Copies : Valid(copy[j])
  /\ Spend("damage")
  /\ \/ copy' = [copy EXCEPT ![i].body = 0]
     \/ copy' = [copy EXCEPT ![i].hdr = 0]
     \/ copy' = [copy EXCEPT ![i].hdr = 0, ![i].len = FALSE]
  /\ disk' = copy'
  /\ UNCHANGED <<got, pc, out, result, wr, todo, version, durable, clean, risky>>

Next ==
  \/ ReadNvPartition
  \/ Nvitemd
  \/ NvitemdStopped
  \/ Crash
  \/ \E i \in Copies : WriteBack(i) \/ Damage(i)

Spec == Init /\ [][Next]_vars

-----------------------------------------------------------------------------
(***************************************************************************)
(* The NV data is not lost: power failures during saves and repairs, as    *)
(* many as may come and whatever part of the writes they let reach the     *)
(* disk, nvitemd stopped half way, and damage to a copy leave a valid copy *)
(* on the disk.  The exception is `risky': the repair of nv_read.c or a    *)
(* save of nvitemd began to overwrite one copy while the other was damaged *)
(* or, for want of an fsync in nv_read.c, not yet on the disk.             *)
(***************************************************************************)
NvNotLost == risky \/ \E i \in Copies : Valid(disk[i])

(***************************************************************************)
(* What a call that succeeds gives to the modem was saved: never a torn    *)
(* body, and nothing older than the last version on the disk in both.      *)
(***************************************************************************)
DeliversSaved ==
  [][pc = "deliver" /\ pc' = "done" /\ result' => out' \in durable..version /\ out' # 0]_vars

(***************************************************************************)
(* A damaged copy is no reason to fail: a call without an I/O error whose  *)
(* headers have lengths that can be allocated succeeds, as long as no copy *)
(* was overwritten while the other was not safe (`risky').                 *)
(***************************************************************************)
ReadFindsSaved ==
  pc = "done" /\ clean /\ ~risky /\ (\A i \in Copies : copy[i].len) => result

-----------------------------------------------------------------------------
(***************************************************************************)
(* The inductive invariant.  A call and a save exclude each other; what    *)
(* the call read and found valid is what the copy still holds; unless      *)
(* `risky' one copy is safe, and not the one being written; every header,  *)
(* in the cache or on the disk, is of a version between the last durable   *)
(* and the last saved.                                                     *)
(***************************************************************************)
SaveAlone ==
  /\ wr # "idle" => pc = "done"
  /\ wr # "idle" => \A i \in Copies \ todo : copy[i].hdr = version
  /\ pc = "idle" => disk = copy

\* the copies that the call under way has read
Read == CASE pc = "bak" -> {1}
          [] pc \in {"out", "header", "body", "torn", "deliver"} -> Copies
          [] OTHER -> {}

GotIsCopy ==
  /\ \A i \in Read : Valid(got[i]) => copy[i] = got[i]
  /\ pc \in {"bak", "out"} /\ clean => \A i \in Read : copy[i] = got[i]
  /\ pc \in {"header", "body", "torn", "deliver"} => Status # {}
  /\ pc \in {"header", "body", "torn"} => Status # Copies

OneIsSafe ==
  ~risky => /\ \E i \in Copies : Safe(i)
            /\ pc \in {"body", "torn"} => Safe(Source)
            /\ wr = "header" => \A i \in Copies : Safe(i)
            /\ wr = "sync" => \A i \in Copies : Valid(copy[i])

Versions == {0} \cup durable..version

HeadersAreSaved ==
  /\ version # 0
  /\ durable <= version
  /\ \A i \in Copies : copy[i].hdr \in Versions /\ disk[i].hdr \in Versions
  /\ \A i \in Copies : (~copy[i].len => copy[i].hdr = 0) /\ (~disk[i].len => disk[i].hdr = 0)

NvInv == TypeOK /\ SaveAlone /\ GotIsCopy /\ OneIsSafe /\ HeadersAreSaved /\ ReadFindsSaved
=============================================================================
