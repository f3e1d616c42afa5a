---------------------------- MODULE NvReadProofs ----------------------------
(***************************************************************************)
(* Proofs about NvRead, for every number of saves and every budget of      *)
(* faults.                                                                 *)
(***************************************************************************)
EXTENDS NvRead, TLAPS

USE DEF Copies, Other, Faults

\* The states in which the daemon starts satisfy the inductive invariant.
LEMMA NvStart == Init => NvInv
<1> SUFFICES ASSUME Init PROVE NvInv
  OBVIOUS
<1>1. TypeOK
  BY FaultAssumption DEF Init, TypeOK, Copy
<1>2. SaveAlone /\ GotIsCopy
  BY DEF Init, SaveAlone, GotIsCopy, Read
<1>3. OneIsSafe /\ HeadersAreSaved /\ ReadFindsSaved
  BY DEF Init, OneIsSafe, HeadersAreSaved, Versions, ReadFindsSaved, Safe, Valid
<1> QED
  BY <1>1, <1>2, <1>3 DEF NvInv

\* A safe copy is a copy whose header is a version and can be allocated.
LEMMA SafeHasLength ==
  ASSUME NvInv, NEW i \in Copies, Valid(copy[i])
  PROVE  copy[i].len /\ copy[i].hdr \in durable..version
BY DEF NvInv, HeadersAreSaved, Versions, Valid, TypeOK, Copy

\* Steps that leave the copies alone keep what is said of them.
LEMMA CopiesStay ==
  ASSUME NvInv, UNCHANGED <<copy, disk, version, durable, risky>>
  PROVE  /\ HeadersAreSaved'
         /\ ~risky => \E i \in Copies : Safe(i)'
         /\ \A i \in Copies : Safe(i)' <=> Safe(i)
BY DEF NvInv, HeadersAreSaved, Versions, OneIsSafe, Safe, Valid

\* Every step of read_nv_partition keeps the invariant.
LEMMA NvCall == NvInv /\ Call => NvInv'
<1> SUFFICES ASSUME NvInv, Call PROVE NvInv'
  OBVIOUS
<1> USE DEF NvInv, Call, nvitemd
<1>1. TypeOK'
  BY DEF TypeOK
<1>2. SaveAlone' /\ GotIsCopy' /\ ReadFindsSaved'
  BY DEF SaveAlone, GotIsCopy, Read, ReadFindsSaved, Valid, TypeOK
<1>3. OneIsSafe' /\ HeadersAreSaved'
  BY CopiesStay DEF OneIsSafe
<1> QED
  BY <1>1, <1>2, <1>3

LEMMA NvReadCopy ==
  ASSUME NvInv, ReadOrg \/ ReadBak
  PROVE  NvInv'
<1> USE DEF NvInv, nvitemd, Return
<1>0. PICK i \in Copies : \E n \in {"bak", "out"} :
        /\ (i = 1 /\ pc = "org" /\ n = "bak") \/ (i = 2 /\ pc = "bak" /\ n = "out")
        /\ ReadCopy(i, n)
  BY DEF ReadOrg, ReadBak
<1>1. PICK n \in {"bak", "out"} :
        /\ (i = 1 /\ pc = "org" /\ n = "bak") \/ (i = 2 /\ pc = "bak" /\ n = "out")
        /\ ReadCopy(i, n)
  BY <1>0
<1>2. /\ copy' = copy /\ disk' = disk /\ out' = out /\ wr' = wr /\ todo' = todo
      /\ version' = version /\ durable' = durable /\ risky' = risky /\ wr = "idle"
  BY <1>1 DEF ReadCopy, SaveAlone
<1>3. copy[i] \in Copy /\ [copy[i] EXCEPT !.body = 0] \in Copy
  BY DEF TypeOK, Copy
<1>4. TypeOK'
  <2>1. left' \in [Faults -> Nat]
    BY <1>1 DEF ReadCopy, Spend, TypeOK
  <2>2. got' \in [Copies -> Copy]
    BY <1>1, <1>3 DEF ReadCopy, TypeOK
  <2> QED
    BY <1>1, <1>2, <2>1, <2>2 DEF ReadCopy, TypeOK
<1>5. pc' \in {"bak", "out", "done"}
  BY <1>1 DEF ReadCopy
<1>6. SaveAlone' /\ OneIsSafe' /\ HeadersAreSaved'
  BY <1>2, <1>5, CopiesStay DEF SaveAlone, OneIsSafe
<1>7. GotIsCopy'
  BY <1>1, <1>2, <1>3 DEF GotIsCopy, Read, ReadCopy, Valid, TypeOK, Copy
<1>8. ReadFindsSaved'
  BY <1>1, <1>2 DEF ReadFindsSaved, ReadCopy, TypeOK
<1> QED
  BY <1>4, <1>6, <1>7, <1>8

LEMMA NvDecide == NvInv /\ Decide => NvInv'
<1> SUFFICES ASSUME NvInv, Decide PROVE NvInv'
  OBVIOUS
<1> USE DEF NvInv, nvitemd, Return
<1>1. TypeOK'
  <2>1. left' \in [Faults -> Nat]
    BY DEF Decide, Spend, TypeOK
  <2> QED
    BY <2>1 DEF Decide, TypeOK
<1>2. pc' \in {"done", "deliver", "header"} /\ wr = "idle" /\ wr' = "idle"
  BY DEF Decide, SaveAlone
<1>3. SaveAlone' /\ OneIsSafe' /\ HeadersAreSaved'
  BY <1>2, CopiesStay DEF SaveAlone, OneIsSafe, Decide
<1>4. GotIsCopy'
  BY DEF GotIsCopy, Read, Decide, Valid, TypeOK, Copy, Status
<1>5. ReadFindsSaved'
  <2>1. CASE clean /\ Status = {} /\ ~risky
    <3>1. \A i \in Copies : copy[i] = got[i]
      BY <2>1 DEF GotIsCopy, Read, Decide
    <3>2. FALSE
      BY <2>1, <3>1 DEF OneIsSafe, Safe, Status
    <3> QED
      BY <3>2
  <2>2. CASE ~(clean /\ Status = {} /\ ~risky)
    BY <2>2 DEF ReadFindsSaved, Decide
  <2> QED
    BY <2>1, <2>2
<1> QED
  BY <1>1, <1>3, <1>4, <1>5

\* While a copy is repaired the source is valid and is not the one written.
LEMMA SourceIsValid ==
  ASSUME NvInv, pc \in {"header", "body", "torn", "deliver"}
  PROVE  /\ Source \in Copies
         /\ Damaged \in Copies
         /\ Damaged # Source
         /\ Valid(got[Source])
         /\ copy[Source] = got[Source]
         /\ got[Source].hdr \in durable..version
         /\ got[Source].len
         /\ pc # "deliver" => ~Valid(got[Damaged])
<1> USE DEF NvInv
<1>1. Source \in Status /\ Source \in Copies /\ Damaged \in Copies /\ Damaged # Source
  BY DEF GotIsCopy, Status, Source, Damaged
<1>2. Valid(got[Source]) /\ copy[Source] = got[Source]
  BY <1>1 DEF GotIsCopy, Status, Read
<1>3. got[Source].hdr \in durable..version /\ got[Source].len
  BY <1>1, <1>2, SafeHasLength
<1>4. ASSUME pc # "deliver" PROVE ~Valid(got[Damaged])
  BY <1>1, <1>4 DEF GotIsCopy, Status, Source, Damaged
<1> QED
  BY <1>1, <1>2, <1>3, <1>4

\* A step that changes nothing but the damaged copy keeps the invariant.
LEMMA NvRepair ==
  ASSUME NvInv, RepairHeader \/ RepairBodyBegins \/ RepairBodyEnds
  PROVE  NvInv'
<1> USE DEF NvInv, nvitemd
<1> DEFINE s == Source
           d == Damaged
<1>1. pc \in {"header", "body", "torn"} /\ wr = "idle"
  BY DEF RepairHeader, RepairBodyBegins, RepairBodyEnds, SaveAlone
<1>2. /\ s \in Copies /\ d \in Copies /\ d # s /\ Copies = {s, d}
      /\ Valid(got[s]) /\ copy[s] = got[s] /\ got[s].hdr \in durable..version
      /\ got[s].len /\ ~Valid(got[d])
  BY <1>1, SourceIsValid
<1>3. /\ got' = got /\ out' = out /\ result' = result /\ wr' = wr /\ todo' = todo
      /\ version' = version /\ durable' = durable /\ disk' = disk
      /\ pc' \in {"body", "torn", "deliver"}
      /\ risky' \in BOOLEAN
      /\ ~risky' => ~risky /\ (copy' # copy \/ pc' \in {"body", "torn"} => Safe(s))
  BY <1>1 DEF RepairHeader, RepairBodyBegins, RepairBodyEnds, RepairFails, OneIsSafe, TypeOK
<1>4. left' \in [Faults -> Nat] /\ clean' \in BOOLEAN
  <2>1. UNCHANGED <<clean, left>> \/ RepairFails
    BY DEF RepairHeader, RepairBodyBegins, RepairBodyEnds
  <2>2. left' \in [Faults -> Nat]
    BY <2>1 DEF RepairFails, Spend, TypeOK
  <2>3. clean' = clean \/ clean' = FALSE
    BY <2>1 DEF RepairFails
  <2>4. clean' \in BOOLEAN
    BY <2>3 DEF TypeOK
  <2> QED
    BY <2>2, <2>4
<1>5. \E c \in Copy :
        /\ copy' = [copy EXCEPT ![d] = c]
        /\ c.hdr \in Versions
        /\ ~c.len => c.hdr = 0
  <2>0. copy[d] \in Copy /\ got[s] \in Copy /\ copy[d].hdr \in Versions
        /\ (~copy[d].len => copy[d].hdr = 0) /\ got[s].hdr \in Versions
    BY <1>2 DEF TypeOK, HeadersAreSaved, Versions
  <2>1. CASE copy' = copy
    <3>1. copy' = [copy EXCEPT ![d] = copy[d]]
      BY <1>2, <2>1 DEF TypeOK
    <3> QED
      BY <2>0, <3>1
  <2>2. CASE RepairHeader /\ copy' # copy
    <3> DEFINE c == [got[s] EXCEPT !.body = copy[d].body]
    <3>1. copy' = [copy EXCEPT ![d] = c]
      BY <2>2 DEF RepairHeader
    <3>2. c \in Copy /\ c.hdr = got[s].hdr /\ c.len
      BY <1>2, <2>0 DEF Copy
    <3> QED
      BY <2>0, <3>1, <3>2
  <2>3. CASE RepairBodyBegins
    <3> DEFINE c == [copy[d] EXCEPT !.body = 0]
    <3>1. copy' = [copy EXCEPT ![d] = c]
      BY <2>3 DEF RepairBodyBegins
    <3>2. c \in Copy /\ c.hdr = copy[d].hdr /\ c.len = copy[d].len
      BY <2>0 DEF Copy
    <3> QED
      BY <2>0, <3>1, <3>2
  <2>4. CASE RepairBodyEnds /\ copy' # copy
    <3> DEFINE c == [copy[d] EXCEPT !.body = got[s].body]
    <3>1. copy' = [copy EXCEPT ![d] = c]
      BY <2>4 DEF RepairBodyEnds
    <3>2. c \in Copy /\ c.hdr = copy[d].hdr /\ c.len = copy[d].len
      BY <2>0 DEF Copy
    <3> QED
      BY <2>0, <3>1, <3>2
  <2> QED
    BY <2>1, <2>2, <2>3, <2>4
<1>6. PICK c \in Copy :
        /\ copy' = [copy EXCEPT ![d] = c]
        /\ c.hdr \in Versions
        /\ ~c.len => c.hdr = 0
  BY <1>5
<1>7. copy'[s] = copy[s] /\ copy'[d] = c /\ copy' \in [Copies -> Copy]
  BY <1>2, <1>6 DEF TypeOK
<1>8. TypeOK'
  BY <1>3, <1>4, <1>7 DEF TypeOK
<1>9. SaveAlone'
  BY <1>1, <1>3 DEF SaveAlone
<1>10. HeadersAreSaved'
  BY <1>2, <1>3, <1>6, <1>7 DEF HeadersAreSaved, Versions
<1>11. OneIsSafe'
  <2> SUFFICES ASSUME ~risky' PROVE (\E i \in Copies : Safe(i)') /\
                                   (pc' \in {"body", "torn"} => Safe(Source)')
    BY <1>1, <1>3 DEF OneIsSafe
  <2>1. Source' = s
    BY <1>3 DEF Source, Status
  <2>2. PICK k \in Copies : k = s
    BY <1>2
  <2>3. Safe(k) => Safe(k)'
    BY <1>2, <1>3, <1>7, <2>2 DEF Safe, Valid
  <2>4. Safe(Source)' <=> Safe(k)'
    BY <2>1, <2>2 DEF Safe
  <2>5. copy' = copy => \A i \in Copies : Safe(i) => Safe(i)'
    BY <1>3 DEF Safe, Valid
  <2>6. CASE copy' # copy \/ pc' \in {"body", "torn"}
    BY <2>2, <2>3, <2>4, <2>6, <1>3
  <2>7. CASE copy' = copy /\ pc' \notin {"body", "torn"}
    BY <2>5, <2>7, <1>3 DEF OneIsSafe
  <2> QED
    BY <2>6, <2>7
<1>12. GotIsCopy'
  <2>1. \A i \in Copies : Valid(got[i]) => i = s
    BY <1>2
  <2>2. Status' = Status
    BY <1>3 DEF Status
  <2> QED
    BY <1>1, <1>2, <1>3, <1>7, <2>1, <2>2 DEF GotIsCopy, Read, Valid
<1>13. ReadFindsSaved'
  BY <1>3 DEF ReadFindsSaved
<1> QED
  BY <1>8, <1>9, <1>10, <1>11, <1>12, <1>13

LEMMA NvDeliver == NvInv /\ Deliver => NvInv'
<1> SUFFICES ASSUME NvInv, Deliver PROVE NvInv'
  OBVIOUS
<1> USE DEF NvInv, nvitemd, Return
<1>1. TypeOK'
  <2>1. left' \in [Faults -> Nat]
    BY DEF Deliver, Spend, TypeOK
  <2>2. got[Source].body \in Nat
    BY SourceIsValid DEF Deliver, TypeOK, Copy
  <2> QED
    BY <2>1, <2>2 DEF Deliver, TypeOK
<1>2. pc' = "done" /\ wr = "idle" /\ wr' = "idle"
  BY DEF Deliver, SaveAlone
<1>3. SaveAlone' /\ OneIsSafe' /\ HeadersAreSaved'
  BY <1>2, CopiesStay DEF SaveAlone, OneIsSafe, Deliver
<1>4. GotIsCopy' /\ ReadFindsSaved'
  BY DEF GotIsCopy, Read, Deliver, ReadFindsSaved
<1> QED
  BY <1>1, <1>3, <1>4

-----------------------------------------------------------------------------
\* Every step of nvitemd keeps the invariant.
LEMMA NvSaveBegins == NvInv /\ SaveBegins => NvInv'
<1> SUFFICES ASSUME NvInv, SaveBegins PROVE NvInv'
  OBVIOUS
<1> USE DEF NvInv, daemon, SaveBegins
<1>1. TypeOK'
  BY DEF TypeOK
<1>2. SaveAlone' /\ GotIsCopy'
  BY DEF SaveAlone, GotIsCopy, Read
<1>3. OneIsSafe'
  BY DEF OneIsSafe, Safe, Valid
<1>4. HeadersAreSaved'
  BY DEF HeadersAreSaved, Versions, TypeOK, Copy
<1>5. ReadFindsSaved'
  BY DEF ReadFindsSaved
<1> QED
  BY <1>1, <1>2, <1>3, <1>4, <1>5

LEMMA NvSaveHeader ==
  ASSUME NvInv, NEW i \in Copies, SaveHeader(i)
  PROVE  NvInv'
<1> USE DEF NvInv, daemon
<1> DEFINE c == [hdr |-> version, len |-> TRUE, body |-> copy[i].body]
<1>1. /\ wr = "header" /\ wr' = "body" /\ todo' = todo \ {i} /\ pc = "done"
      /\ copy' = [copy EXCEPT ![i] = c]
      /\ UNCHANGED <<disk, version, durable, risky, daemon>>
  BY DEF SaveHeader, SaveAlone
<1>2. c \in Copy /\ c.hdr = version /\ c.len
  BY DEF TypeOK, Copy
<1>3. /\ copy' \in [Copies -> Copy] /\ copy'[i] = c
      /\ \A j \in Copies \ {i} : copy'[j] = copy[j]
  BY <1>1, <1>2 DEF TypeOK
<1>4. TypeOK'
  BY <1>1, <1>3 DEF TypeOK
<1>5. SaveAlone' /\ GotIsCopy'
  BY <1>1, <1>2, <1>3 DEF SaveAlone, GotIsCopy, Read
<1>6. OneIsSafe'
  <2>1. PICK j \in Copies : j # i
    OBVIOUS
  <2> QED
    BY <1>1, <1>3, <2>1 DEF OneIsSafe, Safe, Valid
<1>7. HeadersAreSaved'
  BY <1>1, <1>2, <1>3 DEF HeadersAreSaved, Versions, TypeOK
<1>8. ReadFindsSaved'
  <2>1. ASSUME ~risky PROVE \A j \in Copies : copy[j].len
    BY <1>1, <2>1, SafeHasLength DEF OneIsSafe, Safe
  <2> QED
    BY <1>1, <2>1 DEF ReadFindsSaved
<1> QED
  BY <1>4, <1>5, <1>6, <1>7, <1>8

LEMMA NvSaveBody ==
  ASSUME NvInv, NEW i \in Copies, SaveBodyBegins(i) \/ SaveBodyEnds(i)
  PROVE  NvInv'
<1> USE DEF NvInv, daemon
<1>1. PICK b \in {0, version} :
        /\ copy' = [copy EXCEPT ![i].body = b]
        /\ b = version <=> SaveBodyEnds(i)
  <2>1. version # 0
    BY DEF HeadersAreSaved
  <2> QED
    BY <2>1 DEF SaveBodyBegins, SaveBodyEnds
<1>2. /\ wr \in {"body", "torn"} /\ pc = "done" /\ Saving(i)
      /\ UNCHANGED <<disk, todo, version, durable, risky, daemon>>
      /\ wr' \in {"torn", "sync"}
      /\ wr' = "sync" => SaveBodyEnds(i)
  BY DEF SaveBodyBegins, SaveBodyEnds, SaveAlone
<1>3. ~Valid(copy[i]) /\ copy[i].hdr = version
  BY <1>2 DEF Saving, Valid
<1>4. /\ copy' \in [Copies -> Copy] /\ copy'[i].hdr = version /\ copy'[i].body = b
      /\ copy'[i].len = copy[i].len
      /\ \A j \in Copies \ {i} : copy'[j] = copy[j]
  BY <1>1, <1>3 DEF TypeOK, Copy
<1>5. TypeOK'
  BY <1>2, <1>4 DEF TypeOK
<1>6. SaveAlone' /\ GotIsCopy'
  BY <1>2, <1>3, <1>4 DEF SaveAlone, GotIsCopy, Read
<1>7. OneIsSafe'
  <2> SUFFICES ASSUME ~risky PROVE (\E j \in Copies : Safe(j)') /\
                                  (wr' = "sync" => \A j \in Copies : Valid(copy'[j]))
    BY <1>2 DEF OneIsSafe, Valid
  <2>1. PICK j \in Copies : Safe(j) /\ j # i
    BY <1>3 DEF OneIsSafe, Safe
  <2>2. Safe(j)' /\ Valid(copy'[j]) /\ Copies = {i, j}
    BY <1>2, <1>4, <2>1 DEF Safe, Valid
  <2>3. wr' = "sync" => Valid(copy'[i])
    BY <1>1, <1>2, <1>4 DEF Valid, HeadersAreSaved
  <2> QED
    BY <2>2, <2>3
<1>8. HeadersAreSaved'
  BY <1>2, <1>3, <1>4 DEF HeadersAreSaved, Versions
<1>9. ReadFindsSaved'
  BY <1>2, <1>4 DEF ReadFindsSaved
<1> QED
  BY <1>5, <1>6, <1>7, <1>8, <1>9

LEMMA NvSaveSynced == NvInv /\ SaveSynced => NvInv'
<1> SUFFICES ASSUME NvInv, SaveSynced PROVE NvInv'
  OBVIOUS
<1> USE DEF NvInv, daemon
<1>1. /\ wr = "sync" /\ pc = "done" /\ disk = copy
      /\ UNCHANGED <<copy, disk, todo, version, risky, daemon>>
      /\ wr' \in {"idle", "header"}
      /\ durable' = durable \/ (durable' = version /\ todo = {})
  BY DEF SaveSynced, SaveAlone
<1>2. TypeOK' /\ SaveAlone' /\ GotIsCopy' /\ ReadFindsSaved'
  BY <1>1 DEF TypeOK, SaveAlone, GotIsCopy, Read, ReadFindsSaved
<1>3. OneIsSafe'
  BY <1>1 DEF OneIsSafe, Safe, Valid
<1>4. HeadersAreSaved'
  <2>1. CASE durable' = durable
    BY <1>1, <2>1 DEF HeadersAreSaved, Versions
  <2>2. CASE durable' = version /\ todo = {}
    <3>1. \A i \in Copies : copy[i].hdr = version
      BY <1>1, <2>2 DEF SaveAlone
    <3>2. version \in version..version
      BY DEF TypeOK
    <3> QED
      BY <1>1, <2>2, <3>1, <3>2 DEF HeadersAreSaved, Versions, TypeOK
  <2> QED
    BY <1>1, <2>1, <2>2
<1> QED
  BY <1>2, <1>3, <1>4

\* Stopping nvitemd, writing back, a power failure and damage keep the invariant.
LEMMA NvStopped == NvInv /\ NvitemdStopped => NvInv'
<1> SUFFICES ASSUME NvInv, NvitemdStopped PROVE NvInv'
  OBVIOUS
<1> USE DEF NvInv, daemon, NvitemdStopped
<1>1. TypeOK' /\ SaveAlone' /\ GotIsCopy' /\ ReadFindsSaved'
  BY DEF TypeOK, SaveAlone, GotIsCopy, Read, ReadFindsSaved
<1>2. pc' = "done" /\ wr' = "idle"
  BY DEF SaveAlone
<1>3. OneIsSafe' /\ HeadersAreSaved'
  BY <1>2, CopiesStay DEF OneIsSafe
<1> QED
  BY <1>1, <1>3

LEMMA NvWriteBack ==
  ASSUME NvInv, NEW i \in Copies, WriteBack(i)
  PROVE  NvInv'
<1> USE DEF NvInv, daemon, nvitemd
<1>1. /\ disk[i] # copy[i]
      /\ UNCHANGED <<copy, got, pc, out, result, wr, todo, version, durable, clean, risky, left>>
  BY DEF WriteBack
<1>2. copy[i] \in Copy /\ disk[i] \in Copy
  BY DEF TypeOK
<1>3. PICK c \in Copy :
        /\ disk' = [disk EXCEPT ![i] = c]
        /\ \/ c.hdr = copy[i].hdr /\ c.len = copy[i].len
           \/ c.hdr = disk[i].hdr /\ c.len = disk[i].len
  <2>1. CASE disk' = [disk EXCEPT ![i] = [copy[i] EXCEPT !.body = disk[i].body]]
    <3> DEFINE e == [copy[i] EXCEPT !.body = disk[i].body]
    <3>1. e \in Copy /\ e.hdr = copy[i].hdr /\ e.len = copy[i].len
      BY <1>2 DEF Copy
    <3> QED
      BY <2>1, <3>1
  <2>2. CASE \E b \in {0, copy[i].body} : disk' = [disk EXCEPT ![i].body = b]
    <3>1. PICK b \in {0, copy[i].body} : disk' = [disk EXCEPT ![i].body = b]
      BY <2>2
    <3> DEFINE e == [disk[i] EXCEPT !.body = b]
    <3>2. e \in Copy /\ e.hdr = disk[i].hdr /\ e.len = disk[i].len
      BY <1>2 DEF Copy
    <3>3. disk' = [disk EXCEPT ![i] = e]
      BY <3>1
    <3> QED
      BY <3>2, <3>3
  <2> QED
    BY <2>1, <2>2 DEF WriteBack
<1>4. /\ disk' \in [Copies -> Copy] /\ disk'[i] = c
      /\ \A j \in Copies \ {i} : disk'[j] = disk[j]
  BY <1>3 DEF TypeOK
<1>5. TypeOK'
  BY <1>1, <1>4 DEF TypeOK
<1>6. SaveAlone' /\ GotIsCopy' /\ ReadFindsSaved'
  BY <1>1 DEF SaveAlone, GotIsCopy, Read, Status, ReadFindsSaved, Valid
<1>7. HeadersAreSaved'
  BY <1>1, <1>3, <1>4 DEF HeadersAreSaved, Versions
<1>8. OneIsSafe'
  <2>1. \A j \in Copies : Safe(j) => Safe(j)'
    BY <1>1, <1>4 DEF Safe, Valid
  <2>2. Source' = Source /\ Source \in Copies
    BY <1>1 DEF Source, Status
  <2>3. \A j \in Copies : Valid(copy[j]) => Valid(copy'[j])
    BY <1>1
  <2> QED
    BY <1>1, <2>1, <2>2, <2>3 DEF OneIsSafe, Valid
<1> QED
  BY <1>5, <1>6, <1>7, <1>8

LEMMA NvCrash == NvInv /\ Crash => NvInv'
<1> SUFFICES ASSUME NvInv, Crash PROVE NvInv'
  OBVIOUS
<1> USE DEF NvInv, Crash
<1>1. TypeOK' /\ SaveAlone' /\ GotIsCopy' /\ ReadFindsSaved'
  BY DEF TypeOK, SaveAlone, GotIsCopy, Read, ReadFindsSaved
<1>2. OneIsSafe' /\ HeadersAreSaved'
  BY DEF OneIsSafe, HeadersAreSaved, Versions, Safe, Valid
<1> QED
  BY <1>1, <1>2

LEMMA NvDamage ==
  ASSUME NvInv, NEW i \in Copies, Damage(i)
  PROVE  NvInv'
<1> USE DEF NvInv
<1>1. /\ pc = "idle" /\ wr = "idle" /\ disk = copy
      /\ \A j \in Copies : Valid(copy[j])
      /\ UNCHANGED <<got, pc, out, result, wr, todo, version, durable, clean, risky>>
      /\ disk' = copy'
  BY DEF Damage, SaveAlone
<1>2. left' \in [Faults -> Nat]
  BY DEF Damage, Spend, TypeOK
<1>3. /\ copy' \in [Copies -> Copy]
      /\ copy'[i].hdr \in Versions
      /\ ~copy'[i].len => copy'[i].hdr = 0
      /\ \A j \in Copies \ {i} : copy'[j] = copy[j]
  BY <1>1 DEF Damage, TypeOK, Copy, HeadersAreSaved, Versions
<1>4. TypeOK' /\ SaveAlone' /\ GotIsCopy' /\ ReadFindsSaved'
  BY <1>1, <1>2, <1>3 DEF TypeOK, SaveAlone, GotIsCopy, Read, ReadFindsSaved
<1>5. HeadersAreSaved'
  BY <1>1, <1>3 DEF HeadersAreSaved, Versions
<1>6. OneIsSafe'
  <2>1. PICK j \in Copies : j # i
    OBVIOUS
  <2> QED
    BY <1>1, <1>3, <2>1 DEF OneIsSafe, Safe, Valid
<1> QED
  BY <1>4, <1>5, <1>6

LEMMA NvStep == NvInv /\ [Next]_vars => NvInv'
<1> SUFFICES ASSUME NvInv, [Next]_vars PROVE NvInv'
  OBVIOUS
<1>1. CASE ReadNvPartition
  BY <1>1, NvCall, NvReadCopy, NvDecide, NvRepair, NvDeliver DEF ReadNvPartition
<1>2. CASE Nvitemd
  BY <1>2, NvSaveBegins, NvSaveHeader, NvSaveBody, NvSaveSynced DEF Nvitemd
<1>3. CASE NvitemdStopped \/ Crash
  BY <1>3, NvStopped, NvCrash
<1>4. CASE \E i \in Copies : WriteBack(i) \/ Damage(i)
  BY <1>4, NvWriteBack, NvDamage
<1>5. CASE UNCHANGED vars
  BY <1>5 DEF vars, NvInv, TypeOK, SaveAlone, GotIsCopy, Read, Status, OneIsSafe, Source,
              HeadersAreSaved, Versions, ReadFindsSaved, Safe, Valid
<1> QED
  BY <1>1, <1>2, <1>3, <1>4, <1>5 DEF Next

-----------------------------------------------------------------------------
LEMMA NvInvariant == Spec => []NvInv
BY NvStart, NvStep, PTL DEF Spec

(***************************************************************************)
(* The copies, the call of read_nv_partition and the save of nvitemd keep  *)
(* their types through every fault.                                        *)
(***************************************************************************)
THEOREM NvTypeCorrect == Spec => []TypeOK
<1>1. NvInv => TypeOK
  BY DEF NvInv
<1> QED
  BY <1>1, NvInvariant, PTL

(***************************************************************************)
(* read_nv_partition, which repairs copies, and nvitemd, which saves them, *)
(* never destroy the last valid copy on the disk, wherever the power fails *)
(* and whatever part of their writes had been written back, unless one of  *)
(* them began to overwrite a copy while the other was not safe.            *)
(***************************************************************************)
THEOREM NvIsKept == Spec => []NvNotLost
<1>1. NvInv => NvNotLost
  BY DEF NvInv, NvNotLost, OneIsSafe, Safe
<1> QED
  BY <1>1, NvInvariant, PTL

(***************************************************************************)
(* One valid copy is enough for read_nv_partition to succeed: a damaged    *)
(* one does not make the call fail, unless a copy was overwritten while    *)
(* the other was not safe.                                                 *)
(***************************************************************************)
THEOREM OneCopySuffices == Spec => []ReadFindsSaved
<1>1. NvInv => ReadFindsSaved
  BY DEF NvInv
<1> QED
  BY <1>1, NvInvariant, PTL

(***************************************************************************)
(* What a successful call gives to the modem is a complete version, not    *)
(* older than the last one that reached the disk in both copies.           *)
(***************************************************************************)
THEOREM NvDelivered == Spec => DeliversSaved
<1>1. NvInv /\ [Next]_vars =>
        [pc = "deliver" /\ pc' = "done" /\ result'
           => out' \in durable..version /\ out' # 0]_vars
  <2> SUFFICES ASSUME NvInv, Next, pc = "deliver", pc' = "done", result'
               PROVE  out' \in durable..version /\ out' # 0
    BY DEF vars
  <2>1. Valid(got[Source]) /\ got[Source].hdr \in durable..version
    BY SourceIsValid
  <2>2. Deliver
    BY DEF Next, ReadNvPartition, Call, ReadOrg, ReadBak, Decide, RepairHeader,
           RepairBodyBegins, RepairBodyEnds, Nvitemd, SaveBegins, SaveHeader,
           SaveBodyBegins, SaveBodyEnds, SaveSynced, NvitemdStopped, WriteBack, Crash,
           Damage, NvInv, SaveAlone, daemon
  <2>3. out' = got[Source].body
    BY <2>2 DEF Deliver, Return
  <2> QED
    BY <2>1, <2>3 DEF Valid
<1> QED
  BY <1>1, NvInvariant, PTL DEF Spec, DeliversSaved
=============================================================================
